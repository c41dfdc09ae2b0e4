------------------------------- MODULE Assets -------------------------------
(***************************************************************************)
(* The files of boards: the upload and evidence-table routes of            *)
(* server/app.ts with the board_assets table of server/auth-db.ts.         *)
(*                                                                         *)
(* A route writes its file and then registers it, and waits for the disk   *)
(* in between: other requests run meanwhile, and the process may stop.     *)
(***************************************************************************)
EXTENDS Integers, FiniteSets

CONSTANTS
  Callers,         \* requests that may be in flight
  Boards,
  NoBoard,
  UploadNames,     \* the names that people's uploads have
  TableNames,      \* the names that the evidence-table route generates
  MaxTables        \* maxTableArtifactsPerBoard

ASSUME AssetsAssumption ==
  /\ NoBoard \notin Boards
  /\ UploadNames \cap TableNames = {}
  /\ IsFiniteSet(TableNames)
  /\ MaxTables \in Nat

Names == UploadNames \cup TableNames

VARIABLES
  files,           \* the asset directory: for which board a file was written
  assets,          \* board_assets: the boards that registered a name
  route            \* where each request is

assetVars == <<files, assets, route>>

Idle == [stage |-> "idle", board |-> NoBoard, name |-> "none"]

InitAssets ==
  /\ files = [n \in Names |-> NoBoard]
  /\ assets = [n \in Names |-> {}]
  /\ route = [c \in Callers |-> Idle]

\* countBoardAssetsWithPrefix
CountTables(board) == Cardinality({t \in TableNames : board \in assets[t]})

\* assetBelongsToBoard
AssetBelongsToBoard(name, board) == name \in Names /\ board \in assets[name]

\* canReadAsset, for a member of the board.
CanReadAsset(name, board) == board \in assets[name]

\* GET /api/boards/:boardId/assets/:uploadId, for a member of the board.
Served(name, board) == CanReadAsset(name, board) /\ files[name] # NoBoard

\* existsSync finds no file of that name, and the write begins.
StartUpload(c, board, name) ==
  /\ route[c] = Idle
  /\ files[name] = NoBoard
  /\ route' = [route EXCEPT ![c] = [stage |-> "writing", board |-> board, name |-> name]]
  /\ UNCHANGED <<files, assets>>

\* A table that passes the schema gets a name of its own.
StartTable(c, board, name) ==
  /\ route[c] = Idle
  /\ files[name] = NoBoard
  /\ \A other \in Callers : route[other].name # name
  /\ route' = [route EXCEPT ![c] = [stage |-> "writing", board |-> board, name |-> name]]
  /\ UNCHANGED <<files, assets>>

\* Whether a write replaces a file that appeared since.
Overwrites(name) == TRUE

\* flag 'wx': the write fails if there is a file by now.
MayWrite(name) == files[name] = NoBoard

WriteFile(c) ==
  /\ route[c].stage = "writing"
  /\ IF MayWrite(route[c].name)
       THEN /\ files' = [files EXCEPT ![route[c].name] = route[c].board]
            /\ route' = [route EXCEPT ![c].stage = "written"]
       ELSE /\ route' = [route EXCEPT ![c] = Idle]
            /\ UNCHANGED files
  /\ UNCHANGED assets

\* INSERT OR IGNORE, with the upload and the board as the key: a name that is
\* registered stays open to other boards.
Registered(name, board) == [assets EXCEPT ![name] = @ \cup {board}]

\* registerBoardAsset, after an upload.
RegisterUpload(c) ==
  /\ route[c].stage = "written"
  /\ route[c].name \in UploadNames
  /\ assets' = Registered(route[c].name, route[c].board)
  /\ route' = [route EXCEPT ![c] = Idle]
  /\ UNCHANGED files

\* registerBoardAssetIfUnderCap: count and insertion in one transaction.
UnderCap(board) == CountTables(board) < MaxTables

RegisterTable(c) ==
  /\ route[c].stage = "written"
  /\ route[c].name \in TableNames
  /\ IF UnderCap(route[c].board)
       THEN /\ assets' = Registered(route[c].name, route[c].board)
            /\ route' = [route EXCEPT ![c] = Idle]
       ELSE /\ route' = [route EXCEPT ![c].stage = "refused"]
            /\ UNCHANGED assets
  /\ UNCHANGED files

\* The file of a table that was refused is removed.
Unlink(c) ==
  /\ route[c].stage = "refused"
  /\ files' = [files EXCEPT ![route[c].name] = NoBoard]
  /\ route' = [route EXCEPT ![c] = Idle]
  /\ UNCHANGED assets

\* The process stops: what is on disk stays, and no request goes on.
CrashAssets ==
  /\ \E c \in Callers : route[c] # Idle
  /\ route' = [c \in Callers |-> Idle]
  /\ UNCHANGED <<files, assets>>

NextAssets ==
  \/ \E c \in Callers :
       \/ \E b \in Boards, n \in UploadNames : StartUpload(c, b, n)
       \/ \E b \in Boards, n \in TableNames : StartTable(c, b, n)
       \/ WriteFile(c) \/ RegisterUpload(c) \/ RegisterTable(c) \/ Unlink(c)
  \/ CrashAssets

SpecAssets == InitAssets /\ [][NextAssets]_assetVars

\* What a board registered is served on it, and is the file that was written for
\* it and for no other, whoever uploads under the same name at the same time and
\* wherever the process stops: board_assets itself lets two boards have a name.
AssetsAreTheirBoards ==
  \A n \in Names, b \in Boards :
    b \in assets[n] => Served(n, b) /\ files[n] = b

\* Requests in flight together do not take a board over its number of tables.
TablesAreCapped == \A b \in Boards : CountTables(b) <= MaxTables
=============================================================================
