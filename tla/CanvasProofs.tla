---------------------------- MODULE CanvasProofs ----------------------------
(***************************************************************************)
(* Proofs about module Canvas, for any boards, shapes, entities, lengths   *)
(* of requests and numbers of edits.                                       *)
(*                                                                         *)
(* What holds of a board holds of the copy a request works on: the         *)
(* invariants are stated once of any page, bindings and entities, and used *)
(* of both.  What the layout core computes is proved from its recursive     *)
(* functions: each has the values its equations give it because what it     *)
(* recurs along has a least element.                                        *)
(***************************************************************************)
EXTENDS Canvas, FiniteSetTheorems, WellFoundedInduction, TLAPS

-----------------------------------------------------------------------------
(* Uploads and tables, for any number of requests, names and any cap.  What *)
(* a board registered is the file written for it because a file is written  *)
(* once: between the write and the registration a request holds its name,   *)
(* alone, and nothing is registered under it.                               *)

RouteStates ==
  [stage : {"writing", "written", "refused"}, board : Boards, name : Names] \cup {Idle}

AssetTypes ==
  /\ files \in [Names -> Boards \cup {NoBoard}]
  /\ assets \in [Names -> SUBSET Boards]
  /\ route \in [Callers -> RouteStates]

\* A request whose file is on disk and not registered yet.
Holds(c) == route[c].stage \in {"written", "refused"}

HoldsAlone ==
  \A c \in Callers :
    Holds(c) =>
      /\ files[route[c].name] = route[c].board
      /\ assets[route[c].name] = {}
      /\ \A d \in Callers : Holds(d) /\ route[d].name = route[c].name => d = c

AssetsInv == AssetTypes /\ HoldsAlone /\ AssetsAreTheirBoards

\* A request that is somewhere has a board and a name.
LEMMA RouteTyped ==
  ASSUME AssetTypes, NEW c \in Callers, route[c].stage # "idle"
  PROVE  route[c].board \in Boards /\ route[c].name \in Names
BY DEF AssetTypes, RouteStates, Idle

LEMMA AssetsInit == ASSUME AssetsAssumption, InitAssets PROVE AssetsInv
<1>1. AssetTypes
  BY DEF InitAssets, AssetTypes, RouteStates
<1>2. HoldsAlone
  BY DEF InitAssets, HoldsAlone, Holds, Idle
<1>3. AssetsAreTheirBoards
  BY DEF InitAssets, AssetsAreTheirBoards
<1>. QED
  BY <1>1, <1>2, <1>3 DEF AssetsInv

LEMMA StartKeeps ==
  ASSUME AssetsInv, NEW c \in Callers, NEW b \in Boards, NEW n \in Names,
         StartUpload(c, b, n) \/ StartTable(c, b, n)
  PROVE  AssetsInv'
<1>1. /\ route' = [route EXCEPT ![c] = [stage |-> "writing", board |-> b, name |-> n]]
      /\ UNCHANGED <<files, assets>>
  BY DEF StartUpload, StartTable
<1>2. AssetTypes'
  BY <1>1 DEF AssetsInv, AssetTypes, RouteStates
<1>3. \A d \in Callers : Holds(d)' => Holds(d) /\ route'[d] = route[d]
  BY <1>1 DEF AssetsInv, AssetTypes, Holds
<1>4. HoldsAlone'
  BY <1>1, <1>3 DEF AssetsInv, HoldsAlone
<1>5. AssetsAreTheirBoards'
  BY <1>1 DEF AssetsInv, AssetsAreTheirBoards, Served, CanReadAsset
<1>. QED
  BY <1>2, <1>4, <1>5 DEF AssetsInv

LEMMA WriteKeeps ==
  ASSUME AssetsAssumption, AssetsInv, NEW c \in Callers, WriteFile(c)
  PROVE  AssetsInv'
<1> DEFINE n == route[c].name
<1>1. route[c].stage = "writing" /\ assets' = assets
  BY DEF WriteFile
<1>2. route[c].board \in Boards /\ n \in Names
  BY <1>1, RouteTyped DEF AssetsInv
<1>3. CASE files[n] = NoBoard
  <2>1. /\ files' = [files EXCEPT ![n] = route[c].board]
        /\ route' = [route EXCEPT ![c].stage = "written"]
    BY <1>3 DEF WriteFile, MayWrite
  <2>2. [route[c] EXCEPT !.stage = "written"] \in RouteStates
    BY <1>1 DEF AssetsInv, AssetTypes, RouteStates, Idle
  <2>3. AssetTypes'
    BY <1>1, <1>2, <2>1, <2>2 DEF AssetsInv, AssetTypes
  <2>4. assets[n] = {}
    BY <1>2, <1>3 DEF AssetsInv, AssetTypes, AssetsAreTheirBoards, Served
  <2>5. \A d \in Callers : Holds(d) => route[d].name # n
    BY <1>3, RouteTyped, AssetsAssumption DEF AssetsInv, HoldsAlone, Holds
  <2>6. /\ route'[c].name = n /\ route'[c].board = route[c].board
        /\ \A d \in Callers \ {c} : route'[d] = route[d]
    BY <1>1, <2>1 DEF AssetsInv, AssetTypes, RouteStates, Idle
  <2>7. HoldsAlone'
    <3> SUFFICES ASSUME NEW d \in Callers, Holds(d)'
                 PROVE  /\ files'[route'[d].name] = route'[d].board
                        /\ assets'[route'[d].name] = {}
                        /\ \A e \in Callers : Holds(e)' /\ route'[e].name = route'[d].name => e = d
      BY DEF HoldsAlone
    <3>1. CASE d = c
      BY <1>1, <1>2, <2>1, <2>4, <2>5, <2>6, <3>1 DEF AssetsInv, AssetTypes, Holds
    <3>2. CASE d # c
      <4>1. Holds(d) /\ route'[d] = route[d] /\ route[d].name # n
        BY <2>5, <2>6, <3>2 DEF Holds
      <4>2. files'[route[d].name] = files[route[d].name]
        BY <2>1, <4>1 DEF AssetsInv, AssetTypes
      <4>3. \A e \in Callers : Holds(e)' /\ route'[e].name = route'[d].name => e = d
        BY <2>6, <4>1 DEF AssetsInv, HoldsAlone, Holds
      <4>. QED
        BY <1>1, <4>1, <4>2, <4>3 DEF AssetsInv, HoldsAlone
    <3>. QED
      BY <3>1, <3>2
  <2>8. AssetsAreTheirBoards'
    <3> SUFFICES ASSUME NEW m \in Names, NEW b \in Boards, b \in assets'[m]
                 PROVE  Served(m, b)' /\ files'[m] = b
      BY DEF AssetsAreTheirBoards
    <3>1. m # n /\ b \in assets[m]
      BY <1>1, <2>4
    <3>2. files'[m] = files[m]
      BY <2>1, <3>1 DEF AssetsInv, AssetTypes
    <3>. QED
      BY <1>1, <3>1, <3>2 DEF AssetsInv, AssetsAreTheirBoards, Served, CanReadAsset
  <2>. QED
    BY <2>3, <2>7, <2>8 DEF AssetsInv
<1>4. CASE files[n] # NoBoard
  <2>1. files' = files /\ route' = [route EXCEPT ![c] = Idle]
    BY <1>4 DEF WriteFile, MayWrite
  <2>2. AssetTypes'
    BY <1>1, <2>1 DEF AssetsInv, AssetTypes, RouteStates
  <2>3. \A d \in Callers : Holds(d)' => Holds(d) /\ route'[d] = route[d]
    BY <2>1 DEF AssetsInv, AssetTypes, Holds, Idle
  <2>4. HoldsAlone'
    BY <1>1, <2>1, <2>3 DEF AssetsInv, HoldsAlone
  <2>5. AssetsAreTheirBoards'
    BY <1>1, <2>1 DEF AssetsInv, AssetsAreTheirBoards, Served, CanReadAsset
  <2>. QED
    BY <2>2, <2>4, <2>5 DEF AssetsInv
<1>. QED
  BY <1>3, <1>4

LEMMA RegisterKeeps ==
  ASSUME AssetsAssumption, AssetsInv, NEW c \in Callers, route[c].stage = "written",
         assets' = Registered(route[c].name, route[c].board),
         route' = [route EXCEPT ![c] = Idle], UNCHANGED files
  PROVE  AssetsInv'
<1> DEFINE n == route[c].name
           owner == route[c].board
<1>1. owner \in Boards /\ n \in Names
  BY RouteTyped DEF AssetsInv
<1>2. Holds(c) /\ files[n] = owner /\ assets[n] = {}
  BY DEF AssetsInv, HoldsAlone, Holds
<1>3. assets' = [assets EXCEPT ![n] = {owner}]
  BY <1>1, <1>2 DEF Registered, AssetsInv, AssetTypes
<1>4. AssetTypes'
  BY <1>1, <1>3 DEF AssetsInv, AssetTypes, RouteStates
<1>5. \A d \in Callers : Holds(d)' => Holds(d) /\ route'[d] = route[d] /\ d # c
  BY DEF AssetsInv, AssetTypes, Holds, Idle
<1>6. HoldsAlone'
  <2> SUFFICES ASSUME NEW d \in Callers, Holds(d)'
               PROVE  /\ files'[route'[d].name] = route'[d].board
                      /\ assets'[route'[d].name] = {}
                      /\ \A e \in Callers : Holds(e)' /\ route'[e].name = route'[d].name => e = d
    BY DEF HoldsAlone
  <2>1. Holds(d) /\ route'[d] = route[d] /\ route[d].name # n
    BY <1>2, <1>5 DEF AssetsInv, HoldsAlone
  <2>2. assets'[route[d].name] = assets[route[d].name]
    BY <1>3, <2>1 DEF AssetsInv, AssetTypes
  <2>. QED
    BY <1>5, <2>1, <2>2 DEF AssetsInv, HoldsAlone
<1>7. AssetsAreTheirBoards'
  <2> SUFFICES ASSUME NEW m \in Names, NEW b \in Boards, b \in assets'[m]
               PROVE  Served(m, b)' /\ files'[m] = b
    BY DEF AssetsAreTheirBoards
  <2>1. files'[m] = b
    BY <1>2, <1>3 DEF AssetsInv, AssetTypes, AssetsAreTheirBoards
  <2>. QED
    BY <2>1, AssetsAssumption DEF Served, CanReadAsset
<1>. QED
  BY <1>4, <1>6, <1>7 DEF AssetsInv

LEMMA RefuseKeeps ==
  ASSUME AssetsInv, NEW c \in Callers, route[c].stage = "written",
         route' = [route EXCEPT ![c].stage = "refused"], UNCHANGED <<files, assets>>
  PROVE  AssetsInv'
<1>1. [route[c] EXCEPT !.stage = "refused"] \in RouteStates
  BY DEF AssetsInv, AssetTypes, RouteStates, Idle
<1>2. AssetTypes'
  BY <1>1 DEF AssetsInv, AssetTypes
<1>3. \A d \in Callers : /\ route'[d].name = route[d].name
                         /\ route'[d].board = route[d].board
                         /\ Holds(d)' => Holds(d)
  BY DEF AssetsInv, AssetTypes, RouteStates, Idle, Holds
<1>4. HoldsAlone'
  BY <1>3 DEF AssetsInv, HoldsAlone
<1>5. AssetsAreTheirBoards'
  BY DEF AssetsInv, AssetsAreTheirBoards, Served, CanReadAsset
<1>. QED
  BY <1>2, <1>4, <1>5 DEF AssetsInv

LEMMA UnlinkKeeps ==
  ASSUME AssetsInv, NEW c \in Callers, Unlink(c)
  PROVE  AssetsInv'
<1> DEFINE n == route[c].name
<1>1. /\ route[c].stage = "refused"
      /\ files' = [files EXCEPT ![n] = NoBoard]
      /\ route' = [route EXCEPT ![c] = Idle]
      /\ assets' = assets
  BY DEF Unlink
<1>2. Holds(c) /\ assets[n] = {}
  BY <1>1 DEF AssetsInv, HoldsAlone, Holds
<1>3. AssetTypes'
  BY <1>1 DEF AssetsInv, AssetTypes, RouteStates
<1>4. \A d \in Callers : Holds(d)' => Holds(d) /\ route'[d] = route[d] /\ d # c
  BY <1>1 DEF AssetsInv, AssetTypes, Holds, Idle
<1>5. HoldsAlone'
  <2> SUFFICES ASSUME NEW d \in Callers, Holds(d)'
               PROVE  /\ files'[route'[d].name] = route'[d].board
                      /\ assets'[route'[d].name] = {}
                      /\ \A e \in Callers : Holds(e)' /\ route'[e].name = route'[d].name => e = d
    BY DEF HoldsAlone
  <2>1. Holds(d) /\ route'[d] = route[d] /\ route[d].name # n
    BY <1>2, <1>4 DEF AssetsInv, HoldsAlone
  <2>2. files'[route[d].name] = files[route[d].name]
    BY <1>1, <2>1 DEF AssetsInv, AssetTypes
  <2>. QED
    BY <1>1, <1>4, <2>1, <2>2 DEF AssetsInv, HoldsAlone
<1>6. AssetsAreTheirBoards'
  <2> SUFFICES ASSUME NEW m \in Names, NEW b \in Boards, b \in assets'[m]
               PROVE  Served(m, b)' /\ files'[m] = b
    BY DEF AssetsAreTheirBoards
  <2>1. m # n /\ b \in assets[m]
    BY <1>1, <1>2
  <2>2. files'[m] = files[m]
    BY <1>1, <2>1 DEF AssetsInv, AssetTypes
  <2>. QED
    BY <1>1, <2>1, <2>2 DEF AssetsInv, AssetsAreTheirBoards, Served, CanReadAsset
<1>. QED
  BY <1>3, <1>5, <1>6 DEF AssetsInv

LEMMA CrashKeeps == ASSUME AssetsInv, CrashAssets PROVE AssetsInv'
<1>1. AssetTypes'
  BY DEF AssetsInv, AssetTypes, CrashAssets, RouteStates
<1>2. HoldsAlone'
  BY DEF CrashAssets, HoldsAlone, Holds, Idle
<1>3. AssetsAreTheirBoards'
  BY DEF AssetsInv, AssetsAreTheirBoards, CrashAssets, Served, CanReadAsset
<1>. QED
  BY <1>1, <1>2, <1>3 DEF AssetsInv

LEMMA AssetsNext ==
  ASSUME AssetsAssumption, AssetsInv, [NextAssets]_assetVars
  PROVE  AssetsInv'
<1>1. CASE UNCHANGED assetVars
  BY <1>1 DEF assetVars, AssetsInv, AssetTypes, HoldsAlone, Holds, AssetsAreTheirBoards,
     Served, CanReadAsset
<1>2. ASSUME NEW c \in Callers, NEW b \in Boards, NEW n \in Names,
             StartUpload(c, b, n) \/ StartTable(c, b, n)
      PROVE  AssetsInv'
  BY <1>2, StartKeeps
<1>3. ASSUME NEW c \in Callers, WriteFile(c) PROVE AssetsInv'
  BY <1>3, WriteKeeps
<1>4. ASSUME NEW c \in Callers, RegisterUpload(c) PROVE AssetsInv'
  BY <1>4, RegisterKeeps DEF RegisterUpload
<1>5. ASSUME NEW c \in Callers, RegisterTable(c) PROVE AssetsInv'
  <2>1. CASE UnderCap(route[c].board)
    BY <1>5, <2>1, RegisterKeeps DEF RegisterTable
  <2>2. CASE ~UnderCap(route[c].board)
    BY <1>5, <2>2, RefuseKeeps DEF RegisterTable
  <2>. QED
    BY <2>1, <2>2
<1>6. ASSUME NEW c \in Callers, Unlink(c) PROVE AssetsInv'
  BY <1>6, UnlinkKeeps
<1>7. CASE CrashAssets
  BY <1>7, CrashKeeps
<1>. QED
  BY <1>1, <1>2, <1>3, <1>4, <1>5, <1>6, <1>7 DEF NextAssets, Names

\* What a board registered is served on it, and is the file written for it
\* (the uploads and evidence-table routes of server/app.ts).
THEOREM AssetsStayTheirBoards ==
  ASSUME AssetsAssumption PROVE SpecAssets => []AssetsAreTheirBoards
<1>1. InitAssets => AssetsInv
  BY AssetsInit
<1>2. AssetsInv /\ [NextAssets]_assetVars => AssetsInv'
  BY AssetsNext
<1>3. AssetsInv => AssetsAreTheirBoards
  BY DEF AssetsInv
<1>. QED
  BY <1>1, <1>2, <1>3, PTL DEF SpecAssets

-----------------------------------------------------------------------------
(* The cap.                                                                *)

TablesOf(b) == {t \in TableNames : b \in assets[t]}

LEMMA CountIsOfTables ==
  ASSUME NEW b
  PROVE  CountTables(b) = Cardinality(TablesOf(b)) /\ CountTables(b)' = Cardinality(TablesOf(b)')
BY Zenon DEF CountTables, TablesOf

\* Registering a table adds at most one to what a board has; registering an
\* upload adds none.
LEMMA CountAfter ==
  ASSUME AssetsAssumption, AssetTypes, NEW n \in Names, NEW owner \in Boards, NEW b \in Boards,
         assets' = Registered(n, owner)
  PROVE  /\ b # owner \/ n \notin TableNames => CountTables(b)' = CountTables(b)
         /\ CountTables(b) \in Nat
         /\ CountTables(b)' <= CountTables(b) + 1
<1>1. \A t \in TableNames : b \in assets'[t] <=> b \in assets[t] \/ (t = n /\ b = owner)
  BY DEF Registered, AssetTypes, Names
<1>2. IsFiniteSet(TablesOf(b))
  BY AssetsAssumption, FS_Subset DEF TablesOf
<1>3. Cardinality(TablesOf(b)) \in Nat
  BY <1>2, FS_CardinalityType
<1>4. CASE b # owner \/ n \notin TableNames
  <2>1. TablesOf(b)' = TablesOf(b)
    BY <1>1, <1>4 DEF TablesOf
  <2>2. Cardinality(TablesOf(b)') = Cardinality(TablesOf(b))
    BY <2>1
  <2>. QED
    BY <1>3, <1>4, <2>2, CountIsOfTables
<1>5. CASE b = owner /\ n \in TableNames
  <2>1. TablesOf(b)' = TablesOf(b) \cup {n}
    BY <1>1, <1>5 DEF TablesOf
  <2>2. \/ Cardinality(TablesOf(b) \cup {n}) = Cardinality(TablesOf(b))
        \/ Cardinality(TablesOf(b) \cup {n}) = Cardinality(TablesOf(b)) + 1
    BY <1>2, FS_AddElement
  <2>3. Cardinality(TablesOf(b)') = Cardinality(TablesOf(b) \cup {n})
    BY <2>1
  <2>. QED
    BY <1>3, <1>5, <2>2, <2>3, CountIsOfTables
<1>. QED
  BY <1>4, <1>5

LEMMA CapNext ==
  ASSUME AssetsAssumption, AssetsInv, TablesAreCapped, [NextAssets]_assetVars
  PROVE  TablesAreCapped'
<1>1. CASE assets' = assets
  BY <1>1 DEF TablesAreCapped, CountTables
<1>2. ASSUME NEW c \in Callers, RegisterUpload(c) PROVE TablesAreCapped'
  <2>1. route[c].board \in Boards /\ route[c].name \in Names /\ route[c].name \notin TableNames
    BY <1>2, RouteTyped, AssetsAssumption DEF RegisterUpload, AssetsInv
  <2>. QED
    BY <1>2, <2>1, CountAfter DEF RegisterUpload, AssetsInv, TablesAreCapped
<1>3. ASSUME NEW c \in Callers, RegisterTable(c), assets' # assets PROVE TablesAreCapped'
  <2>1. /\ route[c].board \in Boards /\ route[c].name \in Names
        /\ assets' = Registered(route[c].name, route[c].board)
        /\ CountTables(route[c].board) < MaxTables
    BY <1>3, RouteTyped DEF RegisterTable, UnderCap, AssetsInv
  <2> SUFFICES ASSUME NEW b \in Boards PROVE CountTables(b)' <= MaxTables
    BY DEF TablesAreCapped
  <2>2. CASE b = route[c].board
    <3>1. CountTables(b) \in Nat /\ CountTables(b)' <= CountTables(b) + 1
      BY <2>1, CountAfter DEF AssetsInv
    <3>2. CountTables(b) < MaxTables /\ MaxTables \in Nat
      BY <2>1, <2>2 DEF AssetsAssumption
    <3>3. CountTables(b)' \in Int
      <4>1. IsFiniteSet(TablesOf(b)')
        BY FS_Subset DEF AssetsAssumption, TablesOf
      <4>. QED
        BY <4>1, FS_CardinalityType, CountIsOfTables
    <3>. QED
      BY <3>1, <3>2, <3>3
  <2>3. CASE b # route[c].board
    BY <2>1, <2>3, CountAfter DEF AssetsInv, TablesAreCapped
  <2>. QED
    BY <2>2, <2>3
<1>. QED
  BY <1>1, <1>2, <1>3 DEF NextAssets, assetVars, StartUpload, StartTable, WriteFile,
     Unlink, CrashAssets

\* However many requests for evidence tables are in flight, no board has more
\* than the cap (registerBoardAssetIfUnderCap counts and inserts in one
\* transaction).
THEOREM TablesStayCapped ==
  ASSUME AssetsAssumption PROVE SpecAssets => []TablesAreCapped
<1>1. InitAssets => AssetsInv /\ TablesAreCapped
  <2>1. ASSUME InitAssets, NEW b \in Boards PROVE CountTables(b) <= MaxTables
    <3>1. {t \in TableNames : b \in assets[t]} = {}
      BY <2>1 DEF InitAssets, Names
    <3>2. Cardinality({t \in TableNames : b \in assets[t]}) = 0
      BY <3>1, FS_EmptySet
    <3>. QED
      BY <3>2 DEF CountTables, AssetsAssumption
  <2>. QED
    BY <2>1, AssetsInit DEF TablesAreCapped
<1>2. AssetsInv /\ TablesAreCapped /\ [NextAssets]_assetVars => (AssetsInv /\ TablesAreCapped)'
  BY AssetsNext, CapNext
<1>. QED
  BY <1>1, <1>2, PTL DEF SpecAssets

-----------------------------------------------------------------------------
(* What holds of a board and of the copy a request works on.               *)

\* The components of a transaction are there.
TxnFields == DOMAIN txn = DOMAIN NoTxn

\* Bindings of any page resolve.
Resolve(bound, shapes) ==
  \A b \in bound : b.arrow \in DOMAIN shapes /\ b.to \in DOMAIN shapes

BindingsInv ==
  /\ TxnFields
  /\ Resolve(bindings, page)
  /\ Resolve(txn.bindings, txn.page)

\* Entities are found under their ids, and so is what they relate to.
Linked(found) ==
  \A id \in DOMAIN found :
    /\ found[id].id = id
    /\ \A r \in found[id].relations : r.target \in DOMAIN found

EntitiesInv ==
  /\ TxnFields
  /\ Linked(entities)
  /\ Linked(txn.entities)

-----------------------------------------------------------------------------
(* What each kind of action leaves alone.                                  *)

\* Layout actions move shapes and make or remove none.
LEMMA ArrangeKeeps ==
  ASSUME TxnFields, NEW moves, NEW placed, NEW gap, Arrange(moves, placed, gap)
  PROVE  /\ TxnFields'
         /\ DOMAIN txn'.page = DOMAIN txn.page
         /\ txn'.bindings = txn.bindings
         /\ txn'.entities = txn.entities
<1>1. PICK after, moved, touched, statuses :
        /\ DOMAIN after = DOMAIN txn.page
        /\ txn' = [txn EXCEPT !.page = after, !.affected = moved, !.touched = touched,
                              !.ran = TRUE, !.statuses = statuses,
                              !.placed = placed, !.region = NoRegion, !.spacing = gap]
  <2> DEFINE still == {id \in DOMAIN moves : moves[id].dx = 0 /\ moves[id].dy = 0}
             moved == DOMAIN moves \ still
             after == [id \in DOMAIN txn.page |->
                         IF id \in moved THEN Translated(txn.page[id], moves[id])
                                         ELSE txn.page[id]]
             statuses == txn.statuses \cup {VerifyLayout(after, LayoutOf(after, rows), DOMAIN moves)}
  <2>1. DOMAIN after = DOMAIN txn.page
    OBVIOUS
  <2>2. txn' = [txn EXCEPT !.page = after, !.affected = txn.affected \cup moved,
                           !.touched = txn.touched \cup DOMAIN moves,
                           !.ran = TRUE, !.statuses = statuses,
                           !.placed = placed, !.region = NoRegion, !.spacing = gap]
    BY Zenon DEF Arrange
  <2> HIDE DEF after, moved, statuses
  <2>. QED
    BY <2>1, <2>2
<1>. QED
  BY <1>1 DEF TxnFields, NoTxn

\* What find_free_region leaves in the copy.
Looks(guessed, region, gap) ==
  txn' = [txn EXCEPT !.ran = TRUE, !.guessed = guessed, !.placed = {}, !.region = region,
                     !.spacing = gap]

\* A layout action moves shapes or looks for a place.
LEMMA LayoutShape ==
  ASSUME LayoutAction
  PROVE  \/ \E moves, placed, gap : Arrange(moves, placed, gap)
         \/ \E guessed, region, gap : Looks(guessed, region, gap)
<1> DEFINE Arranges == \E moves, placed, gap : Arrange(moves, placed, gap)
           Finds == \E guessed, region, gap : Looks(guessed, region, gap)
<1>1. ASSUME NEW id, NEW target, NEW align, NEW gap,
             \/ PlaceBelowAction(id, target, align, gap)
             \/ PlaceRightOfAction(id, target, align, gap)
      PROVE  Arranges
  BY <1>1, Zenon DEF PlaceBelowAction, PlaceRightOfAction
<1>2. ASSUME NEW ids, NEW axis, AlignAction(ids, axis) PROVE Arranges
  BY <1>2, Zenon DEF AlignAction
<1>3. ASSUME NEW ids, NEW direction, NEW gap, DistributeAction(ids, direction, gap)
      PROVE  Arranges
  BY <1>3, Zenon DEF DistributeAction
<1>4. ASSUME NEW layout, NEW moves, NEW avoid, NEW gap, NEW clearance,
             ArrangeBlock(layout, moves, avoid, gap, clearance)
      PROVE  Arranges
  BY <1>4, Zenon DEF ArrangeBlock
<1>5. ASSUME NEW ids, NEW align, NEW given, NEW avoid,
             RowAction(ids, align, given, avoid) \/ StackAction(ids, align, given, avoid)
      PROVE  Arranges
  <2>1. \E layout, moves, gap, clearance : ArrangeBlock(layout, moves, avoid, gap, clearance)
    BY <1>5, Zenon DEF RowAction, StackAction
  <2>. QED
    BY <2>1, <1>4, Zenon
<1>6. ASSUME NEW ids, NEW columns, NEW given, NEW avoid, GridAction(ids, columns, given, avoid)
      PROVE  Arranges
  <2>1. \E layout, moves, gap, clearance : ArrangeBlock(layout, moves, avoid, gap, clearance)
    BY <1>6, Zenon DEF GridAction
  <2>. QED
    BY <2>1, <1>4, Zenon
<1>7. ASSUME NEW size, NEW near, NEW way, NEW gap, FindFreeRegionAction(size, near, way, gap)
      PROVE  Finds
  BY <1>7, Zenon DEF FindFreeRegionAction, Looks
<1> HIDE DEF Arranges, Finds
<1>8. Arranges \/ Finds
  BY <1>1, <1>2, <1>3, <1>5, <1>6, <1>7, Zenon DEF LayoutAction
<1>. QED
  BY <1>8, Zenon DEF Arranges, Finds

\* Layout actions leave the shapes that there are, their bindings and entities.
LEMMA LayoutStep ==
  ASSUME TxnFields, LayoutAction
  PROVE  /\ UNCHANGED <<board, assetVars>>
         /\ TxnFields'
         /\ DOMAIN txn'.page = DOMAIN txn.page
         /\ txn'.bindings = txn.bindings
         /\ txn'.entities = txn.entities
<1>1. UNCHANGED <<board, assetVars>>
  BY DEF LayoutAction, PlaceBelowAction, PlaceRightOfAction, AlignAction, DistributeAction,
     RowAction, StackAction, GridAction, FindFreeRegionAction, Acting
<1>2. CASE \E moves, placed, gap : Arrange(moves, placed, gap)
  BY <1>1, <1>2, ArrangeKeeps
<1>3. CASE \E guessed, region, gap : Looks(guessed, region, gap)
  BY <1>1, <1>3 DEF Looks, TxnFields, NoTxn
<1>. QED
  BY <1>2, <1>3, LayoutShape

\* Visual actions write shapes and bindings.
LEMMA VisualFrame ==
  ASSUME TxnFields, VisualAction
  PROVE  /\ UNCHANGED <<board, assetVars>>
         /\ TxnFields'
         /\ txn'.entities = txn.entities
<1>1. UNCHANGED <<board, assetVars>>
  <2>1. \E on : Acting(on)
    BY Zenon DEF VisualAction, CreateShape, ConnectShapes, MoveShape, UpdateText,
       ResizeShape, DeleteShape
  <2>. QED
    BY <2>1 DEF Acting
<1>2. (\E shapes, bound, moved : Leaves(shapes, bound, moved)) \/ (\E id : DeleteShape(id))
  BY Zenon DEF VisualAction, CreateShape, ConnectShapes, MoveShape, UpdateText, ResizeShape
<1>3. ASSUME NEW shapes, NEW bound, NEW moved, Leaves(shapes, bound, moved)
      PROVE  TxnFields' /\ txn'.entities = txn.entities
  BY <1>3 DEF Leaves, TxnFields, NoTxn
<1>4. ASSUME NEW id, DeleteShape(id)
      PROVE  TxnFields' /\ txn'.entities = txn.entities
  BY <1>4 DEF DeleteShape, TxnFields, NoTxn
<1>. QED
  BY <1>1, <1>2, <1>3, <1>4

\* Visual actions leave bindings that resolve, in the copy they work on: what
\* connects looks both ends up, and what deletes takes the bindings with it.
LEMMA VisualStep ==
  ASSUME TxnFields, Resolve(txn.bindings, txn.page), VisualAction
  PROVE  Resolve(txn.bindings, txn.page)'
<1> DEFINE Fine == Resolve(txn.bindings, txn.page)'
<1>1. ASSUME NEW shapes, NEW bound, NEW moved, Leaves(shapes, bound, moved),
             Resolve(bound, shapes)
      PROVE  Fine
  BY <1>1 DEF Leaves, TxnFields, NoTxn
<1>2. ASSUME NEW id, NEW type, NEW x, NEW y, NEW size, NEW text,
             CreateShape(id, type, x, y, size, text)
      PROVE  Fine
  <2> DEFINE shapes == WithShape(txn.page, id, Shape(type, x, y, size, text))
  <2>1. Leaves(shapes, txn.bindings, {})
    BY <1>2 DEF CreateShape
  <2>2. DOMAIN txn.page \subseteq DOMAIN shapes
    BY DEF WithShape
  <2>3. Resolve(txn.bindings, shapes)
    BY <2>2 DEF Resolve
  <2>. QED
    BY <1>1, <2>1, <2>3
<1>3. ASSUME NEW id, NEW from, NEW to, ConnectShapes(id, from, to) PROVE Fine
  <2>1. PICK arrow :
          /\ {from, to} \subseteq Current
          /\ Leaves(WithShape(txn.page, id, arrow), txn.bindings \cup ArrowBindings(id, from, to), {})
    BY <1>3, Zenon DEF ConnectShapes
  <2> DEFINE shapes == WithShape(txn.page, id, arrow)
  <2>2. DOMAIN shapes = {id} \cup DOMAIN txn.page
    BY DEF WithShape
  <2>3. Resolve(txn.bindings \cup ArrowBindings(id, from, to), shapes)
    BY <2>1, <2>2 DEF Resolve, ArrowBindings, Current
  <2>. QED
    BY <1>1, <2>1, <2>3
<1>4. ASSUME NEW id, NEW x, NEW y, MoveShape(id, x, y) PROVE Fine
  <2>1. PICK shapes : DOMAIN shapes = DOMAIN txn.page /\ Leaves(shapes, txn.bindings, {id})
    BY <1>4 DEF MoveShape
  <2>. QED
    BY <1>1, <2>1 DEF Resolve
<1>5. ASSUME NEW id, NEW text, UpdateText(id, text) PROVE Fine
  <2>1. PICK shapes : DOMAIN shapes = DOMAIN txn.page /\ Leaves(shapes, txn.bindings, {})
    BY <1>5 DEF UpdateText
  <2>. QED
    BY <1>1, <2>1 DEF Resolve
<1>6. ASSUME NEW id, NEW size, ResizeShape(id, size) PROVE Fine
  <2>1. PICK shapes : DOMAIN shapes = DOMAIN txn.page /\ Leaves(shapes, txn.bindings, Resized(id))
    BY <1>6 DEF ResizeShape
  <2>. QED
    BY <1>1, <2>1 DEF Resolve
<1>7. ASSUME NEW id, DeleteShape(id) PROVE Fine
  <2> DEFINE shapes == Restrict(txn.page, DOMAIN txn.page \ {id})
             bound == txn.bindings \ Loose(id, txn.bindings)
  <2>1. DOMAIN shapes = DOMAIN txn.page \ {id}
    BY DEF Restrict
  <2>2. Resolve(bound, shapes)
    BY <2>1 DEF Resolve, Loose
  <2>3. txn' = [txn EXCEPT !.page = shapes, !.bindings = bound,
                           !.placed = {}, !.region = NoRegion, !.gone = txn.gone \cup {id}]
    BY <1>7 DEF DeleteShape
  <2> HIDE DEF shapes, bound
  <2>. QED
    BY <2>2, <2>3 DEF TxnFields, NoTxn
<1> HIDE DEF Fine
<1>8. Fine
  BY <1>2, <1>3, <1>4, <1>5, <1>6, <1>7 DEF VisualAction
<1>. QED
  BY <1>8 DEF Fine
\* People's edits keep the bindings that resolve, and delete the others.
LEMMA PeopleStep ==
  ASSUME Resolve(bindings, page), People
  PROVE  Resolve(bindings, page)'
<1>1. ASSUME NEW id, NEW x, NEW y, PersonMoves(id, x, y) PROVE Resolve(bindings', page')
  BY <1>1 DEF PersonMoves, Resolve
<1>2. ASSUME NEW id, NEW container, PersonNests(id, container)
      PROVE  Resolve(bindings', page')
  BY <1>2 DEF PersonNests, Resolve
<1>3. ASSUME NEW id, NEW text, PersonWrites(id, text) PROVE Resolve(bindings', page')
  BY <1>3 DEF PersonWrites, Resolve
<1>4. ASSUME NEW id, PersonLocks(id) PROVE Resolve(bindings', page')
  BY <1>4 DEF PersonLocks, Resolve
<1>5. ASSUME NEW id, PersonDeletes(id) PROVE Resolve(bindings', page')
  <2>1. PICK gone : /\ page' = Restrict(page, DOMAIN page \ gone)
                    /\ bindings' = {b \in bindings : {b.arrow, b.to} \cap gone = {}}
    BY <1>5, Zenon DEF PersonDeletes
  <2>2. DOMAIN page' = DOMAIN page \ gone
    BY <2>1 DEF Restrict
  <2>. QED
    BY <2>1, <2>2 DEF Resolve
<1>6. ASSUME NEW id, Measure(id) PROVE Resolve(bindings', page')
  BY <1>6 DEF Measure, Resolve
<1>. QED
  BY <1>1, <1>2, <1>3, <1>4, <1>5, <1>6, Zenon DEF People

\* People touch neither entities nor the copy of a request.
LEMMA PeopleFrame == ASSUME People PROVE UNCHANGED <<entities, txn, assetVars>>
<1>1. Editing
  BY Zenon DEF People, PersonMoves, PersonNests, PersonWrites, PersonLocks, PersonDeletes, Measure
<1>. QED
  BY <1>1 DEF Editing

\* What a request writes besides entities it leaves to the other lemmas.
LEMMA SemanticStep ==
  ASSUME TxnFields, SemanticAction
  PROVE  /\ UNCHANGED <<board, assetVars>>
         /\ TxnFields'
         /\ txn'.page = txn.page
         /\ txn'.bindings = txn.bindings
<1>1. /\ UNCHANGED <<board, assetVars>>
      /\ \E entity, created : Writes(entity, created)
  BY Zenon DEF SemanticAction, CreateEntity, UpdateEntity, UpdateStatus,
     RecordExperimentResult, ApplyUpdate, AttachEvidence, LinkEntities, UnlinkEntities, Acting
<1>. QED
  BY <1>1 DEF Writes, TxnFields, NoTxn

\* A request ends with a board whose shapes and bindings are those of its copy,
\* redrawn or not.
LEMMA CommitStep ==
  ASSUME Commit
  PROVE  /\ DOMAIN page' = DOMAIN txn.page
         /\ bindings' = txn.bindings
         /\ entities' = txn.entities
         /\ txn' = NoTxn
         /\ UNCHANGED assetVars
<1>1. /\ bindings' = txn.bindings
      /\ entities' = txn.entities
      /\ txn' = NoTxn
      /\ UNCHANGED assetVars
      /\ page' = IF txn.affected = {} THEN txn.page
                 ELSE Reroute(txn.page, LayoutOf(txn.page, rows), txn.affected)
  BY Zenon DEF Commit
<1>2. \A layout, affected : DOMAIN Reroute(txn.page, layout, affected) = DOMAIN txn.page
  BY DEF Reroute
<1>. QED
  BY <1>1, <1>2

-----------------------------------------------------------------------------
(* Bindings.                                                               *)

LEMMA BindingsInit == ASSUME CanvasAssumption, Init PROVE BindingsInv
<1>1. TxnFields
  BY DEF Init, TxnFields
<1>2. Resolve(txn.bindings, txn.page)
  BY DEF Init, NoTxn, Resolve
<1>3. Resolve(bindings, page)
  BY DEF Init, CanvasAssumption, Resolve
<1>. QED
  BY <1>1, <1>2, <1>3 DEF BindingsInv

LEMMA BindingsNext == ASSUME BindingsInv, [Next]_vars PROVE BindingsInv'
<1> USE DEF BindingsInv
<1>1. CASE Begin
  <2>1. txn'.page = page /\ txn'.bindings = bindings /\ TxnFields'
    BY <1>1 DEF Begin, NoTxn, TxnFields
  <2>. QED
    BY <1>1, <2>1 DEF Begin, board
<1>2. CASE Refuse
  BY <1>2 DEF Refuse, board, TxnFields, NoTxn, Resolve
<1>3. CASE Commit
  BY <1>3, CommitStep DEF TxnFields, NoTxn, Resolve
<1>4. CASE VisualAction
  BY <1>4, VisualFrame, VisualStep DEF board
<1>5. CASE LayoutAction
  BY <1>5, LayoutStep DEF board, Resolve
<1>6. CASE SemanticAction
  BY <1>6, SemanticStep DEF board
<1>7. CASE People
  BY <1>7, PeopleFrame, PeopleStep DEF TxnFields
<1>8. CASE Routes
  BY <1>8 DEF Routes, board, TxnFields
<1>9. CASE UNCHANGED vars
  BY <1>9 DEF vars, TxnFields
<1>. QED
  BY <1>1, <1>2, <1>3, <1>4, <1>5, <1>6, <1>7, <1>8, <1>9 DEF Next

\* No binding dangles, whatever requests and people connect, move, nest and
\* delete (delete_shape of server/canvas-api.ts takes away the bindings from and to
\* the shape, connect_shapes looks both ends up).
THEOREM BindingsAlwaysResolve == ASSUME CanvasAssumption PROVE Spec => []BindingsResolve
<1>1. Init => BindingsInv
  BY BindingsInit
<1>2. BindingsInv /\ [Next]_vars => BindingsInv'
  BY BindingsNext
<1>3. BindingsInv => BindingsResolve
  BY DEF BindingsInv, Resolve, BindingsResolve
<1>. QED
  BY <1>1, <1>2, <1>3, PTL DEF Spec
-----------------------------------------------------------------------------
(* Entities.                                                               *)

\* What is in an entity that passes the schema.
LEMMA ValidFields ==
  ASSUME NEW entity, Valid(entity)
  PROVE  /\ {"id", "entityType", "status", "relations"} \subseteq DOMAIN entity
         /\ entity.entityType = "evidence" => "reference" \in DOMAIN entity
BY DEF Valid, RequiredFields, BaseFields

\* What the actions write: an entity whose relations it had, was given one to an
\* entity that is there, or has none.
LEMMA WrittenRelations ==
  ASSUME CanvasAssumption, Linked(txn.entities), SemanticAction
  PROVE  \E entity, created :
           /\ Writes(entity, created)
           /\ \A r \in entity.relations : r.target \in DOMAIN txn.entities
<1> DEFINE Fine == \E entity, created :
             /\ Writes(entity, created)
             /\ \A r \in entity.relations : r.target \in DOMAIN txn.entities
<1>1. ASSUME NEW id, NEW type, NEW fields \in Fields, CreateEntity(id, type, fields)
      PROVE  Fine
  <2> DEFINE entity == NewEntity(id, type, fields)
  <2>1. Writes(entity, 1)
    BY <1>1 DEF CreateEntity
  <2>2. entity.relations = {}
    BY DEF NewEntity, Spread, CanvasAssumption
  <2> HIDE DEF entity
  <2>. QED
    BY <2>1, <2>2
<1>2. ASSUME NEW id, NEW fields, ApplyUpdate(id, fields),
             "relations" \in DOMAIN fields => fields.relations = {}
      PROVE  Fine
  <2> DEFINE entity == Patched(txn.entities[id], fields)
  <2>1. Writes(entity, 0) /\ id \in DOMAIN txn.entities
    BY <1>2 DEF ApplyUpdate
  <2>2. "relations" \in DOMAIN entity
    BY <2>1, ValidFields DEF Writes
  <2>3. entity.relations = {} \/ entity.relations = txn.entities[id].relations
    BY <1>2, <2>2 DEF Patched, Spread
  <2> HIDE DEF entity
  <2>. QED
    BY <2>1, <2>3 DEF Linked
<1>3. ASSUME NEW id, NEW type, NEW target,
             LinkEntities(id, type, target) \/ UnlinkEntities(id, type, target)
      PROVE  Fine
  <2>1. CASE LinkEntities(id, type, target)
    <3> DEFINE entity == WithRelation(txn.entities[id], type, target)
    <3>1. Writes(entity, 0) /\ {id, target} \subseteq DOMAIN txn.entities
      BY <2>1 DEF LinkEntities, FindTarget
    <3>2. "relations" \in DOMAIN entity
      BY <3>1, ValidFields DEF Writes
    <3>3. \A r \in entity.relations : r \in txn.entities[id].relations \/ r.target = target
      BY <3>2 DEF WithRelation
    <3> HIDE DEF entity
    <3>. QED
      BY <3>1, <3>3 DEF Linked
  <2>2. CASE UnlinkEntities(id, type, target)
    <3> DEFINE entity == WithoutRelation(txn.entities[id], type, target)
    <3>1. Writes(entity, 0) /\ id \in DOMAIN txn.entities
      BY <2>2 DEF UnlinkEntities
    <3>2. "relations" \in DOMAIN entity
      BY <3>1, ValidFields DEF Writes
    <3>3. entity.relations \subseteq txn.entities[id].relations
      BY <3>2 DEF WithoutRelation
    <3> HIDE DEF entity
    <3>. QED
      BY <3>1, <3>3 DEF Linked
  <2>. QED
    BY <1>3, <2>1, <2>2
<1>4. ASSUME NEW id, NEW fields \in Fields, UpdateEntity(id, fields) PROVE Fine
  BY <1>2, <1>4 DEF UpdateEntity, CanvasAssumption
<1>5. ASSUME NEW id, NEW status, UpdateStatus(id, status) \/ RecordExperimentResult(id, status)
      PROVE  Fine
  <2>1. "relations" \notin DOMAIN [status |-> status]
    OBVIOUS
  <2>2. "relations" \notin DOMAIN [result |-> "recorded", status |-> status]
    OBVIOUS
  <2> HIDE DEF Fine
  <2>. QED
    BY <1>2, <1>5, <2>1, <2>2 DEF UpdateStatus, RecordExperimentResult
<1>6. ASSUME NEW id, NEW target, AttachEvidence(id, target) PROVE Fine
  BY <1>3, <1>6, Zenon DEF AttachEvidence
<1> HIDE DEF Fine
<1>7. Fine
  BY <1>1, <1>3, <1>4, <1>5, <1>6, Zenon DEF SemanticAction
<1>. QED
  BY <1>7 DEF Fine

LEMMA EntitiesInit == ASSUME CanvasAssumption, Init PROVE EntitiesInv
<1>1. TxnFields
  BY DEF Init, TxnFields
<1>2. Linked(txn.entities)
  BY DEF Init, NoTxn, Linked
<1>3. Linked(entities)
  BY DEF Init, CanvasAssumption, Linked
<1>. QED
  BY <1>1, <1>2, <1>3 DEF EntitiesInv

LEMMA EntitiesNext ==
  ASSUME CanvasAssumption, EntitiesInv, [Next]_vars PROVE EntitiesInv'
<1> USE DEF EntitiesInv
<1>1. CASE Begin
  <2>1. txn'.entities = entities /\ TxnFields'
    BY <1>1 DEF Begin, NoTxn, TxnFields
  <2>. QED
    BY <1>1, <2>1 DEF Begin, board
<1>2. CASE Refuse
  BY <1>2 DEF Refuse, board, TxnFields, NoTxn, Linked
<1>3. CASE Commit
  BY <1>3, CommitStep DEF TxnFields, NoTxn, Linked
<1>4. CASE VisualAction \/ LayoutAction
  <2>1. UNCHANGED board /\ TxnFields' /\ txn'.entities = txn.entities
    <3>1. CASE LayoutAction
      BY <3>1, LayoutStep
    <3>2. CASE VisualAction
      BY <3>2, VisualFrame
    <3>. QED
      BY <1>4, <3>1, <3>2
  <2>. QED
    BY <2>1 DEF board
<1>5. CASE SemanticAction
  <2>1. PICK entity, created :
          /\ Writes(entity, created)
          /\ \A r \in entity.relations : r.target \in DOMAIN txn.entities
    BY <1>5, WrittenRelations
  <2>2. txn'.entities = Written(txn.entities, entity)
    BY <2>1 DEF Writes, TxnFields, NoTxn
  <2>3. Linked(Written(txn.entities, entity))
    BY <2>1 DEF Linked, Written
  <2>. QED
    BY <1>5, <2>2, <2>3, SemanticStep DEF board
<1>6. CASE People
  <2>1. UNCHANGED <<entities, txn>>
    BY <1>6, PeopleFrame
  <2>. QED
    BY <2>1 DEF TxnFields
<1>7. CASE Routes
  BY <1>7 DEF Routes, board, TxnFields
<1>8. CASE UNCHANGED vars
  BY <1>8 DEF vars, TxnFields
<1>. QED
  BY <1>1, <1>2, <1>3, <1>4, <1>5, <1>6, <1>7, <1>8 DEF Next

\* Every relation resolves, whatever requests create, patch, link and unlink: a
\* link is made to what findEntity finds, nothing removes an entity, and the fields
\* of create_entity and update_entity bring no relations (server/canvas-api.ts).
THEOREM RelationsAlwaysResolve == ASSUME CanvasAssumption PROVE Spec => []RelationsResolve
<1>1. Init => EntitiesInv
  BY EntitiesInit
<1>2. EntitiesInv /\ [Next]_vars => EntitiesInv'
  BY EntitiesNext
<1>3. EntitiesInv => RelationsResolve
  BY DEF EntitiesInv, Linked, RelationsResolve
<1>. QED
  BY <1>1, <1>2, <1>3, PTL DEF Spec
-----------------------------------------------------------------------------
(* Uploads and tables.                                                     *)

\* Beside requests and people, the routes take their own steps and no others.
LEMMA RoutesOnly == ASSUME TxnFields, [Next]_vars PROVE [NextAssets]_assetVars
<1>1. CASE Routes
  BY <1>1 DEF Routes
<1>2. CASE Begin \/ Refuse
  BY <1>2 DEF Begin, Refuse
<1>3. CASE Commit
  BY <1>3, CommitStep
<1>4. CASE VisualAction
  BY <1>4, VisualFrame
<1>5. CASE LayoutAction
  BY <1>5, LayoutStep
<1>6. CASE SemanticAction
  BY <1>6, SemanticStep
<1>7. CASE People
  BY <1>7, PeopleFrame
<1>8. CASE UNCHANGED vars
  BY <1>8 DEF vars
<1>. QED
  BY <1>1, <1>2, <1>3, <1>4, <1>5, <1>6, <1>7, <1>8, Zenon DEF Next

\* A board with its requests and people implements the routes by themselves, so
\* that what is proved of SpecAssets holds of it.
THEOREM ImplementsAssets == ASSUME CanvasAssumption PROVE Spec => SpecAssets
<1>1. Init => InitAssets /\ EntitiesInv
  BY EntitiesInit DEF Init
<1>2. EntitiesInv /\ [Next]_vars => EntitiesInv' /\ [NextAssets]_assetVars
  BY EntitiesNext, RoutesOnly DEF EntitiesInv
<1>. QED
  BY <1>1, <1>2, PTL DEF Spec, SpecAssets

\* What a board registered is served on it, and is the file written for it, while
\* requests and people work on the board (the uploads and evidence-table routes of
\* server/app.ts).
THEOREM FilesStayTheirBoards ==
  ASSUME CanvasAssumption, AssetsAssumption PROVE Spec => []AssetsAreTheirBoards
BY ImplementsAssets, AssetsStayTheirBoards, PTL

\* What is registered stays registered.
LEMMA AssetsGrow ==
  ASSUME AssetTypes, [NextAssets]_assetVars, NEW name, NEW b, AssetBelongsToBoard(name, b)
  PROVE  AssetBelongsToBoard(name, b)'
<1>1. \/ assets' = assets
      \/ \E m, on : assets' = Registered(m, on)
  BY Zenon DEF NextAssets, assetVars, StartUpload, StartTable, WriteFile, RegisterUpload,
     RegisterTable, Unlink, CrashAssets
<1>. QED
  BY <1>1 DEF Registered, AssetTypes, AssetBelongsToBoard

\* Tables name artifacts of the board.
TablesHere(found) ==
  \A id \in DOMAIN found :
    IsTable(found[id]) => AssetBelongsToBoard(found[id].reference, Here)

TablesInv ==
  /\ AssetsInv
  /\ EntitiesInv
  /\ TablesHere(entities)
  /\ TablesHere(txn.entities)

\* Whatever an action writes, a table it names is of this board: it was looked up,
\* or the entity was that table before.
LEMMA WrittenTables ==
  ASSUME TablesHere(txn.entities), SemanticAction
  PROVE  \E entity, created :
           /\ Writes(entity, created)
           /\ IsTable(entity) => AssetBelongsToBoard(entity.reference, Here)
<1> DEFINE Fine == \E entity, created :
             /\ Writes(entity, created)
             /\ IsTable(entity) => AssetBelongsToBoard(entity.reference, Here)
<1>1. ASSUME NEW id, NEW type, NEW fields, CreateEntity(id, type, fields) PROVE Fine
  <2>1. PICK entity : Writes(entity, 1) /\ TableIsHere(entity)
    BY <1>1, Zenon DEF CreateEntity
  <2>. QED
    BY <2>1 DEF TableIsHere
<1>2. ASSUME NEW id, NEW fields, ApplyUpdate(id, fields) PROVE Fine
  <2>1. PICK entity : Writes(entity, 0) /\ TableIsHere(entity)
    BY <1>2, Zenon DEF ApplyUpdate, UpdatedTableIsHere
  <2>. QED
    BY <2>1 DEF TableIsHere
<1>3. ASSUME NEW id, NEW type, NEW target,
             LinkEntities(id, type, target) \/ UnlinkEntities(id, type, target)
      PROVE  Fine
  <2>1. PICK relations :
          /\ id \in DOMAIN txn.entities
          /\ Writes([txn.entities[id] EXCEPT !.relations = relations], 0)
    BY <1>3, Zenon DEF LinkEntities, UnlinkEntities, WithRelation, WithoutRelation
  <2> DEFINE entity == [txn.entities[id] EXCEPT !.relations = relations]
  <2>2. /\ "entityType" \in DOMAIN entity
        /\ entity.entityType = "evidence" => "reference" \in DOMAIN entity
    BY <2>1, ValidFields DEF Writes
  <2>3. IsTable(entity) => IsTable(txn.entities[id]) /\ entity.reference = txn.entities[id].reference
    BY <2>2 DEF IsTable
  <2>4. IsTable(entity) => AssetBelongsToBoard(entity.reference, Here)
    BY <2>1, <2>3 DEF TablesHere
  <2> HIDE DEF entity
  <2>. QED
    BY <2>1, <2>4 DEF entity
<1>4. ASSUME NEW id, NEW status, UpdateStatus(id, status) \/ RecordExperimentResult(id, status)
      PROVE  Fine
  BY <1>2, <1>4, Zenon DEF UpdateStatus, RecordExperimentResult
<1> HIDE DEF Fine
<1>5. Fine
  BY <1>1, <1>2, <1>3, <1>4, Zenon DEF SemanticAction, UpdateEntity, AttachEvidence
<1>. QED
  BY <1>5 DEF Fine

LEMMA TablesInit == ASSUME CanvasAssumption, AssetsAssumption, Init PROVE TablesInv
<1>1. AssetsInv /\ EntitiesInv
  BY AssetsInit, EntitiesInit DEF Init
<1>2. TablesHere(txn.entities)
  BY DEF Init, NoTxn, TablesHere
<1>3. TablesHere(entities)
  BY DEF Init, CanvasAssumption, TablesHere
<1>. QED
  BY <1>1, <1>2, <1>3 DEF TablesInv

LEMMA TablesNext ==
  ASSUME CanvasAssumption, AssetsAssumption, TablesInv, [Next]_vars PROVE TablesInv'
<1>1. AssetsInv' /\ EntitiesInv'
  BY AssetsNext, EntitiesNext, RoutesOnly DEF TablesInv, EntitiesInv
<1>2. \A name, b : AssetBelongsToBoard(name, b) => AssetBelongsToBoard(name, b)'
  BY AssetsGrow, RoutesOnly DEF TablesInv, AssetsInv, EntitiesInv
<1>3. ASSUME NEW found, TablesHere(found)
      PROVE  \A id \in DOMAIN found :
               IsTable(found[id]) => AssetBelongsToBoard(found[id].reference, Here)'
  BY <1>2, <1>3 DEF TablesHere
<1>4. TablesHere(entities) /\ TablesHere(txn.entities) /\ TxnFields
  BY DEF TablesInv, EntitiesInv
<1>5. /\ entities' \in {entities, txn.entities}
      /\ txn'.entities \in {entities, txn.entities, <<>>} \/ SemanticAction
  <2>1. CASE Begin
    BY <2>1 DEF Begin, board, NoTxn
  <2>2. CASE Refuse
    BY <2>2 DEF Refuse, board, NoTxn
  <2>3. CASE Commit
    BY <2>3, CommitStep DEF NoTxn
  <2>4. CASE VisualAction
    BY <1>4, <2>4, VisualFrame DEF board
  <2>5. CASE LayoutAction
    BY <1>4, <2>5, LayoutStep DEF board
  <2>6. CASE SemanticAction
    BY <1>4, <2>6, SemanticStep DEF board
  <2>7. CASE People
    BY <2>7, PeopleFrame
  <2>8. CASE Routes
    BY <2>8 DEF Routes, board
  <2>9. CASE UNCHANGED vars
    BY <2>9 DEF vars
  <2>. QED
    BY <2>1, <2>2, <2>3, <2>4, <2>5, <2>6, <2>7, <2>8, <2>9, Zenon DEF Next
<1>6. TablesHere(entities)'
  BY <1>3, <1>4, <1>5 DEF TablesHere
<1>7. TablesHere(txn.entities)'
  <2>1. CASE txn'.entities \in {entities, txn.entities}
    BY <1>3, <1>4, <2>1 DEF TablesHere
  <2>2. CASE txn'.entities = <<>>
    BY <2>2 DEF TablesHere
  <2>3. CASE SemanticAction
    <3>1. PICK entity, created :
            /\ Writes(entity, created)
            /\ IsTable(entity) => AssetBelongsToBoard(entity.reference, Here)
      BY <1>4, <2>3, WrittenTables
    <3>2. txn'.entities = Written(txn.entities, entity)
      BY <1>4, <3>1 DEF Writes, TxnFields, NoTxn
    <3>3. TablesHere(Written(txn.entities, entity))
      BY <1>4, <3>1 DEF TablesHere, Written
    <3>. QED
      BY <1>3, <3>2, <3>3 DEF TablesHere
  <2>. QED
    BY <1>5, <2>1, <2>2, <2>3
<1>. QED
  BY <1>1, <1>6, <1>7 DEF TablesInv

\* Evidence of kind table names an artifact of this board, whatever made it a
\* table: every action that writes one looks the artifact up
\* (assertTableReferenceInBoard of server/canvas-api.ts), and nothing that is
\* registered is ever taken away.
THEOREM TablesStayOfThisBoard ==
  ASSUME CanvasAssumption, AssetsAssumption PROVE Spec => []TablesAreOfThisBoard
<1>1. Init => TablesInv
  BY TablesInit
<1>2. TablesInv /\ [Next]_vars => TablesInv'
  BY TablesNext
<1>3. TablesInv => TablesAreOfThisBoard
  BY DEF TablesInv, TablesHere, TablesAreOfThisBoard
<1>. QED
  BY <1>1, <1>2, <1>3, PTL DEF Spec

-----------------------------------------------------------------------------
(* Arrows.  A request redraws, at its end, the arrows of the shapes it      *)
(* marked.  So what it did not mark, nor delete, must lie in its copy as it *)
(* lies on the board, but for the text.                                     *)

Shapes(shapes) == \A id \in DOMAIN shapes : IsShape(shapes[id])

\* The shape is where it was, as large, and connects what it connected.
Unmoved(before, after) ==
  /\ after.type = before.type /\ after.parent = before.parent
  /\ after.x = before.x /\ after.y = before.y /\ after.w = before.w /\ after.h = before.h
  /\ after.from = before.from /\ after.to = before.to /\ after.aim = before.aim

\* Between two states of a page, but for what was marked or deleted.
Stays(before, after, marked, deleted) ==
  \A id \in DOMAIN before \ deleted :
    id \in DOMAIN after /\ (id \in marked \/ Unmoved(before[id], after[id]))

ArrowsInv ==
  /\ TxnFields
  /\ Shapes(page)
  /\ Shapes(txn.page)
  /\ txn.open => Stays(page, txn.page, txn.affected, txn.gone)

\* What one action of a request does to the copy.
CopyStep ==
  /\ txn'.open = txn.open
  /\ txn.affected \subseteq txn'.affected /\ txn.gone \subseteq txn'.gone
  /\ Shapes(txn'.page)
  /\ Stays(txn.page, txn'.page, txn'.affected, txn'.gone)

\* A shape with another position, size or text is a shape.
LEMMA ShapeFacts ==
  ASSUME NEW shape, IsShape(shape)
  PROVE  /\ \A text : LET changed == [shape EXCEPT !.text = text]
                      IN  IsShape(changed) /\ Unmoved(shape, changed)
         /\ \A x, y, aim : IsShape([shape EXCEPT !.x = x, !.y = y, !.aim = aim])
         /\ \A w, h : IsShape([shape EXCEPT !.w = w, !.h = h])
         /\ \A move : IsShape(Translated(shape, move))
         /\ \A aim : LET drawn == [shape EXCEPT !.aim = aim]
                     IN  /\ IsShape(drawn) /\ drawn.aim = aim
                         /\ drawn.from = shape.from /\ drawn.to = shape.to
                         /\ drawn.type = shape.type /\ drawn.parent = shape.parent
                         /\ drawn.x = shape.x /\ drawn.y = shape.y
                         /\ drawn.w = shape.w /\ drawn.h = shape.h
<1>1. \A text : LET changed == [shape EXCEPT !.text = text]
                IN  IsShape(changed) /\ Unmoved(shape, changed)
  BY DEF IsShape, ShapeFields, Unmoved
<1>2. \A x, y, aim : IsShape([shape EXCEPT !.x = x, !.y = y, !.aim = aim])
  BY DEF IsShape, ShapeFields
<1>3. \A w, h : IsShape([shape EXCEPT !.w = w, !.h = h])
  BY DEF IsShape, ShapeFields
<1>4. \A move : IsShape(Translated(shape, move))
  BY DEF IsShape, ShapeFields, Translated
<1>5. \A aim : LET drawn == [shape EXCEPT !.aim = aim]
               IN  /\ IsShape(drawn) /\ drawn.aim = aim
                   /\ drawn.from = shape.from /\ drawn.to = shape.to
                   /\ drawn.type = shape.type /\ drawn.parent = shape.parent
                   /\ drawn.x = shape.x /\ drawn.y = shape.y
                   /\ drawn.w = shape.w /\ drawn.h = shape.h
  BY DEF IsShape, ShapeFields
<1>. QED
  BY <1>1, <1>2, <1>3, <1>4, <1>5

LEMMA NewShape ==
  ASSUME NEW type, NEW x, NEW y, NEW size, NEW text
  PROVE  IsShape(Shape(type, x, y, size, text)) /\ Shape(type, x, y, size, text).parent = Page
BY DEF Shape, IsShape, ShapeFields

LEMMA LeavesCopies ==
  ASSUME TxnFields, NEW shapes, NEW bound, NEW moved, Leaves(shapes, bound, moved), Shapes(shapes),
         Stays(txn.page, shapes, moved, {})
  PROVE  CopyStep
<1>1. /\ txn'.page = shapes /\ txn'.affected = txn.affected \cup moved
      /\ txn'.gone = txn.gone /\ txn'.open = txn.open
  BY DEF Leaves, TxnFields, NoTxn
<1>. QED
  BY <1>1 DEF CopyStep, Stays

\* A page with one shape changed.
LEMMA OneChanges ==
  ASSUME NEW before, NEW after, NEW id \in DOMAIN before, Shapes(before), DOMAIN after = DOMAIN before,
         \A other \in DOMAIN before \ {id} : after[other] = before[other], IsShape(after[id])
  PROVE  /\ Shapes(after)
         /\ Stays(before, after, {id}, {})
         /\ Unmoved(before[id], after[id]) => Stays(before, after, {}, {})
BY DEF Shapes, Stays, Unmoved

\* A page with one shape more.
LEMMA OneMore ==
  ASSUME NEW before, NEW id, id \notin DOMAIN before, NEW shape, Shapes(before), IsShape(shape)
  PROVE  Shapes(WithShape(before, id, shape)) /\ Stays(before, WithShape(before, id, shape), {}, {})
<1> DEFINE after == WithShape(before, id, shape)
<1>1. /\ DOMAIN after = DOMAIN before \cup {id} /\ after[id] = shape
      /\ \A other \in DOMAIN before : after[other] = before[other]
  BY DEF WithShape
<1> HIDE DEF after
<1>2. Shapes(after) /\ Stays(before, after, {}, {})
  BY <1>1 DEF Shapes, Stays, Unmoved
<1>. QED
  BY <1>2 DEF after

LEMMA ArrangeCopies ==
  ASSUME TxnFields, Shapes(txn.page), NEW moves, NEW placed, NEW gap, Arrange(moves, placed, gap)
  PROVE  CopyStep
<1> DEFINE still == {id \in DOMAIN moves : moves[id].dx = 0 /\ moves[id].dy = 0}
           moved == DOMAIN moves \ still
           after == [id \in DOMAIN txn.page |->
                       IF id \in moved THEN Translated(txn.page[id], moves[id])
                                       ELSE txn.page[id]]
           statuses == txn.statuses \cup {VerifyLayout(after, LayoutOf(after, rows), DOMAIN moves)}
<1>1. txn' = [txn EXCEPT !.page = after, !.affected = txn.affected \cup moved,
                         !.touched = txn.touched \cup DOMAIN moves,
                         !.ran = TRUE, !.statuses = statuses,
                         !.placed = placed, !.region = NoRegion, !.spacing = gap]
  BY Zenon DEF Arrange
<1> HIDE DEF moved, statuses
<1>2. /\ DOMAIN after = DOMAIN txn.page
      /\ \A id \in DOMAIN txn.page \ moved : after[id] = txn.page[id]
      /\ \A id \in DOMAIN txn.page : IsShape(after[id])
  BY ShapeFacts DEF Shapes
<1> HIDE DEF after
<1>3. /\ txn'.page = after /\ txn'.affected = txn.affected \cup moved
      /\ txn'.gone = txn.gone /\ txn'.open = txn.open
  BY <1>1 DEF TxnFields, NoTxn
<1>4. Stays(txn.page, after, moved, {})
  BY <1>2 DEF Stays, Unmoved
<1>. QED
  BY <1>2, <1>3, <1>4 DEF CopyStep, Stays, Shapes

LEMMA VisualCopies ==
  ASSUME TxnFields, Shapes(txn.page), VisualAction
  PROVE  CopyStep
<1>1. ASSUME NEW id, NEW type, NEW x, NEW y, NEW size, NEW text, type # "arrow",
             CreateShape(id, type, x, y, size, text)
      PROVE  CopyStep
  <2> DEFINE shapes == WithShape(txn.page, id, Shape(type, x, y, size, text))
  <2>1. Leaves(shapes, txn.bindings, {}) /\ id \notin DOMAIN txn.page
    BY <1>1 DEF CreateShape
  <2>2. Shapes(shapes) /\ Stays(txn.page, shapes, {}, {})
    BY <2>1, NewShape, OneMore
  <2> HIDE DEF shapes
  <2>. QED
    BY <2>1, <2>2, LeavesCopies
<1>2. ASSUME NEW id, NEW from, NEW to, ConnectShapes(id, from, to) PROVE CopyStep
  <2> DEFINE size == [w |-> 0, h |-> 0]
             aim == AimOf(LayoutOf(txn.page, rows), from, to)
             arrow == [Shape("arrow", 0, 0, size, NoText) EXCEPT !.from = from, !.to = to, !.aim = aim]
             shapes == WithShape(txn.page, id, arrow)
             bound == txn.bindings \cup ArrowBindings(id, from, to)
  <2>1. Leaves(shapes, bound, {}) /\ id \notin DOMAIN txn.page
    BY <1>2, Zenon DEF ConnectShapes
  <2> HIDE DEF aim, size
  <2>2. IsShape(arrow)
    BY NewShape DEF IsShape, ShapeFields
  <2> HIDE DEF arrow, bound
  <2>3. Shapes(shapes) /\ Stays(txn.page, shapes, {}, {})
    BY <2>1, <2>2, OneMore
  <2> HIDE DEF shapes
  <2>. QED
    BY <2>1, <2>3, LeavesCopies
<1>3. ASSUME NEW id, NEW x, NEW y, MoveShape(id, x, y) PROVE CopyStep
  <2> DEFINE aim == IF txn.page[id].aim = <<>> THEN txn.page[id].aim ELSE Astray
             shapes == [txn.page EXCEPT ![id] = [txn.page[id] EXCEPT !.x = x, !.y = y, !.aim = aim]]
  <2>1. id \in DOMAIN txn.page /\ IsShape(txn.page[id])
    BY <1>3 DEF MoveShape, Current, Shapes
  <2>2. Leaves(shapes, txn.bindings, {id})
    <3>1. Leaves([txn.page EXCEPT ![id].x = x, ![id].y = y,
                                  ![id].aim = IF @ = <<>> THEN @ ELSE Astray], txn.bindings, {id})
      BY <1>3 DEF MoveShape
    <3>2. [txn.page EXCEPT ![id].x = x, ![id].y = y, ![id].aim = IF @ = <<>> THEN @ ELSE Astray]
            = shapes
      BY <2>1 DEF IsShape, ShapeFields
    <3>. QED
      BY <3>1, <3>2
  <2>3. /\ DOMAIN shapes = DOMAIN txn.page /\ IsShape(shapes[id])
        /\ \A other \in DOMAIN txn.page \ {id} : shapes[other] = txn.page[other]
    BY <2>1, ShapeFacts
  <2> HIDE DEF shapes
  <2>4. Shapes(shapes) /\ Stays(txn.page, shapes, {id}, {})
    BY <2>1, <2>3, OneChanges
  <2>. QED
    BY <2>2, <2>4, LeavesCopies
<1>4. ASSUME NEW id, NEW text, UpdateText(id, text) PROVE CopyStep
  <2> DEFINE shapes == [txn.page EXCEPT ![id].text = text]
  <2>1. id \in DOMAIN txn.page /\ IsShape(txn.page[id])
    BY <1>4 DEF UpdateText, Current, Shapes
  <2>2. Leaves(shapes, txn.bindings, {})
    BY <1>4 DEF UpdateText
  <2>3. /\ DOMAIN shapes = DOMAIN txn.page
        /\ shapes[id] = [txn.page[id] EXCEPT !.text = text]
        /\ \A other \in DOMAIN txn.page \ {id} : shapes[other] = txn.page[other]
    BY <2>1
  <2>4. IsShape(shapes[id]) /\ Unmoved(txn.page[id], shapes[id])
    BY <2>1, <2>3, ShapeFacts
  <2> HIDE DEF shapes
  <2>5. Shapes(shapes) /\ Stays(txn.page, shapes, {}, {})
    BY <2>1, <2>3, <2>4, OneChanges
  <2>. QED
    BY <2>2, <2>5, LeavesCopies
<1>5. ASSUME NEW id, NEW size, ResizeShape(id, size) PROVE CopyStep
  <2> DEFINE shapes == [txn.page EXCEPT ![id].w = size.w, ![id].h = size.h]
  <2>1. id \in DOMAIN txn.page /\ IsShape(txn.page[id])
    BY <1>5 DEF ResizeShape, Current, Shapes
  <2>2. Leaves(shapes, txn.bindings, {id})
    BY <1>5 DEF ResizeShape, Resized
  <2>3. /\ DOMAIN shapes = DOMAIN txn.page
        /\ shapes[id] = [txn.page[id] EXCEPT !.w = size.w, !.h = size.h]
        /\ \A other \in DOMAIN txn.page \ {id} : shapes[other] = txn.page[other]
    BY <2>1
  <2>4. IsShape(shapes[id])
    BY <2>1, <2>3, ShapeFacts
  <2> HIDE DEF shapes
  <2>5. Shapes(shapes) /\ Stays(txn.page, shapes, {id}, {})
    BY <2>1, <2>3, <2>4, OneChanges
  <2>. QED
    BY <2>2, <2>5, LeavesCopies
<1>6. ASSUME NEW id, DeleteShape(id) PROVE CopyStep
  <2> DEFINE shapes == Restrict(txn.page, DOMAIN txn.page \ {id})
  <2>1. /\ txn'.page = shapes /\ txn'.gone = txn.gone \cup {id}
        /\ txn'.affected = txn.affected /\ txn'.open = txn.open
    BY <1>6 DEF DeleteShape, TxnFields, NoTxn
  <2>2. /\ DOMAIN shapes = DOMAIN txn.page \ {id}
        /\ \A other \in DOMAIN shapes : shapes[other] = txn.page[other]
    BY DEF Restrict
  <2> HIDE DEF shapes
  <2>. QED
    BY <2>1, <2>2 DEF CopyStep, Stays, Shapes, Unmoved
<1>. QED
  BY <1>1, <1>2, <1>3, <1>4, <1>5, <1>6 DEF VisualAction

\* What a change of one shape's fields leaves of a page.
LEMMA OneShape ==
  ASSUME NEW before, NEW id \in DOMAIN before, Shapes(before), NEW shape, IsShape(shape)
  PROVE  Shapes([before EXCEPT ![id] = shape])
BY DEF Shapes

\* People move, nest, write, lock and delete shapes, and leave shapes.
LEMMA PeopleShapes ==
  ASSUME Shapes(page), People
  PROVE  Shapes(page)'
<1>1. ASSUME NEW id, NEW x, NEW y, PersonMoves(id, x, y) PROVE Shapes(page)'
  BY <1>1 DEF PersonMoves, Shapes, IsShape, ShapeFields
<1>2. ASSUME NEW id, NEW container, PersonNests(id, container) PROVE Shapes(page)'
  <2>1. /\ id \in DOMAIN page /\ page[id].type # "arrow"
        /\ \E x, y : page' = [page EXCEPT ![id].parent = container,
                                          ![id].x = @ - x - page[container].x,
                                          ![id].y = @ - y - page[container].y]
    BY <1>2, Zenon DEF PersonNests, OnPage
  <2>. QED
    BY <2>1 DEF Shapes, IsShape, ShapeFields
<1>3. ASSUME NEW id, NEW text, PersonWrites(id, text) PROVE Shapes(page)'
  <2>1. /\ id \in DOMAIN page
        /\ \E h : page' = [page EXCEPT ![id].text = text, ![id].h = h]
    BY <1>3 DEF PersonWrites
  <2>. QED
    BY <2>1 DEF Shapes, IsShape, ShapeFields
<1>4. ASSUME NEW id, PersonLocks(id) PROVE Shapes(page)'
  BY <1>4 DEF PersonLocks, Shapes, IsShape, ShapeFields
<1>5. ASSUME NEW id, PersonDeletes(id) PROVE Shapes(page)'
  <2>1. \E gone : page' = Restrict(page, DOMAIN page \ gone)
    BY <1>5, Zenon DEF PersonDeletes
  <2>. QED
    BY <2>1 DEF Restrict, Shapes
<1>6. ASSUME NEW id, Measure(id) PROVE Shapes(page)'
  BY <1>6 DEF Measure, Shapes
<1>. QED
  BY <1>1, <1>2, <1>3, <1>4, <1>5, <1>6, Zenon DEF People

\* What the end of a request writes.
LEMMA RerouteDoes ==
  ASSUME NEW shapes, Shapes(shapes), NEW layout, NEW affected
  PROVE  LET final == Reroute(shapes, layout, affected)
         IN  /\ DOMAIN final = DOMAIN shapes /\ Shapes(final)
             /\ \A id \in DOMAIN shapes :
                  /\ final[id].from = shapes[id].from /\ final[id].to = shapes[id].to
                  /\ final[id].type = shapes[id].type /\ final[id].parent = shapes[id].parent
                  /\ final[id].x = shapes[id].x /\ final[id].y = shapes[id].y
                  /\ final[id].w = shapes[id].w /\ final[id].h = shapes[id].h
                  /\ final[id].aim =
                       IF /\ shapes[id].type = "arrow" /\ shapes[id].from # Nobody
                          /\ {shapes[id].from, shapes[id].to} \cap affected # {}
                          /\ {shapes[id].from, shapes[id].to} \subseteq DOMAIN layout
                          /\ shapes[id].parent = Page
                         THEN AimOf(layout, shapes[id].from, shapes[id].to)
                         ELSE shapes[id].aim
<1> DEFINE final == Reroute(shapes, layout, affected)
           draws(id) == /\ shapes[id].type = "arrow" /\ shapes[id].from # Nobody
                        /\ {shapes[id].from, shapes[id].to} \cap affected # {}
                        /\ {shapes[id].from, shapes[id].to} \subseteq DOMAIN layout
                        /\ shapes[id].parent = Page
           aim(id) == AimOf(layout, shapes[id].from, shapes[id].to)
<1>1. /\ DOMAIN final = DOMAIN shapes
      /\ \A id \in DOMAIN shapes :
           final[id] = IF draws(id) THEN [shapes[id] EXCEPT !.aim = aim(id)] ELSE shapes[id]
  BY Zenon DEF Reroute
<1> HIDE DEF final, draws, aim
<1>2. ASSUME NEW id \in DOMAIN shapes
      PROVE  /\ IsShape(final[id])
             /\ final[id].from = shapes[id].from /\ final[id].to = shapes[id].to
             /\ final[id].type = shapes[id].type /\ final[id].parent = shapes[id].parent
             /\ final[id].x = shapes[id].x /\ final[id].y = shapes[id].y
             /\ final[id].w = shapes[id].w /\ final[id].h = shapes[id].h
             /\ final[id].aim = IF draws(id) THEN aim(id) ELSE shapes[id].aim
  <2>1. IsShape(shapes[id])
    BY DEF Shapes
  <2>2. CASE draws(id)
    <3>1. final[id] = [shapes[id] EXCEPT !.aim = aim(id)]
      BY <1>1, <2>2
    <3>2. (IF draws(id) THEN aim(id) ELSE shapes[id].aim) = aim(id)
      BY <2>2
    <3>3. \A v : LET drawn == [shapes[id] EXCEPT !.aim = v]
                IN  /\ IsShape(drawn) /\ drawn.aim = v
                    /\ drawn.from = shapes[id].from /\ drawn.to = shapes[id].to
                    /\ drawn.type = shapes[id].type /\ drawn.parent = shapes[id].parent
                    /\ drawn.x = shapes[id].x /\ drawn.y = shapes[id].y
                    /\ drawn.w = shapes[id].w /\ drawn.h = shapes[id].h
      BY <2>1, ShapeFacts
    <3>. QED
      BY <3>1, <3>2, <3>3
  <2>3. CASE ~draws(id)
    <3>1. final[id] = shapes[id]
      BY <1>1, <2>3
    <3>2. (IF draws(id) THEN aim(id) ELSE shapes[id].aim) = shapes[id].aim
      BY <2>3
    <3>. QED
      BY <2>1, <3>1, <3>2
  <2>. QED
    BY <2>2, <2>3
<1>3. Shapes(final)
  BY <1>1, <1>2 DEF Shapes
<1>4. LET f == final
      IN  /\ DOMAIN f = DOMAIN shapes /\ Shapes(f)
          /\ \A id \in DOMAIN shapes :
               /\ f[id].from = shapes[id].from /\ f[id].to = shapes[id].to
               /\ f[id].type = shapes[id].type /\ f[id].parent = shapes[id].parent
               /\ f[id].x = shapes[id].x /\ f[id].y = shapes[id].y
               /\ f[id].w = shapes[id].w /\ f[id].h = shapes[id].h
               /\ f[id].aim = IF draws(id) THEN aim(id) ELSE shapes[id].aim
  BY <1>1, <1>2, <1>3
<1>. QED
  BY <1>4, Zenon DEF final, draws, aim

LEMMA ArrowsInit == ASSUME CanvasAssumption, Init PROVE ArrowsInv
<1>1. TxnFields /\ ~txn.open /\ Shapes(txn.page)
  BY DEF Init, TxnFields, NoTxn, Shapes
<1>2. Shapes(page)
  BY DEF Init, CanvasAssumption, IsBoardPage, Shapes
<1>. QED
  BY <1>1, <1>2 DEF ArrowsInv

LEMMA CopyKeeps ==
  ASSUME ArrowsInv, CopyStep, TxnFields', page' = page
  PROVE  ArrowsInv'
<1>1. txn.open => Stays(page, txn'.page, txn'.affected, txn'.gone)
  BY DEF ArrowsInv, CopyStep, Stays, Unmoved
<1>. QED
  BY <1>1 DEF ArrowsInv, CopyStep

LEMMA FindingCopies ==
  ASSUME TxnFields, Shapes(txn.page),
         NEW guessed, NEW region, NEW gap, Looks(guessed, region, gap)
  PROVE  CopyStep
<1>1. /\ txn'.page = txn.page /\ txn'.affected = txn.affected
      /\ txn'.gone = txn.gone /\ txn'.open = txn.open
  BY DEF Looks, TxnFields, NoTxn
<1>. QED
  BY <1>1 DEF CopyStep, Stays, Unmoved

LEMMA LayoutCopies == ASSUME TxnFields, Shapes(txn.page), LayoutAction PROVE CopyStep
BY LayoutShape, ArrangeCopies, FindingCopies

LEMMA SemanticCopies == ASSUME TxnFields, Shapes(txn.page), SemanticAction PROVE CopyStep
<1>1. \E entity, created : Writes(entity, created)
  BY Zenon DEF SemanticAction, CreateEntity, UpdateEntity, UpdateStatus,
     RecordExperimentResult, ApplyUpdate, AttachEvidence, LinkEntities, UnlinkEntities, Acting
<1>2. /\ txn'.page = txn.page /\ txn'.affected = txn.affected
      /\ txn'.gone = txn.gone /\ txn'.open = txn.open
  BY <1>1 DEF Writes, TxnFields, NoTxn
<1>. QED
  BY <1>2 DEF CopyStep, Stays, Unmoved

LEMMA CommitShapes ==
  ASSUME ArrowsInv, Commit
  PROVE  /\ Shapes(page)' /\ txn' = NoTxn
         /\ \/ page' = txn.page /\ txn.affected = {}
            \/ page' = Reroute(txn.page, LayoutOf(txn.page, rows), txn.affected)
<1>1. /\ txn' = NoTxn
      /\ page' = IF txn.affected = {} THEN txn.page
                 ELSE Reroute(txn.page, LayoutOf(txn.page, rows), txn.affected)
  BY Zenon DEF Commit
<1>2. Shapes(Reroute(txn.page, LayoutOf(txn.page, rows), txn.affected))
  BY RerouteDoes DEF ArrowsInv
<1>. QED
  BY <1>1, <1>2 DEF ArrowsInv

LEMMA ArrowsNext == ASSUME ArrowsInv, [Next]_vars PROVE ArrowsInv'
<1>0. TxnFields /\ Shapes(txn.page)
  BY DEF ArrowsInv
<1>1. CASE Begin
  <2>1. /\ txn'.page = page /\ TxnFields' /\ page' = page
    BY <1>1 DEF Begin, NoTxn, TxnFields, board
  <2>2. Stays(page, txn'.page, txn'.affected, txn'.gone)
    BY <2>1 DEF Stays, Unmoved
  <2>. QED
    BY <2>1, <2>2 DEF ArrowsInv
<1>2. CASE Refuse
  BY <1>2 DEF Refuse, board, ArrowsInv, TxnFields, NoTxn, Shapes
<1>3. CASE Commit
  BY <1>3, CommitShapes DEF ArrowsInv, TxnFields, NoTxn, Shapes
<1>4. CASE VisualAction
  BY <1>0, <1>4, VisualFrame, VisualCopies, CopyKeeps DEF board
<1>5. CASE LayoutAction
  BY <1>0, <1>5, LayoutStep, LayoutCopies, CopyKeeps DEF board
<1>6. CASE SemanticAction
  BY <1>0, <1>6, SemanticStep, SemanticCopies, CopyKeeps DEF board
<1>7. CASE People
  <2>1. ~txn.open
    BY <1>7 DEF People, PersonMoves, PersonNests, PersonWrites, PersonLocks, PersonDeletes,
       Measure, Editing
  <2>. QED
    BY <1>7, <2>1, PeopleFrame, PeopleShapes DEF ArrowsInv, TxnFields
<1>8. CASE Routes
  BY <1>8 DEF Routes, board, ArrowsInv, TxnFields
<1>9. CASE UNCHANGED vars
  BY <1>9 DEF vars, ArrowsInv, TxnFields
<1>. QED
  BY <1>1, <1>2, <1>3, <1>4, <1>5, <1>6, <1>7, <1>8, <1>9 DEF Next

\* Where the layout finds a box at the top level.
LEMMA BoxOnTop ==
  ASSUME NEW shapes, NEW measured, NEW id \in DOMAIN shapes,
         shapes[id].parent = Page, shapes[id].type \in {"geo", "frame"}
  PROVE  /\ id \in DOMAIN LayoutOf(shapes, measured)
         /\ LayoutOf(shapes, measured)[id].bounds =
              Rect(0 + shapes[id].x, 0 + shapes[id].y, [w |-> shapes[id].w, h |-> shapes[id].h])
<1>1. id \in OnPage(shapes)
  <2> DEFINE above == Above(shapes)
  <2>1. id \in above[id] \cup {id}
    OBVIOUS
  <2> HIDE DEF above
  <2>2. OnPage(shapes) =
          {i \in DOMAIN shapes : \E top \in above[i] \cup {i} : shapes[top].parent = Page}
    BY Zenon DEF OnPage, above
  <2>. QED
    BY <2>1, <2>2
<1>2. /\ id \in DOMAIN LayoutOf(shapes, measured)
      /\ LayoutOf(shapes, measured)[id] = BoxLayout(shapes, measured, id)
  <2>1. id \in {b \in OnPage(shapes) : shapes[b].type # "arrow"}
    BY <1>1
  <2>. QED
    BY <2>1 DEF LayoutOf
<1>3. SizeOf(shapes[id], measured[id]) = [w |-> shapes[id].w, h |-> shapes[id].h]
  BY DEF SizeOf, IsMeasured
<1>4. BoxLayout(shapes, measured, id).bounds =
        Rect(OffsetX(shapes, id) + shapes[id].x, OffsetY(shapes, id) + shapes[id].y,
             SizeOf(shapes[id], measured[id]))
  BY DEF BoxLayout
<1>5. OffsetX(shapes, id) = 0 /\ OffsetY(shapes, id) = 0
  BY DEF OffsetX, OffsetY
<1>. QED
  BY <1>2, <1>3, <1>4, <1>5

\* Boxes that two pages have in the same place are met by the same aims.
LEMMA SameAims ==
  ASSUME NEW before, NEW after, NEW first, NEW second, NEW from, NEW to,
         \A id \in {from, to} :
           /\ id \in DOMAIN before /\ id \in DOMAIN after
           /\ before[id].parent = Page /\ before[id].type \in {"geo", "frame"}
           /\ after[id].parent = Page /\ after[id].type \in {"geo", "frame"}
           /\ after[id].x = before[id].x /\ after[id].y = before[id].y
           /\ after[id].w = before[id].w /\ after[id].h = before[id].h
  PROVE  /\ {from, to} \subseteq DOMAIN LayoutOf(before, first)
         /\ {from, to} \subseteq DOMAIN LayoutOf(after, second)
         /\ AimOf(LayoutOf(after, second), from, to) = AimOf(LayoutOf(before, first), from, to)
<1>1. ASSUME NEW id \in {from, to}
      PROVE  /\ id \in DOMAIN LayoutOf(before, first) /\ id \in DOMAIN LayoutOf(after, second)
             /\ LayoutOf(after, second)[id].bounds = LayoutOf(before, first)[id].bounds
  <2>1. /\ id \in DOMAIN LayoutOf(before, first)
        /\ LayoutOf(before, first)[id].bounds =
             Rect(0 + before[id].x, 0 + before[id].y, [w |-> before[id].w, h |-> before[id].h])
    BY BoxOnTop
  <2>2. /\ id \in DOMAIN LayoutOf(after, second)
        /\ LayoutOf(after, second)[id].bounds =
             Rect(0 + after[id].x, 0 + after[id].y, [w |-> after[id].w, h |-> after[id].h])
    BY BoxOnTop
  <2>. QED
    BY <2>1, <2>2
<1>. QED
  BY <1>1 DEF AimOf

\* One arrow at the end of a request.
LEMMA ArrowFollows ==
  ASSUME ArrowsInv, Commit, NEW a \in DOMAIN page \cap DOMAIN page',
         page[a].type = "arrow", page[a].from # Nobody,
         a \notin txn.affected \cup txn.gone,
         BetweenBoxes(page, a), BetweenBoxes(page', a),
         {page[a].from, page[a].to} \subseteq DOMAIN page' \ txn.gone,
         Meets(page, a), txn.open
  PROVE  Meets(page', a)
<1> DEFINE copy == txn.page
           layout == LayoutOf(copy, rows)
           from == page[a].from
           to == page[a].to
<1>1. Shapes(copy) /\ Stays(page, copy, txn.affected, txn.gone)
  BY DEF ArrowsInv
<1>2. /\ rows' = rows
      /\ \/ page' = copy /\ txn.affected = {}
         \/ page' = Reroute(copy, layout, txn.affected)
  BY CommitShapes DEF Commit
<1>3. /\ DOMAIN page' = DOMAIN copy
      /\ \A id \in DOMAIN copy :
           /\ page'[id].from = copy[id].from /\ page'[id].to = copy[id].to
           /\ page'[id].type = copy[id].type /\ page'[id].parent = copy[id].parent
           /\ page'[id].x = copy[id].x /\ page'[id].y = copy[id].y
           /\ page'[id].w = copy[id].w /\ page'[id].h = copy[id].h
  BY <1>1, <1>2, RerouteDoes
<1>4. /\ a \in DOMAIN copy /\ copy[a].from = from /\ copy[a].to = to
      /\ copy[a].type = "arrow" /\ copy[a].aim = page[a].aim /\ copy[a].parent = Page
  <2>1. a \in DOMAIN copy /\ Unmoved(page[a], copy[a])
    BY <1>1 DEF Stays
  <2>2. page[a].parent = Page
    BY DEF ArrowsInv, Shapes, IsShape
  <2>. QED
    BY <2>1, <2>2 DEF Unmoved
<1>5. /\ {from, to} \subseteq DOMAIN copy /\ {from, to} \cap txn.gone = {}
      /\ \A id \in {from, to} :
           copy[id].parent = Page /\ copy[id].type \in {"geo", "frame"}
  BY <1>3, <1>4 DEF BetweenBoxes
<1>6. /\ {from, to} \subseteq DOMAIN LayoutOf(copy, rows)
      /\ {from, to} \subseteq DOMAIN LayoutOf(page', rows')
      /\ AimOf(LayoutOf(page', rows'), from, to) = AimOf(LayoutOf(copy, rows), from, to)
  BY <1>3, <1>5, SameAims
<1>7. page'[a].aim = AimOf(LayoutOf(copy, rows), from, to)
  <2>1. CASE {from, to} \cap txn.affected # {}
    BY <1>1, <1>2, <1>4, <1>6, <2>1, RerouteDoes
  <2>2. CASE {from, to} \cap txn.affected = {}
    <3>1. page'[a].aim = page[a].aim
      BY <1>1, <1>2, <1>4, <2>2, RerouteDoes
    <3>2. {from, to} \subseteq DOMAIN page /\ page[a].aim = AimOf(LayoutOf(page, rows), from, to)
      <4>1. \A id \in DOMAIN LayoutOf(page, rows) : id \in DOMAIN page
        BY DEF LayoutOf, OnPage
      <4>. QED
        BY <4>1 DEF Meets
    <3>3. \A id \in {from, to} :
            page[id].parent = Page /\ page[id].type \in {"geo", "frame"}
      BY <3>2 DEF BetweenBoxes
    <3>4. \A id \in {from, to} : Unmoved(page[id], copy[id])
      BY <1>1, <1>5, <2>2, <3>2 DEF Stays
    <3>5. AimOf(LayoutOf(copy, rows), from, to) = AimOf(LayoutOf(page, rows), from, to)
      BY <1>5, <3>2, <3>3, <3>4, SameAims DEF Unmoved
    <3>. QED
      BY <3>1, <3>2, <3>5
  <2>. QED
    BY <2>1, <2>2
<1>. QED
  BY <1>2, <1>3, <1>4, <1>6, <1>7 DEF Meets

\* No request leaves an arrow behind (rerouteManagedArrows of server/canvas-api.ts),
\* whatever it moves, resizes, lays out and deletes in whichever order: the shapes
\* it marks are all those that the arrows it does not redraw might miss.  (The limit
\* of README.md:376, that such an arrow stays behind, is therefore not one of the code.)
THEOREM ArrowsAlwaysFollow == ASSUME CanvasAssumption PROVE Spec => ArrowsFollow
<1> DEFINE Follow(a) ==
             /\ page[a].type = "arrow" /\ page[a].from # Nobody
             /\ a \notin txn.affected \cup txn.gone
             /\ BetweenBoxes(page, a) /\ BetweenBoxes(page', a)
             /\ {page[a].from, page[a].to} \subseteq DOMAIN page' \ txn.gone
             /\ Meets(page, a)
             => Meets(page', a)
           Step == txn.open /\ ~txn'.open => \A a \in DOMAIN page \cap DOMAIN page' : Follow(a)
<1>1. Init => ArrowsInv
  BY ArrowsInit
<1>2. ArrowsInv /\ [Next]_vars => ArrowsInv'
  BY ArrowsNext
<1>3. ASSUME ArrowsInv, [Next]_vars PROVE Step
  <2>0. TxnFields /\ Shapes(txn.page)
    BY <1>3 DEF ArrowsInv
  <2>1. CASE Commit
    BY <1>3, <2>1, ArrowFollows
  <2>2. CASE Refuse
    <3>1. page' = page /\ rows' = rows
      BY <2>2 DEF Refuse, board
    <3>2. \A a : Meets(page, a) => Meets(page', a)
      BY <3>1 DEF Meets
    <3>. QED
      BY <3>2
  <2>3. CASE VisualAction \/ LayoutAction \/ SemanticAction
    <3>1. txn'.open = txn.open
      BY <2>0, <2>3, VisualCopies, LayoutCopies, SemanticCopies DEF CopyStep
    <3>. QED
      BY <3>1
  <2>4. CASE Begin \/ People \/ Routes \/ UNCHANGED vars
    <3>1. ~txn.open \/ txn' = txn
      BY <2>4, PeopleFrame DEF Begin, Routes, vars
    <3>. QED
      BY <3>1
  <2>. QED
    BY <1>3, <2>1, <2>2, <2>3, <2>4 DEF Next
<1>4. ArrowsInv /\ [Next]_vars => [Step]_vars
  BY <1>3
<1>. QED
  BY <1>1, <1>2, <1>4, PTL DEF Spec, ArrowsFollow

-----------------------------------------------------------------------------
(* Recursion along a relation in which every set has a least element.       *)

\* A non-empty set of subsets of a finite set has a least one by inclusion.
LEMMA LeastSubset ==
  ASSUME NEW D, IsFiniteSet(D), NEW T \in SUBSET SUBSET D, T # {}
  PROVE  \E x \in T : \A y \in T : y \subseteq x => y = x
<1>1. T \subseteq FiniteSubsetsOf(D)
  BY FS_FiniteSubsetsOfFinite
<1>2. PICK x \in T : \A y \in T : ~(<<y, x>> \in StrictSubsetOrdering(D))
  BY <1>1, FS_StrictSubsetOrderingWellFounded, WFMin
<1>3. ASSUME NEW y \in T, y \subseteq x, y # x
      PROVE  FALSE
  BY <1>2, <1>3 DEF StrictSubsetOrdering
<1>. QED
  BY <1>3


\* Every set has a least element along the relation.
HasLeast(R, D) == \A T \in SUBSET D : T # {} => \E x \in T : \A y \in T : <<y, x>> \notin R

\* F computes a value from those of smaller things only.
LooksDown(F, R, D, V) ==
  /\ F \in [D \X [D -> V] -> V]
  /\ \A d \in D : \A g, h \in [D -> V] :
       (\A c \in D : <<c, d>> \in R => g[c] = h[c]) => F[<<d, g>>] = F[<<d, h>>]

\* What depends on a smaller thing only can be computed from the bottom up: a
\* relation in which every set has a least element admits recursion along it.
Computable(F, D, V) == \E h \in [D -> V] : \A d \in D : h[d] = F[<<d, h>>]

LEMMA RecursionExists ==
  ASSUME NEW D, IsFiniteSet(D), NEW V, V # {},
         NEW R, HasLeast(R, D), NEW F, LooksDown(F, R, D, V)
  PROVE  Computable(F, D, V)
<1> SUFFICES \E h \in [D -> V] : \A d \in D : h[d] = F[<<d, h>>]
  BY DEF Computable
<1> DEFINE closed(C) == \A c \in C : \A b \in D : <<b, c>> \in R => b \in C
           solves(C, h) == \A c \in C : h[c] = F[<<c, h>>]
           left == {B \in SUBSET D : /\ closed(D \ B)
                                     /\ \E h \in [D -> V] : solves(D \ B, h)}
<1>1. D \in left
  <2>1. PICK v \in V : TRUE
    OBVIOUS
  <2>2. [d \in D |-> v] \in [D -> V] /\ solves(D \ D, [d \in D |-> v])
    OBVIOUS
  <2>3. closed(D \ D)
    OBVIOUS
  <2>. QED
    BY <2>2, <2>3
<1>2. PICK B \in left : \A A \in left : A \subseteq B => A = B
  <2>1. left \in SUBSET SUBSET D /\ left # {}
    BY <1>1
  <2> HIDE DEF left
  <2>. QED
    BY <2>1, LeastSubset
<1>3. PICK h \in [D -> V] : solves(D \ B, h)
  BY <1>2
<1>4. CASE B = {}
  BY <1>3, <1>4
<1>5. CASE B # {}
  <2>1. PICK x \in B : \A y \in B : <<y, x>> \notin R
    BY <1>2, <1>5 DEF HasLeast
  <2> DEFINE g == [h EXCEPT ![x] = F[<<x, h>>]]
  <2>2. x \in D /\ <<x, h>> \in D \X [D -> V] /\ F[<<x, h>>] \in V
    BY <1>2 DEF LooksDown
  <2>3. g \in [D -> V] /\ g[x] = F[<<x, h>>] /\ \A d \in D : d # x => g[d] = h[d]
    BY <2>2
  <2> HIDE DEF g
  <2>4. closed(D \ B)
    BY <1>2
  <2>5. closed(D \ (B \ {x}))
    BY <2>1, <2>2, <2>4
  <2>6. ASSUME NEW c \in D \ (B \ {x})
        PROVE  g[c] = F[<<c, g>>]
    <3>1. \A b \in D : <<b, c>> \in R => b \notin B
      BY <2>1, <2>4, <2>6
    <3>2. \A b \in D : <<b, c>> \in R => g[b] = h[b]
      BY <3>1, <2>1, <2>3
    <3>3. F[<<c, g>>] = F[<<c, h>>]
      BY <3>2, <2>3 DEF LooksDown
    <3>4. CASE c = x
      BY <3>3, <3>4, <2>3
    <3>5. CASE c # x
      BY <3>3, <3>5, <2>3, <1>3
    <3>. QED
      BY <3>4, <3>5
  <2>7. B \ {x} \in left
    BY <1>2, <2>3, <2>5, <2>6
  <2> HIDE DEF left
  <2>. QED
    BY <1>2, <2>1, <2>7
<1>. QED
  BY <1>4, <1>5

\* The image of a finite set is finite.
LEMMA FiniteImage ==
  ASSUME NEW S, IsFiniteSet(S), NEW f
  PROVE  IsFiniteSet({f[s] : s \in S})
<1> DEFINE T == {f[s] : s \in S}
           g == [s \in S |-> f[s]]
<1>1. g \in Surjection(S, T)
  BY DEF Surjection
<1>. QED
  BY <1>1, FS_Surjection

\* Of the subsets that a function gives to the elements, one has none below it.
LEMMA LeastOf ==
  ASSUME NEW S, IsFiniteSet(S), S # {}, NEW f \in [S -> SUBSET S]
  PROVE  \E m \in S : \A y \in S : f[y] \subseteq f[m] => f[y] = f[m]
<1> DEFINE all == {f[x] : x \in S}
<1>1. all \in SUBSET SUBSET S /\ all # {}
  OBVIOUS
<1>2. PICK A \in all : \A B \in all : B \subseteq A => B = A
  <2> HIDE DEF all
  <2>. QED
    BY <1>1, LeastSubset
<1>. QED
  BY <1>2

\* A finite set of numbers that is not empty has a greatest and a least one.
LEMMA MaxOf ==
  ASSUME NEW S, IsFiniteSet(S), S # {}, \A s \in S : s \in Int
  PROVE  Max(S) \in S /\ \A y \in S : Max(S) >= y
<1> DEFINE over == [x \in S |-> {y \in S : y > x}]
<1>1. over \in [S -> SUBSET S]
  OBVIOUS
<1>2. PICK m \in S : \A y \in S : over[y] \subseteq over[m] => over[y] = over[m]
  <2> HIDE DEF over
  <2>. QED
    BY <1>1, LeastOf
<1>3. ASSUME NEW y \in S, y > m
      PROVE  FALSE
  <2>1. over[y] \subseteq over[m] /\ y \in over[m] /\ y \notin over[y]
    BY <1>3
  <2>2. over[y] = over[m]
    <3> HIDE DEF over
    <3>. QED
      BY <1>2, <1>3, <2>1
  <2>. QED
    BY <2>1, <2>2
<1>4. \A y \in S : m >= y
  BY <1>3
<1>. QED
  BY <1>4 DEF Max

LEMMA MinOf ==
  ASSUME NEW S, IsFiniteSet(S), S # {}, \A s \in S : s \in Int
  PROVE  Min(S) \in S /\ \A y \in S : Min(S) =< y
<1> DEFINE under == [x \in S |-> {y \in S : y < x}]
<1>1. under \in [S -> SUBSET S]
  OBVIOUS
<1>2. PICK m \in S : \A y \in S : under[y] \subseteq under[m] => under[y] = under[m]
  <2> HIDE DEF under
  <2>. QED
    BY <1>1, LeastOf
<1>3. ASSUME NEW y \in S, y < m
      PROVE  FALSE
  <2>1. under[y] \subseteq under[m] /\ y \in under[m] /\ y \notin under[y]
    BY <1>3
  <2>2. under[y] = under[m]
    <3> HIDE DEF under
    <3>. QED
      BY <1>2, <1>3, <2>1
  <2>. QED
    BY <2>1, <2>2
<1>4. \A y \in S : m =< y
  BY <1>3
<1>. QED
  BY <1>4 DEF Min

-----------------------------------------------------------------------------
(* Sums over finite sets.                                                   *)

AnyOf(s) == CHOOSE x \in s : TRUE

\* it computes the sums of f over the subsets of S, one element at a time.
Sums(it, S, f) ==
  /\ it \in [SUBSET S -> Int]
  /\ it[{}] = 0
  /\ \A s \in SUBSET S : s # {} => it[s] = f[AnyOf(s)] + it[s \ {AnyOf(s)}]

LEMMA SumUnfolds ==
  ASSUME NEW S, NEW f
  PROVE  \E it : /\ SumFunctionOnSet(f, S) = it[S]
                 /\ it = CHOOSE g : g = [s \in SUBSET S |->
                            IF s = {} THEN 0 ELSE f[AnyOf(s)] + g[s \ {AnyOf(s)}]]
BY DEF SumFunctionOnSet, FoldFunctionOnSet, MapThenFoldSet, AnyOf

LEMMA AnyIsIn == ASSUME NEW s, s # {} PROVE AnyOf(s) \in s
BY DEF AnyOf

LEMMA SmallerSet ==
  ASSUME NEW S, IsFiniteSet(S), NEW R,
         \A p \in R : p[1] \subseteq p[2] /\ p[1] # p[2]
  PROVE  HasLeast(R, SUBSET S)
<1> SUFFICES ASSUME NEW T \in SUBSET SUBSET S, T # {}
             PROVE  \E x \in T : \A y \in T : <<y, x>> \notin R
  BY DEF HasLeast
<1>1. PICK x \in T : \A y \in T : y \subseteq x => y = x
  BY LeastSubset
<1>2. ASSUME NEW y \in T, <<y, x>> \in R
      PROVE  FALSE
  <2>1. y \subseteq x /\ y # x
    BY <1>2
  <2>. QED
    BY <1>1, <2>1
<1>. QED
  BY <1>2

\* The sum of numbers over a finite set is computed that way.
LEMMA SumIs ==
  ASSUME NEW S, IsFiniteSet(S), NEW f, \A s \in S : f[s] \in Int
  PROVE  \E it : Sums(it, S, f) /\ SumFunctionOnSet(f, S) = it[S]
<1> DEFINE D == SUBSET S
           body(s, g) == IF s = {} THEN 0 ELSE f[AnyOf(s)] + g[s \ {AnyOf(s)}]
           R == {p \in D \X D : p[1] \subseteq p[2] /\ p[1] # p[2]}
           V == Int
           F == [p \in D \X [D -> V] |-> body(p[1], p[2])]
<1>1. PICK it : /\ SumFunctionOnSet(f, S) = it[S]
                /\ it = CHOOSE g : g = [s \in D |-> body(s, g)]
  BY SumUnfolds
<1>2. ASSUME NEW s \in D, s # {}
      PROVE  AnyOf(s) \in S /\ s \ {AnyOf(s)} \in D /\ <<s \ {AnyOf(s)}, s>> \in R
  BY <1>2, AnyIsIn
<1>3. F \in [D \X [D -> V] -> Int]
  <2> SUFFICES ASSUME NEW s \in D, NEW g \in [D -> V]
               PROVE  body(s, g) \in Int
    OBVIOUS
  <2>1. s # {} => f[AnyOf(s)] \in Int /\ g[s \ {AnyOf(s)}] \in Int
    BY <1>2
  <2>. QED
    BY <2>1
<1>4. \A d \in D : \A g, h \in [D -> V] :
        (\A c \in D : <<c, d>> \in R => g[c] = h[c]) => F[<<d, g>>] = F[<<d, h>>]
  <2> SUFFICES ASSUME NEW d \in D, NEW g \in [D -> V], NEW h \in [D -> V],
                      \A c \in D : <<c, d>> \in R => g[c] = h[c]
               PROVE  body(d, g) = body(d, h)
    <3> HIDE DEF D, R, body
    <3>. QED
      OBVIOUS
  <2>1. d # {} => g[d \ {AnyOf(d)}] = h[d \ {AnyOf(d)}]
    <3> HIDE DEF R
    <3>. QED
      BY <1>2
  <2>. QED
    BY <2>1
<1>5. IsFiniteSet(D)
  BY FS_SUBSET
<1>6. HasLeast(R, D)
  <2>1. \A p \in R : p[1] \subseteq p[2] /\ p[1] # p[2]
    OBVIOUS
  <2> HIDE DEF R
  <2>. QED
    BY <2>1, SmallerSet
<1>7. PICK h \in [D -> V] : \A d \in D : h[d] = F[<<d, h>>]
  <2>1. V # {}
    OBVIOUS
  <2>2. LooksDown(F, R, D, V)
    BY <1>3, <1>4 DEF LooksDown
  <2>3. Computable(F, D, V)
    <3> HIDE DEF D, R, F, V, body
    <3>. QED
      BY <2>1, <2>2, <1>5, <1>6, RecursionExists
  <2>. QED
    BY <2>3 DEF Computable
<1>8. h = [s \in D |-> body(s, h)]
  BY <1>7
<1>9. it = [s \in D |-> body(s, it)]
  <2> HIDE DEF D, body
  <2>. QED
    BY <1>1, <1>8
<1>10. ASSUME \E s \in D : it[s] \notin Int
       PROVE  FALSE
  <2> DEFINE bad == {s \in D : it[s] \notin Int}
  <2>1. PICK s \in bad : \A c \in bad : c \subseteq s => c = s
    <3>1. bad \in SUBSET SUBSET S /\ bad # {}
      BY <1>10
    <3> HIDE DEF bad
    <3>. QED
      BY <3>1, LeastSubset
  <2>2. it[s] = body(s, it)
    BY <1>9
  <2>3. s # {}
    BY <2>1, <2>2
  <2> DEFINE rest == s \ {AnyOf(s)}
  <2>4. AnyOf(s) \in s /\ AnyOf(s) \in S /\ rest \in D /\ rest \subseteq s /\ rest # s
    BY <2>3, <1>2, AnyIsIn
  <2>5. it[rest] \in Int
    <3> HIDE DEF rest
    <3>. QED
      BY <2>1, <2>4
  <2>6. f[AnyOf(s)] \in Int
    BY <2>4
  <2>7. it[s] = f[AnyOf(s)] + it[rest]
    BY <2>2, <2>3
  <2>. QED
    BY <2>1, <2>5, <2>6, <2>7
<1>11. it \in [D -> V]
  BY <1>9, <1>10
<1>. QED
  BY <1>1, <1>9, <1>11 DEF Sums

LEMMA SumInt ==
  ASSUME NEW S, IsFiniteSet(S), NEW f, \A s \in S : f[s] \in Int
  PROVE  SumFunctionOnSet(f, S) \in Int
<1>1. PICK it : Sums(it, S, f) /\ SumFunctionOnSet(f, S) = it[S]
  BY SumIs
<1>. QED
  BY <1>1 DEF Sums

-----------------------------------------------------------------------------
(* The tree of a page: what is above a shape, in any page that is a forest. *)

Parents(p) == {<<p[d].parent, d>> : d \in DOMAIN p}

LEMMA ParentsHaveTop ==
  ASSUME NEW p, IsForest(p)
  PROVE  HasLeast(Parents(p), DOMAIN p)
BY DEF HasLeast, IsForest, Parents

LEMMA AboveIs ==
  ASSUME NEW p, IsFiniteSet(DOMAIN p), IsForest(p)
  PROVE  /\ Above(p) \in [DOMAIN p -> SUBSET DOMAIN p]
         /\ \A id \in DOMAIN p :
              Above(p)[id] = IF p[id].parent \in DOMAIN p
                               THEN {p[id].parent} \cup Above(p)[p[id].parent] ELSE {}
<1> DEFINE D == DOMAIN p
           V == SUBSET D
           body(id, g) == IF p[id].parent \in D
                            THEN {p[id].parent} \cup g[p[id].parent] ELSE {}
           F == [q \in D \X [D -> V] |-> body(q[1], q[2])]
           R == Parents(p)
           it == Above(p)
<1>1. it = CHOOSE g : g = [id \in D |-> body(id, g)]
  BY DEF Above
<1>2. F \in [D \X [D -> V] -> V]
  OBVIOUS
<1>3. \A d \in D : \A g, h \in [D -> V] :
        (\A c \in D : <<c, d>> \in R => g[c] = h[c]) => F[<<d, g>>] = F[<<d, h>>]
  <2> SUFFICES ASSUME NEW d \in D, NEW g \in [D -> V], NEW h \in [D -> V],
                      \A c \in D : <<c, d>> \in R => g[c] = h[c]
               PROVE  body(d, g) = body(d, h)
    <3> HIDE DEF R, body
    <3>. QED
      OBVIOUS
  <2>1. p[d].parent \in D => g[p[d].parent] = h[p[d].parent]
    <3>1. p[d].parent \in D => <<p[d].parent, d>> \in R
      BY DEF Parents
    <3> HIDE DEF R
    <3>. QED
      BY <3>1
  <2>. QED
    BY <2>1
<1>4. LooksDown(F, R, D, V)
  BY <1>2, <1>3 DEF LooksDown
<1>5. Computable(F, D, V)
  <2>1. V # {}
    OBVIOUS
  <2>2. HasLeast(R, D) /\ IsFiniteSet(D)
    BY ParentsHaveTop
  <2> HIDE DEF D, R, F, V, body, it
  <2>. QED
    BY <1>4, <2>1, <2>2, RecursionExists
<1>6. PICK h \in [D -> V] : \A d \in D : h[d] = F[<<d, h>>]
  BY <1>5 DEF Computable
<1>7. h = [id \in D |-> body(id, h)]
  BY <1>6
<1>8. it = [id \in D |-> body(id, it)]
  <2> HIDE DEF D, body, it
  <2>. QED
    BY <1>1, <1>7
<1>9. ASSUME \E d \in D : it[d] \notin V
      PROVE  FALSE
  <2> DEFINE bad == {d \in D : it[d] \notin V}
  <2>1. PICK d \in bad : p[d].parent \notin bad
    BY <1>9 DEF IsForest
  <2>2. it[d] = body(d, it)
    BY <1>8
  <2>. QED
    BY <2>1, <2>2
<1>10. it \in [D -> V]
  BY <1>8, <1>9
<1>11. \A id \in D : it[id] = body(id, it)
  BY <1>8
<1>. QED
  BY <1>10, <1>11

LEMMA AboveIsTransitive ==
  ASSUME NEW p, IsFiniteSet(DOMAIN p), IsForest(p), NEW c \in DOMAIN p,
         NEW b \in Above(p)[c], NEW a \in Above(p)[b]
  PROVE  a \in Above(p)[c]
<1> DEFINE bad == {d \in DOMAIN p : \E y \in Above(p)[d] : ~(Above(p)[y] \subseteq Above(p)[d])}
<1> SUFFICES ASSUME bad # {}
             PROVE  FALSE
  OBVIOUS
<1>1. PICK d \in bad : p[d].parent \notin bad
  BY DEF IsForest
<1>2. PICK y \in Above(p)[d] : ~(Above(p)[y] \subseteq Above(p)[d])
  BY <1>1
<1>3. p[d].parent \in DOMAIN p /\ Above(p)[d] = {p[d].parent} \cup Above(p)[p[d].parent]
  BY <1>1, <1>2, AboveIs
<1>. QED
  BY <1>1, <1>2, <1>3

LEMMA AboveIsStrict ==
  ASSUME NEW p, IsFiniteSet(DOMAIN p), IsForest(p), NEW c \in DOMAIN p
  PROVE  c \notin Above(p)[c]
<1> SUFFICES ASSUME c \in Above(p)[c]
             PROVE  FALSE
  OBVIOUS
<1> DEFINE S == {s \in DOMAIN p : c \in Above(p)[s] /\ s \in Above(p)[c]}
<1>1. PICK s \in S : p[s].parent \notin S
  BY DEF IsForest
<1> DEFINE q == p[s].parent
<1>2. q \in DOMAIN p /\ q \in Above(p)[s] /\ (q = c \/ c \in Above(p)[q])
  BY AboveIs
<1>3. q \in Above(p)[c]
  BY <1>2, AboveIsTransitive
<1>. QED
  BY <1>1, <1>2, <1>3

\* Seen from the other end, every set of shapes has one that holds none of them.
LEMMA HoldersHaveBottom ==
  ASSUME NEW p, IsFiniteSet(DOMAIN p), IsForest(p), NEW T \in SUBSET DOMAIN p, T # {}
  PROVE  \E x \in T : \A y \in T : p[y].parent # x
<1> DEFINE f == [x \in T |-> {y \in T : x \in Above(p)[y]}]
<1>1. IsFiniteSet(T) /\ f \in [T -> SUBSET T]
  BY FS_Subset
<1>2. PICK m \in T : \A y \in T : f[y] \subseteq f[m] => f[y] = f[m]
  <2> HIDE DEF f
  <2>. QED
    BY <1>1, LeastOf
<1>3. ASSUME NEW y \in T, p[y].parent = m
      PROVE  FALSE
  <2>1. m \in Above(p)[y]
    BY <1>3, AboveIs
  <2>2. f[y] \subseteq f[m]
    BY <2>1, AboveIsTransitive
  <2>3. y \in f[m] /\ y \notin f[y]
    BY <2>1, AboveIsStrict
  <2>. QED
    BY <1>2, <2>2, <2>3
<1>. QED
  BY <1>3

-----------------------------------------------------------------------------
(* Rectangles and the layout of a page that a store holds.                  *)

Rects == [x : Int, y : Int, w : Nat, h : Nat]

\* The greatest and the least value that a function has on a finite set.
LEMMA Extremes ==
  ASSUME NEW S, IsFiniteSet(S), S # {}, NEW f, \A s \in S : f[s] \in Int, NEW T, T = {f[s] : s \in S}
  PROVE  /\ Max(T) \in Int /\ \A s \in S : f[s] <= Max(T)
         /\ Min(T) \in Int /\ \A s \in S : Min(T) <= f[s]
         /\ Max(T) \in T /\ Min(T) \in T
<1>1. IsFiniteSet(T)
  BY FiniteImage
<1>2. T # {} /\ \A v \in T : v \in Int
  OBVIOUS
<1>3. Max(T) \in T /\ \A v \in T : Max(T) >= v
  BY <1>1, <1>2, MaxOf
<1>4. Min(T) \in T /\ \A v \in T : Min(T) =< v
  BY <1>1, <1>2, MinOf
<1>5. \A s \in S : f[s] \in T
  OBVIOUS
<1>. QED
  BY <1>2, <1>3, <1>4, <1>5

LEMMA RectUnionIs ==
  ASSUME NEW rects, IsFiniteSet(rects), rects # {}, \A r \in rects : r \in Rects
  PROVE  /\ RectUnion(rects) \in Rects
         /\ \A r \in rects :
              /\ RectUnion(rects).x <= r.x /\ Right(r) <= Right(RectUnion(rects))
              /\ RectUnion(rects).y <= r.y /\ Bottom(r) <= Bottom(RectUnion(rects))
<1> DEFINE left == Min({r.x : r \in rects})
           top == Min({r.y : r \in rects})
           right == Max({Right(r) : r \in rects})
           bottom == Max({Bottom(r) : r \in rects})
<1>1. \A r \in rects : /\ r.x \in Int /\ r.y \in Int /\ r.w \in Nat /\ r.h \in Nat
                       /\ Right(r) = r.x + r.w /\ Bottom(r) = r.y + r.h
  BY DEF Rects, Right, Bottom
<1>2. left \in Int /\ \A r \in rects : left <= r.x
  <2> DEFINE f == [r \in rects |-> r.x]
             T == {r.x : r \in rects}
  <2>1. T = {f[r] : r \in rects} /\ \A r \in rects : f[r] \in Int /\ f[r] = r.x
    BY <1>1
  <2> HIDE DEF f, T
  <2>2. Min(T) \in Int /\ \A r \in rects : Min(T) <= f[r]
    BY <2>1, Extremes
  <2>. QED
    BY <2>1, <2>2 DEF T
<1>3. top \in Int /\ \A r \in rects : top <= r.y
  <2> DEFINE f == [r \in rects |-> r.y]
             T == {r.y : r \in rects}
  <2>1. T = {f[r] : r \in rects} /\ \A r \in rects : f[r] \in Int /\ f[r] = r.y
    BY <1>1
  <2> HIDE DEF f, T
  <2>2. Min(T) \in Int /\ \A r \in rects : Min(T) <= f[r]
    BY <2>1, Extremes
  <2>. QED
    BY <2>1, <2>2 DEF T
<1>4. right \in Int /\ \A r \in rects : Right(r) <= right
  <2> DEFINE f == [r \in rects |-> Right(r)]
             T == {Right(r) : r \in rects}
  <2>1. T = {f[r] : r \in rects} /\ \A r \in rects : f[r] \in Int /\ f[r] = Right(r)
    BY <1>1
  <2> HIDE DEF f, T
  <2>2. Max(T) \in Int /\ \A r \in rects : f[r] <= Max(T)
    BY <2>1, Extremes
  <2>. QED
    BY <2>1, <2>2 DEF T
<1>5. bottom \in Int /\ \A r \in rects : Bottom(r) <= bottom
  <2> DEFINE f == [r \in rects |-> Bottom(r)]
             T == {Bottom(r) : r \in rects}
  <2>1. T = {f[r] : r \in rects} /\ \A r \in rects : f[r] \in Int /\ f[r] = Bottom(r)
    BY <1>1
  <2> HIDE DEF f, T
  <2>2. Max(T) \in Int /\ \A r \in rects : f[r] <= Max(T)
    BY <2>1, Extremes
  <2>. QED
    BY <2>1, <2>2 DEF T
<1>10. RectUnion(rects) = [x |-> left, y |-> top, w |-> right - left, h |-> bottom - top]
  BY DEF RectUnion
<1>11. left \in Int /\ top \in Int /\ right \in Int /\ bottom \in Int
  BY <1>2, <1>3, <1>4, <1>5
<1>12. \A r \in rects : left <= r.x /\ top <= r.y /\ Right(r) <= right /\ Bottom(r) <= bottom
  BY <1>2, <1>3, <1>4, <1>5
<1> HIDE DEF left, top, right, bottom
<1>13. right - left \in Nat /\ bottom - top \in Nat
  <2>1. PICK r \in rects : TRUE
    OBVIOUS
  <2>. QED
    BY <1>1, <1>11, <1>12, <2>1
<1>. QED
  BY <1>10, <1>11, <1>12, <1>13 DEF Rects, Right, Bottom

\* What the server holds of the size of a text.
IsRow(row) == row = Unmeasured \/ \E t \in Texts : row = [text |-> t, size |-> Drawn[t]]

LEMMA SizeIs ==
  ASSUME LayoutAssumption, NEW shape, IsPlaced(shape), NEW row, IsRow(row)
  PROVE  /\ SizeOf(shape, row) \in Sizes
         /\ IsMeasured(shape, row) => SizeOf(shape, row) = Drawn[shape.text]
<1>1. IsMeasured(shape, row) => row.size = Drawn[shape.text] /\ shape.text \in Texts
  <2> SUFFICES ASSUME IsMeasured(shape, row)
               PROVE  row.size = Drawn[shape.text] /\ shape.text \in Texts
    OBVIOUS
  <2>1. row.text = shape.text /\ shape.text \in Texts
    BY DEF IsMeasured, IsPlaced
  <2>2. row # Unmeasured
    BY <2>1 DEF LayoutAssumption
  <2>. QED
    BY <2>1, <2>2 DEF IsRow
<1>2. shape.type = "text" => /\ Estimate[shape.text].w \in Nat /\ Estimate[shape.text].h \in Nat
  BY DEF IsPlaced, LayoutAssumption, Sizes
<1>3. Most(Estimate[shape.text].w, shape.w) \in {Estimate[shape.text].w, shape.w}
  BY DEF Most
<1>4. shape.w \in Nat /\ shape.h \in Nat
  BY DEF IsPlaced
<1>5. NoteSize \in Nat /\ \A t \in Texts : Drawn[t] \in Sizes
  BY DEF LayoutAssumption
<1>6. CASE IsMeasured(shape, row)
  BY <1>1, <1>5, <1>6 DEF SizeOf
<1>7. CASE ~IsMeasured(shape, row) /\ shape.type = "note"
  <2>1. SizeOf(shape, row) = [w |-> NoteSize, h |-> NoteSize]
    BY <1>7 DEF SizeOf
  <2>. QED
    BY <1>5, <1>7, <2>1 DEF Sizes
<1>8. CASE ~IsMeasured(shape, row) /\ shape.type = "text"
  <2>1. SizeOf(shape, row) = [w |-> Most(Estimate[shape.text].w, shape.w), h |-> Estimate[shape.text].h]
    BY <1>8 DEF SizeOf
  <2>2. Most(Estimate[shape.text].w, shape.w) \in Nat
    BY <1>2, <1>3, <1>4, <1>8
  <2>. QED
    BY <1>2, <1>8, <2>1, <2>2 DEF Sizes
<1>9. CASE ~IsMeasured(shape, row) /\ shape.type \notin {"note", "text"}
  <2>1. SizeOf(shape, row) = [w |-> shape.w, h |-> shape.h]
    BY <1>9 DEF SizeOf
  <2>. QED
    BY <1>4, <1>9, <2>1 DEF Sizes
<1>. QED
  BY <1>6, <1>7, <1>8, <1>9

LEMMA OffsetIs ==
  ASSUME NEW p, IsBoardPage(p), NEW id \in DOMAIN p
  PROVE  OffsetX(p, id) \in Int /\ OffsetY(p, id) \in Int
<1>1. AncestorsOf(p, id) \in SUBSET DOMAIN p
  BY AboveIs DEF IsBoardPage, AncestorsOf
<1>2. IsFiniteSet(AncestorsOf(p, id))
  BY <1>1, FS_Subset DEF IsBoardPage
<1> DEFINE xs == [a \in DOMAIN p |-> p[a].x]
           ys == [a \in DOMAIN p |-> p[a].y]
<1>3. \A a \in AncestorsOf(p, id) : xs[a] \in Int /\ ys[a] \in Int
  BY <1>1 DEF IsBoardPage, IsPlaced
<1>4. SumFunctionOnSet(xs, AncestorsOf(p, id)) \in Int
  <2> HIDE DEF xs
  <2>. QED
    BY <1>2, <1>3, SumInt
<1>5. SumFunctionOnSet(ys, AncestorsOf(p, id)) \in Int
  <2> HIDE DEF ys
  <2>. QED
    BY <1>2, <1>3, SumInt
<1>. QED
  BY <1>4, <1>5 DEF OffsetX, OffsetY

AreRows(rws) == \A s \in ShapeIds : IsRow(rws[s])

Entries ==
  [bounds : Rects, source : {"measured", "estimated", "declared"}, verified : BOOLEAN,
   stale : BOOLEAN]

LEMMA BoxLayoutIs ==
  ASSUME LayoutAssumption, NEW p, IsBoardPage(p), NEW rws, AreRows(rws), NEW id \in DOMAIN p
  PROVE  BoxLayout(p, rws, id) \in Entries
<1>1. SizeOf(p[id], rws[id]) \in Sizes
  BY SizeIs DEF IsBoardPage, AreRows
<1>2. OffsetX(p, id) \in Int /\ OffsetY(p, id) \in Int
  BY OffsetIs
<1>3. p[id].x \in Int /\ p[id].y \in Int
  BY DEF IsBoardPage, IsPlaced
<1>4. Rect(OffsetX(p, id) + p[id].x, OffsetY(p, id) + p[id].y, SizeOf(p[id], rws[id])) \in Rects
  BY <1>1, <1>2, <1>3 DEF Rect, Rects, Sizes
<1>5. SourceOf(p[id], rws[id]) \in {"measured", "estimated", "declared"}
  BY DEF SourceOf
<1>. QED
  BY <1>4, <1>5 DEF BoxLayout, Entries

LEMMA OnPageIs ==
  ASSUME NEW p, IsBoardPage(p)
  PROVE  /\ OnPage(p) \in SUBSET DOMAIN p /\ IsFiniteSet(OnPage(p))
         /\ \A id \in OnPage(p) : \A c \in Children(p, id) : c \in OnPage(p)
<1>1. OnPage(p) \in SUBSET DOMAIN p
  BY DEF OnPage
<1>2. ASSUME NEW id \in OnPage(p), NEW c \in Children(p, id)
      PROVE  c \in OnPage(p)
  <2>1. c \in DOMAIN p /\ p[c].parent = id /\ id \in DOMAIN p
    BY <1>1 DEF Children
  <2>2. Above(p)[c] = {id} \cup Above(p)[id]
    BY <2>1, AboveIs DEF IsBoardPage
  <2>3. \E top \in Above(p)[id] \cup {id} : p[top].parent = Page
    BY DEF OnPage
  <2>. QED
    BY <2>1, <2>2, <2>3 DEF OnPage
<1>. QED
  BY <1>1, <1>2, FS_Subset DEF IsBoardPage

LEMMA GroupLayoutIs ==
  ASSUME NEW p, IsBoardPage(p), NEW id \in DOMAIN p, NEW below,
         \A m \in Children(p, id) : below[m] \in Entries
  PROVE  GroupLayout(p, id, below) \in Entries
<1>1. CASE Children(p, id) = {}
  <2>1. OffsetX(p, id) \in Int /\ OffsetY(p, id) \in Int
    BY OffsetIs
  <2>2. p[id].x \in Int /\ p[id].y \in Int
    BY DEF IsBoardPage, IsPlaced
  <2>3. Rect(OffsetX(p, id) + p[id].x, OffsetY(p, id) + p[id].y, [w |-> 0, h |-> 0]) \in Rects
    BY <2>1, <2>2 DEF Rect, Rects
  <2>. QED
    BY <1>1, <2>3 DEF GroupLayout, Entries
<1>2. CASE Children(p, id) # {}
  <2> DEFINE members == Children(p, id)
             f == [m \in members |-> below[m].bounds]
             rects == {below[m].bounds : m \in members}
  <2>1. IsFiniteSet(members)
    BY FS_Subset DEF Children, IsBoardPage
  <2>2. rects = {f[m] : m \in members} /\ rects # {} /\ \A r \in rects : r \in Rects
    BY <1>2 DEF Entries
  <2>3. IsFiniteSet(rects)
    <3> HIDE DEF f, members, rects
    <3>. QED
      BY <2>1, <2>2, FiniteImage
  <2>4. RectUnion(rects) \in Rects
    <3> HIDE DEF rects
    <3>. QED
      BY <2>2, <2>3, RectUnionIs
  <2>5. \A m \in members : below[m].verified \in BOOLEAN
    BY DEF Entries
  <2>. QED
    BY <1>2, <2>4 DEF GroupLayout, Entries
<1>. QED
  BY <1>1, <1>2

BodyOf(p, rws, id, below) ==
  IF p[id].type = "group"
    THEN GroupLayout(p, id, [m \in Children(p, id) |-> below[m]])
    ELSE BoxLayout(p, rws, id)

HoldersOf(p) == {<<c, p[c].parent>> : c \in DOMAIN p}

\* below are the entries that LayoutOf computes.
Computes(below, p, rws) ==
  /\ below \in [OnPage(p) -> Entries]
  /\ \A id \in OnPage(p) : below[id] = BodyOf(p, rws, id, below)
  /\ LayoutOf(p, rws) =
       [id \in {b \in OnPage(p) : p[b].type # "arrow"} |->
          IF p[id].type = "group" THEN below[id] ELSE BoxLayout(p, rws, id)]

LEMMA LayoutRecursion ==
  ASSUME LayoutAssumption, NEW p, IsBoardPage(p), NEW rws, AreRows(rws)
  PROVE  \E below : Computes(below, p, rws)
<1> DEFINE D == OnPage(p)
           V == Entries
           F == [q \in D \X [D -> V] |-> BodyOf(p, rws, q[1], q[2])]
           R == HoldersOf(p)
           it == CHOOSE g : g = [id \in D |-> BodyOf(p, rws, id, g)]
<1>1. LayoutOf(p, rws) =
        [id \in {b \in D : p[b].type # "arrow"} |->
           IF p[id].type = "group" THEN it[id] ELSE BoxLayout(p, rws, id)]
  BY DEF LayoutOf, BodyOf
<1>2. D \in SUBSET DOMAIN p /\ IsFiniteSet(D) /\ \A id \in D : Children(p, id) \subseteq D
  BY OnPageIs
<1>3. ASSUME NEW id \in D, NEW g, \A m \in Children(p, id) : g[m] \in V
      PROVE  BodyOf(p, rws, id, g) \in V
  <2> DEFINE h == [m \in Children(p, id) |-> g[m]]
  <2>1. GroupLayout(p, id, h) \in V
    <3>1. \A m \in Children(p, id) : h[m] \in V
      BY <1>3
    <3>2. id \in DOMAIN p
      BY <1>2
    <3> HIDE DEF h
    <3>. QED
      BY <3>1, <3>2, GroupLayoutIs
  <2>2. BoxLayout(p, rws, id) \in V
    BY <1>2, BoxLayoutIs
  <2>. QED
    BY <2>1, <2>2 DEF BodyOf
<1>4. F \in [D \X [D -> V] -> V]
  <2>1. ASSUME NEW id \in D, NEW g \in [D -> V]
        PROVE  BodyOf(p, rws, id, g) \in V
    <3>1. \A m \in Children(p, id) : g[m] \in V
      BY <1>2
    <3>. QED
      BY <1>3, <3>1
  <2> HIDE DEF D, V
  <2>. QED
    BY <2>1
<1>5. \A d \in D : \A g, h \in [D -> V] :
        (\A c \in D : <<c, d>> \in R => g[c] = h[c]) => F[<<d, g>>] = F[<<d, h>>]
  <2> SUFFICES ASSUME NEW d \in D, NEW g \in [D -> V], NEW h \in [D -> V],
                      \A c \in D : <<c, d>> \in R => g[c] = h[c]
               PROVE  BodyOf(p, rws, d, g) = BodyOf(p, rws, d, h)
    <3> HIDE DEF R, D, V
    <3>. QED
      OBVIOUS
  <2>1. ASSUME NEW m \in Children(p, d)
        PROVE  g[m] = h[m]
    <3>1. m \in D /\ <<m, d>> \in R
      BY <1>2 DEF Children, HoldersOf
    <3> HIDE DEF R, D, V
    <3>. QED
      BY <3>1
  <2>2. [m \in Children(p, d) |-> g[m]] = [m \in Children(p, d) |-> h[m]]
    BY <2>1
  <2>. QED
    BY <2>2 DEF BodyOf
<1>6. HasLeast(R, D)
  <2> SUFFICES ASSUME NEW T \in SUBSET D, T # {}
               PROVE  \E x \in T : \A y \in T : <<y, x>> \notin R
    BY DEF HasLeast
  <2>1. PICK x \in T : \A y \in T : p[y].parent # x
    <3>1. T \in SUBSET DOMAIN p
      BY <1>2
    <3>. QED
      BY <3>1, HoldersHaveBottom DEF IsBoardPage
  <2>. QED
    BY <2>1 DEF HoldersOf
<1>7. Computable(F, D, V)
  <2>1. LooksDown(F, R, D, V)
    BY <1>4, <1>5 DEF LooksDown
  <2>2. V # {}
    <3> DEFINE e == [bounds |-> [x |-> 0, y |-> 0, w |-> 0, h |-> 0], source |-> "measured",
                     verified |-> TRUE, stale |-> TRUE]
    <3>1. e \in V
      BY DEF Entries, Rects
    <3>. QED
      BY <3>1
  <2> HIDE DEF D, V, F, R
  <2>. QED
    BY <2>1, <2>2, <1>2, <1>6, RecursionExists
<1>8. PICK h \in [D -> V] : \A d \in D : h[d] = F[<<d, h>>]
  BY <1>7 DEF Computable
<1>9. h = [d \in D |-> BodyOf(p, rws, d, h)]
  <2> HIDE DEF D, V
  <2>. QED
    BY <1>8
<1>10. it = [d \in D |-> BodyOf(p, rws, d, it)]
  <2> HIDE DEF D, V
  <2>. QED
    BY <1>9
<1> HIDE DEF it
<1>11. ASSUME \E d \in D : it[d] \notin V
       PROVE  FALSE
  <2> DEFINE bad == {d \in D : it[d] \notin V}
  <2>1. bad \in SUBSET DOMAIN p /\ bad # {}
    BY <1>2, <1>11
  <2>2. PICK d \in bad : \A c \in bad : p[c].parent # d
    <3> HIDE DEF bad
    <3>. QED
      BY <2>1, HoldersHaveBottom DEF IsBoardPage
  <2>3. \A m \in Children(p, d) : it[m] \in V
    BY <2>2, <1>2 DEF Children
  <2>4. it[d] = BodyOf(p, rws, d, it)
    BY <1>10
  <2>. QED
    BY <2>2, <2>3, <2>4, <1>3
<1>12. it \in [D -> V]
  BY <1>10, <1>11
<1>13. \A id \in D : it[id] = BodyOf(p, rws, id, it)
  BY <1>10
<1>14. Computes(it, p, rws)
  BY <1>1, <1>12, <1>13 DEF Computes
<1>. QED
  BY <1>14

\* What a layout says of a page: everything on it but arrows has bounds, and
\* those of a box are its own.
IsLayout(layout, p, rws) ==
  /\ DOMAIN layout = {b \in OnPage(p) : p[b].type # "arrow"}
  /\ DOMAIN layout \subseteq DOMAIN p
  /\ IsFiniteSet(DOMAIN layout)
  /\ \A id \in DOMAIN layout : layout[id].bounds \in Rects
  /\ \A id \in DOMAIN layout : p[id].type # "group" => layout[id] = BoxLayout(p, rws, id)

LEMMA LayoutIs ==
  ASSUME LayoutAssumption, NEW p, IsBoardPage(p), NEW rws, AreRows(rws)
  PROVE  IsLayout(LayoutOf(p, rws), p, rws)
<1>0. PICK below : Computes(below, p, rws)
  BY LayoutRecursion
<1>1. /\ below \in [OnPage(p) -> Entries]
      /\ LayoutOf(p, rws) = [id \in {b \in OnPage(p) : p[b].type # "arrow"} |->
                              IF p[id].type = "group" THEN below[id] ELSE BoxLayout(p, rws, id)]
  BY <1>0 DEF Computes
<1>2. OnPage(p) \in SUBSET DOMAIN p /\ IsFiniteSet(OnPage(p))
  BY OnPageIs
<1>3. \A id \in DOMAIN p : BoxLayout(p, rws, id) \in Entries
  BY BoxLayoutIs
<1>4. \A e \in Entries : e.bounds \in Rects
  BY DEF Entries
<1>5. DOMAIN LayoutOf(p, rws) = {b \in OnPage(p) : p[b].type # "arrow"}
  BY <1>1
<1>6. IsFiniteSet({b \in OnPage(p) : p[b].type # "arrow"})
  BY <1>2, FS_Subset
<1>. QED
  BY <1>1, <1>2, <1>3, <1>4, <1>5, <1>6 DEF IsLayout

\* The greatest of the four distances and 0.
LEMMA GapIs ==
  ASSUME NEW a \in Rects, NEW b \in Rects, NEW wide \in Nat \ {0}, ~(GapBetween(a, b) < wide)
  PROVE  \/ a.x >= Right(b) + wide \/ b.x >= Right(a) + wide
         \/ a.y >= Bottom(b) + wide \/ b.y >= Bottom(a) + wide
<1> DEFINE f == [i \in 1 .. 5 |-> CASE i = 1 -> a.x - Right(b) [] i = 2 -> b.x - Right(a)
                                    [] i = 3 -> a.y - Bottom(b) [] i = 4 -> b.y - Bottom(a)
                                    [] i = 5 -> 0]
           T == {a.x - Right(b), b.x - Right(a), a.y - Bottom(b), b.y - Bottom(a), 0}
<1>1. /\ a.x \in Int /\ a.y \in Int /\ Right(a) \in Int /\ Bottom(a) \in Int
      /\ b.x \in Int /\ b.y \in Int /\ Right(b) \in Int /\ Bottom(b) \in Int
  BY DEF Rects, Right, Bottom
<1>2. IsFiniteSet(T)
  <2>1. \A A, x : IsFiniteSet(A) => IsFiniteSet(A \cup {x})
    BY FS_AddElement
  <2>2. T = {a.x - Right(b)} \cup {b.x - Right(a)} \cup {a.y - Bottom(b)} \cup {b.y - Bottom(a)}
              \cup {0}
    OBVIOUS
  <2> HIDE DEF T
  <2>. QED
    BY <2>1, <2>2, FS_Singleton
<1>3. T # {} /\ \A v \in T : v \in Int
  BY <1>1
<1>4. Max(T) \in T
  <2> HIDE DEF T
  <2>. QED
    BY <1>2, <1>3, MaxOf
<1>5. ~(Max(T) < wide)
  BY DEF GapBetween
<1> HIDE DEF f
<1>. QED
  BY <1>1, <1>4, <1>5

\* What verifyLayout calls verified is certain, and of the size that is drawn, unless its
\* label needs more than the estimate says.
LEMMA CertainIsDrawn ==
  ASSUME LayoutAssumption, NEW shape, IsPlaced(shape), NEW row, IsRow(row),
         shape.type \in Boxes, SourceOf(shape, row) # "estimated", ~LabelMayOverflow(shape),
         shape.type = "geo" => Drawn[shape.text].h <= Estimate[shape.text].h
  PROVE  /\ DrawnSize(shape, row).w = SizeOf(shape, row).w
         /\ DrawnSize(shape, row).h = SizeOf(shape, row).h
<1>1. CASE shape.type = "text"
  <2>1. IsMeasured(shape, row)
    BY <1>1 DEF SourceOf
  <2>. QED
    BY <1>1, <2>1, SizeIs DEF DrawnSize
<1>2. CASE shape.type = "geo"
  <2>1. /\ shape.h \in Nat /\ shape.text \in Texts
        /\ Drawn[shape.text].h \in Nat /\ Estimate[shape.text].h \in Nat
        /\ Drawn[shape.text].h <= Estimate[shape.text].h
    BY <1>2 DEF IsPlaced, LayoutAssumption, Sizes
  <2>2. ~(Estimate[shape.text].h > shape.h + 1)
    BY <1>2 DEF LabelMayOverflow
  <2>3. ~(Drawn[shape.text].h > shape.h + 1)
    BY <2>1, <2>2
  <2>4. DrawnSize(shape, row) = SizeOf(shape, row)
    BY <1>2, <2>3 DEF DrawnSize
  <2>. QED
    BY <2>4
<1>3. CASE shape.type \notin {"text", "geo"}
  BY <1>3 DEF DrawnSize
<1>. QED
  BY <1>1, <1>2, <1>3

\* Whatever is believed of it, a shape is drawn with a size.
LEMMA DrawnSizeIs ==
  ASSUME LayoutAssumption, NEW shape, IsPlaced(shape), NEW row, IsRow(row), shape.type \in Boxes
  PROVE  DrawnSize(shape, row) \in Sizes
<1>1. SizeOf(shape, row) \in Sizes
  BY SizeIs
<1>2. CASE shape.type = "text"
  BY <1>2 DEF DrawnSize, IsPlaced, LayoutAssumption
<1>3. CASE shape.type = "geo" /\ Drawn[shape.text].h > shape.h + 1
  <2>1. DrawnSize(shape, row) = [w |-> shape.w, h |-> Drawn[shape.text].h]
    BY <1>3 DEF DrawnSize
  <2>2. shape.w \in Nat /\ Drawn[shape.text].h \in Nat
    BY <1>3 DEF IsPlaced, LayoutAssumption, Sizes
  <2>. QED
    BY <2>1, <2>2 DEF Sizes
<1>4. CASE shape.type # "text" /\ ~(shape.type = "geo" /\ Drawn[shape.text].h > shape.h + 1)
  <2>1. DrawnSize(shape, row) = SizeOf(shape, row)
    BY <1>4 DEF DrawnSize
  <2>. QED
    BY <1>1, <2>1
<1>. QED
  BY <1>2, <1>3, <1>4

LEMMA ApartDoNotOverlap ==
  ASSUME NEW a \in Rects, NEW b \in Rects,
         \/ a.x >= Right(b) \/ b.x >= Right(a) \/ a.y >= Bottom(b) \/ b.y >= Bottom(a)
  PROVE  OverlapArea(a, b) = 0
<1>1. /\ a.x \in Int /\ a.y \in Int /\ Right(a) \in Int /\ Bottom(a) \in Int
      /\ b.x \in Int /\ b.y \in Int /\ Right(b) \in Int /\ Bottom(b) \in Int
  BY DEF Rects, Right, Bottom
<1> DEFINE w == Least(Right(a), Right(b)) - Most(a.x, b.x)
           h == Least(Bottom(a), Bottom(b)) - Most(a.y, b.y)
<1>2. /\ Least(Right(a), Right(b)) <= Right(a) /\ Least(Right(a), Right(b)) <= Right(b)
      /\ Least(Bottom(a), Bottom(b)) <= Bottom(a) /\ Least(Bottom(a), Bottom(b)) <= Bottom(b)
      /\ Least(Right(a), Right(b)) \in Int /\ Least(Bottom(a), Bottom(b)) \in Int
  BY <1>1 DEF Least
<1>3. /\ Most(a.x, b.x) >= a.x /\ Most(a.x, b.x) >= b.x
      /\ Most(a.y, b.y) >= a.y /\ Most(a.y, b.y) >= b.y
      /\ Most(a.x, b.x) \in Int /\ Most(a.y, b.y) \in Int
  BY <1>1 DEF Most
<1>4. w \in Int /\ h \in Int /\ (w <= 0 \/ h <= 0)
  BY <1>1, <1>2, <1>3
<1> HIDE DEF w, h
<1>5. ~(w > 0 /\ h > 0)
  BY <1>4
<1>. QED
  BY <1>5 DEF OverlapArea, w, h

\* The drawn bounds of a shape start where its layout bounds do.
LEMMA DrawnBoundsAre ==
  ASSUME NEW id
  PROVE  LET drawn == DrawnBounds(id)
             bounds == BoxLayout(page, rows, id).bounds
         IN  /\ drawn.x = bounds.x /\ drawn.y = bounds.y
             /\ drawn.w = DrawnSize(page[id], rows[id]).w
             /\ drawn.h = DrawnSize(page[id], rows[id]).h
             /\ bounds.w = SizeOf(page[id], rows[id]).w
             /\ bounds.h = SizeOf(page[id], rows[id]).h
             /\ drawn = [x |-> drawn.x, y |-> drawn.y, w |-> drawn.w, h |-> drawn.h]
             /\ bounds = [x |-> bounds.x, y |-> bounds.y, w |-> bounds.w, h |-> bounds.h]
BY DEF DrawnBounds, BoxLayout, Rect

\* The two facts about a page behind "verified": what is near is certain, and what
\* is not near is not reached by what is drawn of it.
LEMMA VerifiedMeansClear ==
  ASSUME LayoutAssumption, IsBoardPage(page), AreRows(rows), NEW touched,
         VerifyLayout(page, LayoutOf(page, rows), touched) = "verified",
         NEW id \in touched \cap OnPageBoxes, NEW other \in OnPageBoxes \ Related(page, id),
         LabelAsEstimated(id), LabelAsEstimated(other), StaysNear(other)
  PROVE  ~DrawnOver(id, other)
<1> DEFINE L == LayoutOf(page, rows)
           items == touched \cap DOMAIN L
           boxes == {i \in items : page[i].type # "group"}
           near(i, o) == /\ o \in Others(page, L, i)
                         /\ GapBetween(L[i].bounds, L[o].bounds) < 2 * Gap
           relevant == {o \in DOMAIN L : \E i \in boxes : near(i, o)}
<1>0. /\ DOMAIN L = {b \in OnPage(page) : page[b].type # "arrow"}
      /\ DOMAIN L \subseteq DOMAIN page
      /\ \A s \in DOMAIN L : L[s].bounds \in Rects
      /\ \A s \in DOMAIN L : page[s].type # "group" => L[s] = BoxLayout(page, rows, s)
  <2>1. IsLayout(L, page, rows)
    BY LayoutIs
  <2> HIDE DEF L
  <2>. QED
    BY <2>1 DEF IsLayout
<1>1. /\ id \in boxes /\ id \in DOMAIN L /\ other \in Others(page, L, id) /\ other \in DOMAIN L
      /\ page[id].type \in Boxes /\ page[other].type \in Boxes
      /\ id \in DOMAIN page /\ other \in DOMAIN page
  <2>1. /\ id \in OnPage(page) /\ page[id].type \in Boxes /\ id \in touched
        /\ other \in OnPage(page) /\ page[other].type \in Boxes /\ other \notin Related(page, id)
    BY DEF OnPageBoxes
  <2>2. \A t \in Boxes : t # "arrow" /\ t # "group"
    BY DEF Boxes
  <2> HIDE DEF L
  <2>. QED
    BY <1>0, <2>1, <2>2 DEF Others
<1>2. L[id] = BoxLayout(page, rows, id) /\ L[other] = BoxLayout(page, rows, other)
  <2> HIDE DEF L
  <2>. QED
    BY <1>0, <1>1 DEF Boxes
<1>3. L[id].bounds \in Rects /\ L[other].bounds \in Rects
  BY <1>0, <1>1
<1>4. /\ ~(\E i \in boxes : \E o \in Others(page, L, i) :
             OverlapArea(L[i].bounds, L[o].bounds) > 1)
      /\ \A s \in items \cup relevant : ~IsUncertain(L[s])
  BY DEF VerifyLayout
<1>5. /\ IsPlaced(page[id]) /\ IsPlaced(page[other]) /\ IsRow(rows[id]) /\ IsRow(rows[other])
  BY <1>1 DEF IsBoardPage, AreRows
<1>6. ASSUME NEW s \in {id, other}, ~IsUncertain(L[s])
      PROVE  DrawnBounds(s) = L[s].bounds
  <2>1. /\ SourceOf(page[s], rows[s]) # "estimated" /\ ~LabelMayOverflow(page[s])
    <3>1. L[s] = BoxLayout(page, rows, s)
      BY <1>2, <1>6
    <3>2. /\ BoxLayout(page, rows, s).source = SourceOf(page[s], rows[s])
          /\ BoxLayout(page, rows, s).verified =
               (SourceOf(page[s], rows[s]) # "estimated" /\ ~LabelMayOverflow(page[s]))
      BY DEF BoxLayout
    <3> HIDE DEF L
    <3>. QED
      BY <1>6, <3>1, <3>2 DEF IsUncertain
  <2>2. /\ DrawnSize(page[s], rows[s]).w = SizeOf(page[s], rows[s]).w
        /\ DrawnSize(page[s], rows[s]).h = SizeOf(page[s], rows[s]).h
    BY <1>1, <1>5, <2>1, CertainIsDrawn DEF LabelAsEstimated
  <2>3. L[s].bounds = BoxLayout(page, rows, s).bounds
    BY <1>2
  <2> DEFINE drawn == DrawnBounds(s)
             bounds == BoxLayout(page, rows, s).bounds
  <2>4. /\ drawn.x = bounds.x /\ drawn.y = bounds.y
        /\ drawn.w = DrawnSize(page[s], rows[s]).w /\ drawn.h = DrawnSize(page[s], rows[s]).h
        /\ bounds.w = SizeOf(page[s], rows[s]).w /\ bounds.h = SizeOf(page[s], rows[s]).h
        /\ drawn = [x |-> drawn.x, y |-> drawn.y, w |-> drawn.w, h |-> drawn.h]
        /\ bounds = [x |-> bounds.x, y |-> bounds.y, w |-> bounds.w, h |-> bounds.h]
    BY DrawnBoundsAre
  <2> HIDE DEF drawn, bounds, L
  <2>5. drawn = bounds
    BY <2>2, <2>4
  <2>. QED
    BY <2>3, <2>5 DEF drawn, bounds
<1>7. DrawnBounds(id) = L[id].bounds
  BY <1>1, <1>4, <1>6
<1>8. CASE GapBetween(L[id].bounds, L[other].bounds) < 2 * Gap
  <2>1. other \in relevant
    BY <1>1, <1>8
  <2>2. DrawnBounds(other) = L[other].bounds
    BY <1>4, <1>6, <2>1
  <2>3. ~(OverlapArea(L[id].bounds, L[other].bounds) > 1)
    BY <1>1, <1>4
  <2>. QED
    BY <1>7, <2>2, <2>3 DEF DrawnOver
<1>9. CASE ~(GapBetween(L[id].bounds, L[other].bounds) < 2 * Gap)
  <2> DEFINE a == L[id].bounds
             b == L[other].bounds
             c == DrawnBounds(other)
             size == DrawnSize(page[other], rows[other])
  <2>1. 2 * Gap \in Nat \ {0}
    BY DEF LayoutAssumption
  <2>2. \/ a.x >= Right(b) + 2 * Gap \/ b.x >= Right(a) + 2 * Gap
        \/ a.y >= Bottom(b) + 2 * Gap \/ b.y >= Bottom(a) + 2 * Gap
    <3> HIDE DEF a, b, L
    <3>1. a \in Rects /\ b \in Rects /\ ~(GapBetween(a, b) < 2 * Gap)
      BY <1>3, <1>9 DEF a, b
    <3>. QED
      BY <2>1, <3>1, GapIs
  <2>3. /\ size \in Sizes /\ size.w < SizeOf(page[other], rows[other]).w + 2 * Gap
        /\ size.h < SizeOf(page[other], rows[other]).h + 2 * Gap
    BY <1>1, <1>5, DrawnSizeIs DEF StaysNear
  <2>4. /\ c.x = b.x /\ c.y = b.y /\ c.w = size.w /\ c.h = size.h
        /\ c = [x |-> c.x, y |-> c.y, w |-> c.w, h |-> c.h]
        /\ b.w = SizeOf(page[other], rows[other]).w /\ b.h = SizeOf(page[other], rows[other]).h
    <3>1. b = BoxLayout(page, rows, other).bounds
      BY <1>2
    <3>2. /\ c.x = BoxLayout(page, rows, other).bounds.x
          /\ c.y = BoxLayout(page, rows, other).bounds.y
          /\ c.w = size.w /\ c.h = size.h
          /\ c = [x |-> c.x, y |-> c.y, w |-> c.w, h |-> c.h]
          /\ BoxLayout(page, rows, other).bounds.w = SizeOf(page[other], rows[other]).w
          /\ BoxLayout(page, rows, other).bounds.h = SizeOf(page[other], rows[other]).h
      BY DrawnBoundsAre
    <3> HIDE DEF b, c, size
    <3>. QED
      BY <3>1, <3>2
  <2>5. a \in Rects /\ b \in Rects
    BY <1>3
  <2> HIDE DEF a, b, c, size
  <2>6. c \in Rects /\ c.w < b.w + 2 * Gap /\ c.h < b.h + 2 * Gap
    BY <2>3, <2>4, <2>5 DEF Rects, Sizes
  <2>7. \/ a.x >= Right(c) \/ c.x >= Right(a) \/ a.y >= Bottom(c) \/ c.y >= Bottom(a)
    BY <2>1, <2>2, <2>4, <2>5, <2>6 DEF Rects, Right, Bottom
  <2>8. OverlapArea(a, c) = 0
    BY <2>5, <2>6, <2>7, ApartDoNotOverlap
  <2>. QED
    BY <1>7, <2>8 DEF DrawnOver, a, c
<1>. QED
  BY <1>8, <1>9

-----------------------------------------------------------------------------
(* slideClear, one iteration at a time.                                     *)

LEMMA BlockersAre ==
  ASSUME NEW p, NEW rws, NEW layout, IsLayout(layout, p, rws), NEW moving
  PROVE  /\ IsFiniteSet(BlockersFor(p, layout, moving))
         /\ \A b \in BlockersFor(p, layout, moving) : b \in Rects
<1> DEFINE S == {b \in DOMAIN layout : /\ p[b].type # "group"
                                       /\ \A m \in moving : b \notin Related(p, m)}
           f == [s \in S |-> layout[s].bounds]
           T == {layout[s].bounds : s \in S}
<1>1. T = BlockersFor(p, layout, moving)
  BY DEF BlockersFor
<1>2. IsFiniteSet(S)
  BY FS_Subset DEF IsLayout
<1>3. T = {f[s] : s \in S} /\ \A b \in T : b \in Rects
  BY DEF IsLayout
<1>4. IsFiniteSet(T)
  <2> HIDE DEF S, f, T
  <2>. QED
    BY <1>2, <1>3, FiniteImage
<1> HIDE DEF T
<1>. QED
  BY <1>1, <1>3, <1>4

\* One iteration of slideClear.
Slid(blockers, here, axis, gap) ==
  LET hits == {b \in blockers : CloserThan(here, b, gap)}
  IN  IF hits = {} THEN here ELSE At(here, axis, PastAll(hits, axis, gap))

LEMMA PastIs ==
  ASSUME NEW hits, IsFiniteSet(hits), hits # {}, \A b \in hits : b \in Rects,
         NEW gap \in Int, NEW axis \in {"x", "y"}
  PROVE  /\ PastAll(hits, axis, gap) \in Int
         /\ \A b \in hits : PastAll(hits, axis, gap) >= gap + (IF axis = "x" THEN Right(b) ELSE Bottom(b))
         /\ \E b \in hits : PastAll(hits, axis, gap) = gap + (IF axis = "x" THEN Right(b) ELSE Bottom(b))
<1> DEFINE f == [b \in hits |-> IF axis = "x" THEN Right(b) ELSE Bottom(b)]
           T == IF axis = "x" THEN {Right(hit) : hit \in hits} ELSE {Bottom(hit) : hit \in hits}
<1>1. T = {f[b] : b \in hits}
  OBVIOUS
<1>2. \A b \in hits : f[b] \in Int
  BY DEF Rects, Right, Bottom
<1>5. \A b \in hits : f[b] = IF axis = "x" THEN Right(b) ELSE Bottom(b)
  OBVIOUS
<1>3. PastAll(hits, axis, gap) = gap + Max(T)
  BY DEF PastAll
<1> HIDE DEF f, T
<1>4. /\ Max(T) \in Int /\ \A b \in hits : f[b] <= Max(T)
  BY <1>1, <1>2, Extremes
<1>6. \E b \in hits : Max(T) = f[b]
  <2>1. Max(T) \in T
    BY <1>1, <1>2, Extremes
  <2>. QED
    BY <1>1, <2>1
<1>. QED
  BY <1>2, <1>3, <1>4, <1>5, <1>6

LEMMA SlidIs ==
  ASSUME NEW blockers, IsFiniteSet(blockers), \A b \in blockers : b \in Rects,
         NEW here \in Rects, NEW axis \in {"x", "y"}, NEW gap \in Int
  PROVE  /\ Slid(blockers, here, axis, gap) \in Rects
         /\ Slid(blockers, here, axis, gap).w = here.w /\ Slid(blockers, here, axis, gap).h = here.h
         /\ axis = "y" => Slid(blockers, here, axis, gap).x = here.x
         /\ axis = "x" => Slid(blockers, here, axis, gap).y = here.y
<1> DEFINE hits == {b \in blockers : CloserThan(here, b, gap)}
<1>1. CASE hits = {}
  BY <1>1 DEF Slid
<1>2. CASE hits # {}
  <2>1. IsFiniteSet(hits) /\ \A b \in hits : b \in Rects
    BY FS_Subset
  <2>2. PastAll(hits, axis, gap) \in Int
    <3> HIDE DEF hits
    <3>. QED
      BY <1>2, <2>1, PastIs
  <2>3. Slid(blockers, here, axis, gap) = At(here, axis, PastAll(hits, axis, gap))
    BY <1>2 DEF Slid
  <2> HIDE DEF hits
  <2>. QED
    BY <2>2, <2>3 DEF At, Rects
<1>. QED
  BY <1>1, <1>2

\* The iterations of slideClear, in order.
Slides(it, blockers, start, axis, gap) ==
  /\ it \in [0 .. MaxSlides -> Rects]
  /\ it[0] = start
  /\ \A n \in 1 .. MaxSlides : it[n] = Slid(blockers, it[n - 1], axis, gap)
  /\ SlideClear(blockers, start, axis, gap) = it[MaxSlides]

LEMMA SlideRecursion ==
  ASSUME LayoutAssumption, NEW blockers, IsFiniteSet(blockers), \A b \in blockers : b \in Rects,
         NEW start \in Rects, NEW axis \in {"x", "y"}, NEW gap \in Int
  PROVE  \E it : Slides(it, blockers, start, axis, gap)
<1> DEFINE D == 0 .. MaxSlides
           V == Rects
           body(n, g) == IF n = 0 THEN start ELSE Slid(blockers, g[n - 1], axis, gap)
           F == [q \in D \X [D -> V] |-> body(q[1], q[2])]
           R == {<<n - 1, n>> : n \in 1 .. MaxSlides}
           it == CHOOSE g : g = [n \in D |-> body(n, g)]
<1>0. MaxSlides \in Nat
  BY DEF LayoutAssumption
<1>a. IsFiniteSet(0 .. MaxSlides)
  <2>1. \A n \in Nat : IsFiniteSet(0 .. n)
    BY FS_Interval
  <2>. QED
    BY <1>0, <2>1
<1>1. SlideClear(blockers, start, axis, gap) = it[MaxSlides]
  BY DEF SlideClear, Slid
<1>2. ASSUME NEW n \in D, NEW g, n # 0 => g[n - 1] \in V
      PROVE  body(n, g) \in V
  BY <1>2, SlidIs
<1>3. \A n \in D : n # 0 => n - 1 \in D /\ <<n - 1, n>> \in R
  BY <1>0
<1>4. F \in [D \X [D -> V] -> V]
  <2>1. ASSUME NEW n \in D, NEW g \in [D -> V]
        PROVE  body(n, g) \in V
    <3>1. n # 0 => g[n - 1] \in V
      BY <1>3
    <3>. QED
      BY <1>2, <3>1
  <2> HIDE DEF D, V, body
  <2>. QED
    BY <2>1
<1>5. \A d \in D : \A g, h \in [D -> V] :
        (\A c \in D : <<c, d>> \in R => g[c] = h[c]) => F[<<d, g>>] = F[<<d, h>>]
  <2> SUFFICES ASSUME NEW d \in D, NEW g \in [D -> V], NEW h \in [D -> V],
                      \A c \in D : <<c, d>> \in R => g[c] = h[c]
               PROVE  body(d, g) = body(d, h)
    <3> HIDE DEF R, D, V, body
    <3>. QED
      OBVIOUS
  <2>1. d # 0 => g[d - 1] = h[d - 1]
    BY <1>3
  <2>. QED
    BY <2>1
<1>6. HasLeast(R, D)
  <2> SUFFICES ASSUME NEW T \in SUBSET D, T # {}
               PROVE  \E x \in T : \A y \in T : <<y, x>> \notin R
    BY DEF HasLeast
  <2>1. IsFiniteSet(T) /\ \A t \in T : t \in Int
    <3>1. IsFiniteSet(0 .. MaxSlides)
      BY <1>a
    <3>2. IsFiniteSet(T)
      BY <3>1, FS_Subset
    <3>. QED
      BY <1>0, <3>2
  <2>2. PICK m \in T : \A y \in T : m <= y
    BY <2>1, MinOf
  <2>3. ASSUME NEW y \in T, <<y, m>> \in R
        PROVE  FALSE
    <3>1. y = m - 1
      BY <2>3
    <3>. QED
      BY <2>1, <2>2, <3>1
  <2>. QED
    BY <2>3
<1>7. Computable(F, D, V)
  <2>1. LooksDown(F, R, D, V)
    BY <1>4, <1>5 DEF LooksDown
  <2>2. V # {} /\ IsFiniteSet(D)
    BY <1>a
  <2> HIDE DEF D, V, F, R
  <2>. QED
    BY <2>1, <2>2, <1>6, RecursionExists
<1>8. PICK h \in [D -> V] : \A d \in D : h[d] = F[<<d, h>>]
  BY <1>7 DEF Computable
<1>9. h = [d \in D |-> body(d, h)]
  <2> HIDE DEF D, V, body
  <2>. QED
    BY <1>8
<1>10. it = [d \in D |-> body(d, it)]
  <2> HIDE DEF D, V, body
  <2>. QED
    BY <1>9
<1> HIDE DEF it
<1>11. ASSUME \E d \in D : it[d] \notin V
       PROVE  FALSE
  <2> DEFINE bad == {d \in D : it[d] \notin V}
  <2>1. IsFiniteSet(bad) /\ bad # {} /\ \A t \in bad : t \in Int
    <3>1. IsFiniteSet(0 .. MaxSlides)
      BY <1>a
    <3>2. IsFiniteSet(bad)
      BY <3>1, FS_Subset
    <3>. QED
      BY <1>0, <1>11, <3>2
  <2>2. PICK m \in bad : \A y \in bad : m <= y
    <3> HIDE DEF bad
    <3>. QED
      BY <2>1, MinOf
  <2>3. m # 0 => it[m - 1] \in V
    BY <1>3, <2>1, <2>2
  <2>4. it[m] = body(m, it)
    BY <1>10
  <2>. QED
    BY <2>2, <2>3, <2>4, <1>2
<1>12. it \in [D -> V]
  BY <1>10, <1>11
<1>13. it[0] = start /\ \A n \in 1 .. MaxSlides : it[n] = Slid(blockers, it[n - 1], axis, gap)
  BY <1>0, <1>10
<1>14. Slides(it, blockers, start, axis, gap)
  BY <1>1, <1>12, <1>13 DEF Slides
<1>. QED
  BY <1>14

-----------------------------------------------------------------------------
(* Where layout actions put shapes: every move is by whole distances.       *)

MoveRecords == [dx : Int, dy : Int]
AreMoves(moves) == \A id \in DOMAIN moves : moves[id] \in MoveRecords

LEMMA MoveToIs ==
  ASSUME NEW rect \in Rects, NEW x \in Int, NEW y \in Int
  PROVE  MoveTo(rect, x, y) \in MoveRecords
BY DEF MoveTo, MoveRecords, Rects

LEMMA OffsetAlignIs ==
  ASSUME NEW container \in Int, NEW item \in Int, NEW align \in Aligns
  PROVE  Offset(container, item, align) \in Int
<1>1. (container - item) \div 2 \in Int
  OBVIOUS
<1>. QED
  BY <1>1 DEF Offset, Aligns

LEMMA SlideIs ==
  ASSUME LayoutAssumption, NEW blockers, IsFiniteSet(blockers), \A b \in blockers : b \in Rects,
         NEW start \in Rects, NEW axis \in {"x", "y"}, NEW gap \in Int
  PROVE  SlideClear(blockers, start, axis, gap) \in Rects
<1>1. PICK it : Slides(it, blockers, start, axis, gap)
  BY SlideRecursion
<1>2. MaxSlides \in 0 .. MaxSlides
  BY DEF LayoutAssumption
<1>. QED
  BY <1>1, <1>2 DEF Slides

\* The moves of place_below and place_right_of.
LEMMA PlaceMoves ==
  ASSUME LayoutAssumption, NEW p, NEW rws, NEW layout, IsLayout(layout, p, rws),
         NEW id \in DOMAIN layout, NEW target \in DOMAIN layout, NEW align \in Aligns,
         NEW gap \in Nat
  PROVE  /\ AreMoves(PlaceBelow(p, layout, id, target, align, gap))
         /\ AreMoves(PlaceRightOf(p, layout, id, target, align, gap))
<1> DEFINE rect == layout[id].bounds
           beside == layout[target].bounds
           blockers == BlockersFor(p, layout, {id})
           below == [rect EXCEPT !.x = beside.x + Offset(beside.w, rect.w, align),
                                 !.y = Bottom(beside) + gap]
           right == [rect EXCEPT !.x = Right(beside) + gap,
                                 !.y = beside.y + Offset(beside.h, rect.h, align)]
<1>1. rect \in Rects /\ beside \in Rects
  BY DEF IsLayout
<1>2. IsFiniteSet(blockers) /\ \A b \in blockers : b \in Rects
  BY BlockersAre
<1>3. /\ Offset(beside.w, rect.w, align) \in Int /\ Offset(beside.h, rect.h, align) \in Int
      /\ Bottom(beside) \in Int /\ Right(beside) \in Int /\ gap \in Int
      /\ beside.x \in Int /\ beside.y \in Int
  <2> HIDE DEF rect, beside, blockers, below, right
  <2>1. \A r \in Rects : /\ r.x \in Int /\ r.y \in Int /\ r.w \in Int /\ r.h \in Int
                         /\ Bottom(r) \in Int /\ Right(r) \in Int
    BY DEF Rects, Bottom, Right
  <2>2. gap \in Int
    OBVIOUS
  <2>3. \A a, b \in Int : Offset(a, b, align) \in Int
    BY OffsetAlignIs
  <2>. QED
    BY <1>1, <2>1, <2>2, <2>3
<1>4. below \in Rects /\ right \in Rects
  <2> HIDE DEF rect, beside
  <2>1. \A x, y \in Int : [rect EXCEPT !.x = x, !.y = y] \in Rects
    BY <1>1 DEF Rects
  <2>2. /\ beside.x + Offset(beside.w, rect.w, align) \in Int
        /\ beside.y + Offset(beside.h, rect.h, align) \in Int
        /\ Bottom(beside) + gap \in Int /\ Right(beside) + gap \in Int
    BY <1>3
  <2>. QED
    BY <2>1, <2>2
<1> HIDE DEF rect, beside, blockers, below, right
<1>5. /\ SlideClear(blockers, below, "y", gap) \in Rects
      /\ SlideClear(blockers, right, "x", gap) \in Rects
  BY <1>2, <1>3, <1>4, SlideIs
<1>6. /\ PlaceBelow(p, layout, id, target, align, gap) =
           [m \in {id} |-> MoveTo(rect, SlideClear(blockers, below, "y", gap).x,
                                        SlideClear(blockers, below, "y", gap).y)]
      /\ PlaceRightOf(p, layout, id, target, align, gap) =
           [m \in {id} |-> MoveTo(rect, SlideClear(blockers, right, "x", gap).x,
                                        SlideClear(blockers, right, "x", gap).y)]
  BY DEF PlaceBelow, PlaceRightOf, rect, beside, blockers, below, right
<1>7. /\ MoveTo(rect, SlideClear(blockers, below, "y", gap).x,
                      SlideClear(blockers, below, "y", gap).y) \in MoveRecords
      /\ MoveTo(rect, SlideClear(blockers, right, "x", gap).x,
                      SlideClear(blockers, right, "x", gap).y) \in MoveRecords
  BY <1>1, <1>5, MoveToIs DEF Rects
<1>. QED
  BY <1>6, <1>7 DEF AreMoves

\* The union of the bounds of some shapes.
LEMMA UnionIs ==
  ASSUME NEW layout, NEW ids, IsFiniteSet(ids), ids # {}, \A id \in ids : layout[id].bounds \in Rects
  PROVE  RectUnion({layout[id].bounds : id \in ids}) \in Rects
<1> DEFINE f == [id \in ids |-> layout[id].bounds]
           rects == {layout[id].bounds : id \in ids}
<1>1. rects = {f[id] : id \in ids} /\ rects # {} /\ \A r \in rects : r \in Rects
  OBVIOUS
<1> HIDE DEF f, rects
<1>2. IsFiniteSet(rects)
  BY <1>1, FiniteImage
<1>3. RectUnion(rects) \in Rects
  BY <1>1, <1>2, RectUnionIs
<1>. QED
  BY <1>3 DEF rects

LEMMA AlignMovesAre ==
  ASSUME NEW p, NEW rws, NEW layout, IsLayout(layout, p, rws),
         NEW ids, ids \subseteq DOMAIN layout, NEW axis \in Axes
  PROVE  AreMoves(AlignMoves(layout, ids, axis))
<1> DEFINE all == RectUnion({layout[id].bounds : id \in ids})
           delta(r) ==
             CASE axis = "left" -> MoveTo(r, all.x, r.y)
               [] axis = "right" -> MoveTo(r, Right(all) - r.w, r.y)
               [] axis = "center-x" -> MoveTo(r, all.x + (all.w - r.w) \div 2, r.y)
               [] axis = "top" -> MoveTo(r, r.x, all.y)
               [] axis = "bottom" -> MoveTo(r, r.x, Bottom(all) - r.h)
               [] axis = "center-y" -> MoveTo(r, r.x, all.y + (all.h - r.h) \div 2)
<1> SUFFICES ASSUME NEW id \in ids
             PROVE  delta(layout[id].bounds) \in MoveRecords
  BY DEF AlignMoves, AreMoves
<1>1. \A i \in ids : layout[i].bounds \in Rects
  BY DEF IsLayout
<1>2. IsFiniteSet(ids)
  BY FS_Subset DEF IsLayout
<1>3. all \in Rects
  BY <1>1, <1>2, UnionIs
<1> HIDE DEF all
<1> DEFINE r == layout[id].bounds
<1>4. r \in Rects
  BY <1>1
<1> HIDE DEF r
<1>5. /\ all.x \in Int /\ all.y \in Int /\ all.w \in Int /\ all.h \in Int
      /\ Right(all) \in Int /\ Bottom(all) \in Int
      /\ r.x \in Int /\ r.y \in Int /\ r.w \in Int /\ r.h \in Int
  BY <1>3, <1>4 DEF Rects, Right, Bottom
<1>6. /\ (all.w - r.w) \div 2 \in Int /\ (all.h - r.h) \div 2 \in Int
  BY <1>5
<1>7. /\ MoveTo(r, all.x, r.y) \in MoveRecords
      /\ MoveTo(r, Right(all) - r.w, r.y) \in MoveRecords
      /\ MoveTo(r, all.x + (all.w - r.w) \div 2, r.y) \in MoveRecords
      /\ MoveTo(r, r.x, all.y) \in MoveRecords
      /\ MoveTo(r, r.x, Bottom(all) - r.h) \in MoveRecords
      /\ MoveTo(r, r.x, all.y + (all.h - r.h) \div 2) \in MoveRecords
  BY <1>4, <1>5, <1>6, MoveToIs
<1>8. delta(r) \in MoveRecords
  BY <1>7 DEF Axes
<1>. QED
  BY <1>8 DEF r

AreRects(rects) == \A i \in DOMAIN rects : rects[i] \in Rects

\* The order of distributeMoves is total, so that one shape comes last.
LEMMA LastIs ==
  ASSUME LayoutAssumption, NEW rects, AreRects(rects), IsFiniteSet(DOMAIN rects),
         DOMAIN rects # {}, DOMAIN rects \subseteq ShapeIds
  PROVE  \E id \in DOMAIN rects : Earlier(rects, id) = DOMAIN rects \ {id}
<1> DEFINE D == DOMAIN rects
           later == [x \in D |-> {y \in D : Precedes(rects, x, y)}]
<1>1. later \in [D -> SUBSET D]
  OBVIOUS
<1>2. \A a \in D : rects[a].x \in Int /\ rects[a].y \in Int /\ RankOf[a] \in Int
  BY DEF AreRects, Rects, LayoutAssumption
<1>3. \A a, b \in D : a # b => Precedes(rects, a, b) \/ Precedes(rects, b, a)
  BY <1>2 DEF Precedes, LayoutAssumption
<1>4. \A a \in D : ~Precedes(rects, a, a)
  BY <1>2 DEF Precedes
<1>5. \A a, b, c \in D : Precedes(rects, a, b) /\ Precedes(rects, b, c) => Precedes(rects, a, c)
  BY <1>2 DEF Precedes
<1>6. PICK m \in D : \A y \in D : later[y] \subseteq later[m] => later[y] = later[m]
  <2> HIDE DEF D, later
  <2>. QED
    BY <1>1, LeastOf DEF D
<1>7. ASSUME NEW y \in D, Precedes(rects, m, y)
      PROVE  FALSE
  <2>1. later[y] \subseteq later[m]
    BY <1>5, <1>7
  <2>2. y \in later[m] /\ y \notin later[y]
    BY <1>4, <1>7
  <2>. QED
    BY <1>6, <2>1, <2>2
<1>8. Earlier(rects, m) = D \ {m}
  BY <1>3, <1>4, <1>7 DEF Earlier
<1>. QED
  BY <1>8

LEMMA SumOfAll ==
  ASSUME NEW f, IsFiniteSet(DOMAIN f), \A i \in DOMAIN f : f[i] \in Int
  PROVE  SumFunction(f) \in Int
<1>1. SumFunction(f) = SumFunctionOnSet(f, DOMAIN f)
  BY DEF SumFunction, SumFunctionOnSet, FoldFunction
<1>. QED
  BY <1>1, SumInt

LEMMA SpreadIs ==
  ASSUME LayoutAssumption, NEW rects, AreRects(rects), IsFiniteSet(DOMAIN rects),
         DOMAIN rects \subseteq ShapeIds, Cardinality(DOMAIN rects) >= 3, NEW gap \in Int
  PROVE  SpreadOut(rects, gap) \in [DOMAIN rects -> MoveRecords]
<1> DEFINE D == DOMAIN rects
           width == [id \in D |-> rects[id].w]
           start == Min({rects[id].x : id \in D})
           last == CHOOSE id \in D : Earlier(rects, id) = D \ {id}
           even == IF gap >= 0 THEN gap
                   ELSE (Right(rects[last]) - start - SumFunction(width))
                          \div (Cardinality(D) - 1)
           place(id) == LET before == Earlier(rects, id)
                        IN  MoveTo(rects[id],
                              start + SumFunctionOnSet(width, before) + Cardinality(before) * even,
                              rects[id].y)
<1>1. SpreadOut(rects, gap) = [id \in D |-> place(id)]
  BY DEF SpreadOut
<1>2. D # {} /\ Cardinality(D) \in Nat
  BY FS_CardinalityType, FS_EmptySet
<1>3. \A id \in D : rects[id].x \in Int /\ rects[id].y \in Int /\ Right(rects[id]) \in Int
                    /\ width[id] \in Int
  BY DEF AreRects, Rects, Right
<1>4. start \in Int
  <2> DEFINE f == [id \in D |-> rects[id].x]
             T == {rects[id].x : id \in D}
  <2>1. T = {f[id] : id \in D} /\ \A id \in D : f[id] \in Int
    BY <1>3
  <2>2. IsFiniteSet(D)
    OBVIOUS
  <2> HIDE DEF f, T, D
  <2>3. Min(T) \in Int
    BY <1>2, <2>1, <2>2, Extremes
  <2>. QED
    BY <2>3 DEF T
<1>5. last \in D
  BY <1>2, LastIs
<1>6. SumFunction(width) \in Int
  <2>1. DOMAIN width = D /\ IsFiniteSet(D)
    OBVIOUS
  <2> HIDE DEF width
  <2>. QED
    BY <1>3, <2>1, SumOfAll
<1>7. even \in Int
  <2>1. Right(rects[last]) - start - SumFunction(width) \in Int
    <3> HIDE DEF last, start, width, D
    <3>. QED
      BY <1>3, <1>4, <1>5, <1>6
  <2>2. Cardinality(D) - 1 \in Nat \ {0}
    BY <1>2
  <2> HIDE DEF last, start, width, D
  <2>6. \A a \in Int : \A b \in Nat \ {0} : a \div b \in Int
    OBVIOUS
  <2>3. (Right(rects[last]) - start - SumFunction(width)) \div (Cardinality(D) - 1) \in Int
    BY <2>1, <2>2, <2>6, Zenon
  <2> DEFINE shared == (Right(rects[last]) - start - SumFunction(width)) \div (Cardinality(D) - 1)
  <2>4. even = IF gap >= 0 THEN gap ELSE shared
    OBVIOUS
  <2>5. shared \in Int
    BY <2>3
  <2> HIDE DEF shared, even
  <2>. QED
    BY <2>4, <2>5
<1>8. ASSUME NEW id \in D
      PROVE  place(id) \in MoveRecords
  <2> DEFINE before == Earlier(rects, id)
  <2>1. before \subseteq D /\ IsFiniteSet(before)
    <3>1. before \subseteq D
      BY DEF Earlier
    <3>. QED
      BY <3>1, FS_Subset
  <2>2. SumFunctionOnSet(width, before) \in Int
    <3> HIDE DEF width, before
    <3>. QED
      BY <1>3, <2>1, SumInt
  <2>3. Cardinality(before) \in Int
    BY <2>1, FS_CardinalityType
  <2> HIDE DEF before, start, even, width
  <2>6. start + SumFunctionOnSet(width, before) \in Int
    BY <1>4, <2>2
  <2>7. Cardinality(before) * even \in Int
    BY <1>7, <2>3
  <2>4. start + SumFunctionOnSet(width, before) + Cardinality(before) * even \in Int
    BY <2>6, <2>7
  <2>5. MoveTo(rects[id], start + SumFunctionOnSet(width, before) + Cardinality(before) * even,
               rects[id].y) \in MoveRecords
    BY <2>4, <1>3, MoveToIs DEF AreRects
  <2>. QED
    BY <2>5 DEF before
<1> HIDE DEF place
<1>. QED
  BY <1>1, <1>8

LEMMA TurnedIs ==
  /\ \A r \in Rects : Turned(r) \in Rects
  /\ \A m \in MoveRecords : TurnedMove(m) \in MoveRecords
BY DEF Turned, TurnedMove, Rects, MoveRecords

LEMMA DistributeMovesAre ==
  ASSUME LayoutAssumption, NEW p, IsBoardPage(p), NEW rws, NEW layout, IsLayout(layout, p, rws),
         NEW ids, ids \subseteq DOMAIN layout, Cardinality(ids) >= 3,
         NEW direction, NEW gap \in Int
  PROVE  DistributeMoves(layout, ids, direction, gap) \in [ids -> MoveRecords]
<1> DEFINE across == [id \in ids |-> layout[id].bounds]
           down == [id \in ids |-> Turned(layout[id].bounds)]
<1>1. IsFiniteSet(ids) /\ ids \subseteq ShapeIds
  BY FS_Subset DEF IsLayout, IsBoardPage
<1>2. AreRects(across) /\ AreRects(down) /\ DOMAIN across = ids /\ DOMAIN down = ids
  BY TurnedIs DEF AreRects, IsLayout
<1> HIDE DEF across, down
<1>3. /\ SpreadOut(across, gap) \in [ids -> MoveRecords]
      /\ SpreadOut(down, gap) \in [ids -> MoveRecords]
  BY <1>1, <1>2, SpreadIs
<1>4. [id \in ids |-> TurnedMove(SpreadOut(down, gap)[id])] \in [ids -> MoveRecords]
  BY <1>3, TurnedIs
<1>. QED
  BY <1>3, <1>4 DEF DistributeMoves, across, down

LEMMA ClearBlockIs ==
  ASSUME LayoutAssumption, NEW p, NEW rws, NEW layout, IsLayout(layout, p, rws),
         NEW moves, DOMAIN moves \subseteq DOMAIN layout, AreMoves(moves), NEW gap \in Nat
  PROVE  /\ DOMAIN ClearBlock(p, layout, moves, gap) = DOMAIN moves
         /\ AreMoves(ClearBlock(p, layout, moves, gap))
<1> DEFINE f == [id \in DOMAIN moves |-> [layout[id].bounds EXCEPT !.x = @ + moves[id].dx,
                                                                   !.y = @ + moves[id].dy]]
           block == RectUnion({[layout[id].bounds EXCEPT !.x = @ + moves[id].dx,
                                                         !.y = @ + moves[id].dy]
                                 : id \in DOMAIN moves})
           blockers == BlockersFor(p, layout, DOMAIN moves)
           cleared == SlideClear(blockers, block, "y", gap)
           after == ClearBlock(p, layout, moves, gap)
<1>1. after = [id \in DOMAIN moves |-> [moves[id] EXCEPT !.dy = @ + cleared.y - block.y]]
  BY DEF ClearBlock
<1>2. SUFFICES ASSUME NEW one \in DOMAIN moves
               PROVE  after[one] \in MoveRecords
  BY <1>1 DEF AreMoves
<1>3. block \in Rects
  <2> DEFINE T == {f[id] : id \in DOMAIN moves}
  <2>1. T = {[layout[id].bounds EXCEPT !.x = @ + moves[id].dx, !.y = @ + moves[id].dy]
               : id \in DOMAIN moves}
    OBVIOUS
  <2>2. \A id \in DOMAIN moves : f[id] \in Rects
    <3>1. ASSUME NEW r \in Rects, NEW m \in MoveRecords
          PROVE  [r EXCEPT !.x = @ + m.dx, !.y = @ + m.dy] \in Rects
      <4>1. r.x + m.dx \in Int /\ r.y + m.dy \in Int
        BY DEF MoveRecords, Rects
      <4>2. \A a, b \in Int : [r EXCEPT !.x = a, !.y = b] \in Rects
        BY DEF Rects
      <4>. QED
        BY <4>1, <4>2
    <3>2. \A id \in DOMAIN moves : layout[id].bounds \in Rects /\ moves[id] \in MoveRecords
      BY DEF AreMoves, IsLayout
    <3>. QED
      BY <3>1, <3>2
  <2>3. IsFiniteSet(DOMAIN moves)
    BY FS_Subset DEF IsLayout
  <2> HIDE DEF f
  <2>4. IsFiniteSet(T) /\ T # {} /\ \A r \in T : r \in Rects
    BY <2>2, <2>3, FiniteImage
  <2> HIDE DEF T
  <2>5. RectUnion(T) \in Rects
    BY <2>4, RectUnionIs
  <2>. QED
    BY <2>1, <2>5
<1>4. cleared \in Rects
  <2>1. IsFiniteSet(blockers) /\ \A b \in blockers : b \in Rects
    BY BlockersAre
  <2>2. gap \in Int
    OBVIOUS
  <2> HIDE DEF block, blockers
  <2>. QED
    BY <1>3, <2>1, <2>2, SlideIs
<1>5. cleared.y \in Int /\ block.y \in Int /\ moves[one] \in MoveRecords
  BY <1>3, <1>4 DEF Rects, AreMoves
<1> HIDE DEF cleared, block, after
<1>6. after[one] = [moves[one] EXCEPT !.dy = @ + cleared.y - block.y]
  BY <1>1
<1>. QED
  BY <1>5, <1>6 DEF MoveRecords

-----------------------------------------------------------------------------
(* Rows, stacks and grids.                                                  *)

LEMMA Quotient ==
  ASSUME NEW a \in Nat, NEW b \in Nat \ {0}
  PROVE  a \div b \in 0 .. a /\ a % b \in 0 .. b - 1
<1> DEFINE q == a \div b
           m == a % b
<1>1. q \in Int /\ m \in Int /\ 0 <= m /\ m < b
  OBVIOUS
<1>2. a = b * q + m
  OBVIOUS
<1> HIDE DEF q, m
<1>3. b * q \in Int /\ b * q <= a /\ b * q > a - b
  BY <1>1, <1>2
<1>4. q >= 0
  <2>1. ASSUME q <= -1 PROVE FALSE
    <3>1. b * q <= b * (-1)
      BY <1>1, <2>1
    <3>. QED
      BY <1>1, <1>2, <3>1
  <2>. QED
    BY <1>1, <2>1
<1>5. q <= a
  <2>1. b * q >= 1 * q
    BY <1>1, <1>4
  <2>. QED
    BY <1>1, <1>3, <2>1
<1>. QED
  BY <1>1, <1>4, <1>5 DEF q, m

IsLine(rects, n) == n \in Nat /\ DOMAIN rects = 1 .. n /\ AreRects(rects)

LEMMA InLineIs ==
  ASSUME NEW rects, NEW n, IsLine(rects, n), NEW origin, n > 0 => origin \in Rects,
         NEW align \in Aligns, NEW gap \in Int
  PROVE  InLine(rects, origin, align, gap) \in [1 .. n -> MoveRecords]
<1> DEFINE height == Max({rects[i].h : i \in DOMAIN rects})
           stride == [j \in DOMAIN rects |-> rects[j].w + gap]
           cursor(i) == origin.x + SumFunctionOnSet(stride, 1 .. i - 1)
           place(i) == MoveTo(rects[i], cursor(i), origin.y + Offset(height, rects[i].h, align))
<1>1. InLine(rects, origin, align, gap) = [i \in DOMAIN rects |-> place(i)]
  BY DEF InLine
<1>2. SUFFICES ASSUME NEW i \in 1 .. n
               PROVE  place(i) \in MoveRecords
  BY <1>1 DEF IsLine
<1>3. \A j \in DOMAIN rects : rects[j].w \in Int /\ rects[j].h \in Int /\ stride[j] \in Int
  BY DEF IsLine, AreRects, Rects
<1>4. height \in Int
  <2> DEFINE f == [j \in DOMAIN rects |-> rects[j].h]
             T == {rects[j].h : j \in DOMAIN rects}
  <2>1. T = {f[j] : j \in DOMAIN rects} /\ \A j \in DOMAIN rects : f[j] \in Int
    BY <1>3
  <2>2. IsFiniteSet(DOMAIN rects) /\ DOMAIN rects # {}
    <3>1. n \in Nat /\ IsFiniteSet(1 .. n)
      BY FS_Interval DEF IsLine
    <3>. QED
      BY <1>2, <3>1 DEF IsLine
  <2> HIDE DEF f, T
  <2>3. Max(T) \in Int
    BY <2>1, <2>2, Extremes
  <2>. QED
    BY <2>3 DEF T
<1>5. SumFunctionOnSet(stride, 1 .. i - 1) \in Int
  <2>1. IsFiniteSet(1 .. i - 1)
    BY <1>2, FS_Interval DEF IsLine
  <2>2. \A j \in 1 .. i - 1 : stride[j] \in Int
    <3>1. \A j \in 1 .. i - 1 : j \in DOMAIN rects
      BY <1>2 DEF IsLine
    <3> HIDE DEF stride
    <3>. QED
      BY <1>3, <3>1
  <2> HIDE DEF stride
  <2>. QED
    BY <2>1, <2>2, SumInt
<1>6. origin.x \in Int /\ origin.y \in Int
  BY <1>2 DEF IsLine, Rects
<1>7. i \in DOMAIN rects /\ rects[i] \in Rects
  BY <1>2 DEF IsLine, AreRects
<1>8. Offset(height, rects[i].h, align) \in Int
  <2> HIDE DEF height
  <2>. QED
    BY <1>3, <1>4, <1>7, OffsetAlignIs
<1>9. cursor(i) \in Int /\ origin.y + Offset(height, rects[i].h, align) \in Int
  <2> HIDE DEF height, stride
  <2>. QED
    BY <1>5, <1>6, <1>8
<1> HIDE DEF height, cursor
<1>. QED
  BY <1>7, <1>9, MoveToIs

LEMMA ByIdIs ==
  ASSUME NEW ids \in Seq(ShapeIds), NEW moves \in [DOMAIN ids -> MoveRecords]
  PROVE  ById(ids, moves) \in [ToSet(ids) -> MoveRecords]
<1> SUFFICES ASSUME NEW id \in ToSet(ids)
             PROVE  moves[CHOOSE i \in DOMAIN ids : ids[i] = id] \in MoveRecords
  BY DEF ById
<1>1. (CHOOSE i \in DOMAIN ids : ids[i] = id) \in DOMAIN ids
  BY DEF ToSet
<1>. QED
  BY <1>1

\* What a request says of a block.
IsGiven(given) ==
  /\ given.columnGap \in Nat /\ given.rowGap \in Nat
  /\ "x" \in DOMAIN given => given.x \in Int
  /\ "y" \in DOMAIN given => given.y \in Int

LEMMA OriginIs ==
  ASSUME NEW p, NEW rws, NEW layout, IsLayout(layout, p, rws),
         NEW ids \in Seq(ShapeIds), ToSet(ids) \subseteq DOMAIN layout, Len(ids) > 0,
         NEW given, IsGiven(given)
  PROVE  Origin(layout, ids, given) \in Rects
<1> DEFINE union == RectUnion({layout[id].bounds : id \in ToSet(ids)})
           x == IF "x" \in DOMAIN given THEN given.x ELSE union.x
           y == IF "y" \in DOMAIN given THEN given.y ELSE union.y
<1>1. IsFiniteSet(ToSet(ids))
  BY FS_Subset DEF IsLayout
<1>2. ToSet(ids) # {}
  <2>1. 1 \in DOMAIN ids
    OBVIOUS
  <2>. QED
    BY <2>1 DEF ToSet
<1>3. \A id \in ToSet(ids) : layout[id].bounds \in Rects
  BY DEF IsLayout
<1>4. union \in Rects
  BY <1>1, <1>2, <1>3, UnionIs
<1>5. Origin(layout, ids, given) = [union EXCEPT !.x = x, !.y = y]
  <2>1. Origin(layout, ids, given) =
          [union EXCEPT !.x = IF "x" \in DOMAIN given THEN given.x ELSE @,
                        !.y = IF "y" \in DOMAIN given THEN given.y ELSE @]
    BY DEF Origin
  <2> HIDE DEF union
  <2>. QED
    BY <1>4, <2>1 DEF Rects
<1> HIDE DEF union
<1>6. x \in Int /\ y \in Int
  BY <1>4 DEF Rects, IsGiven
<1> HIDE DEF x, y
<1>. QED
  BY <1>4, <1>5, <1>6 DEF Rects

Along(layout, ids) == [i \in DOMAIN ids |-> layout[ids[i]].bounds]
TurnedAlong(layout, ids) == [i \in DOMAIN ids |-> Turned(layout[ids[i]].bounds)]

LEMMA InALine ==
  ASSUME NEW p, NEW rws, NEW layout, IsLayout(layout, p, rws),
         NEW ids \in Seq(ShapeIds), ToSet(ids) \subseteq DOMAIN layout
  PROVE  /\ \A i \in DOMAIN ids : layout[ids[i]].bounds \in Rects
         /\ IsLine(Along(layout, ids), Len(ids))
         /\ IsLine(TurnedAlong(layout, ids), Len(ids))
         /\ DOMAIN ids = 1 .. Len(ids)
<1>1. DOMAIN ids = 1 .. Len(ids) /\ Len(ids) \in Nat
  OBVIOUS
<1>2. \A i \in DOMAIN ids : layout[ids[i]].bounds \in Rects
  BY DEF ToSet, IsLayout
<1>. QED
  BY <1>1, <1>2, TurnedIs DEF IsLine, AreRects, Along, TurnedAlong

LEMMA RowMovesAre ==
  ASSUME LayoutAssumption, NEW p, NEW rws, NEW layout, IsLayout(layout, p, rws),
         NEW ids \in Seq(ShapeIds), ToSet(ids) \subseteq DOMAIN layout, NEW align \in Aligns,
         NEW given, IsGiven(given)
  PROVE  RowMoves(layout, ids, align, given) \in [ToSet(ids) -> MoveRecords]
<1> DEFINE rects == Along(layout, ids)
           origin == Origin(layout, ids, given)
<1>1. IsLine(rects, Len(ids)) /\ DOMAIN ids = 1 .. Len(ids)
  BY InALine
<1>2. Len(ids) > 0 => origin \in Rects
  BY OriginIs
<1>3. given.columnGap \in Int
  BY DEF IsGiven
<1> HIDE DEF rects, origin
<1>4. InLine(rects, origin, align, given.columnGap) \in [DOMAIN ids -> MoveRecords]
  BY <1>1, <1>2, <1>3, InLineIs
<1>5. ById(ids, InLine(rects, origin, align, given.columnGap)) \in [ToSet(ids) -> MoveRecords]
  BY <1>4, ByIdIs
<1>. QED
  BY <1>5 DEF RowMoves, rects, origin, Along

LEMMA StackMovesAre ==
  ASSUME LayoutAssumption, NEW p, NEW rws, NEW layout, IsLayout(layout, p, rws),
         NEW ids \in Seq(ShapeIds), ToSet(ids) \subseteq DOMAIN layout, NEW align \in Aligns,
         NEW given, IsGiven(given)
  PROVE  StackMoves(layout, ids, align, given) \in [ToSet(ids) -> MoveRecords]
<1> DEFINE rects == TurnedAlong(layout, ids)
           origin == Turned(Origin(layout, ids, given))
           moves == InLine(rects, origin, align, given.rowGap)
           turned == [i \in DOMAIN ids |-> TurnedMove(moves[i])]
<1>1. IsLine(rects, Len(ids)) /\ DOMAIN ids = 1 .. Len(ids)
  BY InALine
<1>2. Len(ids) > 0 => origin \in Rects
  BY OriginIs, TurnedIs
<1>3. given.rowGap \in Int
  BY DEF IsGiven
<1> HIDE DEF rects, origin
<1>4. moves \in [DOMAIN ids -> MoveRecords]
  BY <1>1, <1>2, <1>3, InLineIs
<1> HIDE DEF moves
<1>5. turned \in [DOMAIN ids -> MoveRecords]
  BY <1>4, TurnedIs
<1> HIDE DEF turned
<1>6. ById(ids, turned) \in [ToSet(ids) -> MoveRecords]
  BY <1>5, ByIdIs
<1>7. StackMoves(layout, ids, align, given) = ById(ids, turned)
  BY DEF StackMoves, TurnedAlong, rects, origin, moves, turned
<1>. QED
  BY <1>6, <1>7

\* The largest size in a column or a row, 0 if there is none.
LEMMA LargestIs ==
  ASSUME NEW T, IsFiniteSet(T), \A v \in T : v \in Int
  PROVE  Max(T \cup {0}) \in Int
<1>2. IsFiniteSet(T \cup {0})
  BY FS_AddElement
<1>3. T \cup {0} # {} /\ \A v \in T \cup {0} : v \in Int
  OBVIOUS
<1>4. Max(T \cup {0}) \in T \cup {0}
  <2> DEFINE U == T \cup {0}
  <2>1. IsFiniteSet(U) /\ U # {} /\ \A v \in U : v \in Int
    BY <1>2, <1>3
  <2> HIDE DEF U
  <2>2. Max(U) \in U
    BY <2>1, MaxOf
  <2>. QED
    BY <2>2 DEF U
<1>. QED
  BY <1>3, <1>4

LEMMA GridMovesAre ==
  ASSUME LayoutAssumption, NEW p, NEW rws, NEW layout, IsLayout(layout, p, rws),
         NEW ids \in Seq(ShapeIds), ToSet(ids) \subseteq DOMAIN layout, NEW columns \in Nat \ {0},
         NEW given, IsGiven(given)
  PROVE  GridMoves(layout, ids, columns, given) \in [ToSet(ids) -> MoveRecords]
<1> DEFINE rect(i) == layout[ids[i]].bounds
           column(i) == (i - 1) % columns
           row(i) == (i - 1) \div columns
           widest(c) == Max({rect(i).w : i \in {j \in DOMAIN ids : column(j) = c}} \cup {0})
           tallest(r) == Max({rect(i).h : i \in {j \in DOMAIN ids : row(j) = r}} \cup {0})
           across == [c \in 0 .. columns - 1 |-> widest(c) + given.columnGap]
           down == [r \in 0 .. Len(ids) - 1 |-> tallest(r) + given.rowGap]
           origin == Origin(layout, ids, given)
           x(c) == origin.x + SumFunctionOnSet(across, 0 .. c - 1)
           y(r) == origin.y + SumFunctionOnSet(down, 0 .. r - 1)
           moves == [i \in DOMAIN ids |-> MoveTo(rect(i), x(column(i)), y(row(i)))]
<1>1. GridMoves(layout, ids, columns, given) = ById(ids, moves)
  BY DEF GridMoves
<1>2. DOMAIN ids = 1 .. Len(ids) /\ Len(ids) \in Nat
      /\ given.columnGap \in Int /\ given.rowGap \in Int
  BY DEF IsGiven
<1>3. \A i \in DOMAIN ids : rect(i) \in Rects /\ rect(i).w \in Int /\ rect(i).h \in Int
  <2>1. \A i \in DOMAIN ids : rect(i) \in Rects
    BY InALine
  <2> HIDE DEF rect
  <2>2. ASSUME NEW i \in DOMAIN ids
        PROVE  rect(i).w \in Int /\ rect(i).h \in Int
    <3>1. rect(i) \in Rects
      BY <2>1
    <3>. QED
      BY <3>1 DEF Rects
  <2>. QED
    BY <2>1, <2>2
<1>4. IsFiniteSet(DOMAIN ids)
  <2>1. \A n \in Nat : IsFiniteSet(1 .. n)
    BY FS_Interval
  <2>. QED
    BY <1>2, <2>1
<1>5. ASSUME NEW c
      PROVE  widest(c) \in Int
  <2> DEFINE S == {j \in DOMAIN ids : column(j) = c}
             f == [j \in S |-> rect(j).w]
             T == {rect(i).w : i \in S}
  <2>1. IsFiniteSet(S)
    BY <1>4, FS_Subset
  <2>2. T = {f[j] : j \in S} /\ \A j \in S : f[j] \in Int
    BY <1>3
  <2> HIDE DEF f, T, S, rect
  <2>3. IsFiniteSet(T) /\ \A v \in T : v \in Int
    BY <2>1, <2>2, FiniteImage
  <2>4. Max(T \cup {0}) \in Int
    BY <2>3, LargestIs
  <2>. QED
    BY <2>4 DEF T, S
<1>6. ASSUME NEW r
      PROVE  tallest(r) \in Int
  <2> DEFINE S == {j \in DOMAIN ids : row(j) = r}
             f == [j \in S |-> rect(j).h]
             T == {rect(i).h : i \in S}
  <2>1. IsFiniteSet(S)
    BY <1>4, FS_Subset
  <2>2. T = {f[j] : j \in S} /\ \A j \in S : f[j] \in Int
    BY <1>3
  <2> HIDE DEF f, T, S, rect
  <2>3. IsFiniteSet(T) /\ \A v \in T : v \in Int
    BY <2>1, <2>2, FiniteImage
  <2>4. Max(T \cup {0}) \in Int
    BY <2>3, LargestIs
  <2>. QED
    BY <2>4 DEF T, S
<1> HIDE DEF widest, tallest
<1>7. /\ \A c \in 0 .. columns - 1 : across[c] \in Int
      /\ \A r \in 0 .. Len(ids) - 1 : down[r] \in Int
  BY <1>2, <1>5, <1>6
<1> HIDE DEF across, down
<1>8. ASSUME NEW i \in DOMAIN ids
      PROVE  MoveTo(rect(i), x(column(i)), y(row(i))) \in MoveRecords
  <2>1. column(i) \in 0 .. columns - 1
    BY <1>2
  <2>2. row(i) \in 0 .. Len(ids) - 1
    <3>1. i - 1 \in Nat /\ i - 1 <= Len(ids) - 1
      BY <1>2
    <3>2. (i - 1) \div columns \in 0 .. i - 1
      BY <3>1, Quotient
    <3> HIDE DEF row
    <3>3. row(i) \in 0 .. i - 1
      BY <3>2 DEF row
    <3>. QED
      BY <1>2, <3>1, <3>3
  <2>3. SumFunctionOnSet(across, 0 .. column(i) - 1) \in Int
    <3> DEFINE c == column(i)
    <3>1. c \in 0 .. columns - 1
      BY <2>1
    <3> HIDE DEF c
    <3>2. IsFiniteSet(0 .. c - 1) /\ \A d \in 0 .. c - 1 : across[d] \in Int
      BY <1>7, <3>1, FS_Interval
    <3>3. SumFunctionOnSet(across, 0 .. c - 1) \in Int
      BY <3>2, SumInt
    <3>. QED
      BY <3>3 DEF c
  <2>4. SumFunctionOnSet(down, 0 .. row(i) - 1) \in Int
    <3> DEFINE r == row(i)
    <3>1. r \in 0 .. Len(ids) - 1
      BY <2>2
    <3> HIDE DEF r
    <3>2. IsFiniteSet(0 .. r - 1)
      BY <1>2, <3>1, FS_Interval
    <3>4. \A d \in 0 .. r - 1 : down[d] \in Int
      BY <1>2, <1>7, <3>1
    <3>3. SumFunctionOnSet(down, 0 .. r - 1) \in Int
      BY <3>2, <3>4, SumInt
    <3>. QED
      BY <3>3 DEF r
  <2>5. origin.x \in Int /\ origin.y \in Int
    BY <1>2, OriginIs DEF Rects
  <2> HIDE DEF origin, column, row
  <2>6. x(column(i)) \in Int /\ y(row(i)) \in Int
    BY <2>3, <2>4, <2>5
  <2> HIDE DEF x, y
  <2>7. rect(i) \in Rects
    BY <1>3
  <2> HIDE DEF rect
  <2>. QED
    BY <2>6, <2>7, MoveToIs
<1>9. moves \in [DOMAIN ids -> MoveRecords]
  <2> HIDE DEF rect, x, y, column, row
  <2>. QED
    BY <1>8
<1> HIDE DEF moves
<1>. QED
  BY <1>1, <1>9, ByIdIs

-----------------------------------------------------------------------------
(* What a board holds stays a page: placed, and nothing inside itself.      *)

\* Shapes that stay where they hang are still a page, whatever else they become.
LEMMA SamePage ==
  ASSUME NEW before, IsBoardPage(before), NEW after, DOMAIN after \subseteq DOMAIN before,
         \A id \in DOMAIN after :
           /\ after[id].parent = before[id].parent
           /\ IsShape(after[id]) /\ IsPlaced(after[id])
  PROVE  IsBoardPage(after)
<1>1. IsFiniteSet(DOMAIN after)
  BY FS_Subset DEF IsBoardPage
<1>2. IsForest(after)
  <2> SUFFICES ASSUME NEW S \in SUBSET DOMAIN after, S # {}
               PROVE  \E s \in S : after[s].parent \notin S
    BY DEF IsForest
  <2>1. S \in SUBSET DOMAIN before
    OBVIOUS
  <2>2. PICK s \in S : before[s].parent \notin S
    BY <2>1 DEF IsBoardPage, IsForest
  <2>. QED
    BY <2>2
<1>. QED
  BY <1>1, <1>2 DEF IsBoardPage

\* One shape that becomes another, in its place in the tree.
LEMMA OnePlaced ==
  ASSUME NEW before, IsBoardPage(before), NEW id \in DOMAIN before,
         NEW after, DOMAIN after = DOMAIN before,
         \A other \in DOMAIN before \ {id} : after[other] = before[other],
         after[id].parent = before[id].parent, IsShape(after[id]), IsPlaced(after[id])
  PROVE  IsBoardPage(after)
<1>1. \A other \in DOMAIN after : /\ after[other].parent = before[other].parent
                                  /\ IsShape(after[other]) /\ IsPlaced(after[other])
  BY DEF IsBoardPage
<1>. QED
  BY <1>1, SamePage

\* A new shape hangs from the page.
LEMMA MorePlaced ==
  ASSUME LayoutAssumption, NEW before, IsBoardPage(before), NEW id \in ShapeIds \ DOMAIN before,
         NEW shape, IsShape(shape), IsPlaced(shape), shape.parent = Page
  PROVE  IsBoardPage(WithShape(before, id, shape))
<1> DEFINE after == WithShape(before, id, shape)
<1>1. /\ DOMAIN after = DOMAIN before \cup {id} /\ after[id] = shape
      /\ \A other \in DOMAIN before : after[other] = before[other]
  BY DEF WithShape
<1> HIDE DEF after
<1>2. IsFiniteSet(DOMAIN after)
  BY <1>1, FS_AddElement DEF IsBoardPage
<1>3. /\ DOMAIN after \subseteq ShapeIds /\ Page \notin ShapeIds
      /\ \A other \in DOMAIN after : IsShape(after[other]) /\ IsPlaced(after[other])
  BY <1>1 DEF IsBoardPage, LayoutAssumption
<1>4. IsForest(after)
  <2> SUFFICES ASSUME NEW S \in SUBSET DOMAIN after, S # {}
               PROVE  \E s \in S : after[s].parent \notin S
    BY DEF IsForest
  <2>1. CASE id \in S
    BY <1>1, <1>3, <2>1
  <2>2. CASE id \notin S
    <3>1. S \in SUBSET DOMAIN before
      BY <1>1, <2>2
    <3>2. PICK s \in S : before[s].parent \notin S
      BY <3>1 DEF IsBoardPage, IsForest
    <3>. QED
      BY <1>1, <3>1, <3>2
  <2>. QED
    BY <2>1, <2>2
<1>5. IsBoardPage(after)
  BY <1>2, <1>3, <1>4 DEF IsBoardPage
<1>. QED
  BY <1>5 DEF after

\* A page stays a forest when something goes into what it does not hold.
LEMMA NestedPage ==
  ASSUME NEW before, IsBoardPage(before), NEW id \in DOMAIN before,
         NEW container \in DOMAIN before, container # id, id \notin Above(before)[container],
         NEW after, DOMAIN after = DOMAIN before,
         \A other \in DOMAIN before \ {id} : after[other] = before[other],
         after[id].parent = container, IsShape(after[id]), IsPlaced(after[id])
  PROVE  IsBoardPage(after)
<1>0. IsFiniteSet(DOMAIN before) /\ IsForest(before)
  BY DEF IsBoardPage
<1>1. IsForest(after)
  <2> SUFFICES ASSUME NEW S \in SUBSET DOMAIN after, S # {},
                      \A s \in S : after[s].parent \in S
               PROVE  FALSE
    BY DEF IsForest
  <2>1. id \in S
    <3> SUFFICES ASSUME id \notin S
                 PROVE  FALSE
      OBVIOUS
    <3>1. PICK s \in S : before[s].parent \notin S
      BY <1>0 DEF IsForest
    <3>. QED
      BY <3>1
  <2> DEFINE T == {s \in S : s # id /\ id \notin Above(before)[s]}
  <2>2. container \in T
    BY <2>1
  <2>3. PICK t \in T : before[t].parent \notin T
    BY <1>0, <2>2 DEF IsForest
  <2> DEFINE up == before[t].parent
  <2>4. /\ t \in DOMAIN before /\ t # id /\ id \notin Above(before)[t]
        /\ up \in S /\ up \in DOMAIN before /\ up \notin T
    BY <2>3
  <2>5. Above(before)[t] = {up} \cup Above(before)[up]
    BY <1>0, <2>4, AboveIs
  <2>. QED
    BY <2>4, <2>5
<1>2. \A other \in DOMAIN after : IsShape(after[other]) /\ IsPlaced(after[other])
  BY DEF IsBoardPage
<1>. QED
  BY <1>1, <1>2 DEF IsBoardPage

\* What a change of its fields leaves of a shape in its place.
LEMMA PlacedFacts ==
  ASSUME NEW shape, IsShape(shape), IsPlaced(shape)
  PROVE  /\ \A text \in Texts : LET changed == [shape EXCEPT !.text = text]
                                IN  IsPlaced(changed) /\ changed.parent = shape.parent
         /\ \A x, y \in Int : \A aim :
              LET changed == [shape EXCEPT !.x = x, !.y = y, !.aim = aim]
              IN  IsPlaced(changed) /\ changed.parent = shape.parent
         /\ \A w, h \in Nat : LET changed == [shape EXCEPT !.w = w, !.h = h]
                              IN  IsPlaced(changed) /\ changed.parent = shape.parent
         /\ \A aim : LET changed == [shape EXCEPT !.aim = aim]
                     IN  IsPlaced(changed) /\ changed.parent = shape.parent
         /\ \A move \in MoveRecords : LET changed == Translated(shape, move)
                                      IN  IsPlaced(changed) /\ changed.parent = shape.parent
<1>1. \A text \in Texts : LET changed == [shape EXCEPT !.text = text]
                          IN  IsPlaced(changed) /\ changed.parent = shape.parent
  BY DEF IsShape, ShapeFields, IsPlaced
<1>2. \A x, y \in Int : \A aim :
        LET changed == [shape EXCEPT !.x = x, !.y = y, !.aim = aim]
        IN  IsPlaced(changed) /\ changed.parent = shape.parent
  BY DEF IsShape, ShapeFields, IsPlaced
<1>3. \A w, h \in Nat : LET changed == [shape EXCEPT !.w = w, !.h = h]
                        IN  IsPlaced(changed) /\ changed.parent = shape.parent
  BY DEF IsShape, ShapeFields, IsPlaced
<1>4. \A aim : LET changed == [shape EXCEPT !.aim = aim]
               IN  IsPlaced(changed) /\ changed.parent = shape.parent
  BY DEF IsShape, ShapeFields, IsPlaced
<1>5. \A move \in MoveRecords : LET changed == Translated(shape, move)
                                IN  IsPlaced(changed) /\ changed.parent = shape.parent
  <2> SUFFICES ASSUME NEW move \in MoveRecords
               PROVE  LET changed == Translated(shape, move)
                      IN  IsPlaced(changed) /\ changed.parent = shape.parent
    OBVIOUS
  <2>1. shape.x + move.dx \in Int /\ shape.y + move.dy \in Int
    BY DEF IsPlaced, MoveRecords
  <2> DEFINE changed == Translated(shape, move)
  <2>2. /\ changed.x = shape.x + move.dx /\ changed.y = shape.y + move.dy
        /\ changed.w = shape.w /\ changed.h = shape.h /\ changed.parent = shape.parent
        /\ changed.type = shape.type /\ changed.text = shape.text
    BY DEF IsShape, ShapeFields, Translated
  <2> HIDE DEF changed
  <2>3. IsPlaced(changed) /\ changed.parent = shape.parent
    BY <2>1, <2>2 DEF IsPlaced
  <2>. QED
    BY <2>3 DEF changed
<1>. QED
  BY <1>1, <1>2, <1>3, <1>4, <1>5

LEMMA ArrangePlaced ==
  ASSUME TxnFields, IsBoardPage(txn.page), NEW moves, AreMoves(moves), NEW placed,
         NEW gap, Arrange(moves, placed, gap)
  PROVE  IsBoardPage(txn'.page)
<1> DEFINE still == {id \in DOMAIN moves : moves[id].dx = 0 /\ moves[id].dy = 0}
           moved == DOMAIN moves \ still
           after == [id \in DOMAIN txn.page |->
                       IF id \in moved THEN Translated(txn.page[id], moves[id])
                                       ELSE txn.page[id]]
           statuses == txn.statuses \cup {VerifyLayout(after, LayoutOf(after, rows), DOMAIN moves)}
<1>1. txn' = [txn EXCEPT !.page = after, !.affected = txn.affected \cup moved,
                         !.touched = txn.touched \cup DOMAIN moves,
                         !.ran = TRUE, !.statuses = statuses,
                         !.placed = placed, !.region = NoRegion, !.spacing = gap]
  BY Zenon DEF Arrange
<1>2. ASSUME NEW id \in DOMAIN txn.page
      PROVE  /\ after[id].parent = txn.page[id].parent
             /\ IsShape(after[id]) /\ IsPlaced(after[id])
  <2>1. IsShape(txn.page[id]) /\ IsPlaced(txn.page[id])
    BY DEF IsBoardPage
  <2>2. CASE id \in moved
    <3>1. moves[id] \in MoveRecords /\ after[id] = Translated(txn.page[id], moves[id])
      BY <2>2 DEF AreMoves
    <3>2. \A move \in MoveRecords :
            LET changed == Translated(txn.page[id], move)
            IN  IsPlaced(changed) /\ changed.parent = txn.page[id].parent
      BY <2>1, PlacedFacts
    <3>3. \A move : IsShape(Translated(txn.page[id], move))
      BY <2>1, ShapeFacts
    <3> HIDE DEF after
    <3>. QED
      BY <3>1, <3>2, <3>3
  <2>3. CASE id \notin moved
    BY <2>1, <2>3
  <2>. QED
    BY <2>2, <2>3
<1>3. DOMAIN after = DOMAIN txn.page
  OBVIOUS
<1> HIDE DEF after, moved, statuses
<1>4. IsBoardPage(after)
  BY <1>2, <1>3, SamePage
<1>5. txn'.page = after
  BY <1>1 DEF TxnFields, NoTxn
<1>. QED
  BY <1>4, <1>5

LEMMA MovesOf ==
  ASSUME NEW ids, NEW moves \in [ids -> MoveRecords]
  PROVE  AreMoves(moves) /\ DOMAIN moves = ids
BY DEF AreMoves

\* Layout actions move shapes of the page by whole distances.
LEMMA LayoutPlaced ==
  ASSUME LayoutAssumption, CanvasAssumption, TxnFields, IsBoardPage(txn.page), AreRows(rows),
         LayoutAction
  PROVE  IsBoardPage(txn'.page)
<1> DEFINE p == txn.page
           layout == LayoutOf(txn.page, rows)
           Arranges == \E moves, placed, gap : AreMoves(moves) /\ Arrange(moves, placed, gap)
           Finds == \E guessed, region, gap : Looks(guessed, region, gap)
<1>1. IsLayout(layout, p, rows)
  BY LayoutIs
<1>2. \A ids : Movable(layout, ids) => ids \subseteq DOMAIN layout
  BY DEF Movable
<1>3. ASSUME NEW id, NEW target, NEW align \in Aligns, NEW gap \in Nat,
             PlaceBelowAction(id, target, align, gap)
      PROVE  Arranges
  <2>1. /\ Movable(layout, {id}) /\ target \in DOMAIN layout
        /\ Arrange(PlaceBelow(p, layout, id, target, align, gap), {id}, gap)
    BY <1>3, Zenon DEF PlaceBelowAction
  <2>2. id \in DOMAIN layout
    BY <1>2, <2>1
  <2> HIDE DEF layout, p
  <2>3. AreMoves(PlaceBelow(p, layout, id, target, align, gap))
    BY <1>1, <2>1, <2>2, PlaceMoves
  <2>. QED
    BY <2>1, <2>3
<1>4. ASSUME NEW id, NEW target, NEW align \in Aligns, NEW gap \in Nat,
             PlaceRightOfAction(id, target, align, gap)
      PROVE  Arranges
  <2>1. /\ Movable(layout, {id}) /\ target \in DOMAIN layout
        /\ Arrange(PlaceRightOf(p, layout, id, target, align, gap), {id}, gap)
    BY <1>4, Zenon DEF PlaceRightOfAction
  <2>2. id \in DOMAIN layout
    BY <1>2, <2>1
  <2> HIDE DEF layout, p
  <2>3. AreMoves(PlaceRightOf(p, layout, id, target, align, gap))
    BY <1>1, <2>1, <2>2, PlaceMoves
  <2>. QED
    BY <2>1, <2>3
<1>5. ASSUME NEW ids, NEW axis \in Axes, AlignAction(ids, axis)
      PROVE  Arranges
  <2>1. Movable(layout, ids) /\ Arrange(AlignMoves(layout, ids, axis), {}, Gap)
    BY <1>5, Zenon DEF AlignAction
  <2>2. ids \subseteq DOMAIN layout
    BY <1>2, <2>1
  <2> HIDE DEF layout, p
  <2>3. AreMoves(AlignMoves(layout, ids, axis))
    BY <1>1, <2>2, AlignMovesAre
  <2>. QED
    BY <2>1, <2>3
<1>6. ASSUME NEW ids, NEW direction, NEW gap \in Gaps \cup {NoGap},
             DistributeAction(ids, direction, gap)
      PROVE  Arranges
  <2>1. /\ Movable(layout, ids) /\ Cardinality(ids) >= 3
        /\ Arrange(DistributeMoves(layout, ids, direction, gap), {}, Gap)
    BY <1>6, Zenon DEF DistributeAction
  <2>2. ids \subseteq DOMAIN layout
    BY <1>2, <2>1
  <2>3. gap \in Int
    BY DEF CanvasAssumption, NoGap
  <2> HIDE DEF layout
  <2>4. DistributeMoves(layout, ids, direction, gap) \in [ids -> MoveRecords]
    BY <1>1, <2>1, <2>2, <2>3, DistributeMovesAre
  <2>. QED
    BY <2>1, <2>4, MovesOf
<1>7. ASSUME NEW ids, NEW moves \in [ids -> MoveRecords], NEW avoid, NEW gap,
             NEW clearance \in Nat, Movable(layout, ids),
             ArrangeBlock(layout, moves, avoid, gap, clearance)
      PROVE  Arranges
  <2>1. ids \subseteq DOMAIN layout
    BY <1>2, <1>7
  <2> HIDE DEF layout
  <2>2. DOMAIN moves \subseteq DOMAIN layout /\ AreMoves(moves)
    BY <2>1, MovesOf
  <2>3. AreMoves(ClearBlock(txn.page, layout, moves, clearance))
    BY <1>1, <2>2, ClearBlockIs
  <2>. QED
    BY <1>7, <2>2, <2>3 DEF ArrangeBlock
<1>8. ASSUME NEW ids \in Seq(ShapeIds), NEW align \in Aligns, NEW given, IsGiven(given), NEW avoid,
             RowAction(ids, align, given, avoid)
      PROVE  Arranges
  <2>1. /\ Movable(layout, ToSet(ids))
        /\ ArrangeBlock(layout, RowMoves(layout, ids, align, given), avoid,
                        given.columnGap, given.columnGap)
    BY <1>8, Zenon DEF RowAction
  <2>2. ToSet(ids) \subseteq DOMAIN layout
    BY <1>2, <2>1
  <2> HIDE DEF layout
  <2>3. RowMoves(layout, ids, align, given) \in [ToSet(ids) -> MoveRecords]
    BY <1>1, <1>8, <2>2, RowMovesAre
  <2> HIDE DEF Arranges
  <2>. QED
    BY <1>7, <1>8, <2>1, <2>3 DEF IsGiven
<1>9. ASSUME NEW ids \in Seq(ShapeIds), NEW align \in Aligns, NEW given, IsGiven(given), NEW avoid,
             StackAction(ids, align, given, avoid)
      PROVE  Arranges
  <2>1. /\ Movable(layout, ToSet(ids))
        /\ ArrangeBlock(layout, StackMoves(layout, ids, align, given), avoid,
                        given.rowGap, given.rowGap)
    BY <1>9, Zenon DEF StackAction
  <2>2. ToSet(ids) \subseteq DOMAIN layout
    BY <1>2, <2>1
  <2> HIDE DEF layout
  <2>3. StackMoves(layout, ids, align, given) \in [ToSet(ids) -> MoveRecords]
    BY <1>1, <1>9, <2>2, StackMovesAre
  <2> HIDE DEF Arranges
  <2>. QED
    BY <1>7, <1>9, <2>1, <2>3 DEF IsGiven
<1>10. ASSUME NEW ids \in Seq(ShapeIds), NEW columns \in Nat \ {0}, NEW given, IsGiven(given),
              NEW avoid, GridAction(ids, columns, given, avoid)
       PROVE  Arranges
  <2>1. /\ Movable(layout, ToSet(ids))
        /\ ArrangeBlock(layout, GridMoves(layout, ids, columns, given), avoid,
                        Least(given.columnGap, given.rowGap),
                        Most(given.columnGap, given.rowGap))
    BY <1>10, Zenon DEF GridAction
  <2>2. ToSet(ids) \subseteq DOMAIN layout
    BY <1>2, <2>1
  <2> HIDE DEF layout
  <2>3. GridMoves(layout, ids, columns, given) \in [ToSet(ids) -> MoveRecords]
    BY <1>1, <1>10, <2>2, GridMovesAre
  <2>4. Most(given.columnGap, given.rowGap) \in Nat
    BY <1>10 DEF Most, IsGiven
  <2> HIDE DEF Arranges
  <2>. QED
    BY <1>7, <2>1, <2>3, <2>4
<1>11. ASSUME NEW size, NEW near, NEW way, NEW gap, FindFreeRegionAction(size, near, way, gap)
       PROVE  Finds
  BY <1>11, Zenon DEF FindFreeRegionAction, Looks
<1>12. \A ids \in Lists : ids \in Seq(ShapeIds)
  BY DEF CanvasAssumption
<1>13. \A columns \in Columns : columns \in Nat \ {0}
  BY DEF CanvasAssumption
<1>17. /\ \A gap \in Gaps : gap \in Nat
       /\ \A given \in BlockOptions : IsGiven(given)
  BY DEF CanvasAssumption, IsGiven
<1> HIDE DEF Arranges, Finds
<1>14. Arranges \/ Finds
  <2>1. ASSUME NEW id \in ShapeIds, NEW target \in ShapeIds, NEW align \in Aligns,
               NEW gap \in Gaps,
               \/ PlaceBelowAction(id, target, align, gap)
               \/ PlaceRightOfAction(id, target, align, gap)
        PROVE  Arranges
    BY <1>3, <1>4, <1>17, <2>1
  <2>2. ASSUME NEW ids \in Lists, NEW align \in Aligns, NEW given \in BlockOptions,
               NEW avoid \in BOOLEAN,
               RowAction(ids, align, given, avoid) \/ StackAction(ids, align, given, avoid)
        PROVE  Arranges
    BY <1>8, <1>9, <1>12, <1>17, <2>2
  <2>3. ASSUME NEW ids \in Lists, NEW columns \in Columns, NEW given \in BlockOptions,
               NEW avoid \in BOOLEAN, GridAction(ids, columns, given, avoid)
        PROVE  Arranges
    BY <1>10, <1>12, <1>13, <1>17, <2>3
  <2>4. ASSUME NEW ids \in Groupings, NEW direction \in Directions,
               NEW gap \in Gaps \cup {NoGap},
               DistributeAction(ids, direction, gap)
        PROVE  Arranges
    BY <1>6, <2>4
  <2>. QED
    BY <1>5, <1>11, <2>1, <2>2, <2>3, <2>4 DEF LayoutAction
<1>15. CASE Arranges
  <2>1. PICK moves, placed, gap : AreMoves(moves) /\ Arrange(moves, placed, gap)
    BY <1>15 DEF Arranges
  <2>. QED
    BY <2>1, ArrangePlaced
<1>16. CASE Finds
  <2>1. PICK guessed, region, gap : Looks(guessed, region, gap)
    BY <1>16 DEF Finds
  <2>2. txn'.page = txn.page
    BY <2>1 DEF Looks, TxnFields, NoTxn
  <2>. QED
    BY <2>2
<1>. QED
  BY <1>14, <1>15, <1>16

\* Drawing, moving, writing, resizing and deleting leave a page.
LEMMA VisualPlaced ==
  ASSUME LayoutAssumption, CanvasAssumption, TxnFields, IsBoardPage(txn.page), VisualAction
  PROVE  IsBoardPage(txn'.page)
<1>1. \A shapes, bound, moved : Leaves(shapes, bound, moved) => txn'.page = shapes
  BY DEF Leaves, TxnFields, NoTxn
<1>2. ASSUME NEW id \in DOMAIN txn.page
      PROVE  IsShape(txn.page[id]) /\ IsPlaced(txn.page[id])
  BY DEF IsBoardPage
<1>3. /\ \A s \in Spots : s \in Int
      /\ \A s \in BoxSizes : s \in Sizes
      /\ \A t \in Words : t \in Texts
  BY DEF CanvasAssumption, Words
<1>4. \A s \in BoxSizes : s.w \in Nat /\ s.h \in Nat
  BY <1>3 DEF Sizes
<1>5. ASSUME NEW id \in ShapeIds, NEW type \in {"geo", "text"}, NEW x \in Int, NEW y \in Int,
             NEW size \in BoxSizes, NEW text \in Texts, CreateShape(id, type, x, y, size, text)
      PROVE  IsBoardPage(txn'.page)
  <2> DEFINE shape == Shape(type, x, y, size, text)
  <2>1. /\ id \notin DOMAIN txn.page
        /\ Leaves(WithShape(txn.page, id, shape), txn.bindings, {})
    BY <1>5 DEF CreateShape
  <2>2. IsShape(shape) /\ shape.parent = Page
    BY NewShape
  <2>3. IsPlaced(shape)
    BY <1>4 DEF Shape, IsPlaced
  <2> HIDE DEF shape
  <2>4. IsBoardPage(WithShape(txn.page, id, shape))
    BY <2>1, <2>2, <2>3, MorePlaced
  <2>. QED
    BY <1>1, <2>1, <2>4
<1>6. ASSUME NEW id \in ShapeIds, NEW from, NEW to, ConnectShapes(id, from, to)
      PROVE  IsBoardPage(txn'.page)
  <2> DEFINE size == [w |-> 0, h |-> 0]
             aim == AimOf(LayoutOf(txn.page, rows), from, to)
             line == Shape("arrow", 0, 0, size, NoText)
             arrow == [line EXCEPT !.from = from, !.to = to, !.aim = aim]
             bound == txn.bindings \cup ArrowBindings(id, from, to)
  <2>1. Leaves(WithShape(txn.page, id, arrow), bound, {}) /\ id \notin DOMAIN txn.page
    BY <1>6, Zenon DEF ConnectShapes
  <2> HIDE DEF aim
  <2>2. IsShape(line) /\ line.parent = Page
    BY NewShape
  <2>3. IsPlaced(line)
    BY DEF Shape, IsPlaced
  <2> HIDE DEF line
  <2>4. IsShape(arrow) /\ IsPlaced(arrow) /\ arrow.parent = Page
    BY <2>2, <2>3 DEF IsShape, ShapeFields, IsPlaced
  <2> HIDE DEF arrow, bound
  <2>5. IsBoardPage(WithShape(txn.page, id, arrow))
    BY <2>1, <2>4, MorePlaced
  <2>. QED
    BY <1>1, <2>1, <2>5
<1>7. ASSUME NEW id, NEW x \in Int, NEW y \in Int, MoveShape(id, x, y)
      PROVE  IsBoardPage(txn'.page)
  <2> DEFINE aim == IF txn.page[id].aim = <<>> THEN txn.page[id].aim ELSE Astray
             changed == [txn.page[id] EXCEPT !.x = x, !.y = y, !.aim = aim]
             shapes == [txn.page EXCEPT ![id] = changed]
  <2>1. id \in DOMAIN txn.page /\ IsShape(txn.page[id]) /\ IsPlaced(txn.page[id])
    BY <1>2, <1>7 DEF MoveShape, Current
  <2>2. Leaves(shapes, txn.bindings, {id})
    <3>1. Leaves([txn.page EXCEPT ![id].x = x, ![id].y = y,
                                  ![id].aim = IF @ = <<>> THEN @ ELSE Astray], txn.bindings, {id})
      BY <1>7 DEF MoveShape
    <3>2. [txn.page EXCEPT ![id].x = x, ![id].y = y, ![id].aim = IF @ = <<>> THEN @ ELSE Astray]
            = shapes
      BY <2>1 DEF IsShape, ShapeFields
    <3>. QED
      BY <3>1, <3>2
  <2> HIDE DEF aim
  <2>3. IsShape(changed)
    BY <2>1, ShapeFacts
  <2>4. IsPlaced(changed) /\ changed.parent = txn.page[id].parent
    <3>1. /\ changed.x = x /\ changed.y = y
          /\ changed.w = txn.page[id].w /\ changed.h = txn.page[id].h
          /\ changed.type = txn.page[id].type /\ changed.text = txn.page[id].text
          /\ changed.parent = txn.page[id].parent
      BY <2>1 DEF IsShape, ShapeFields
    <3> HIDE DEF changed
    <3>. QED
      BY <2>1, <3>1 DEF IsPlaced
  <2> HIDE DEF changed
  <2>5. /\ DOMAIN shapes = DOMAIN txn.page /\ shapes[id] = changed
        /\ \A other \in DOMAIN txn.page \ {id} : shapes[other] = txn.page[other]
    BY <2>1
  <2> HIDE DEF shapes
  <2>6. IsBoardPage(shapes)
    BY <2>1, <2>3, <2>4, <2>5, OnePlaced
  <2>. QED
    BY <1>1, <2>2, <2>6
<1>8. ASSUME NEW id, NEW text \in Texts, UpdateText(id, text)
      PROVE  IsBoardPage(txn'.page)
  <2> DEFINE changed == [txn.page[id] EXCEPT !.text = text]
             shapes == [txn.page EXCEPT ![id].text = text]
  <2>1. id \in DOMAIN txn.page /\ IsShape(txn.page[id]) /\ IsPlaced(txn.page[id])
    BY <1>2, <1>8 DEF UpdateText, Current
  <2>2. Leaves(shapes, txn.bindings, {})
    BY <1>8 DEF UpdateText
  <2>3. /\ DOMAIN shapes = DOMAIN txn.page /\ shapes[id] = changed
        /\ \A other \in DOMAIN txn.page \ {id} : shapes[other] = txn.page[other]
    BY <2>1
  <2>4. IsShape(changed)
    BY <2>1, ShapeFacts
  <2>5. IsPlaced(changed) /\ changed.parent = txn.page[id].parent
    BY <2>1, PlacedFacts
  <2> HIDE DEF shapes, changed
  <2>6. IsBoardPage(shapes)
    BY <2>1, <2>3, <2>4, <2>5, OnePlaced
  <2>. QED
    BY <1>1, <2>2, <2>6
<1>9. ASSUME NEW id, NEW size \in BoxSizes, ResizeShape(id, size)
      PROVE  IsBoardPage(txn'.page)
  <2> DEFINE changed == [txn.page[id] EXCEPT !.w = size.w, !.h = size.h]
             shapes == [txn.page EXCEPT ![id].w = size.w, ![id].h = size.h]
  <2>1. id \in DOMAIN txn.page /\ IsShape(txn.page[id]) /\ IsPlaced(txn.page[id])
    BY <1>2, <1>9 DEF ResizeShape, Current
  <2>2. Leaves(shapes, txn.bindings, {id})
    BY <1>9 DEF ResizeShape, Resized
  <2>3. /\ DOMAIN shapes = DOMAIN txn.page /\ shapes[id] = changed
        /\ \A other \in DOMAIN txn.page \ {id} : shapes[other] = txn.page[other]
    BY <2>1
  <2>4. IsShape(changed)
    BY <2>1, ShapeFacts
  <2>5. IsPlaced(changed) /\ changed.parent = txn.page[id].parent
    <3>1. /\ changed.x = txn.page[id].x /\ changed.y = txn.page[id].y
          /\ changed.w = size.w /\ changed.h = size.h
          /\ changed.type = txn.page[id].type /\ changed.text = txn.page[id].text
          /\ changed.parent = txn.page[id].parent
      BY <2>1 DEF IsShape, ShapeFields
    <3> HIDE DEF changed
    <3>. QED
      BY <1>4, <2>1, <3>1 DEF IsPlaced
  <2> HIDE DEF shapes, changed
  <2>6. IsBoardPage(shapes)
    BY <2>1, <2>3, <2>4, <2>5, OnePlaced
  <2>. QED
    BY <1>1, <2>2, <2>6
<1>10. ASSUME NEW id, DeleteShape(id)
       PROVE  IsBoardPage(txn'.page)
  <2> DEFINE shapes == Restrict(txn.page, DOMAIN txn.page \ {id})
  <2>1. txn'.page = shapes
    BY <1>10 DEF DeleteShape, TxnFields, NoTxn
  <2>2. /\ DOMAIN shapes \subseteq DOMAIN txn.page
        /\ \A other \in DOMAIN shapes : shapes[other] = txn.page[other]
    BY DEF Restrict
  <2> HIDE DEF shapes
  <2>3. \A other \in DOMAIN shapes : /\ shapes[other].parent = txn.page[other].parent
                                     /\ IsShape(shapes[other]) /\ IsPlaced(shapes[other])
    BY <1>2, <2>2
  <2>4. IsBoardPage(shapes)
    BY <2>2, <2>3, SamePage
  <2>. QED
    BY <2>1, <2>4
<1>. QED
  BY <1>3, <1>5, <1>6, <1>7, <1>8, <1>9, <1>10 DEF VisualAction

\* People's edits do, too: nothing goes into what it holds.
LEMMA PeoplePlaced ==
  ASSUME LayoutAssumption, CanvasAssumption, IsBoardPage(page), People
  PROVE  IsBoardPage(page')
<1>1. ASSUME NEW id \in DOMAIN page
      PROVE  IsShape(page[id]) /\ IsPlaced(page[id])
  BY DEF IsBoardPage
<1>2. /\ \A s \in Spots : s \in Int
      /\ \A t \in Words : t \in Texts
      /\ \A t \in Texts : Drawn[t].h \in Nat
  BY DEF CanvasAssumption, LayoutAssumption, Sizes, Words
<1>3. ASSUME NEW id, NEW x \in Spots, NEW y \in Spots, PersonMoves(id, x, y)
      PROVE  IsBoardPage(page')
  <2>1. /\ id \in DOMAIN page /\ IsShape(page[id]) /\ IsPlaced(page[id])
        /\ page' = [page EXCEPT ![id].x = x, ![id].y = y]
    BY <1>1, <1>3 DEF PersonMoves
  <2>2. /\ DOMAIN page' = DOMAIN page
        /\ \A other \in DOMAIN page \ {id} : page'[other] = page[other]
        /\ page'[id] = [page[id] EXCEPT !.x = x, !.y = y]
    BY <2>1
  <2> DEFINE changed == [page[id] EXCEPT !.x = x, !.y = y]
  <2>4. /\ DOMAIN changed = ShapeFields /\ changed.type = page[id].type
        /\ changed.x = x /\ changed.y = y /\ changed.w = page[id].w /\ changed.h = page[id].h
        /\ changed.text = page[id].text /\ changed.parent = page[id].parent
    BY <2>1 DEF IsShape, ShapeFields
  <2> HIDE DEF changed
  <2>3. IsShape(page'[id]) /\ IsPlaced(page'[id]) /\ page'[id].parent = page[id].parent
    <3>1. IsShape(changed) /\ IsPlaced(changed) /\ changed.parent = page[id].parent
      BY <1>2, <2>1, <2>4 DEF IsShape, IsPlaced
    <3>. QED
      BY <2>2, <3>1 DEF changed
  <2>9. id \in DOMAIN page
    BY <2>1
  <2>. QED
    BY <2>2, <2>3, <2>9, OnePlaced
<1>4. ASSUME NEW id, NEW container, PersonNests(id, container)
      PROVE  IsBoardPage(page')
  <2> DEFINE x == page[id].x - OffsetX(page, container) - page[container].x
             y == page[id].y - OffsetY(page, container) - page[container].y
  <2>1. /\ id \in OnPage(page) /\ container \in OnPage(page)
        /\ page[id].type # "arrow"
        /\ container \notin Related(page, id)
        /\ page' = [page EXCEPT ![id].parent = container,
                                ![id].x = @ - OffsetX(page, container) - page[container].x,
                                ![id].y = @ - OffsetY(page, container) - page[container].y]
    BY <1>4, Zenon DEF PersonNests
  <2>2. id \in DOMAIN page /\ container \in DOMAIN page
    BY <2>1, OnPageIs
  <2>3. /\ IsShape(page[id]) /\ IsPlaced(page[id]) /\ IsPlaced(page[container])
        /\ OffsetX(page, container) \in Int /\ OffsetY(page, container) \in Int
    BY <1>1, <2>2, OffsetIs
  <2>4. x \in Int /\ y \in Int
    <3>1. /\ page[id].x \in Int /\ page[id].y \in Int
          /\ page[container].x \in Int /\ page[container].y \in Int
      BY <2>3 DEF IsPlaced
    <3>2. \A a, b, c \in Int : a - b - c \in Int
      OBVIOUS
    <3>. QED
      BY <2>3, <3>1, <3>2
  <2>5. /\ DOMAIN page' = DOMAIN page
        /\ \A other \in DOMAIN page \ {id} : page'[other] = page[other]
        /\ page'[id] = [page[id] EXCEPT !.parent = container, !.x = x, !.y = y]
    BY <2>1, <2>2, <2>3 DEF IsShape, ShapeFields
  <2> HIDE DEF x, y
  <2> DEFINE changed == [page[id] EXCEPT !.parent = container, !.x = x, !.y = y]
  <2>8. /\ DOMAIN changed = ShapeFields /\ changed.type = page[id].type
        /\ changed.x = x /\ changed.y = y /\ changed.w = page[id].w /\ changed.h = page[id].h
        /\ changed.text = page[id].text /\ changed.parent = container
    BY <2>3 DEF IsShape, ShapeFields
  <2> HIDE DEF changed
  <2>6. IsShape(page'[id]) /\ IsPlaced(page'[id]) /\ page'[id].parent = container
    <3>1. IsShape(changed) /\ IsPlaced(changed) /\ changed.parent = container
      BY <2>1, <2>3, <2>4, <2>8 DEF IsShape, IsPlaced
    <3>. QED
      BY <2>5, <3>1 DEF changed
  <2>7. container # id /\ id \notin Above(page)[container]
    BY <2>1, <2>2 DEF Related, DescendantsOf
  <2>. QED
    BY <2>2, <2>5, <2>6, <2>7, NestedPage
<1>5. ASSUME NEW id, NEW text \in Words, PersonWrites(id, text)
      PROVE  IsBoardPage(page')
  <2> DEFINE h == IF page[id].type = "geo" THEN Most(page[id].h, Drawn[text].h) ELSE page[id].h
  <2>1. /\ id \in DOMAIN page /\ IsShape(page[id]) /\ IsPlaced(page[id])
        /\ page' = [page EXCEPT ![id].text = text,
                       ![id].h = IF page[id].type = "geo" THEN Most(@, Drawn[text].h) ELSE @]
    BY <1>1, <1>5 DEF PersonWrites
  <2>2. /\ DOMAIN page' = DOMAIN page
        /\ \A other \in DOMAIN page \ {id} : page'[other] = page[other]
        /\ page'[id] = [page[id] EXCEPT !.text = text, !.h = h]
    BY <2>1 DEF IsShape, ShapeFields
  <2>3. h \in Nat /\ text \in Texts
    <3>4. text \in Texts /\ Drawn[text].h \in Nat
      BY <1>2
    <3>5. IsPlaced(page[id])
      BY <2>1
    <3>1. text \in Texts /\ Drawn[text].h \in Nat /\ page[id].h \in Nat
      BY <3>4, <3>5 DEF IsPlaced
    <3>2. Most(page[id].h, Drawn[text].h) \in {page[id].h, Drawn[text].h}
      BY DEF Most
    <3>3. h \in {Most(page[id].h, Drawn[text].h), page[id].h}
      OBVIOUS
    <3> HIDE DEF h
    <3>. QED
      BY <3>1, <3>2, <3>3
  <2> HIDE DEF h
  <2> DEFINE changed == [page[id] EXCEPT !.text = text, !.h = h]
  <2>5. /\ DOMAIN changed = ShapeFields /\ changed.type = page[id].type
        /\ changed.x = page[id].x /\ changed.y = page[id].y /\ changed.w = page[id].w
        /\ changed.h = h /\ changed.text = text /\ changed.parent = page[id].parent
    BY <2>1 DEF IsShape, ShapeFields
  <2> HIDE DEF changed
  <2>4. IsShape(page'[id]) /\ IsPlaced(page'[id]) /\ page'[id].parent = page[id].parent
    <3>1. IsShape(changed) /\ IsPlaced(changed) /\ changed.parent = page[id].parent
      BY <2>1, <2>3, <2>5 DEF IsShape, IsPlaced
    <3>. QED
      BY <2>2, <3>1 DEF changed
  <2>9. id \in DOMAIN page
    BY <2>1
  <2>. QED
    BY <2>2, <2>4, <2>9, OnePlaced
<1>6. ASSUME NEW id, PersonLocks(id)
      PROVE  IsBoardPage(page')
  <2>1. /\ id \in DOMAIN page /\ IsShape(page[id]) /\ IsPlaced(page[id])
        /\ page' = [page EXCEPT ![id].locked = ~@]
    BY <1>1, <1>6 DEF PersonLocks
  <2>2. /\ DOMAIN page' = DOMAIN page
        /\ \A other \in DOMAIN page \ {id} : page'[other] = page[other]
        /\ page'[id] = [page[id] EXCEPT !.locked = ~@]
    BY <2>1
  <2>3. /\ IsShape(page'[id]) /\ IsPlaced(page'[id]) /\ page'[id].parent = page[id].parent
    BY <2>1, <2>2 DEF IsShape, ShapeFields, IsPlaced
  <2>9. id \in DOMAIN page
    BY <2>1
  <2>. QED
    BY <2>2, <2>3, <2>9, OnePlaced
<1>7. ASSUME NEW id, PersonDeletes(id)
      PROVE  IsBoardPage(page')
  <2>1. PICK gone : page' = Restrict(page, DOMAIN page \ gone)
    BY <1>7, Zenon DEF PersonDeletes
  <2>2. /\ DOMAIN page' \subseteq DOMAIN page
        /\ \A other \in DOMAIN page' : page'[other] = page[other]
    BY <2>1 DEF Restrict
  <2>3. \A other \in DOMAIN page' : /\ page'[other].parent = page[other].parent
                                    /\ IsShape(page'[other]) /\ IsPlaced(page'[other])
    BY <1>1, <2>2
  <2>. QED
    BY <2>2, <2>3, SamePage
<1>8. ASSUME NEW id, Measure(id)
      PROVE  IsBoardPage(page')
  BY <1>8 DEF Measure
<1>. QED
  BY <1>3, <1>4, <1>5, <1>6, <1>7, <1>8, Zenon DEF People

\* A redrawn arrow lies where it lay in the tree.
LEMMA ReroutePlaced ==
  ASSUME NEW shapes, IsBoardPage(shapes), NEW layout, NEW affected
  PROVE  IsBoardPage(Reroute(shapes, layout, affected))
<1> DEFINE final == Reroute(shapes, layout, affected)
           draws(id) == /\ shapes[id].type = "arrow" /\ shapes[id].from # Nobody
                        /\ {shapes[id].from, shapes[id].to} \cap affected # {}
                        /\ {shapes[id].from, shapes[id].to} \subseteq DOMAIN layout
                        /\ shapes[id].parent = Page
           aim(id) == AimOf(layout, shapes[id].from, shapes[id].to)
<1>1. /\ DOMAIN final = DOMAIN shapes
      /\ \A id \in DOMAIN shapes :
           final[id] = IF draws(id) THEN [shapes[id] EXCEPT !.aim = aim(id)] ELSE shapes[id]
  BY Zenon DEF Reroute
<1> HIDE DEF final, draws, aim
<1>2. ASSUME NEW id \in DOMAIN final
      PROVE  /\ final[id].parent = shapes[id].parent
             /\ IsShape(final[id]) /\ IsPlaced(final[id])
  <2>1. id \in DOMAIN shapes /\ IsShape(shapes[id]) /\ IsPlaced(shapes[id])
    BY <1>1 DEF IsBoardPage
  <2>2. CASE draws(id)
    <3>1. final[id] = [shapes[id] EXCEPT !.aim = aim(id)]
      BY <1>1, <2>1, <2>2
    <3>2. \A v : LET changed == [shapes[id] EXCEPT !.aim = v]
                 IN  IsPlaced(changed) /\ changed.parent = shapes[id].parent
      BY <2>1, PlacedFacts
    <3>3. \A v : IsShape([shapes[id] EXCEPT !.aim = v])
      BY <2>1, ShapeFacts
    <3>. QED
      BY <3>1, <3>2, <3>3
  <2>3. CASE ~draws(id)
    BY <1>1, <2>1, <2>3
  <2>. QED
    BY <2>2, <2>3
<1>3. IsBoardPage(final)
  BY <1>1, <1>2, SamePage
<1>. QED
  BY <1>3 DEF final

-----------------------------------------------------------------------------
(* What "verified" promises.                                                *)

\* The reply that is out is the verification of the board as it is.
ReplyIsVerified ==
  reply.status = "verified" =>
    VerifyLayout(page, LayoutOf(page, rows), reply.touched) = "verified"

PagesInv ==
  /\ TxnFields
  /\ IsBoardPage(page) /\ IsBoardPage(txn.page)
  /\ AreRows(rows)
  /\ ReplyIsVerified

LEMMA EmptyPage == \A shapes : DOMAIN shapes = {} => IsBoardPage(shapes)
BY FS_EmptySet DEF IsBoardPage, IsForest

LEMMA VerdictIs ==
  ASSUME NEW shapes, NEW layout, NEW touched
  PROVE  VerifyLayout(shapes, layout, touched) \in {"overlaps", "partially_unverified", "verified"}
BY DEF VerifyLayout

LEMMA PagesInit == ASSUME CanvasAssumption, Init PROVE PagesInv
<1>1. TxnFields /\ DOMAIN txn.page = {}
  BY DEF Init, TxnFields, NoTxn
<1>2. IsBoardPage(page)
  <2>1. CASE \E start \in StartBoards : page = start.page
    BY <2>1 DEF CanvasAssumption
  <2>2. CASE page = <<>>
    BY <2>2, EmptyPage
  <2>. QED
    BY <2>1, <2>2 DEF Init
<1>3. AreRows(rows)
  BY DEF Init, AreRows, IsRow
<1>4. ReplyIsVerified
  BY DEF Init, NoReply, ReplyIsVerified
<1>. QED
  BY <1>1, <1>2, <1>3, <1>4, EmptyPage DEF PagesInv

\* "verified" is answered only of a board that verifyLayout finds verified.
LEMMA CommitVerifies ==
  ASSUME PagesInv, Commit
  PROVE  IsBoardPage(page') /\ rows' = rows /\ txn' = NoTxn /\ ReplyIsVerified'
<1> DEFINE touched == txn.touched \cup txn.affected
           final == IF txn.affected = {} THEN txn.page
                    ELSE Reroute(txn.page, LayoutOf(txn.page, rows), txn.affected)
<1>1. /\ page' = final /\ rows' = rows /\ txn' = NoTxn
      /\ reply' = IF ~txn.ran THEN NoReply
                  ELSE [status |-> StatusOfRequest(final, txn.bindings, touched),
                        touched |-> touched]
  BY Zenon DEF Commit
<1>2. IsBoardPage(final)
  BY ReroutePlaced DEF PagesInv
<1> HIDE DEF final, touched
<1>3. ReplyIsVerified'
  <2> DEFINE verdict == VerifyLayout(final, LayoutOf(final, rows), touched)
  <2>1. StatusOfRequest(final, txn.bindings, touched) = "verified" => verdict = "verified"
    <3>1. verdict \in {"overlaps", "partially_unverified", "verified"}
      BY VerdictIs
    <3>2. \E loose, all :
            /\ verdict \in all
            /\ StatusOfRequest(final, txn.bindings, touched) =
                 IF "overlaps" \in all THEN "overlaps"
                 ELSE IF "partially_unverified" \in all \/ txn.guessed \/ loose
                   THEN "partially_unverified"
                 ELSE "verified"
      <4> DEFINE layout == LayoutOf(final, rows)
                 loose == \E a \in OnPage(final) \ DOMAIN layout :
                            /\ \E end \in {"start", "end"} :
                                 EndOf(final, txn.bindings, a, end) \in touched
                            /\ ~IsAttached(final, layout, txn.bindings, a)
                 all == txn.statuses \cup {verdict}
      <4>1. StatusOfRequest(final, txn.bindings, touched) =
              IF "overlaps" \in all THEN "overlaps"
              ELSE IF "partially_unverified" \in all \/ txn.guessed \/ loose
                THEN "partially_unverified"
              ELSE "verified"
        BY Zenon DEF StatusOfRequest
      <4>2. verdict \in all
        OBVIOUS
      <4> HIDE DEF loose, all
      <4>. QED
        BY <4>1, <4>2
    <3>. QED
      BY <3>1, <3>2
  <2>2. CASE ~txn.ran
    BY <1>1, <2>2 DEF NoReply, ReplyIsVerified
  <2>3. CASE txn.ran
    <3>1. /\ reply'.status = StatusOfRequest(final, txn.bindings, touched)
          /\ reply'.touched = touched
      BY <1>1, <2>3
    <3>. QED
      BY <1>1, <2>1, <3>1 DEF ReplyIsVerified
  <2>. QED
    BY <2>2, <2>3
<1>. QED
  BY <1>1, <1>2, <1>3

LEMMA RowsKept ==
  ASSUME IsBoardPage(page), AreRows(rows), People
  PROVE  AreRows(rows')
<1>1. CASE rows' = rows
  BY <1>1
<1>2. ASSUME NEW id, Measure(id)
      PROVE  AreRows(rows')
  <2>1. /\ id \in DOMAIN page /\ page[id].type \in {"text", "note"}
        /\ rows' = [s \in ShapeIds |->
             IF s = id THEN [text |-> page[id].text, size |-> Drawn[page[id].text]]
             ELSE IF s \in DOMAIN page THEN rows[s] ELSE Unmeasured]
    BY <1>2 DEF Measure
  <2>2. page[id].text \in Texts
    BY <2>1 DEF IsBoardPage, IsPlaced
  <2>. QED
    BY <2>1, <2>2 DEF AreRows, IsRow
<1>. QED
  BY <1>1, <1>2 DEF People, PersonMoves, PersonNests, PersonWrites, PersonLocks, PersonDeletes

LEMMA PeopleReset == ASSUME People PROVE reply' = NoReply
<1>1. Editing
  BY Zenon DEF People, PersonMoves, PersonNests, PersonWrites, PersonLocks, PersonDeletes, Measure
<1>. QED
  BY <1>1 DEF Editing

LEMMA ActionsWait ==
  ASSUME VisualAction \/ LayoutAction \/ SemanticAction
  PROVE  UNCHANGED <<page, rows, reply>>
<1>1. CASE VisualAction
  <2>1. \E on : Acting(on)
    BY <1>1, Zenon DEF VisualAction, CreateShape, ConnectShapes, MoveShape, UpdateText,
       ResizeShape, DeleteShape
  <2>. QED
    BY <2>1 DEF Acting, board
<1>2. CASE LayoutAction
  <2>1. \E on : Acting(on)
    BY <1>2, Zenon DEF LayoutAction, PlaceBelowAction, PlaceRightOfAction, AlignAction,
       DistributeAction, RowAction, StackAction, GridAction, FindFreeRegionAction
  <2>. QED
    BY <2>1 DEF Acting, board
<1>3. CASE SemanticAction
  <2>1. \E on : Acting(on)
    BY <1>3, Zenon DEF SemanticAction, CreateEntity, UpdateEntity, UpdateStatus,
       RecordExperimentResult, ApplyUpdate, AttachEvidence, LinkEntities, UnlinkEntities
  <2>. QED
    BY <2>1 DEF Acting, board
<1>. QED
  BY <1>1, <1>2, <1>3

LEMMA PagesNext ==
  ASSUME LayoutAssumption, CanvasAssumption, PagesInv, [Next]_vars
  PROVE  PagesInv'
<1>0. /\ TxnFields /\ IsBoardPage(page) /\ IsBoardPage(txn.page) /\ AreRows(rows)
      /\ ReplyIsVerified
  BY DEF PagesInv
<1>1. CASE Begin
  <2>1. txn'.page = page /\ TxnFields' /\ UNCHANGED <<page, rows, reply>>
    BY <1>1 DEF Begin, NoTxn, TxnFields, board
  <2>. QED
    BY <1>0, <2>1 DEF PagesInv, ReplyIsVerified
<1>2. CASE Refuse
  <2>1. txn' = NoTxn /\ UNCHANGED <<page, rows, reply>>
    BY <1>2 DEF Refuse, board
  <2>2. TxnFields' /\ IsBoardPage(txn'.page)
    BY <2>1, EmptyPage DEF NoTxn, TxnFields
  <2>. QED
    BY <1>0, <2>1, <2>2 DEF PagesInv, ReplyIsVerified
<1>3. CASE Commit
  <2>1. IsBoardPage(page') /\ rows' = rows /\ txn' = NoTxn /\ ReplyIsVerified'
    BY <1>3, CommitVerifies
  <2>2. TxnFields' /\ IsBoardPage(txn'.page)
    BY <2>1, EmptyPage DEF NoTxn, TxnFields
  <2>. QED
    BY <1>0, <2>1, <2>2 DEF PagesInv
<1>4. CASE VisualAction \/ LayoutAction \/ SemanticAction
  <2>1. UNCHANGED <<page, rows, reply>>
    BY <1>4, ActionsWait
  <2>2. TxnFields'
    BY <1>0, <1>4, VisualFrame, LayoutStep, SemanticStep
  <2>3. IsBoardPage(txn'.page)
    BY <1>0, <1>4, VisualPlaced, LayoutPlaced, SemanticStep
  <2>. QED
    BY <1>0, <2>1, <2>2, <2>3 DEF PagesInv, ReplyIsVerified
<1>5. CASE People
  <2>1. txn' = txn /\ reply' = NoReply
    BY <1>5, PeopleFrame, PeopleReset
  <2>2. IsBoardPage(page') /\ AreRows(rows')
    BY <1>0, <1>5, PeoplePlaced, RowsKept
  <2>. QED
    BY <1>0, <2>1, <2>2 DEF PagesInv, ReplyIsVerified, NoReply, TxnFields
<1>6. CASE Routes
  BY <1>0, <1>6 DEF Routes, board, PagesInv, ReplyIsVerified, TxnFields
<1>7. CASE UNCHANGED vars
  BY <1>0, <1>7 DEF vars, PagesInv, ReplyIsVerified, TxnFields
<1>. QED
  BY <1>1, <1>2, <1>3, <1>4, <1>5, <1>6, <1>7 DEF Next

\* "verified" is a promise (finishRun of server/canvas-api.ts, verifyLayout of
\* shared/layout-engine.ts): until the board changes again, no box that the request
\* arranged, moved or resized is drawn over a box that is not its own, whatever the
\* texts, their estimates and the tree of the page are, and whatever the request
\* did after it arranged them.  Nothing is assumed of how estimates compare with what
\* is drawn: the property itself leaves out a label drawn taller than its estimate
\* and a neighbour drawn further out of its bounds than verifyLayout looks.
THEOREM VerifiedBoxesAreClear ==
  ASSUME LayoutAssumption, CanvasAssumption PROVE Spec => []VerifiedIsClear
<1>1. Init => PagesInv
  BY PagesInit
<1>2. PagesInv /\ [Next]_vars => PagesInv'
  BY PagesNext
<1>3. PagesInv => VerifiedIsClear
  BY VerifiedMeansClear DEF PagesInv, ReplyIsVerified, VerifiedIsClear
<1>. QED
  BY <1>1, <1>2, <1>3, PTL DEF Spec

-----------------------------------------------------------------------------
(* Sums, by their elements.                                                 *)

\* A sum does not depend on the set it is computed within.
LEMMA SumsAgree ==
  ASSUME NEW S, IsFiniteSet(S), NEW T, NEW U, U \subseteq S, U \subseteq T,
         NEW f, NEW g, \A u \in U : f[u] = g[u],
         NEW it, Sums(it, S, f), NEW jt, Sums(jt, T, g)
  PROVE  it[U] = jt[U]
<1> DEFINE bad == {V \in SUBSET U : it[V] # jt[V]}
<1> SUFFICES ASSUME bad # {}
             PROVE  FALSE
  OBVIOUS
<1>1. PICK V \in bad : \A W \in bad : W \subseteq V => W = V
  <2>1. bad \in SUBSET SUBSET S /\ bad # {}
    OBVIOUS
  <2> HIDE DEF bad
  <2>. QED
    BY <2>1, LeastSubset
<1>2. V \subseteq U /\ it[V] # jt[V]
  BY <1>1
<1>3. V # {}
  BY <1>2 DEF Sums
<1> DEFINE x == AnyOf(V)
           rest == V \ {x}
<1>4. x \in V
  BY <1>3, AnyIsIn
<1>5. it[V] = f[x] + it[rest] /\ jt[V] = g[x] + jt[rest]
  BY <1>2, <1>3 DEF Sums
<1>6. it[rest] = jt[rest]
  <2>1. rest \subseteq V /\ rest # V /\ rest \in SUBSET U
    BY <1>2, <1>4
  <2>2. rest \notin bad
    <3> HIDE DEF bad, rest
    <3>. QED
      BY <1>1, <2>1
  <2> HIDE DEF rest
  <2>. QED
    BY <2>1, <2>2
<1>7. f[x] = g[x]
  BY <1>2, <1>4
<1>. QED
  BY <1>2, <1>5, <1>6, <1>7

\* Any element can be taken first.
LEMMA SumsSplit ==
  ASSUME NEW S, IsFiniteSet(S), NEW f, \A s \in S : f[s] \in Int, NEW it, Sums(it, S, f),
         NEW U \in SUBSET S, NEW x \in U
  PROVE  it[U] = f[x] + it[U \ {x}]
<1> DEFINE bad == {V \in SUBSET S : \E y \in V : it[V] # f[y] + it[V \ {y}]}
<1> SUFFICES ASSUME bad # {}
             PROVE  FALSE
  OBVIOUS
<1>1. PICK V \in bad : \A W \in bad : W \subseteq V => W = V
  <2>1. bad \in SUBSET SUBSET S /\ bad # {}
    OBVIOUS
  <2> HIDE DEF bad
  <2>. QED
    BY <2>1, LeastSubset
<1>2. PICK y \in V : it[V] # f[y] + it[V \ {y}]
  BY <1>1
<1> DEFINE a == AnyOf(V)
<1>3. a \in V /\ it[V] = f[a] + it[V \ {a}]
  BY <1>1, <1>2, AnyIsIn DEF Sums
<1>4. y # a
  BY <1>2, <1>3
<1> HIDE DEF a
<1>5. V \in SUBSET S /\ V \ {a} \in SUBSET S /\ V \ {y} \in SUBSET S
  BY <1>1
<1>6. ASSUME NEW W \in SUBSET S, W \subseteq V, W # V, NEW z \in W
      PROVE  it[W] = f[z] + it[W \ {z}]
  <2>1. W \notin bad
    <3> HIDE DEF bad
    <3>. QED
      BY <1>1, <1>6
  <2>. QED
    BY <1>6, <2>1
<1>7. it[V \ {a}] = f[y] + it[(V \ {a}) \ {y}]
  BY <1>3, <1>4, <1>5, <1>6
<1>8. it[V \ {y}] = f[a] + it[(V \ {y}) \ {a}]
  BY <1>3, <1>4, <1>5, <1>6
<1> DEFINE rest == (V \ {y}) \ {a}
<1>9. (V \ {a}) \ {y} = rest /\ rest \in SUBSET S
  BY <1>5
<1>10. it[rest] \in Int /\ f[a] \in Int /\ f[y] \in Int
  BY <1>3, <1>5, <1>9 DEF Sums
<1>11. it[V] = f[a] + (f[y] + it[rest])
  BY <1>3, <1>7, <1>9
<1>12. it[V \ {y}] = f[a] + it[rest]
  BY <1>8
<1> HIDE DEF rest
<1>13. f[a] + (f[y] + it[rest]) = f[y] + (f[a] + it[rest])
  BY <1>10
<1>. QED
  BY <1>2, <1>11, <1>12, <1>13

\* One element of a sum stands for itself.
LEMMA SumSplit ==
  ASSUME NEW S, IsFiniteSet(S), NEW f, \A s \in S : f[s] \in Int, NEW x \in S
  PROVE  SumFunctionOnSet(f, S) = f[x] + SumFunctionOnSet(f, S \ {x})
<1>1. PICK it : Sums(it, S, f) /\ SumFunctionOnSet(f, S) = it[S]
  BY SumIs
<1> DEFINE rest == S \ {x}
<1>2. IsFiniteSet(rest) /\ rest \subseteq S /\ \A s \in rest : f[s] \in Int
  BY FS_Subset
<1>3. it[S] = f[x] + it[rest]
  BY <1>1, SumsSplit
<1> HIDE DEF rest
<1>4. PICK jt : Sums(jt, rest, f) /\ SumFunctionOnSet(f, rest) = jt[rest]
  BY <1>2, SumIs
<1>5. it[rest] = jt[rest]
  BY <1>1, <1>2, <1>4, SumsAgree
<1>. QED
  BY <1>1, <1>3, <1>4, <1>5 DEF rest

LEMMA SumSame ==
  ASSUME NEW S, IsFiniteSet(S), NEW f, NEW g, \A s \in S : f[s] \in Int /\ g[s] = f[s]
  PROVE  SumFunctionOnSet(g, S) = SumFunctionOnSet(f, S)
<1>1. PICK it : Sums(it, S, f) /\ SumFunctionOnSet(f, S) = it[S]
  BY SumIs
<1>2. PICK jt : Sums(jt, S, g) /\ SumFunctionOnSet(g, S) = jt[S]
  <2>1. \A s \in S : g[s] \in Int
    OBVIOUS
  <2>. QED
    BY <2>1, SumIs
<1>3. it[S] = jt[S]
  BY <1>1, <1>2, SumsAgree
<1>. QED
  BY <1>1, <1>2, <1>3

\* A sum of which one element grows.
GrowsAt(g, f, S, x, by) ==
  /\ \A s \in S : f[s] \in Int
  /\ \A s \in S \ {x} : g[s] = f[s]
  /\ g[x] = f[x] + by

LEMMA SumMoves ==
  ASSUME NEW S, IsFiniteSet(S), NEW f, NEW g, NEW x \in S, NEW by \in Int,
         GrowsAt(g, f, S, x, by)
  PROVE  SumFunctionOnSet(g, S) = SumFunctionOnSet(f, S) + by
<1> DEFINE rest == S \ {x}
<1>0. /\ \A s \in S : f[s] \in Int
      /\ \A s \in S \ {x} : g[s] = f[s]
      /\ g[x] = f[x] + by
  BY DEF GrowsAt
<1>1. IsFiniteSet(rest) /\ rest \subseteq S /\ \A s \in rest : f[s] \in Int /\ g[s] = f[s]
  BY <1>0, FS_Subset
<1>2. \A s \in S : f[s] \in Int /\ g[s] \in Int
  BY <1>0
<1>3. /\ SumFunctionOnSet(f, S) = f[x] + SumFunctionOnSet(f, rest)
      /\ SumFunctionOnSet(g, S) = g[x] + SumFunctionOnSet(g, rest)
  BY <1>2, SumSplit
<1> HIDE DEF rest
<1>4. SumFunctionOnSet(g, rest) = SumFunctionOnSet(f, rest)
  BY <1>1, SumSame
<1>5. SumFunctionOnSet(f, rest) \in Int /\ f[x] \in Int
  BY <1>1, <1>2, SumInt
<1>. QED
  BY <1>0, <1>3, <1>4, <1>5

\* A sum of what is not negative grows with its set.
LEMMA SumGrows ==
  ASSUME NEW T, IsFiniteSet(T), NEW f, \A t \in T : f[t] \in Nat, NEW S \in SUBSET T
  PROVE  SumFunctionOnSet(f, S) <= SumFunctionOnSet(f, T)
<1>1. PICK it : Sums(it, T, f) /\ SumFunctionOnSet(f, T) = it[T]
  BY SumIs
<1>2. IsFiniteSet(S) /\ \A s \in S : f[s] \in Int
  BY FS_Subset
<1>3. PICK jt : Sums(jt, S, f) /\ SumFunctionOnSet(f, S) = jt[S]
  BY <1>2, SumIs
<1>4. it[S] = jt[S]
  BY <1>1, <1>3, SumsAgree
<1>5. \A V \in SUBSET T : it[V] \in Int
  BY <1>1 DEF Sums
<1> DEFINE bad == {V \in SUBSET T : S \subseteq V /\ ~(it[S] <= it[V])}
<1>6. SUFFICES ASSUME bad # {}
               PROVE  FALSE
  BY <1>1, <1>3, <1>4
<1>7. PICK V \in bad : \A W \in bad : W \subseteq V => W = V
  <2>1. bad \in SUBSET SUBSET T /\ bad # {}
    BY <1>6
  <2> HIDE DEF bad
  <2>. QED
    BY <2>1, LeastSubset
<1>8. V \in SUBSET T /\ S \subseteq V /\ ~(it[S] <= it[V])
  BY <1>7
<1>9. PICK x \in V : x \notin S
  <2>1. ASSUME V \subseteq S
        PROVE  FALSE
    <3>1. V = S
      BY <1>8, <2>1
    <3>2. it[S] \in Int
      BY <1>5
    <3>. QED
      BY <1>8, <3>1, <3>2
  <2>. QED
    BY <2>1
<1> DEFINE rest == V \ {x}
<1>10. rest \in SUBSET T /\ S \subseteq rest /\ rest \subseteq V /\ rest # V
  BY <1>8, <1>9
<1>11. it[V] = f[x] + it[rest]
  BY <1>1, <1>8, SumsSplit
<1> HIDE DEF rest
<1>12. it[S] <= it[rest]
  <2>1. rest \notin bad
    <3> HIDE DEF bad
    <3>. QED
      BY <1>7, <1>10
  <2>. QED
    BY <1>10, <2>1
<1>13. f[x] \in Nat /\ it[S] \in Int /\ it[rest] \in Int /\ it[V] \in Int
  BY <1>5, <1>8, <1>9, <1>10
<1>14. it[S] <= it[V]
  BY <1>11, <1>12, <1>13
<1>. QED
  BY <1>8, <1>14

\* Where one thing of a row ends, the next have not begun.
LEMMA SumSteps ==
  ASSUME NEW first \in Int, NEW c \in Int, NEW d \in Int, first <= c, c < d,
         NEW f, \A i \in first .. d - 1 : f[i] \in Nat
  PROVE  SumFunctionOnSet(f, first .. c - 1) + f[c] <= SumFunctionOnSet(f, first .. d - 1)
<1> DEFINE here == first .. c
           before == first .. c - 1
           all == first .. d - 1
<1>1. IsFiniteSet(here) /\ IsFiniteSet(all)
  <2>1. \A i, j \in Int : IsFiniteSet(i .. j)
    BY FS_Interval
  <2>. QED
    BY <2>1
<1>2. here \in SUBSET all /\ c \in here /\ here \ {c} = before
  OBVIOUS
<1>3. (\A i \in all : f[i] \in Nat) /\ (\A i \in here : f[i] \in Int)
  BY <1>2
<1> HIDE DEF here, before, all
<1>4. SumFunctionOnSet(f, here) = f[c] + SumFunctionOnSet(f, before)
  BY <1>1, <1>2, <1>3, SumSplit
<1>5. SumFunctionOnSet(f, here) <= SumFunctionOnSet(f, all)
  BY <1>1, <1>2, <1>3, SumGrows
<1>6. /\ SumFunctionOnSet(f, before) \in Int /\ f[c] \in Int
      /\ SumFunctionOnSet(f, all) \in Int
  <2>1. IsFiniteSet(before) /\ \A i \in before : f[i] \in Int
    BY <1>1, <1>2, <1>3, FS_Subset
  <2>2. SumFunctionOnSet(f, before) \in Int
    BY <2>1, SumInt
  <2>3. \A i \in all : f[i] \in Int
    BY <1>3
  <2>4. SumFunctionOnSet(f, all) \in Int
    BY <1>1, <2>3, SumInt
  <2>. QED
    BY <1>2, <1>3, <2>2, <2>4
<1>. QED
  BY <1>4, <1>5, <1>6 DEF before, all

-----------------------------------------------------------------------------
(* slideClear ends clear: every iteration passes something.                 *)

\* A smaller set has fewer elements.
LEMMA FewerElements ==
  ASSUME NEW S, IsFiniteSet(S), NEW T \in SUBSET S, T # S
  PROVE  Cardinality(T) + 1 <= Cardinality(S)
<1>1. Cardinality(T) <= Cardinality(S) /\ Cardinality(T) # Cardinality(S) /\ IsFiniteSet(T)
  BY FS_Subset
<1>2. Cardinality(S) \in Nat /\ Cardinality(T) \in Nat
  BY <1>1, FS_CardinalityType
<1>. QED
  BY <1>1, <1>2

\* Clear of each other, by the gap.
ApartBy(a, b, gap) ==
  \/ a.x >= Right(b) + gap \/ b.x >= Right(a) + gap
  \/ a.y >= Bottom(b) + gap \/ b.y >= Bottom(a) + gap

LEMMA CloserOrApart ==
  ASSUME NEW a \in Rects, NEW b \in Rects, NEW gap \in Int, ~CloserThan(a, b, gap)
  PROVE  ApartBy(a, b, gap)
BY DEF CloserThan, ApartBy, Rects, Right, Bottom

Start(r, axis) == IF axis = "x" THEN r.x ELSE r.y
End(r, axis) == IF axis = "x" THEN Right(r) ELSE Bottom(r)

\* What a rectangle has slid past it does not meet again.
Passed(blockers, r, axis, gap) == {b \in blockers : Start(r, axis) >= End(b, axis) + gap}
Hits(blockers, r, gap) == {b \in blockers : CloserThan(r, b, gap)}

LEMMA PassedIsNotHit ==
  ASSUME NEW blockers, \A b \in blockers : b \in Rects, NEW r \in Rects, NEW axis \in {"x", "y"},
         NEW gap \in Int
  PROVE  Passed(blockers, r, axis, gap) \cap Hits(blockers, r, gap) = {}
<1> SUFFICES ASSUME NEW b \in blockers, Start(r, axis) >= End(b, axis) + gap, CloserThan(r, b, gap)
             PROVE  FALSE
  BY DEF Passed, Hits
<1>1. b \in Rects
  OBVIOUS
<1>2. /\ r.x \in Int /\ r.y \in Int /\ Right(b) \in Int /\ Bottom(b) \in Int
  BY <1>1 DEF Rects, Right, Bottom
<1>. QED
  BY <1>2 DEF Start, End, CloserThan

\* An iteration that hits something passes all that was hit, and loses nothing.
LEMMA SlidPasses ==
  ASSUME NEW blockers, IsFiniteSet(blockers), \A b \in blockers : b \in Rects,
         NEW here \in Rects, NEW axis \in {"x", "y"}, NEW gap \in Int,
         Hits(blockers, here, gap) # {}
  PROVE  Cardinality(Passed(blockers, here, axis, gap)) + 1
           <= Cardinality(Passed(blockers, Slid(blockers, here, axis, gap), axis, gap))
<1> DEFINE hits == Hits(blockers, here, gap)
           next == Slid(blockers, here, axis, gap)
           past == PastAll(hits, axis, gap)
           before == Passed(blockers, here, axis, gap)
           after == Passed(blockers, next, axis, gap)
<1>1. IsFiniteSet(hits) /\ (\A b \in hits : b \in Rects) /\ hits # {} /\ hits \subseteq blockers
  BY FS_Subset DEF Hits
<1>2. next = At(here, axis, past)
  BY DEF Slid, Hits
<1> HIDE DEF hits
<1>3. past \in Int /\ \A b \in hits : past >= gap + End(b, axis)
  <2>1. \A b \in hits : past >= gap + (IF axis = "x" THEN Right(b) ELSE Bottom(b))
    BY <1>1, PastIs
  <2>2. past \in Int
    BY <1>1, PastIs
  <2>. QED
    BY <2>1, <2>2 DEF End
<1> HIDE DEF past, next
<1>4. next \in Rects /\ Start(next, axis) = past
  BY <1>2, <1>3 DEF At, Start, Rects
<1>5. \A b \in blockers : End(b, axis) \in Int
  BY DEF End, Right, Bottom, Rects
<1>6. hits \subseteq after
  BY <1>1, <1>3, <1>4, <1>5 DEF Passed
<1>7. PICK hit \in hits : TRUE
  BY <1>1
<1>8. Start(here, axis) < End(hit, axis) + gap
  <2>1. hit \in blockers /\ CloserThan(here, hit, gap)
    BY <1>7 DEF hits, Hits
  <2>. QED
    BY <2>1 DEF CloserThan, Start, End
<1>9. Start(here, axis) <= past /\ Start(here, axis) \in Int
  <2>1. Start(here, axis) \in Int
    BY DEF Start, Rects
  <2>2. End(hit, axis) \in Int /\ past >= gap + End(hit, axis)
    BY <1>1, <1>3, <1>5, <1>7
  <2>. QED
    BY <1>3, <1>8, <2>1, <2>2
<1>10. before \subseteq after
  BY <1>3, <1>4, <1>5, <1>9 DEF Passed
<1>11. hit \in after /\ hit \notin before
  <2>1. before \cap hits = {}
    BY PassedIsNotHit DEF hits
  <2>. QED
    BY <1>6, <1>7, <2>1
<1>12. IsFiniteSet(after)
  BY FS_Subset DEF Passed
<1> HIDE DEF before, after
<1>13. Cardinality(before) + 1 <= Cardinality(after)
  BY <1>10, <1>11, <1>12, FewerElements
<1>. QED
  BY <1>13 DEF before, after, next

\* After n iterations a rectangle is clear, or has passed n blockers at least.
SlidTo(r, blockers, start, axis, gap, n) ==
  /\ Hits(blockers, r, gap) = {} \/ n <= Cardinality(Passed(blockers, r, axis, gap))
  /\ r.w = start.w /\ r.h = start.h
  /\ axis = "y" => r.x = start.x
  /\ axis = "x" => r.y = start.y

LEMMA SlidesOn ==
  ASSUME LayoutAssumption, NEW blockers, IsFiniteSet(blockers), \A b \in blockers : b \in Rects,
         NEW start \in Rects, NEW axis \in {"x", "y"}, NEW gap \in Int,
         NEW it, Slides(it, blockers, start, axis, gap), NEW n \in 0 .. MaxSlides
  PROVE  SlidTo(it[n], blockers, start, axis, gap, n)
<1> DEFINE good(k) == /\ \/ Hits(blockers, it[k], gap) = {}
                         \/ k <= Cardinality(Passed(blockers, it[k], axis, gap))
                      /\ it[k].w = start.w /\ it[k].h = start.h
                      /\ axis = "y" => it[k].x = start.x
                      /\ axis = "x" => it[k].y = start.y
           bad == {k \in 0 .. MaxSlides : ~good(k)}
<1>0. MaxSlides \in Nat
  BY DEF LayoutAssumption
<1>1. SUFFICES ASSUME bad # {}
               PROVE  FALSE
  BY DEF SlidTo
<1>2. PICK m \in bad : \A k \in bad : m <= k
  <2>1. IsFiniteSet(bad) /\ \A k \in bad : k \in Int
    <3>0. \A k \in Nat : IsFiniteSet(0 .. k)
      BY FS_Interval
    <3>1. IsFiniteSet(0 .. MaxSlides)
      BY <1>0, <3>0
    <3>2. bad \in SUBSET (0 .. MaxSlides)
      OBVIOUS
    <3>3. \A k \in bad : k \in Int
      BY <1>0
    <3> HIDE DEF bad
    <3>. QED
      BY <3>1, <3>2, <3>3, FS_Subset
  <2> HIDE DEF bad
  <2>. QED
    BY <1>1, <2>1, MinOf
<1>3. m \in 0 .. MaxSlides /\ ~good(m)
  BY <1>2
<1>4. /\ it[0] = start /\ it[m] \in Rects
      /\ m # 0 => it[m] = Slid(blockers, it[m - 1], axis, gap) /\ it[m - 1] \in Rects
  BY <1>0, <1>3 DEF Slides
<1>5. \A k \in 0 .. MaxSlides : /\ IsFiniteSet(Passed(blockers, it[k], axis, gap))
                                /\ Cardinality(Passed(blockers, it[k], axis, gap)) \in Nat
  <2>1. \A r : IsFiniteSet(Passed(blockers, r, axis, gap))
    BY FS_Subset DEF Passed
  <2>. QED
    BY <2>1, FS_CardinalityType
<1>6. CASE m = 0
  <2>1. 0 <= Cardinality(Passed(blockers, it[m], axis, gap))
    BY <1>3, <1>5
  <2>. QED
    BY <1>3, <1>4, <1>6, <2>1
<1>7. CASE m # 0
  <2> DEFINE k == m - 1
  <2>1. k \in 0 .. MaxSlides /\ k < m
    BY <1>0, <1>3, <1>7
  <2>2. good(k)
    <3>1. k \notin bad
      <4> HIDE DEF bad
      <4>. QED
        BY <1>0, <1>2, <1>3, <2>1
    <3>. QED
      BY <2>1, <3>1
  <2>3. /\ it[m].w = it[k].w /\ it[m].h = it[k].h
        /\ axis = "y" => it[m].x = it[k].x
        /\ axis = "x" => it[m].y = it[k].y
    <3> DEFINE last == it[m - 1]
    <3>1. last \in Rects /\ it[m] = Slid(blockers, last, axis, gap) /\ it[k] = last
      BY <1>4, <1>7
    <3> HIDE DEF last, k, good, bad
    <3>2. /\ Slid(blockers, last, axis, gap).w = last.w /\ Slid(blockers, last, axis, gap).h = last.h
          /\ axis = "y" => Slid(blockers, last, axis, gap).x = last.x
          /\ axis = "x" => Slid(blockers, last, axis, gap).y = last.y
      BY <3>1, SlidIs
    <3>. QED
      BY <3>1, <3>2
  <2>4. CASE Hits(blockers, it[k], gap) = {}
    <3>1. it[m] = it[k]
      BY <1>4, <1>7, <2>4 DEF Slid, Hits
    <3>. QED
      BY <1>3, <2>2, <2>4, <3>1
  <2>5. CASE Hits(blockers, it[k], gap) # {}
    <3>1. k <= Cardinality(Passed(blockers, it[k], axis, gap))
      BY <2>2, <2>5
    <3>2. Cardinality(Passed(blockers, it[k], axis, gap)) + 1
            <= Cardinality(Passed(blockers, it[m], axis, gap))
      BY <1>4, <1>7, <2>5, SlidPasses
    <3>3. m <= Cardinality(Passed(blockers, it[m], axis, gap))
      BY <1>0, <1>3, <1>5, <2>1, <3>1, <3>2
    <3>. QED
      BY <1>3, <2>2, <2>3, <3>3
  <2>. QED
    BY <2>4, <2>5
<1>. QED
  BY <1>6, <1>7

\* Where something ends that slid clear of all.
EndsClear(end, blockers, start, axis, gap) ==
  /\ end \in Rects /\ end.w = start.w /\ end.h = start.h
  /\ axis = "y" => end.x = start.x
  /\ \A b \in blockers : ApartBy(end, b, gap)

\* slideClear ends clear of everything, unless there is more in its way than it has
\* iterations; it keeps the size, and sliding down it keeps to its column.
LEMMA SlideEndsClear ==
  ASSUME LayoutAssumption, NEW blockers, IsFiniteSet(blockers), \A b \in blockers : b \in Rects,
         Cardinality(blockers) <= MaxSlides,
         NEW start \in Rects, NEW axis \in {"x", "y"}, NEW gap \in Int
  PROVE  EndsClear(SlideClear(blockers, start, axis, gap), blockers, start, axis, gap)
<1>1. PICK it : Slides(it, blockers, start, axis, gap)
  BY SlideRecursion
<1>2. MaxSlides \in Nat /\ MaxSlides \in 0 .. MaxSlides
  BY DEF LayoutAssumption
<1> DEFINE end == it[MaxSlides]
<1>3. end \in Rects /\ SlideClear(blockers, start, axis, gap) = end
  BY <1>1, <1>2 DEF Slides
<1>4. SlidTo(end, blockers, start, axis, gap, MaxSlides)
  BY <1>1, <1>2, SlidesOn
<1> HIDE DEF end
<1>5. Hits(blockers, end, gap) = {}
  <2> SUFFICES ASSUME Hits(blockers, end, gap) # {}
               PROVE  FALSE
    OBVIOUS
  <2> DEFINE passed == Passed(blockers, end, axis, gap)
  <2>1. passed \in SUBSET blockers /\ passed # blockers
    <3>1. passed \cap Hits(blockers, end, gap) = {}
      BY <1>3, PassedIsNotHit
    <3>2. Hits(blockers, end, gap) \subseteq blockers /\ passed \subseteq blockers
      BY DEF Hits, Passed
    <3>. QED
      BY <3>1, <3>2
  <2>2. MaxSlides <= Cardinality(passed)
    BY <1>4 DEF SlidTo
  <2> HIDE DEF passed
  <2>3. Cardinality(passed) + 1 <= Cardinality(blockers)
    BY <2>1, FewerElements
  <2>4. Cardinality(passed) \in Nat /\ Cardinality(blockers) \in Nat
    BY <2>1, FS_Subset, FS_CardinalityType
  <2>. QED
    BY <1>2, <2>2, <2>3, <2>4
<1>6. \A b \in blockers : ApartBy(end, b, gap)
  <2> SUFFICES ASSUME NEW b \in blockers
               PROVE  ApartBy(end, b, gap)
    OBVIOUS
  <2>1. ~CloserThan(end, b, gap)
    BY <1>5 DEF Hits
  <2>. QED
    BY <1>3, <2>1, CloserOrApart
<1>. QED
  BY <1>3, <1>4, <1>6 DEF SlidTo, EndsClear

-----------------------------------------------------------------------------
(* What moving shapes changes of the places of others.                      *)

\* A page in which shapes hang, look and are as large as before.
SameTree(p, q) ==
  /\ DOMAIN q = DOMAIN p
  /\ \A id \in DOMAIN p :
       /\ q[id].parent = p[id].parent /\ q[id].type = p[id].type /\ q[id].text = p[id].text
       /\ q[id].w = p[id].w /\ q[id].h = p[id].h

\* ... and lie where they lay, but for the moves.
MovedBy(p, q, moves) ==
  /\ SameTree(p, q)
  /\ \A id \in DOMAIN p :
       /\ q[id].x = p[id].x + (IF id \in DOMAIN moves THEN moves[id].dx ELSE 0)
       /\ q[id].y = p[id].y + (IF id \in DOMAIN moves THEN moves[id].dy ELSE 0)

\* What a shape moves with: itself and all that holds it.
Chain(p, id) == {id} \cup Above(p)[id]

LEMMA SameAbove ==
  ASSUME NEW p, IsBoardPage(p), NEW q, IsBoardPage(q), SameTree(p, q)
  PROVE  Above(q) = Above(p)
<1>0. DOMAIN q = DOMAIN p /\ \A id \in DOMAIN p : q[id].parent = p[id].parent
  BY DEF SameTree
<1>1. /\ Above(p) \in [DOMAIN p -> SUBSET DOMAIN p]
      /\ \A id \in DOMAIN p :
           Above(p)[id] = IF p[id].parent \in DOMAIN p
                            THEN {p[id].parent} \cup Above(p)[p[id].parent] ELSE {}
  BY AboveIs DEF IsBoardPage
<1>2. /\ Above(q) \in [DOMAIN p -> SUBSET DOMAIN p]
      /\ \A id \in DOMAIN p :
           Above(q)[id] = IF p[id].parent \in DOMAIN p
                            THEN {p[id].parent} \cup Above(q)[p[id].parent] ELSE {}
  <2>1. /\ Above(q) \in [DOMAIN q -> SUBSET DOMAIN q]
        /\ \A id \in DOMAIN q :
             Above(q)[id] = IF q[id].parent \in DOMAIN q
                              THEN {q[id].parent} \cup Above(q)[q[id].parent] ELSE {}
    BY AboveIs DEF IsBoardPage
  <2>. QED
    BY <1>0, <2>1
<1> DEFINE bad == {id \in DOMAIN p : Above(q)[id] # Above(p)[id]}
<1>3. bad = {}
  <2> SUFFICES ASSUME bad # {}
               PROVE  FALSE
    OBVIOUS
  <2>1. PICK id \in bad : p[id].parent \notin bad
    BY DEF IsBoardPage, IsForest
  <2>2. CASE p[id].parent \in DOMAIN p
    BY <1>1, <1>2, <2>1, <2>2
  <2>3. CASE p[id].parent \notin DOMAIN p
    BY <1>1, <1>2, <2>1, <2>3
  <2>. QED
    BY <2>2, <2>3
<1>. QED
  BY <1>1, <1>2, <1>3

LEMMA SameRelations ==
  ASSUME NEW p, IsBoardPage(p), NEW q, IsBoardPage(q), SameTree(p, q)
  PROVE  /\ OnPage(q) = OnPage(p)
         /\ \A id : Children(q, id) = Children(p, id)
         /\ \A id : Related(q, id) = Related(p, id)
         /\ \A id : Chain(q, id) = Chain(p, id)
<1>1. Above(q) = Above(p)
  BY SameAbove
<1>2. DOMAIN q = DOMAIN p /\ \A id \in DOMAIN p : q[id].parent = p[id].parent
  BY DEF SameTree
<1>3. OnPage(q) = OnPage(p)
  <2>1. Above(p) \in [DOMAIN p -> SUBSET DOMAIN p]
    BY AboveIs DEF IsBoardPage
  <2>. QED
    BY <1>1, <1>2, <2>1 DEF OnPage
<1>. QED
  BY <1>1, <1>2, <1>3 DEF Children, Related, AncestorsOf, DescendantsOf, Chain

LEMMA EmptySum == ASSUME NEW f PROVE SumFunctionOnSet(f, {}) = 0
<1>1. IsFiniteSet({}) /\ \A s \in {} : f[s] \in Int
  BY FS_EmptySet
<1>2. \E it : Sums(it, {}, f) /\ SumFunctionOnSet(f, {}) = it[{}]
  BY <1>1, SumIs
<1>. QED
  BY <1>2 DEF Sums

Lefts(p) == [a \in DOMAIN p |-> p[a].x]
Tops(p) == [a \in DOMAIN p |-> p[a].y]

\* Where a shape's parent is: the sum over all that is above it, of which the
\* page is no part.
LEMMA OffsetIsSum ==
  ASSUME LayoutAssumption, NEW p, IsBoardPage(p), NEW id \in DOMAIN p
  PROVE  /\ OffsetX(p, id) = SumFunctionOnSet(Lefts(p), Above(p)[id])
         /\ OffsetY(p, id) = SumFunctionOnSet(Tops(p), Above(p)[id])
<1>1. CASE p[id].parent = Page
  <2>1. p[id].parent \notin DOMAIN p
    BY <1>1 DEF IsBoardPage, LayoutAssumption
  <2>2. Above(p)[id] = {}
    BY <2>1, AboveIs DEF IsBoardPage
  <2>3. OffsetX(p, id) = 0 /\ OffsetY(p, id) = 0
    BY <1>1 DEF OffsetX, OffsetY
  <2>. QED
    BY <2>2, <2>3, EmptySum
<1>2. CASE p[id].parent # Page
  BY <1>2 DEF OffsetX, OffsetY, AncestorsOf, Lefts, Tops
<1>. QED
  BY <1>1, <1>2

\* g is f, but for what some of D have moved by.
Shifts(g, f, D, by, S) ==
  \A a \in S : /\ f[a] \in Int
               /\ a \in D => by[a] \in Int /\ g[a] = f[a] + by[a]
               /\ a \notin D => g[a] = f[a]

\* One coordinate of a shape on the page, after moves of which none is of the
\* shape or of what holds it,
LEMMA UncarriedSum ==
  ASSUME NEW S, IsFiniteSet(S), NEW id, NEW f, NEW g, NEW D, NEW by,
         Shifts(g, f, D, by, S \cup {id}), (S \cup {id}) \cap D = {}
  PROVE  SumFunctionOnSet(g, S) + g[id] = SumFunctionOnSet(f, S) + f[id]
<1>1. \A a \in S \cup {id} : f[a] \in Int /\ g[a] = f[a]
  BY DEF Shifts
<1>2. SumFunctionOnSet(g, S) = SumFunctionOnSet(f, S)
  <2>1. \A s \in S : f[s] \in Int /\ g[s] = f[s]
    BY <1>1
  <2>. QED
    BY <2>1, SumSame
<1>3. g[id] = f[id]
  BY <1>1
<1>. QED
  BY <1>2, <1>3

\* ... or one.
LEMMA CarriedSum ==
  ASSUME NEW S, IsFiniteSet(S), NEW id, id \notin S, NEW f, NEW g, NEW D, NEW by,
         Shifts(g, f, D, by, S \cup {id}), NEW d, (S \cup {id}) \cap D = {d}
  PROVE  SumFunctionOnSet(g, S) + g[id] = SumFunctionOnSet(f, S) + f[id] + by[d]
<1>1. d \in S \cup {id} /\ d \in D /\ \A a \in S \cup {id} : a # d => a \notin D
  OBVIOUS
<1>2. by[d] \in Int /\ g[d] = f[d] + by[d] /\ f[d] \in Int
  BY <1>1 DEF Shifts
<1>3. \A a \in S \cup {id} : f[a] \in Int /\ (a # d => g[a] = f[a])
  BY <1>1 DEF Shifts
<1>4. SumFunctionOnSet(f, S) \in Int
  <2>1. \A s \in S : f[s] \in Int
    BY <1>3
  <2>. QED
    BY <2>1, SumInt
<1>5. CASE d = id
  <2>1. \A s \in S : f[s] \in Int /\ g[s] = f[s]
    BY <1>3, <1>5
  <2>2. SumFunctionOnSet(g, S) = SumFunctionOnSet(f, S)
    BY <2>1, SumSame
  <2>. QED
    BY <1>2, <1>4, <1>5, <2>2
<1>6. CASE d # id
  <2>1. d \in S
    BY <1>1, <1>6
  <2>2. (\A s \in S : f[s] \in Int) /\ (\A s \in S \ {d} : g[s] = f[s])
    BY <1>3
  <2> DEFINE by1 == by[d]
  <2>3. by1 \in Int /\ g[d] = f[d] + by1
    BY <1>2
  <2> HIDE DEF by1
  <2>4. SumFunctionOnSet(g, S) = SumFunctionOnSet(f, S) + by1
    <3>1. GrowsAt(g, f, S, d, by1)
      BY <2>2, <2>3 DEF GrowsAt
    <3>. QED
      BY <2>1, <2>3, <3>1, SumMoves
  <2>5. g[id] = f[id] /\ f[id] \in Int
    BY <1>3, <1>6
  <2>6. SumFunctionOnSet(g, S) + g[id] = (SumFunctionOnSet(f, S) + by1) + f[id]
    BY <2>4, <2>5
  <2>. QED
    BY <1>4, <2>3, <2>5, <2>6 DEF by1
<1>. QED
  BY <1>5, <1>6

DxOf(moves) == [a \in DOMAIN moves |-> moves[a].dx]
DyOf(moves) == [a \in DOMAIN moves |-> moves[a].dy]

PlaceX(p, id) == OffsetX(p, id) + p[id].x
PlaceY(p, id) == OffsetY(p, id) + p[id].y

\* The coordinates of both pages as sums over what is above a shape.
PlacesAre(p, q, moves, id, S) ==
  /\ S \in SUBSET DOMAIN p /\ IsFiniteSet(S) /\ id \notin S
  /\ PlaceX(p, id) = SumFunctionOnSet(Lefts(p), S) + Lefts(p)[id]
  /\ PlaceY(p, id) = SumFunctionOnSet(Tops(p), S) + Tops(p)[id]
  /\ PlaceX(q, id) = SumFunctionOnSet(Lefts(q), S) + Lefts(q)[id]
  /\ PlaceY(q, id) = SumFunctionOnSet(Tops(q), S) + Tops(q)[id]
  /\ Shifts(Lefts(q), Lefts(p), DOMAIN moves, DxOf(moves), S \cup {id})
  /\ Shifts(Tops(q), Tops(p), DOMAIN moves, DyOf(moves), S \cup {id})

LEMMA PlacesShift ==
  ASSUME LayoutAssumption, NEW p, IsBoardPage(p), NEW q, IsBoardPage(q),
         NEW moves, AreMoves(moves), MovedBy(p, q, moves), NEW id \in DOMAIN p
  PROVE  PlacesAre(p, q, moves, id, Above(p)[id])
<1> DEFINE S == Above(p)[id]
<1>1. S \in SUBSET DOMAIN p /\ IsFiniteSet(S) /\ id \notin S
  <2>1. S \in SUBSET DOMAIN p
    BY AboveIs DEF IsBoardPage
  <2>. QED
    BY <2>1, AboveIsStrict, FS_Subset DEF IsBoardPage
<1>2. Above(q)[id] = S /\ DOMAIN q = DOMAIN p
  BY SameAbove DEF MovedBy, SameTree
<1>3. \A a \in DOMAIN p :
        /\ p[a].x \in Int /\ p[a].y \in Int
        /\ a \in DOMAIN moves => /\ moves[a].dx \in Int /\ q[a].x = p[a].x + moves[a].dx
                                 /\ moves[a].dy \in Int /\ q[a].y = p[a].y + moves[a].dy
        /\ a \notin DOMAIN moves => q[a].x = p[a].x /\ q[a].y = p[a].y
  <2>1. \A a \in DOMAIN p : p[a].x \in Int /\ p[a].y \in Int
    BY DEF IsBoardPage, IsPlaced
  <2>2. \A a \in DOMAIN moves : moves[a].dx \in Int /\ moves[a].dy \in Int
    BY DEF AreMoves, MoveRecords
  <2>3. \A a \in DOMAIN p : a \notin DOMAIN moves => q[a].x = p[a].x + 0 /\ q[a].y = p[a].y + 0
    BY DEF MovedBy
  <2>4. \A a \in DOMAIN p : a \in DOMAIN moves =>
          q[a].x = p[a].x + moves[a].dx /\ q[a].y = p[a].y + moves[a].dy
    BY DEF MovedBy
  <2>. QED
    BY <2>1, <2>2, <2>3, <2>4
<1>4. /\ PlaceX(p, id) = SumFunctionOnSet(Lefts(p), S) + Lefts(p)[id]
      /\ PlaceY(p, id) = SumFunctionOnSet(Tops(p), S) + Tops(p)[id]
      /\ PlaceX(q, id) = SumFunctionOnSet(Lefts(q), S) + Lefts(q)[id]
      /\ PlaceY(q, id) = SumFunctionOnSet(Tops(q), S) + Tops(q)[id]
  BY <1>2, OffsetIsSum DEF PlaceX, PlaceY, Lefts, Tops
<1>5. \A a \in S \cup {id} : a \in DOMAIN p
  BY <1>1
<1> HIDE DEF S
<1>6. Shifts(Lefts(q), Lefts(p), DOMAIN moves, DxOf(moves), S \cup {id})
  BY <1>2, <1>3, <1>5 DEF Shifts, Lefts, DxOf
<1>7. Shifts(Tops(q), Tops(p), DOMAIN moves, DyOf(moves), S \cup {id})
  BY <1>2, <1>3, <1>5 DEF Shifts, Tops, DyOf
<1>. QED
  BY <1>1, <1>4, <1>6, <1>7 DEF S, PlacesAre

LEMMA UncarriedPlaces ==
  ASSUME LayoutAssumption, NEW p, IsBoardPage(p), NEW q, IsBoardPage(q),
         NEW moves, AreMoves(moves), MovedBy(p, q, moves), NEW id \in DOMAIN p,
         Chain(p, id) \cap DOMAIN moves = {}
  PROVE  PlaceX(q, id) = PlaceX(p, id) /\ PlaceY(q, id) = PlaceY(p, id)
<1> DEFINE S == Above(p)[id]
<1>1. PlacesAre(p, q, moves, id, S)
  BY PlacesShift
<1>2. (S \cup {id}) \cap DOMAIN moves = {}
  BY DEF Chain
<1> HIDE DEF S
<1>. QED
  BY <1>1, <1>2, UncarriedSum DEF PlacesAre

LEMMA CarriedPlaces ==
  ASSUME LayoutAssumption, NEW p, IsBoardPage(p), NEW q, IsBoardPage(q),
         NEW moves, AreMoves(moves), MovedBy(p, q, moves), NEW id \in DOMAIN p,
         NEW d, Chain(p, id) \cap DOMAIN moves = {d}
  PROVE  /\ PlaceX(q, id) = PlaceX(p, id) + moves[d].dx
         /\ PlaceY(q, id) = PlaceY(p, id) + moves[d].dy
<1> DEFINE S == Above(p)[id]
<1>1. PlacesAre(p, q, moves, id, S)
  BY PlacesShift
<1>2. (S \cup {id}) \cap DOMAIN moves = {d} /\ d \in DOMAIN moves
  BY DEF Chain
<1>3. DxOf(moves)[d] = moves[d].dx /\ DyOf(moves)[d] = moves[d].dy
  BY <1>2 DEF DxOf, DyOf
<1> HIDE DEF S
<1>4. PlaceX(q, id) = PlaceX(p, id) + DxOf(moves)[d]
  BY <1>1, <1>2, CarriedSum DEF PlacesAre
<1>5. PlaceY(q, id) = PlaceY(p, id) + DyOf(moves)[d]
  BY <1>1, <1>2, CarriedSum DEF PlacesAre
<1>. QED
  BY <1>3, <1>4, <1>5

-----------------------------------------------------------------------------
(* A group moves with its members.                                          *)

Shifted(r, dx, dy) == [x |-> r.x + dx, y |-> r.y + dy, w |-> r.w, h |-> r.h]

\* The values that a function has on a set.
IsImage(T, S, f) == T = {f[s] : s \in S}

LEMMA ExtremesOf ==
  ASSUME NEW S, IsFiniteSet(S), S # {}, NEW f, \A s \in S : f[s] \in Int, NEW T, IsImage(T, S, f)
  PROVE  /\ Max(T) \in Int /\ \A s \in S : f[s] <= Max(T)
         /\ Min(T) \in Int /\ \A s \in S : Min(T) <= f[s]
         /\ (\E s \in S : Max(T) = f[s]) /\ (\E s \in S : Min(T) = f[s])
<1>1. T = {f[s] : s \in S}
  BY DEF IsImage
<1>2. /\ Max(T) \in Int /\ \A s \in S : f[s] <= Max(T)
      /\ Min(T) \in Int /\ \A s \in S : Min(T) <= f[s]
      /\ Max(T) \in T /\ Min(T) \in T
  BY <1>1, Extremes
<1>. QED
  BY <1>1, <1>2

MovedOn(g, f, S, by) == \A s \in S : f[s] \in Int /\ g[s] = f[s] + by

LEMMA ExtremesShift ==
  ASSUME NEW S, IsFiniteSet(S), S # {}, NEW by \in Int, NEW f, NEW g,
         MovedOn(g, f, S, by),
         NEW F, IsImage(F, S, f), NEW G, IsImage(G, S, g)
  PROVE  /\ Max(G) = Max(F) + by /\ Max(F) \in Int
         /\ Min(G) = Min(F) + by /\ Min(F) \in Int
<1>1. \A s \in S : f[s] \in Int
  BY DEF MovedOn
<1>2. \A s \in S : g[s] \in Int
  BY DEF MovedOn
<1>5. /\ Max(F) \in Int /\ \A s \in S : f[s] <= Max(F)
      /\ Min(F) \in Int /\ \A s \in S : Min(F) <= f[s]
      /\ (\E s \in S : Max(F) = f[s]) /\ (\E s \in S : Min(F) = f[s])
  BY <1>1, ExtremesOf
<1>6. /\ Max(G) \in Int /\ \A s \in S : g[s] <= Max(G)
      /\ Min(G) \in Int /\ \A s \in S : Min(G) <= g[s]
      /\ (\E s \in S : Max(G) = g[s]) /\ (\E s \in S : Min(G) = g[s])
  BY <1>2, ExtremesOf
<1>7. Max(G) = Max(F) + by
  <2>1. PICK s \in S : Max(F) = f[s]
    BY <1>5
  <2>2. PICK t \in S : Max(G) = g[t]
    BY <1>6
  <2>3. /\ g[s] <= Max(G) /\ f[t] <= Max(F)
        /\ g[s] = f[s] + by /\ g[t] = f[t] + by /\ f[s] \in Int /\ f[t] \in Int
    BY <1>5, <1>6 DEF MovedOn
  <2>. QED
    BY <2>1, <2>2, <2>3
<1>8. Min(G) = Min(F) + by
  <2>1. PICK s \in S : Min(F) = f[s]
    BY <1>5
  <2>2. PICK t \in S : Min(G) = g[t]
    BY <1>6
  <2>3. /\ Min(G) <= g[s] /\ Min(F) <= f[t]
        /\ g[s] = f[s] + by /\ g[t] = f[t] + by /\ f[s] \in Int /\ f[t] \in Int
    BY <1>5, <1>6 DEF MovedOn
  <2>. QED
    BY <2>1, <2>2, <2>3
<1>. QED
  BY <1>5, <1>7, <1>8

\* A rectangle around things, side by side.
SidesAre(S, f, xs, ys, rs, bs) ==
  \A s \in S : xs[s] = f[s].x /\ ys[s] = f[s].y /\ rs[s] = Right(f[s]) /\ bs[s] = Bottom(f[s])

LEMMA UnionSides ==
  ASSUME NEW S, NEW f, NEW T, IsImage(T, S, f),
         NEW xs, NEW ys, NEW rs, NEW bs,
         SidesAre(S, f, xs, ys, rs, bs),
         NEW X, IsImage(X, S, xs), NEW Y, IsImage(Y, S, ys),
         NEW R, IsImage(R, S, rs), NEW B, IsImage(B, S, bs)
  PROVE  RectUnion(T) = [x |-> Min(X), y |-> Min(Y), w |-> Max(R) - Min(X), h |-> Max(B) - Min(Y)]
<1>1. {r.x : r \in T} = X
  BY DEF IsImage, SidesAre
<1>2. {r.y : r \in T} = Y
  BY DEF IsImage, SidesAre
<1>3. {Right(r) : r \in T} = R
  BY DEF IsImage, SidesAre
<1>4. {Bottom(r) : r \in T} = B
  BY DEF IsImage, SidesAre
<1>. QED
  BY <1>1, <1>2, <1>3, <1>4 DEF RectUnion

LEMMA UnionShift ==
  ASSUME NEW S, IsFiniteSet(S), S # {}, NEW f, NEW g, NEW dx \in Int, NEW dy \in Int,
         \A s \in S : f[s] \in Rects, \A s \in S : g[s] = Shifted(f[s], dx, dy)
  PROVE  RectUnion({g[s] : s \in S}) = Shifted(RectUnion({f[s] : s \in S}), dx, dy)
<1> DEFINE fx == [s \in S |-> f[s].x]
           fy == [s \in S |-> f[s].y]
           fr == [s \in S |-> Right(f[s])]
           fb == [s \in S |-> Bottom(f[s])]
           gx == [s \in S |-> g[s].x]
           gy == [s \in S |-> g[s].y]
           gr == [s \in S |-> Right(g[s])]
           gb == [s \in S |-> Bottom(g[s])]
<1>1. \A s \in S : fx[s] = f[s].x /\ fy[s] = f[s].y /\ fr[s] = Right(f[s]) /\ fb[s] = Bottom(f[s])
  OBVIOUS
<1>2. \A s \in S : gx[s] = g[s].x /\ gy[s] = g[s].y /\ gr[s] = Right(g[s]) /\ gb[s] = Bottom(g[s])
  OBVIOUS
<1>3. ASSUME NEW s \in S
      PROVE  /\ fx[s] \in Int /\ gx[s] = fx[s] + dx
             /\ fy[s] \in Int /\ gy[s] = fy[s] + dy
             /\ fr[s] \in Int /\ gr[s] = fr[s] + dx
             /\ fb[s] \in Int /\ gb[s] = fb[s] + dy
  <2> DEFINE r == f[s]
  <2>0. r \in Rects /\ g[s] = Shifted(r, dx, dy)
    OBVIOUS
  <2> HIDE DEF r
  <2>1. /\ r.x \in Int /\ r.y \in Int /\ r.w \in Nat /\ r.h \in Nat
        /\ g[s].x = r.x + dx /\ g[s].y = r.y + dy /\ g[s].w = r.w /\ g[s].h = r.h
    BY <2>0 DEF Rects, Shifted
  <2>2. /\ Right(r) \in Int /\ Right(g[s]) = Right(r) + dx
        /\ Bottom(r) \in Int /\ Bottom(g[s]) = Bottom(r) + dy
    BY <2>1 DEF Right, Bottom
  <2>. QED
    BY <1>1, <1>2, <2>1, <2>2 DEF r
<1> HIDE DEF fx, fy, fr, fb, gx, gy, gr, gb
<1> DEFINE F == {f[s] : s \in S}
           G == {g[s] : s \in S}
           FX == {fx[s] : s \in S}
           FY == {fy[s] : s \in S}
           FR == {fr[s] : s \in S}
           FB == {fb[s] : s \in S}
           GX == {gx[s] : s \in S}
           GY == {gy[s] : s \in S}
           GR == {gr[s] : s \in S}
           GB == {gb[s] : s \in S}
           x0 == Min(FX)
           y0 == Min(FY)
           r0 == Max(FR)
           b0 == Max(FB)
           x1 == Min(GX)
           y1 == Min(GY)
           r1 == Max(GR)
           b1 == Max(GB)
<1>0. /\ IsImage(F, S, f) /\ IsImage(FX, S, fx) /\ IsImage(FY, S, fy) /\ IsImage(FR, S, fr) /\ IsImage(FB, S, fb)
  BY DEF IsImage
<1>00. /\ IsImage(G, S, g) /\ IsImage(GX, S, gx) /\ IsImage(GY, S, gy) /\ IsImage(GR, S, gr) /\ IsImage(GB, S, gb)
  BY DEF IsImage
<1> HIDE DEF F, G, FX, FY, FR, FB, GX, GY, GR, GB
<1>31. SidesAre(S, f, fx, fy, fr, fb) /\ SidesAre(S, g, gx, gy, gr, gb)
  BY <1>1, <1>2 DEF SidesAre
<1>32. /\ MovedOn(gx, fx, S, dx) /\ MovedOn(gy, fy, S, dy)
       /\ MovedOn(gr, fr, S, dx) /\ MovedOn(gb, fb, S, dy)
  BY <1>3 DEF MovedOn
<1>4. RectUnion(F) = [x |-> x0, y |-> y0, w |-> r0 - x0, h |-> b0 - y0]
  BY <1>0, <1>31, UnionSides
<1>5. RectUnion(G) = [x |-> x1, y |-> y1, w |-> r1 - x1, h |-> b1 - y1]
  BY <1>00, <1>31, UnionSides
<1>6. x1 = x0 + dx /\ x0 \in Int
  BY <1>0, <1>00, <1>32, ExtremesShift
<1>7. y1 = y0 + dy /\ y0 \in Int
  BY <1>0, <1>00, <1>32, ExtremesShift
<1>8. r1 = r0 + dx /\ r0 \in Int
  BY <1>0, <1>00, <1>32, ExtremesShift
<1>9. b1 = b0 + dy /\ b0 \in Int
  BY <1>0, <1>00, <1>32, ExtremesShift
<1> HIDE DEF x0, y0, r0, b0, x1, y1, r1, b1
<1>10. r1 - x1 = r0 - x0 /\ b1 - y1 = b0 - y0
  BY <1>6, <1>7, <1>8, <1>9
<1>11. RectUnion(G) = Shifted(RectUnion(F), dx, dy)
  BY <1>4, <1>5, <1>6, <1>7, <1>10 DEF Shifted
<1>. QED
  BY <1>11 DEF F, G

\* What a box is on the page follows its place: the size does not depend on it.
LEMMA BoxShift ==
  ASSUME LayoutAssumption, NEW p, IsBoardPage(p), NEW q, SameTree(p, q), NEW rws, AreRows(rws),
         NEW id \in DOMAIN p, NEW dx, NEW dy,
         PlaceX(q, id) = PlaceX(p, id) + dx, PlaceY(q, id) = PlaceY(p, id) + dy
  PROVE  BoxLayout(q, rws, id).bounds = Shifted(BoxLayout(p, rws, id).bounds, dx, dy)
<1>1. SizeOf(q[id], rws[id]) = SizeOf(p[id], rws[id])
  <2>1. /\ q[id].type = p[id].type /\ q[id].text = p[id].text
        /\ q[id].w = p[id].w /\ q[id].h = p[id].h
    BY DEF SameTree
  <2>. QED
    BY <2>1 DEF SizeOf, IsMeasured
<1>2. /\ BoxLayout(p, rws, id).bounds = Rect(PlaceX(p, id), PlaceY(p, id), SizeOf(p[id], rws[id]))
      /\ BoxLayout(q, rws, id).bounds = Rect(PlaceX(q, id), PlaceY(q, id), SizeOf(q[id], rws[id]))
  BY DEF BoxLayout, PlaceX, PlaceY
<1>. QED
  BY <1>1, <1>2 DEF Rect, Shifted

\* Nothing that moves holds another thing that moves.
Separate(p, D) == \A d \in D : d \in DOMAIN p /\ Above(p)[d] \cap D = {}

LEMMA CarriedChild ==
  ASSUME NEW p, IsBoardPage(p), NEW D, Separate(p, D),
         NEW id \in DOMAIN p, NEW d, Chain(p, id) \cap D = {d}, NEW m \in Children(p, id)
  PROVE  m \in DOMAIN p /\ Chain(p, m) \cap D = {d}
<1>1. m \in DOMAIN p /\ p[m].parent = id
  BY DEF Children
<1>2. Above(p)[m] = Chain(p, id)
  BY <1>1, AboveIs DEF IsBoardPage, Chain
<1>3. m \notin D
  BY <1>2 DEF Separate
<1>. QED
  BY <1>1, <1>2, <1>3 DEF Chain

\* A group moves with what it holds, or has nothing to lie around.
GroupMoves(p, q, id, f, g, dx, dy) ==
  GroupLayout(q, id, [m \in Children(q, id) |-> g[m]]).bounds
    = Shifted(GroupLayout(p, id, [m \in Children(p, id) |-> f[m]]).bounds, dx, dy)

LEMMA GroupShift ==
  ASSUME LayoutAssumption, NEW p, IsBoardPage(p), NEW q, IsBoardPage(q), SameTree(p, q),
         NEW id \in DOMAIN p, NEW dx \in Int, NEW dy \in Int,
         PlaceX(q, id) = PlaceX(p, id) + dx, PlaceY(q, id) = PlaceY(p, id) + dy,
         NEW f, NEW g, \A m \in Children(p, id) : f[m].bounds \in Rects,
         \A m \in Children(p, id) : g[m].bounds = Shifted(f[m].bounds, dx, dy)
  PROVE  GroupMoves(p, q, id, f, g, dx, dy)
<1> DEFINE members == Children(p, id)
           F == [m \in members |-> f[m].bounds]
           G == [m \in members |-> g[m].bounds]
           old == {F[m] : m \in members}
           new == {G[m] : m \in members}
<1>1. Children(q, id) = members
  BY SameRelations
<1>2. CASE members = {}
  <2>1. /\ GroupLayout(p, id, [m \in members |-> f[m]]).bounds
             = Rect(PlaceX(p, id), PlaceY(p, id), [w |-> 0, h |-> 0])
        /\ GroupLayout(q, id, [m \in members |-> g[m]]).bounds
             = Rect(PlaceX(q, id), PlaceY(q, id), [w |-> 0, h |-> 0])
    BY <1>1, <1>2 DEF GroupLayout, PlaceX, PlaceY
  <2>. QED
    BY <1>1, <2>1 DEF Rect, Shifted, GroupMoves
<1>3. CASE members # {}
  <2>1. IsFiniteSet(members)
    BY FS_Subset DEF Children, IsBoardPage
  <2>2. old = {[c \in members |-> f[c]][m].bounds : m \in members}
    OBVIOUS
  <2>3. new = {[c \in members |-> g[c]][m].bounds : m \in members}
    OBVIOUS
  <2>4. /\ GroupLayout(p, id, [m \in members |-> f[m]]).bounds = RectUnion(old)
        /\ GroupLayout(q, id, [m \in members |-> g[m]]).bounds = RectUnion(new)
    BY <1>1, <1>3, <2>2, <2>3 DEF GroupLayout
  <2>5. (\A m \in members : F[m] \in Rects) /\ (\A m \in members : G[m] = Shifted(F[m], dx, dy))
    OBVIOUS
  <2>6. RectUnion(new) = Shifted(RectUnion(old), dx, dy)
    <3> HIDE DEF members, F, G
    <3>. QED
      BY <1>3, <2>1, <2>5, UnionShift
  <2> HIDE DEF old, new, members
  <2>. QED
    BY <1>1, <2>4, <2>6 DEF members, GroupMoves
<1>. QED
  BY <1>2, <1>3

\* What hangs on one thing that moves moves with it.
LEMMA EntriesShift ==
  ASSUME LayoutAssumption, NEW p, IsBoardPage(p), NEW q, IsBoardPage(q), NEW rws, AreRows(rws),
         NEW moves, AreMoves(moves), MovedBy(p, q, moves), Separate(p, DOMAIN moves),
         NEW f, Computes(f, p, rws), NEW g, Computes(g, q, rws), NEW d \in DOMAIN moves,
         NEW id \in OnPage(p), Chain(p, id) \cap DOMAIN moves = {d}
  PROVE  g[id].bounds = Shifted(f[id].bounds, moves[d].dx, moves[d].dy)
<1> DEFINE D == DOMAIN moves
           dx == moves[d].dx
           dy == moves[d].dy
           wrong(c) == g[c].bounds # Shifted(f[c].bounds, dx, dy)
           bad == {c \in OnPage(p) : Chain(p, c) \cap D = {d} /\ wrong(c)}
<1>1. SUFFICES ASSUME bad # {}
               PROVE  FALSE
  OBVIOUS
<1>2. OnPage(p) \in SUBSET DOMAIN p /\ OnPage(q) = OnPage(p) /\ SameTree(p, q)
      /\ \A c \in OnPage(p) : \A m \in Children(p, c) : m \in OnPage(p)
  BY OnPageIs, SameRelations DEF MovedBy
<1>3. PICK c \in bad : \A m \in bad : p[m].parent # c
  <2>1. bad \in SUBSET DOMAIN p /\ bad # {}
    BY <1>1, <1>2
  <2> HIDE DEF bad
  <2>. QED
    BY <2>1, HoldersHaveBottom DEF IsBoardPage
<1>4. c \in OnPage(p) /\ c \in DOMAIN p /\ Chain(p, c) \cap D = {d} /\ wrong(c)
  BY <1>2, <1>3
<1>5. dx \in Int /\ dy \in Int
  BY DEF AreMoves, MoveRecords
<1>6. PlaceX(q, c) = PlaceX(p, c) + dx /\ PlaceY(q, c) = PlaceY(p, c) + dy
  BY <1>4, CarriedPlaces
<1>7. f[c] = BodyOf(p, rws, c, f) /\ g[c] = BodyOf(q, rws, c, g)
  BY <1>2, <1>4 DEF Computes
<1>8. q[c].type = p[c].type
  BY <1>2, <1>4 DEF SameTree
<1>9. ASSUME NEW m \in Children(p, c)
      PROVE  f[m].bounds \in Rects /\ g[m].bounds = Shifted(f[m].bounds, dx, dy)
  <2>1. m \in OnPage(p) /\ p[m].parent = c /\ Chain(p, m) \cap D = {d}
    <3>1. Chain(p, m) \cap D = {d}
      BY <1>4, CarriedChild
    <3>2. m \in DOMAIN p /\ p[m].parent = c
      BY DEF Children
    <3>3. m \in OnPage(p)
      BY <1>2, <1>4
    <3>. QED
      BY <3>1, <3>2, <3>3
  <2>2. m \notin bad
    <3> HIDE DEF bad
    <3>. QED
      BY <1>3, <2>1
  <2>3. ~wrong(m)
    BY <2>1, <2>2
  <2>4. f[m] \in Entries
    BY <2>1 DEF Computes
  <2>. QED
    BY <2>3, <2>4 DEF Entries
<1> HIDE DEF bad, dx, dy, D
<1>10. CASE p[c].type = "group"
  <2>1. GroupMoves(p, q, c, f, g, dx, dy)
    <3>1. \A m \in Children(p, c) : f[m].bounds \in Rects
      BY <1>9
    <3>2. \A m \in Children(p, c) : g[m].bounds = Shifted(f[m].bounds, dx, dy)
      BY <1>9
    <3> HIDE DEF wrong
    <3>. QED
      BY <1>2, <1>4, <1>5, <1>6, <3>1, <3>2, GroupShift
  <2>. QED
    BY <1>4, <1>7, <1>8, <1>10, <2>1 DEF BodyOf, GroupMoves
<1>11. CASE p[c].type # "group"
  <2>1. BoxLayout(q, rws, c).bounds = Shifted(BoxLayout(p, rws, c).bounds, dx, dy)
    BY <1>2, <1>4, <1>6, BoxShift
  <2>. QED
    BY <1>4, <1>7, <1>8, <1>11, <2>1 DEF BodyOf
<1>. QED
  BY <1>10, <1>11

\* The layout after moves is the one before, with what moved shifted.
LayoutMoves(layout, after, p, moves) ==
  /\ DOMAIN after = DOMAIN layout
  /\ \A id \in DOMAIN layout : p[id].type # "group" /\ Chain(p, id) \cap DOMAIN moves = {} =>
       after[id].bounds = layout[id].bounds
  /\ \A id \in DOMAIN layout \cap DOMAIN moves :
       after[id].bounds = Shifted(layout[id].bounds, moves[id].dx, moves[id].dy)

LEMMA LayoutShift ==
  ASSUME LayoutAssumption, NEW p, IsBoardPage(p), NEW q, IsBoardPage(q), NEW rws, AreRows(rws),
         NEW moves, AreMoves(moves), MovedBy(p, q, moves), Separate(p, DOMAIN moves)
  PROVE  LayoutMoves(LayoutOf(p, rws), LayoutOf(q, rws), p, moves)
<1> DEFINE L == LayoutOf(p, rws)
           M == LayoutOf(q, rws)
<1>1. SameTree(p, q) /\ OnPage(q) = OnPage(p) /\ OnPage(p) \in SUBSET DOMAIN p
  BY OnPageIs, SameRelations DEF MovedBy
<1>2. PICK f : Computes(f, p, rws)
  BY LayoutRecursion
<1>3. PICK g : Computes(g, q, rws)
  BY LayoutRecursion
<1>4. /\ DOMAIN L = {b \in OnPage(p) : p[b].type # "arrow"}
      /\ DOMAIN M = {b \in OnPage(q) : q[b].type # "arrow"}
      /\ \A id \in DOMAIN L : L[id] = IF p[id].type = "group" THEN f[id] ELSE BoxLayout(p, rws, id)
      /\ \A id \in DOMAIN M : M[id] = IF q[id].type = "group" THEN g[id] ELSE BoxLayout(q, rws, id)
  BY <1>2, <1>3 DEF Computes
<1>5. \A id \in OnPage(p) : q[id].type = p[id].type
  BY <1>1 DEF SameTree
<1>6. DOMAIN M = DOMAIN L
  BY <1>1, <1>4, <1>5
<1>7. ASSUME NEW id \in DOMAIN L
      PROVE  /\ id \in OnPage(p) /\ id \in DOMAIN p /\ q[id].type = p[id].type
             /\ L[id] = f[id] /\ M[id] = g[id]
             /\ L[id] = IF p[id].type = "group" THEN f[id] ELSE BoxLayout(p, rws, id)
             /\ M[id] = IF p[id].type = "group" THEN g[id] ELSE BoxLayout(q, rws, id)
  <2>1. id \in OnPage(p) /\ id \in DOMAIN p /\ q[id].type = p[id].type /\ id \in DOMAIN M
    BY <1>1, <1>4, <1>5, <1>6
  <2>2. f[id] = BodyOf(p, rws, id, f) /\ g[id] = BodyOf(q, rws, id, g)
    BY <1>1, <1>2, <1>3, <2>1 DEF Computes
  <2>3. /\ L[id] = IF p[id].type = "group" THEN f[id] ELSE BoxLayout(p, rws, id)
        /\ M[id] = IF p[id].type = "group" THEN g[id] ELSE BoxLayout(q, rws, id)
    BY <1>4, <2>1
  <2>4. p[id].type # "group" => f[id] = BoxLayout(p, rws, id) /\ g[id] = BoxLayout(q, rws, id)
    BY <2>1, <2>2 DEF BodyOf
  <2> HIDE DEF L, M
  <2>. QED
    BY <2>1, <2>3, <2>4
<1>8. ASSUME NEW id \in DOMAIN L, p[id].type # "group", Chain(p, id) \cap DOMAIN moves = {}
      PROVE  M[id].bounds = L[id].bounds
  <2>1. PlaceX(q, id) = PlaceX(p, id) /\ PlaceY(q, id) = PlaceY(p, id)
    BY <1>7, <1>8, UncarriedPlaces
  <2>2. SizeOf(q[id], rws[id]) = SizeOf(p[id], rws[id])
    <3>1. /\ q[id].type = p[id].type /\ q[id].text = p[id].text
          /\ q[id].w = p[id].w /\ q[id].h = p[id].h
      BY <1>1, <1>7, <1>8 DEF SameTree
    <3>. QED
      BY <3>1 DEF SizeOf, IsMeasured
  <2>3. BoxLayout(q, rws, id).bounds = BoxLayout(p, rws, id).bounds
    BY <2>1, <2>2 DEF BoxLayout, PlaceX, PlaceY
  <2>. QED
    BY <1>7, <1>8, <2>3
<1>9. ASSUME NEW id \in DOMAIN L \cap DOMAIN moves
      PROVE  M[id].bounds = Shifted(L[id].bounds, moves[id].dx, moves[id].dy)
  <2>1. Chain(p, id) \cap DOMAIN moves = {id}
    BY DEF Separate, Chain
  <2>2. id \in OnPage(p) /\ L[id] = f[id] /\ M[id] = g[id]
    BY <1>7, <1>9
  <2>3. g[id].bounds = Shifted(f[id].bounds, moves[id].dx, moves[id].dy)
    BY <1>2, <1>3, <1>9, <2>1, <2>2, EntriesShift
  <2>. QED
    BY <2>2, <2>3
<1>. QED
  BY <1>6, <1>8, <1>9 DEF LayoutMoves

-----------------------------------------------------------------------------
(* PlacedClear, of any page and any moves.                                  *)

\* PlacedClear, of any page.
ClearOn(p, rws, placed, region, gap) ==
  LET layout == LayoutOf(p, rws)
  IN  /\ \A id \in placed :
           /\ \A b \in DOMAIN layout :
                p[b].type # "group" /\ (\A m \in placed : b \notin Related(p, m)) =>
                  ApartBy(layout[id].bounds, layout[b].bounds, gap)
           /\ \A other \in placed \ {id} :
                ApartBy(layout[id].bounds, layout[other].bounds, gap)
      /\ region # NoRegion =>
           \A b \in DOMAIN layout :
             p[b].type # "group" => ApartBy(region, layout[b].bounds, gap)

LEMMA ClearIs == PlacedClear <=> ClearOn(txn.page, rows, txn.placed, txn.region, txn.spacing)
BY DEF PlacedClear, ClearOn, ApartBy

LEMMA NothingPlaced == \A p, rws, gap : ClearOn(p, rws, {}, NoRegion, gap)
BY DEF ClearOn

LEMMA ArrangeMoves ==
  ASSUME TxnFields, IsBoardPage(txn.page), NEW moves, AreMoves(moves), NEW placed,
         NEW gap, Arrange(moves, placed, gap)
  PROVE  /\ MovedBy(txn.page, txn'.page, moves)
         /\ txn'.placed = placed /\ txn'.region = NoRegion /\ txn'.open = txn.open
         /\ txn'.spacing = gap
<1> DEFINE still == {id \in DOMAIN moves : moves[id].dx = 0 /\ moves[id].dy = 0}
           moved == DOMAIN moves \ still
           after == [id \in DOMAIN txn.page |->
                       IF id \in moved THEN Translated(txn.page[id], moves[id])
                                       ELSE txn.page[id]]
           statuses == txn.statuses \cup {VerifyLayout(after, LayoutOf(after, rows), DOMAIN moves)}
<1>1. txn' = [txn EXCEPT !.page = after, !.affected = txn.affected \cup moved,
                         !.touched = txn.touched \cup DOMAIN moves,
                         !.ran = TRUE, !.statuses = statuses,
                         !.placed = placed, !.region = NoRegion, !.spacing = gap]
  BY Zenon DEF Arrange
<1>2. ASSUME NEW id \in DOMAIN txn.page
      PROVE  /\ /\ after[id].parent = txn.page[id].parent /\ after[id].type = txn.page[id].type
                /\ after[id].text = txn.page[id].text
                /\ after[id].w = txn.page[id].w /\ after[id].h = txn.page[id].h
             /\ after[id].x = txn.page[id].x + (IF id \in DOMAIN moves THEN moves[id].dx ELSE 0)
             /\ after[id].y = txn.page[id].y + (IF id \in DOMAIN moves THEN moves[id].dy ELSE 0)
  <2> DEFINE shape == txn.page[id]
  <2>1. shape.x \in Int /\ shape.y \in Int /\ DOMAIN shape = ShapeFields
    BY DEF IsBoardPage, IsPlaced, IsShape
  <2>2. CASE id \in moved
    <3>1. after[id] = Translated(shape, moves[id]) /\ id \in DOMAIN moves
      BY <2>2
    <3> HIDE DEF after, shape
    <3>2. \A move : /\ Translated(shape, move).x = shape.x + move.dx
                    /\ Translated(shape, move).y = shape.y + move.dy
                    /\ Translated(shape, move).parent = shape.parent
                    /\ Translated(shape, move).type = shape.type
                    /\ Translated(shape, move).text = shape.text
                    /\ Translated(shape, move).w = shape.w
                    /\ Translated(shape, move).h = shape.h
      BY <2>1 DEF Translated, ShapeFields
    <3>. QED
      BY <3>1, <3>2 DEF shape
  <2>3. CASE id \notin moved
    <3>1. after[id] = shape
      BY <2>3
    <3>2. id \in DOMAIN moves => moves[id].dx = 0 /\ moves[id].dy = 0
      BY <2>3
    <3>. QED
      BY <2>1, <3>1, <3>2
  <2>. QED
    BY <2>2, <2>3
<1>3. DOMAIN after = DOMAIN txn.page
  OBVIOUS
<1> HIDE DEF after, moved, statuses
<1>4. MovedBy(txn.page, after, moves)
  BY <1>2, <1>3 DEF MovedBy, SameTree
<1>5. /\ txn'.page = after /\ txn'.placed = placed /\ txn'.region = NoRegion
      /\ txn'.open = txn.open /\ txn'.spacing = gap
  BY <1>1 DEF TxnFields, NoTxn
<1>. QED
  BY <1>4, <1>5

\* What is unrelated to all that moves does not move.
LEMMA UnrelatedStays ==
  ASSUME NEW p, IsBoardPage(p), NEW D \in SUBSET DOMAIN p, NEW b \in DOMAIN p,
         \A d \in D : b \notin Related(p, d)
  PROVE  Chain(p, b) \cap D = {}
BY DEF Related, DescendantsOf, AncestorsOf, Chain

LEMMA MovableIsSeparate ==
  ASSUME TxnFields, IsBoardPage(txn.page), NEW layout, DOMAIN layout \subseteq DOMAIN txn.page,
         NEW ids, Movable(layout, ids)
  PROVE  Separate(txn.page, ids)
BY DEF Movable, Separate, AncestorsOf

\* Moves that lead where nothing is but what moves with them, each apart.
Target(layout, moves, id) == Shifted(layout[id].bounds, moves[id].dx, moves[id].dy)

ClearMoves(p, layout, moves, gap) ==
  /\ \A id \in DOMAIN moves : \A b \in BlockersFor(p, layout, DOMAIN moves) :
       ApartBy(Target(layout, moves, id), b, gap)
  /\ \A id \in DOMAIN moves : \A other \in DOMAIN moves \ {id} :
       ApartBy(Target(layout, moves, id), Target(layout, moves, other), gap)

LEMMA ArrangedClear ==
  ASSUME LayoutAssumption, TxnFields, IsBoardPage(txn.page), AreRows(rows),
         NEW moves, AreMoves(moves), NEW gap, Movable(LayoutOf(txn.page, rows), DOMAIN moves),
         ClearMoves(txn.page, LayoutOf(txn.page, rows), moves, gap),
         Arrange(moves, DOMAIN moves, gap)
  PROVE  ClearOn(txn'.page, rows, txn'.placed, txn'.region, txn'.spacing)
<1> DEFINE p == txn.page
           q == txn'.page
           L == LayoutOf(p, rows)
           M == LayoutOf(q, rows)
           D == DOMAIN moves
<1>1. MovedBy(p, q, moves) /\ txn'.placed = D /\ txn'.region = NoRegion
      /\ txn'.spacing = gap
  BY ArrangeMoves
<1>2. IsBoardPage(p) /\ IsBoardPage(q)
  BY ArrangePlaced
<1>3. IsLayout(L, p, rows)
  BY <1>2, LayoutIs
<1>4. DOMAIN L \subseteq DOMAIN p /\ D \subseteq DOMAIN L
  BY <1>3 DEF IsLayout, Movable
<1>5. Separate(p, D)
  BY <1>4, MovableIsSeparate
<1>6. LayoutMoves(L, M, p, moves)
  <2> HIDE DEF p, q
  <2>. QED
    BY <1>1, <1>2, <1>5, LayoutShift
<1>7. \A id : Related(q, id) = Related(p, id)
  <2> HIDE DEF p, q
  <2>. QED
    BY <1>1, <1>2, SameRelations DEF MovedBy
<1>8. \A b \in DOMAIN p : q[b].type = p[b].type
  BY <1>1 DEF MovedBy, SameTree
<1>9. ClearMoves(p, L, moves, gap)
  OBVIOUS
<1> HIDE DEF p, q, L, M, D
<1>10. \A id \in D : M[id].bounds = Target(L, moves, id)
  BY <1>4, <1>6 DEF LayoutMoves, Target, D
<1>11. ASSUME NEW id \in D, NEW b \in DOMAIN M, q[b].type # "group",
              \A m \in D : b \notin Related(q, m)
       PROVE  ApartBy(M[id].bounds, M[b].bounds, gap)
  <2>1. b \in DOMAIN L /\ b \in DOMAIN p /\ p[b].type # "group" /\ \A m \in D : b \notin Related(p, m)
    BY <1>4, <1>6, <1>7, <1>8, <1>11 DEF LayoutMoves
  <2>2. D \in SUBSET DOMAIN p
    BY <1>4
  <2>3. Chain(p, b) \cap D = {}
    BY <1>2, <2>1, <2>2, UnrelatedStays
  <2>4. M[b].bounds = L[b].bounds
    BY <1>6, <2>1, <2>3 DEF LayoutMoves, D
  <2>5. L[b].bounds \in BlockersFor(p, L, D)
    BY <2>1 DEF BlockersFor
  <2>. QED
    BY <1>9, <1>10, <1>11, <2>4, <2>5 DEF ClearMoves, D
<1>12. ASSUME NEW id \in D, NEW other \in D \ {id}
       PROVE  ApartBy(M[id].bounds, M[other].bounds, gap)
  BY <1>9, <1>10, <1>12 DEF ClearMoves, D
<1>13. ClearOn(q, rows, D, NoRegion, gap)
  BY <1>11, <1>12 DEF ClearOn, M
<1>. QED
  BY <1>1, <1>13 DEF p, q

-----------------------------------------------------------------------------
(* Where placed things end up.                                              *)

\* There are no more blockers than shapes.
LEMMA FewBlockers ==
  ASSUME NEW p, IsBoardPage(p), NEW rws, NEW layout, IsLayout(layout, p, rws), NEW moving
  PROVE  Cardinality(BlockersFor(p, layout, moving)) <= Cardinality(DOMAIN p)
<1> DEFINE S == {b \in DOMAIN layout : /\ p[b].type # "group"
                                       /\ \A m \in moving : b \notin Related(p, m)}
           T == {layout[s].bounds : s \in S}
           f == [s \in S |-> layout[s].bounds]
<1>1. T = BlockersFor(p, layout, moving)
  BY DEF BlockersFor
<1>2. S \subseteq DOMAIN p /\ IsFiniteSet(DOMAIN p)
  BY DEF IsLayout, IsBoardPage
<1>3. f \in Surjection(S, T)
  BY DEF Surjection
<1> HIDE DEF S, T, f
<1>4. IsFiniteSet(S) /\ Cardinality(S) <= Cardinality(DOMAIN p)
  BY <1>2, FS_Subset
<1>5. IsFiniteSet(T) /\ Cardinality(T) <= Cardinality(S)
  BY <1>3, <1>4, FS_Surjection
<1>6. Cardinality(T) \in Nat /\ Cardinality(S) \in Nat /\ Cardinality(DOMAIN p) \in Nat
  BY <1>2, <1>4, <1>5, FS_CardinalityType
<1>7. Cardinality(T) <= Cardinality(DOMAIN p)
  BY <1>4, <1>5, <1>6
<1>. QED
  BY <1>1, <1>7

LEMMA ShiftedIs ==
  ASSUME NEW r \in Rects, NEW dx \in Int, NEW dy \in Int
  PROVE  Shifted(r, dx, dy) \in Rects
<1>1. r.x + dx \in Int /\ r.y + dy \in Int /\ r.w \in Nat /\ r.h \in Nat
  BY DEF Rects
<1>. QED
  BY <1>1 DEF Shifted, Rects

\* A move to a place leads there.
LEMMA MovesThere ==
  ASSUME NEW rect \in Rects, NEW there \in Rects, there.w = rect.w, there.h = rect.h
  PROVE  Shifted(rect, MoveTo(rect, there.x, there.y).dx, MoveTo(rect, there.x, there.y).dy) = there
<1>1. rect.x \in Int /\ rect.y \in Int /\ there.x \in Int /\ there.y \in Int
  BY DEF Rects
<1>2. /\ MoveTo(rect, there.x, there.y).dx = there.x - rect.x
      /\ MoveTo(rect, there.x, there.y).dy = there.y - rect.y
  BY DEF MoveTo
<1>3. /\ rect.x + MoveTo(rect, there.x, there.y).dx = there.x
      /\ rect.y + MoveTo(rect, there.x, there.y).dy = there.y
  BY <1>1, <1>2
<1>4. there = [x |-> there.x, y |-> there.y, w |-> there.w, h |-> there.h]
  BY DEF Rects
<1>. QED
  BY <1>3, <1>4 DEF Shifted

LEMMA SlidesClear ==
  ASSUME LayoutAssumption, NEW p, IsBoardPage(p), Cardinality(DOMAIN p) <= MaxSlides,
         NEW rws, NEW layout, IsLayout(layout, p, rws), NEW moving,
         NEW start \in Rects, NEW axis \in {"x", "y"}, NEW gap \in Nat,
         NEW end, end = SlideClear(BlockersFor(p, layout, moving), start, axis, gap)
  PROVE  EndsClear(end, BlockersFor(p, layout, moving), start, axis, gap)
<1> DEFINE blockers == BlockersFor(p, layout, moving)
<1>1. IsFiniteSet(blockers) /\ \A b \in blockers : b \in Rects
  BY BlockersAre
<1>2. Cardinality(blockers) <= MaxSlides
  <2>1. Cardinality(blockers) <= Cardinality(DOMAIN p)
    BY FewBlockers
  <2>2. Cardinality(blockers) \in Nat /\ Cardinality(DOMAIN p) \in Nat /\ MaxSlides \in Nat
    BY <1>1, FS_CardinalityType DEF IsBoardPage, LayoutAssumption
  <2> HIDE DEF blockers
  <2>. QED
    BY <2>1, <2>2
<1>3. gap \in Int
  OBVIOUS
<1>4. end = SlideClear(blockers, start, axis, gap)
  OBVIOUS
<1> HIDE DEF blockers
<1>5. EndsClear(SlideClear(blockers, start, axis, gap), blockers, start, axis, gap)
  BY <1>1, <1>2, <1>3, SlideEndsClear
<1>. QED
  BY <1>4, <1>5 DEF blockers

AloneClear(p, layout, id, place, gap) ==
  ClearMoves(p, layout, [m \in {id} |-> MoveTo(layout[id].bounds, place.x, place.y)], gap)

\* place_below and place_right_of end clear of all that does not move with them.
LEMMA PlacedAlone ==
  ASSUME LayoutAssumption, NEW p, IsBoardPage(p), Cardinality(DOMAIN p) <= MaxSlides,
         NEW rws, NEW layout, IsLayout(layout, p, rws),
         NEW id \in DOMAIN layout, NEW wanted \in Rects, wanted.w = layout[id].bounds.w,
         wanted.h = layout[id].bounds.h, NEW axis \in {"x", "y"}, NEW gap \in Nat,
         NEW cleared, cleared = SlideClear(BlockersFor(p, layout, {id}), wanted, axis, gap)
  PROVE  AloneClear(p, layout, id, cleared, gap)
<1> DEFINE blockers == BlockersFor(p, layout, {id})
           moves == [m \in {id} |-> MoveTo(layout[id].bounds, cleared.x, cleared.y)]
<1>0. EndsClear(cleared, blockers, wanted, axis, gap)
  <2>1. cleared = SlideClear(blockers, wanted, axis, gap)
    OBVIOUS
  <2>. QED
    BY <2>1, SlidesClear
<1>3. layout[id].bounds \in Rects
  BY DEF IsLayout
<1> HIDE DEF blockers
<1>4. /\ cleared \in Rects /\ cleared.w = wanted.w /\ cleared.h = wanted.h
      /\ \A b \in blockers : ApartBy(cleared, b, gap)
  BY <1>0 DEF EndsClear
<1>5. Target(layout, moves, id) = cleared
  <2>1. cleared.w = layout[id].bounds.w /\ cleared.h = layout[id].bounds.h
    BY <1>4
  <2>2. moves[id] = MoveTo(layout[id].bounds, cleared.x, cleared.y)
    OBVIOUS
  <2> HIDE DEF moves
  <2>. QED
    BY <1>3, <1>4, <2>1, <2>2, MovesThere DEF Target
<1>6. DOMAIN moves = {id}
  OBVIOUS
<1> HIDE DEF moves
<1>7. ClearMoves(p, layout, moves, gap)
  BY <1>4, <1>5, <1>6 DEF ClearMoves, blockers
<1>. QED
  BY <1>7 DEF moves, AloneClear

MovesOneClear(p, layout, moves, id, gap) ==
  ClearMoves(p, layout, moves, gap) /\ DOMAIN moves = {id}

LEMMA PlaceMovesClear ==
  ASSUME LayoutAssumption, NEW p, IsBoardPage(p), Cardinality(DOMAIN p) <= MaxSlides,
         NEW rws, NEW layout, IsLayout(layout, p, rws),
         NEW id \in DOMAIN layout, NEW target \in DOMAIN layout, NEW align \in Aligns,
         NEW gap \in Nat
  PROVE  /\ MovesOneClear(p, layout, PlaceBelow(p, layout, id, target, align, gap), id, gap)
         /\ MovesOneClear(p, layout, PlaceRightOf(p, layout, id, target, align, gap), id, gap)
<1> DEFINE rect == layout[id].bounds
           beside == layout[target].bounds
           blockers == BlockersFor(p, layout, {id})
           below == [rect EXCEPT !.x = beside.x + Offset(beside.w, rect.w, align),
                                 !.y = Bottom(beside) + gap]
           right == [rect EXCEPT !.x = Right(beside) + gap,
                                 !.y = beside.y + Offset(beside.h, rect.h, align)]
<1>1. rect \in Rects /\ beside \in Rects
  BY DEF IsLayout
<1>2. /\ Offset(beside.w, rect.w, align) \in Int /\ Offset(beside.h, rect.h, align) \in Int
      /\ Bottom(beside) \in Int /\ Right(beside) \in Int /\ gap \in Int
      /\ beside.x \in Int /\ beside.y \in Int
  <2> HIDE DEF rect, beside, blockers, below, right
  <2>1. \A r \in Rects : /\ r.x \in Int /\ r.y \in Int /\ r.w \in Int /\ r.h \in Int
                         /\ Bottom(r) \in Int /\ Right(r) \in Int
    BY DEF Rects, Bottom, Right
  <2>2. gap \in Int
    OBVIOUS
  <2>3. \A a, b \in Int : Offset(a, b, align) \in Int
    BY OffsetAlignIs
  <2>. QED
    BY <1>1, <2>1, <2>2, <2>3
<1>3. /\ below \in Rects /\ below.w = rect.w /\ below.h = rect.h
      /\ right \in Rects /\ right.w = rect.w /\ right.h = rect.h
  <2> HIDE DEF rect, beside
  <2>1. \A x, y \in Int : /\ [rect EXCEPT !.x = x, !.y = y] \in Rects
                          /\ [rect EXCEPT !.x = x, !.y = y].w = rect.w
                          /\ [rect EXCEPT !.x = x, !.y = y].h = rect.h
    BY <1>1 DEF Rects
  <2>2. /\ beside.x + Offset(beside.w, rect.w, align) \in Int
        /\ beside.y + Offset(beside.h, rect.h, align) \in Int
        /\ Bottom(beside) + gap \in Int /\ Right(beside) + gap \in Int
    BY <1>2
  <2>. QED
    BY <2>1, <2>2
<1> HIDE DEF beside, below, right
<1> DEFINE down == SlideClear(blockers, below, "y", gap)
           over == SlideClear(blockers, right, "x", gap)
<1>4. /\ PlaceBelow(p, layout, id, target, align, gap) =
           [m \in {id} |-> MoveTo(rect, down.x, down.y)]
      /\ PlaceRightOf(p, layout, id, target, align, gap) =
           [m \in {id} |-> MoveTo(rect, over.x, over.y)]
  BY DEF PlaceBelow, PlaceRightOf, beside, below, right
<1>5. /\ down = SlideClear(BlockersFor(p, layout, {id}), below, "y", gap)
      /\ over = SlideClear(BlockersFor(p, layout, {id}), right, "x", gap)
  OBVIOUS
<1>6. below.w = layout[id].bounds.w /\ below.h = layout[id].bounds.h
  BY <1>3
<1>7. right.w = layout[id].bounds.w /\ right.h = layout[id].bounds.h
  BY <1>3
<1> HIDE DEF down, over, rect
<1>8. AloneClear(p, layout, id, down, gap)
  BY <1>3, <1>5, <1>6, PlacedAlone
<1>9. AloneClear(p, layout, id, over, gap)
  BY <1>3, <1>5, <1>7, PlacedAlone
<1>. QED
  BY <1>4, <1>8, <1>9 DEF AloneClear, rect, MovesOneClear

-----------------------------------------------------------------------------
(* Blocks.                                                                  *)

Within(a, b) ==
  /\ b.x <= a.x /\ Right(a) <= Right(b)
  /\ b.y <= a.y /\ Bottom(a) <= Bottom(b)

LEMMA RectInts ==
  \A r \in Rects : /\ r.x \in Int /\ r.y \in Int /\ r.w \in Nat /\ r.h \in Nat
                   /\ Right(r) \in Int /\ Bottom(r) \in Int
                   /\ Right(r) = r.x + r.w /\ Bottom(r) = r.y + r.h
BY DEF Rects, Right, Bottom

\* What is clear of a block is clear of its members.
LEMMA WithinApart ==
  ASSUME NEW a \in Rects, NEW b \in Rects, NEW block \in Rects, NEW gap \in Int,
         Within(a, block), ApartBy(block, b, gap)
  PROVE  ApartBy(a, b, gap)
<1>1. /\ a.x \in Int /\ a.y \in Int /\ Right(a) \in Int /\ Bottom(a) \in Int
      /\ b.x \in Int /\ b.y \in Int /\ Right(b) \in Int /\ Bottom(b) \in Int
      /\ block.x \in Int /\ block.y \in Int /\ Right(block) \in Int /\ Bottom(block) \in Int
  BY RectInts
<1>. QED
  BY <1>1 DEF Within, ApartBy

LEMMA ShiftedIsRead ==
  ASSUME NEW r \in Rects, NEW dx \in Int, NEW dy \in Int
  PROVE  /\ Shifted(r, dx, dy).x = r.x + dx /\ Shifted(r, dx, dy).y = r.y + dy
         /\ Right(Shifted(r, dx, dy)) = Right(r) + dx
         /\ Bottom(Shifted(r, dx, dy)) = Bottom(r) + dy
<1>1. r.x \in Int /\ r.y \in Int /\ r.w \in Int /\ r.h \in Int
  BY DEF Rects
<1>. QED
  BY <1>1 DEF Shifted, Right, Bottom

LEMMA ShiftApart ==
  ASSUME NEW a \in Rects, NEW b \in Rects, NEW gap \in Int, NEW dx \in Int, NEW dy \in Int,
         ApartBy(a, b, gap)
  PROVE  ApartBy(Shifted(a, dx, dy), Shifted(b, dx, dy), gap)
<1>1. /\ a.x \in Int /\ a.y \in Int /\ Right(a) \in Int /\ Bottom(a) \in Int
      /\ b.x \in Int /\ b.y \in Int /\ Right(b) \in Int /\ Bottom(b) \in Int
  BY RectInts
<1> DEFINE s == Shifted(a, dx, dy)
           t == Shifted(b, dx, dy)
<1>2. /\ s.x = a.x + dx /\ s.y = a.y + dy /\ Right(s) = Right(a) + dx /\ Bottom(s) = Bottom(a) + dy
      /\ t.x = b.x + dx /\ t.y = b.y + dy /\ Right(t) = Right(b) + dx /\ Bottom(t) = Bottom(b) + dy
  BY ShiftedIsRead
<1> HIDE DEF s, t
<1>3. ApartBy(s, t, gap)
  BY <1>1, <1>2 DEF ApartBy
<1>. QED
  BY <1>3 DEF s, t

\* What lies in a block lies in it after it slid down.
LEMMA WithinSlid ==
  ASSUME NEW a \in Rects, NEW block \in Rects, NEW end \in Rects, Within(a, block),
         end.x = block.x, end.w = block.w, end.h = block.h
  PROVE  Within(Shifted(a, 0, end.y - block.y), end)
<1> DEFINE fall == end.y - block.y
<1>1. /\ a.x \in Int /\ a.y \in Int /\ Right(a) \in Int /\ Bottom(a) \in Int
      /\ block.x \in Int /\ block.y \in Int /\ block.w \in Int /\ block.h \in Int
      /\ Right(block) = block.x + block.w /\ Bottom(block) = block.y + block.h
      /\ end.y \in Int /\ Right(end) = end.x + end.w /\ Bottom(end) = end.y + end.h
  BY RectInts
<1>2. fall \in Int /\ end.y = block.y + fall
  BY <1>1
<1> HIDE DEF fall
<1> DEFINE s == Shifted(a, 0, fall)
<1>3. s.x = a.x + 0 /\ s.y = a.y + fall /\ Right(s) = Right(a) + 0 /\ Bottom(s) = Bottom(a) + fall
  BY <1>2, ShiftedIsRead
<1> HIDE DEF s
<1>4. Within(s, end)
  BY <1>1, <1>2, <1>3 DEF Within
<1>. QED
  BY <1>4 DEF s, fall

EachApart(layout, moves, gap) ==
  \A id \in DOMAIN moves : \A other \in DOMAIN moves \ {id} :
    ApartBy(Target(layout, moves, id), Target(layout, moves, other), gap)

\* The block that clearBlock moves.
BlockOf(layout, moves) ==
  RectUnion({[layout[id].bounds EXCEPT !.x = @ + moves[id].dx, !.y = @ + moves[id].dy]
               : id \in DOMAIN moves})

LEMMA BlockIs ==
  ASSUME NEW p, NEW rws, NEW layout, IsLayout(layout, p, rws),
         NEW moves, DOMAIN moves \subseteq DOMAIN layout, DOMAIN moves # {}, AreMoves(moves)
  PROVE  /\ BlockOf(layout, moves) \in Rects
         /\ \A id \in DOMAIN moves :
              /\ Target(layout, moves, id) \in Rects
              /\ Within(Target(layout, moves, id), BlockOf(layout, moves))
<1> DEFINE f == [id \in DOMAIN moves |-> [layout[id].bounds EXCEPT !.x = @ + moves[id].dx,
                                                                   !.y = @ + moves[id].dy]]
           T == {f[id] : id \in DOMAIN moves}
<1>1. T = {[layout[id].bounds EXCEPT !.x = @ + moves[id].dx, !.y = @ + moves[id].dy]
             : id \in DOMAIN moves}
  OBVIOUS
<1>2. \A id \in DOMAIN moves : f[id] \in Rects /\ f[id] = Target(layout, moves, id)
  <2>1. ASSUME NEW r \in Rects, NEW m \in MoveRecords
        PROVE  /\ [r EXCEPT !.x = @ + m.dx, !.y = @ + m.dy] \in Rects
               /\ [r EXCEPT !.x = @ + m.dx, !.y = @ + m.dy] = Shifted(r, m.dx, m.dy)
    <3>1. r.x + m.dx \in Int /\ r.y + m.dy \in Int
      BY DEF MoveRecords, Rects
    <3>2. ASSUME NEW a \in Int, NEW b \in Int
          PROVE  [r EXCEPT !.x = a, !.y = b] = [x |-> a, y |-> b, w |-> r.w, h |-> r.h]
      <4> DEFINE s == [r EXCEPT !.x = a, !.y = b]
      <4>1. s \in Rects
        BY DEF Rects
      <4>2. s.x = a /\ s.y = b /\ s.w = r.w /\ s.h = r.h
        BY DEF Rects
      <4> HIDE DEF s
      <4>3. s = [x |-> s.x, y |-> s.y, w |-> s.w, h |-> s.h]
        BY <4>1 DEF Rects
      <4>. QED
        BY <4>2, <4>3 DEF s
    <3>3. [r EXCEPT !.x = @ + m.dx, !.y = @ + m.dy] = Shifted(r, m.dx, m.dy)
      BY <3>1, <3>2 DEF Shifted
    <3>4. Shifted(r, m.dx, m.dy) \in Rects
      BY ShiftedIs DEF MoveRecords
    <3>. QED
      BY <3>3, <3>4
  <2>2. \A id \in DOMAIN moves : layout[id].bounds \in Rects /\ moves[id] \in MoveRecords
    BY DEF AreMoves, IsLayout
  <2>. QED
    BY <2>1, <2>2 DEF Target
<1>3. IsFiniteSet(DOMAIN moves)
  BY FS_Subset DEF IsLayout
<1> HIDE DEF f
<1>4. IsFiniteSet(T) /\ T # {} /\ \A r \in T : r \in Rects
  BY <1>2, <1>3, FiniteImage
<1>5. \A id \in DOMAIN moves : f[id] \in T
  OBVIOUS
<1>6. RectUnion(T) = BlockOf(layout, moves)
  BY <1>1 DEF BlockOf
<1> HIDE DEF T
<1>7. /\ RectUnion(T) \in Rects
      /\ \A r \in T : Within(r, RectUnion(T))
  <2>1. RectUnion(T) \in Rects
    BY <1>4, RectUnionIs
  <2>2. \A r \in T :
              /\ RectUnion(T).x <= r.x /\ Right(r) <= Right(RectUnion(T))
              /\ RectUnion(T).y <= r.y /\ Bottom(r) <= Bottom(RectUnion(T))
    BY <1>4, RectUnionIs
  <2>. QED
    BY <2>1, <2>2 DEF Within
<1>. QED
  BY <1>2, <1>5, <1>6, <1>7

\* Apart by more than a gap is apart by the gap.
LEMMA WiderApart ==
  ASSUME NEW a \in Rects, NEW b \in Rects, NEW gap \in Nat, NEW clearance \in Nat,
         gap <= clearance, ApartBy(a, b, clearance)
  PROVE  ApartBy(a, b, gap)
<1>1. /\ a.x \in Int /\ a.y \in Int /\ Right(a) \in Int /\ Bottom(a) \in Int
      /\ b.x \in Int /\ b.y \in Int /\ Right(b) \in Int /\ Bottom(b) \in Int
  BY RectInts
<1>. QED
  BY <1>1 DEF ApartBy

\* row, stack and grid: the whole block ends clear of all that is not in it, by the
\* clearance, which is no less than the gap between its members.
LEMMA BlockMovesClear ==
  ASSUME LayoutAssumption, NEW p, IsBoardPage(p), Cardinality(DOMAIN p) <= MaxSlides,
         NEW rws, NEW layout, IsLayout(layout, p, rws),
         NEW moves, DOMAIN moves \subseteq DOMAIN layout, AreMoves(moves),
         NEW gap \in Nat, NEW clearance \in Nat, gap <= clearance, EachApart(layout, moves, gap)
  PROVE  ClearMoves(p, layout, ClearBlock(p, layout, moves, clearance), gap)
<1> DEFINE block == BlockOf(layout, moves)
           blockers == BlockersFor(p, layout, DOMAIN moves)
           end == SlideClear(blockers, block, "y", clearance)
           after == [id \in DOMAIN moves |-> [moves[id] EXCEPT !.dy = @ + end.y - block.y]]
<1>1. ClearBlock(p, layout, moves, clearance) = after
  BY DEF ClearBlock, BlockOf
<1>2. CASE DOMAIN moves = {}
  BY <1>1, <1>2 DEF ClearMoves
<1>3. CASE DOMAIN moves # {}
  <2>1. block \in Rects /\ \A id \in DOMAIN moves : /\ Target(layout, moves, id) \in Rects
                                                    /\ Within(Target(layout, moves, id), block)
    <3> HIDE DEF after
    <3>. QED
      BY <1>3, BlockIs
  <2>2. EndsClear(end, blockers, block, "y", clearance)
    <3>1. end = SlideClear(BlockersFor(p, layout, DOMAIN moves), block, "y", clearance) /\ block \in Rects
      BY <2>1
    <3> HIDE DEF end, block, after
    <3>. QED
      BY <3>1, SlidesClear
  <2>3. IsFiniteSet(blockers) /\ \A b \in blockers : b \in Rects
    BY BlockersAre
  <2> DEFINE fall == end.y - block.y
  <2>4. DOMAIN after = DOMAIN moves
        /\ \A id \in DOMAIN moves : after[id] = [moves[id] EXCEPT !.dy = @ + end.y - block.y]
    OBVIOUS
  <2> HIDE DEF after, end, block, blockers
  <2>5. /\ end \in Rects /\ end.x = block.x /\ end.w = block.w /\ end.h = block.h
        /\ \A b \in blockers : ApartBy(end, b, clearance)
    BY <2>2 DEF EndsClear
  <2>6. end.y \in Int /\ block.y \in Int /\ fall \in Int
    BY <2>1, <2>5, RectInts
  <2>7. \A id \in DOMAIN moves :
          Target(layout, after, id) = Shifted(Target(layout, moves, id), 0, fall)
    <3> SUFFICES ASSUME NEW id \in DOMAIN moves
                 PROVE  Target(layout, after, id) = Shifted(Target(layout, moves, id), 0, fall)
      OBVIOUS
    <3>1. moves[id].dx \in Int /\ moves[id].dy \in Int /\ moves[id] \in MoveRecords
      BY DEF AreMoves, MoveRecords
    <3>2. layout[id].bounds.x \in Int /\ layout[id].bounds.y \in Int
      BY RectInts DEF IsLayout
    <3>3. /\ after[id].dx = moves[id].dx
          /\ after[id].dy = moves[id].dy + end.y - block.y
      BY <2>4, <3>1 DEF MoveRecords
    <3>4. after[id].dy = moves[id].dy + fall
      BY <2>6, <3>1, <3>3
    <3> HIDE DEF fall
    <3>5. /\ layout[id].bounds.x + after[id].dx = (layout[id].bounds.x + moves[id].dx) + 0
          /\ layout[id].bounds.y + after[id].dy = (layout[id].bounds.y + moves[id].dy) + fall
      BY <2>6, <3>1, <3>2, <3>3, <3>4
    <3>. QED
      BY <3>5 DEF Target, Shifted
  <2>8. \A id \in DOMAIN moves : /\ Target(layout, after, id) \in Rects
                                 /\ Within(Target(layout, after, id), end)
    <3> SUFFICES ASSUME NEW id \in DOMAIN moves
                 PROVE  /\ Target(layout, after, id) \in Rects
                        /\ Within(Target(layout, after, id), end)
      OBVIOUS
    <3> DEFINE t == Target(layout, moves, id)
    <3>1. t \in Rects /\ Within(t, block) /\ Target(layout, after, id) = Shifted(t, 0, fall)
      BY <2>1, <2>7
    <3> HIDE DEF t
    <3>2. Shifted(t, 0, fall) \in Rects
      <4> HIDE DEF fall
      <4>. QED
        BY <2>6, <3>1, ShiftedIs
    <3>3. Within(Shifted(t, 0, fall), end)
      BY <2>1, <2>5, <3>1, WithinSlid
    <3>. QED
      BY <3>1, <3>2, <3>3
  <2>9. gap \in Int /\ clearance \in Int /\ 0 \in Int
    OBVIOUS
  <2> HIDE DEF fall
  <2>10. ASSUME NEW id \in DOMAIN moves, NEW b \in blockers
         PROVE  ApartBy(Target(layout, after, id), b, gap)
    <3> DEFINE t == Target(layout, after, id)
    <3>1. t \in Rects /\ Within(t, end) /\ b \in Rects /\ end \in Rects
          /\ ApartBy(end, b, clearance)
      BY <2>3, <2>5, <2>8
    <3> HIDE DEF t
    <3>2. ApartBy(t, b, clearance)
      BY <2>9, <3>1, WithinApart
    <3>3. ApartBy(t, b, gap)
      BY <3>1, <3>2, WiderApart
    <3>. QED
      BY <3>3 DEF t
  <2>11. ASSUME NEW id \in DOMAIN moves, NEW other \in DOMAIN moves \ {id}
         PROVE  ApartBy(Target(layout, after, id), Target(layout, after, other), gap)
    <3>1. ApartBy(Target(layout, moves, id), Target(layout, moves, other), gap)
      BY DEF EachApart
    <3> DEFINE t == Target(layout, moves, id)
               u == Target(layout, moves, other)
    <3>2. t \in Rects /\ u \in Rects /\ ApartBy(t, u, gap)
      BY <2>1, <3>1
    <3>3. Target(layout, after, id) = Shifted(t, 0, fall) /\ Target(layout, after, other) = Shifted(u, 0, fall)
      BY <2>7
    <3> HIDE DEF t, u
    <3>4. ApartBy(Shifted(t, 0, fall), Shifted(u, 0, fall), gap)
      BY <2>6, <2>9, <3>2, ShiftApart, Zenon
    <3>. QED
      BY <3>3, <3>4
  <2>12. ClearMoves(p, layout, after, gap)
    BY <2>4, <2>10, <2>11 DEF ClearMoves, blockers
  <2>. QED
    BY <1>1, <2>12 DEF after
<1>. QED
  BY <1>2, <1>3

-----------------------------------------------------------------------------
(* The members of a row, a stack or a grid.                                 *)

\* A rectangle after a move.
Put(rect, move) == Shifted(rect, move.dx, move.dy)

\* Bands beside one another, each with room for what is in it and the gap: two
\* things in different bands are apart.
LEMMA BandsApart ==
  ASSUME NEW first \in Int, NEW last \in Int, NEW f, \A b \in first .. last : f[b] \in Nat,
         NEW c \in first .. last, NEW d \in first .. last, c # d,
         NEW x \in Int, NEW gap \in Int, NEW v \in Int, NEW w \in Int,
         v + gap <= f[c], w + gap <= f[d]
  PROVE  \/ x + SumFunctionOnSet(f, first .. d - 1) >= x + SumFunctionOnSet(f, first .. c - 1) + v + gap
         \/ x + SumFunctionOnSet(f, first .. c - 1) >= x + SumFunctionOnSet(f, first .. d - 1) + w + gap
<1> DEFINE sum(b) == SumFunctionOnSet(f, first .. b - 1)
<1>1. \A b \in first .. last : sum(b) \in Int /\ f[b] \in Int
  <2> SUFFICES ASSUME NEW b \in first .. last
               PROVE  sum(b) \in Int
    OBVIOUS
  <2>1. IsFiniteSet(first .. b - 1)
    <3>1. \A i, j \in Int : IsFiniteSet(i .. j)
      BY FS_Interval
    <3>. QED
      BY <3>1
  <2>2. \A i \in first .. b - 1 : f[i] \in Int
    OBVIOUS
  <2>. QED
    BY <2>1, <2>2, SumInt
<1>2. ASSUME NEW a \in first .. last, NEW b \in first .. last, a < b
      PROVE  sum(a) + f[a] <= sum(b)
  <2>1. a \in Int /\ b \in Int /\ first <= a /\ \A i \in first .. b - 1 : f[i] \in Nat
    BY <1>2
  <2>. QED
    BY <1>2, <2>1, SumSteps
<1> HIDE DEF sum
<1>3. sum(c) \in Int /\ sum(d) \in Int /\ f[c] \in Int /\ f[d] \in Int
  BY <1>1
<1>4. CASE c < d
  <2>1. sum(c) + f[c] <= sum(d)
    BY <1>2, <1>4
  <2>2. x + sum(d) >= x + sum(c) + v + gap
    BY <1>3, <2>1
  <2>. QED
    BY <2>2 DEF sum
<1>5. CASE d < c
  <2>1. sum(d) + f[d] <= sum(c)
    BY <1>2, <1>5
  <2>2. x + sum(c) >= x + sum(d) + w + gap
    BY <1>3, <2>1
  <2>. QED
    BY <2>2 DEF sum
<1>. QED
  BY <1>4, <1>5

\* Where a move puts a rectangle.
LEMMA PutAt ==
  ASSUME NEW rect \in Rects, NEW x \in Int, NEW y \in Int
  PROVE  /\ Put(rect, MoveTo(rect, x, y)).x = x /\ Put(rect, MoveTo(rect, x, y)).y = y
         /\ Right(Put(rect, MoveTo(rect, x, y))) = x + rect.w
         /\ Bottom(Put(rect, MoveTo(rect, x, y))) = y + rect.h
<1>1. rect.x \in Int /\ rect.y \in Int /\ rect.w \in Int /\ rect.h \in Int
  BY RectInts
<1>2. rect.x + (x - rect.x) = x /\ rect.y + (y - rect.y) = y
  BY <1>1
<1>. QED
  BY <1>2 DEF Put, Shifted, MoveTo, Right, Bottom

\* One is past the other, along the row.
Beside(a, b, gap) == b.x >= Right(a) + gap \/ a.x >= Right(b) + gap

LEMMA InLineApart ==
  ASSUME NEW rects, NEW n, IsLine(rects, n), NEW origin \in Rects,
         NEW align \in Aligns, NEW i \in 1 .. n, NEW j \in 1 .. n, i # j,
         NEW gap \in Nat, NEW moves, moves = InLine(rects, origin, align, gap)
  PROVE  Beside(Put(rects[i], moves[i]), Put(rects[j], moves[j]), gap)
<1> DEFINE height == Max({rects[k].h : k \in DOMAIN rects})
           stride == [k \in DOMAIN rects |-> rects[k].w + gap]
           cursor(k) == origin.x + SumFunctionOnSet(stride, 1 .. k - 1)
           top(k) == origin.y + Offset(height, rects[k].h, align)
<1>1. \A k \in DOMAIN rects : moves[k] = MoveTo(rects[k], cursor(k), top(k))
  BY DEF InLine
<1>2. n \in Nat /\ DOMAIN rects = 1 .. n /\ gap \in Nat /\ origin.x \in Int /\ origin.y \in Int
  BY RectInts DEF IsLine
<1>3. \A k \in 1 .. n : rects[k] \in Rects /\ rects[k].w \in Nat /\ rects[k].h \in Nat
  BY <1>2, RectInts DEF IsLine, AreRects
<1>4. \A k \in 1 .. n : stride[k] = rects[k].w + gap /\ stride[k] \in Nat
  BY <1>2, <1>3
<1>5. height \in Int
  <2> DEFINE f == [k \in DOMAIN rects |-> rects[k].h]
             T == {rects[k].h : k \in DOMAIN rects}
  <2>1. T = {f[k] : k \in DOMAIN rects} /\ \A k \in DOMAIN rects : f[k] \in Int
    BY <1>2, <1>3
  <2>2. IsFiniteSet(DOMAIN rects) /\ DOMAIN rects # {}
    <3>1. n \in Nat /\ IsFiniteSet(1 .. n)
      BY <1>2, FS_Interval
    <3>. QED
      BY <1>2, <3>1
  <2> HIDE DEF f, T
  <2>3. Max(T) \in Int
    BY <2>1, <2>2, Extremes
  <2>. QED
    BY <2>3 DEF T
<1> HIDE DEF height, stride
<1>6. ASSUME NEW k \in 1 .. n
      PROVE  /\ cursor(k) \in Int
             /\ Put(rects[k], moves[k]).x = cursor(k)
             /\ Right(Put(rects[k], moves[k])) = cursor(k) + rects[k].w
  <2>1. Offset(height, rects[k].h, align) \in Int
    BY <1>3, <1>5, OffsetAlignIs
  <2>2. SumFunctionOnSet(stride, 1 .. k - 1) \in Int
    <3>1. IsFiniteSet(1 .. k - 1)
      BY <1>2, FS_Interval
    <3>2. \A m \in 1 .. k - 1 : stride[m] \in Int
      BY <1>2, <1>4
    <3>. QED
      BY <3>1, <3>2, SumInt
  <2>3. cursor(k) \in Int /\ top(k) \in Int
    BY <1>2, <2>1, <2>2
  <2>4. moves[k] = MoveTo(rects[k], cursor(k), top(k)) /\ rects[k] \in Rects
    BY <1>1, <1>2, <1>3
  <2> HIDE DEF cursor, top
  <2>. QED
    BY <2>3, <2>4, PutAt
<1>7. \/ cursor(j) >= cursor(i) + rects[i].w + gap
      \/ cursor(i) >= cursor(j) + rects[j].w + gap
  <2>1. rects[i].w + gap <= stride[i] /\ rects[j].w + gap <= stride[j]
    BY <1>2, <1>3, <1>4
  <2>2. \A k \in 1 .. n : stride[k] \in Nat
    BY <1>4
  <2> DEFINE v == rects[i].w
             w == rects[j].w
             x == origin.x
  <2>3. v \in Int /\ w \in Int /\ gap \in Int /\ n \in Int /\ 1 \in Int /\ x \in Int
    BY <1>2, <1>3
  <2>4. v + gap <= stride[i] /\ w + gap <= stride[j]
    BY <2>1
  <2> HIDE DEF v, w, x
  <2>5. \/ x + SumFunctionOnSet(stride, 1 .. j - 1) >= x + SumFunctionOnSet(stride, 1 .. i - 1) + v + gap
        \/ x + SumFunctionOnSet(stride, 1 .. i - 1) >= x + SumFunctionOnSet(stride, 1 .. j - 1) + w + gap
    BY <2>2, <2>3, <2>4, BandsApart
  <2>. QED
    BY <2>5 DEF v, w, x
<1> HIDE DEF cursor
<1>. QED
  BY <1>6, <1>7 DEF Beside

\* What is apart in the order given is apart by id.
PutsApart(layout, ids, moves, gap) ==
  \A i, j \in DOMAIN ids : i # j =>
    ApartBy(Put(layout[ids[i]].bounds, moves[i]), Put(layout[ids[j]].bounds, moves[j]), gap)

LEMMA ByIdApart ==
  ASSUME NEW layout, NEW ids, NEW moves, NEW gap, PutsApart(layout, ids, moves, gap)
  PROVE  EachApart(layout, ById(ids, moves), gap)
<1>1. DOMAIN ById(ids, moves) = ToSet(ids)
  BY DEF ById
<1>2. ASSUME NEW id \in ToSet(ids)
      PROVE  \E i \in DOMAIN ids : ids[i] = id /\ ById(ids, moves)[id] = moves[i]
  <2> DEFINE i == CHOOSE i \in DOMAIN ids : ids[i] = id
  <2>1. i \in DOMAIN ids /\ ids[i] = id
    BY DEF ToSet
  <2>2. ById(ids, moves)[id] = moves[i]
    BY DEF ById
  <2>. QED
    BY <2>1, <2>2
<1> DEFINE after == ById(ids, moves)
<1> HIDE DEF after
<1>3. ASSUME NEW id \in ToSet(ids), NEW other \in ToSet(ids) \ {id}
      PROVE  ApartBy(Target(layout, after, id), Target(layout, after, other), gap)
  <2>1. PICK i \in DOMAIN ids : ids[i] = id /\ after[id] = moves[i]
    BY <1>2 DEF after
  <2>2. PICK j \in DOMAIN ids : ids[j] = other /\ after[other] = moves[j]
    BY <1>2 DEF after
  <2>3. i # j
    BY <2>1, <2>2
  <2>. QED
    BY <2>1, <2>2, <2>3 DEF PutsApart, Put, Target
<1>. QED
  BY <1>1, <1>3 DEF EachApart, after

LEMMA RowApart ==
  ASSUME LayoutAssumption, NEW p, NEW rws, NEW layout, IsLayout(layout, p, rws),
         NEW ids \in Seq(ShapeIds), ToSet(ids) \subseteq DOMAIN layout,
         NEW align \in Aligns, NEW given, IsGiven(given)
  PROVE  EachApart(layout, RowMoves(layout, ids, align, given), given.columnGap)
<1> DEFINE gap == given.columnGap
           rects == Along(layout, ids)
           origin == Origin(layout, ids, given)
           moves == InLine(rects, origin, align, gap)
<1>1. IsLine(rects, Len(ids)) /\ DOMAIN ids = 1 .. Len(ids)
  BY InALine
<1>2. Len(ids) > 0 => origin \in Rects
  BY OriginIs
<1>3. Len(ids) \in Nat /\ \A i \in DOMAIN ids : rects[i] = layout[ids[i]].bounds
  BY DEF Along
<1>4. moves = InLine(rects, origin, align, gap)
  OBVIOUS
<1>9. gap \in Nat
  BY DEF IsGiven
<1> HIDE DEF gap, rects, origin, moves
<1>5. PutsApart(layout, ids, moves, gap)
  <2> SUFFICES ASSUME NEW i \in DOMAIN ids, NEW j \in DOMAIN ids, i # j
               PROVE  ApartBy(Put(layout[ids[i]].bounds, moves[i]),
                              Put(layout[ids[j]].bounds, moves[j]), gap)
    BY DEF PutsApart
  <2>1. origin \in Rects /\ i \in 1 .. Len(ids) /\ j \in 1 .. Len(ids)
    BY <1>1, <1>2, <1>3
  <2>2. Beside(Put(rects[i], moves[i]), Put(rects[j], moves[j]), gap)
    BY <1>1, <1>4, <1>9, <2>1, InLineApart
  <2>. QED
    BY <1>3, <2>2 DEF Beside, ApartBy
<1>6. RowMoves(layout, ids, align, given) = ById(ids, moves)
  BY DEF RowMoves, rects, origin, moves, Along, gap
<1>. QED
  BY <1>5, <1>6, ByIdApart DEF gap

LEMMA StackApart ==
  ASSUME LayoutAssumption, NEW p, NEW rws, NEW layout, IsLayout(layout, p, rws),
         NEW ids \in Seq(ShapeIds), ToSet(ids) \subseteq DOMAIN layout,
         NEW align \in Aligns, NEW given, IsGiven(given)
  PROVE  EachApart(layout, StackMoves(layout, ids, align, given), given.rowGap)
<1> DEFINE gap == given.rowGap
           rects == TurnedAlong(layout, ids)
           origin == Turned(Origin(layout, ids, given))
           moves == InLine(rects, origin, align, gap)
           turned == [i \in DOMAIN ids |-> TurnedMove(moves[i])]
<1>1. IsLine(rects, Len(ids)) /\ DOMAIN ids = 1 .. Len(ids)
  BY InALine
<1>2. Len(ids) > 0 => origin \in Rects
  BY OriginIs, TurnedIs
<1>3. Len(ids) \in Nat /\ \A i \in DOMAIN ids : rects[i] = Turned(layout[ids[i]].bounds)
  BY DEF TurnedAlong
<1>4. moves = InLine(rects, origin, align, gap)
  OBVIOUS
<1>7. \A i \in DOMAIN ids : turned[i] = TurnedMove(moves[i])
  OBVIOUS
<1>8. StackMoves(layout, ids, align, given) = ById(ids, turned)
  BY DEF StackMoves, TurnedAlong, rects, origin, moves, turned
<1>9. gap \in Nat
  BY DEF IsGiven
<1> HIDE DEF gap, rects, origin, moves, turned
<1>5. PutsApart(layout, ids, turned, gap)
  <2> SUFFICES ASSUME NEW i \in DOMAIN ids, NEW j \in DOMAIN ids, i # j
               PROVE  ApartBy(Put(layout[ids[i]].bounds, turned[i]),
                              Put(layout[ids[j]].bounds, turned[j]), gap)
    BY DEF PutsApart
  <2>1. origin \in Rects /\ i \in 1 .. Len(ids) /\ j \in 1 .. Len(ids)
    BY <1>1, <1>2, <1>3
  <2>2. Beside(Put(rects[i], moves[i]), Put(rects[j], moves[j]), gap)
    BY <1>1, <1>4, <1>9, <2>1, InLineApart
  <2>3. ASSUME NEW k \in DOMAIN ids
        PROVE  /\ Put(rects[k], moves[k]).x = Put(layout[ids[k]].bounds, turned[k]).y
               /\ Right(Put(rects[k], moves[k])) = Bottom(Put(layout[ids[k]].bounds, turned[k]))
    <3>1. rects[k] = Turned(layout[ids[k]].bounds) /\ turned[k] = TurnedMove(moves[k])
      BY <1>3, <1>7
    <3>2. \A r, m : /\ Put(Turned(r), m).x = Put(r, TurnedMove(m)).y
                    /\ Right(Put(Turned(r), m)) = Bottom(Put(r, TurnedMove(m)))
      BY DEF Put, Shifted, Turned, TurnedMove, Right, Bottom
    <3>. QED
      BY <3>1, <3>2
  <2>. QED
    BY <2>2, <2>3 DEF Beside, ApartBy
<1>. QED
  BY <1>5, <1>8, ByIdApart DEF gap

LEMMA LargestBounds ==
  ASSUME NEW T, IsFiniteSet(T), \A v \in T : v \in Int
  PROVE  Max(T \cup {0}) \in Nat /\ \A v \in T : v <= Max(T \cup {0})
<1> DEFINE U == T \cup {0}
<1>1. IsFiniteSet(U)
  BY FS_AddElement
<1>2. U # {} /\ (\A v \in U : v \in Int) /\ 0 \in U /\ \A v \in T : v \in U
  OBVIOUS
<1> HIDE DEF U
<1>3. Max(U) \in U /\ \A v \in U : Max(U) >= v
  BY <1>1, <1>2, MaxOf
<1>4. Max(U) \in Int /\ Max(U) >= 0 /\ \A v \in T : v <= Max(U)
  BY <1>2, <1>3
<1>5. Max(U) \in Nat
  BY <1>4
<1>. QED
  BY <1>4, <1>5 DEF U

\* Where a band begins.
LEMMA StartOfBand ==
  ASSUME NEW last \in Int, NEW f, \A b \in 0 .. last : f[b] \in Nat, NEW c \in 0 .. last,
         NEW x \in Int
  PROVE  x + SumFunctionOnSet(f, 0 .. c - 1) \in Int
<1>1. IsFiniteSet(0 .. c - 1)
  <2>1. \A i, j \in Int : IsFiniteSet(i .. j)
    BY FS_Interval
  <2>. QED
    BY <2>1
<1>2. \A d \in 0 .. c - 1 : f[d] \in Int
  OBVIOUS
<1>3. SumFunctionOnSet(f, 0 .. c - 1) \in Int
  BY <1>1, <1>2, SumInt
<1>. QED
  BY <1>3

\* Two places of a grid differ in their column or in their row.
LEMMA OtherPlace ==
  ASSUME NEW columns \in Nat \ {0}, NEW i \in Nat, NEW j \in Nat, i # j,
         i % columns = j % columns
  PROVE  i \div columns # j \div columns
<1> DEFINE q == i \div columns
           r == j \div columns
           m == i % columns
<1>1. \A k \in Nat : k = columns * (k \div columns) + (k % columns)
  OBVIOUS
<1>2. i = columns * q + m
  BY <1>1
<1>3. j = columns * r + m
  BY <1>1
<1> HIDE DEF q, r, m
<1>4. q # r
  BY <1>2, <1>3
<1>. QED
  BY <1>4 DEF q, r

LEMMA GridApart ==
  ASSUME LayoutAssumption, NEW p, NEW rws, NEW layout, IsLayout(layout, p, rws),
         NEW ids \in Seq(ShapeIds), ToSet(ids) \subseteq DOMAIN layout, NEW columns \in Nat \ {0},
         NEW given, IsGiven(given)
  PROVE  EachApart(layout, GridMoves(layout, ids, columns, given),
                   Least(given.columnGap, given.rowGap))
<1> DEFINE between == given.columnGap
           under == given.rowGap
           gap == Least(between, under)
           rect(i) == layout[ids[i]].bounds
           column(i) == (i - 1) % columns
           row(i) == (i - 1) \div columns
           widest(c) == Max({rect(i).w : i \in {j \in DOMAIN ids : column(j) = c}} \cup {0})
           tallest(r) == Max({rect(i).h : i \in {j \in DOMAIN ids : row(j) = r}} \cup {0})
           across == [c \in 0 .. columns - 1 |-> widest(c) + between]
           down == [r \in 0 .. Len(ids) - 1 |-> tallest(r) + under]
           origin == Origin(layout, ids, given)
           x(c) == origin.x + SumFunctionOnSet(across, 0 .. c - 1)
           y(r) == origin.y + SumFunctionOnSet(down, 0 .. r - 1)
           moves == [i \in DOMAIN ids |-> MoveTo(rect(i), x(column(i)), y(row(i)))]
<1>1. GridMoves(layout, ids, columns, given) = ById(ids, moves)
  BY DEF GridMoves
<1>2. DOMAIN ids = 1 .. Len(ids) /\ Len(ids) \in Nat
  OBVIOUS
<1>16. between \in Nat /\ under \in Nat /\ gap \in Nat /\ gap <= between /\ gap <= under
  BY DEF IsGiven, Least
<1>15. between = given.columnGap /\ under = given.rowGap /\ gap = Least(between, under)
  OBVIOUS
<1> HIDE DEF gap, between, under
<1>3. \A i \in DOMAIN ids : rect(i) \in Rects /\ rect(i).w \in Nat /\ rect(i).h \in Nat
  <2>1. \A i \in DOMAIN ids : rect(i) \in Rects
    BY InALine
  <2> HIDE DEF rect
  <2>. QED
    BY <2>1, RectInts
<1>4. IsFiniteSet(DOMAIN ids)
  <2>1. \A n \in Nat : IsFiniteSet(1 .. n)
    BY FS_Interval
  <2>. QED
    BY <1>2, <2>1
<1>5. ASSUME NEW c
      PROVE  widest(c) \in Nat /\ \A i \in DOMAIN ids : column(i) = c => rect(i).w <= widest(c)
  <2> DEFINE S == {j \in DOMAIN ids : column(j) = c}
             f == [j \in S |-> rect(j).w]
             T == {rect(i).w : i \in S}
  <2>6. widest(c) = Max(T \cup {0})
    OBVIOUS
  <2>1. IsFiniteSet(S) /\ \A i \in DOMAIN ids : column(i) = c => i \in S
    BY <1>4, FS_Subset
  <2>7. T = {f[j] : j \in S}
    OBVIOUS
  <2>8. \A j \in S : f[j] = rect(j).w /\ j \in DOMAIN ids
    OBVIOUS
  <2>2. T = {f[j] : j \in S} /\ \A j \in S : f[j] \in Int /\ f[j] = rect(j).w
    <3> HIDE DEF f, T, S, rect
    <3>. QED
      BY <1>3, <2>7, <2>8
  <2> HIDE DEF f, T, S, rect
  <2>3. IsFiniteSet(T) /\ \A v \in T : v \in Int
    BY <2>1, <2>2, FiniteImage
  <2>4. \A j \in S : rect(j).w \in T
    BY <2>2
  <2>5. Max(T \cup {0}) \in Nat /\ \A v \in T : v <= Max(T \cup {0})
    BY <2>3, LargestBounds
  <2> HIDE DEF widest, column
  <2>. QED
    BY <2>1, <2>4, <2>5, <2>6
<1>6. ASSUME NEW r
      PROVE  tallest(r) \in Nat /\ \A i \in DOMAIN ids : row(i) = r => rect(i).h <= tallest(r)
  <2> DEFINE S == {j \in DOMAIN ids : row(j) = r}
             f == [j \in S |-> rect(j).h]
             T == {rect(i).h : i \in S}
  <2>6. tallest(r) = Max(T \cup {0})
    OBVIOUS
  <2>1. IsFiniteSet(S) /\ \A i \in DOMAIN ids : row(i) = r => i \in S
    BY <1>4, FS_Subset
  <2>7. T = {f[j] : j \in S}
    OBVIOUS
  <2>8. \A j \in S : f[j] = rect(j).h /\ j \in DOMAIN ids
    OBVIOUS
  <2>2. T = {f[j] : j \in S} /\ \A j \in S : f[j] \in Int /\ f[j] = rect(j).h
    <3> HIDE DEF f, T, S, rect
    <3>. QED
      BY <1>3, <2>7, <2>8
  <2> HIDE DEF f, T, S, rect
  <2>3. IsFiniteSet(T) /\ \A v \in T : v \in Int
    BY <2>1, <2>2, FiniteImage
  <2>4. \A j \in S : rect(j).h \in T
    BY <2>2
  <2>5. Max(T \cup {0}) \in Nat /\ \A v \in T : v <= Max(T \cup {0})
    BY <2>3, LargestBounds
  <2> HIDE DEF tallest, row
  <2>. QED
    BY <2>1, <2>4, <2>5, <2>6
<1> HIDE DEF widest, tallest
<1>7. /\ \A c \in 0 .. columns - 1 : across[c] \in Nat /\ across[c] = widest(c) + between
      /\ \A r \in 0 .. Len(ids) - 1 : down[r] \in Nat /\ down[r] = tallest(r) + under
  BY <1>5, <1>6, <1>16
<1>8. \A i \in DOMAIN ids : moves[i] = MoveTo(rect(i), x(column(i)), y(row(i)))
  OBVIOUS
<1> HIDE DEF across, down, moves
<1>9. ASSUME NEW i \in DOMAIN ids
      PROVE  /\ column(i) \in 0 .. columns - 1 /\ row(i) \in 0 .. Len(ids) - 1
             /\ origin.x \in Int /\ origin.y \in Int
             /\ rect(i).w + gap <= across[column(i)] /\ rect(i).h + gap <= down[row(i)]
  <2>1. column(i) \in 0 .. columns - 1
    BY <1>2
  <2>2. row(i) \in 0 .. Len(ids) - 1
    <3>1. i - 1 \in Nat /\ i - 1 <= Len(ids) - 1
      BY <1>2
    <3>2. (i - 1) \div columns \in 0 .. i - 1
      BY <3>1, Quotient
    <3> HIDE DEF row
    <3>3. row(i) \in 0 .. i - 1
      BY <3>2 DEF row
    <3>. QED
      BY <1>2, <3>1, <3>3
  <2>3. origin.x \in Int /\ origin.y \in Int
    BY <1>2, OriginIs DEF Rects
  <2> DEFINE c == column(i)
             r == row(i)
             w == rect(i).w
             h == rect(i).h
  <2>4. /\ c \in 0 .. columns - 1 /\ r \in 0 .. Len(ids) - 1 /\ w \in Nat /\ h \in Nat
        /\ w <= widest(c) /\ h <= tallest(r) /\ widest(c) \in Nat /\ tallest(r) \in Nat
    <3> HIDE DEF rect, column, row
    <3>. QED
      BY <1>3, <1>5, <1>6, <2>1, <2>2
  <2> HIDE DEF c, r, w, h
  <2>5. w + gap <= across[c] /\ h + gap <= down[r]
    BY <1>7, <1>16, <2>4
  <2>. QED
    BY <2>1, <2>2, <2>3, <2>5 DEF c, r, w, h
<1> HIDE DEF origin
<1>10. ASSUME NEW i \in DOMAIN ids
       PROVE  /\ Put(rect(i), moves[i]).x = x(column(i))
              /\ Right(Put(rect(i), moves[i])) = x(column(i)) + rect(i).w
              /\ Put(rect(i), moves[i]).y = y(row(i))
              /\ Bottom(Put(rect(i), moves[i])) = y(row(i)) + rect(i).h
              /\ x(column(i)) \in Int /\ y(row(i)) \in Int
  <2> DEFINE c == column(i)
             r == row(i)
  <2>1. c \in 0 .. columns - 1 /\ r \in 0 .. Len(ids) - 1 /\ origin.x \in Int /\ origin.y \in Int
    BY <1>9
  <2>2. moves[i] = MoveTo(rect(i), x(c), y(r)) /\ rect(i) \in Rects
    BY <1>3, <1>8
  <2> HIDE DEF c, r
  <2> DEFINE columnsEnd == columns - 1
             rowsEnd == Len(ids) - 1
             left == origin.x
             top == origin.y
  <2>3. /\ columnsEnd \in Int /\ rowsEnd \in Int /\ left \in Int /\ top \in Int
        /\ c \in 0 .. columnsEnd /\ r \in 0 .. rowsEnd
        /\ \A d \in 0 .. columnsEnd : across[d] \in Nat
        /\ \A d \in 0 .. rowsEnd : down[d] \in Nat
    BY <1>2, <1>7, <2>1
  <2> HIDE DEF columnsEnd, rowsEnd, left, top
  <2>4. left + SumFunctionOnSet(across, 0 .. c - 1) \in Int
    BY <2>3, StartOfBand
  <2>7. top + SumFunctionOnSet(down, 0 .. r - 1) \in Int
    BY <2>3, StartOfBand
  <2>5. x(c) \in Int /\ y(r) \in Int
    BY <2>4, <2>7 DEF left, top
  <2> HIDE DEF x, y, rect
  <2>6. /\ Put(rect(i), moves[i]).x = x(c) /\ Put(rect(i), moves[i]).y = y(r)
        /\ Right(Put(rect(i), moves[i])) = x(c) + rect(i).w
        /\ Bottom(Put(rect(i), moves[i])) = y(r) + rect(i).h
    BY <2>2, <2>5, PutAt
  <2>. QED
    BY <2>5, <2>6 DEF c, r
<1>11. ASSUME NEW i \in DOMAIN ids, NEW j \in DOMAIN ids, column(i) # column(j)
       PROVE  \/ x(column(j)) >= x(column(i)) + rect(i).w + gap
              \/ x(column(i)) >= x(column(j)) + rect(j).w + gap
  <2> DEFINE c == column(i)
             d == column(j)
             v == rect(i).w
             w == rect(j).w
             left == origin.x
             last == columns - 1
  <2>4. last \in Int
    OBVIOUS
  <2>5. /\ c \in 0 .. last /\ d \in 0 .. last /\ left \in Int
        /\ v + gap <= across[c] /\ w + gap <= across[d]
    BY <1>9
  <2>6. c # d
    BY <1>11
  <2>7. \A b \in 0 .. last : across[b] \in Nat
    BY <1>7
  <2>1. /\ c \in 0 .. last /\ d \in 0 .. last /\ c # d /\ left \in Int /\ last \in Int /\ 0 \in Int
        /\ v + gap <= across[c] /\ w + gap <= across[d]
        /\ \A b \in 0 .. last : across[b] \in Nat
    <3> HIDE DEF c, d, v, w, left, last
    <3>. QED
      BY <2>4, <2>5, <2>6, <2>7
  <2>2. v \in Int /\ w \in Int /\ gap \in Int
    BY <1>3, <1>16
  <2> HIDE DEF c, d, v, w, left, last
  <2>3. \/ left + SumFunctionOnSet(across, 0 .. d - 1) >= left + SumFunctionOnSet(across, 0 .. c - 1) + v + gap
        \/ left + SumFunctionOnSet(across, 0 .. c - 1) >= left + SumFunctionOnSet(across, 0 .. d - 1) + w + gap
    BY <2>1, <2>2, BandsApart
  <2>. QED
    BY <2>3 DEF left, c, d, v, w
<1>12. ASSUME NEW i \in DOMAIN ids, NEW j \in DOMAIN ids, row(i) # row(j)
       PROVE  \/ y(row(j)) >= y(row(i)) + rect(i).h + gap
              \/ y(row(i)) >= y(row(j)) + rect(j).h + gap
  <2> DEFINE c == row(i)
             d == row(j)
             v == rect(i).h
             w == rect(j).h
             top == origin.y
             last == Len(ids) - 1
  <2>4. last \in Int
    BY <1>2
  <2>5. /\ c \in 0 .. last /\ d \in 0 .. last /\ top \in Int
        /\ v + gap <= down[c] /\ w + gap <= down[d]
    BY <1>9
  <2>6. c # d
    BY <1>12
  <2>7. \A b \in 0 .. last : down[b] \in Nat
    BY <1>7
  <2>1. /\ c \in 0 .. last /\ d \in 0 .. last /\ c # d /\ top \in Int /\ last \in Int /\ 0 \in Int
        /\ v + gap <= down[c] /\ w + gap <= down[d]
        /\ \A b \in 0 .. last : down[b] \in Nat
    <3> HIDE DEF c, d, v, w, top, last
    <3>. QED
      BY <2>4, <2>5, <2>6, <2>7
  <2>2. v \in Int /\ w \in Int /\ gap \in Int
    BY <1>3, <1>16
  <2> HIDE DEF c, d, v, w, top, last
  <2>3. \/ top + SumFunctionOnSet(down, 0 .. d - 1) >= top + SumFunctionOnSet(down, 0 .. c - 1) + v + gap
        \/ top + SumFunctionOnSet(down, 0 .. c - 1) >= top + SumFunctionOnSet(down, 0 .. d - 1) + w + gap
    BY <2>1, <2>2, BandsApart
  <2>. QED
    BY <2>3 DEF top, c, d, v, w
<1>13. \A i, j \in DOMAIN ids : i # j => column(i) # column(j) \/ row(i) # row(j)
  <2> SUFFICES ASSUME NEW i \in DOMAIN ids, NEW j \in DOMAIN ids, i # j, column(i) = column(j)
               PROVE  row(i) # row(j)
    OBVIOUS
  <2> DEFINE a == i - 1
             b == j - 1
  <2>3. a % columns = b % columns
    OBVIOUS
  <2>4. i \in Nat \ {0} /\ j \in Nat \ {0}
    BY <1>2
  <2> HIDE DEF column, row
  <2>1. a \in Nat /\ b \in Nat /\ a # b /\ a % columns = b % columns
    BY <2>3, <2>4
  <2> HIDE DEF a, b
  <2>2. a \div columns # b \div columns
    BY <2>1, OtherPlace
  <2>. QED
    BY <2>2 DEF a, b, row
<1> HIDE DEF x, y, column, row
<1>14. PutsApart(layout, ids, moves, gap)
  <2> SUFFICES ASSUME NEW i \in DOMAIN ids, NEW j \in DOMAIN ids, i # j
               PROVE  ApartBy(Put(rect(i), moves[i]), Put(rect(j), moves[j]), gap)
    BY DEF PutsApart
  <2> HIDE DEF rect
  <2>1. CASE column(i) # column(j)
    BY <1>10, <1>11, <2>1 DEF ApartBy
  <2>2. CASE row(i) # row(j)
    BY <1>10, <1>12, <2>2 DEF ApartBy
  <2>. QED
    BY <1>13, <2>1, <2>2
<1>. QED
  BY <1>1, <1>14, <1>15, ByIdApart

-----------------------------------------------------------------------------
(* Every layout action leaves what it placed clear.                         *)

Cleared == ClearOn(txn'.page, rows, txn'.placed, txn'.region, txn'.spacing)

LEMMA ArrangeLeaves ==
  ASSUME TxnFields, NEW moves, NEW placed, NEW gap, Arrange(moves, placed, gap)
  PROVE  txn'.placed = placed /\ txn'.region = NoRegion /\ txn'.open = txn.open
<1>1. \E after, moved, touched, statuses :
        txn' = [txn EXCEPT !.page = after, !.affected = moved, !.touched = touched,
                           !.ran = TRUE, !.statuses = statuses,
                           !.placed = placed, !.region = NoRegion, !.spacing = gap]
  BY Zenon DEF Arrange
<1>. QED
  BY <1>1 DEF TxnFields, NoTxn

\* What is aligned or distributed is placed nowhere in particular.
LEMMA ArrangeResets ==
  ASSUME TxnFields, NEW moves, NEW gap, Arrange(moves, {}, gap)
  PROVE  Cleared
<1>1. txn'.placed = {} /\ txn'.region = NoRegion
  BY ArrangeLeaves
<1>. QED
  BY <1>1, NothingPlaced DEF Cleared

LEMMA OneClear ==
  ASSUME LayoutAssumption, TxnFields, IsBoardPage(txn.page), AreRows(rows),
         Cardinality(DOMAIN txn.page) <= MaxSlides, NEW id, NEW target, NEW align \in Aligns,
         NEW gap \in Nat,
         \/ PlaceBelowAction(id, target, align, gap)
         \/ PlaceRightOfAction(id, target, align, gap)
  PROVE  Cleared
<1> DEFINE p == txn.page
           layout == LayoutOf(txn.page, rows)
           below == PlaceBelow(p, layout, id, target, align, gap)
           right == PlaceRightOf(p, layout, id, target, align, gap)
<1>1. IsLayout(layout, p, rows)
  BY LayoutIs
<1>2. /\ Movable(layout, {id}) /\ target \in DOMAIN layout
      /\ Arrange(below, {id}, gap) \/ Arrange(right, {id}, gap)
  <2>1. CASE PlaceBelowAction(id, target, align, gap)
    BY <2>1, Zenon DEF PlaceBelowAction
  <2>2. CASE PlaceRightOfAction(id, target, align, gap)
    BY <2>2, Zenon DEF PlaceRightOfAction
  <2>. QED
    BY <2>1, <2>2
<1>3. id \in DOMAIN layout
  BY <1>2 DEF Movable
<1>4. /\ ClearMoves(p, layout, below, gap) /\ DOMAIN below = {id} /\ AreMoves(below)
      /\ ClearMoves(p, layout, right, gap) /\ DOMAIN right = {id} /\ AreMoves(right)
  <2> HIDE DEF layout, p
  <2>0. IsBoardPage(p) /\ Cardinality(DOMAIN p) <= MaxSlides
    BY DEF p
  <2>1. MovesOneClear(p, layout, below, id, gap) /\ MovesOneClear(p, layout, right, id, gap)
    <3>1. target \in DOMAIN layout
      BY <1>2
    <3>. QED
      BY <1>1, <1>3, <2>0, <3>1, PlaceMovesClear
  <2>2. AreMoves(below) /\ AreMoves(right)
    BY <1>1, <1>2, <1>3, PlaceMoves
  <2>. QED
    BY <2>1, <2>2 DEF MovesOneClear
<1> HIDE DEF below, right
<1>5. CASE Arrange(below, {id}, gap)
  BY <1>2, <1>4, <1>5, ArrangedClear DEF Cleared
<1>6. CASE Arrange(right, {id}, gap)
  BY <1>2, <1>4, <1>6, ArrangedClear DEF Cleared
<1>. QED
  BY <1>2, <1>5, <1>6

LEMMA BlockCleared ==
  ASSUME LayoutAssumption, TxnFields, IsBoardPage(txn.page), AreRows(rows),
         Cardinality(DOMAIN txn.page) <= MaxSlides, NEW ids,
         NEW layout, layout = LayoutOf(txn.page, rows), NEW moves \in [ids -> MoveRecords],
         NEW gap \in Nat, NEW clearance \in Nat, gap <= clearance,
         EachApart(layout, moves, gap), NEW avoid, Movable(layout, ids),
         ArrangeBlock(layout, moves, avoid, gap, clearance)
  PROVE  Cleared
<1> DEFINE p == txn.page
           block == ClearBlock(p, layout, moves, clearance)
<1>1. IsLayout(layout, p, rows)
  BY LayoutIs
<1>2. DOMAIN moves = ids /\ AreMoves(moves) /\ DOMAIN moves \subseteq DOMAIN layout
  BY MovesOf DEF Movable
<1>3. DOMAIN block = ids /\ AreMoves(block)
  <2> HIDE DEF p
  <2>. QED
    BY <1>1, <1>2, ClearBlockIs
<1>4. ClearMoves(p, layout, block, gap)
  <2>1. IsBoardPage(p) /\ Cardinality(DOMAIN p) <= MaxSlides
    OBVIOUS
  <2> HIDE DEF p
  <2>. QED
    BY <1>1, <1>2, <2>1, BlockMovesClear
<1>5. Arrange(block, ids, gap) \/ Arrange(moves, {}, Gap)
  BY <1>2, Zenon DEF ArrangeBlock
<1> HIDE DEF block
<1>6. CASE Arrange(block, ids, gap)
  BY <1>3, <1>4, <1>6, ArrangedClear DEF Cleared
<1>7. CASE Arrange(moves, {}, Gap)
  BY <1>7, ArrangeResets
<1>. QED
  BY <1>5, <1>6, <1>7

LEMMA LinesClear ==
  ASSUME LayoutAssumption, TxnFields, IsBoardPage(txn.page), AreRows(rows),
         Cardinality(DOMAIN txn.page) <= MaxSlides, NEW ids \in Seq(ShapeIds),
         NEW align \in Aligns, NEW given, IsGiven(given), NEW avoid,
         RowAction(ids, align, given, avoid) \/ StackAction(ids, align, given, avoid)
  PROVE  Cleared
<1> DEFINE layout == LayoutOf(txn.page, rows)
           row == RowMoves(layout, ids, align, given)
           stack == StackMoves(layout, ids, align, given)
<1>1. IsLayout(layout, txn.page, rows)
  BY LayoutIs
<1>2. /\ Movable(layout, ToSet(ids))
      /\ \/ ArrangeBlock(layout, row, avoid, given.columnGap, given.columnGap)
         \/ ArrangeBlock(layout, stack, avoid, given.rowGap, given.rowGap)
  <2>1. CASE RowAction(ids, align, given, avoid)
    BY <2>1, Zenon DEF RowAction
  <2>2. CASE StackAction(ids, align, given, avoid)
    BY <2>2, Zenon DEF StackAction
  <2>. QED
    BY <2>1, <2>2
<1>3. ToSet(ids) \subseteq DOMAIN layout /\ layout = LayoutOf(txn.page, rows)
  BY <1>2 DEF Movable
<1> HIDE DEF layout
<1>4. /\ row \in [ToSet(ids) -> MoveRecords] /\ EachApart(layout, row, given.columnGap)
      /\ stack \in [ToSet(ids) -> MoveRecords] /\ EachApart(layout, stack, given.rowGap)
  BY <1>1, <1>3, RowMovesAre, StackMovesAre, RowApart, StackApart
<1>7. /\ given.columnGap \in Nat /\ given.rowGap \in Nat
      /\ given.columnGap <= given.columnGap /\ given.rowGap <= given.rowGap
  BY DEF IsGiven
<1> HIDE DEF row, stack
<1>5. CASE ArrangeBlock(layout, row, avoid, given.columnGap, given.columnGap)
  BY <1>2, <1>3, <1>4, <1>5, <1>7, BlockCleared
<1>6. CASE ArrangeBlock(layout, stack, avoid, given.rowGap, given.rowGap)
  BY <1>2, <1>3, <1>4, <1>6, <1>7, BlockCleared
<1>. QED
  BY <1>2, <1>5, <1>6

LEMMA GridClear ==
  ASSUME LayoutAssumption, TxnFields, IsBoardPage(txn.page), AreRows(rows),
         Cardinality(DOMAIN txn.page) <= MaxSlides, NEW ids \in Seq(ShapeIds),
         NEW columns \in Nat \ {0}, NEW given, IsGiven(given), NEW avoid,
         GridAction(ids, columns, given, avoid)
  PROVE  Cleared
<1> DEFINE layout == LayoutOf(txn.page, rows)
           grid == GridMoves(layout, ids, columns, given)
           gap == Least(given.columnGap, given.rowGap)
           clearance == Most(given.columnGap, given.rowGap)
<1>1. IsLayout(layout, txn.page, rows)
  BY LayoutIs
<1>2. Movable(layout, ToSet(ids)) /\ ArrangeBlock(layout, grid, avoid, gap, clearance)
  BY Zenon DEF GridAction
<1>3. ToSet(ids) \subseteq DOMAIN layout /\ layout = LayoutOf(txn.page, rows)
  BY <1>2 DEF Movable
<1> HIDE DEF layout
<1>4. grid \in [ToSet(ids) -> MoveRecords] /\ EachApart(layout, grid, gap)
  BY <1>1, <1>3, GridMovesAre, GridApart
<1>5. gap \in Nat /\ clearance \in Nat /\ gap <= clearance
  BY DEF IsGiven, Least, Most
<1> HIDE DEF grid, gap, clearance
<1>. QED
  BY <1>2, <1>3, <1>4, <1>5, BlockCleared

\* find_free_region: the place it returns is one that is free.
LEMMA RegionClear ==
  ASSUME LayoutAssumption, TxnFields, IsBoardPage(txn.page), AreRows(rows),
         Cardinality(DOMAIN txn.page) <= MaxSlides, NEW size \in Sizes, NEW near, NEW way,
         NEW gap \in Nat, FindFreeRegionAction(size, near, way, gap)
  PROVE  Cleared
<1> DEFINE p == txn.page
           layout == LayoutOf(txn.page, rows)
           beside == layout[near].bounds
           extent == Extent(p, layout)
           anchor == IF near = Nobody
                       THEN IF TopLevel(p, layout) = {} THEN NoRegion
                            ELSE [extent EXCEPT !.y = Bottom(extent) + gap]
                     ELSE IF way = "right" THEN [beside EXCEPT !.x = Right(beside) + gap]
                     ELSE [beside EXCEPT !.y = Bottom(beside) + gap]
           region == FindFreeRegion(p, layout, size, anchor, way, gap)
           blockers == BlockersFor(p, layout, {})
           start == Rect(anchor.x, anchor.y, size)
           below == SlideClear(blockers, start, "y", gap)
           right == SlideClear(blockers, start, "x", gap)
<1>1. IsLayout(layout, p, rows) /\ IsBoardPage(p) /\ Cardinality(DOMAIN p) <= MaxSlides
  BY LayoutIs
<1>2. /\ near \in DOMAIN layout \cup {Nobody}
      /\ \E guessed : txn' = [txn EXCEPT !.ran = TRUE, !.guessed = guessed, !.placed = {},
                                         !.region = region, !.spacing = gap]
  BY Zenon DEF FindFreeRegionAction
<1>3. region = below \/ region = right
  BY DEF FindFreeRegion
<1> HIDE DEF region
<1>4. txn'.page = p /\ txn'.placed = {} /\ txn'.region = region /\ txn'.spacing = gap
  BY <1>2 DEF TxnFields, NoTxn
<1>5. anchor.x \in Int /\ anchor.y \in Int
  <2> HIDE DEF p, layout, extent, beside, blockers, start, below, right
  <2>1. gap \in Int
    OBVIOUS
  <2>2. ASSUME NEW r \in Rects
        PROVE  /\ [r EXCEPT !.x = Right(r) + gap].x \in Int
               /\ [r EXCEPT !.x = Right(r) + gap].y \in Int
               /\ [r EXCEPT !.y = Bottom(r) + gap].x \in Int
               /\ [r EXCEPT !.y = Bottom(r) + gap].y \in Int
    <3>1. Right(r) + gap \in Int /\ Bottom(r) + gap \in Int /\ r.x \in Int /\ r.y \in Int
      BY <2>1, RectInts
    <3>. QED
      BY <3>1 DEF Rects
  <2>3. near # Nobody => beside \in Rects
    BY <1>1, <1>2 DEF IsLayout, beside
  <2>4. TopLevel(p, layout) # {} => extent \in Rects
    <3>1. /\ TopLevel(p, layout) \subseteq DOMAIN layout /\ IsFiniteSet(TopLevel(p, layout))
          /\ \A id \in TopLevel(p, layout) : layout[id].bounds \in Rects
      BY <1>1, FS_Subset DEF TopLevel, IsLayout
    <3> DEFINE ids == TopLevel(p, layout)
    <3> HIDE DEF ids
    <3>2. ids # {} => RectUnion({layout[id].bounds : id \in ids}) \in Rects
      BY <3>1, UnionIs DEF ids
    <3>. QED
      BY <3>2 DEF extent, Extent, ids
  <2>5. NoRegion.x = 0 /\ NoRegion.y = 0
    BY DEF NoRegion, Rect
  <2>6. CASE near # Nobody
    BY <2>2, <2>3, <2>6
  <2>7. CASE near = Nobody /\ TopLevel(p, layout) = {}
    BY <2>5, <2>7
  <2>8. CASE near = Nobody /\ TopLevel(p, layout) # {}
    BY <2>2, <2>4, <2>8
  <2>. QED
    BY <2>6, <2>7, <2>8
<1> HIDE DEF anchor
<1>6. start \in Rects
  BY <1>5 DEF Rect, Rects, Sizes
<1> HIDE DEF start
<1>7. EndsClear(below, blockers, start, "y", gap) /\ EndsClear(right, blockers, start, "x", gap)
  <2>1. /\ below = SlideClear(BlockersFor(p, layout, {}), start, "y", gap)
        /\ right = SlideClear(BlockersFor(p, layout, {}), start, "x", gap)
    OBVIOUS
  <2> HIDE DEF p, layout, below, right
  <2>2. EndsClear(below, blockers, start, "y", gap)
    BY <1>1, <1>6, <2>1, SlidesClear
  <2>3. EndsClear(right, blockers, start, "x", gap)
    BY <1>1, <1>6, <2>1, SlidesClear
  <2>. QED
    BY <2>2, <2>3
<1> HIDE DEF below, right
<1>8. \A b \in blockers : ApartBy(region, b, gap)
  BY <1>3, <1>7 DEF EndsClear
<1>9. \A b \in DOMAIN layout : p[b].type # "group" => layout[b].bounds \in blockers
  BY DEF BlockersFor
<1> HIDE DEF blockers
<1>10. ClearOn(p, rows, {}, region, gap)
  BY <1>8, <1>9 DEF ClearOn
<1>. QED
  BY <1>4, <1>10 DEF Cleared

LEMMA LayoutClear ==
  ASSUME LayoutAssumption, CanvasAssumption, TxnFields, IsBoardPage(txn.page), AreRows(rows),
         Cardinality(DOMAIN txn.page) <= MaxSlides, LayoutAction
  PROVE  Cleared
<1>4. /\ \A ids \in Lists : ids \in Seq(ShapeIds)
      /\ \A columns \in Columns : columns \in Nat \ {0}
      /\ \A size \in BoxSizes : size \in Sizes
      /\ \A gap \in Gaps : gap \in Nat
      /\ \A given \in BlockOptions : IsGiven(given)
  BY DEF CanvasAssumption, IsGiven
<1>1. ASSUME NEW id \in ShapeIds, NEW target \in ShapeIds, NEW align \in Aligns,
             NEW gap \in Gaps,
             \/ PlaceBelowAction(id, target, align, gap)
             \/ PlaceRightOfAction(id, target, align, gap)
      PROVE  Cleared
  BY <1>1, <1>4, OneClear
<1>2. ASSUME NEW ids \in Groupings, NEW axis \in Axes, AlignAction(ids, axis)
      PROVE  Cleared
  <2>1. \E moves : Arrange(moves, {}, Gap)
    BY <1>2, Zenon DEF AlignAction
  <2>. QED
    BY <2>1, ArrangeResets
<1>3. ASSUME NEW ids \in Groupings, NEW direction \in Directions,
             NEW gap \in Gaps \cup {NoGap}, DistributeAction(ids, direction, gap)
      PROVE  Cleared
  <2>1. \E moves : Arrange(moves, {}, Gap)
    BY <1>3, Zenon DEF DistributeAction
  <2>. QED
    BY <2>1, ArrangeResets
<1>5. ASSUME NEW ids \in Lists, NEW align \in Aligns, NEW given \in BlockOptions,
             NEW avoid \in BOOLEAN,
             RowAction(ids, align, given, avoid) \/ StackAction(ids, align, given, avoid)
      PROVE  Cleared
  BY <1>4, <1>5, LinesClear
<1>6. ASSUME NEW ids \in Lists, NEW columns \in Columns, NEW given \in BlockOptions,
             NEW avoid \in BOOLEAN, GridAction(ids, columns, given, avoid)
      PROVE  Cleared
  BY <1>4, <1>6, GridClear
<1>7. ASSUME NEW size \in BoxSizes, NEW near, NEW way, NEW gap \in Gaps,
             FindFreeRegionAction(size, near, way, gap)
      PROVE  Cleared
  BY <1>4, <1>7, RegionClear
<1>. QED
  BY <1>1, <1>2, <1>3, <1>5, <1>6, <1>7 DEF LayoutAction

\* Visual actions place nothing.
LEMMA VisualResets ==
  ASSUME TxnFields, VisualAction
  PROVE  txn'.placed = {} /\ txn'.region = NoRegion
<1>1. (\E shapes, bound, moved : Leaves(shapes, bound, moved)) \/ (\E id : DeleteShape(id))
  BY Zenon DEF VisualAction, CreateShape, ConnectShapes, MoveShape, UpdateText, ResizeShape
<1>2. ASSUME NEW shapes, NEW bound, NEW moved, Leaves(shapes, bound, moved)
      PROVE  txn'.placed = {} /\ txn'.region = NoRegion
  BY <1>2 DEF Leaves, TxnFields, NoTxn
<1>3. ASSUME NEW id, DeleteShape(id)
      PROVE  txn'.placed = {} /\ txn'.region = NoRegion
  BY <1>3 DEF DeleteShape, TxnFields, NoTxn
<1>. QED
  BY <1>1, <1>2, <1>3

\* Semantic actions leave the shapes of the copy where they are.
LEMMA SemanticLeaves ==
  ASSUME TxnFields, SemanticAction
  PROVE  /\ txn'.page = txn.page /\ txn'.placed = txn.placed
         /\ txn'.region = txn.region /\ txn'.spacing = txn.spacing
<1>1. \E entity, created : Writes(entity, created)
  BY Zenon DEF SemanticAction, CreateEntity, UpdateEntity, UpdateStatus,
     RecordExperimentResult, ApplyUpdate, AttachEvidence, LinkEntities, UnlinkEntities
<1>. QED
  BY <1>1 DEF Writes, TxnFields, NoTxn

\* A request stays open while its actions are applied.
LEMMA StaysOpen ==
  ASSUME TxnFields, VisualAction \/ LayoutAction \/ SemanticAction
  PROVE  txn'.open
<1>1. txn.open
  <2>1. \E on : Acting(on)
    BY Zenon DEF VisualAction, CreateShape, ConnectShapes, MoveShape, UpdateText,
       ResizeShape, DeleteShape, LayoutAction, PlaceBelowAction, PlaceRightOfAction, AlignAction,
       DistributeAction, RowAction, StackAction, GridAction, FindFreeRegionAction,
       SemanticAction, CreateEntity, UpdateEntity, UpdateStatus,
       RecordExperimentResult, ApplyUpdate, AttachEvidence, LinkEntities, UnlinkEntities
  <2>. QED
    BY <2>1 DEF Acting
<1>2. CASE VisualAction
  <2>1. (\E shapes, bound, moved : Leaves(shapes, bound, moved)) \/ (\E id : DeleteShape(id))
    BY <1>2, Zenon DEF VisualAction, CreateShape, ConnectShapes, MoveShape, UpdateText, ResizeShape
  <2>. QED
    BY <1>1, <2>1 DEF Leaves, DeleteShape, TxnFields, NoTxn
<1>3. CASE LayoutAction
  <2>1. CASE \E moves, placed, gap : Arrange(moves, placed, gap)
    BY <1>1, <2>1, ArrangeLeaves
  <2>2. CASE \E guessed, region, gap : Looks(guessed, region, gap)
    BY <1>1, <2>2 DEF Looks, TxnFields, NoTxn
  <2>. QED
    BY <1>3, <2>1, <2>2, LayoutShape
<1>4. CASE SemanticAction
  <2>1. \E entity, created : Writes(entity, created)
    BY <1>4, Zenon DEF SemanticAction, CreateEntity, UpdateEntity, UpdateStatus,
       RecordExperimentResult, ApplyUpdate, AttachEvidence, LinkEntities, UnlinkEntities
  <2>. QED
    BY <1>1, <2>1 DEF Writes, TxnFields, NoTxn
<1>. QED
  BY <1>2, <1>3, <1>4

\* Outside a request nothing is placed, and on a page of no more shapes than
\* slideClear has iterations what is placed is clear.
PlacedInv ==
  /\ PagesInv
  /\ ~txn.open => txn.placed = {} /\ txn.region = NoRegion
  /\ Cardinality(DOMAIN txn.page) <= MaxSlides =>
       ClearOn(txn.page, rows, txn.placed, txn.region, txn.spacing)

LEMMA ResetClear ==
  ASSUME txn.placed = {}, txn.region = NoRegion, PagesInv
  PROVE  PlacedInv
BY NothingPlaced DEF PlacedInv

LEMMA PlacedNext ==
  ASSUME LayoutAssumption, CanvasAssumption, PlacedInv, [Next]_vars
  PROVE  PlacedInv'
<1>0. /\ TxnFields /\ IsBoardPage(txn.page) /\ AreRows(rows) /\ PagesInv
      /\ ~txn.open => txn.placed = {} /\ txn.region = NoRegion
      /\ Cardinality(DOMAIN txn.page) <= MaxSlides =>
           ClearOn(txn.page, rows, txn.placed, txn.region, txn.spacing)
  BY DEF PlacedInv, PagesInv
<1>1. PagesInv'
  BY <1>0, PagesNext
<1>2. ASSUME txn'.placed = {}, txn'.region = NoRegion
      PROVE  PlacedInv'
  BY <1>1, <1>2, NothingPlaced DEF PlacedInv
<1>3. CASE Begin \/ Refuse \/ Commit
  <2>1. txn'.placed = {} /\ txn'.region = NoRegion
    <3>1. NoTxn.placed = {} /\ NoTxn.region = NoRegion
      BY DEF NoTxn
    <3>2. CASE Refuse \/ Commit
      <4>1. txn' = NoTxn
        BY <3>2, Zenon DEF Refuse, Commit
      <4>. QED
        BY <3>1, <4>1
    <3>3. CASE Begin
      BY <3>3 DEF Begin, NoTxn
    <3>. QED
      BY <1>3, <3>2, <3>3
  <2>. QED
    BY <1>2, <2>1
<1>4. CASE VisualAction
  BY <1>0, <1>2, <1>4, VisualResets
<1>5. CASE LayoutAction
  <2>1. DOMAIN txn'.page = DOMAIN txn.page /\ rows' = rows /\ txn'.open
    BY <1>0, <1>5, LayoutStep, ActionsWait, StaysOpen
  <2>2. Cardinality(DOMAIN txn.page) <= MaxSlides => Cleared
    BY <1>0, <1>5, LayoutClear
  <2>. QED
    BY <1>1, <2>1, <2>2 DEF PlacedInv, Cleared
<1>6. CASE SemanticAction
  <2>1. rows' = rows /\ txn'.open
    BY <1>0, <1>6, ActionsWait, StaysOpen
  <2>2. /\ txn'.page = txn.page /\ txn'.placed = txn.placed
        /\ txn'.region = txn.region /\ txn'.spacing = txn.spacing
    BY <1>0, <1>6, SemanticLeaves
  <2>. QED
    BY <1>0, <1>1, <2>1, <2>2 DEF PlacedInv
<1>7. CASE People
  <2>1. txn' = txn /\ ~txn.open
    <3>1. txn' = txn
      BY <1>7, PeopleFrame
    <3>2. ~txn.open
      BY <1>7 DEF People, PersonMoves, PersonNests, PersonWrites, PersonLocks, PersonDeletes,
         Measure, Editing
    <3>. QED
      BY <3>1, <3>2
  <2>. QED
    BY <1>0, <1>2, <2>1
<1>8. CASE Routes \/ UNCHANGED vars
  <2>1. txn' = txn /\ rows' = rows
    BY <1>8 DEF Routes, vars
  <2>. QED
    BY <1>0, <1>1, <2>1 DEF PlacedInv
<1>. QED
  BY <1>3, <1>4, <1>5, <1>6, <1>7, <1>8 DEF Next

\* Arranged means clear (slideClear, clearBlock and the layout actions of
\* shared/layout-engine.ts and server/layout-service.ts): while slideClear has as
\* many iterations as the page has shapes, what place_below, place_right_of, row,
\* stack and grid put somewhere is apart by the gap from every shape they did not
\* name, at any depth, and from one another, and so is the region that
\* find_free_region returns, however the tree, the sizes and the measurements are.
THEOREM PlacedIsClear ==
  ASSUME LayoutAssumption, CanvasAssumption
  PROVE  Spec => [](Cardinality(DOMAIN txn.page) <= MaxSlides => PlacedClear)
<1>1. Init => PlacedInv
  <2>1. Init => txn.placed = {} /\ txn.region = NoRegion
    BY DEF Init, NoTxn
  <2>. QED
    BY <2>1, PagesInit, ResetClear
<1>2. PlacedInv /\ [Next]_vars => PlacedInv'
  BY PlacedNext
<1>3. PlacedInv => (Cardinality(DOMAIN txn.page) <= MaxSlides => PlacedClear)
  BY ClearIs DEF PlacedInv
<1>. QED
  BY <1>1, <1>2, <1>3, PTL DEF Spec
=============================================================================
