----------------------------- MODULE TokenStore -----------------------------
(***************************************************************************)
(* The machine-token file: server/token-store.mjs, with what its callers   *)
(* bring to it, the owner-only routes of server/agent-access.ts, board     *)
(* creation by an agent (server/agent-boards.ts) and the operator's        *)
(* command line (scripts/manage-api-tokens.mjs).                           *)
(*                                                                         *)
(* The file is replaced as a whole under a lock file.  Every call awaits   *)
(* the file system between its steps, so calls of one server interleave    *)
(* with each other and with the command line, a process of its own.  The   *)
(* account database is synchronous and outside the lock: people delete and *)
(* restore boards, and accounts are disabled, between any two steps.       *)
(***************************************************************************)
EXTENDS Integers, FiniteSets

CONSTANTS
  Callers,            \* who may have a call in progress
  Server,             \* those of the server process; the others are command lines
  Names, Tokens, Boards, Users,
  FirstBoards,        \* boards that exist at the start, each of some user
  Nothing,            \* no user, no token, no board, no caller, nothing read
  MaxRooms,           \* MAX_ROOMS
  MaxClients,         \* MAX_CLIENTS
  MaxAccountClients,  \* MAX_ACCOUNT_CLIENTS
  Faults,             \* what the world may do: see Fault
  MaxCalls,           \* bound: the calls in progress at once
  MaxTime             \* bound: the time

Fault == {"crash", "init", "read", "write", "chmod", "readback", "release"}
Never == 0            \* the expiry of a client without one
Times == 0 .. MaxTime

ASSUME StoreAssumption ==
  /\ Server \subseteq Callers
  /\ FirstBoards \subseteq Boards
  /\ Nothing \notin Callers \cup Tokens \cup Boards \cup Users
  /\ MaxRooms \in Nat \ {0}
  /\ MaxClients \in Nat \ {0}
  /\ MaxAccountClients \in Nat \ {0}
  /\ Faults \subseteq Fault
  /\ MaxCalls \in Nat
  /\ MaxTime \in Nat \ {0}

VARIABLES
  file,         \* the clients and accountClients of the token file
  lock,         \* who created the lock file, or Nothing
  backups,      \* the stores that were backed up
  boardState,   \* the account database: "none", "live" or "deleted"
  boardOwner,   \* the account database: ownerUserId
  disabled,     \* the account database: disabled users
  now,
  pc,           \* where each call is
  op,           \* its arguments
  source,       \* the store it read
  made,         \* the board that prepare created for it
  result,       \* whether it is about to return or to throw
  issued,       \* every secret that was drawn
  told,         \* ghost: secrets that were returned to a caller
  retired,      \* ghost: secrets that a call was to revoke or to rotate away
  fate          \* ghost: what came of each board that an agent asked for

accounts == <<boardState, boardOwner, disabled>>
calls == <<pc, op, source, made, result>>
ghosts == <<told, retired, fate>>
vars == <<file, lock, backups, accounts, now, calls, issued, ghosts>>

TokensOf(clients) == {x.token : x \in clients}

\* evaluateExpiry
Expired(expiry, at) == expiry # Never /\ expiry <= at

-----------------------------------------------------------------------------
(* What an operation asks for.                                             *)

Operation(kind, name) ==
  [kind |-> kind, name |-> name, pin |-> Nothing, by |-> Nothing,
   token |-> Nothing, rooms |-> {}, owner |-> Nothing, expiry |-> Never, at |-> now]

NoOperation == [Operation("none", Nothing) EXCEPT !.at = 0]

\* Whatever record has that name by now.
NamedOnly(o, clients) == {x \in clients : x.name = o.name}

\* locateClients: the records a name-addressed operation applies to.
Targets(o, clients) ==
  {x \in clients : x.name = o.name /\ (o.pin # Nothing => x.token = o.pin)}

\* authoriseOwnership: the caller owns every board the client reaches, the
\* deleted ones included, and a board creator itself.
MayManage(user, x) ==
  /\ x.kind = "account" => x.owner = user
  /\ x.rooms # {} => user \notin disabled
  /\ \A b \in x.rooms : boardState[b] # "none" /\ boardOwner[b] = user

\* Names are unique across both collections.
NameIsFree(o, clients) == \A x \in clients : x.name # o.name

OfKind(kind, clients) == {x \in clients : x.kind = kind}

RoomForOne(x) == Cardinality(x.rooms) < MaxRooms

\* prepare draws an id that there is no board of, and that nobody has named.
Unused(board) ==
  /\ boardState[board] = "none"
  /\ \A x \in file : board \notin x.rooms
  /\ \A c \in Callers : board \notin op[c].rooms

\* What each operation checks on the store it read, inside the lock.
AcceptsCreate(o, clients) ==
  NameIsFree(o, clients) /\ Cardinality(OfKind("client", clients)) < MaxClients

AcceptsCreateAccount(o, clients) ==
  NameIsFree(o, clients) /\ Cardinality(OfKind("account", clients)) < MaxAccountClients

\* authorise is called when there is a caller to authorise.
AcceptsRevoke(o, clients) ==
  /\ Targets(o, clients) # {}
  /\ \A x \in Targets(o, clients) : o.by # Nothing => MayManage(o.by, x)

AcceptsRotate(o, clients) ==
  /\ AcceptsRevoke(o, clients)
  /\ \A x, y \in Targets(o, clients) : x = y
  /\ o.expiry = Never => \A x \in Targets(o, clients) : ~Expired(x.expiry, o.at)

AcceptsGrant(o, clients) ==
  /\ \E x \in Targets(o, clients) :
       /\ {y \in clients : y.name = o.name} = {x}
       /\ x.kind = "account"
       /\ ~Expired(x.expiry, o.at)
       /\ RoomForOne(x)
       /\ x.owner \notin disabled
  /\ \E b \in Boards : Unused(b)    \* bound: else prepare throws

Accepts(o, clients) ==
  \/ o.kind = "create" /\ AcceptsCreate(o, clients)
  \/ o.kind = "createAccount" /\ AcceptsCreateAccount(o, clients)
  \/ o.kind = "revoke" /\ AcceptsRevoke(o, clients)
  \/ o.kind = "rotate" /\ AcceptsRotate(o, clients)
  \/ o.kind = "grant" /\ AcceptsGrant(o, clients)

NewClient(o) ==
  [name |-> o.name, token |-> o.token,
   kind |-> IF o.kind = "create" THEN "client" ELSE "account",
   owner |-> o.owner, rooms |-> o.rooms, expiry |-> o.expiry]

Rotated(x, o) ==
  [x EXCEPT !.token = o.token, !.expiry = IF o.expiry = Never THEN @ ELSE o.expiry]

Granted(x, board) == [x EXCEPT !.rooms = @ \cup {board}]

\* The store that the operation leaves.
Outcome(o, clients, board) ==
  LET targets == Targets(o, clients)
      others == clients \ targets
  IN  CASE o.kind \in {"create", "createAccount"} -> clients \cup {NewClient(o)}
        [] o.kind = "revoke" -> others
        [] o.kind = "rotate" -> others \cup {Rotated(x, o) : x \in targets}
        [] o.kind = "grant" -> others \cup {Granted(x, board) : x \in targets}

\* The secrets that the operation is to put out of use.
Ends(o, clients) ==
  IF o.kind \in {"revoke", "rotate"} THEN TokensOf(Targets(o, clients)) ELSE {}

\* The boards that agents were granted.
GrantedBoards(clients) == UNION {x.rooms : x \in OfKind("account", clients)}

\* A revoked agent keeps none of its boards.
FateAfter(o, clients) ==
  IF o.kind = "revoke"
    THEN LET lost == GrantedBoards(Targets(o, clients))
         IN  [b \in Boards |-> IF b \in lost THEN "none" ELSE fate[b]]
    ELSE fate

-----------------------------------------------------------------------------
Init ==
  /\ file = {}
  /\ lock = Nothing
  /\ backups = {}
  /\ boardState = [b \in Boards |-> IF b \in FirstBoards THEN "live" ELSE "none"]
  /\ boardOwner \in [Boards -> Users \cup {Nothing}]
  /\ \A b \in Boards : boardOwner[b] = Nothing <=> b \notin FirstBoards
  /\ disabled = {}
  /\ now = 1
  /\ pc = [c \in Callers |-> "idle"]
  /\ op = [c \in Callers |-> NoOperation]
  /\ source = [c \in Callers |-> Nothing]
  /\ made = [c \in Callers |-> Nothing]
  /\ result = [c \in Callers |-> "none"]
  /\ issued = {}
  /\ told = {}
  /\ retired = {}
  /\ fate = [b \in Boards |-> "none"]

\* A call is validated and its secret drawn before the lock is asked for.
Start(c, o) ==
  /\ pc[c] = "idle"
  /\ Cardinality({d \in Callers : pc[d] # "idle"}) < MaxCalls
  /\ pc' = [pc EXCEPT ![c] = "lock"]
  /\ op' = [op EXCEPT ![c] = o]
  /\ issued' = issued \cup ({o.token} \ {Nothing})
  /\ UNCHANGED <<file, lock, backups, accounts, now, source, made, result, ghosts>>

\* requireBoardOwner: nobody has a role on a deleted board.
RequireBoardOwner(user, board) == boardState[board] = "live" /\ boardOwner[board] = user

\* What the command line takes for rooms: ids in the right form, of boards that
\* exist or not.
RoomLists ==
  {rooms \in SUBSET Boards :
     rooms # {} /\ IsFiniteSet(rooms) /\ Cardinality(rooms) <= MaxRooms}

\* createClient, from the route (one board of the caller), or from the command line.
StartCreate(c) ==
  \E name \in Names, token \in Tokens \ issued, rooms \in RoomLists,
     expiry \in {Never} \cup now + 1 .. MaxTime :
    /\ c \in Server =>
         \E user \in Users \ disabled, board \in Boards :
           rooms = {board} /\ RequireBoardOwner(user, board)
    /\ Start(c, [Operation("create", name) EXCEPT !.token = token, !.rooms = rooms,
                                                  !.expiry = expiry])

\* createAccountClient
StartCreateAccount(c) ==
  /\ c \in Server
  /\ \E name \in Names, token \in Tokens \ issued, user \in Users \ disabled,
        expiry \in {Never} \cup now + 1 .. MaxTime :
       Start(c, [Operation("createAccount", name) EXCEPT !.token = token, !.owner = user,
                                                         !.expiry = expiry])

\* revokeClient: the command line by name, the route by a reference it listed.
StartRevoke(c) ==
  \/ /\ c \notin Server
     /\ \E name \in Names : Start(c, Operation("revoke", name))
  \/ /\ c \in Server
     /\ \E x \in file, user \in Users \ disabled :
          Start(c, [Operation("revoke", x.name) EXCEPT !.pin = x.token, !.by = user])

\* rotateClient
StartRotate(c) ==
  /\ c \in Server
  /\ \E x \in file, user \in Users \ disabled, token \in Tokens \ issued,
        expiry \in {Never} \cup now + 1 .. MaxTime :
       Start(c, [Operation("rotate", x.name) EXCEPT !.pin = x.token, !.by = user,
                                                    !.token = token, !.expiry = expiry])

\* authenticateBoardCreator: the bearer is of a board creator that has not expired.
AuthenticateBoardCreator(x) == x.kind = "account" /\ ~Expired(x.expiry, now)

\* POST /api/agent-boards, up to grantNewBoard with the credential it read.
StartGrant(c) ==
  /\ c \in Server
  /\ \E x \in file :
       /\ AuthenticateBoardCreator(x)
       /\ Cardinality(x.rooms) < MaxRooms
       /\ Start(c, [Operation("grant", x.name) EXCEPT !.pin = x.token, !.owner = x.owner])

-----------------------------------------------------------------------------
(* The steps of a call, in order.                                          *)

Goto(c, next) == pc' = [pc EXCEPT ![c] = next]

Answer(c, answer) ==
  /\ Goto(c, "release")
  /\ result' = [result EXCEPT ![c] = answer]

\* Between its steps a call has no state outside these.
Return(c) ==
  /\ pc' = [pc EXCEPT ![c] = "idle"]
  /\ op' = [op EXCEPT ![c] = NoOperation]
  /\ source' = [source EXCEPT ![c] = Nothing]
  /\ made' = [made EXCEPT ![c] = Nothing]
  /\ result' = [result EXCEPT ![c] = "none"]

\* Overwriting the lock file that is there.
TakeLock(c) == lock' = c

\* open(lock, 'wx')
CreateLock(c) == lock = Nothing /\ lock' = c

AcquireMutationLock(c) ==
  /\ pc[c] = "lock"
  /\ CreateLock(c)
  /\ Goto(c, "read")
  /\ UNCHANGED <<file, backups, accounts, now, op, source, made, result, issued, ghosts>>

\* The refused call tidies up a lock it did not create.
ClearLock == lock' = Nothing

\* "A lock we did not create is never ours to clear."
LeaveLock == lock' = lock

\* The lock exists, whoever left it: refused.
Locked(c) ==
  /\ pc[c] = "lock"
  /\ lock # Nothing
  /\ LeaveLock
  /\ Return(c)
  /\ UNCHANGED <<file, backups, accounts, now, issued, ghosts>>

\* The lock file was created and could not be written; removing it may fail too.
LockNotInitialised(c) ==
  /\ "init" \in Faults
  /\ pc[c] = "lock"
  /\ lock = Nothing
  /\ lock' \in {Nothing, c}
  /\ Return(c)
  /\ UNCHANGED <<file, backups, accounts, now, issued, ghosts>>

ReadStore(c) ==
  /\ pc[c] = "read"
  /\ source' = [source EXCEPT ![c] = file]
  /\ Goto(c, "decide")
  /\ UNCHANGED <<file, lock, backups, accounts, now, op, made, result, issued, ghosts>>

ReadFails(c) ==
  /\ "read" \in Faults
  /\ pc[c] = "read"
  /\ Answer(c, "failed")
  /\ UNCHANGED <<file, lock, backups, accounts, now, op, source, made, issued, ghosts>>

\* The mutator accepts; for a grant, prepare creates the board in the account
\* database at once.
Decide(c) ==
  /\ pc[c] = "decide"
  /\ Accepts(op[c], source[c])
  /\ IF op[c].kind = "grant"
       THEN \E board \in Boards, x \in Targets(op[c], source[c]) :
              /\ Unused(board)
              /\ boardState' = [boardState EXCEPT ![board] = "live"]
              /\ boardOwner' = [boardOwner EXCEPT ![board] = x.owner]
              /\ made' = [made EXCEPT ![c] = board]
       ELSE UNCHANGED <<boardState, boardOwner, made>>
  /\ Goto(c, "backup")
  /\ UNCHANGED <<file, lock, backups, disabled, now, op, source, result, issued, ghosts>>

\* The mutator, or prepare, throws before anything is written.
Reject(c) ==
  /\ pc[c] = "decide"
  /\ ~Accepts(op[c], source[c])
  /\ Answer(c, "failed")
  /\ UNCHANGED <<file, lock, backups, accounts, now, op, source, made, issued, ghosts>>

\* backUpStore copies the text that was read.
BackupCopy(c) == source[c]

BackUpStore(c) ==
  /\ pc[c] = "backup"
  /\ backups' = backups \cup {BackupCopy(c)}
  /\ Goto(c, "replace")
  /\ UNCHANGED <<file, lock, accounts, now, op, source, made, result, issued, ghosts>>

\* A failure from prepare on: a grant has a board to take back.
Fail(c) ==
  IF op[c].kind = "grant"
    THEN Goto(c, "confirm") /\ UNCHANGED result
    ELSE Answer(c, "failed")

BackUpFails(c) ==
  /\ "write" \in Faults
  /\ pc[c] = "backup"
  /\ Fail(c)
  /\ UNCHANGED <<file, lock, backups, accounts, now, op, source, made, issued, ghosts>>

\* writeStoreAtomically: the temporary file is complete and takes the place of
\* the store.
Rename(c) ==
  /\ pc[c] = "replace"
  /\ file' = Outcome(op[c], source[c], made[c])
  /\ retired' = retired \cup Ends(op[c], source[c])
  /\ fate' = FateAfter(op[c], source[c])
  /\ Goto(c, "chmod")
  /\ UNCHANGED <<lock, backups, accounts, now, op, source, made, result, issued, told>>

\* The temporary file could not be written or renamed, and is removed.
WriteFails(c) ==
  /\ "write" \in Faults
  /\ pc[c] = "replace"
  /\ Fail(c)
  /\ UNCHANGED <<file, lock, backups, accounts, now, op, source, made, issued, ghosts>>

\* The store is already in place when its mode is set.
Chmod(c) ==
  /\ pc[c] = "chmod"
  /\ Answer(c, "ok")
  /\ UNCHANGED <<file, lock, backups, accounts, now, op, source, made, issued, ghosts>>

ChmodFails(c) ==
  /\ "chmod" \in Faults
  /\ pc[c] = "chmod"
  /\ Fail(c)
  /\ UNCHANGED <<file, lock, backups, accounts, now, op, source, made, issued, ghosts>>

GrantedTo(o, board) == \E x \in OfKind("account", Targets(o, file)) : board \in x.rooms

\* The grant is taken for lost without looking.
NeverConfirmed(o, board) == FALSE

\* grantIsPersisted, when the store can be read.
GrantIsPersisted(o, board) == GrantedTo(o, board)

\* The failure came after the rename: the grant stands, and is a success.
ConfirmGrant(c) ==
  /\ pc[c] = "confirm"
  /\ GrantIsPersisted(op[c], made[c])
  /\ Answer(c, "ok")
  /\ UNCHANGED <<file, lock, backups, accounts, now, op, source, made, issued, ghosts>>

\* A store that cannot be read counts as not granted.
TakenForLost(c) == ~GrantIsPersisted(op[c], made[c]) \/ "readback" \in Faults

\* removeBoard soft-deletes the board in the name of its owner.
RollBackGrant(c) ==
  /\ pc[c] = "confirm"
  /\ TakenForLost(c)
  /\ op[c].owner \notin disabled
  /\ boardState' = [boardState EXCEPT ![made[c]] = "deleted"]
  /\ fate' = [fate EXCEPT ![made[c]] = "removed"]
  /\ Answer(c, "failed")
  /\ UNCHANGED <<file, lock, backups, boardOwner, disabled, now, op, source, made, issued,
                 told, retired>>

\* removeBoard throws, its owner being disabled: the board is left to its owner.
RollBackFails(c) ==
  /\ pc[c] = "confirm"
  /\ TakenForLost(c)
  /\ op[c].owner \in disabled
  /\ fate' = [fate EXCEPT ![made[c]] = "left"]
  /\ Answer(c, "failed")
  /\ UNCHANGED <<file, lock, backups, accounts, now, op, source, made, issued, told, retired>>

\* A grant that stands is answered with what the release lets the agent know.
GrantIs(c, what) ==
  fate' = IF result[c] = "ok" /\ made[c] # Nothing
            THEN [fate EXCEPT ![made[c]] = what]
            ELSE fate

\* The lock file is removed and the caller answered; the secret of a new or
\* rotated client is in the answer.
Release(c) ==
  /\ pc[c] = "release"
  /\ lock' = Nothing
  /\ told' = IF result[c] = "ok" THEN told \cup ({op[c].token} \ {Nothing}) ELSE told
  /\ GrantIs(c, "created")
  /\ Return(c)
  /\ UNCHANGED <<file, backups, accounts, now, issued, retired>>

\* The lock file cannot be removed: the lock stays, and the call throws whatever it
\* did, so that a grant that is in the file is reported, and recorded, as rolled back.
ReleaseFails(c) ==
  /\ "release" \in Faults
  /\ pc[c] = "release"
  /\ GrantIs(c, "disowned")
  /\ Return(c)
  /\ UNCHANGED <<file, lock, backups, accounts, now, issued, told, retired>>

Step(c) ==
  \/ AcquireMutationLock(c) \/ Locked(c) \/ LockNotInitialised(c)
  \/ ReadStore(c) \/ ReadFails(c)
  \/ Decide(c) \/ Reject(c)
  \/ BackUpStore(c) \/ BackUpFails(c)
  \/ Rename(c) \/ WriteFails(c)
  \/ Chmod(c) \/ ChmodFails(c)
  \/ ConfirmGrant(c) \/ RollBackGrant(c) \/ RollBackFails(c)
  \/ Release(c) \/ ReleaseFails(c)

-----------------------------------------------------------------------------
(* Around the calls.                                                       *)

\* A process and the calls that end with it.
Process(c) == IF c \in Server THEN Server ELSE {c}

\* The process ends; the files and the database stay, the lock file included.
Crash(c) ==
  /\ "crash" \in Faults
  /\ pc[c] # "idle"
  /\ LET ended(d) == d \in Process(c)
     IN  /\ pc' = [d \in Callers |-> IF ended(d) THEN "idle" ELSE pc[d]]
         /\ op' = [d \in Callers |-> IF ended(d) THEN NoOperation ELSE op[d]]
         /\ source' = [d \in Callers |-> IF ended(d) THEN Nothing ELSE source[d]]
         /\ made' = [d \in Callers |-> IF ended(d) THEN Nothing ELSE made[d]]
         /\ result' = [d \in Callers |-> IF ended(d) THEN "none" ELSE result[d]]
  /\ UNCHANGED <<file, lock, backups, accounts, now, issued, ghosts>>

\* The calls between taking the lock and giving it back.
Mutating(c) == pc[c] \notin {"idle", "lock"}

\* "Recovering from a stale lock is a deliberate human act": somebody makes sure
\* that its creator is gone.
RemoveStaleLock ==
  /\ lock # Nothing
  /\ ~Mutating(lock)
  /\ lock' = Nothing
  /\ UNCHANGED <<file, backups, accounts, now, calls, issued, ghosts>>

\* deleteBoard and restoreBoard, by the owner.
DeleteBoard(board) ==
  /\ boardState[board] = "live"
  /\ boardOwner[board] \notin disabled
  /\ boardState' = [boardState EXCEPT ![board] = "deleted"]
  /\ UNCHANGED <<file, lock, backups, boardOwner, disabled, now, calls, issued, ghosts>>

RestoreBoard(board) ==
  /\ boardState[board] = "deleted"
  /\ boardOwner[board] \notin disabled
  /\ boardState' = [boardState EXCEPT ![board] = "live"]
  /\ fate' = [fate EXCEPT ![board] = IF @ = "removed" THEN "left" ELSE @]
  /\ UNCHANGED <<file, lock, backups, boardOwner, disabled, now, calls, issued, told, retired>>

\* setUserDisabled, by an administrator.
SetUserDisabled(user) ==
  /\ disabled' = IF user \in disabled THEN disabled \ {user} ELSE disabled \cup {user}
  /\ UNCHANGED <<file, lock, backups, boardState, boardOwner, now, calls, issued, ghosts>>

Tick ==
  /\ now < MaxTime
  /\ now' = now + 1
  /\ UNCHANGED <<file, lock, backups, accounts, calls, issued, ghosts>>

Next ==
  \/ \E c \in Callers :
       \/ StartCreate(c) \/ StartCreateAccount(c) \/ StartRevoke(c)
       \/ StartRotate(c) \/ StartGrant(c)
       \/ Step(c)
       \/ Crash(c)
  \/ RemoveStaleLock
  \/ \E b \in Boards : DeleteBoard(b) \/ RestoreBoard(b)
  \/ \E u \in Users : SetUserDisabled(u)
  \/ Tick

Spec == Init /\ [][Next]_vars

-----------------------------------------------------------------------------
(* Properties.                                                             *)

Clients ==
  [name : Names, token : Tokens, kind : {"client", "account"},
   owner : Users \cup {Nothing}, rooms : SUBSET Boards, expiry : Times]

Operations ==
  [kind : {"none", "create", "createAccount", "revoke", "rotate", "grant"},
   name : Names \cup {Nothing}, pin : Tokens \cup {Nothing}, by : Users \cup {Nothing},
   token : Tokens \cup {Nothing}, rooms : SUBSET Boards, owner : Users \cup {Nothing},
   expiry : Times, at : Times]

Fates == {"none", "created", "disowned", "removed", "left"}

Steps ==
  {"idle", "lock", "read", "decide", "backup", "replace", "chmod", "confirm", "release"}

\* Every variable has its type.
TypeOK ==
  /\ file \in SUBSET Clients
  /\ lock \in Callers \cup {Nothing}
  /\ backups \in SUBSET SUBSET Clients
  /\ boardState \in [Boards -> {"none", "live", "deleted"}]
  /\ boardOwner \in [Boards -> Users \cup {Nothing}]
  /\ disabled \in SUBSET Users
  /\ now \in Times
  /\ pc \in [Callers -> Steps]
  /\ op \in [Callers -> Operations]
  /\ source \in [Callers -> (SUBSET Clients) \cup {Nothing}]
  /\ made \in [Callers -> Boards \cup {Nothing}]
  /\ result \in [Callers -> {"none", "ok", "failed"}]
  /\ issued \in SUBSET Tokens
  /\ told \in SUBSET Tokens
  /\ retired \in SUBSET Tokens
  /\ fate \in [Boards -> Fates]

\* Calls change the store one at a time, the command line and the calls of a
\* server that crashed and came back included, and each on the store it read.
OneWriter ==
  \A c \in Callers :
    Mutating(c) =>
      /\ lock = c
      /\ \A d \in Callers : Mutating(d) => d = c
      /\ pc[c] \in {"decide", "backup", "replace"} => source[c] = file

\* A secret a caller was given works until a call that was to revoke it, or to
\* rotate it away, has done so: no later write, on a copy of the store without
\* it, and no failure that was answered with success, loses it.
AnswersHold == told \subseteq TokensOf(file) \cup retired

\* A secret that was revoked or rotated away never works again, whatever stale
\* copies of the store other calls hold.
RetiredStayDead == retired \cap TokensOf(file) = {}

\* A name is one credential, across both collections, and no credential has more
\* boards than the reader accepts, however many grants raced.
OneClientPerName ==
  \A x, y \in file : x.name = y.name => x = y

CapsHold ==
  /\ \A x \in file : Cardinality(x.rooms) <= MaxRooms
  /\ Cardinality(OfKind("client", file)) <= MaxClients
  /\ Cardinality(OfKind("account", file)) <= MaxAccountClients

\* An agent that was told it has a board has it until it is revoked itself, through
\* every later write of the store.  One that was told that a grant failed was given
\* nothing, then or ever, and the board it asked for is deleted unless its owner
\* was disabled or brought it back.  There is one exception: a call that cannot
\* remove its lock reports a failure of what it has done, so the agent is refused
\* a board ("disowned") that it does have from then on.
GrantAnswered ==
  \A b \in Boards :
    /\ fate[b] \in {"created", "disowned"} => b \in GrantedBoards(file)
    /\ fate[b] \in {"removed", "left"} => b \notin GrantedBoards(file)
    /\ fate[b] = "removed" => boardState[b] = "deleted"

\* A call that pins a credential changes that credential and no other, although
\* its name may have passed to a successor meanwhile.
PinnedOnly ==
  [][\A c \in Callers :
       pc[c] = "replace" /\ pc'[c] = "chmod" /\ op[c].pin # Nothing =>
         \A x \in file : x.token # op[c].pin => x \in file']_vars

\* The store that a write replaces has been backed up as it was.
BackedUpFirst == [][file' # file => file \in backups]_vars

Registry == INSTANCE TokenRegistry WITH clients <- file

\* The calls, with their awaits, races, crashes and failures, amount to operations
\* that change the set of credentials at once.
ImplementsTokenRegistry == Registry!Spec
=============================================================================
