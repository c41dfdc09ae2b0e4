-------------------------- MODULE TokenStoreProofs --------------------------
(***************************************************************************)
(* Theorems about TokenStore, for any number of calls, processes, names,   *)
(* secrets and boards, and whatever may fail.                              *)
(*                                                                         *)
(* The lock makes the copy that a call read the file itself until the call *)
(* replaces it (OneWriter), so what the call checked on the copy holds of  *)
(* the file it replaces (Checked).  The secret of a call is nobody else's  *)
(* and is in the file only once the call has put it there (OwnSecret).     *)
(***************************************************************************)
EXTENDS TokenStore, FiniteSetTheorems, TLAPS

\* Up to the rename a call holds a copy of the store and has checked it.
Accepted(c) == pc[c] \in {"backup", "replace"}

Replaces(o) == o.kind \in {"create", "createAccount", "rotate"}

\* A call knows what it was started with.
Started ==
  \A c \in Callers :
    IF pc[c] = "idle"
      THEN op[c].token = Nothing /\ made[c] = Nothing
      ELSE /\ op[c].kind # "none"
           /\ op[c].name \in Names
           /\ op[c].token \in Tokens <=> Replaces(op[c])
           /\ pc[c] = "confirm" => op[c].kind = "grant"
           /\ IsFiniteSet(op[c].rooms) /\ Cardinality(op[c].rooms) <= MaxRooms
           /\ op[c].kind = "createAccount" => op[c].rooms = {}

\* The part of what was checked that nothing outside the file can undo.
Stands(o, clients) ==
  /\ o.kind \in {"create", "createAccount"} => NameIsFree(o, clients)
  /\ o.kind = "create" => Cardinality(OfKind("client", clients)) < MaxClients
  /\ o.kind = "createAccount" =>
       Cardinality(OfKind("account", clients)) < MaxAccountClients
  /\ o.kind \in {"rotate", "grant"} => Targets(o, clients) # {}
  /\ o.kind = "grant" =>
       \A x \in Targets(o, clients) : x.kind = "account" /\ RoomForOne(x)

Checked == \A c \in Callers : Accepted(c) => Stands(op[c], file)

\* The board of a grant, made when the mutator accepted it.
BoardMade ==
  \A c \in Callers :
    /\ made[c] # Nothing => /\ op[c].kind = "grant"
                            /\ pc[c] \notin {"lock", "read", "decide"}
    /\ op[c].kind = "grant" /\ pc[c] \in {"backup", "replace", "chmod", "confirm"} =>
         made[c] \in Boards
    /\ pc[c] = "chmod" /\ made[c] # Nothing => GrantedTo(op[c], made[c])

\* The board of a grant exists, and is in nobody's rooms until the grant is written.
RoomsExist ==
  \A c \in Callers :
    made[c] # Nothing =>
      /\ boardState[made[c]] # "none"
      /\ Accepted(c) => \A x \in file : made[c] \notin x.rooms

\* A secret is one credential's.
OneClientPerToken == \A x, y \in file : x.token = y.token => x = y

\* A secret belongs to one call, which is the first to write it.
OwnSecret ==
  /\ TokensOf(file) \cup retired \subseteq issued
  /\ \A c \in Callers : op[c].token \in issued \cup {Nothing}
  /\ \A c, d \in Callers : op[c].token = op[d].token /\ op[c].token # Nothing => c = d
  /\ \A c \in Callers :
       pc[c] \in {"lock", "read", "decide", "backup", "replace"} =>
         op[c].token \notin TokensOf(file) \cup retired

\* A call that is about to succeed has its secret in the file.
Written ==
  \A c \in Callers :
    /\ pc[c] = "chmod" \/ (pc[c] = "release" /\ result[c] = "ok") =>
         op[c].token \in TokensOf(file) \cup retired \cup {Nothing}

\* The copy that a call replaces has been backed up.
Saved == \A c \in Callers : pc[c] = "replace" => file \in backups

IInv ==
  /\ TypeOK
  /\ OneWriter
  /\ Started
  /\ Checked
  /\ BoardMade
  /\ RoomsExist
  /\ OwnSecret
  /\ Written
  /\ Saved
  /\ AnswersHold
  /\ RetiredStayDead
  /\ OneClientPerName
  /\ OneClientPerToken

-----------------------------------------------------------------------------
(* Beginning.                                                              *)

LEMMA NoOperationType ==
  NoOperation \in Operations /\ NoOperation.token = Nothing /\ NoOperation.kind = "none"
<1>1. NoOperation = [kind |-> "none", name |-> Nothing, pin |-> Nothing, by |-> Nothing,
                     token |-> Nothing, rooms |-> {}, owner |-> Nothing,
                     expiry |-> 0, at |-> 0]
  BY DEF NoOperation, Operation, Never
<1>2. 0 \in Times
  BY StoreAssumption DEF Times
<1>. QED
  BY <1>1, <1>2 DEF Operations

LEMMA InitIsSound == Init => IInv
<1> SUFFICES ASSUME Init PROVE IInv
  OBVIOUS
<1> USE DEF Init
<1>1. NoOperation \in Operations /\ NoOperation.token = Nothing
  BY NoOperationType
<1>2. TypeOK
  <2>1. now \in Times
    BY StoreAssumption DEF Times
  <2>2. boardState \in [Boards -> {"none", "live", "deleted"}]
    OBVIOUS
  <2>3. source \in [Callers -> (SUBSET Clients) \cup {Nothing}]
    OBVIOUS
  <2>. QED
    BY <1>1, <2>1, <2>2, <2>3, StoreAssumption DEF TypeOK, Steps, Fates
<1>3. OneWriter /\ Checked /\ Written /\ Saved
  BY DEF OneWriter, Mutating, Checked, Accepted, Written, Saved
<1>4. Started /\ BoardMade /\ OwnSecret
  BY <1>1 DEF Started, BoardMade, OwnSecret, TokensOf
<1>5. AnswersHold /\ RetiredStayDead /\ OneClientPerName /\ OneClientPerToken
  BY DEF AnswersHold, RetiredStayDead, OneClientPerName, OneClientPerToken, TokensOf
<1>6. RoomsExist
  BY DEF RoomsExist
<1>. QED
  BY <1>2, <1>3, <1>4, <1>5, <1>6 DEF IInv

-----------------------------------------------------------------------------
(* A call starts.                                                          *)

\* What a call is started with: a secret that nobody drew, or none.
Startable(o) ==
  /\ o \in Operations
  /\ o.kind # "none"
  /\ o.name \in Names
  /\ IF Replaces(o) THEN o.token \in Tokens \ issued ELSE o.token = Nothing
  /\ IsFiniteSet(o.rooms) /\ Cardinality(o.rooms) <= MaxRooms
  /\ o.kind = "createAccount" => o.rooms = {}

LEMMA StartsAreStartable ==
  ASSUME TypeOK, NEW c \in Callers,
         \/ StartCreate(c) \/ StartCreateAccount(c) \/ StartRevoke(c)
         \/ StartRotate(c) \/ StartGrant(c)
  PROVE  \E o : Startable(o) /\ Start(c, o)
<1>1. now \in Times /\ Never \in Times /\ now + 1 .. MaxTime \subseteq Times
  BY StoreAssumption DEF TypeOK, Times, Never
<1>2. \A x \in file : x.name \in Names /\ x.token \in Tokens /\ x.owner \in Users \cup {Nothing}
  BY DEF TypeOK, Clients
<1>0. IsFiniteSet({}) /\ Cardinality({}) <= MaxRooms
  BY FS_EmptySet, StoreAssumption
<1>3. CASE StartCreate(c)
  <2>1. PICK name \in Names, token \in Tokens \ issued, rooms \in RoomLists,
             expiry \in {Never} \cup now + 1 .. MaxTime :
          Start(c, [Operation("create", name) EXCEPT !.token = token, !.rooms = rooms,
                                                     !.expiry = expiry])
    BY <1>3 DEF StartCreate
  <2>2. rooms \in SUBSET Boards /\ IsFiniteSet(rooms) /\ Cardinality(rooms) <= MaxRooms
    BY DEF RoomLists
  <2>. QED
    BY <1>1, <2>1, <2>2 DEF Startable, Operations, Operation, Replaces
<1>4. CASE StartCreateAccount(c)
  <2>1. PICK name \in Names, token \in Tokens \ issued, user \in Users,
             expiry \in {Never} \cup now + 1 .. MaxTime :
          Start(c, [Operation("createAccount", name) EXCEPT !.token = token, !.owner = user,
                                                            !.expiry = expiry])
    BY <1>4 DEF StartCreateAccount
  <2>. QED
    BY <1>0, <1>1, <2>1 DEF Startable, Operations, Operation, Replaces
<1>5. CASE StartRevoke(c)
  BY <1>0, <1>1, <1>2, <1>5 DEF StartRevoke, Startable, Operations, Operation, Replaces
<1>6. CASE StartRotate(c)
  BY <1>0, <1>1, <1>2, <1>6 DEF StartRotate, Startable, Operations, Operation, Replaces
<1>7. CASE StartGrant(c)
  BY <1>0, <1>1, <1>2, <1>7 DEF StartGrant, Startable, Operations, Operation, Replaces
<1>. QED
  BY <1>3, <1>4, <1>5, <1>6, <1>7

LEMMA StartKeeps ==
  ASSUME IInv, NEW c \in Callers, NEW o, Startable(o), Start(c, o)
  PROVE  IInv'
<1> USE DEF IInv, Start, Startable, ghosts
<1>1. TypeOK'
  BY DEF TypeOK, Steps, accounts, Operations, Replaces
<1>2. OneWriter' /\ Written' /\ Saved'
  BY DEF TypeOK, OneWriter, Mutating, Written, Saved
<1>3. Started' /\ BoardMade' /\ RoomsExist'
  <2>1. Started'
    BY StoreAssumption DEF TypeOK, Started, Mutating, Replaces
  <2>2. BoardMade'
    BY StoreAssumption DEF TypeOK, Started, BoardMade, GrantedTo, Targets, OfKind
  <2>3. RoomsExist'
    BY StoreAssumption DEF TypeOK, RoomsExist, BoardMade, Accepted, Mutating, accounts
  <2>. QED
    BY <2>1, <2>2, <2>3
<1>4. Checked'
  BY DEF TypeOK, Checked, Accepted
<1>5. OwnSecret'
  <2>1. /\ \A d \in Callers : op'[d] = IF d = c THEN o ELSE op[d]
        /\ \A d \in Callers : d # c => pc'[d] = pc[d]
        /\ o.token \in issued' \cup {Nothing} /\ issued \subseteq issued'
        /\ o.token # Nothing => o.token \notin issued
        /\ TokensOf(file)' = TokensOf(file) /\ retired' = retired
    BY DEF TypeOK, TokensOf
  <2>2. Nothing \notin TokensOf(file) \cup retired
    BY StoreAssumption DEF TypeOK, OwnSecret
  <2> HIDE DEF Start, Startable
  <2>. QED
    BY <2>1, <2>2 DEF OwnSecret
<1>6. AnswersHold' /\ RetiredStayDead' /\ OneClientPerName' /\ OneClientPerToken'
  BY DEF AnswersHold, RetiredStayDead, OneClientPerName, OneClientPerToken, TokensOf
<1>. QED
  BY <1>1, <1>2, <1>3, <1>4, <1>5, <1>6

-----------------------------------------------------------------------------
(* A call ends, or is ended.                                               *)

LEMMA EndsKeep ==
  ASSUME IInv, NEW E \in SUBSET Callers,
         pc' = [d \in Callers |-> IF d \in E THEN "idle" ELSE pc[d]],
         op' = [d \in Callers |-> IF d \in E THEN NoOperation ELSE op[d]],
         source' = [d \in Callers |-> IF d \in E THEN Nothing ELSE source[d]],
         made' = [d \in Callers |-> IF d \in E THEN Nothing ELSE made[d]],
         result' = [d \in Callers |-> IF d \in E THEN "none" ELSE result[d]],
         lock' \in Callers \cup {Nothing},
         \A d \in Callers \ E : Mutating(d) => lock' = lock,
         told' \in SUBSET Tokens, told' \subseteq TokensOf(file) \cup retired,
         fate' \in [Boards -> Fates],
         UNCHANGED <<file, backups, accounts, now, issued, retired>>
  PROVE  IInv'
<1> USE DEF IInv
<1>1. NoOperation \in Operations /\ NoOperation.token = Nothing /\ NoOperation.kind = "none"
  BY NoOperationType
<1>2. TypeOK'
  BY <1>1 DEF TypeOK, Steps, accounts
<1>3. OneWriter' /\ Written' /\ Saved'
  BY <1>1 DEF TypeOK, OneWriter, Mutating, Written, Saved, TokensOf
<1>4. Started' /\ BoardMade' /\ RoomsExist'
  <2>1. Started'
    BY <1>1 DEF TypeOK, Started, Mutating, Replaces
  <2>2. BoardMade'
    BY <1>1 DEF TypeOK, BoardMade, Mutating, GrantedTo, Targets, OfKind
  <2>3. RoomsExist'
    BY <1>1 DEF TypeOK, RoomsExist, BoardMade, Accepted, Mutating, accounts
  <2>. QED
    BY <2>1, <2>2, <2>3
<1>5. Checked'
  BY DEF TypeOK, Checked, Accepted
<1>6. OwnSecret'
  BY <1>1 DEF TypeOK, OwnSecret, TokensOf
<1>7. AnswersHold' /\ RetiredStayDead' /\ OneClientPerName' /\ OneClientPerToken'
  BY DEF AnswersHold, RetiredStayDead, OneClientPerName, OneClientPerToken, TokensOf
<1>. QED
  BY <1>2, <1>3, <1>4, <1>5, <1>6, <1>7

\* Return is the end of one call.
LEMMA ReturnKeeps ==
  ASSUME IInv, NEW c \in Callers, Return(c),
         lock' \in Callers \cup {Nothing},
         \A d \in Callers \ {c} : Mutating(d) => lock' = lock,
         told' \in SUBSET Tokens, told' \subseteq TokensOf(file) \cup retired,
         fate' \in [Boards -> Fates],
         UNCHANGED <<file, backups, accounts, now, issued, retired>>
  PROVE  IInv'
<1>1. /\ pc' = [d \in Callers |-> IF d \in {c} THEN "idle" ELSE pc[d]]
      /\ op' = [d \in Callers |-> IF d \in {c} THEN NoOperation ELSE op[d]]
      /\ source' = [d \in Callers |-> IF d \in {c} THEN Nothing ELSE source[d]]
      /\ made' = [d \in Callers |-> IF d \in {c} THEN Nothing ELSE made[d]]
      /\ result' = [d \in Callers |-> IF d \in {c} THEN "none" ELSE result[d]]
  BY DEF Return, IInv, TypeOK
<1>. QED
  BY <1>1, EndsKeep

LEMMA EndingKeeps ==
  ASSUME IInv, NEW c \in Callers,
         \/ Locked(c) \/ LockNotInitialised(c) \/ Release(c) \/ ReleaseFails(c) \/ Crash(c)
  PROVE  IInv'
<1>0. TypeOK /\ OneWriter /\ AnswersHold
  BY DEF IInv
<1>1. CASE Locked(c)
  BY <1>0, <1>1, ReturnKeeps DEF Locked, LeaveLock, TypeOK, AnswersHold, ghosts
<1>2. CASE LockNotInitialised(c)
  <2>1. \A d \in Callers : ~Mutating(d)
    BY <1>0, <1>2, StoreAssumption DEF LockNotInitialised, OneWriter
  <2>. QED
    BY <1>0, <1>2, <2>1, ReturnKeeps DEF LockNotInitialised, TypeOK, AnswersHold, ghosts
<1>3. CASE Release(c)
  <2>1. \A d \in Callers \ {c} : ~Mutating(d)
    BY <1>0, <1>3 DEF Release, OneWriter, Mutating
  <2>2. told' \in SUBSET Tokens /\ told' \subseteq TokensOf(file) \cup retired
    BY <1>0, <1>3 DEF Release, IInv, TypeOK, Operations, AnswersHold, Written
  <2>3. fate' \in [Boards -> Fates]
    BY <1>0, <1>3 DEF Release, GrantIs, TypeOK, Fates
  <2>. QED
    BY <1>0, <1>3, <2>1, <2>2, <2>3, ReturnKeeps DEF Release, TypeOK
<1>4. CASE ReleaseFails(c)
  <2>1. fate' \in [Boards -> Fates]
    BY <1>0, <1>4 DEF ReleaseFails, GrantIs, TypeOK, Fates
  <2>. QED
    BY <1>0, <1>4, <2>1, ReturnKeeps DEF ReleaseFails, TypeOK, AnswersHold
<1>5. CASE Crash(c)
  <2>1. Process(c) \in SUBSET Callers
    BY StoreAssumption DEF Process
  <2>. QED
    BY <1>0, <1>5, <2>1, EndsKeep DEF Crash, TypeOK, AnswersHold, ghosts
<1>. QED
  BY <1>1, <1>2, <1>3, <1>4, <1>5

-----------------------------------------------------------------------------
(* A call takes a step that leaves the file alone.                         *)

LEMMA AcquireKeeps == ASSUME IInv, NEW c \in Callers, AcquireMutationLock(c) PROVE IInv'
<1> USE DEF IInv, AcquireMutationLock, CreateLock, Goto, ghosts
<1>1. TypeOK'
  BY DEF TypeOK, Steps, accounts
<1>2. \A d \in Callers : ~Mutating(d)
  BY StoreAssumption DEF OneWriter
<1>3. OneWriter' /\ Written' /\ Saved'
  BY <1>2 DEF TypeOK, OneWriter, Mutating, Written, Saved, TokensOf
<1>4. Started' /\ BoardMade' /\ RoomsExist'
  <2>1. Started'
    BY DEF TypeOK, Started, Mutating, Replaces
  <2>2. BoardMade'
    BY DEF TypeOK, BoardMade, Mutating, GrantedTo, Targets, OfKind
  <2>3. RoomsExist'
    BY DEF TypeOK, RoomsExist, BoardMade, Accepted, Mutating, accounts
  <2>. QED
    BY <2>1, <2>2, <2>3
<1>5. Checked'
  BY DEF TypeOK, Checked, Accepted
<1>6. OwnSecret'
  BY DEF TypeOK, OwnSecret, TokensOf
<1>7. AnswersHold' /\ RetiredStayDead' /\ OneClientPerName' /\ OneClientPerToken'
  BY DEF AnswersHold, RetiredStayDead, OneClientPerName, OneClientPerToken, TokensOf
<1>. QED
  BY <1>1, <1>3, <1>4, <1>5, <1>6, <1>7

LEMMA ReadKeeps == ASSUME IInv, NEW c \in Callers, ReadStore(c) PROVE IInv'
<1> USE DEF IInv, ReadStore, Goto, ghosts
<1>1. TypeOK'
  BY DEF TypeOK, Steps, accounts
<1>3. OneWriter' /\ Written' /\ Saved'
  BY DEF TypeOK, OneWriter, Mutating, Written, Saved, TokensOf
<1>4. Started' /\ BoardMade' /\ RoomsExist'
  <2>1. Started'
    BY DEF TypeOK, Started, Mutating, Replaces
  <2>2. BoardMade'
    BY DEF TypeOK, BoardMade, Mutating, GrantedTo, Targets, OfKind
  <2>3. RoomsExist'
    BY DEF TypeOK, RoomsExist, BoardMade, Accepted, Mutating, accounts
  <2>. QED
    BY <2>1, <2>2, <2>3
<1>5. Checked'
  BY DEF TypeOK, Checked, Accepted
<1>6. OwnSecret'
  BY DEF TypeOK, OwnSecret, TokensOf
<1>7. AnswersHold' /\ RetiredStayDead' /\ OneClientPerName' /\ OneClientPerToken'
  BY DEF AnswersHold, RetiredStayDead, OneClientPerName, OneClientPerToken, TokensOf
<1>. QED
  BY <1>1, <1>3, <1>4, <1>5, <1>6, <1>7

LEMMA BackUpKeeps == ASSUME IInv, NEW c \in Callers, BackUpStore(c) PROVE IInv'
<1> USE DEF IInv, BackUpStore, BackupCopy, Goto, ghosts
<1>1. source[c] = file
  BY DEF OneWriter, Mutating
<1>2. TypeOK'
  BY <1>1 DEF TypeOK, Steps, accounts
<1>3. OneWriter' /\ Written' /\ Saved'
  BY <1>1 DEF TypeOK, OneWriter, Mutating, Written, Saved, TokensOf
<1>4. Started' /\ BoardMade' /\ RoomsExist'
  <2>1. Started'
    BY DEF TypeOK, Started, Mutating, Replaces
  <2>2. BoardMade'
    BY DEF TypeOK, BoardMade, Mutating, GrantedTo, Targets, OfKind
  <2>3. RoomsExist'
    BY DEF TypeOK, RoomsExist, BoardMade, Accepted, Mutating, accounts
  <2>. QED
    BY <2>1, <2>2, <2>3
<1>5. Checked'
  BY DEF TypeOK, Checked, Accepted
<1>6. OwnSecret'
  BY DEF TypeOK, OwnSecret, TokensOf
<1>7. AnswersHold' /\ RetiredStayDead' /\ OneClientPerName' /\ OneClientPerToken'
  BY DEF AnswersHold, RetiredStayDead, OneClientPerName, OneClientPerToken, TokensOf
<1>. QED
  BY <1>2, <1>3, <1>4, <1>5, <1>6, <1>7

\* The call has failed, or has succeeded with its secret in the file, or is a
\* grant about to find out.
Settles(c) ==
  \/ Answer(c, "failed")
  \/ Answer(c, "ok") /\ pc[c] \in {"chmod", "confirm"}
  \/ /\ Goto(c, "confirm")
     /\ UNCHANGED result
     /\ op[c].kind = "grant"
     /\ pc[c] \in {"backup", "replace", "chmod"}

LEMMA SettlingKeeps ==
  ASSUME IInv, NEW c \in Callers, Mutating(c), Settles(c),
         boardState' \in [Boards -> {"none", "live", "deleted"}],
         \A b \in Boards : boardState'[b] = "none" => boardState[b] = "none",
         fate' \in [Boards -> Fates],
         UNCHANGED <<file, lock, backups, boardOwner, disabled, now, op, source, made,
                     issued, told, retired>>
  PROVE  IInv'
<1> USE DEF IInv, Settles, Answer, Goto
<1>1. TypeOK'
  BY DEF TypeOK, Steps
<1>2. pc[c] = "confirm" => op[c].token = Nothing
  BY DEF Started, Replaces, TypeOK, Operations
<1>3. OneWriter' /\ Saved'
  BY DEF TypeOK, OneWriter, Mutating, Saved
<1>4. Written'
  BY <1>2 DEF TypeOK, Written, TokensOf
<1>5. Started' /\ BoardMade' /\ RoomsExist'
  <2>1. Started'
    BY DEF TypeOK, Started, Mutating, Replaces
  <2>2. BoardMade'
    BY DEF TypeOK, BoardMade, Mutating, GrantedTo, Targets, OfKind
  <2>3. RoomsExist'
    BY DEF TypeOK, RoomsExist, BoardMade, Accepted, Mutating, accounts
  <2>. QED
    BY <2>1, <2>2, <2>3
<1>6. Checked'
  BY DEF TypeOK, Checked, Accepted
<1>7. OwnSecret'
  BY DEF TypeOK, OwnSecret, TokensOf
<1>8. AnswersHold' /\ RetiredStayDead' /\ OneClientPerName' /\ OneClientPerToken'
  BY DEF AnswersHold, RetiredStayDead, OneClientPerName, OneClientPerToken, TokensOf
<1>. QED
  BY <1>1, <1>3, <1>4, <1>5, <1>6, <1>7, <1>8

LEMMA SettlingStepKeeps ==
  ASSUME IInv, NEW c \in Callers,
         \/ ReadFails(c) \/ Reject(c) \/ BackUpFails(c) \/ WriteFails(c)
         \/ Chmod(c) \/ ChmodFails(c) \/ ConfirmGrant(c) \/ RollBackGrant(c)
         \/ RollBackFails(c)
  PROVE  IInv'
<1>1. Mutating(c) /\ Settles(c)
  BY DEF ReadFails, Reject, BackUpFails, WriteFails, Chmod, ChmodFails, ConfirmGrant,
         RollBackGrant, RollBackFails, Fail, Mutating, Settles
<1>2. /\ boardState' \in [Boards -> {"none", "live", "deleted"}]
      /\ \A b \in Boards : boardState'[b] = "none" => boardState[b] = "none"
  BY DEF ReadFails, Reject, BackUpFails, WriteFails, Chmod, ChmodFails, ConfirmGrant,
         RollBackGrant, RollBackFails, accounts, IInv, TypeOK
<1>3. fate' \in [Boards -> Fates]
  BY DEF ReadFails, Reject, BackUpFails, WriteFails, Chmod, ChmodFails, ConfirmGrant,
         RollBackGrant, RollBackFails, ghosts, IInv, TypeOK, Fates
<1>. QED
  BY <1>1, <1>2, <1>3, SettlingKeeps DEF ReadFails, Reject, BackUpFails, WriteFails, Chmod,
     ChmodFails, ConfirmGrant, RollBackGrant, RollBackFails, accounts, ghosts

LEMMA AcceptedStands ==
  ASSUME NEW o, NEW clients, Accepts(o, clients)
  PROVE  Stands(o, clients)
<1>1. CASE o.kind = "grant"
  <2>1. PICK x \in Targets(o, clients) :
          {y \in clients : y.name = o.name} = {x} /\ x.kind = "account" /\ RoomForOne(x)
    BY <1>1 DEF Accepts, AcceptsGrant
  <2>2. \A y \in Targets(o, clients) : y = x
    BY <2>1 DEF Targets
  <2>. QED
    BY <1>1, <2>1, <2>2 DEF Stands
<1>2. CASE o.kind # "grant"
  BY <1>2 DEF Accepts, AcceptsCreate, AcceptsCreateAccount, AcceptsRevoke, AcceptsRotate, Stands
<1>. QED
  BY <1>1, <1>2

LEMMA DecideKeeps == ASSUME IInv, NEW c \in Callers, Decide(c) PROVE IInv'
<1> USE DEF IInv, Decide, Goto, ghosts
<1>1. source[c] = file /\ made[c] = Nothing
  BY DEF OneWriter, Mutating, BoardMade
<1>2. Stands(op[c], file)
  BY <1>1, AcceptedStands
<1> DEFINE grant == op[c].kind = "grant"
<1>3. CASE grant
  <2>1. PICK board \in Boards, x \in file :
          /\ Unused(board)
          /\ boardState' = [boardState EXCEPT ![board] = "live"]
          /\ boardOwner' = [boardOwner EXCEPT ![board] = x.owner]
          /\ made' = [made EXCEPT ![c] = board]
    BY <1>1, <1>3 DEF Targets
  <2>2. x.owner \in Users \cup {Nothing}
    BY DEF TypeOK, Clients
  <2>3. TypeOK'
    BY <2>1, <2>2 DEF TypeOK, Steps
  <2>4. OneWriter' /\ Written' /\ Saved'
    BY DEF TypeOK, OneWriter, Mutating, Written, Saved, TokensOf
  <2>5. Started'
    BY <2>1 DEF TypeOK, Started, Replaces
  <2>6. BoardMade'
    BY <1>3, <2>1 DEF TypeOK, BoardMade, GrantedTo, Targets, OfKind
  <2>7. RoomsExist'
    BY <2>1, StoreAssumption DEF TypeOK, RoomsExist, Accepted, OneWriter, Mutating, BoardMade,
       Unused
  <2>8. Checked'
    BY <1>2 DEF TypeOK, Checked, Accepted
  <2>9. OwnSecret'
    BY DEF TypeOK, OwnSecret, TokensOf
  <2>10. AnswersHold' /\ RetiredStayDead' /\ OneClientPerName' /\ OneClientPerToken'
    BY DEF AnswersHold, RetiredStayDead, OneClientPerName, OneClientPerToken, TokensOf
  <2>. QED
    BY <2>3, <2>4, <2>5, <2>6, <2>7, <2>8, <2>9, <2>10
<1>4. CASE ~grant
  <2>1. UNCHANGED <<boardState, boardOwner, made>>
    BY <1>4
  <2>3. TypeOK'
    BY <2>1 DEF TypeOK, Steps
  <2>4. OneWriter' /\ Written' /\ Saved'
    BY DEF TypeOK, OneWriter, Mutating, Written, Saved, TokensOf
  <2>5. Started'
    BY <2>1 DEF TypeOK, Started, Replaces
  <2>6. BoardMade'
    BY <1>4, <2>1 DEF TypeOK, BoardMade, GrantedTo, Targets, OfKind
  <2>7. RoomsExist'
    BY <1>1, <2>1 DEF TypeOK, RoomsExist, Accepted
  <2>8. Checked'
    BY <1>2 DEF TypeOK, Checked, Accepted
  <2>9. OwnSecret'
    BY DEF TypeOK, OwnSecret, TokensOf
  <2>10. AnswersHold' /\ RetiredStayDead' /\ OneClientPerName' /\ OneClientPerToken'
    BY DEF AnswersHold, RetiredStayDead, OneClientPerName, OneClientPerToken, TokensOf
  <2>. QED
    BY <2>3, <2>4, <2>5, <2>6, <2>7, <2>8, <2>9, <2>10
<1>. QED
  BY <1>3, <1>4

\* The database, the clock and whoever removes a stale lock.
LEMMA AroundKeeps ==
  ASSUME IInv,
         \/ RemoveStaleLock
         \/ \E b \in Boards : DeleteBoard(b) \/ RestoreBoard(b)
         \/ \E u \in Users : SetUserDisabled(u)
         \/ Tick
         \/ UNCHANGED vars
  PROVE  IInv'
<1> USE DEF IInv
<1>1. /\ UNCHANGED <<file, backups, boardOwner, calls, issued, told, retired>>
      /\ fate' \in [Boards -> Fates]
      /\ lock' = lock \/ (lock' = Nothing /\ RemoveStaleLock)
      /\ \A b \in Boards : boardState'[b] = "none" => boardState[b] = "none"
  BY DEF RemoveStaleLock, DeleteBoard, RestoreBoard, SetUserDisabled, Tick, vars, accounts,
         ghosts, TypeOK, Fates
<1>2. TypeOK'
  <2>1. boardState' \in [Boards -> {"none", "live", "deleted"}] /\ disabled' \in SUBSET Users
    BY DEF RemoveStaleLock, DeleteBoard, RestoreBoard, SetUserDisabled, Tick, vars, accounts,
           TypeOK
  <2>2. now' \in Times
    BY StoreAssumption DEF RemoveStaleLock, DeleteBoard, RestoreBoard, SetUserDisabled, Tick,
           vars, accounts, TypeOK, Times
  <2>. QED
    BY <1>1, <2>1, <2>2 DEF TypeOK, calls
<1>3. OneWriter'
  <2>1. RemoveStaleLock => \A d \in Callers : ~Mutating(d)
    BY DEF RemoveStaleLock, OneWriter
  <2>. QED
    BY <1>1, <2>1 DEF OneWriter, Mutating, calls
<1>4. Started' /\ Written' /\ Saved'
  BY <1>1 DEF Started, Written, Saved, Replaces, TokensOf, calls
<1>5. BoardMade'
  BY <1>1 DEF BoardMade, GrantedTo, Targets, OfKind, calls
<1>6. RoomsExist'
  BY <1>1 DEF RoomsExist, BoardMade, Accepted, calls, TypeOK
<1>7. Checked'
  BY <1>1 DEF Checked, Accepted, calls
<1>8. OwnSecret' /\ AnswersHold' /\ RetiredStayDead' /\ OneClientPerName' /\ OneClientPerToken'
  BY <1>1 DEF OwnSecret, AnswersHold, RetiredStayDead, OneClientPerName, OneClientPerToken,
              TokensOf, calls
<1>. QED
  BY <1>2, <1>3, <1>4, <1>5, <1>6, <1>7, <1>8

-----------------------------------------------------------------------------
(* A call replaces the file.                                               *)

LEMMA OutcomeOfCreate ==
  ASSUME NEW clients \in SUBSET Clients, NEW o \in Operations, NEW board,
         o.kind \in {"create", "createAccount"}, o.name \in Names, o.token \in Tokens
  PROVE  /\ Outcome(o, clients, board) = clients \cup {NewClient(o)}
         /\ NewClient(o) \in Clients
         /\ NewClient(o).name = o.name /\ NewClient(o).token = o.token
         /\ NewClient(o).rooms = o.rooms
         /\ NewClient(o).kind = IF o.kind = "create" THEN "client" ELSE "account"
<1>1. Outcome(o, clients, board) = clients \cup {NewClient(o)}
  BY DEF Outcome
<1>. QED
  BY <1>1 DEF NewClient, Clients, Operations

LEMMA OutcomeOfRevoke ==
  ASSUME NEW clients, NEW o, NEW board, o.kind = "revoke"
  PROVE  Outcome(o, clients, board) = clients \ Targets(o, clients)
BY DEF Outcome

\* One client becomes another.
Becomes(x, y, o, board) ==
  /\ y.name = x.name /\ y.kind = x.kind /\ y.owner = x.owner
  /\ o.kind = "rotate" => y.token = o.token /\ y.rooms = x.rooms
  /\ o.kind = "grant" => /\ y.token = x.token /\ y.expiry = x.expiry
                         /\ y.rooms = x.rooms \cup {board}

LEMMA OutcomeOfChange ==
  ASSUME NEW clients \in SUBSET Clients, NEW o \in Operations, NEW board,
         \A x, y \in clients : x.name = y.name => x = y,
         Targets(o, clients) # {},
         \/ o.kind = "rotate" /\ o.token \in Tokens
         \/ o.kind = "grant" /\ board \in Boards
  PROVE  \E x \in clients, y \in Clients :
           /\ Targets(o, clients) = {x}
           /\ Outcome(o, clients, board) = (clients \ {x}) \cup {y}
           /\ Becomes(x, y, o, board)
<1>1. PICK x \in Targets(o, clients) : TRUE
  OBVIOUS
<1>2. x \in clients /\ Targets(o, clients) = {x}
  BY <1>1 DEF Targets
<1>3. CASE o.kind = "rotate"
  <2>1. Outcome(o, clients, board) = (clients \ {x}) \cup {Rotated(x, o)}
    BY <1>2, <1>3 DEF Outcome
  <2> DEFINE e == IF o.expiry = Never THEN x.expiry ELSE o.expiry
             r == [x EXCEPT !.token = o.token, !.expiry = e]
  <2>2. x \in Clients /\ o.expiry \in Times
    BY <1>2 DEF Operations
  <2>3. e \in Times
    BY <2>2 DEF Clients
  <2>4. Rotated(x, o) = r
    BY Zenon DEF Rotated
  <2> HIDE DEF e
  <2>5. r \in Clients
    BY <1>3, <2>2, <2>3 DEF Clients
  <2>6. Becomes(x, r, o, board)
    BY <1>3, <2>2 DEF Clients, Becomes
  <2>. QED
    BY <1>2, <2>1, <2>4, <2>5, <2>6
<1>4. CASE o.kind = "grant"
  <2>1. Outcome(o, clients, board) = (clients \ {x}) \cup {Granted(x, board)}
    BY <1>2, <1>4 DEF Outcome
  <2>2. /\ Granted(x, board) \in Clients
        /\ Becomes(x, Granted(x, board), o, board)
    BY <1>2, <1>4 DEF Granted, Clients, Operations, Becomes
  <2>. QED
    BY <1>2, <2>1, <2>2
<1>. QED
  BY <1>3, <1>4

\* What the file is after a call replaced it.
Successor(o, clients, board, new) ==
  /\ new \in SUBSET Clients
  /\ TokensOf(new) \subseteq TokensOf(clients) \cup ({o.token} \ {Nothing})
  /\ Replaces(o) => o.token \in TokensOf(new)
  /\ \A x, y \in new : x.name = y.name => x = y
  /\ \A x, y \in new : x.token = y.token => x = y
  /\ o.kind = "grant" =>
       \E x \in new : x.kind = "account" /\ board \in x.rooms /\ x \in Targets(o, new)
  /\ \A x \in new : \A b \in x.rooms :
       \/ b \in o.rooms
       \/ o.kind = "grant" /\ b = board
       \/ \E y \in clients : b \in y.rooms
  /\ o.pin # Nothing => \A x \in clients : x.token # o.pin => x \in new

LEMMA OutcomeIsSuccessor ==
  ASSUME NEW clients \in SUBSET Clients, NEW o \in Operations, NEW board,
         \A x, y \in clients : x.name = y.name => x = y,
         \A x, y \in clients : x.token = y.token => x = y,
         o.kind # "none", o.name \in Names,
         o.token \in Tokens <=> Replaces(o),
         o.token \notin TokensOf(clients),
         o.kind = "grant" => board \in Boards,
         Stands(o, clients)
  PROVE  Successor(o, clients, board, Outcome(o, clients, board))
<1> DEFINE new == Outcome(o, clients, board)
<1>0. Nothing \notin Tokens
  BY StoreAssumption
<1>1. CASE o.kind \in {"create", "createAccount"}
  <2> DEFINE n == NewClient(o)
  <2>0. Replaces(o) /\ o.token \in Tokens /\ o.token # Nothing
    BY <1>0, <1>1 DEF Replaces
  <2>1. /\ new = clients \cup {n} /\ n \in Clients /\ n.name = o.name
        /\ n.token = o.token /\ n.rooms = o.rooms
    BY <1>1, <2>0, OutcomeOfCreate
  <2>2. \A x \in clients : x.name # n.name /\ x.token # n.token
    BY <1>1, <2>1 DEF Stands, NameIsFree, TokensOf
  <2> HIDE DEF n, new
  <2>3. Successor(o, clients, board, new)
    BY <1>1, <2>0, <2>1, <2>2 DEF Successor, TokensOf
  <2>. QED
    BY <2>3 DEF new
<1>2. CASE o.kind = "revoke"
  <2>1. new = clients \ Targets(o, clients)
    BY <1>2, OutcomeOfRevoke
  <2>. QED
    BY <1>2, <2>1 DEF Successor, TokensOf, Targets, Replaces
<1>3. CASE o.kind \in {"rotate", "grant"}
  <2>0. o.kind = "rotate" => o.token \in Tokens /\ o.token # Nothing
    BY <1>0 DEF Replaces
  <2>1. PICK x \in clients, y \in Clients :
          /\ Targets(o, clients) = {x}
          /\ new = (clients \ {x}) \cup {y}
          /\ Becomes(x, y, o, board)
    <3>1. Targets(o, clients) # {}
      BY <1>3 DEF Stands
    <3>. QED
      BY <1>3, <2>0, <3>1, OutcomeOfChange
  <2> HIDE DEF new
  <2>2. /\ new \in SUBSET Clients
        /\ \A u, v \in new : u.name = v.name => u = v
    BY <2>1 DEF Becomes
  <2>3. y.token = IF o.kind = "rotate" THEN o.token ELSE x.token
    BY <1>3, <2>1 DEF Becomes
  <2>4. /\ TokensOf(new) \subseteq TokensOf(clients) \cup ({o.token} \ {Nothing})
        /\ Replaces(o) => o.token \in TokensOf(new)
        /\ \A u, v \in new : u.token = v.token => u = v
    BY <1>3, <2>0, <2>1, <2>3 DEF TokensOf, Replaces
  <2>5. /\ o.kind = "grant" => y.kind = "account" /\ board \in y.rooms /\ y \in Targets(o, new)
        /\ \A b \in y.rooms : b \in x.rooms \/ (o.kind = "grant" /\ b = board)
    <3>1. x \in Targets(o, clients) /\ x.name = o.name /\ (o.pin # Nothing => x.token = o.pin)
      BY <2>1 DEF Targets
    <3>. QED
      BY <1>3, <2>1, <3>1 DEF Stands, Becomes, Targets
  <2>6. o.pin # Nothing => x.token = o.pin
    BY <2>1 DEF Targets
  <2>7. /\ \A u \in new : \A b \in u.rooms :
              \/ o.kind = "grant" /\ b = board
              \/ \E w \in clients : b \in w.rooms
        /\ o.pin # Nothing => \A u \in clients : u.token # o.pin => u \in new
    BY <2>1, <2>5, <2>6
  <2>8. Successor(o, clients, board, new)
    BY <2>1, <2>2, <2>4, <2>5, <2>7 DEF Successor
  <2>. QED
    BY <2>8 DEF new
<1>. QED
  BY <1>1, <1>2, <1>3 DEF Operations

\* An operation takes out of the store what it is to put out of use, and no more.
LEMMA EndsAreDropped ==
  ASSUME NEW clients \in SUBSET Clients, NEW o \in Operations, NEW board,
         \A x, y \in clients : x.name = y.name => x = y,
         \A x, y \in clients : x.token = y.token => x = y,
         o.kind # "none", o.name \in Names,
         o.token \in Tokens <=> Replaces(o),
         o.token \notin TokensOf(clients),
         o.kind = "grant" => board \in Boards,
         Stands(o, clients)
  PROVE  Ends(o, clients) = TokensOf(clients) \ TokensOf(Outcome(o, clients, board))
<1> DEFINE new == Outcome(o, clients, board)
<1>1. CASE o.kind \in {"create", "createAccount"}
  <2>1. new = clients \cup {NewClient(o)}
    BY <1>1, OutcomeOfCreate DEF Replaces
  <2>. QED
    BY <1>1, <2>1 DEF Ends, TokensOf
<1>2. CASE o.kind = "revoke"
  <2>1. new = clients \ Targets(o, clients)
    BY <1>2, OutcomeOfRevoke
  <2>2. Targets(o, clients) \subseteq clients
    BY DEF Targets
  <2> HIDE DEF new
  <2>3. TokensOf(Targets(o, clients)) = TokensOf(clients) \ TokensOf(new)
    BY <2>1, <2>2 DEF TokensOf
  <2>. QED
    BY <1>2, <2>3 DEF Ends, new
<1>3. CASE o.kind \in {"rotate", "grant"}
  <2>1. PICK x \in clients, y \in Clients :
          /\ Targets(o, clients) = {x}
          /\ new = (clients \ {x}) \cup {y}
          /\ Becomes(x, y, o, board)
    <3>1. Targets(o, clients) # {}
      BY <1>3 DEF Stands
    <3>. QED
      BY <1>3, <3>1, OutcomeOfChange DEF Replaces
  <2> HIDE DEF new
  <2>2. y.token = IF o.kind = "rotate" THEN o.token ELSE x.token
    BY <1>3, <2>1 DEF Becomes
  <2>3. TokensOf(clients) \ TokensOf(new) = IF o.kind = "rotate" THEN {x.token} ELSE {}
    BY <1>3, <2>1, <2>2 DEF TokensOf
  <2>4. Ends(o, clients) = IF o.kind = "rotate" THEN {x.token} ELSE {}
    BY <1>3, <2>1 DEF Ends, TokensOf
  <2>. QED
    BY <2>3, <2>4 DEF new
<1>. QED
  BY <1>1, <1>2, <1>3 DEF Operations

\* At the rename the copy is the file.
LEMMA RenameToSuccessor ==
  ASSUME IInv, NEW c \in Callers, Rename(c)
  PROVE  /\ Successor(op[c], file, made[c], file')
         /\ file' = Outcome(op[c], file, made[c])
         /\ source[c] = file
         /\ retired' = retired \cup (TokensOf(file) \ TokensOf(file'))
         /\ fate' = FateAfter(op[c], file)
         /\ \A d \in Callers \ {c} : ~Mutating(d)
<1>1. /\ source[c] = file
      /\ \A d \in Callers \ {c} : ~Mutating(d)
  BY DEF IInv, Rename, OneWriter, Mutating
<1>2. /\ file' = Outcome(op[c], file, made[c])
      /\ retired' = retired \cup Ends(op[c], file)
      /\ fate' = FateAfter(op[c], file)
  BY <1>1 DEF Rename
<1>3. /\ file \in SUBSET Clients /\ op[c] \in Operations
      /\ op[c].kind # "none" /\ op[c].name \in Names
      /\ op[c].token \in Tokens <=> Replaces(op[c])
      /\ op[c].token \notin TokensOf(file)
      /\ op[c].kind = "grant" => made[c] \in Boards
      /\ Stands(op[c], file)
      /\ \A x, y \in file : x.name = y.name => x = y
      /\ \A x, y \in file : x.token = y.token => x = y
  BY DEF IInv, Rename, TypeOK, Started, OwnSecret, BoardMade, Checked, Accepted,
         OneClientPerName, OneClientPerToken
<1>4. Successor(op[c], file, made[c], Outcome(op[c], file, made[c]))
  BY <1>3, OutcomeIsSuccessor
<1>5. Ends(op[c], file) = TokensOf(file) \ TokensOf(Outcome(op[c], file, made[c]))
  BY <1>3, EndsAreDropped
<1>. QED
  BY <1>1, <1>2, <1>4, <1>5

LEMMA RenameKeeps == ASSUME IInv, NEW c \in Callers, Rename(c) PROVE IInv'
<1> USE DEF IInv
<1>1. /\ Successor(op[c], file, made[c], file')
      /\ retired' = retired \cup (TokensOf(file) \ TokensOf(file'))
      /\ fate' \in [Boards -> Fates]
      /\ \A d \in Callers \ {c} : ~Mutating(d)
  BY RenameToSuccessor DEF FateAfter, TypeOK, Fates
<1>2. /\ pc[c] = "replace" /\ pc' = [pc EXCEPT ![c] = "chmod"]
      /\ UNCHANGED <<lock, backups, accounts, now, op, source, made, result, issued, told>>
  BY DEF Rename, Goto
<1>3. /\ file' \in SUBSET Clients
      /\ TokensOf(file') \subseteq TokensOf(file) \cup ({op[c].token} \ {Nothing})
      /\ Replaces(op[c]) => op[c].token \in TokensOf(file')
      /\ op[c].kind = "grant" =>
           \E x \in file' : /\ x.kind = "account" /\ made[c] \in x.rooms
                            /\ x \in Targets(op[c], file')
  BY <1>1 DEF Successor
<1>4. TokensOf(file) \subseteq Tokens /\ TokensOf(file') \subseteq Tokens
  BY <1>3 DEF TypeOK, Clients, TokensOf
<1>5. /\ op[c].token \in issued \cup {Nothing}
      /\ op[c].token \notin TokensOf(file) \cup retired
      /\ op[c].token \in Tokens <=> Replaces(op[c])
      /\ op[c].token \in Tokens \cup {Nothing}
      /\ TokensOf(file) \cup retired \subseteq issued
  BY <1>2 DEF OwnSecret, Started, TypeOK, Operations
<1>6. TypeOK'
  <2>1. retired' \in SUBSET Tokens
    BY <1>1, <1>4 DEF TypeOK
  <2>. QED
    BY <1>1, <1>2, <1>3, <2>1 DEF TypeOK, Steps, accounts
<1>7. OneWriter'
  BY <1>1, <1>2 DEF OneWriter, Mutating, TypeOK
<1>8. Started' /\ Saved' /\ Checked'
  BY <1>1, <1>2 DEF Started, Saved, Checked, Accepted, Mutating, TypeOK, Replaces
<1>9. BoardMade'
  <2>1. (made[c] # Nothing => GrantedTo(op[c], made[c]))'
    BY <1>2, <1>3 DEF BoardMade, GrantedTo, OfKind
  <2>2. \A d \in Callers \ {c} : pc'[d] # "chmod"
    BY <1>1, <1>2 DEF Mutating, TypeOK
  <2>. QED
    BY <1>2, <2>1, <2>2 DEF BoardMade, TypeOK
<1>10. RoomsExist'
  <2>1. \A d \in Callers : ~Accepted(d)'
    BY <1>1, <1>2 DEF Accepted, Mutating, TypeOK
  <2>. QED
    BY <1>2, <2>1 DEF RoomsExist, accounts
<1>11. OwnSecret'
  <2>1. (TokensOf(file) \cup retired \subseteq issued)'
    BY <1>1, <1>2, <1>3, <1>5 DEF TokensOf
  <2>2. \A d \in Callers :
          pc'[d] \in {"lock", "read", "decide", "backup", "replace"} =>
            op[d].token \notin TokensOf(file') \cup retired'
    <3> SUFFICES ASSUME NEW d \in Callers,
                        pc'[d] \in {"lock", "read", "decide", "backup", "replace"}
                 PROVE  op[d].token \notin TokensOf(file') \cup retired'
      OBVIOUS
    <3>1. d # c /\ pc'[d] = pc[d]
      BY <1>2 DEF TypeOK
    <3>2. op[d].token \notin TokensOf(file) \cup retired
      BY <3>1 DEF OwnSecret
    <3>3. op[d].token = op[c].token => op[c].token = Nothing
      BY <3>1 DEF OwnSecret
    <3>. QED
      BY <1>1, <1>3, <3>2, <3>3
  <2>3. \A d \in Callers : op'[d] = op[d]
    BY <1>2
  <2>4. TokensOf(file)' = TokensOf(file')
    BY DEF TokensOf
  <2>. QED
    BY <1>2, <2>1, <2>2, <2>3, <2>4 DEF OwnSecret
<1>12. Written' /\ AnswersHold' /\ RetiredStayDead'
  <2>1. TokensOf(file)' = TokensOf(file')
    BY DEF TokensOf
  <2>2. Written'
    BY <1>1, <1>2, <1>3, <1>5, <2>1 DEF Written, Mutating, TypeOK
  <2>3. AnswersHold'
    BY <1>1, <1>2, <2>1 DEF AnswersHold
  <2>4. RetiredStayDead'
    BY <1>1, <1>3, <1>5, <2>1 DEF RetiredStayDead
  <2>. QED
    BY <2>2, <2>3, <2>4
<1>13. OneClientPerName' /\ OneClientPerToken'
  BY <1>1 DEF Successor, OneClientPerName, OneClientPerToken
<1>. QED
  BY <1>6, <1>7, <1>8, <1>9, <1>10, <1>11, <1>12, <1>13

-----------------------------------------------------------------------------
(* Theorems.                                                               *)

LEMMA NextKeeps == IInv /\ [Next]_vars => IInv'
<1> SUFFICES ASSUME IInv, [Next]_vars PROVE IInv'
  OBVIOUS
<1>1. ASSUME NEW c \in Callers,
             \/ StartCreate(c) \/ StartCreateAccount(c) \/ StartRevoke(c)
             \/ StartRotate(c) \/ StartGrant(c)
      PROVE  IInv'
  BY <1>1, StartsAreStartable, StartKeeps DEF IInv
<1>2. ASSUME NEW c \in Callers, Step(c) PROVE IInv'
  BY <1>2, AcquireKeeps, EndingKeeps, ReadKeeps, SettlingStepKeeps, DecideKeeps, BackUpKeeps,
     RenameKeeps DEF Step
<1>3. ASSUME NEW c \in Callers, Crash(c) PROVE IInv'
  BY <1>3, EndingKeeps
<1>. QED
  BY <1>1, <1>2, <1>3, AroundKeeps DEF Next

\* The inductive invariant, which every theorem below rests on.
THEOREM Invariance == Spec => []IInv
BY InitIsSound, NextKeeps, PTL DEF Spec

\* The type invariant, whoever crashes and whatever fails.
THEOREM TypeCorrect == Spec => []TypeOK
<1>1. IInv => TypeOK
  BY DEF IInv
<1>. QED
  BY <1>1, Invariance, PTL

\* Between any number of processes, one call at a time changes the store, on the
\* store as it is.
THEOREM MutualExclusion == Spec => []OneWriter
<1>1. IInv => OneWriter
  BY DEF IInv
<1>. QED
  BY <1>1, Invariance, PTL

\* A secret that was handed out works until it is revoked or rotated.
THEOREM AnswersAreKept == Spec => []AnswersHold
<1>1. IInv => AnswersHold
  BY DEF IInv
<1>. QED
  BY <1>1, Invariance, PTL

\* No stale copy of the store brings a retired secret back.
THEOREM RetiredSecretsStayDead == Spec => []RetiredStayDead
<1>1. IInv => RetiredStayDead
  BY DEF IInv
<1>. QED
  BY <1>1, Invariance, PTL

\* Racing creations never share a name.
THEOREM NamesAreUnique == Spec => []OneClientPerName
<1>1. IInv => OneClientPerName
  BY DEF IInv
<1>. QED
  BY <1>1, Invariance, PTL

-----------------------------------------------------------------------------
(* What a step does to the file.                                           *)

LEMMA OnlyRenameWrites ==
  ASSUME [Next]_vars
  PROVE  UNCHANGED <<file, retired>> \/ \E c \in Callers : Rename(c)
<1>1. ASSUME NEW c \in Callers, Step(c) PROVE UNCHANGED <<file, retired>> \/ Rename(c)
  BY <1>1 DEF Step, AcquireMutationLock, Locked, LockNotInitialised, ReadStore, ReadFails,
     Decide, Reject, BackUpStore, BackUpFails, WriteFails, Chmod, ChmodFails, ConfirmGrant,
     RollBackGrant, RollBackFails, Release, ReleaseFails, ghosts
<1>2. ASSUME NEW c \in Callers,
             \/ StartCreate(c) \/ StartCreateAccount(c) \/ StartRevoke(c)
             \/ StartRotate(c) \/ StartGrant(c) \/ Crash(c)
      PROVE  UNCHANGED <<file, retired>>
  BY <1>2 DEF StartCreate, StartCreateAccount, StartRevoke, StartRotate, StartGrant, Start,
     Crash, ghosts
<1>3. \/ RemoveStaleLock \/ (\E b \in Boards : DeleteBoard(b) \/ RestoreBoard(b))
      \/ (\E u \in Users : SetUserDisabled(u)) \/ Tick \/ UNCHANGED vars
      => UNCHANGED <<file, retired>>
  BY DEF RemoveStaleLock, DeleteBoard, RestoreBoard, SetUserDisabled, Tick, vars, ghosts
<1>. QED
  BY <1>1, <1>2, <1>3 DEF Next

\* A call that pins a credential never reaches another that took over its name.
THEOREM PinsAreKept == Spec => PinnedOnly
<1>1. ASSUME IInv, [Next]_vars, NEW c \in Callers,
             pc[c] = "replace", pc'[c] = "chmod", op[c].pin # Nothing,
             NEW x \in file, x.token # op[c].pin
      PROVE  x \in file'
  <2>1. CASE UNCHANGED <<file, retired>>
    BY <2>1
  <2>2. CASE \E d \in Callers : Rename(d)
    <3>1. Rename(c)
      <4>1. PICK d \in Callers : Rename(d)
        BY <2>2
      <4>2. \A e \in Callers \ {d} : ~Mutating(e)
        BY <1>1, <4>1, RenameToSuccessor
      <4>. QED
        BY <1>1, <4>1, <4>2 DEF Mutating
    <3>. QED
      BY <1>1, <3>1, RenameToSuccessor DEF Successor
  <2>. QED
    BY <1>1, <2>1, <2>2, OnlyRenameWrites
<1>2. IInv /\ [Next]_vars =>
        \A c \in Callers :
          pc[c] = "replace" /\ pc'[c] = "chmod" /\ op[c].pin # Nothing =>
            \A x \in file : x.token # op[c].pin => x \in file'
  BY <1>1
<1>. QED
  BY <1>2, Invariance, PTL DEF Spec, PinnedOnly

\* Every store that was ever replaced is in a backup, whatever failed since.
THEOREM StoresAreBackedUp == Spec => BackedUpFirst
<1>1. ASSUME IInv, [Next]_vars, file' # file
      PROVE  file \in backups
  <2>1. PICK c \in Callers : Rename(c)
    BY <1>1, OnlyRenameWrites
  <2>. QED
    BY <1>1, <2>1 DEF IInv, Saved, Rename
<1>2. IInv /\ [Next]_vars => (file' # file => file \in backups)
  BY <1>1
<1>. QED
  BY <1>2, Invariance, PTL DEF Spec, BackedUpFirst

-----------------------------------------------------------------------------
(* The abstract store.                                                     *)

LEMMA RenameRefines ==
  ASSUME IInv, NEW c \in Callers, Rename(c)
  PROVE  [Registry!Next]_<<file, retired>>
<1> DEFINE o == op[c]
<1>1. /\ file' = Outcome(o, file, made[c])
      /\ retired' = retired \cup (TokensOf(file) \ TokensOf(file'))
  BY RenameToSuccessor
<1>2. /\ file \in SUBSET Clients /\ o \in Operations
      /\ o.kind # "none" /\ o.name \in Names
      /\ o.token \in Tokens <=> Replaces(o)
      /\ o.token \notin TokensOf(file) \cup retired
      /\ o.kind = "grant" =>
           made[c] \in Boards /\ \A x \in file : made[c] \notin x.rooms
      /\ Stands(o, file)
      /\ \A x, y \in file : x.name = y.name => x = y
      /\ \A x, y \in file : x.token = y.token => x = y
  BY StoreAssumption DEF IInv, Rename, TypeOK, Started, OwnSecret, BoardMade, RoomsExist,
     Checked, Accepted, OneClientPerName, OneClientPerToken
<1>3. Registry!TokensOf(file) = TokensOf(file)
  BY DEF Registry!TokensOf, TokensOf
<1> HIDE DEF o
<1>4. CASE o.kind \in {"create", "createAccount"}
  <2> DEFINE n == NewClient(o)
  <2>1. /\ file' = file \cup {n} /\ n.name = o.name /\ n.token = o.token
    BY <1>1, <1>2, <1>4, OutcomeOfCreate DEF Replaces
  <2> HIDE DEF n
  <2>2. \A y \in file : y.name # n.name
    BY <1>2, <1>4, <2>1 DEF Stands, NameIsFree
  <2>3. retired' = retired
    BY <1>1, <2>1 DEF TokensOf
  <2>4. Registry!Add(n) /\ n \in file'
    BY <1>2, <1>3, <2>1, <2>2, <2>3 DEF Registry!Add, Registry!Fresh
  <2>. QED
    BY <2>4 DEF Registry!Next
<1>5. CASE o.kind = "revoke"
  <2>1. file' = file \ Targets(o, file)
    BY <1>1, <1>5, OutcomeOfRevoke
  <2>2. CASE Targets(o, file) = {}
    BY <1>1, <2>1, <2>2
  <2>3. CASE Targets(o, file) # {}
    <3>1. PICK x \in file : Targets(o, file) = {x}
      BY <1>2, <2>3 DEF Targets
    <3>2. retired' = retired \cup {x.token}
      <4>1. TokensOf(file) \ TokensOf(file') = {x.token}
        BY <1>2, <2>1, <3>1 DEF TokensOf
      <4>. QED
        BY <1>1, <4>1
    <3>3. Registry!Remove(x)
      BY <2>1, <3>1, <3>2 DEF Registry!Remove
    <3>. QED
      BY <3>3 DEF Registry!Next
  <2>. QED
    BY <2>2, <2>3
<1>6. CASE o.kind \in {"rotate", "grant"}
  <2>1. PICK x \in file, y \in Clients :
          /\ file' = (file \ {x}) \cup {y}
          /\ Targets(o, file) = {x}
          /\ Becomes(x, y, o, made[c])
    <3>1. Targets(o, file) # {}
      BY <1>2, <1>6 DEF Stands
    <3>. QED
      BY <1>1, <1>2, <1>6, <3>1, OutcomeOfChange DEF Replaces
  <2>2. x \in Clients /\ y \in file'
    BY <1>2, <2>1
  <2>3. CASE o.kind = "rotate"
    <3>1. y.token = o.token
      BY <2>1, <2>3 DEF Becomes
    <3>2. [y EXCEPT !.token = x.token, !.expiry = x.expiry] = x
      BY <2>1, <2>2, <2>3 DEF Becomes, Clients
    <3>3. retired' = retired \cup {x.token}
      <4>1. TokensOf(file) \ TokensOf(file') = {x.token}
        BY <1>2, <2>1, <3>1 DEF TokensOf
      <4>. QED
        BY <1>1, <4>1
    <3>4. Registry!Rotate(x, y)
      BY <1>2, <1>3, <2>1, <3>1, <3>2, <3>3 DEF Registry!Rotate, Registry!Fresh
    <3>. QED
      BY <2>2, <3>4 DEF Registry!Next
  <2>4. CASE o.kind = "grant"
    <3>1. x.kind = "account"
      BY <1>2, <2>1, <2>4 DEF Stands
    <3>2. y = [x EXCEPT !.rooms = @ \cup {made[c]}]
      BY <2>1, <2>2, <2>4 DEF Becomes, Clients
    <3>3. retired' = retired
      <4>1. TokensOf(file) \ TokensOf(file') = {}
        BY <2>1, <2>4 DEF TokensOf, Becomes
      <4>. QED
        BY <1>1, <4>1
    <3>4. Registry!Grant(x, made[c])
      BY <1>2, <2>1, <2>4, <3>1, <3>2, <3>3 DEF Registry!Grant
    <3>5. made[c] \in UNION {z.rooms : z \in file'}
      BY <2>1, <2>2, <2>4 DEF Becomes
    <3>. QED
      BY <3>4, <3>5 DEF Registry!Next
  <2>. QED
    BY <1>6, <2>3, <2>4
<1>. QED
  BY <1>2, <1>4, <1>5, <1>6 DEF Operations

\* Calls that interleave, crash and fail amount to operations on a set of
\* credentials, each of them at once, with secrets that never come back.
THEOREM StoreImplementsRegistry == Spec => ImplementsTokenRegistry
<1>1. Init => Registry!Init
  BY DEF Init, Registry!Init
<1>2. IInv /\ [Next]_vars => [Registry!Next]_<<file, retired>>
  <2> SUFFICES ASSUME IInv, [Next]_vars PROVE [Registry!Next]_<<file, retired>>
    OBVIOUS
  <2>. QED
    BY OnlyRenameWrites, RenameRefines
<1>. QED
  BY <1>1, <1>2, Invariance, PTL DEF Spec, ImplementsTokenRegistry, Registry!Spec

-----------------------------------------------------------------------------
(* The caps.                                                               *)

Finite == IsFiniteSet(file) /\ \A x \in file : IsFiniteSet(x.rooms)

Capped == Finite /\ CapsHold

\* A set does not grow when one element takes the place of another.
LEMMA OneForAnother ==
  ASSUME NEW S, IsFiniteSet(S), NEW x \in S, NEW y
  PROVE  /\ IsFiniteSet((S \ {x}) \cup {y})
         /\ Cardinality((S \ {x}) \cup {y}) <= Cardinality(S)
<1>1. /\ IsFiniteSet(S \ {x}) /\ Cardinality(S \ {x}) = Cardinality(S) - 1
      /\ Cardinality(S) \in Nat /\ Cardinality(S \ {x}) \in Nat
  BY FS_RemoveElement, FS_CardinalityType
<1>2. /\ IsFiniteSet((S \ {x}) \cup {y})
      /\ Cardinality((S \ {x}) \cup {y}) \in {Cardinality(S \ {x}), Cardinality(S \ {x}) + 1}
  BY <1>1, FS_AddElement
<1>. QED
  BY <1>1, <1>2

\* Room for one more is enough for one more.
LEMMA OneMore ==
  ASSUME NEW S, IsFiniteSet(S), NEW y, NEW cap \in Nat, Cardinality(S) < cap
  PROVE  IsFiniteSet(S \cup {y}) /\ Cardinality(S \cup {y}) <= cap
<1>1. /\ IsFiniteSet(S \cup {y}) /\ Cardinality(S) \in Nat
      /\ Cardinality(S \cup {y}) \in {Cardinality(S), Cardinality(S) + 1}
  BY FS_AddElement, FS_CardinalityType
<1>. QED
  BY <1>1

LEMMA Shrinking ==
  ASSUME NEW S, NEW T \in SUBSET S, IsFiniteSet(S), NEW cap \in Nat, Cardinality(S) <= cap
  PROVE  IsFiniteSet(T) /\ Cardinality(T) <= cap
<1>1. /\ IsFiniteSet(T) /\ Cardinality(T) <= Cardinality(S)
      /\ Cardinality(S) \in Nat /\ Cardinality(T) \in Nat
  BY FS_Subset, FS_CardinalityType
<1>. QED
  BY <1>1

CapOf(kind) == IF kind = "client" THEN MaxClients ELSE MaxAccountClients

LEMMA RenameCaps == ASSUME IInv, Capped, NEW c \in Callers, Rename(c) PROVE Capped'
<1> DEFINE o == op[c]
<1>0. /\ MaxRooms \in Nat /\ 1 <= MaxRooms
      /\ \A kind : CapOf(kind) \in Nat
  BY StoreAssumption DEF CapOf
<1>1. file' = Outcome(o, file, made[c])
  BY RenameToSuccessor
<1>2. /\ file \in SUBSET Clients /\ o \in Operations
      /\ o.kind # "none" /\ o.name \in Names
      /\ o.token \in Tokens <=> Replaces(o)
      /\ o.kind = "grant" => made[c] \in Boards
      /\ Stands(o, file)
      /\ \A x, y \in file : x.name = y.name => x = y
      /\ IsFiniteSet(o.rooms) /\ Cardinality(o.rooms) <= MaxRooms
  BY DEF IInv, Rename, TypeOK, Started, BoardMade, Checked, Accepted, OneClientPerName
<1> HIDE DEF o
<1>3. ASSUME NEW kind \in {"client", "account"}
      PROVE  /\ IsFiniteSet(OfKind(kind, file))
             /\ Cardinality(OfKind(kind, file)) <= CapOf(kind)
  <2>1. OfKind(kind, file) \subseteq file
    BY DEF OfKind
  <2>2. Cardinality(OfKind(kind, file)) <= CapOf(kind)
    BY DEF Capped, CapsHold, CapOf
  <2>. QED
    BY <2>1, <2>2, FS_Subset DEF Capped, Finite
<1>4. SUFFICES /\ IsFiniteSet(file')
               /\ \A x \in file' : IsFiniteSet(x.rooms) /\ Cardinality(x.rooms) <= MaxRooms
               /\ \A kind \in {"client", "account"} :
                    Cardinality(OfKind(kind, file')) <= CapOf(kind)
  BY DEF Capped, Finite, CapsHold, CapOf, OfKind
<1>5. CASE o.kind \in {"create", "createAccount"}
  <2> DEFINE n == NewClient(o)
  <2>1. /\ file' = file \cup {n} /\ n.rooms = o.rooms
        /\ n.kind = IF o.kind = "create" THEN "client" ELSE "account"
    BY <1>1, <1>2, <1>5, OutcomeOfCreate DEF Replaces
  <2> HIDE DEF n
  <2>2. IsFiniteSet(file')
    BY <2>1, FS_AddElement DEF Capped, Finite
  <2>3. IsFiniteSet(n.rooms) /\ Cardinality(n.rooms) <= MaxRooms
    BY <1>2, <2>1
  <2>4. \A x \in file' : IsFiniteSet(x.rooms) /\ Cardinality(x.rooms) <= MaxRooms
    BY <2>1, <2>3 DEF Capped, Finite, CapsHold
  <2>5. ASSUME NEW kind \in {"client", "account"}
        PROVE  Cardinality(OfKind(kind, file')) <= CapOf(kind)
    <3>1. CASE kind = n.kind
      <4>1. Cardinality(OfKind(kind, file)) < CapOf(kind)
        BY <1>2, <1>5, <2>1, <3>1 DEF Stands, CapOf
      <4>2. OfKind(kind, file') = OfKind(kind, file) \cup {n}
        BY <2>1, <3>1 DEF OfKind
      <4>. QED
        BY <1>0, <1>3, <4>1, <4>2, OneMore
    <3>2. CASE kind # n.kind
      <4>1. OfKind(kind, file') = OfKind(kind, file)
        BY <2>1, <3>2 DEF OfKind
      <4>. QED
        BY <1>3, <4>1
    <3>. QED
      BY <3>1, <3>2
  <2>. QED
    BY <2>2, <2>4, <2>5
<1>6. CASE o.kind = "revoke"
  <2>1. file' \in SUBSET file
    BY <1>1, <1>6, OutcomeOfRevoke
  <2>2. IsFiniteSet(file')
    BY <2>1, FS_Subset DEF Capped, Finite
  <2>3. \A x \in file' : IsFiniteSet(x.rooms) /\ Cardinality(x.rooms) <= MaxRooms
    BY <2>1 DEF Capped, Finite, CapsHold
  <2>4. ASSUME NEW kind \in {"client", "account"}
        PROVE  Cardinality(OfKind(kind, file')) <= CapOf(kind)
    <3>1. OfKind(kind, file') \in SUBSET OfKind(kind, file)
      BY <2>1 DEF OfKind
    <3>. QED
      BY <1>0, <1>3, <3>1, Shrinking
  <2>. QED
    BY <2>2, <2>3, <2>4
<1>7. CASE o.kind \in {"rotate", "grant"}
  <2>1. PICK x \in file, y \in Clients :
          /\ file' = (file \ {x}) \cup {y}
          /\ Targets(o, file) = {x}
          /\ Becomes(x, y, o, made[c])
    <3>1. Targets(o, file) # {}
      BY <1>2, <1>7 DEF Stands
    <3>. QED
      BY <1>1, <1>2, <1>7, <3>1, OutcomeOfChange DEF Replaces
  <2>2. IsFiniteSet(file')
    BY <2>1, OneForAnother DEF Capped, Finite
  <2>3. IsFiniteSet(x.rooms) /\ Cardinality(x.rooms) <= MaxRooms
    BY DEF Capped, Finite, CapsHold
  <2>4. IsFiniteSet(y.rooms) /\ Cardinality(y.rooms) <= MaxRooms
    <3>1. CASE o.kind = "rotate"
      BY <2>1, <2>3, <3>1 DEF Becomes
    <3>2. CASE o.kind = "grant"
      <4>1. y.rooms = x.rooms \cup {made[c]} /\ Cardinality(x.rooms) < MaxRooms
        BY <1>2, <2>1, <3>2 DEF Becomes, Stands, RoomForOne
      <4>2. MaxRooms \in Nat /\ IsFiniteSet(x.rooms)
        BY <1>0, <2>3
      <4>3. /\ IsFiniteSet(x.rooms \cup {made[c]})
            /\ Cardinality(x.rooms \cup {made[c]}) <= MaxRooms
        BY <4>1, <4>2, OneMore
      <4>. QED
        BY <4>1, <4>3
    <3>. QED
      BY <1>7, <3>1, <3>2
  <2>5. \A z \in file' : IsFiniteSet(z.rooms) /\ Cardinality(z.rooms) <= MaxRooms
    BY <2>1, <2>4 DEF Capped, Finite, CapsHold
  <2>6. ASSUME NEW kind \in {"client", "account"}
        PROVE  Cardinality(OfKind(kind, file')) <= CapOf(kind)
    <3>1. y.kind = x.kind
      BY <2>1 DEF Becomes
    <3>2. CASE kind = x.kind
      <4>1. OfKind(kind, file') = (OfKind(kind, file) \ {x}) \cup {y} /\ x \in OfKind(kind, file)
        BY <2>1, <3>1, <3>2 DEF OfKind
      <4>2. Cardinality((OfKind(kind, file) \ {x}) \cup {y}) <= Cardinality(OfKind(kind, file))
        BY <1>3, <4>1, OneForAnother
      <4>3. /\ Cardinality((OfKind(kind, file) \ {x}) \cup {y}) \in Nat
            /\ Cardinality(OfKind(kind, file)) \in Nat
        BY <1>3, <4>1, OneForAnother, FS_CardinalityType
      <4>. QED
        BY <1>0, <1>3, <4>1, <4>2, <4>3
    <3>3. CASE kind # x.kind
      <4>1. OfKind(kind, file') = OfKind(kind, file)
        BY <2>1, <3>1, <3>3 DEF OfKind
      <4>. QED
        BY <1>3, <4>1
    <3>. QED
      BY <3>2, <3>3
  <2>. QED
    BY <2>2, <2>5, <2>6
<1>. QED
  BY <1>2, <1>5, <1>6, <1>7 DEF Operations

\* However many creations and grants race, no cap is exceeded.
THEOREM CapsAreKept == Spec => []CapsHold
<1>1. Init => Capped
  <2> SUFFICES ASSUME Init PROVE Capped
    OBVIOUS
  <2>1. file = {} /\ OfKind("client", file) = {} /\ OfKind("account", file) = {}
    BY DEF Init, OfKind
  <2>. QED
    BY <2>1, FS_EmptySet, StoreAssumption DEF Capped, Finite, CapsHold
<1>2. IInv /\ Capped /\ [Next]_vars => Capped'
  <2> SUFFICES ASSUME IInv, Capped, [Next]_vars PROVE Capped'
    OBVIOUS
  <2>1. CASE UNCHANGED <<file, retired>>
    BY <2>1 DEF Capped, Finite, CapsHold, OfKind
  <2>2. CASE \E c \in Callers : Rename(c)
    BY <2>2, RenameCaps
  <2>. QED
    BY <2>1, <2>2, OnlyRenameWrites
<1>3. Capped => CapsHold
  BY DEF Capped
<1>. QED
  BY <1>1, <1>2, <1>3, Invariance, PTL DEF Spec

-----------------------------------------------------------------------------
(* The answers to grants.                                                  *)

\* What is known of the board of a grant until the agent is answered: nothing is
\* said of it before the write, nobody else has it when the store is looked at,
\* and a call that is about to succeed has it in the file.
Underway(c) ==
  made[c] # Nothing =>
    /\ Accepted(c) => fate[made[c]] = "none"
    /\ pc[c] = "confirm" =>
         (made[c] \in GrantedBoards(file) => GrantedTo(op[c], made[c]))
    /\ pc[c] = "release" /\ result[c] = "ok" => made[c] \in GrantedBoards(file)

Fated ==
  /\ GrantAnswered
  /\ \A b \in Boards : boardState[b] = "none" => fate[b] = "none"
  /\ \A c \in Callers : Underway(c)

LEMMA GrantedToIsGranted ==
  ASSUME NEW o, NEW board, GrantedTo(o, board)
  PROVE  board \in GrantedBoards(file)
BY DEF GrantedTo, GrantedBoards, OfKind, Targets

\* A call goes on, with the same board or none.
GoesOn(c) ==
  made'[c] # Nothing =>
    /\ made'[c] = made[c] /\ op'[c] = op[c]
    /\ Accepted(c)' => Accepted(c)
    /\ pc'[c] = "confirm" => pc[c] \in {"backup", "replace", "chmod", "confirm"}
    /\ pc'[c] = "release" /\ result'[c] = "ok" =>
         \/ pc[c] = "release" /\ result[c] = "ok"
         \/ GrantedTo(op[c], made[c])

LEMMA GoingOnKeeps ==
  ASSUME IInv, Fated, UNCHANGED <<file, fate>>,
         \A c \in Callers : GoesOn(c),
         \A b \in Boards : boardState'[b] = "none" => boardState[b] = "none",
         \A b \in Boards : boardState[b] = "deleted" => boardState'[b] = "deleted"
  PROVE  Fated'
<1>1. GrantAnswered'
  BY DEF Fated, GrantAnswered, GrantedBoards, OfKind
<1>2. ASSUME NEW c \in Callers, made'[c] # Nothing PROVE Underway(c)'
  <2>1. GoesOn(c) /\ Underway(c)
    BY DEF Fated
  <2>2. /\ GrantedBoards(file)' = GrantedBoards(file)
        /\ made'[c] = made[c] /\ op'[c] = op[c]
        /\ GrantedTo(op[c], made[c])' <=> GrantedTo(op[c], made[c])
    BY <1>2, <2>1 DEF GoesOn, GrantedBoards, GrantedTo, OfKind, Targets
  <2>3. pc[c] \in {"backup", "replace"} => made[c] \notin GrantedBoards(file)
    BY <1>2, <2>2 DEF IInv, RoomsExist, Accepted, GrantedBoards, OfKind
  <2>4. pc[c] = "chmod" => GrantedTo(op[c], made[c])
    BY <1>2, <2>2 DEF IInv, BoardMade
  <2>5. GrantedTo(op[c], made[c]) => made[c] \in GrantedBoards(file)
    BY GrantedToIsGranted
  <2>. QED
    BY <1>2, <2>1, <2>2, <2>3, <2>4, <2>5 DEF Underway, GoesOn
<1>3. \A c \in Callers : Underway(c)'
  BY <1>2 DEF Underway
<1>. QED
  BY <1>1, <1>3 DEF Fated

\* The steps that answer nobody, write nothing and make no board.
LEMMA QuietStepKeepsFates ==
  ASSUME IInv, Fated, NEW c \in Callers,
         \/ AcquireMutationLock(c) \/ Locked(c) \/ LockNotInitialised(c)
         \/ ReadStore(c) \/ ReadFails(c) \/ Reject(c)
         \/ Decide(c) /\ op[c].kind # "grant"
         \/ BackUpStore(c) \/ BackUpFails(c) \/ WriteFails(c)
         \/ Chmod(c) \/ ChmodFails(c) \/ ConfirmGrant(c)
         \/ Crash(c)
  PROVE  Fated'
<1> USE DEF IInv, TypeOK
<1>1. /\ UNCHANGED <<file, fate>>
      /\ boardState' = boardState
  BY DEF AcquireMutationLock, Locked, LockNotInitialised, ReadStore, ReadFails, Reject, Decide,
     BackUpStore, BackUpFails, WriteFails, Chmod, ChmodFails, ConfirmGrant, Crash, ghosts,
     accounts
<1>2. \A d \in Callers : GoesOn(d)
  <2> SUFFICES ASSUME NEW d \in Callers, made'[d] # Nothing PROVE GoesOn(d)
    BY DEF GoesOn
  <2> USE DEF GoesOn, Accepted
  <2>1. CASE AcquireMutationLock(c) \/ ReadStore(c) \/ BackUpStore(c)
    BY <2>1 DEF AcquireMutationLock, ReadStore, BackUpStore, Goto
  <2>2. CASE Locked(c) \/ LockNotInitialised(c)
    BY <2>2 DEF Locked, LockNotInitialised, Return
  <2>3. CASE Decide(c) /\ op[c].kind # "grant"
    <3>1. made[c] = Nothing
      BY <2>3 DEF BoardMade, Decide
    <3>. QED
      BY <2>3, <3>1 DEF Decide, Goto
  <2>4. CASE ReadFails(c) \/ Reject(c) \/ BackUpFails(c) \/ WriteFails(c) \/ ChmodFails(c)
    BY <2>4 DEF ReadFails, Reject, BackUpFails, WriteFails, ChmodFails, Fail, Goto, Answer
  <2>5. CASE Chmod(c)
    BY <2>5 DEF Chmod, Answer, Goto, BoardMade
  <2>6. CASE ConfirmGrant(c)
    BY <2>6 DEF ConfirmGrant, GrantIsPersisted, Answer, Goto
  <2>7. CASE Crash(c)
    BY <2>7 DEF Crash
  <2>. QED
    BY <2>1, <2>2, <2>3, <2>4, <2>5, <2>6, <2>7
<1>. QED
  BY <1>1, <1>2, GoingOnKeeps

LEMMA StartKeepsFates ==
  ASSUME IInv, Fated, NEW c \in Callers, NEW o, Start(c, o)
  PROVE  Fated'
<1>1. UNCHANGED <<file, fate, boardState>>
  BY DEF Start, ghosts, accounts
<1>2. \A d \in Callers : GoesOn(d)
  BY DEF Start, GoesOn, Accepted, IInv, TypeOK, Started
<1>. QED
  BY <1>1, <1>2, GoingOnKeeps

\* prepare draws a board that nothing was said of.
LEMMA PrepareKeepsFates ==
  ASSUME IInv, Fated, NEW c \in Callers, Decide(c), op[c].kind = "grant"
  PROVE  Fated'
<1> USE DEF IInv, TypeOK
<1>1. PICK board \in Boards :
        /\ Unused(board)
        /\ boardState' = [boardState EXCEPT ![board] = "live"]
        /\ made' = [made EXCEPT ![c] = board]
  BY DEF Decide
<1>2. /\ UNCHANGED <<file, fate, op, result>>
      /\ pc[c] = "decide" /\ pc' = [pc EXCEPT ![c] = "backup"]
  BY DEF Decide, Goto, ghosts
<1>3. boardState[board] = "none" /\ fate[board] = "none"
  BY <1>1 DEF Fated, Unused
<1>4. GrantAnswered'
  BY <1>1, <1>2, <1>3 DEF Fated, GrantAnswered, GrantedBoards, OfKind
<1>5. \A b \in Boards : boardState'[b] = "none" => fate'[b] = "none"
  BY <1>1, <1>2 DEF Fated
<1>6. ASSUME NEW d \in Callers PROVE Underway(d)'
  <2>1. CASE d = c
    BY <1>1, <1>2, <1>3, <2>1 DEF Underway, Accepted
  <2>2. CASE d # c
    <3>1. made'[d] = made[d] /\ pc'[d] = pc[d] /\ op'[d] = op[d] /\ result'[d] = result[d]
      BY <1>1, <1>2, <2>2
    <3>2. Underway(d)
      BY DEF Fated
    <3>. QED
      BY <1>2, <3>1, <3>2 DEF Underway, Accepted, GrantedBoards, GrantedTo, OfKind, Targets
  <2>. QED
    BY <2>1, <2>2
<1>. QED
  BY <1>4, <1>5, <1>6 DEF Fated

\* A call says what came of its board: nobody else has one underway.
LEMMA SayingKeeps ==
  ASSUME IInv, Fated, NEW c \in Callers, Mutating(c), file' = file,
         NEW what \in Fates,
         fate' = [fate EXCEPT ![made[c]] = what] \/ fate' = fate,
         fate' # fate =>
           /\ made[c] \in Boards
           /\ what \in {"created", "disowned"} => made[c] \in GrantedBoards(file)
           /\ what \in {"removed", "left"} => made[c] \notin GrantedBoards(file)
           /\ what = "removed" => boardState'[made[c]] = "deleted",
         \A b \in Boards : boardState'[b] = "none" => boardState[b] = "none",
         \A b \in Boards : boardState[b] = "deleted" => boardState'[b] = "deleted",
         \A d \in Callers \ {c} : made'[d] = made[d],
         made'[c] = Nothing \/ (pc'[c] = "release" /\ result'[c] = "failed")
  PROVE  Fated'
<1> USE DEF IInv, TypeOK
<1>1. \A d \in Callers \ {c} : made[d] = Nothing
  BY DEF OneWriter, Mutating, BoardMade, Started
<1>2. \A d \in Callers : Underway(d)'
  BY <1>1 DEF Underway, Accepted
<1>3. GrantedBoards(file)' = GrantedBoards(file)
  BY DEF GrantedBoards, OfKind
<1>4. \A b \in Boards : boardState'[b] = "none" => fate'[b] = "none"
  BY StoreAssumption DEF RoomsExist, Fated
<1>5. ASSUME NEW b \in Boards
      PROVE  /\ fate'[b] \in {"created", "disowned"} => b \in GrantedBoards(file)
             /\ fate'[b] \in {"removed", "left"} => b \notin GrantedBoards(file)
             /\ fate'[b] = "removed" => boardState'[b] = "deleted"
  <2>1. /\ fate[b] \in {"created", "disowned"} => b \in GrantedBoards(file)
        /\ fate[b] \in {"removed", "left"} => b \notin GrantedBoards(file)
        /\ fate[b] = "removed" => boardState[b] = "deleted"
    BY DEF Fated, GrantAnswered
  <2>2. CASE fate'[b] = fate[b]
    BY <2>1, <2>2
  <2>3. CASE fate'[b] # fate[b]
    <3>1. b = made[c] /\ fate'[b] = what
      BY <2>3
    <3>. QED
      BY <2>3, <3>1
  <2>. QED
    BY <2>2, <2>3
<1>6. GrantAnswered'
  BY <1>3, <1>5 DEF GrantAnswered
<1>. QED
  BY <1>2, <1>4, <1>6 DEF Fated

LEMMA AnsweringKeepsFates ==
  ASSUME "readback" \notin Faults, IInv, Fated, NEW c \in Callers,
         RollBackGrant(c) \/ RollBackFails(c) \/ Release(c) \/ ReleaseFails(c)
  PROVE  Fated'
<1> USE DEF IInv, TypeOK
<1>1. Mutating(c) /\ file' = file /\ \A d \in Callers \ {c} : made'[d] = made[d]
  BY DEF RollBackGrant, RollBackFails, Release, ReleaseFails, Return, Mutating, Answer, Goto
<1>2. CASE RollBackGrant(c) \/ RollBackFails(c)
  <2>1. made[c] \in Boards /\ made[c] # Nothing
    BY <1>2, StoreAssumption DEF RollBackGrant, RollBackFails, BoardMade, Started
  <2>2. made[c] \notin GrantedBoards(file)
    BY <1>2, <2>1 DEF RollBackGrant, RollBackFails, TakenForLost, GrantIsPersisted, Fated,
       Underway
  <2>3. pc'[c] = "release" /\ result'[c] = "failed"
    BY <1>2 DEF RollBackGrant, RollBackFails, Answer, Goto
  <2>4. CASE RollBackGrant(c)
    <3>1. /\ boardState' = [boardState EXCEPT ![made[c]] = "deleted"]
          /\ fate' = [fate EXCEPT ![made[c]] = "removed"]
      BY <2>4 DEF RollBackGrant
    <3>. QED
      BY <1>1, <2>1, <2>2, <2>3, <3>1, SayingKeeps DEF Fates
  <2>5. CASE RollBackFails(c)
    <3>1. boardState' = boardState /\ fate' = [fate EXCEPT ![made[c]] = "left"]
      BY <2>5 DEF RollBackFails, accounts
    <3>. QED
      BY <1>1, <2>1, <2>2, <2>3, <3>1, SayingKeeps DEF Fates
  <2>. QED
    BY <1>2, <2>4, <2>5
<1>3. CASE Release(c) \/ ReleaseFails(c)
  <2>1. made'[c] = Nothing /\ boardState' = boardState /\ pc[c] = "release"
    BY <1>3 DEF Release, ReleaseFails, Return, accounts
  <2>2. PICK what \in {"created", "disowned"} : GrantIs(c, what)
    BY <1>3 DEF Release, ReleaseFails
  <2>3. result[c] = "ok" /\ made[c] # Nothing =>
          made[c] \in Boards /\ made[c] \in GrantedBoards(file)
    BY <2>1 DEF Fated, Underway
  <2>. QED
    BY <1>1, <2>1, <2>2, <2>3, SayingKeeps DEF GrantIs, Fates
<1>. QED
  BY <1>2, <1>3

\* What a write does to the boards that agents have.
LEMMA RenameGrants ==
  ASSUME IInv, NEW c \in Callers, Rename(c)
  PROVE  /\ GrantedBoards(file') \subseteq
              GrantedBoards(file) \cup (IF op[c].kind = "grant" THEN {made[c]} ELSE {})
         /\ GrantedBoards(file) \subseteq
              GrantedBoards(file') \cup (IF op[c].kind = "revoke"
                                           THEN GrantedBoards(Targets(op[c], file))
                                           ELSE {})
<1> DEFINE o == op[c]
<1>1. file' = Outcome(o, file, made[c])
  BY RenameToSuccessor
<1>2. /\ file \in SUBSET Clients /\ o \in Operations
      /\ o.kind # "none" /\ o.name \in Names
      /\ o.token \in Tokens <=> Replaces(o)
      /\ o.kind = "grant" => made[c] \in Boards
      /\ o.kind = "createAccount" => o.rooms = {}
      /\ Stands(o, file)
      /\ \A x, y \in file : x.name = y.name => x = y
  BY DEF IInv, Rename, TypeOK, Started, BoardMade, Checked, Accepted, OneClientPerName
<1> HIDE DEF o
<1>3. CASE o.kind \in {"create", "createAccount"}
  <2>1. /\ file' = file \cup {NewClient(o)} /\ NewClient(o).rooms = o.rooms
        /\ NewClient(o).kind = IF o.kind = "create" THEN "client" ELSE "account"
    BY <1>1, <1>2, <1>3, OutcomeOfCreate DEF Replaces
  <2>2. GrantedBoards(file') = GrantedBoards(file)
    BY <1>2, <1>3, <2>1 DEF GrantedBoards, OfKind
  <2>. QED
    BY <2>2
<1>4. CASE o.kind = "revoke"
  <2>1. file' = file \ Targets(o, file)
    BY <1>1, <1>4, OutcomeOfRevoke
  <2>. QED
    BY <1>4, <2>1 DEF GrantedBoards, OfKind, o
<1>5. CASE o.kind \in {"rotate", "grant"}
  <2>1. PICK x \in file, y \in Clients :
          /\ file' = (file \ {x}) \cup {y}
          /\ Targets(o, file) = {x}
          /\ Becomes(x, y, o, made[c])
    <3>1. Targets(o, file) # {}
      BY <1>2, <1>5 DEF Stands
    <3>. QED
      BY <1>1, <1>2, <1>5, <3>1, OutcomeOfChange DEF Replaces
  <2>2. /\ y.kind = x.kind
        /\ y.rooms = x.rooms \cup (IF o.kind = "grant" THEN {made[c]} ELSE {})
    BY <1>5, <2>1 DEF Becomes
  <2>. QED
    BY <1>5, <2>1, <2>2 DEF GrantedBoards, OfKind, o
<1>. QED
  BY <1>2, <1>3, <1>4, <1>5 DEF Operations

LEMMA RenameKeepsFates == ASSUME IInv, Fated, NEW c \in Callers, Rename(c) PROVE Fated'
<1> USE DEF IInv, TypeOK
<1>1. /\ fate' = FateAfter(op[c], file)
      /\ \A d \in Callers \ {c} : ~Mutating(d)
  BY RenameToSuccessor
<1>2. /\ pc[c] = "replace" /\ pc' = [pc EXCEPT ![c] = "chmod"]
      /\ UNCHANGED <<boardState, made>>
  BY DEF Rename, Goto, accounts
<1>3. \A d \in Callers : Underway(d)'
  <2>1. \A d \in Callers \ {c} : made[d] = Nothing
    BY <1>1 DEF Mutating, BoardMade, Started
  <2>. QED
    BY <1>2, <2>1 DEF Underway, Accepted
<1>4. \A b \in Boards :
        fate'[b] = IF op[c].kind = "revoke" /\ b \in GrantedBoards(Targets(op[c], file))
                     THEN "none" ELSE fate[b]
  BY <1>1 DEF FateAfter
<1>5. op[c].kind = "grant" => made[c] \in Boards /\ fate[made[c]] = "none"
  BY <1>2, StoreAssumption DEF BoardMade, Fated, Underway, Accepted
<1>6. GrantedBoards(file)' = GrantedBoards(file')
  BY DEF GrantedBoards, OfKind
<1>7. GrantAnswered'
  <2> SUFFICES ASSUME NEW b \in Boards
               PROVE  /\ fate'[b] \in {"created", "disowned"} => b \in GrantedBoards(file')
                      /\ fate'[b] \in {"removed", "left"} => b \notin GrantedBoards(file')
                      /\ fate'[b] = "removed" => boardState[b] = "deleted"
    BY <1>2, <1>6 DEF GrantAnswered
  <2>1. /\ fate[b] \in {"created", "disowned"} => b \in GrantedBoards(file)
        /\ fate[b] \in {"removed", "left"} => b \notin GrantedBoards(file)
        /\ fate[b] = "removed" => boardState[b] = "deleted"
    BY DEF Fated, GrantAnswered
  <2>2. fate'[b] = "none" \/ fate'[b] = fate[b]
    BY <1>4
  <2>3. fate'[b] \in {"created", "disowned"} => b \in GrantedBoards(file')
    BY <1>4, <2>1, RenameGrants
  <2>4. fate'[b] \in {"removed", "left"} => b \notin GrantedBoards(file')
    BY <1>5, <2>1, <2>2, RenameGrants
  <2>. QED
    BY <2>1, <2>2, <2>3, <2>4
<1>8. \A b \in Boards : boardState'[b] = "none" => fate'[b] = "none"
  BY <1>2, <1>4 DEF Fated
<1>. QED
  BY <1>3, <1>7, <1>8 DEF Fated

LEMMA AroundKeepsFates ==
  ASSUME IInv, Fated,
         \/ RemoveStaleLock
         \/ \E b \in Boards : DeleteBoard(b) \/ RestoreBoard(b)
         \/ \E u \in Users : SetUserDisabled(u)
         \/ Tick
         \/ UNCHANGED vars
  PROVE  Fated'
<1> USE DEF IInv, TypeOK
<1>1. ASSUME NEW b \in Boards, RestoreBoard(b) PROVE Fated'
  <2>1. /\ boardState' = [boardState EXCEPT ![b] = "live"]
        /\ boardState[b] = "deleted"
        /\ fate' = [fate EXCEPT ![b] = IF @ = "removed" THEN "left" ELSE @]
        /\ UNCHANGED <<file, calls>>
    BY <1>1 DEF RestoreBoard
  <2>2. GrantedBoards(file)' = GrantedBoards(file)
    BY <2>1 DEF GrantedBoards, OfKind
  <2>3. GrantAnswered'
    BY <2>1, <2>2 DEF Fated, GrantAnswered
  <2>4. \A d \in Callers : Underway(d)'
    <3> SUFFICES ASSUME NEW d \in Callers, made[d] # Nothing PROVE Underway(d)'
      BY <2>1 DEF Underway, calls
    <3>1. Underway(d) /\ made[d] \in Boards
      BY DEF Fated
    <3>2. fate[made[d]] = "none" => fate'[made[d]] = "none"
      BY <2>1, <3>1
    <3>3. GrantedTo(op[d], made[d])' <=> GrantedTo(op[d], made[d])
      BY <2>1 DEF GrantedTo, OfKind, Targets, calls
    <3>. QED
      BY <2>1, <2>2, <3>1, <3>2, <3>3 DEF Underway, Accepted, calls
  <2>5. \A d \in Boards : boardState'[d] = "none" => fate'[d] = "none"
    BY <2>1 DEF Fated
  <2>. QED
    BY <2>3, <2>4, <2>5 DEF Fated
<1>2. CASE \/ RemoveStaleLock \/ (\E b \in Boards : DeleteBoard(b))
           \/ (\E u \in Users : SetUserDisabled(u)) \/ Tick \/ UNCHANGED vars
  <2>1. /\ UNCHANGED <<file, fate, calls>>
        /\ \A b \in Boards : boardState'[b] = "none" => boardState[b] = "none"
        /\ \A b \in Boards : boardState[b] = "deleted" => boardState'[b] = "deleted"
    BY <1>2 DEF RemoveStaleLock, DeleteBoard, SetUserDisabled, Tick, vars, ghosts, accounts
  <2>2. \A d \in Callers : GoesOn(d)
    BY <2>1 DEF GoesOn, Accepted, calls
  <2>. QED
    BY <2>1, <2>2, GoingOnKeeps
<1>. QED
  BY <1>1, <1>2

\* As long as the store can be read back: what an agent is told of the board it
\* asked for is what the store says from then on, through whatever is written,
\* whoever crashes, and whatever else fails; only a lock that cannot be removed
\* makes a granted board be reported as refused.
THEOREM GrantsAreAnswered ==
  ASSUME "readback" \notin Faults
  PROVE  Spec => []GrantAnswered
<1>1. Init => Fated
  BY DEF Init, Fated, GrantAnswered, Underway
<1>2. IInv /\ Fated /\ [Next]_vars => Fated'
  <2> SUFFICES ASSUME IInv, Fated, [Next]_vars PROVE Fated'
    OBVIOUS
  <2>1. ASSUME NEW c \in Callers,
               \/ StartCreate(c) \/ StartCreateAccount(c) \/ StartRevoke(c)
               \/ StartRotate(c) \/ StartGrant(c)
        PROVE  Fated'
    BY <2>1, StartsAreStartable, StartKeepsFates DEF IInv
  <2>2. ASSUME NEW c \in Callers, Step(c) \/ Crash(c) PROVE Fated'
    BY <2>2, QuietStepKeepsFates, PrepareKeepsFates, AnsweringKeepsFates, RenameKeepsFates
       DEF Step
  <2>. QED
    BY <2>1, <2>2, AroundKeepsFates DEF Next
<1>3. Fated => GrantAnswered
  BY DEF Fated
<1>. QED
  BY <1>1, <1>2, <1>3, Invariance, PTL DEF Spec
=============================================================================
