------------------------------- MODULE Backup -------------------------------
(***************************************************************************)
(* Backups of a running service: scripts/backup-canvas-data.py copies the  *)
(* databases, the uploads and the token file one after the other, packs    *)
(* them into an archive, mirrors it, and removes what retention no longer  *)
(* keeps; restore puts an archive into a data directory.                   *)
(*                                                                         *)
(* A database is what it refers to: auth.sqlite the uploads it registers,  *)
(* the database of a room the uploads that its board shows.  Each is       *)
(* copied at one moment (the online backup API), and the service goes on   *)
(* in between.  Any step may fail or the process may stop: what is on disk *)
(* stays.                                                                  *)
(***************************************************************************)
EXTENDS Integers, FiniteSets, Functions

CONSTANTS
  Auth,            \* auth.sqlite
  Boards,          \* the databases of rooms
  Uploads,
  Kinds,           \* what retention counts by: days, weeks, months
  PeriodOf,        \* the day, week or month of a time
  Keep,            \* KEEP_DAILY, KEEP_WEEKLY, KEEP_MONTHLY
  MaxStamp,        \* bound: the times at which runs begin
  MaxWait,         \* bound: the time between two that leave archives
  Budgets          \* bound: how many changes, runs, restores and faults there are

Stamps == 1 .. MaxStamp

ASSUME BackupAssumption ==
  /\ Auth \notin Boards
  /\ MaxStamp \in Nat /\ MaxWait \in Nat
  /\ Budgets \subseteq [changes : Nat, runs : Nat, restores : Nat, faults : Nat]
  /\ PeriodOf \in [Kinds -> [Stamps -> Nat]]
  /\ \A k \in Kinds : \A s, t \in Stamps : s <= t => PeriodOf[k][s] <= PeriodOf[k][t]
  /\ Keep \in [Kinds -> Nat \ {0}]
  /\ Kinds # {}

VARIABLES
  dbs,             \* the databases of the service, and what they refer to
  files,           \* its uploads: absent, in part, whole
  tokens,          \* how often its token file was replaced
  broken,          \* its databases that would fail a check
  archives,        \* the archives in each directory, by the time of their run
  made,            \* the archives that ever were there
  run,             \* the run under way
  restore,         \* the restore under way
  target,          \* the data directory that restores write
  budget           \* bound: what is left of a member of Budgets

service == <<dbs, files, tokens, broken>>
vars == <<service, archives, made, run, restore, target, budget>>

Dirs == {"primary", "mirror"}
Databases == {Auth} \cup Boards
NoFiles == [u \in Uploads |-> "absent"]
Whole(copy) == {u \in Uploads : copy[u] = "whole"}

\* What is under n is the value now, whether there was one or not.
With(f, n, value) == [m \in DOMAIN f \cup {n} |-> IF m = n THEN value ELSE f[m]]

Spend(what) == budget[what] > 0 /\ budget' = [budget EXCEPT ![what] = @ - 1]

NoRun ==
  [stage |-> "idle", stamp |-> 0, dbs |-> <<>>, files |-> NoFiles,
   tokens |-> 0, digest |-> 0, failed |-> {}, left |-> {}]

\* An archive that is being written; sealed: its digest lies beside it.
Partial ==
  [whole |-> FALSE, sealed |-> FALSE, dbs |-> <<>>, files |-> NoFiles,
   tokens |-> 0, digest |-> 0, failed |-> {}, damaged |-> {}]

NoRestore == [stage |-> "idle", from |-> Partial, stamp |-> 0, left |-> {}]
NoTarget == [dbs |-> <<>>, files |-> NoFiles, tokens |-> 0, done |-> FALSE, stamp |-> 0, names |-> {}]

Init ==
  /\ dbs = [n \in {Auth} |-> {}]
  /\ files = NoFiles
  /\ tokens = 0
  /\ broken = {}
  /\ archives = [d \in Dirs |-> <<>>]
  /\ made = [d \in Dirs |-> {}]
  /\ run = NoRun
  /\ restore = NoRestore
  /\ target = NoTarget
  /\ budget \in Budgets

-----------------------------------------------------------------------------
(* The service meanwhile.                                                  *)

Serving == Spend("changes") /\ UNCHANGED <<archives, made, run, restore, target>>

\* A room is opened for the first time.
CreateRoom(b) ==
  /\ b \notin DOMAIN dbs
  /\ dbs' = With(dbs, b, {})
  /\ UNCHANGED <<files, tokens, broken>> /\ Serving

BeginUpload(u) ==
  /\ files[u] = "absent"
  /\ files' = [files EXCEPT ![u] = "part"]
  /\ UNCHANGED <<dbs, tokens, broken>> /\ Serving

EndUpload(u) ==
  /\ files[u] = "part"
  /\ files' = [files EXCEPT ![u] = "whole"]
  /\ UNCHANGED <<dbs, tokens, broken>> /\ Serving

\* registerBoardAsset; boards that are deleted keep their uploads.
Register(u) ==
  /\ files[u] = "whole"
  /\ dbs' = [dbs EXCEPT ![Auth] = @ \cup {u}]
  /\ UNCHANGED <<files, tokens, broken>> /\ Serving

\* A table over the cap is removed again.
Withdraw(u) ==
  /\ files[u] = "whole" /\ u \notin dbs[Auth]
  /\ files' = [files EXCEPT ![u] = "absent"]
  /\ UNCHANGED <<dbs, tokens, broken>> /\ Serving

\* People put uploads on boards, once they are registered, and take them off.
Show(b, u) ==
  /\ b \in DOMAIN dbs /\ u \in dbs[Auth]
  /\ \/ dbs' = [dbs EXCEPT ![b] = @ \cup {u}]
     \/ dbs' = [dbs EXCEPT ![b] = @ \ {u}]
  /\ UNCHANGED <<files, tokens, broken>> /\ Serving

\* The token store is replaced by a rename.
ReplaceTokens ==
  /\ tokens' = tokens + 1
  /\ UNCHANGED <<dbs, files, broken>> /\ Serving

\* A page is lost, or a foreign key violated.
Break(n) ==
  /\ n \in DOMAIN dbs
  /\ Spend("faults")
  /\ broken' = broken \cup {n}
  /\ UNCHANGED <<dbs, files, tokens, archives, made, run, restore, target>>

-----------------------------------------------------------------------------
(* run: the copies.                                                        *)

\* The uploads first, and then the databases that refer to them.
UploadsFirst(stage) ==
  CASE stage = "begin" -> "list uploads"
    [] stage = "uploads" -> "auth"
    [] stage = "auth" -> "list rooms"
    [] stage = "rooms" -> "config"

\* The order of command_run.
Following(stage) ==
  CASE stage = "begin" -> "auth"
    [] stage = "auth" -> "list rooms"
    [] stage = "rooms" -> "list uploads"
    [] stage = "uploads" -> "config"

\* On with what was listed, or past it.
Among(stage, left) == IF left = {} THEN Following(stage) ELSE stage

Running(stage) == run.stage = stage /\ UNCHANGED <<service, restore, target, budget>>
Copying(stage) == Running(stage) /\ UNCHANGED <<archives, made>>

\* backup_database, which verifies what it copied.
WithDatabase(n) ==
  [run EXCEPT !.dbs = With(@, n, dbs[n]), !.failed = @ \cup ({n} \cap broken)]

Start(s) ==
  /\ run.stage = "idle"
  /\ Spend("runs")
  /\ \A t \in made["primary"] : t < s
  /\ \E t \in {0} \cup made["primary"] : s <= t + MaxWait
  /\ run' = [NoRun EXCEPT !.stage = Following("begin"), !.stamp = s]
  /\ UNCHANGED <<service, archives, made, restore, target>>

CopyAuth ==
  /\ Copying("auth")
  /\ run' = [WithDatabase(Auth) EXCEPT !.stage = Following("auth")]

ListRooms ==
  LET rooms == DOMAIN dbs \ {Auth}
  IN  /\ Copying("list rooms")
      /\ run' = [run EXCEPT !.left = rooms, !.stage = Among("rooms", rooms)]

CopyRoom(b) ==
  /\ Copying("rooms") /\ b \in run.left
  /\ run' = [WithDatabase(b) EXCEPT !.left = @ \ {b}, !.stage = Among("rooms", run.left \ {b})]

ListUploads ==
  LET there == {u \in Uploads : files[u] # "absent"}
  IN  /\ Copying("list uploads")
      /\ run' = [run EXCEPT !.left = there, !.stage = Among("uploads", there)]

\* As far as it is written, or not at all if it was withdrawn since.
CopyUpload(u) ==
  /\ Copying("uploads") /\ u \in run.left
  /\ run' = [run EXCEPT !.files[u] = files[u], !.left = @ \ {u},
                        !.stage = Among("uploads", run.left \ {u})]

CopyTokens ==
  /\ Copying("config")
  /\ run' = [run EXCEPT !.tokens = tokens, !.stage = "digest"]

\* The digest in the manifest is taken of the source, after the copy.
DigestTokens ==
  /\ Copying("digest")
  /\ run' = [run EXCEPT !.digest = tokens, !.stage = "pack"]

-----------------------------------------------------------------------------
(* run: the archive and its mirror.                                        *)

Put(d, archive, stage) ==
  /\ archives' = [archives EXCEPT ![d] = With(@, run.stamp, archive)]
  /\ made' = [made EXCEPT ![d] = @ \cup {run.stamp}]
  /\ run' = [run EXCEPT !.stage = stage]

OpenArchive == Running("pack") /\ Put("primary", Partial, "packing")

CloseArchive ==
  /\ Running("packing")
  /\ Put("primary", [whole |-> TRUE, sealed |-> FALSE, dbs |-> run.dbs, files |-> run.files,
                     tokens |-> run.tokens, digest |-> run.digest, failed |-> run.failed,
                     damaged |-> {}], "seal")

\* A run that failed its verification ends here, and leaves its archive.
SealArchive ==
  /\ Running("seal")
  /\ archives' = [archives EXCEPT !["primary"][run.stamp].sealed = TRUE]
  /\ run' = IF run.failed # {} THEN NoRun ELSE [run EXCEPT !.stage = "mirror"]
  /\ UNCHANGED made

OpenMirror == Running("mirror") /\ Put("mirror", Partial, "mirroring")

CloseMirror ==
  /\ Running("mirroring")
  /\ Put("mirror", [archives["primary"][run.stamp] EXCEPT !.sealed = FALSE], "seal mirror")

\* A copy that has not the digest of the archive ends the run.
SealMirror ==
  /\ Running("seal mirror")
  /\ archives' = [archives EXCEPT !["mirror"][run.stamp].sealed = TRUE]
  /\ run' = IF archives["mirror"][run.stamp].damaged # {} THEN NoRun
            ELSE [run EXCEPT !.stage = "retain mirror"]
  /\ UNCHANGED made

\* "A missing second disk must not fail the primary backup."
MirrorFails ==
  /\ \E stage \in {"mirror", "mirroring", "seal mirror", "retain mirror", "prune mirror"} :
       Copying(stage)
  /\ run' = [run EXCEPT !.stage = "retain primary", !.left = {}]

-----------------------------------------------------------------------------
(* run: retention.                                                         *)

NewerPeriods(stamps, k, s) == {p \in {PeriodOf[k][t] : t \in stamps} : p > PeriodOf[k][s]}
IsNewest(stamps, k, s) ==
  \A t \in stamps : PeriodOf[k][t] = PeriodOf[k][s] => t <= s

\* The first archive of each period, which later ones do not replace.
KeepOldest(stamps) ==
  {s \in stamps :
     \/ \A t \in stamps : t <= s
     \/ \E k \in Kinds : /\ \A t \in stamps : PeriodOf[k][t] = PeriodOf[k][s] => t >= s
                         /\ Cardinality(NewerPeriods(stamps, k, s)) < Keep[k]}

\* The newest archive, and the newest of each of the last periods of each kind.
RetentionKeep(stamps) ==
  {s \in stamps :
     \/ \A t \in stamps : t <= s
     \/ \E k \in Kinds : /\ IsNewest(stamps, k, s)
                         /\ Cardinality(NewerPeriods(stamps, k, s)) < Keep[k]}

RetainStage(d) == IF d = "mirror" THEN "retain mirror" ELSE "retain primary"
PruneStage(d) == IF d = "mirror" THEN "prune mirror" ELSE "prune primary"

\* apply_retention
Retain(d) ==
  /\ Copying(RetainStage(d))
  /\ run' = [run EXCEPT !.stage = PruneStage(d),
                        !.left = DOMAIN archives[d] \ RetentionKeep(DOMAIN archives[d])]

Prune(d, s) ==
  /\ Running(PruneStage(d)) /\ s \in run.left
  /\ archives' = [archives EXCEPT ![d] = Restrict(@, DOMAIN @ \ {s})]
  /\ run' = [run EXCEPT !.left = @ \ {s}]
  /\ UNCHANGED made

EndPrune(d) ==
  /\ Copying(PruneStage(d)) /\ run.left = {}
  /\ run' = IF d = "mirror" THEN [run EXCEPT !.stage = "retain primary"] ELSE NoRun

\* An error that nothing catches, or the end of the process.
StopRun ==
  /\ run.stage # "idle"
  /\ run' = NoRun
  /\ UNCHANGED <<service, archives, made, restore, target, budget>>

\* A database in an archive changes on the disk, once the run is done with it.
Damage(d, s, n) ==
  /\ Spend("faults")
  /\ s \in DOMAIN archives[d] /\ archives[d][s].whole
  /\ archives[d][s].sealed \/ run.stamp # s
  /\ n \in DOMAIN archives[d][s].dbs
  /\ archives' = [archives EXCEPT ![d][s].damaged = @ \cup {n}]
  /\ UNCHANGED <<service, made, run, restore, target>>

-----------------------------------------------------------------------------
(* verify and restore.                                                     *)

MatchesSeal(archive) == archive.sealed => archive.damaged = {}

\* command_verify
Verifies(archive) ==
  /\ MatchesSeal(archive) /\ archive.whole
  /\ archive.damaged = {} /\ archive.failed = {}
  /\ archive.tokens = archive.digest

Restoring(stage) == restore.stage = stage /\ UNCHANGED <<service, archives, made, run>>
Continuing(stage) == Restoring(stage) /\ UNCHANGED budget

\* unverified and force are flags of the operator; an archive that was not
\* finished cannot be extracted.
BeginRestore(d, s, unverified, force) ==
  /\ Restoring("idle") /\ Spend("restores")
  /\ s \in DOMAIN archives[d]
  /\ LET archive == archives[d][s]
     IN  /\ MatchesSeal(archive) /\ archive.whole
         /\ archive.sealed \/ unverified
         /\ restore' = [stage |-> "databases", from |-> archive, stamp |-> s,
                        left |-> DOMAIN archive.dbs]
  /\ target = NoTarget \/ force
  /\ target' = [target EXCEPT !.done = FALSE]

\* Only the digest in the manifest is compared.
HasItsDigest(archive, n) == n \notin archive.damaged

\* The digest in the manifest, and the integrity of what it is of.
IsSound(archive, n) == n \notin archive.damaged /\ n \notin archive.failed

\* A database in the data directory: what it refers to and the run it is of.
RestoredFrom(archive, n) ==
  [refers |-> archive.dbs[n], stamp |-> restore.stamp,
   sound |-> n \notin archive.damaged \cup archive.failed]

\* In the order of the manifest; the first that is not sound ends it.
RestoreDatabase(n) ==
  /\ Continuing("databases") /\ n \in restore.left
  /\ n = Auth \/ Auth \notin restore.left
  /\ IF IsSound(restore.from, n)
       THEN /\ target' = [target EXCEPT !.dbs = With(@, n, RestoredFrom(restore.from, n))]
            /\ restore' = [restore EXCEPT !.left = @ \ {n}]
       ELSE restore' = NoRestore /\ UNCHANGED target

\* Uploads that are there already are replaced or stay.
RestoreUploads ==
  /\ Continuing("databases") /\ restore.left = {}
  /\ target' = [target EXCEPT !.files =
                  [u \in Uploads |-> IF restore.from.files[u] = "absent" THEN @[u]
                                     ELSE restore.from.files[u]]]
  /\ restore' = [restore EXCEPT !.stage = "config"]

RestoreConfig ==
  /\ Continuing("config")
  /\ target' = [target EXCEPT !.tokens = restore.from.tokens, !.done = TRUE,
                              !.stamp = restore.stamp, !.names = DOMAIN restore.from.dbs]
  /\ restore' = NoRestore

StopRestore ==
  /\ restore.stage # "idle"
  /\ restore' = NoRestore
  /\ UNCHANGED <<service, archives, made, run, target, budget>>

-----------------------------------------------------------------------------
Service ==
  \/ \E b \in Boards : CreateRoom(b) \/ \E u \in Uploads : Show(b, u)
  \/ \E u \in Uploads : BeginUpload(u) \/ EndUpload(u) \/ Register(u) \/ Withdraw(u)
  \/ ReplaceTokens
  \/ \E n \in Databases : Break(n)

Run ==
  \/ \E s \in Stamps : Start(s)
  \/ CopyAuth \/ ListRooms \/ ListUploads
  \/ \E b \in Boards : CopyRoom(b)
  \/ \E u \in Uploads : CopyUpload(u)
  \/ CopyTokens \/ DigestTokens
  \/ OpenArchive \/ CloseArchive \/ SealArchive
  \/ OpenMirror \/ CloseMirror \/ SealMirror \/ MirrorFails
  \/ \E d \in Dirs : Retain(d) \/ EndPrune(d) \/ \E s \in Stamps : Prune(d, s)
  \/ StopRun

RestoreSteps ==
  \/ \E d \in Dirs, s \in Stamps, unverified \in BOOLEAN, force \in BOOLEAN :
       BeginRestore(d, s, unverified, force)
  \/ \E n \in Databases : RestoreDatabase(n)
  \/ RestoreUploads \/ RestoreConfig \/ StopRestore

Faults == \E d \in Dirs, s \in Stamps, n \in Databases : Damage(d, s, n)

Next == Service \/ Run \/ RestoreSteps \/ Faults

Spec == Init /\ [][Next]_vars

-----------------------------------------------------------------------------
(* Properties.                                                             *)

\* Whatever uploads were written, registered and shown while the copies were
\* taken, an archive has whole every upload that a database in it refers to.
ArchivesResolve ==
  \A d \in Dirs : \A s \in DOMAIN archives[d] :
    \A n \in DOMAIN archives[d][s].dbs :
      archives[d][s].dbs[n] \subseteq Whole(archives[d][s].files)

\* Retention, applied run after run and stopped in the middle, has not removed
\* the newest archive that was ever made of any of the last periods.
GenerationsKept ==
  \A d \in Dirs, k \in Kinds : \A s \in made[d] :
    (/\ \A t \in made[d] : PeriodOf[k][t] = PeriodOf[k][s] => t <= s
     /\ Cardinality({p \in {PeriodOf[k][t] : t \in made[d]} : p > PeriodOf[k][s]}) < Keep[k])
    => s \in DOMAIN archives[d]

\* What a restore that finished has written is of one archive, sound, and has the
\* uploads it refers to, after whatever restores were refused or stopped before.
RestoredIsSound ==
  target.done =>
    \A n \in target.names :
      /\ target.dbs[n].stamp = target.stamp
      /\ target.dbs[n].sound
      /\ target.dbs[n].refers \subseteq Whole(target.files)

\* "Every generation is checked at creation, and can be rechecked at any time":
\* verify accepts what a run that reported success has left, unless it changed.
GoodRunsVerify ==
  \A d \in Dirs : \A s \in DOMAIN archives[d] :
    LET archive == archives[d][s]
    IN  archive.sealed /\ archive.failed = {} /\ archive.damaged = {} => Verifies(archive)
=============================================================================
