---------------------------- MODULE BackupProofs ----------------------------
(***************************************************************************)
(* Proofs about Backup, for any boards, uploads, kinds of periods and      *)
(* numbers of archives to keep, and for any budget of changes and faults.  *)
(*                                                                         *)
(* An archive has the uploads it refers to because of the order of a run:  *)
(* whatever a database that was copied refers to was registered by then,   *)
(* what is registered is whole and stays, and uploads are listed last.     *)
(***************************************************************************)
EXTENDS Backup, FiniteSetTheorems, TLAPS

\* What the service keeps: boards show what is registered, and only what is whole
\* is registered.
ServiceInv ==
  /\ DOMAIN files = Uploads
  /\ Auth \in DOMAIN dbs
  /\ dbs[Auth] \subseteq Whole(files)
  /\ \A n \in DOMAIN dbs : dbs[n] \subseteq dbs[Auth]

RunStages ==
  {"idle", "auth", "list rooms", "rooms", "list uploads", "uploads", "config", "digest", "pack",
   "packing", "seal", "mirror", "mirroring", "seal mirror", "retain mirror", "prune mirror",
   "retain primary", "prune primary"}

\* The stages between the last upload and the archive.
Packed == {"config", "digest", "pack", "packing"}

\* What a run has copied, and what it has still to copy.
RunInv ==
  /\ DOMAIN run = DOMAIN NoRun
  /\ DOMAIN run.files = Uploads
  /\ run.stage \in RunStages
  /\ run.stage # "idle" => run.stamp \in Stamps
  /\ run.stage = "rooms" => run.left \subseteq DOMAIN dbs
  /\ \A n \in DOMAIN run.dbs :
       /\ run.dbs[n] \subseteq dbs[Auth]
       /\ run.stage = "uploads" => run.dbs[n] \subseteq run.left \cup Whole(run.files)
       /\ run.stage \in Packed => run.dbs[n] \subseteq Whole(run.files)

ArchivesInv ==
  /\ DOMAIN archives = Dirs
  /\ made \in [Dirs -> SUBSET Stamps]
  /\ \A d \in Dirs : /\ DOMAIN archives[d] \subseteq made[d]
                     /\ \A s \in DOMAIN archives[d] : DOMAIN archives[d][s] = DOMAIN Partial
  /\ ArchivesResolve
  /\ run.stage \in {"packing", "seal", "mirror", "mirroring"} =>
       run.stamp \in DOMAIN archives["primary"]

\* One of the archives that retention promises to keep.
IsGeneration(stamps, k, s) ==
  /\ IsNewest(stamps, k, s)
  /\ Cardinality(NewerPeriods(stamps, k, s)) < Keep[k]

\* What is being removed is none of them.
RetentionInv ==
  /\ GenerationsKept
  /\ \A d \in Dirs, k \in Kinds :
       run.stage = PruneStage(d) => \A s \in run.left : ~IsGeneration(made[d], k, s)

\* Every database that a restore has written is the one of the archive.
RestoreInv ==
  /\ DOMAIN restore = DOMAIN NoRestore
  /\ DOMAIN target = DOMAIN NoTarget
  /\ restore.stage \in {"idle", "databases", "config"}
  /\ restore.stage # "idle" =>
       /\ ~target.done
       /\ \A n \in DOMAIN restore.from.dbs :
            /\ restore.from.dbs[n] \subseteq Whole(restore.from.files)
            /\ \/ n \in restore.left
               \/ /\ n \in DOMAIN target.dbs /\ target.dbs[n] = RestoredFrom(restore.from, n)
                  /\ target.dbs[n].sound
  /\ restore.stage = "config" =>
       restore.left = {} /\ Whole(restore.from.files) \subseteq Whole(target.files)
  /\ RestoredIsSound

IInv == ServiceInv /\ RunInv /\ ArchivesInv /\ RetentionInv /\ RestoreInv

-----------------------------------------------------------------------------
(* Archives that count.                                                    *)

\* There are finitely many periods, and fewer of fewer archives.
LEMMA FewerPeriods ==
  ASSUME BackupAssumption, NEW k \in Kinds, NEW stamps \in SUBSET Stamps, NEW some \in SUBSET stamps,
         NEW s \in Stamps
  PROVE  /\ Cardinality(NewerPeriods(stamps, k, s)) \in Nat
         /\ Cardinality(NewerPeriods(some, k, s)) \in Nat
         /\ Cardinality(NewerPeriods(some, k, s)) <= Cardinality(NewerPeriods(stamps, k, s))
<1> DEFINE all == NewerPeriods(stamps, k, s)
           fewer == NewerPeriods(some, k, s)
<1>1. MaxStamp \in Nat /\ MaxStamp \in Stamps /\ \A t \in Stamps : t <= MaxStamp
  BY DEF BackupAssumption, Stamps
<1>2. \A t \in Stamps : PeriodOf[k][t] \in Nat
  BY DEF BackupAssumption
<1>3. \A t \in Stamps : PeriodOf[k][t] <= PeriodOf[k][MaxStamp]
  BY <1>1 DEF BackupAssumption
<1>4. all \in SUBSET Nat /\ \A p \in all : p <= PeriodOf[k][MaxStamp]
  BY <1>2, <1>3 DEF NewerPeriods
<1>5. fewer \in SUBSET all
  BY DEF NewerPeriods
<1> HIDE DEF all, fewer
<1>6. IsFiniteSet(all)
  BY <1>1, <1>2, <1>4, FS_BoundedSetOfNaturals
<1>7. /\ IsFiniteSet(fewer) /\ Cardinality(fewer) <= Cardinality(all)
      /\ Cardinality(fewer) \in Nat /\ Cardinality(all) \in Nat
  BY <1>5, <1>6, FS_Subset, FS_CardinalityType
<1>. QED
  BY <1>7 DEF all, fewer

\* An archive that counts among all that were made counts among those left.
LEMMA StillCounts ==
  ASSUME BackupAssumption, NEW k \in Kinds, NEW stamps \in SUBSET Stamps, NEW some \in SUBSET stamps,
         NEW s \in some, IsGeneration(stamps, k, s)
  PROVE  IsGeneration(some, k, s)
<1>1. IsNewest(some, k, s)
  BY DEF IsGeneration, IsNewest
<1>2. /\ Cardinality(NewerPeriods(stamps, k, s)) \in Nat
      /\ Cardinality(NewerPeriods(some, k, s)) \in Nat
      /\ Cardinality(NewerPeriods(some, k, s)) <= Cardinality(NewerPeriods(stamps, k, s))
  BY FewerPeriods
<1>3. Keep[k] \in Nat
  BY DEF BackupAssumption
<1>. QED
  BY <1>1, <1>2, <1>3 DEF IsGeneration

-----------------------------------------------------------------------------
(* The service.                                                            *)

\* What is registered stays so, and whole.
LEMMA ServiceStep ==
  ASSUME BackupAssumption, ServiceInv, Service
  PROVE  /\ ServiceInv' /\ dbs[Auth] \subseteq dbs'[Auth] /\ DOMAIN dbs \subseteq DOMAIN dbs'
         /\ UNCHANGED <<archives, made, run, restore, target>>
<1> USE DEF ServiceInv, Serving
<1>1. ASSUME NEW b \in Boards, CreateRoom(b)
      PROVE  ServiceInv' /\ dbs[Auth] \subseteq dbs'[Auth] /\ DOMAIN dbs \subseteq DOMAIN dbs'
             /\ UNCHANGED <<archives, made, run, restore, target>>
  <2>1. dbs' = With(dbs, b, {}) /\ files' = files /\ b # Auth
    BY <1>1 DEF CreateRoom, BackupAssumption
  <2>2. /\ DOMAIN dbs' = DOMAIN dbs \cup {b} /\ dbs'[b] = {}
        /\ \A m \in DOMAIN dbs \ {b} : dbs'[m] = dbs[m]
    BY <2>1 DEF With
  <2>. QED
    BY <1>1, <2>1, <2>2 DEF CreateRoom, Whole
<1>2. ASSUME NEW b \in Boards, NEW u \in Uploads, Show(b, u)
      PROVE  ServiceInv' /\ dbs[Auth] \subseteq dbs'[Auth] /\ DOMAIN dbs \subseteq DOMAIN dbs'
             /\ UNCHANGED <<archives, made, run, restore, target>>
  <2>1. b # Auth /\ b \in DOMAIN dbs /\ u \in dbs[Auth] /\ files' = files
    BY <1>2 DEF Show, BackupAssumption
  <2>2. PICK shown \in SUBSET dbs[Auth] : dbs' = [dbs EXCEPT ![b] = shown]
    BY <1>2, <2>1 DEF Show
  <2>3. /\ DOMAIN dbs' = DOMAIN dbs /\ dbs'[b] = shown
        /\ \A m \in DOMAIN dbs \ {b} : dbs'[m] = dbs[m]
    BY <2>1, <2>2
  <2>4. UNCHANGED <<archives, made, run, restore, target>>
    BY <1>2 DEF Show
  <2>. QED
    BY <2>1, <2>3, <2>4 DEF Whole
<1>3. ASSUME NEW u \in Uploads, BeginUpload(u) \/ EndUpload(u) \/ Withdraw(u)
      PROVE  ServiceInv' /\ dbs[Auth] \subseteq dbs'[Auth] /\ DOMAIN dbs \subseteq DOMAIN dbs'
             /\ UNCHANGED <<archives, made, run, restore, target>>
  BY <1>3 DEF BeginUpload, EndUpload, Withdraw, Whole
<1>4. ASSUME NEW u \in Uploads, Register(u)
      PROVE  ServiceInv' /\ dbs[Auth] \subseteq dbs'[Auth] /\ DOMAIN dbs \subseteq DOMAIN dbs'
             /\ UNCHANGED <<archives, made, run, restore, target>>
  BY <1>4 DEF Register, Whole
<1>5. ASSUME \/ ReplaceTokens
             \/ \E n \in Databases : Break(n)
      PROVE  ServiceInv' /\ dbs[Auth] \subseteq dbs'[Auth] /\ DOMAIN dbs \subseteq DOMAIN dbs'
             /\ UNCHANGED <<archives, made, run, restore, target>>
  BY <1>5 DEF ReplaceTokens, Break, Whole
<1>. QED
  BY <1>1, <1>2, <1>3, <1>4, <1>5 DEF Service

\* The copies of a run are what they were, and the service has more.
LEMMA ServiceKeepsRun ==
  ASSUME RunInv, run' = run, dbs[Auth] \subseteq dbs'[Auth], DOMAIN dbs \subseteq DOMAIN dbs'
  PROVE  RunInv'
BY DEF RunInv

-----------------------------------------------------------------------------
(* The run.                                                                *)

\* A step of a run that leaves it with these.
Becomes(stage, copied, uploads, left) ==
  /\ DOMAIN run' = DOMAIN NoRun
  /\ run'.stage = stage /\ run'.dbs = copied /\ run'.files = uploads /\ run'.left = left
  /\ run'.stamp = run.stamp

LEMMA NoRunInv == ASSUME ServiceInv, run = NoRun PROVE RunInv
BY DEF NoRun, RunInv, RunStages, Packed, NoFiles

\* A database is copied.
LEMMA CopyingDatabase ==
  ASSUME ServiceInv, RunInv, NEW n \in DOMAIN dbs, NEW stage \in RunStages, NEW left,
         Becomes(stage, With(run.dbs, n, dbs[n]), run.files, left),
         run.stage # "idle", stage \notin Packed \cup {"uploads"}, UNCHANGED service,
         stage = "rooms" => left \subseteq DOMAIN dbs
  PROVE  RunInv'
<1> DEFINE copied == With(run.dbs, n, dbs[n])
<1>1. DOMAIN copied = DOMAIN run.dbs \cup {n} /\ copied[n] = dbs[n]
      /\ \A m \in DOMAIN run.dbs \ {n} : copied[m] = run.dbs[m]
  BY DEF With
<1> HIDE DEF copied
<1>2. \A m \in DOMAIN copied : copied[m] \subseteq dbs[Auth]
  BY <1>1 DEF RunInv, ServiceInv
<1>3. Becomes(stage, copied, run.files, left)
  BY DEF copied
<1>. QED
  BY <1>2, <1>3 DEF RunInv, Becomes, service

LEMMA CopyAuthKeeps == ASSUME ServiceInv, RunInv, CopyAuth PROVE RunInv'
<1>1. run.stage = "auth" /\ UNCHANGED service
  BY DEF CopyAuth, Copying, Running
<1>2. Becomes("list rooms", With(run.dbs, Auth, dbs[Auth]), run.files, run.left)
  BY DEF CopyAuth, WithDatabase, Following, RunInv, NoRun, Becomes
<1>. QED
  BY <1>1, <1>2, CopyingDatabase DEF ServiceInv, RunStages, Packed

LEMMA CopyRoomKeeps == ASSUME ServiceInv, RunInv, NEW b \in Boards, CopyRoom(b) PROVE RunInv'
<1> DEFINE rest == run.left \ {b}
           next == Among("rooms", rest)
<1>1. run.stage = "rooms" /\ b \in run.left /\ UNCHANGED service
  BY DEF CopyRoom, Copying, Running
<1>2. next \in {"rooms", "list uploads"}
  BY DEF Among, Following
<1>3. run' = [WithDatabase(b) EXCEPT !.left = rest, !.stage = next]
  BY DEF CopyRoom, WithDatabase, RunInv, NoRun
<1> HIDE DEF rest, next
<1>4. Becomes(next, With(run.dbs, b, dbs[b]), run.files, rest)
  BY <1>3 DEF WithDatabase, RunInv, NoRun, Becomes
<1>5. b \in DOMAIN dbs /\ rest \subseteq DOMAIN dbs
  BY <1>1 DEF RunInv, rest
<1>. QED
  BY <1>1, <1>2, <1>4, <1>5, CopyingDatabase DEF RunStages, Packed

LEMMA ListRoomsKeeps == ASSUME ServiceInv, RunInv, ListRooms PROVE RunInv'
<1> DEFINE rooms == DOMAIN dbs \ {Auth}
           next == Among("rooms", rooms)
<1>1. run.stage = "list rooms" /\ UNCHANGED service
  BY DEF ListRooms, Copying, Running
<1>2. next \in {"rooms", "list uploads"}
  BY DEF Among, Following
<1>3. run' = [run EXCEPT !.left = rooms, !.stage = next]
  BY DEF ListRooms
<1>4. rooms \subseteq DOMAIN dbs
  OBVIOUS
<1> HIDE DEF rooms, next
<1>5. Becomes(next, run.dbs, run.files, rooms)
  BY <1>3 DEF RunInv, NoRun, Becomes
<1>. QED
  BY <1>1, <1>2, <1>4, <1>5 DEF RunInv, RunStages, Packed, Becomes, service

\* What the databases refer to is among the uploads that are listed.
LEMMA ListUploadsKeeps == ASSUME ServiceInv, RunInv, ListUploads PROVE RunInv'
<1> DEFINE there == {u \in Uploads : files[u] # "absent"}
           next == Among("uploads", there)
<1>1. run.stage = "list uploads" /\ UNCHANGED service
  BY DEF ListUploads, Copying, Running
<1>2. next = "uploads" \/ (next = "config" /\ there = {})
  BY DEF Among, Following
<1>3. run' = [run EXCEPT !.left = there, !.stage = next]
  BY DEF ListUploads
<1>4. dbs[Auth] \subseteq there
  BY DEF ServiceInv, Whole
<1> HIDE DEF there, next
<1>5. Becomes(next, run.dbs, run.files, there)
  BY <1>3 DEF RunInv, NoRun, Becomes
<1>6. \A n \in DOMAIN run.dbs : run.dbs[n] \subseteq there
  BY <1>4 DEF RunInv
<1>. QED
  BY <1>1, <1>2, <1>5, <1>6 DEF RunInv, RunStages, Packed, Becomes, service

LEMMA CopyUploadKeeps == ASSUME ServiceInv, RunInv, NEW u \in Uploads, CopyUpload(u) PROVE RunInv'
<1> DEFINE rest == run.left \ {u}
           next == Among("uploads", rest)
           copied == [run.files EXCEPT ![u] = files[u]]
<1>1. run.stage = "uploads" /\ u \in run.left /\ UNCHANGED service
  BY DEF CopyUpload, Copying, Running
<1>2. next = "uploads" \/ (next = "config" /\ rest = {})
  BY DEF Among, Following
<1>3. run' = [run EXCEPT !.files = copied, !.left = rest, !.stage = next]
  BY DEF CopyUpload, RunInv, NoRun
<1>4. /\ DOMAIN copied = Uploads /\ copied[u] = files[u]
      /\ \A v \in Uploads \ {u} : copied[v] = run.files[v]
  BY DEF RunInv
<1>5. rest = run.left \ {u}
  OBVIOUS
<1> HIDE DEF rest, next, copied
<1>6. Becomes(next, run.dbs, copied, rest)
  BY <1>3 DEF RunInv, NoRun, Becomes
<1>7. ASSUME NEW n \in DOMAIN run.dbs
      PROVE  run.dbs[n] \subseteq rest \cup Whole(copied)
  <2>1. run.dbs[n] \subseteq run.left \cup Whole(run.files) /\ run.dbs[n] \subseteq Whole(files)
    BY <1>1 DEF RunInv, ServiceInv
  <2>. QED
    BY <1>4, <1>5, <2>1 DEF Whole
<1>8. next = "config" => \A n \in DOMAIN run.dbs : run.dbs[n] \subseteq Whole(copied)
  BY <1>2, <1>7
<1>. QED
  BY <1>1, <1>2, <1>4, <1>6, <1>7, <1>8 DEF RunInv, RunStages, Packed, Becomes, service

\* The other steps of a run copy nothing more.
LEMMA RunMovesOn ==
  ASSUME RunInv, NEW stage \in RunStages \ {"rooms", "uploads"}, NEW left,
         Becomes(stage, run.dbs, run.files, left), UNCHANGED service,
         run.stage # "idle", stage \in Packed => run.stage \in Packed
  PROVE  RunInv'
BY DEF RunInv, Becomes, service

LEMMA TokensKeep == ASSUME RunInv, CopyTokens \/ DigestTokens PROVE RunInv'
<1>1. UNCHANGED service
  BY DEF CopyTokens, DigestTokens, Copying, Running
<1>2. \/ run.stage = "config" /\ Becomes("digest", run.dbs, run.files, run.left)
      \/ run.stage = "digest" /\ Becomes("pack", run.dbs, run.files, run.left)
  BY DEF CopyTokens, DigestTokens, Copying, Running, RunInv, NoRun, Becomes
<1>. QED
  BY <1>1, <1>2, RunMovesOn DEF RunStages, Packed

-----------------------------------------------------------------------------
(* The archives.                                                           *)

\* What retention promises is about generations, now and after a step.
LEMMA GenerationsAre ==
  ASSUME GenerationsKept, NEW d \in Dirs, NEW k \in Kinds, NEW s \in made[d],
         IsGeneration(made[d], k, s)
  PROVE  s \in DOMAIN archives[d]
<1>1. IsNewest(made[d], k, s) /\ Cardinality(NewerPeriods(made[d], k, s)) < Keep[k]
  BY DEF IsGeneration
<1>2. IsNewest(made[d], k, s) /\ Cardinality(NewerPeriods(made[d], k, s)) < Keep[k]
      => s \in DOMAIN archives[d]
  BY DEF GenerationsKept, IsNewest, NewerPeriods
<1>. QED
  BY <1>1, <1>2

LEMMA GenerationsWillBe ==
  ASSUME \A d \in Dirs, k \in Kinds : \A s \in made'[d] :
           IsGeneration(made'[d], k, s) => s \in DOMAIN archives'[d]
  PROVE  GenerationsKept'
BY DEF GenerationsKept, IsGeneration, IsNewest, NewerPeriods

LEMMA NoRunIsLeft == ASSUME ServiceInv, UNCHANGED service, run' = NoRun PROVE RunInv'
BY DEF ServiceInv, service, NoRun, RunInv, RunStages, Packed, NoFiles

\* While no run removes anything, nothing is being removed.
LEMMA NothingIsPruned ==
  ASSUME GenerationsKept', run'.stage \notin {"prune mirror", "prune primary"}
  PROVE  RetentionInv'
BY DEF RetentionInv, PruneStage, Dirs

\* Archives that hold what they held.
SameContents ==
  /\ made' = made /\ DOMAIN archives' = DOMAIN archives
  /\ \A d \in Dirs :
       /\ DOMAIN archives'[d] = DOMAIN archives[d]
       /\ \A s \in DOMAIN archives[d] : /\ DOMAIN archives'[d][s] = DOMAIN archives[d][s]
                                        /\ archives'[d][s].dbs = archives[d][s].dbs
                                        /\ archives'[d][s].files = archives[d][s].files

LEMMA SameContentsKeep ==
  ASSUME ArchivesInv, RetentionInv, SameContents,
         run'.stage \in {"packing", "seal", "mirror", "mirroring"} =>
           run.stage \in {"packing", "seal", "mirror", "mirroring"} /\ run'.stamp = run.stamp
  PROVE  ArchivesInv' /\ GenerationsKept'
<1>1. "primary" \in Dirs
  BY DEF Dirs
<1>2. ArchivesInv'
  BY <1>1 DEF ArchivesInv, ArchivesResolve, SameContents
<1>3. GenerationsKept
  BY DEF RetentionInv
<1>4. \A d \in Dirs, k \in Kinds : \A s \in made[d] :
        IsGeneration(made[d], k, s) => s \in DOMAIN archives[d]
  BY <1>3, GenerationsAre
<1>5. made' = made /\ \A d \in Dirs : DOMAIN archives'[d] = DOMAIN archives[d]
  BY DEF SameContents
<1>6. \A d \in Dirs, k \in Kinds : \A s \in made'[d] :
        IsGeneration(made'[d], k, s) => s \in DOMAIN archives'[d]
  BY <1>4, <1>5
<1>. QED
  BY <1>2, <1>6, GenerationsWillBe

\* An archive is put where it was, or is a new one.
LEMMA PutKeeps ==
  ASSUME BackupAssumption, ServiceInv, RunInv, ArchivesInv, RetentionInv, UNCHANGED service,
         NEW d \in Dirs, NEW archive, DOMAIN archive = DOMAIN Partial,
         \A n \in DOMAIN archive.dbs : archive.dbs[n] \subseteq Whole(archive.files),
         NEW stage \in {"packing", "seal", "mirroring", "seal mirror"}, Put(d, archive, stage),
         run.stage # "idle", stage = "packing" => run.stage \in Packed,
         stage \in {"packing", "seal", "mirroring"} =>
           d = "primary" \/ run.stamp \in DOMAIN archives["primary"]
  PROVE  RunInv' /\ ArchivesInv' /\ RetentionInv'
<1>1. run.stamp \in Stamps
  BY DEF RunInv
<1>2. /\ DOMAIN archives' = Dirs /\ archives'[d] = With(archives[d], run.stamp, archive)
      /\ \A e \in Dirs \ {d} : archives'[e] = archives[e]
  BY DEF Put, ArchivesInv
<1>3. /\ DOMAIN archives'[d] = DOMAIN archives[d] \cup {run.stamp}
      /\ archives'[d][run.stamp] = archive
      /\ \A s \in DOMAIN archives[d] \ {run.stamp} : archives'[d][s] = archives[d][s]
  BY <1>2 DEF With
<1>4. /\ made' \in [Dirs -> SUBSET Stamps] /\ made'[d] = made[d] \cup {run.stamp}
      /\ \A e \in Dirs \ {d} : made'[e] = made[e]
  BY <1>1 DEF Put, ArchivesInv
<1>5. Becomes(stage, run.dbs, run.files, run.left)
  BY DEF Put, RunInv, NoRun, Becomes
<1>6. RunInv'
  BY <1>5, RunMovesOn DEF RunStages, Packed
<1>7. ArchivesResolve'
  <2> SUFFICES ASSUME NEW e \in Dirs, NEW s \in DOMAIN archives'[e],
                      NEW n \in DOMAIN archives'[e][s].dbs
               PROVE  archives'[e][s].dbs[n] \subseteq Whole(archives'[e][s].files)
    BY DEF ArchivesResolve, Whole
  <2>1. CASE e = d /\ s = run.stamp
    <3>1. archives'[e][s] = archive
      BY <1>3, <2>1
    <3>. QED
      BY <3>1
  <2>2. CASE ~(e = d /\ s = run.stamp)
    <3>1. s \in DOMAIN archives[e] /\ archives'[e][s] = archives[e][s]
      BY <1>2, <1>3, <2>2
    <3>2. \A m \in DOMAIN archives[e][s].dbs :
            archives[e][s].dbs[m] \subseteq Whole(archives[e][s].files)
      BY <3>1 DEF ArchivesInv, ArchivesResolve
    <3>. QED
      BY <3>1, <3>2
  <2>. QED
    BY <2>1, <2>2
<1>8. "primary" \in Dirs
  BY DEF Dirs
<1>9. stage \in {"packing", "seal", "mirroring"} => run.stamp \in DOMAIN archives'["primary"]
  BY <1>2, <1>3, <1>8
<1>10. ArchivesInv'
  <2>1. \A e \in Dirs : /\ DOMAIN archives'[e] \subseteq made'[e]
                       /\ \A s \in DOMAIN archives'[e] :
                            DOMAIN archives'[e][s] = DOMAIN Partial
    <3>1. ASSUME NEW e \in Dirs \ {d}
          PROVE  /\ DOMAIN archives'[e] \subseteq made'[e]
                 /\ \A s \in DOMAIN archives'[e] : DOMAIN archives'[e][s] = DOMAIN Partial
      <4>1. archives'[e] = archives[e] /\ made'[e] = made[e] /\ e \in Dirs
        BY <1>2, <1>4
      <4>2. /\ DOMAIN archives[e] \subseteq made[e]
            /\ \A s \in DOMAIN archives[e] : DOMAIN archives[e][s] = DOMAIN Partial
        BY <4>1 DEF ArchivesInv
      <4>. QED
        BY <4>1, <4>2
    <3>2. DOMAIN archives'[d] \subseteq made'[d]
      BY <1>3, <1>4 DEF ArchivesInv
    <3>3. \A s \in DOMAIN archives'[d] : DOMAIN archives'[d][s] = DOMAIN Partial
      <4>1. \A s \in DOMAIN archives[d] : DOMAIN archives[d][s] = DOMAIN Partial
        BY DEF ArchivesInv
      <4>. QED
        BY <1>3, <4>1, Zenon
    <3>. QED
      BY <3>1, <3>2, <3>3
  <2>2. run'.stage = stage /\ run'.stamp = run.stamp
    BY <1>5 DEF Becomes
  <2>. QED
    BY <2>1, <2>2, <1>2, <1>4, <1>7, <1>9 DEF ArchivesInv
<1>11. GenerationsKept'
  <2>1. SUFFICES ASSUME NEW e \in Dirs, NEW k \in Kinds, NEW s \in made'[e],
                        IsGeneration(made'[e], k, s)
                 PROVE  s \in DOMAIN archives'[e]
    BY GenerationsWillBe
  <2>2. CASE s \in made[e]
    <3>1. made[e] \subseteq made'[e] /\ made'[e] \in SUBSET Stamps
      BY <1>4
    <3>2. IsGeneration(made[e], k, s)
      BY <2>1, <2>2, <3>1, StillCounts
    <3>3. GenerationsKept
      BY DEF RetentionInv
    <3>4. s \in DOMAIN archives[e]
      BY <2>2, <3>2, <3>3, GenerationsAre
    <3>. QED
      BY <3>4, <1>2, <1>3
  <2>3. CASE s \notin made[e]
    BY <2>3, <1>3, <1>4
  <2>. QED
    BY <2>2, <2>3
<1>12. RetentionInv'
  BY <1>5, <1>11, NothingIsPruned DEF Becomes
<1>. QED
  BY <1>6, <1>10, <1>12

LEMMA ArchivesArePut ==
  ASSUME BackupAssumption, ServiceInv, RunInv, ArchivesInv, RetentionInv,
         OpenArchive \/ CloseArchive \/ OpenMirror \/ CloseMirror
  PROVE  RunInv' /\ ArchivesInv' /\ RetentionInv'
<1>1. "primary" \in Dirs /\ "mirror" \in Dirs
  BY DEF Dirs
<1>2. CASE OpenArchive
  <2>1. /\ run.stage = "pack" /\ UNCHANGED service /\ Put("primary", Partial, "packing")
    BY <1>2 DEF OpenArchive, Running
  <2>2. DOMAIN Partial.dbs = {}
    BY DEF Partial
  <2>. QED
    BY <1>1, <2>1, <2>2, PutKeeps DEF Packed
<1>3. CASE CloseArchive
  <2> DEFINE archive ==
        [whole |-> TRUE, sealed |-> FALSE, dbs |-> run.dbs, files |-> run.files,
         tokens |-> run.tokens, digest |-> run.digest, failed |-> run.failed, damaged |-> {}]
  <2>1. run.stage = "packing" /\ UNCHANGED service /\ Put("primary", archive, "seal")
    BY <1>3 DEF CloseArchive, Running
  <2>2. DOMAIN archive = DOMAIN Partial /\ archive.dbs = run.dbs /\ archive.files = run.files
    BY DEF Partial
  <2> HIDE DEF archive
  <2>3. \A n \in DOMAIN archive.dbs : archive.dbs[n] \subseteq Whole(archive.files)
    BY <2>1, <2>2 DEF RunInv, Packed
  <2>. QED
    BY <1>1, <2>1, <2>2, <2>3, PutKeeps
<1>4. CASE OpenMirror
  <2>1. /\ run.stage = "mirror" /\ UNCHANGED service /\ Put("mirror", Partial, "mirroring")
    BY <1>4 DEF OpenMirror, Running
  <2>2. DOMAIN Partial.dbs = {}
    BY DEF Partial
  <2>3. run.stamp \in DOMAIN archives["primary"]
    BY <2>1 DEF ArchivesInv
  <2>. QED
    BY <1>1, <2>1, <2>2, <2>3, PutKeeps
<1>5. CASE CloseMirror
  <2> DEFINE archive == [archives["primary"][run.stamp] EXCEPT !.sealed = FALSE]
  <2>1. run.stage = "mirroring" /\ UNCHANGED service /\ Put("mirror", archive, "seal mirror")
    BY <1>5 DEF CloseMirror, Running
  <2>2. run.stamp \in DOMAIN archives["primary"]
    BY <2>1 DEF ArchivesInv
  <2>3. DOMAIN archives["primary"][run.stamp] = DOMAIN Partial
    BY <1>1, <2>2 DEF ArchivesInv
  <2>4. /\ DOMAIN archive = DOMAIN Partial
        /\ archive.dbs = archives["primary"][run.stamp].dbs
        /\ archive.files = archives["primary"][run.stamp].files
    BY <2>3 DEF Partial
  <2> HIDE DEF archive
  <2>5. \A n \in DOMAIN archive.dbs : archive.dbs[n] \subseteq Whole(archive.files)
    BY <1>1, <2>2, <2>4 DEF ArchivesInv, ArchivesResolve
  <2>. QED
    BY <1>1, <2>1, <2>4, <2>5, PutKeeps
<1>. QED
  BY <1>2, <1>3, <1>4, <1>5

\* A digest is laid beside an archive.
LEMMA ArchivesAreSealed ==
  ASSUME ServiceInv, RunInv, ArchivesInv, RetentionInv, SealArchive \/ SealMirror
  PROVE  RunInv' /\ ArchivesInv' /\ RetentionInv'
<1>1. PICK d \in Dirs : archives' = [archives EXCEPT ![d][run.stamp].sealed = TRUE]
  BY DEF SealArchive, SealMirror, Dirs
<1>2. SameContents
  <2>1. made' = made
    BY DEF SealArchive, SealMirror
  <2>. QED
    BY <1>1, <2>1 DEF SameContents, ArchivesInv, Partial
<1>3. UNCHANGED service /\ run.stage \in {"seal", "seal mirror"}
  BY DEF SealArchive, SealMirror, Running
<1>4. \/ run' = NoRun
      \/ run.stage = "seal" /\ Becomes("mirror", run.dbs, run.files, run.left)
      \/ Becomes("retain mirror", run.dbs, run.files, run.left)
  BY DEF SealArchive, SealMirror, Running, RunInv, NoRun, Becomes
<1>5. RunInv'
  BY <1>3, <1>4, NoRunIsLeft, RunMovesOn DEF RunStages, Packed
<1>6. /\ run'.stage \in {"idle", "mirror", "retain mirror"}
      /\ run'.stage = "mirror" => run.stage = "seal" /\ run'.stamp = run.stamp
  <2>1. NoRun.stage = "idle"
    BY DEF NoRun
  <2>. QED
    BY <1>4, <2>1 DEF Becomes
<1>7. ArchivesInv' /\ GenerationsKept'
  BY <1>2, <1>6, SameContentsKeep
<1>. QED
  BY <1>5, <1>6, <1>7, NothingIsPruned

-----------------------------------------------------------------------------
(* Retention, and the end of a run.                                        *)

\* Steps that leave the archives alone.
LEMMA ArchivesStay ==
  ASSUME ArchivesInv, RetentionInv, UNCHANGED <<archives, made>>,
         run'.stage \notin {"packing", "seal", "mirror", "mirroring"}
  PROVE  ArchivesInv' /\ GenerationsKept'
<1>1. SameContents
  BY DEF SameContents
<1>. QED
  BY <1>1, SameContentsKeep

LEMMA CopiesKeepArchives ==
  ASSUME RunInv, ArchivesInv, RetentionInv,
         \/ CopyAuth \/ ListRooms \/ ListUploads \/ CopyTokens \/ DigestTokens
         \/ \E b \in Boards : CopyRoom(b)
         \/ \E u \in Uploads : CopyUpload(u)
  PROVE  ArchivesInv' /\ RetentionInv'
<1>1. UNCHANGED <<archives, made>>
  BY DEF CopyAuth, ListRooms, ListUploads, CopyTokens, DigestTokens, CopyRoom, CopyUpload, Copying
<1>2. run'.stage \in {"list rooms", "rooms", "list uploads", "uploads", "config", "digest", "pack"}
  BY DEF CopyAuth, ListRooms, ListUploads, CopyTokens, DigestTokens, CopyRoom, CopyUpload,
         WithDatabase, Among, Following, RunInv, NoRun
<1>. QED
  BY <1>1, <1>2, ArchivesStay, NothingIsPruned

LEMMA RunsBeginAndEnd ==
  ASSUME ServiceInv, RunInv, ArchivesInv, RetentionInv,
         (\E s \in Stamps : Start(s)) \/ StopRun \/ MirrorFails \/ (\E d \in Dirs : EndPrune(d))
  PROVE  RunInv' /\ ArchivesInv' /\ RetentionInv'
<1>1. UNCHANGED service /\ UNCHANGED <<archives, made>>
  BY DEF Start, StopRun, MirrorFails, EndPrune, Copying, Running
<1>2. \/ run' = NoRun
      \/ \E s \in Stamps : run' = [NoRun EXCEPT !.stage = "auth", !.stamp = s]
      \/ Becomes("retain primary", run.dbs, run.files, {}) /\ run.stage # "idle"
      \/ Becomes("retain primary", run.dbs, run.files, run.left) /\ run.stage # "idle"
  <2>1. CASE \E s \in Stamps : Start(s)
    BY <2>1 DEF Start, Following
  <2>2. CASE StopRun
    BY <2>2 DEF StopRun
  <2>3. CASE MirrorFails
    <3>1. run' = [run EXCEPT !.stage = "retain primary", !.left = {}] /\ run.stage # "idle"
      BY <2>3 DEF MirrorFails, Copying, Running
    <3>. QED
      BY <3>1 DEF RunInv, NoRun, Becomes
  <2>4. ASSUME NEW d \in Dirs, EndPrune(d)
        PROVE  \/ run' = NoRun
               \/ Becomes("retain primary", run.dbs, run.files, run.left) /\ run.stage # "idle"
    <3>1. run.stage \in {"prune mirror", "prune primary"}
      BY <2>4 DEF EndPrune, Copying, Running, PruneStage
    <3>2. run' = NoRun \/ run' = [run EXCEPT !.stage = "retain primary"]
      BY <2>4 DEF EndPrune
    <3>. QED
      BY <3>1, <3>2 DEF RunInv, NoRun, Becomes
  <2>. QED
    BY <2>1, <2>2, <2>3, <2>4
<1>3. RunInv'
  <2>1. CASE run' = NoRun
    BY <1>1, <2>1, NoRunIsLeft
  <2>2. ASSUME NEW s \in Stamps, run' = [NoRun EXCEPT !.stage = "auth", !.stamp = s] PROVE RunInv'
    <3>1. /\ DOMAIN run' = DOMAIN NoRun /\ run'.stage = "auth" /\ run'.stamp = s
          /\ run'.dbs = <<>> /\ run'.files = NoFiles
      BY <2>2 DEF NoRun
    <3>2. DOMAIN run'.dbs = {}
      BY <3>1
    <3>3. DOMAIN run'.files = Uploads
      BY <3>1 DEF NoFiles
    <3>. QED
      BY <3>1, <3>2, <3>3 DEF RunInv, RunStages, Packed
  <2>. QED
    BY <1>1, <1>2, <2>1, <2>2, RunMovesOn DEF RunStages, Packed
<1>4. run'.stage \in {"idle", "auth", "retain primary"}
  <2>1. NoRun.stage = "idle"
    BY DEF NoRun
  <2>2. \A s \in Stamps : [NoRun EXCEPT !.stage = "auth", !.stamp = s].stage = "auth"
    BY DEF NoRun
  <2>. QED
    BY <1>2, <2>1, <2>2 DEF Becomes
<1>. QED
  BY <1>1, <1>3, <1>4, ArchivesStay, NothingIsPruned

\* What retention is to remove is none that it promises to keep.
LEMMA RetainKeeps ==
  ASSUME BackupAssumption, ServiceInv, RunInv, ArchivesInv, RetentionInv,
         NEW d \in Dirs, Retain(d)
  PROVE  RunInv' /\ ArchivesInv' /\ RetentionInv'
<1> DEFINE there == DOMAIN archives[d]
           goes == there \ RetentionKeep(there)
<1>1. /\ UNCHANGED service /\ UNCHANGED <<archives, made>>
      /\ run.stage = RetainStage(d) /\ run' = [run EXCEPT !.stage = PruneStage(d), !.left = goes]
  BY DEF Retain, Copying, Running
<1> HIDE DEF goes
<1>2. Becomes(PruneStage(d), run.dbs, run.files, goes)
  BY <1>1 DEF RunInv, NoRun, Becomes
<1>3. run.stage # "idle" /\ PruneStage(d) \in {"prune mirror", "prune primary"}
  BY <1>1 DEF RetainStage, PruneStage
<1>4. RunInv'
  BY <1>1, <1>2, <1>3, RunMovesOn DEF RunStages, Packed
<1>5. run'.stage = PruneStage(d) /\ run'.left = goes
  BY <1>2 DEF Becomes
<1>6. ArchivesInv' /\ GenerationsKept'
  BY <1>1, <1>3, <1>5, ArchivesStay
<1>7. ASSUME NEW e \in Dirs, NEW k \in Kinds, PruneStage(d) = PruneStage(e), NEW s \in goes
      PROVE  ~IsGeneration(made[e], k, s)
  <2>1. e = d
    <3>1. \A a, b \in Dirs : PruneStage(a) = PruneStage(b) => a = b
      BY DEF PruneStage, Dirs
    <3>. QED
      BY <1>7, <3>1
  <2>2. there \subseteq made[d] /\ made[d] \in SUBSET Stamps
    BY DEF ArchivesInv
  <2>3. s \in there /\ s \notin RetentionKeep(there)
    BY DEF goes
  <2>4. ~IsGeneration(there, k, s)
    BY <2>3 DEF RetentionKeep, IsGeneration
  <2>. QED
    BY <2>1, <2>2, <2>3, <2>4, StillCounts
<1>8. \A e \in Dirs, k \in Kinds :
        run'.stage = PruneStage(e) => \A s \in run'.left : ~IsGeneration(made'[e], k, s)
  BY <1>1, <1>5, <1>7
<1>. QED
  BY <1>4, <1>6, <1>8 DEF RetentionInv

LEMMA PruneKeeps ==
  ASSUME ServiceInv, RunInv, ArchivesInv, RetentionInv, NEW d \in Dirs, NEW s \in Stamps, Prune(d, s)
  PROVE  RunInv' /\ ArchivesInv' /\ RetentionInv'
<1>1. /\ UNCHANGED service /\ made' = made /\ run.stage = PruneStage(d) /\ s \in run.left
      /\ archives' = [archives EXCEPT ![d] = Restrict(@, DOMAIN @ \ {s})]
      /\ run' = [run EXCEPT !.left = @ \ {s}]
  BY DEF Prune, Running
<1>2. Becomes(run.stage, run.dbs, run.files, run.left \ {s})
  BY <1>1 DEF RunInv, NoRun, Becomes
<1>3. run.stage \in {"prune mirror", "prune primary"}
  BY <1>1 DEF PruneStage
<1>4. RunInv'
  BY <1>1, <1>2, <1>3, RunMovesOn DEF RunStages, Packed
<1>5. run'.stage = run.stage /\ run'.left = run.left \ {s}
  BY <1>2 DEF Becomes
<1>6. /\ DOMAIN archives' = Dirs
      /\ DOMAIN archives'[d] = DOMAIN archives[d] \ {s}
      /\ \A t \in DOMAIN archives[d] \ {s} : archives'[d][t] = archives[d][t]
      /\ \A e \in Dirs \ {d} : archives'[e] = archives[e]
  BY <1>1 DEF ArchivesInv, Restrict
<1>7. \A e \in Dirs : /\ DOMAIN archives'[e] \subseteq DOMAIN archives[e]
                     /\ \A t \in DOMAIN archives'[e] : archives'[e][t] = archives[e][t]
  BY <1>6
<1>8. ArchivesResolve'
  <2>1. ArchivesResolve
    BY DEF ArchivesInv
  <2>. QED
    BY <1>7, <2>1 DEF ArchivesResolve
<1>9. \A e \in Dirs : /\ DOMAIN archives'[e] \subseteq made'[e]
                     /\ \A t \in DOMAIN archives'[e] : DOMAIN archives'[e][t] = DOMAIN Partial
  <2>1. \A e \in Dirs : /\ DOMAIN archives[e] \subseteq made[e]
                       /\ \A t \in DOMAIN archives[e] : DOMAIN archives[e][t] = DOMAIN Partial
    BY DEF ArchivesInv
  <2>2. made' = made
    BY <1>1
  <2>. QED
    BY <1>7, <2>1, <2>2
<1>10. ArchivesInv'
  BY <1>1, <1>3, <1>5, <1>6, <1>8, <1>9 DEF ArchivesInv
<1>11. \A e \in Dirs, k \in Kinds :
         run'.stage = PruneStage(e) => \A t \in run'.left : ~IsGeneration(made'[e], k, t)
  BY <1>1, <1>5 DEF RetentionInv
<1>12. GenerationsKept'
  <2>1. SUFFICES ASSUME NEW e \in Dirs, NEW k \in Kinds, NEW t \in made'[e],
                        IsGeneration(made'[e], k, t)
                 PROVE  t \in DOMAIN archives'[e]
    BY GenerationsWillBe
  <2>2. GenerationsKept
    BY DEF RetentionInv
  <2>3. t \in DOMAIN archives[e]
    BY <1>1, <2>1, <2>2, GenerationsAre
  <2>4. e = d => t # s
    <3>1. \A r \in run.left : ~IsGeneration(made[d], k, r)
      BY <1>1 DEF RetentionInv
    <3>. QED
      BY <1>1, <2>1, <3>1
  <2>. QED
    BY <1>6, <2>3, <2>4
<1>. QED
  BY <1>4, <1>10, <1>11, <1>12 DEF RetentionInv

LEMMA RunStep ==
  ASSUME BackupAssumption, ServiceInv, RunInv, ArchivesInv, RetentionInv, Run
  PROVE  /\ RunInv' /\ ArchivesInv' /\ RetentionInv'
         /\ UNCHANGED <<service, restore, target>>
<1>1. UNCHANGED <<service, restore, target>>
  BY DEF Run, Start, CopyAuth, ListRooms, ListUploads, CopyRoom, CopyUpload, CopyTokens, DigestTokens,
         OpenArchive, CloseArchive, SealArchive, OpenMirror, CloseMirror, SealMirror, MirrorFails,
         Retain, EndPrune, Prune, StopRun, Copying, Running
<1>2. CASE \/ CopyAuth \/ ListRooms \/ ListUploads \/ CopyTokens \/ DigestTokens
           \/ \E b \in Boards : CopyRoom(b)
           \/ \E u \in Uploads : CopyUpload(u)
  <2>1. RunInv'
    BY <1>2, CopyAuthKeeps, ListRoomsKeeps, ListUploadsKeeps, TokensKeep, CopyRoomKeeps,
       CopyUploadKeeps
  <2>. QED
    BY <1>1, <1>2, <2>1, CopiesKeepArchives
<1>3. CASE OpenArchive \/ CloseArchive \/ OpenMirror \/ CloseMirror
  BY <1>1, <1>3, ArchivesArePut
<1>4. CASE SealArchive \/ SealMirror
  BY <1>1, <1>4, ArchivesAreSealed
<1>5. CASE (\E s \in Stamps : Start(s)) \/ StopRun \/ MirrorFails \/ (\E d \in Dirs : EndPrune(d))
  BY <1>1, <1>5, RunsBeginAndEnd
<1>6. CASE \E d \in Dirs : Retain(d)
  BY <1>1, <1>6, RetainKeeps
<1>7. CASE \E d \in Dirs, s \in Stamps : Prune(d, s)
  BY <1>1, <1>7, PruneKeeps
<1>. QED
  BY <1>2, <1>3, <1>4, <1>5, <1>6, <1>7 DEF Run

\* An archive that changes on the disk holds the same, but not soundly.
LEMMA DamageKeeps ==
  ASSUME ArchivesInv, RetentionInv, Faults
  PROVE  /\ ArchivesInv' /\ RetentionInv'
         /\ UNCHANGED <<service, run, restore, target>>
<1>1. PICK d \in Dirs, s \in Stamps, n \in Databases : Damage(d, s, n)
  BY DEF Faults
<1>2. /\ UNCHANGED <<service, made, run, restore, target>>
      /\ archives' = [archives EXCEPT ![d][s].damaged = @ \cup {n}]
  BY <1>1 DEF Damage
<1>3. SameContents
  BY <1>2 DEF SameContents, ArchivesInv, Partial
<1>4. run' = run
  BY <1>2
<1>5. ArchivesInv' /\ GenerationsKept'
  BY <1>3, <1>4, SameContentsKeep
<1>6. made' = made
  BY <1>2
<1>7. RetentionInv'
  BY <1>4, <1>5, <1>6 DEF RetentionInv
<1>. QED
  BY <1>2, <1>5, <1>7

-----------------------------------------------------------------------------
(* Restores.                                                               *)

LEMMA BeginRestoreKeeps ==
  ASSUME ArchivesInv, RestoreInv, NEW d \in Dirs, NEW s \in Stamps, NEW unverified \in BOOLEAN,
         NEW force \in BOOLEAN, BeginRestore(d, s, unverified, force)
  PROVE  RestoreInv'
<1> DEFINE archive == archives[d][s]
<1>1. s \in DOMAIN archives[d]
  BY DEF BeginRestore
<1>2. \A n \in DOMAIN archive.dbs : archive.dbs[n] \subseteq Whole(archive.files)
  BY <1>1 DEF ArchivesInv, ArchivesResolve
<1>3. restore' = [stage |-> "databases", from |-> archive, stamp |-> s, left |-> DOMAIN archive.dbs]
  BY DEF BeginRestore
<1>4. target' = [target EXCEPT !.done = FALSE]
  BY DEF BeginRestore
<1> HIDE DEF archive
<1>5. /\ DOMAIN restore' = DOMAIN NoRestore /\ restore'.stage = "databases"
      /\ restore'.from = archive /\ restore'.left = DOMAIN archive.dbs
  BY <1>3 DEF NoRestore
<1>6. DOMAIN target' = DOMAIN NoTarget /\ ~target'.done
  BY <1>4 DEF RestoreInv, NoTarget
<1>. QED
  BY <1>2, <1>5, <1>6 DEF RestoreInv, RestoredIsSound

\* A restore that ends early leaves what it had written.
LEMMA RestoreEnds ==
  ASSUME RestoreInv, restore' = NoRestore, target' = target
  PROVE  RestoreInv'
<1>1. NoRestore.stage = "idle"
  BY DEF NoRestore
<1>. QED
  BY <1>1 DEF RestoreInv, RestoredIsSound

LEMMA RestoreDatabaseKeeps ==
  ASSUME RestoreInv, NEW n \in Databases, RestoreDatabase(n)
  PROVE  RestoreInv'
<1>1. restore.stage = "databases" /\ n \in restore.left
  BY DEF RestoreDatabase, Continuing, Restoring
<1>2. CASE ~IsSound(restore.from, n)
  BY <1>2, RestoreEnds DEF RestoreDatabase
<1>3. CASE IsSound(restore.from, n)
  <2> DEFINE row == RestoredFrom(restore.from, n)
             rows == With(target.dbs, n, row)
  <2>1. target' = [target EXCEPT !.dbs = rows] /\ restore' = [restore EXCEPT !.left = @ \ {n}]
    BY <1>3 DEF RestoreDatabase
  <2>2. row.sound
    BY <1>3 DEF RestoredFrom, IsSound
  <2>3. /\ DOMAIN rows = DOMAIN target.dbs \cup {n} /\ rows[n] = row
        /\ \A m \in DOMAIN target.dbs \ {n} : rows[m] = target.dbs[m]
    BY DEF With
  <2> HIDE DEF rows, row
  <2>4. /\ DOMAIN restore' = DOMAIN NoRestore /\ restore'.stage = "databases"
        /\ restore'.from = restore.from /\ restore'.stamp = restore.stamp
        /\ restore'.left = restore.left \ {n}
    BY <1>1, <2>1 DEF RestoreInv, NoRestore
  <2>5. DOMAIN target' = DOMAIN NoTarget /\ target'.dbs = rows /\ target'.done = target.done
    BY <2>1 DEF RestoreInv, NoTarget
  <2>6. ~target.done
    BY <1>1 DEF RestoreInv
  <2>7. \A m \in DOMAIN restore.from.dbs : RestoredFrom(restore.from, m)' = RestoredFrom(restore.from, m)
    BY <2>4 DEF RestoredFrom
  <2>8. ASSUME NEW m \in DOMAIN restore.from.dbs
        PROVE  /\ restore.from.dbs[m] \subseteq Whole(restore.from.files)
               /\ \/ m \in restore.left \ {n}
                  \/ /\ m \in DOMAIN rows /\ rows[m] = RestoredFrom(restore.from, m)
                     /\ rows[m].sound
    <3>1. /\ restore.from.dbs[m] \subseteq Whole(restore.from.files)
          /\ \/ m \in restore.left
             \/ /\ m \in DOMAIN target.dbs /\ target.dbs[m] = RestoredFrom(restore.from, m)
                /\ target.dbs[m].sound
      BY <1>1 DEF RestoreInv
    <3>2. CASE m = n
      BY <2>2, <2>3, <3>1, <3>2 DEF row
    <3>3. CASE m # n
      BY <2>3, <3>1, <3>3
    <3>. QED
      BY <3>2, <3>3
  <2>9. \A m \in DOMAIN restore'.from.dbs :
          /\ restore'.from.dbs[m] \subseteq Whole(restore'.from.files)
          /\ \/ m \in restore'.left
             \/ /\ m \in DOMAIN target'.dbs /\ target'.dbs[m] = RestoredFrom(restore.from, m)'
                /\ target'.dbs[m].sound
    BY <2>4, <2>5, <2>7, <2>8
  <2>10. ~target'.done
    BY <2>5, <2>6
  <2>. QED
    BY <2>4, <2>5, <2>9, <2>10 DEF RestoreInv, RestoredIsSound
<1>. QED
  BY <1>2, <1>3

LEMMA RestoreUploadsKeeps == ASSUME RestoreInv, RestoreUploads PROVE RestoreInv'
<1> DEFINE uploads == [u \in Uploads |-> IF restore.from.files[u] = "absent" THEN target.files[u]
                                         ELSE restore.from.files[u]]
<1>1. restore.stage = "databases" /\ restore.left = {}
  BY DEF RestoreUploads, Continuing, Restoring
<1>2. restore' = [restore EXCEPT !.stage = "config"]
  BY DEF RestoreUploads
<1>3. target' = [target EXCEPT !.files = uploads]
  BY DEF RestoreUploads, RestoreInv, NoTarget
<1>4. \A u \in Uploads : restore.from.files[u] = "whole" => uploads[u] = "whole"
  OBVIOUS
<1> HIDE DEF uploads
<1>5. /\ DOMAIN restore' = DOMAIN NoRestore /\ restore'.stage = "config"
      /\ restore'.from = restore.from /\ restore'.stamp = restore.stamp /\ restore'.left = {}
  BY <1>1, <1>2 DEF RestoreInv, NoRestore
<1>6. /\ DOMAIN target' = DOMAIN NoTarget /\ target'.files = uploads
      /\ target'.dbs = target.dbs /\ target'.done = target.done
  BY <1>3 DEF RestoreInv, NoTarget
<1>7. Whole(restore'.from.files) \subseteq Whole(target'.files)
  BY <1>4, <1>5, <1>6 DEF Whole
<1>8. ~target'.done
  BY <1>1, <1>6 DEF RestoreInv
<1>9. \A m \in DOMAIN restore.from.dbs : RestoredFrom(restore.from, m)' = RestoredFrom(restore.from, m)
  BY <1>5 DEF RestoredFrom
<1>10. \A m \in DOMAIN restore.from.dbs :
         /\ restore.from.dbs[m] \subseteq Whole(restore.from.files)
         /\ m \in DOMAIN target.dbs /\ target.dbs[m] = RestoredFrom(restore.from, m)
         /\ target.dbs[m].sound
  BY <1>1 DEF RestoreInv
<1>11. \A m \in DOMAIN restore'.from.dbs :
         /\ restore'.from.dbs[m] \subseteq Whole(restore'.from.files)
         /\ m \in DOMAIN target'.dbs /\ target'.dbs[m] = RestoredFrom(restore.from, m)'
         /\ target'.dbs[m].sound
  BY <1>5, <1>6, <1>9, <1>10
<1>. QED
  BY <1>5, <1>6, <1>7, <1>8, <1>11 DEF RestoreInv, RestoredIsSound

LEMMA RestoreConfigKeeps == ASSUME RestoreInv, RestoreConfig PROVE RestoreInv'
<1> DEFINE names == DOMAIN restore.from.dbs
<1>1. restore.stage = "config" /\ restore' = NoRestore
  BY DEF RestoreConfig, Continuing, Restoring
<1>2. target' = [target EXCEPT !.tokens = restore.from.tokens, !.done = TRUE,
                               !.stamp = restore.stamp, !.names = names]
  BY DEF RestoreConfig
<1>3. ASSUME NEW m \in names
      PROVE  /\ target.dbs[m].stamp = restore.stamp /\ target.dbs[m].sound
             /\ target.dbs[m].refers \subseteq Whole(target.files)
  <2>1. /\ restore.from.dbs[m] \subseteq Whole(restore.from.files)
        /\ target.dbs[m] = RestoredFrom(restore.from, m) /\ target.dbs[m].sound
        /\ Whole(restore.from.files) \subseteq Whole(target.files)
    BY <1>1 DEF RestoreInv
  <2>2. /\ RestoredFrom(restore.from, m).stamp = restore.stamp
        /\ RestoredFrom(restore.from, m).refers = restore.from.dbs[m]
    BY DEF RestoredFrom
  <2>. QED
    BY <2>1, <2>2
<1> HIDE DEF names
<1>4. /\ DOMAIN target' = DOMAIN NoTarget /\ target'.names = names /\ target'.stamp = restore.stamp
      /\ target'.dbs = target.dbs /\ target'.files = target.files
  BY <1>2 DEF RestoreInv, NoTarget
<1>5. RestoredIsSound'
  BY <1>3, <1>4 DEF RestoredIsSound
<1>6. DOMAIN restore' = DOMAIN NoRestore /\ restore'.stage = "idle"
  BY <1>1 DEF NoRestore
<1>. QED
  BY <1>4, <1>5, <1>6 DEF RestoreInv

LEMMA RestoreStep ==
  ASSUME ArchivesInv, RestoreInv, RestoreSteps
  PROVE  RestoreInv' /\ UNCHANGED <<service, archives, made, run>>
<1>1. UNCHANGED <<service, archives, made, run>>
  BY DEF RestoreSteps, BeginRestore, RestoreDatabase, RestoreUploads, RestoreConfig, StopRestore,
         Continuing, Restoring
<1>2. CASE \E d \in Dirs, s \in Stamps, unverified \in BOOLEAN, force \in BOOLEAN :
             BeginRestore(d, s, unverified, force)
  <2>1. PICK d \in Dirs, s \in Stamps, unverified \in BOOLEAN, force \in BOOLEAN :
               BeginRestore(d, s, unverified, force)
    BY <1>2
  <2>. QED
    BY <1>1, <2>1, BeginRestoreKeeps
<1>3. CASE \E n \in Databases : RestoreDatabase(n)
  <2>1. PICK n \in Databases : RestoreDatabase(n)
    BY <1>3
  <2>. QED
    BY <1>1, <2>1, RestoreDatabaseKeeps
<1>4. CASE StopRestore
  BY <1>4, RestoreEnds DEF StopRestore
<1>. QED
  BY <1>1, <1>2, <1>3, <1>4, RestoreUploadsKeeps, RestoreConfigKeeps DEF RestoreSteps

\* Nothing but a restore changes what restores have written.
LEMMA RestoresStay == ASSUME RestoreInv, UNCHANGED <<restore, target>> PROVE RestoreInv'
<1>1. restore' = restore /\ target' = target
  OBVIOUS
<1>2. \A n : RestoredFrom(restore.from, n)' = RestoredFrom(restore.from, n)
  BY <1>1 DEF RestoredFrom
<1>. QED
  BY <1>1, <1>2 DEF RestoreInv, RestoredIsSound

-----------------------------------------------------------------------------
(* The theorems.                                                           *)

LEMMA InitInv == ASSUME BackupAssumption, Init PROVE IInv
<1> USE DEF Init
<1>1. ServiceInv
  BY DEF ServiceInv, NoFiles, Whole
<1>2. RunInv
  BY <1>1, NoRunInv
<1>3. ArchivesInv
  <2>1. \A d \in Dirs : DOMAIN archives[d] = {} /\ made[d] = {}
    OBVIOUS
  <2>2. run.stage = "idle"
    BY DEF NoRun
  <2>. QED
    BY <2>1, <2>2 DEF ArchivesInv, ArchivesResolve
<1>4. RetentionInv
  <2>1. run.stage = "idle"
    BY DEF NoRun
  <2>2. \A d \in Dirs : made[d] = {}
    OBVIOUS
  <2>. QED
    BY <2>1, <2>2 DEF RetentionInv, GenerationsKept, PruneStage
<1>5. RestoreInv
  <2>1. restore = NoRestore /\ restore.stage = "idle"
    BY DEF NoRestore
  <2>2. target = NoTarget /\ ~target.done
    BY DEF NoTarget
  <2>. QED
    BY <2>1, <2>2 DEF RestoreInv, RestoredIsSound
<1>. QED
  BY <1>1, <1>2, <1>3, <1>4, <1>5 DEF IInv

LEMMA NextInv == ASSUME BackupAssumption, IInv, [Next]_vars PROVE IInv'
<1>1. ServiceInv /\ RunInv /\ ArchivesInv /\ RetentionInv /\ RestoreInv
  BY DEF IInv
<1>2. CASE Service
  <2>1. /\ ServiceInv' /\ dbs[Auth] \subseteq dbs'[Auth] /\ DOMAIN dbs \subseteq DOMAIN dbs'
        /\ UNCHANGED <<archives, made, run, restore, target>>
    BY <1>1, <1>2, ServiceStep
  <2>2. RunInv'
    BY <1>1, <2>1, ServiceKeepsRun
  <2>3. ArchivesInv' /\ RetentionInv'
    <3>1. SameContents /\ run' = run /\ made' = made
      BY <2>1 DEF SameContents
    <3>2. ArchivesInv' /\ GenerationsKept'
      BY <1>1, <3>1, SameContentsKeep
    <3>. QED
      BY <1>1, <3>1, <3>2 DEF RetentionInv
  <2>. QED
    BY <1>1, <2>1, <2>2, <2>3, RestoresStay DEF IInv
<1>3. ASSUME UNCHANGED service PROVE ServiceInv'
  BY <1>1, <1>3 DEF ServiceInv, service
<1>4. CASE Run
  <2>1. RunInv' /\ ArchivesInv' /\ RetentionInv' /\ UNCHANGED <<service, restore, target>>
    BY <1>1, <1>4, RunStep
  <2>. QED
    BY <1>1, <1>3, <2>1, RestoresStay DEF IInv
<1>5. ASSUME UNCHANGED <<service, run>> PROVE RunInv'
  BY <1>1, <1>5 DEF RunInv, service
<1>6. CASE Faults
  <2>1. ArchivesInv' /\ RetentionInv' /\ UNCHANGED <<service, run, restore, target>>
    BY <1>1, <1>6, DamageKeeps
  <2>. QED
    BY <1>1, <1>3, <1>5, <2>1, RestoresStay DEF IInv
<1>7. ASSUME UNCHANGED <<archives, made, run>> PROVE ArchivesInv' /\ RetentionInv'
  <2>1. SameContents /\ run' = run /\ made' = made
    BY <1>7 DEF SameContents
  <2>2. ArchivesInv' /\ GenerationsKept'
    BY <1>1, <2>1, SameContentsKeep
  <2>. QED
    BY <1>1, <2>1, <2>2 DEF RetentionInv
<1>8. CASE RestoreSteps
  <2>1. RestoreInv' /\ UNCHANGED <<service, archives, made, run>>
    BY <1>1, <1>8, RestoreStep
  <2>. QED
    BY <1>3, <1>5, <1>7, <2>1 DEF IInv
<1>9. CASE UNCHANGED vars
  <2>1. UNCHANGED service /\ UNCHANGED <<archives, made, run>> /\ UNCHANGED <<restore, target>>
    BY <1>9 DEF vars
  <2>. QED
    BY <1>1, <1>3, <1>5, <1>7, <2>1, RestoresStay DEF IInv
<1>. QED
  BY <1>2, <1>4, <1>6, <1>8, <1>9 DEF Next

\* The service registers only whole uploads, a run packs no database without the
\* uploads it refers to, retention removes nothing it promises to keep, and a
\* restore writes databases of one archive: main, command_run, apply_retention and
\* command_restore, whatever they interleave with and wherever they stop.
THEOREM Invariance == ASSUME BackupAssumption PROVE Spec => []IInv
<1>1. Init => IInv
  BY InitInv
<1>2. IInv /\ [Next]_vars => IInv'
  BY NextInv
<1>. QED
  BY <1>1, <1>2, PTL DEF Spec

\* Every archive, of the primary directory and of the mirror, has whole each upload
\* that a database in it refers to, though the databases are copied first and
\* people go on uploading and drawing: command_run.
THEOREM ArchivesHaveTheirUploads == ASSUME BackupAssumption PROVE Spec => []ArchivesResolve
<1>1. IInv => ArchivesResolve
  BY DEF IInv, ArchivesInv
<1>. QED
  BY <1>1, Invariance, BackupAssumption, PTL

\* The newest archive of each of the last days, weeks and months that was ever made
\* is there, whatever runs were stopped while they removed others: retention_keep
\* and apply_retention.
THEOREM GenerationsStay == ASSUME BackupAssumption PROVE Spec => []GenerationsKept
<1>1. IInv => GenerationsKept
  BY DEF IInv, RetentionInv
<1>. QED
  BY <1>1, Invariance, BackupAssumption, PTL

\* A restore that finished has left databases that are sound, of one archive, and
\* with their uploads, whatever archives were damaged: command_restore.
THEOREM RestoresAreSound == ASSUME BackupAssumption PROVE Spec => []RestoredIsSound
<1>1. IInv => RestoredIsSound
  BY DEF IInv, RestoreInv
<1>. QED
  BY <1>1, Invariance, BackupAssumption, PTL
=============================================================================
