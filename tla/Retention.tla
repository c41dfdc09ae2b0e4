----------------------------- MODULE Retention -----------------------------
(***************************************************************************)
(* Retention of a board's history: scripts/compact-history.ts deletes old  *)
(* events and checkpoints from the database a server may be writing to.    *)
(*                                                                         *)
(* A version of the board is the set of events whose changes it has, so    *)
(* the version at event e is 1..e.  What an event changes and how changes  *)
(* apply is the subject of BoardHistory.                                   *)
(***************************************************************************)
EXTENDS Integers, FiniteSets

CONSTANTS
  MaxEvents,       \* bound on the events ever appended
  MaxTime,         \* bound on the days that pass
  DetailedDays,    \* days in which every event is kept
  CheckpointDays,  \* days in which every checkpoint is kept
  WeekDays,        \* days of a week
  Sample           \* newest events verified: LIMIT 100

ASSUME RetentionAssumption ==
  /\ MaxEvents \in Nat \ {0}
  /\ MaxTime \in Nat
  /\ DetailedDays \in Nat
  /\ CheckpointDays \in Nat
  /\ WeekDays \in Nat \ {0}
  /\ Sample \in Nat

VARIABLES
  last,         \* id of the last event ever appended (AUTOINCREMENT)
  appendedAt,   \* created_at of each event
  events,       \* ids in history_events
  made,         \* id of the last checkpoint ever made
  rows,         \* what each of them is
  checkpoints,  \* ids in history_checkpoints
  fresh,        \* the handler that appended the last event is still running
  today,
  plan          \* what the script has read

board == <<last, appendedAt, events, made, rows, checkpoints, fresh>>
vars == <<last, appendedAt, events, made, rows, checkpoints, fresh, today, plan>>

EventIds == 1..MaxEvents
Times == 0..MaxTime
Reasons == {"legacy_import", "periodic", "explicit", "pre_restore", "restore_completed"}

Newest(S) == CHOOSE x \in S : \A y \in S : y <= x
Oldest(S) == CHOOSE x \in S : \A y \in S : x <= y

-----------------------------------------------------------------------------
(* The board's server.                                                     *)

Checkpoint(at, base, reason, has) == [at |-> at, base |-> base, reason |-> reason, has |-> has]

\* SELECT MAX(id); 0 stands for NULL.
LatestEventId == IF events = {} THEN 0 ELSE Newest(events)

\* The board is imported: an event without changes and its checkpoint.
Init ==
  /\ last = 1
  /\ appendedAt = [e \in EventIds |-> 0]
  /\ events = {1}
  /\ made = 1
  /\ rows = [c \in EventIds |-> Checkpoint(0, 1, "legacy_import", {1})]
  /\ checkpoints = {1}
  /\ fresh = FALSE
  /\ today = 0
  /\ plan = [step |-> "none"]

AppendEvent ==
  /\ last < MaxEvents
  /\ last' = last + 1
  /\ appendedAt' = [appendedAt EXCEPT ![last + 1] = today]
  /\ events' = events \cup {last + 1}
  /\ fresh' = TRUE
  /\ UNCHANGED <<made, rows, checkpoints, today, plan>>

AddCheckpoint(base, reason) ==
  /\ made' = made + 1
  /\ rows' = [rows EXCEPT ![made + 1] = Checkpoint(today, base, reason, 1..last)]
  /\ checkpoints' = checkpoints \cup {made + 1}

\* On a timer, when a pass may have come between the event and its checkpoint.
CheckpointWheneverDue ==
  /\ made < last
  /\ AddCheckpoint(LatestEventId, "periodic")
  /\ fresh' = FALSE
  /\ UNCHANGED <<last, appendedAt, events, today, plan>>

\* After an event, based on the greatest id there is.
MaybeCheckpoint ==
  /\ fresh
  /\ AddCheckpoint(LatestEventId, "periodic")
  /\ fresh' = FALSE
  /\ UNCHANGED <<last, appendedAt, events, today, plan>>

\* After its own event checkpoint.created, based on that.
CreateRoomCheckpoint ==
  /\ fresh
  /\ AddCheckpoint(last, "explicit")
  /\ fresh' = FALSE
  /\ UNCHANGED <<last, appendedAt, events, today, plan>>

\* By event id: no route takes a checkpoint or a time.  One transaction: two
\* events with a checkpoint each.
RestoreRoomVersion(e) ==
  LET started == last + 1
      completed == last + 2
  IN  /\ e \in events
      /\ completed \in EventIds
      /\ last' = completed
      /\ appendedAt' = [appendedAt EXCEPT ![started] = today, ![completed] = today]
      /\ events' = events \cup {started, completed}
      /\ made' = made + 2
      /\ rows' = [rows EXCEPT
           ![made + 1] = Checkpoint(today, started, "pre_restore", 1..started),
           ![made + 2] = Checkpoint(today, completed, "restore_completed", 1..completed)]
      /\ checkpoints' = checkpoints \cup {made + 1, made + 2}
      /\ fresh' = FALSE
      /\ UNCHANGED <<today, plan>>

Tick ==
  /\ today < MaxTime
  /\ today' = today + 1
  /\ UNCHANGED <<board, plan>>

-----------------------------------------------------------------------------
(* Rebuilding a version.                                                   *)

\* What a version is rebuilt from: a checkpoint and the events after its base.
Rebuilt(c, target, evs) ==
  [checkpoint |-> c, applied |-> {x \in evs : rows[c].base < x /\ x <= target}]

\* ORDER BY base_event_id DESC, id DESC LIMIT 1.
BaseFor(e, cs) ==
  CHOOSE c \in cs :
    /\ rows[c].base <= e
    /\ \A d \in cs : rows[d].base <= e =>
         rows[d].base < rows[c].base \/ (rows[d].base = rows[c].base /\ d <= c)

ReconstructEvent(e, evs, cs) == Rebuilt(BaseFor(e, cs), e, evs)
ReconstructCheckpoint(c, evs) == Rebuilt(c, rows[c].base, evs)

Snapshot(rebuilt) == rows[rebuilt.checkpoint].has \cup rebuilt.applied

-----------------------------------------------------------------------------
(* The script.                                                             *)

IsoWeek(day) == day \div WeekDays

Pinned(c) == rows[c].reason \in {"explicit", "pre_restore"}
Old(c) == ~Pinned(c) /\ rows[c].at < today - CheckpointDays

\* The first of each week instead.
RetainFirstOfWeek ==
  {c \in checkpoints :
     \/ c = Newest(checkpoints) \/ c = Oldest(checkpoints)
     \/ ~Old(c)
     \/ \A d \in checkpoints :
          Old(d) /\ IsoWeek(rows[d].at) = IsoWeek(rows[c].at) => c <= d}

\* The first, the last, the pinned, the young and the last of each week.
Retained ==
  {c \in checkpoints :
     \/ c = Newest(checkpoints) \/ c = Oldest(checkpoints)
     \/ ~Old(c)
     \/ \A d \in checkpoints :
          Old(d) /\ IsoWeek(rows[d].at) = IsoWeek(rows[c].at) => d <= c}

Consecutive(r, c, d) == c < d /\ ~\E x \in r : c < x /\ x < d

\* From the oldest on, up to the first retained checkpoint that is young.
Eligible(r, d) == \A x \in r : Oldest(r) < x /\ x <= d => rows[x].at < today - DetailedDays

Within(gap, e) == gap.lower < e /\ e <= gap.upper

\* The events between two retained checkpoints go all together.
Gaps(r) ==
  LET between == {p \in r \X r : Consecutive(r, p[1], p[2]) /\ Eligible(r, p[2])}
  IN  {gap \in {[lower |-> rows[p[1]].base, upper |-> rows[p[2]].base] : p \in between} :
         \E e \in events : Within(gap, e)}

DeletableEvents(gaps) == {e \in events : \E gap \in gaps : Within(gap, e)}

\* All that are not retained.
UnretainedCheckpoints(r, gaps) == checkpoints \ r

\* A checkpoint goes only with the gap around it.
DeletableCheckpoints(r, gaps) ==
  {c \in checkpoints \ r :
     \E gap \in gaps : gap.lower < rows[c].base /\ rows[c].base < gap.upper}

\* Reading the checkpoints and the events between them.
PlanCompaction ==
  /\ plan.step = "none"
  /\ LET gaps == Gaps(Retained)
     IN  plan' = [step |-> "planned", retained |-> Retained, gaps |-> gaps,
                  events |-> DeletableEvents(gaps),
                  checkpoints |-> DeletableCheckpoints(Retained, gaps),
                  total |-> Cardinality(checkpoints)]
  /\ UNCHANGED <<board, today>>

NewestOf(S, n) == {x \in S : Cardinality({y \in S : y > x}) < n}

Boundary == IF plan.events = {} THEN 0 ELSE Newest(plan.events)

\* The events that the pass promises to keep; of those after the last gap, a few.
VerificationTargets ==
  {e \in events \ plan.events : e <= Boundary} \cup
  NewestOf({e \in events : e > Boundary}, Sample)

SnapshotHashes(targets, evs, cs) ==
  [event |-> [e \in targets |-> ReconstructEvent(e, evs, cs)],
   checkpoint |-> [c \in plan.retained |-> ReconstructCheckpoint(c, evs)]]

NothingToDo == plan.events = {} /\ plan.checkpoints = {}

\* Reading the targets and the latest event, and rebuilding the targets.
HashBefore ==
  /\ plan.step = "planned"
  /\ ~NothingToDo
  /\ plan' = [step |-> "hashed", retained |-> plan.retained, gaps |-> plan.gaps,
              events |-> plan.events, checkpoints |-> plan.checkpoints, total |-> plan.total,
              targets |-> VerificationTargets, latest |-> LatestEventId,
              before |-> SnapshotHashes(VerificationTargets, events, checkpoints)]
  /\ UNCHANGED <<board, today>>

\* What the transaction looks at before it opens the gate.
BoardMoved == LatestEventId # plan.latest \/ Cardinality(checkpoints) # plan.total

KeptEvents == events \ plan.events
KeptCheckpoints == checkpoints \ plan.checkpoints

Verified == SnapshotHashes(plan.targets, KeptEvents, KeptCheckpoints) = plan.before

\* The transaction of a pass with --apply.  The gate that allows deleting is
\* opened and closed inside, so nobody sees it open.
Apply ==
  /\ plan.step = "hashed"
  /\ ~BoardMoved
  /\ plan.events \subseteq events
  /\ Verified
  /\ events' = KeptEvents
  /\ checkpoints' = KeptCheckpoints
  /\ plan' = [step |-> "none"]
  /\ UNCHANGED <<last, appendedAt, made, rows, fresh, today>>

\* A dry run, a pass that finds nothing to do, one that a check in the
\* transaction refuses and one that is killed: all is rolled back.
RollBack ==
  /\ plan.step # "none"
  /\ plan' = [step |-> "none"]
  /\ UNCHANGED <<board, today>>

\* The server ends within a handler.
Crash ==
  /\ fresh
  /\ fresh' = FALSE
  /\ UNCHANGED <<last, appendedAt, events, made, rows, checkpoints, today, plan>>

Next ==
  \/ AppendEvent \/ MaybeCheckpoint \/ CreateRoomCheckpoint
  \/ \E e \in EventIds : RestoreRoomVersion(e)
  \/ PlanCompaction \/ HashBefore \/ Apply \/ RollBack
  \/ Crash
  \/ Tick

Spec == Init /\ [][Next]_vars

-----------------------------------------------------------------------------
(* Properties.                                                             *)

Rows == [at : Times, base : EventIds, reason : Reasons, has : SUBSET EventIds]

TypeOK ==
  /\ last \in EventIds
  /\ appendedAt \in [EventIds -> Times]
  /\ events \subseteq 1..last
  /\ made \in 1..last
  /\ rows \in [EventIds -> Rows]
  /\ checkpoints \subseteq 1..made
  /\ fresh \in BOOLEAN
  /\ today \in Times
  /\ plan.step \in {"none", "planned", "hashed"}
  /\ plan.step # "none" => plan.events \subseteq EventIds /\ plan.checkpoints \subseteq 1..made

\* Whatever was deleted, in however many passes, every event that is left
\* still shows the board as it was after that event, and every checkpoint the
\* board at its base: reconstruct() never replays a range with holes.
KeptVersions ==
  /\ \A e \in events : Snapshot(ReconstructEvent(e, events, checkpoints)) = 1..e
  /\ \A c \in checkpoints : Snapshot(ReconstructCheckpoint(c, events)) = 1..rows[c].base

\* The comparison of the rebuilt versions before and after never has to save
\* the board: a plan that the other checks let through rebuilds every version
\* from the same checkpoint and events as before.  So it does not matter that
\* only some of the newest events are compared.
PlansAreSound ==
  plan.step = "hashed" /\ ~BoardMoved =>
    /\ plan.events \subseteq events
    /\ SnapshotHashes(KeptEvents, KeptEvents, KeptCheckpoints) =
         SnapshotHashes(KeptEvents, events, checkpoints)

\* No pass deletes an event in the days of full resolution, however late it
\* comes to delete what it planned.
FullResolution ==
  [][\A e \in events \ events' : appendedAt[e] < today - DetailedDays]_vars

\* A checkpoint is there for good if somebody asked for it or a restore made
\* it; of every other one it or a later one of the same week is there.
WeeklySeries ==
  \A c \in 1..made :
    \/ c \in checkpoints
    \/ /\ ~Pinned(c)
       /\ \E d \in checkpoints :
            c < d /\ ~Pinned(d) /\ IsoWeek(rows[d].at) = IsoWeek(rows[c].at)
=============================================================================
