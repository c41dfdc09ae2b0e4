---------------------------- MODULE BoardHistory ----------------------------
(***************************************************************************)
(* The history of one board: server/history.ts (BoardHistoryStore and      *)
(* BoardHistoryRecorder), the storage wrapper of server/history-storage.ts *)
(* that feeds it, and the room operations of server/rooms.ts that append   *)
(* events, create checkpoints and restore versions.                        *)
(*                                                                         *)
(* One SQLite file holds the canvas, the immutable events, the full        *)
(* checkpoints and the fragments, which are human edits already committed  *)
(* to the canvas but not yet published as events.  Everything else (the    *)
(* open handle, the debounce timer, the recorder's counter, the write      *)
(* context waiting for the next transaction) dies with the process.        *)
(*                                                                         *)
(* JavaScript runs a handler to completion, so the only thing that can     *)
(* happen between two database transactions of one handler is the end of   *)
(* the process or an exception.  todo holds the transactions the running   *)
(* handler has still to make.                                              *)
(***************************************************************************)
EXTENDS Integers, Sequences, FiniteSets

CONSTANTS
  Records,        \* the record ids a board can hold
  Contents,       \* what a record can contain
  Absent,         \* the content of a record that is not on the board
  Moves,          \* pairs of contents that differ in x and y only
  Sessions,       \* websocket sessions, each of one person
  Agents,         \* callers of the HTTP API: a token, or a person's request
  Nobody,         \* the null actor and the null write context
  SnapshotEvery,  \* snapshotEveryEvents
  WriteFailures,  \* whether a database transaction may fail
  MaxClock,       \* bound: document clock
  MaxEvents       \* bound: events, the fragments that will become events included

Board == [Records -> Contents \cup {Absent}]
Actors == Sessions \cup Agents

ASSUME ConstantsAssumption ==
  /\ Absent \notin Contents
  /\ Nobody \notin Actors
  /\ Moves \subseteq Contents \X Contents
  /\ SnapshotEvery \in Nat \ {0}
  /\ WriteFailures \in BOOLEAN
  /\ MaxClock \in Nat
  /\ MaxEvents \in Nat \ {0}

VARIABLES
  docs,           \* the canvas (durable)
  clock,          \* tldraw's document clock (durable)
  events,         \* history_events; the id of an event is its index
  checkpoints,    \* history_checkpoints
  fragments,      \* history_event_fragments
  open,           \* whether a process holds the room handle
  nextContext,    \* HistorySyncStorage.nextContext
  timer,          \* the debounce timer: "off", "armed", or "due"
  snapshotMark,   \* eventsAtLastSnapshot
  todo,           \* the transactions the running handler has still to make
  request,        \* the arguments of the running handler
  version,        \* ghost: who left the board in which state, for each event
  staged          \* ghost: the same, for each fragment

durable == <<docs, clock, events, checkpoints, fragments, version, staged>>
vars == <<docs, clock, events, checkpoints, fragments, open, nextContext,
          timer, snapshotMark, todo, request, version, staged>>

-----------------------------------------------------------------------------
(* Changes between two states of the board.                                *)

Diff(before, after) ==
  [r \in {x \in Records : before[x] # after[x]} |->
     [before |-> before[r], after |-> after[r]]]

NoChanges == [r \in {} |-> Absent]

\* eventTypeForChanges; a record's type decides object.* or entity.*, so the
\* name of the family is left out.
EventTypeForChanges(changes) ==
  LET created == \A r \in DOMAIN changes : changes[r].before = Absent
      deleted == \A r \in DOMAIN changes : changes[r].after = Absent
      moved == \A r \in DOMAIN changes :
                 <<changes[r].before, changes[r].after>> \in Moves
  IN  IF created THEN "created"
      ELSE IF deleted THEN "deleted"
      ELSE IF moved THEN "moved"
      ELSE "edited"

Event(actor, kind, changes, atClock, target) ==
  [actor |-> actor, kind |-> kind, changes |-> changes, clock |-> atClock,
   target |-> target]

Checkpoint(base, reason, board) ==
  [base |-> base, reason |-> reason, board |-> board]

\* What happened: the state an actor left the board in.
Written(board, by) == [board |-> board, by |-> by]

-----------------------------------------------------------------------------
(* Publishing fragments: adjacent fragments of one coalescing group become *)
(* one event.                                                              *)

\* A key that does not name the actor.
CoalesceAnyActor(f) == <<f.kind, DOMAIN f.changes>>

CoalesceGroup(f) == <<f.actor, f.kind, DOMAIN f.changes>>

GroupStarts ==
  {i \in DOMAIN fragments :
     i > 1 => CoalesceGroup(fragments[i]) # CoalesceGroup(fragments[i - 1])}

\* The groups in order, each named by its first fragment: there is one such
\* sequence.
Groupings ==
  {starts \in [1 .. Cardinality(GroupStarts) -> GroupStarts] :
     /\ \A i, j \in DOMAIN starts : i < j => starts[i] < starts[j]
     /\ \A g \in GroupStarts : \E i \in DOMAIN starts : starts[i] = g}

\* A group cut off after its first fragment.
GroupEndAtStart(starts, k) == starts[k]

GroupEnd(starts, k) ==
  IF k = Len(starts) THEN Len(fragments) ELSE starts[k + 1] - 1

\* The merge of a record that keeps what the last fragment replaced.
MergeLast(first, last) == [r \in {x \in DOMAIN first : first[x].before # last[x].after} |-> last[r]]

\* mergeChanges on the fragments of one group.  They touch the same records
\* (the key names them), so the first one has every before and the last one
\* every after; a record that ends as it began is dropped.
MergeChanges(first, last) ==
  [r \in {x \in DOMAIN first : first[x].before # last[x].after} |->
     [before |-> first[r].before, after |-> last[r].after]]

MergedEvent(first, last) ==
  Event(first.actor, first.kind, MergeChanges(first.changes, last.changes),
        last.clock, 0)

PublishedEvents(starts) ==
  [k \in DOMAIN starts |->
     MergedEvent(fragments[starts[k]], fragments[GroupEnd(starts, k)])]

PublishedVersions(starts) ==
  [k \in DOMAIN starts |-> staged[GroupEnd(starts, k)]]

\* The pending fragments published after the event that should follow them.
FlushLate(starts, newEvents, newVersions) ==
  /\ events' = events \o newEvents \o PublishedEvents(starts)
  /\ version' = version \o newVersions \o PublishedVersions(starts)
  /\ fragments' = <<>>
  /\ staged' = <<>>

\* flushFragments({ force: true }), the only form the server uses.
FlushFragments(starts, newEvents, newVersions) ==
  /\ events' = events \o PublishedEvents(starts) \o newEvents
  /\ version' = version \o PublishedVersions(starts) \o newVersions
  /\ fragments' = <<>>
  /\ staged' = <<>>

-----------------------------------------------------------------------------
(* Replay.                                                                 *)

Touching(r, lo, hi) == {i \in lo + 1 .. hi : r \in DOMAIN events[i].changes}

\* applyHistoryEvents: the events after lo up to hi applied to a snapshot.  What
\* the loop leaves in a record is the last thing an event put there.
ApplyHistoryEvents(snapshot, lo, hi) ==
  [r \in Records |->
     LET touching == Touching(r, lo, hi)
     IN  IF touching = {}
           THEN snapshot[r]
           ELSE LET i == CHOOSE x \in touching : \A y \in touching : x >= y
                IN  events[i].changes[r].after]

\* The loop throws when a record is not what the event says it replaced.
Diverges(snapshot, lo, hi) ==
  \E i \in lo + 1 .. hi : \E r \in DOMAIN events[i].changes :
    ApplyHistoryEvents(snapshot, lo, i - 1)[r] # events[i].changes[r].before

\* Checkpoints one event too late.
CandidatesPastTarget(target) == {c \in DOMAIN checkpoints : checkpoints[c].base <= target + 1}

Candidates(target) == {c \in DOMAIN checkpoints : checkpoints[c].base <= target}

\* ORDER BY base_event_id DESC, id DESC LIMIT 1.
BaseCheckpoint(target) ==
  CHOOSE c \in Candidates(target) :
    \A d \in Candidates(target) :
      \/ checkpoints[d].base < checkpoints[c].base
      \/ checkpoints[d].base = checkpoints[c].base /\ d <= c

Reconstructable(target) ==
  /\ target \in DOMAIN events
  /\ Candidates(target) # {}
  /\ LET c == checkpoints[BaseCheckpoint(target)]
     IN  ~Diverges(c.board, c.base, target)

Reconstruct(target) ==
  LET c == checkpoints[BaseCheckpoint(target)]
  IN  ApplyHistoryEvents(c.board, c.base, target)

-----------------------------------------------------------------------------
(* The recorder.                                                           *)

\* maybeCheckpoint after numEvents events exist.  due: fifteen minutes have
\* passed since the last periodic checkpoint.
CheckpointDue(numEvents, due) ==
  numEvents - snapshotMark >= SnapshotEvery \/ due

\* The live canvas recorded as the board of the event before the newest.
CheckpointBeforeEvent(numEvents, board, due) ==
  IF CheckpointDue(numEvents, due) /\ numEvents > 1
    THEN <<Checkpoint(numEvents - 1, "periodic", board)>>
    ELSE <<>>

PeriodicCheckpoints(numEvents, board, due) ==
  IF CheckpointDue(numEvents, due)
    THEN <<Checkpoint(numEvents, "periodic", board)>>
    ELSE <<>>

MarkAfter(numEvents, due) ==
  IF CheckpointDue(numEvents, due) THEN numEvents ELSE snapshotMark

NoRequest == [actor |-> Nobody, kind |-> "none", target |-> 0, expected |-> 0]

Idle == open /\ todo = <<>>

\* Room for n more events beside the ones the pending fragments may become.
SpaceFor(n) == Len(events) + Len(fragments) + n <= MaxEvents

Continue(steps, req) == todo' = steps /\ request' = req

\* The rest of the running handler.
At(step) == todo # <<>> /\ Head(todo) = step

NextStep ==
  /\ todo' = Tail(todo)
  /\ request' = IF Len(todo) = 1 THEN NoRequest ELSE request

-----------------------------------------------------------------------------
Init ==
  /\ docs \in Board                 \* a board older than the history is imported
  /\ clock = 0
  /\ events = <<>>
  /\ checkpoints = <<>>
  /\ fragments = <<>>
  /\ open = FALSE
  /\ nextContext = Nobody
  /\ timer = "off"
  /\ snapshotMark = 0
  /\ todo = <<>>
  /\ request = NoRequest
  /\ version = <<>>
  /\ staged = <<>>

\* getRoomHandle on a board no process holds: the recorder's constructor
\* publishes what a dead process left behind.
Open ==
  /\ ~open
  /\ \E starts \in Groupings :
       /\ FlushFragments(starts, <<>>, <<>>)
       /\ snapshotMark' = Len(events) + Len(starts)
  /\ open' = TRUE
  /\ Continue(<<"legacy">>, NoRequest)
  /\ UNCHANGED <<docs, clock, checkpoints, nextContext, timer>>

\* ensureLegacyImportCheckpoint: a board with no checkpoint gets its first
\* event and, based on it, its first checkpoint.
LegacyImport ==
  /\ At("legacy")
  /\ IF checkpoints = <<>>
       THEN /\ events' = Append(events, Event(Nobody, "board.imported",
                                              NoChanges, clock, 0))
            /\ version' = Append(version, Written(docs, Nobody))
            /\ checkpoints' = <<Checkpoint(Len(events) + 1, "legacy_import", docs)>>
       ELSE UNCHANGED <<events, version, checkpoints>>
  /\ NextStep
  /\ UNCHANGED <<docs, clock, fragments, staged, open, nextContext, timer,
                 snapshotMark>>

\* The process ends: every commit stays, everything in memory goes.
Crash ==
  /\ open
  /\ open' = FALSE
  /\ nextContext' = Nobody
  /\ timer' = "off"
  /\ snapshotMark' = 0
  /\ todo' = <<>>
  /\ request' = NoRequest
  /\ UNCHANGED durable

\* The context a push runs under: onAfterReceiveMessage sets it just before,
\* over whatever an earlier message left there.
ContextOfPush(session) == session

\* A running timer is cleared and not set again.
ScheduleFlushOnce == timer' = IF timer = "off" THEN "armed" ELSE "off"

\* scheduleFlush: every edit starts the debounce again.
ScheduleFlush == timer' = "armed"

\* A person's edit: the canvas and its fragment commit together, and the
\* debounce starts again.
Push(session) ==
  /\ Idle
  /\ SpaceFor(1)
  /\ clock < MaxClock
  /\ \E board \in Board \ {docs} :
       LET changes == Diff(docs, board)
       IN  /\ docs' = board
           /\ fragments' = Append(fragments,
                Event(ContextOfPush(session), EventTypeForChanges(changes),
                      changes, clock + 1, 0))
           /\ staged' = Append(staged, Written(board, session))
  /\ clock' = clock + 1
  /\ ScheduleFlush
  /\ nextContext' = Nobody
  /\ UNCHANGED <<events, checkpoints, open, snapshotMark, todo, request, version>>

\* A push of a session that has not finished connecting is dropped before any
\* transaction: its context stays behind.
DroppedPush(session) ==
  /\ Idle
  /\ nextContext' = session
  /\ UNCHANGED <<durable, open, timer, snapshotMark, todo, request>>

\* A transaction that writes nothing (a handshake, a viewer's push) consumes
\* the context.
QuietTransaction ==
  /\ Idle
  /\ nextContext # Nobody
  /\ nextContext' = Nobody
  /\ UNCHANGED <<durable, open, timer, snapshotMark, todo, request>>

\* A write of the HTTP API: recordSynchronousEvent inside the transaction that
\* changes the canvas.  withContext puts the waiting context back.
ImmediateWrite(agent) ==
  /\ Idle
  /\ SpaceFor(1)
  /\ clock < MaxClock
  /\ \E board \in Board \ {docs}, starts \in Groupings, due \in BOOLEAN :
       LET changes == Diff(docs, board)
           numEvents == Len(events) + Len(starts) + 1
       IN  /\ FlushFragments(starts,
                <<Event(agent, EventTypeForChanges(changes), changes, clock + 1, 0)>>,
                <<Written(board, agent)>>)
           /\ docs' = board
           /\ checkpoints' = checkpoints \o PeriodicCheckpoints(numEvents, board, due)
           /\ snapshotMark' = MarkAfter(numEvents, due)
  /\ clock' = clock + 1
  /\ timer' = "off"
  /\ UNCHANGED <<open, nextContext, todo, request>>

\* The same write, undone by a failure to commit: the rows come back, the
\* recorder's memory does not.
ImmediateWriteFails ==
  /\ WriteFailures
  /\ Idle
  /\ SpaceFor(1)
  /\ clock < MaxClock
  /\ timer' = "off"
  /\ \E due \in BOOLEAN :
       snapshotMark' \in {snapshotMark,
                          MarkAfter(Len(events) + Cardinality(GroupStarts) + 1, due)}
  /\ UNCHANGED <<durable, open, nextContext, todo, request>>

-----------------------------------------------------------------------------
\* recorder.flush(), with the transactions the handler makes after it.
RecorderFlush(steps, req) ==
  /\ Idle
  /\ timer' = "off"
  /\ \E starts \in Groupings :
       /\ FlushFragments(starts, <<>>, <<>>)
       /\ Continue((IF starts = <<>> THEN <<>> ELSE <<"maybe">>) \o steps, req)
  /\ UNCHANGED <<docs, clock, checkpoints, open, nextContext, snapshotMark>>

\* 900 ms without a human edit.
TimerExpires ==
  /\ timer = "armed"
  /\ timer' = "due"
  /\ UNCHANGED <<durable, open, nextContext, snapshotMark, todo, request>>

TimerFires ==
  /\ timer = "due"
  /\ RecorderFlush(<<>>, NoRequest)

\* recordSynchronousEvent outside a canvas write: a session joins or leaves, an
\* agent reports an AI event.
RecordActivity(actor) ==
  /\ Idle
  /\ SpaceFor(1)
  /\ timer' = "off"
  /\ \E starts \in Groupings : FlushFragments(starts, <<>>, <<>>)
  /\ Continue(<<"append", "maybe">>, [NoRequest EXCEPT !.actor = actor, !.kind = "activity"])
  /\ UNCHANGED <<docs, clock, checkpoints, open, nextContext, snapshotMark>>

\* createRoomCheckpoint.
CreateCheckpoint(actor) ==
  /\ SpaceFor(1)
  /\ RecorderFlush(<<"append", "explicit">>,
       [NoRequest EXCEPT !.actor = actor, !.kind = "checkpoint.created"])

\* restoreRoomVersion, asked for by someone who saw the board at `expected'.
RestoreVersion(actor, target, expected) ==
  /\ SpaceFor(2)
  /\ clock < MaxClock
  /\ RecorderFlush(<<"restore">>,
       [actor |-> actor, kind |-> "restore", target |-> target, expected |-> expected])

\* closeHandle.
CloseHandle == RecorderFlush(<<"close">>, NoRequest)

-----------------------------------------------------------------------------
\* appendEvent.
AppendStep ==
  /\ At("append")
  /\ \E starts \in Groupings :
       FlushFragments(starts, <<Event(request.actor, request.kind, NoChanges, clock, 0)>>,
                      <<Written(docs, request.actor)>>)
  /\ NextStep
  /\ UNCHANGED <<docs, clock, checkpoints, open, nextContext, timer, snapshotMark>>

\* maybeCheckpoint: createCheckpoint flushes before it inserts.
MaybeStep ==
  /\ At("maybe")
  /\ \E due \in BOOLEAN :
       /\ IF CheckpointDue(Len(events), due)
            THEN \E starts \in Groupings : FlushFragments(starts, <<>>, <<>>)
            ELSE UNCHANGED <<events, version, fragments, staged>>
       /\ checkpoints' = checkpoints \o PeriodicCheckpoints(Len(events), docs, due)
       /\ snapshotMark' = MarkAfter(Len(events), due)
  /\ NextStep
  /\ UNCHANGED <<docs, clock, open, nextContext, timer>>

\* The checkpoint of createRoomCheckpoint, based on the event just appended.
ExplicitStep ==
  /\ At("explicit")
  /\ \E starts \in Groupings : FlushFragments(starts, <<>>, <<>>)
  /\ checkpoints' = Append(checkpoints, Checkpoint(Len(events), "explicit", docs))
  /\ NextStep
  /\ UNCHANGED <<docs, clock, open, nextContext, timer, snapshotMark>>

\* The restore transaction when the clock moved on (409) or the target cannot
\* be replayed: nothing is written.
RestoreRefused ==
  /\ At("restore")
  /\ clock # request.expected \/ ~Reconstructable(request.target)
  /\ NextStep
  /\ UNCHANGED <<durable, open, nextContext, timer, snapshotMark>>

\* Both checkpoints of a restore taken after the old version is loaded.
CheckpointsAfterLoad(startedId, replaced, restored) ==
  <<Checkpoint(startedId, "pre_restore", restored),
    Checkpoint(startedId + 1, "restore_completed", restored)>>

RestoreCheckpoints(startedId, replaced, restored) ==
  <<Checkpoint(startedId, "pre_restore", replaced),
    Checkpoint(startedId + 1, "restore_completed", restored)>>

\* prepareRestore, loadSnapshotIntoStorage and completeRestore, one commit.
RestoreApplied ==
  /\ At("restore")
  /\ clock = request.expected
  /\ Reconstructable(request.target)
  /\ LET restored == Reconstruct(request.target)
         after == IF restored = docs THEN clock ELSE clock + 1
         startedEvent == Event(request.actor, "restore.started", NoChanges,
                               clock, request.target)
         completedEvent == Event(request.actor, "restore.completed",
                                 Diff(docs, restored), after, request.target)
     IN  \E starts \in Groupings :
           LET startedId == Len(events) + Len(starts) + 1
           IN  /\ FlushFragments(starts, <<startedEvent, completedEvent>>,
                                 <<Written(docs, request.actor),
                                   Written(restored, request.actor)>>)
               /\ checkpoints' = checkpoints \o RestoreCheckpoints(startedId, docs, restored)
               /\ docs' = restored
               /\ clock' = after
  /\ NextStep
  /\ UNCHANGED <<open, nextContext, timer, snapshotMark>>

\* The end of closeHandle: the database is closed.
CloseStep ==
  /\ At("close")
  /\ open' = FALSE
  /\ nextContext' = Nobody
  /\ timer' = "off"
  /\ snapshotMark' = 0
  /\ NextStep
  /\ UNCHANGED durable

\* A transaction fails and the exception ends the request's handler.
StepFails ==
  /\ WriteFailures
  /\ todo # <<>>
  /\ Head(todo) \in {"append", "maybe", "explicit", "restore"}
  /\ todo' = <<>>
  /\ request' = NoRequest
  /\ UNCHANGED <<durable, open, nextContext, timer, snapshotMark>>

Handler ==
  \/ LegacyImport
  \/ AppendStep
  \/ MaybeStep
  \/ ExplicitStep
  \/ RestoreRefused
  \/ RestoreApplied
  \/ CloseStep

Next ==
  \/ Open
  \/ Crash
  \/ \E s \in Sessions : Push(s) \/ DroppedPush(s)
  \/ QuietTransaction
  \/ \E a \in Agents : ImmediateWrite(a)
  \/ ImmediateWriteFails
  \/ TimerExpires
  \/ TimerFires
  \/ \E a \in Actors : RecordActivity(a) \/ CreateCheckpoint(a)
  \/ \E a \in Actors, target \in DOMAIN events, expected \in 0 .. clock :
       RestoreVersion(a, target, expected)
  \/ CloseHandle
  \/ Handler
  \/ StepFails

\* A live process runs a handler to its end and its timers fire; nothing makes
\* a person edit, a handle open or a process survive.
Fairness ==
  /\ WF_vars(TimerExpires)
  /\ WF_vars(TimerFires)
  /\ WF_vars(Handler)

Spec == Init /\ [][Next]_vars

LiveSpec == Spec /\ Fairness
-----------------------------------------------------------------------------
(* Properties.                                                             *)

ChangeSets ==
  UNION {[D -> [before : Contents \cup {Absent}, after : Contents \cup {Absent}]] :
           D \in SUBSET Records}

\* Of events and, the last two, of requests that make other events.
Kinds ==
  {"created", "deleted", "moved", "edited", "board.imported", "activity",
   "checkpoint.created", "restore.started", "restore.completed", "none", "restore"}

EventRecords ==
  [actor : Actors \cup {Nobody}, kind : Kinds, changes : ChangeSets,
   clock : Nat, target : Nat]

CheckpointRecords ==
  [base : Nat,
   reason : {"legacy_import", "periodic", "explicit", "pre_restore", "restore_completed"},
   board : Board]

Writings == [board : Board, by : Actors \cup {Nobody}]

Steps == {"legacy", "append", "maybe", "explicit", "restore", "close"}

Requests ==
  [actor : Actors \cup {Nobody}, kind : Kinds,
   target : Nat, expected : Nat]

\* Every variable has its type; the ghosts run beside what they explain.
TypeOK ==
  /\ docs \in Board
  /\ clock \in Nat
  /\ events \in Seq(EventRecords)
  /\ checkpoints \in Seq(CheckpointRecords)
  /\ fragments \in Seq(EventRecords)
  /\ open \in BOOLEAN
  /\ nextContext \in Actors \cup {Nobody}
  /\ timer \in {"off", "armed", "due"}
  /\ snapshotMark \in Nat
  /\ todo \in Seq(Steps)
  /\ request \in Requests
  /\ version \in Seq(Writings) /\ Len(version) = Len(events)
  /\ staged \in Seq(Writings) /\ Len(staged) = Len(fragments)

\* Every event of the timeline can be opened, and shows the board exactly as it
\* was at that event: replaying from the checkpoint the query picks never meets
\* a record that is not what the event replaced (the "History divergence" error).
ReplayExact ==
  \A target \in DOMAIN events :
    Reconstructable(target) /\ Reconstruct(target) = version[target].board

\* What the durable history alone says the canvas is: the newest event's board
\* with the pending fragments on top.
CanvasOfHistory ==
  LET last(r) == {i \in DOMAIN fragments : r \in DOMAIN fragments[i].changes}
  IN  [r \in Records |->
         IF last(r) = {}
           THEN Reconstruct(Len(events))[r]
           ELSE LET i == CHOOSE x \in last(r) : \A y \in last(r) : x >= y
                IN  fragments[i].changes[r].after]

\* At every commit, also between the transactions of a handler and after a
\* crash, no edit of the canvas is missing from the history.
CanvasAccounted == checkpoints # <<>> => CanvasOfHistory = docs

\* A checkpoint is the board as of the event it is based on, although the
\* periodic one is taken from the live canvas inside somebody's transaction.
CheckpointsFaithful ==
  \A c \in DOMAIN checkpoints :
    /\ checkpoints[c].base \in DOMAIN events
    /\ checkpoints[c].board = version[checkpoints[c].base].board

\* A restore brings back exactly the board of its target, and the event before
\* it, which can be restored in turn, still holds the board it replaced.
RestoreUndoable ==
  \A i \in DOMAIN events :
    /\ events[i].kind = "restore.completed" =>
         /\ version[i].board = version[events[i].target].board
         /\ i > 2 /\ events[i - 1].kind = "restore.started"
         /\ version[i - 1].board = version[i - 2].board
         /\ \E c \in DOMAIN checkpoints :
              checkpoints[c] = Checkpoint(i - 1, "pre_restore", version[i - 2].board)
    /\ events[i].kind = "restore.started" =>
         i < Len(events) /\ events[i + 1].kind = "restore.completed"

\* An event names the actor who left the board that way, whatever context an
\* earlier message left behind and however the fragments were merged.
Attribution ==
  /\ \A i \in DOMAIN events : events[i].actor = version[i].by
  /\ \A i \in DOMAIN fragments : fragments[i].actor = staged[i].by

\* Events come in the order of the document clock, and none is ahead of the canvas.
TimelineOrdered ==
  /\ \A i, j \in DOMAIN events : i < j => events[i].clock <= events[j].clock
  /\ \A i \in DOMAIN events : events[i].clock <= clock

\* What the timeline shows for an event never changes, although later
\* checkpoints change the way it is computed.
PastIsFixed ==
  [][\A target \in DOMAIN events :
       Reconstructable(target)' /\ Reconstruct(target)' = Reconstruct(target)]_vars

\* While a process holds the board, pending edits are published.  The debounce
\* needs a pause in the editing; MaxClock gives one.
PendingPublished == fragments # <<>> /\ open ~> fragments = <<>> \/ ~open

\* A reader of the README: a checkpoint every SnapshotEvery events bounds the
\* replay.
ReplayBounded ==
  Idle /\ checkpoints # <<>> =>
    \E c \in DOMAIN checkpoints : Len(events) - checkpoints[c].base < SnapshotEvery
=============================================================================
