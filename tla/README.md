# A verification of the collaborative whiteboard

TLA+ models of the parts of this repository whose correctness depends on
interleavings, crashes, the order of events and the composition of many legal
steps, model-checked with TLC, with the main results proved by TLAPS.

Run from this directory: `tlc -config MCBoardHistory_records.cfg MCBoardHistory.tla`
(and so on, see *Runs*), and `tlapm <module>` for the modules whose name ends in
`Proofs`.

## The system

A Node server (`server/`) serves whiteboards to browsers over websockets
(tldraw's sync protocol) and to machine agents over HTTP. State lives in four
places that share no transaction: one SQLite file per board, one SQLite
database of accounts, a directory of uploaded files, and one JSON file of machine
tokens. Two scripts work on the same files while the server runs: one deletes old
history, one makes backups.

| Component | State | Operations | What makes it correct |
| --- | --- | --- | --- |
| Board history (`history.ts`, `history-storage.ts`) | events, checkpoints, fragments (durable); debounce timer, checkpoint counter, write context (memory) | record an edit, flush, checkpoint, replay, restore | replay of any event is the board as it was; the history explains the canvas at every commit; the past never changes; a restore can be undone; every edit keeps its author |
| Rooms (`rooms.ts`) | open handles, sessions, expiry and idle timers | open, connect, leave, checkpoint, restore, close | one handle per board; nothing pending is lost by closing; removed people lose their sessions; audit rows projected once |
| Token store (`token-store.mjs`), reader (`tokens.ts`) | the token file, the lock file, backups | create, rotate, revoke, grant a new board, authenticate | one writer at a time across processes; no acknowledged change lost; a retired secret never works again; a reference never reaches a successor of the same name; caps hold under races |
| Agent access and agent boards (`agent-access.ts`, `agent-boards.ts`) | none of their own: token file and account database | owner-only management; an agent creates a board | ownership decided on the record that changes; a grant and its board exist together |
| Accounts (`auth.ts`, `auth-db.ts`) | users, sessions, boards, members, invitations, audit events | register, sign in, invite, share, disable, delete, restore | an invitation is used once; a disabled person has no session; a board has its owner |
| Canvas API (`canvas-api.ts`) | the records of a room, during one transaction | visual, layout and semantic actions; redrawing arrows; the report | all or nothing; no binding dangles; arrows stay on their boxes; "verified" is true of the board that is left |
| Layout (`shared/layout*.ts`, `layout-service.ts`) | none: computes | bounds, placement, alignment, verification | what is placed is clear of everything else |
| Measurements (`layout-measurements.ts`, `client/layout/`) | a row per text or note (durable); a reporter in every browser | report, store, forget | no size is used for a content it was not taken of; every size arrives in the end |
| Entities, evidence, uploads (`shared/entities.ts`, routes in `app.ts`, `board_assets`) | entities in a room; files; which board registered which file | create, update, relate; upload, register, read | relations resolve; a table belongs to its board; a file is served to its board alone |
| Retention (`scripts/compact-history.ts`) | what a pass has read; the board's file | plan, verify, delete, beside the server | what is kept replays as before; every week stays shown |
| Backup (`scripts/backup-canvas-data.py`) | archives in two directories; a copy in progress | run, mirror, prune, verify, restore, beside the server | an archive has the uploads its databases refer to; retention keeps what it promises; a finished restore is sound |
| Limits and policies (`security.ts`, `host-policy.ts`, `access-jwt.ts`) | sliding windows, key cache | allow, verify | a window never admits more than its limit |
| Client, harness scripts, worker | views, harnesses, legacy | | not modelled, see below |

How they meet: a browser's push becomes one transaction of the room's storage,
in which the wrapper diffs the canvas and hands the change to the recorder. The
HTTP API writes through the same wrapper with a context of its own. Restores and
checkpoints call the history between two flushes. The token store calls the
account database (synchronously, under its file lock) to create and to take back
boards. Account events are copied into board histories when a room is opened.
The canvas API reads measurements to know how large texts are, and `board_assets`
to know whether a table is of its board. Compaction takes events and checkpoints
from the tables the recorder writes; backups copy all four places one after the
other.

The behaviours that are hard: a crash between any two transactions of a handler;
several transactions in one handler; memory that survives a rolled-back
transaction; the write context handed over through a field; a debounce that
several paths cancel; file operations that interleave at every `await` and with
another process; stores without a common transaction; documents that browsers and
the server see at different times; plans that are carried out on a board that has
moved on; and requests of many actions whose later ones undo what earlier ones
established. `PROJECT.json` lists the hazards line by line.

## Modules

| Module | What it is |
| --- | --- |
| `BoardHistory` | the history of one board: `history.ts`, `history-storage.ts`, and the operations of `rooms.ts` that touch it |
| `VersionedBoard` | what the history promises: an append-only log of true versions of one board |
| `BoardHistoryRefinement` | the mapping from the former to the latter |
| `TokenStore` | the token file and everything that changes it, with the account database as far as it is involved |
| `TokenRegistry` | what the token file promises: credentials changed atomically, secrets that never come back |
| `Accounts` | `auth.ts` over `auth-db.ts`, with the rooms its routes in `app.ts` open and close |
| `Rooms` | `rooms.ts`: one board's handle, its sessions and timers, and the projection of account events |
| `Retention` | passes of `compact-history.ts` beside a server that writes |
| `Measurements` | the reporters of several browsers and the server's table of sizes |
| `Layout` | the layout core as operators: bounds, placement, verification |
| `Entities` | entities and the candidates that semantic actions write, as operators |
| `Assets` | the routes that write and register files |
| `Canvas` | `applyRoomActions`: composes `Layout`, `Entities` and `Assets`, with people who edit between requests |
| `Backup` | `backup-canvas-data.py` beside a running service |
| `BoardHistoryProofs`, `TokenStoreProofs`, `AccountsProofs`, `RoomsProofs`, `RetentionProofs`, `MeasurementsProofs`, `CanvasProofs`, `BackupProofs` | the proofs |
| `MC*` | definitions for TLC |

Operators that a comment calls a different behaviour and that no action uses
(`LooseFrom`, `UploadsFirst` and their like) are the changed versions of their
neighbours: with one of them in place of the neighbour a property fails, which is
how each property was shown to say something about the code.

### BoardHistory

*State.* `docs`, `clock`, `events`, `checkpoints` and `fragments` are the durable
rows. An event's id is its index. `open`, `nextContext`, `timer` and
`snapshotMark` are the handle, `HistorySyncStorage.nextContext`, the recorder's
`timer` and `eventsAtLastSnapshot`. JavaScript handlers are not interrupted, but a
handler makes several transactions and a crash or an exception can separate them:
`todo` holds those still to come and `request` their arguments. `version` and
`staged` are ghosts: what the board was, and who made it so, when each event and
fragment was recorded.

*Actions.* `Open` and `LegacyImport` are `getRoomHandle`. `Push`, `DroppedPush` and
`QuietTransaction` are a websocket message that reaches the storage, one that does
not, and a transaction without changes. `ImmediateWrite` is the branch of
`HistorySyncStorage.transaction` that records synchronously; it flushes, appends
and checkpoints inside the caller's transaction, and `ImmediateWriteFails` rolls
back the rows but not the recorder's memory. `RecorderFlush` begins every other
handler (`TimerFires`, `CreateCheckpoint`, `RestoreVersion`, `CloseHandle`), and
`MaybeStep`, `AppendStep`, `ExplicitStep`, `RestoreApplied`, `RestoreRefused` and
`CloseStep` are the transactions that follow. `Crash` may come anywhere.

*Abstractions.* A record has a content from a small set or is absent; contents
related by `Moves` differ in position only, which is what `eventTypeForChanges`
looks at. A fifteen-minute interval is a choice (`due`). A coalescing group names
the records it touches, so merging a group needs only its first and last fragment.
Restores are by event id, the only target the routes accept. The schema migration
that tldraw may make while loading a snapshot is the identity here.

### TokenStore

*State.* `file` is the set of records of both collections; a token stands for its
hash and for the fingerprint derived from it. `lock` says whose lock file exists. A
call goes through `pc`: lock, read, decide (the synchronous mutator, with
`prepare` for a grant), backup, replace (temporary file and rename), chmod,
confirm (a failed grant), release. `Start*` are the callers with what they check
before the lock: the routes of a board ask for its owner (`RequireBoardOwner`), the
command line for none, an agent's request authenticates with the
reader; the command line takes any list of well-formed ids, of boards that exist or
not. `Accepts*` are the checks inside the lock, one operator per operation.
`Faults` says what may go wrong: a crash of a process (all calls of the server, or
one command line), a lock file that cannot be written or removed, a read, a write,
the chmod after the rename, reading the store back after that. `RemoveStaleLock` is
the operator, who makes sure that the creator of a stale lock is gone; that is the
one assumption on people.

*Abstractions.* The temporary file is not modelled: it has a unique name and
nothing reads it. Both collections are one set with a `kind`; a record that a
person duplicated by hand does not occur. Permissions other than `board:create`
do not influence the store. Name generation and its single retry on a duplicate
is a new call. A board id is fresh (a UUID), which `Boards` bounds.

### Accounts

*State.* `account` and `admin` are the users table, `session` and `invitation` the
rows of theirs, `owner`, `deleted` and `member` the boards and `board_members` (role
`"none"` is not a member). `connection` is what `connectRoomSocket` fixed when a
socket was admitted: its board, its session, its role. `call` holds what is awaiting:
a registration hashing its password, a login verifying one with the user row it has
read (`seen`), an administrator's adoption of legacy boards listing the room files.
`unconfirmed` are boards that an agent's request has made and whose grant is not yet
in the token file.

*Actions.* An operation of `AuthService` is one synchronous transaction, and its route
closes rooms in the same turn of the event loop: one action. `InsertUser`,
`RevokeSession`, `InsertBoard`, `UpsertBoardMember` and the like are the statements of
`auth-db.ts` that these transactions are made of. `StartRegister`,
`FinishRegister` and so on are the two sides of an `await`. `Close` is what
`closeUserRoomSessions`, `closeUserSessions` and `closeBoardSessions` do to the sockets.
`SetUserDisabled` closes none, as in the code: no route calls it yet, so `Disabling`
says whether anyone does. `AgentCreateBoard`, `AgentBoardGranted` and `AgentRollBack`
are the ends of a request that `TokenStore` models in full.

*Abstractions.* A cookie is the session row it hashes to. Passwords, names and
audit rows are left out: a wrong password is one of the reasons of `RefuseLogin`.
Rows and sockets come from bounded pools. An expired session closes its sockets by a
timer, which is `Disconnect` here and is modelled in `Rooms`.

### Rooms

*State.* `open` says whether the map `rooms` has a handle of the board. `sessions` is
`handle.sessions`, by which the routes find whom to close, and `live` is the table
that `TLSocketRoom` keeps of the connections themselves. `expiry` and `idle` are the
timers, as the time they still have to wait; a meta has the time its sign-in has left.
`busy` is the request that has asked for the handle: its phase is `"project"` while
account events are copied and `"serve"` after that. `rows` counts the account events of
the board, `cursor` the ones the projection is past, and `shown` how often each is in
the timeline. `failed` is a ghost: a write has failed in a way that leaves the open
handle wrong. Closing the handle clears it, because nothing of a handle survives that.

*Actions.* `GetRoomHandle` begins a request, `ProjectAccountAudit` is one batch with its
cursor (one transaction), and `Connect`, `ConnectTooLate` and `ServeRead` are what comes
after the last. `ChangeMember`, `DeleteBoard` and `Logout` are the routes that close
sessions; `Depart` is `onSessionRemoved`, which closes the handle with the last session.
`ProjectionFails`, `ConnectFails` and `DepartFails` are the same with a failing write of
the board's file. `ExpiryFires` is `checkExpiry` and `IdleFires` the idle timer; `Tick`
is the time. `Crash` loses everything that is only in memory.

*Abstractions.* What `TLSocketRoom` does when an id connects that is connected (it
replaces the session) is taken from how `connectRoomSocket` relies on it. What a
request does with its room is `BoardHistory`; who may do what is `Accounts`, from which
`member` takes only who has a role. Account events of other boards are not seen by the
query and left out.

### Retention

*State.* The rows of `history_events` and `history_checkpoints` with their ids, bases,
reasons and days; `appendedAt`; and `plan`, what the script has in memory: the retained
checkpoints, the gaps, what it will delete, and from `HashBefore` on the versions it
rebuilt. A version of the board is the set of events whose changes it has, so the
version at event `e` is `1..e`; how changes apply is the subject of `BoardHistory`.

*Actions.* The server appends, takes periodic and explicit checkpoints and restores
while the script plans (`PlanCompaction`), rebuilds what it promises to keep
(`HashBefore`), and in one transaction checks that the board has not moved, deletes,
rebuilds again and compares (`Apply`, or `RollBack`). `Crash` ends the server between
the event and the checkpoint of a handler.

*Abstractions.* Events have no types, as a gap is deleted whole whatever it holds. One
pass at a time. The freshness of the backup, the
vacuum and the report are left out.

### Measurements

*State.* `doc` is the server's document and `local` each browser's, of which the server
has not seen `unsent`; a content stands for everything the fingerprint of a shape covers.
`timer`, `stage`, `asked`, `batch`, `left`, `again` and `reported` are the variables of
one reporter, `loaded` the fonts its browser has, `shown` the page of the board it shows,
`viewed` (history) the one it showed when its latest run began, `rows` the table
`layout_measurements`. A size is right, or it was taken with a font that had not been
loaded. A reporter measures the shapes of every page (`attach-measurement-reporter.ts:11`)
and waits for the fonts of the page that is shown (line 22, `FontsShown`).

*Actions.* `Fire` is the timer, `FontsReady`, `Answered` and `Failed` what follows each
`await` of `run`, `SaveMeasurements` the route. `Edit`, `ApiEdit`, `Upload` and `Download`
change the documents meanwhile, `RequestFails` loses a report or its answer, `Stop`
unmounts the editor. `SwitchPage` shows another page: the store's listener takes changes of
the document only (line 27), so nothing of the reporter changes.

*Abstractions.* A font that cannot be loaded at all is not modelled: the browser's
`document.fonts` settles and says nothing of it. Fonts that the editor itself loads while
drawing make sizes right sooner and are left out.

### Canvas, Layout, Entities and Assets

*State.* `page`, `bindings`, `entities` and `rows` are the board; `txn` is the copy a
request works on, with what `ActionRun` collects (`affected`, `touched`, `statuses`,
`guessed`); `reply` is its layout report, until the board changes again. `files`,
`assets` and `route` are the upload directory, `board_assets` and the requests that write
to them. `aim` of an arrow is the pair of rectangles it was last drawn between.

*Actions.* `Begin`, an action per action type of the API, and `Commit` (redrawing
arrows, the report) or `Refuse`. Between requests people move, nest, write, lock and
delete shapes (`Person*`), browsers report sizes (`Measure`), and the routes of `Assets`
run, with an `await` between writing and registering a file.

*Abstractions.* Rotated shapes, the bounds of arrows, ellipses, z-order, spacing and
alignment reports, byte limits and reads are left out; coordinates are whole numbers; a
text stands for whatever decides its size, which constants give, drawn and estimated,
either of which may be the larger. The gaps of a request and the corner a row, a stack or a
grid may start from are inputs (`Gaps`, `BlockOptions`).
Three of the eight types of entities carry every rule there is about statuses, required
fields and relations. A behaviour is about shapes or about entities (`focus`): the
two halves of the API share the transaction and no record.

### Backup

*State.* A database is what it refers to: `auth.sqlite` the uploads it registers, the
database of a room the uploads its board shows. `files` are the uploads (absent, in
part, whole), `tokens` counts the versions of the token file, `broken` are databases
that would fail a check. `run` and `restore` are the processes, `archives` what lies in
the two directories, `target` the data directory of restores.

*Actions.* The copies in the order of `command_run`, each at one moment; the archive and
its mirror, opened, closed and sealed; retention and its removals one by one; `restore`
database by database. The service goes on between any two steps, any step may be the last
(`StopRun`, `StopRestore`), and archives and databases are damaged (`Damage`, `Break`).

*Abstractions.* What a database holds beside references, compression and permissions are
left out. Two runs at once are not modelled, nor a run during a restore into the live
directory, which the documentation tells operators not to do.

## Runs

| Run | Bounds | What it shows |
| --- | --- | --- |
| `board_records` | 2 records, 1 content, a person and an agent, 3 clock steps, 4 events, checkpoint every 2, failing writes | `CanvasAccounted`, `RestoreUndoable`, `TimelineOrdered`, `PastIsFixed`, `ImplementsVersionedBoard` through crashes and failed transactions |
| `board_edits` | 1 record, 3 places, 2 people and an agent, 3 events, fair handlers | coalescing of drags: `ReplayExact`, `Attribution`; `PendingPublished` |
| `board_replay_bound` | 1 record, 5 events | violated: `ReplayBounded` (finding) |
| `tokens` | two requests and a command line, two calls at once, 1 name, 2 secrets, 2 boards that agents make and the command line may name before, caps of 1, 2 steps of time, every fault but a failed reading back | `OneWriter`, `AnswersHold`, `RetiredStayDead`, `GrantAnswered`, `PinnedOnly`, `ImplementsTokenRegistry` |
| `accounts` | 3 people, 1 board that may be a legacy one, an invitation, 2 sign-ins, a socket, 2 calls at once, closed registration, accounts disabled and enabled | `ConnectionsMatchRoles`, `ConnectionsAreSignedIn`, `OwnersStay`, `OneAdmin`, `InvitedOnly` |
| `accounts_disabled_login` | 2 people, 1 call | violated: `DisabledLoginsFail` (finding) |
| `rooms` | 2 people, 2 tabs, 2 account events in batches of 1, sign-ins of 2 steps with timers of 1, failing writes | `OnlyMembersConnected`, `AuditTrail`, `AuditShown`, `ExpiredAreClosed`, `UnusedRoomsClose` |
| `compaction` | 6 events, 4 days in weeks of 2, full resolution for 1 day, any number of passes | `KeptVersions`, `PlansAreSound`, `WeeklySeries` |
| `measurements` | 2 browsers, 1 text, 2 pages, a content that is slow to draw with one other content, one failure or two page turns (`Spent`), fair timers and network | `WrongSizesAreTemporary`, `TrustedStays`, `EventuallyMeasured` |
| `canvas` | 3 start boards of 4 shapes, 5 ids, 2 steps of requests and people, a gap of 2 beside the default, blocks with one gap or with two and a corner of their own; 2 entities, 3 names of files, 2 routes at once | `BindingsResolve`, `PlacedClear`, `VerifiedIsClear`, `RelationsResolve`, `TablesAreOfThisBoard`, `AssetsAreTheirBoards`, `ArrowsFollow` |
| `backup` | a board, an upload, 8 times at two a day and two days a week, four budgets of changes, runs, restores and faults | `ArchivesResolve`, `GenerationsKept`, `RestoredIsSound` |
| `backup_verify` | the same | violated: `GoodRunsVerify` (finding) |

*Why the bounds are enough.* Four events admit every shape the history has: an
import, a merged group and a single one, an event with a checkpoint due on it, and
a restore (two events) with something before it to restore. Two records are needed
for groups that differ in what they touch, three places for a merge that is not a
round trip, two people for groups that differ in the actor, and a checkpoint
interval of two for checkpoints on and between events. For the token
store, one name and two secrets give a credential and its successor under the same
name or a rotation; two calls at once suffice because a third is refused by the lock
in every state in which a second is; two free boards and a cap of one give the
race for the last place, and ids that the command line grants before there are such
boards. Backups of the store are left out of its view: no step and no
checked property reads them. For accounts, a third person is needed so that one can
come after the administrator and the first invited; one invitation is what two
registrations race for; one step
of time lets an invitation and a session expire while something awaits. For a room, two
people under the same tab id and two tabs of one person are both among the sessions;
a sign-in twice as long as a timer needs a second one; two events in batches of one
take three queries. For compaction, six events give three retained checkpoints with
unretained ones between them and a restore, four days two weeks, of which the older is
out of full resolution, and a second pass over what a first has left. For measurements,
two browsers report each other's contents late; the second content is what a report
that was on its way is stale for; two page turns leave the page of the text and come back
to it during a run. The three are not combined, which is what `Spent` says. For the canvas, one action verifies or
marks and a second undoes it, by the same request or by a person; the start boards hold
an arrow of before there were bindings, a frame with a child beside a text whose label is
larger than its box, and a group; gaps that are not `LAYOUT_GAP` show which of the two each rule uses, one of 0 makes touching
edges clear, and a block with two of them tells the gap within it from the one around it.
One document is enough to begin with, as a request has an action to make what it is linked to. For backups, the budgets separate the questions: six
changes during one run, a restore of a damaged archive over an earlier one, and four
runs over two weeks.

*Fairness.* `BoardHistory!Fairness`: a live process finishes its handlers and fires
its timers (the event loop). Nobody has to edit, open or survive. `PendingPublished`
says pending edits are published or the process ends; as every edit restarts the
debounce, it needs a pause, which the bounded clock gives. It is checked without
failing transactions: a failed immediate write clears the timer and its rolled-back
fragments wait for the next edit or the closing of the room.
`Rooms!Fairness`: time
passes, a handler that has begun finishes, and a timer that is due fires: strongly fair,
because a handler in progress disables it, as one does in the event loop, and the loop
runs due timers between handlers. `Measurements!Fairness`: timers fire, fonts load,
requests are answered or fail, and sync messages arrive; failures are finitely many, and
nobody has to open a board. `EventuallyMeasured` has premises, `ReportsFollowEdits` and, for
the right size, that the page of a text is the one that open browsers last began a run on:
see *Remarks*. `TokenStore`, `Accounts`, `Retention`, `Canvas` and `Backup` need none: all
their properties are safety.

*Deadlock* is checked where the system cannot stop: the runs of `BoardHistory`,
`TokenStore`, `Accounts`, `Rooms` and `Retention`. The others spend a bounded number of
edits or runs and then rest.

## Findings

- `board_replay_bound`: README.md:171 promises that periodic checkpoints every 50
  events bound the cost of reconstruction. The recorder starts counting anew each
  time the room is opened (`history.ts:883`), so a board edited in short sittings
  never gets one. (The fifteen-minute rule helps only a sitting that long.)
- `accounts_disabled_login`: `tests/auth.test.ts:134` expects that a disabled account
  is not let in, and README.md:87 that disabling revokes sessions. `login` looks at
  `disabledAt` on the row it read before it verified the password (`auth.ts:479-483`):
  an account disabled in between gets a session that nothing revokes. It is refused
  while the account is disabled and works again when the account is enabled.
- `backup_verify`: docs/operations/backup-and-restore.md:42 says that every generation
  can be rechecked at any time. A run copies the token file (`backup-canvas-data.py:325`)
  and then takes the digest for its manifest from the live file (line 329). If the
  service replaces the file in between, the run reports success and `verify` refuses the
  archive ever after.

### Remarks

What was met on the way and no run is about:

- *Token store.* The comment on `writeStoreAtomically` (`token-store.mjs:293`) says that
  every failure path leaves the live store alone; the `chmod` after the rename is in the
  same `try`, so a call can fail and have changed the store. `GrantAnswered` holds
  because a failed grant reads the store back; if that fails too, the board is deleted
  and the grant remains, which the comment on `grantNewBoard` (line 603) excludes.
  `GrantAnswered` is therefore checked and proved without the fault `"readback"`. And a
  lock file that cannot be removed makes a call throw whatever it has done
  (`token-store.mjs:277`, `663-664`): a grant that is on disk is then answered as a failure,
  and `agent-boards.ts:114-126` writes the audit event `agent.board_creation_rolled_back`
  although nothing was rolled back and both board and grant stand. `GrantAnswered` names
  the case: the fate of such a board is `"disowned"`, and it is granted.
- *Measurements.* A reporter waits for the fonts of the page that is shown and then measures
  the shapes of all pages (`attach-measurement-reporter.ts:11`, `22`). A text of another page
  is measured without its font, stored as measured, and not measured again until the
  document changes (line 27), even if its page is shown meanwhile; if the font is there by
  then, the right size follows. The comments say otherwise: "Resolves once the fonts the
  measurements depend on have loaded" (`measurement-reporter.ts:23`), "a wrong measurement
  is worse than an estimate" (`attach-measurement-reporter.ts:19`).
  `WrongSizesAreTemporary` and the second half of `EventuallyMeasured` are therefore about
  texts of the page that was shown when the run began; that every text gets *a* size holds
  of all pages.
- A report that overtakes the edit it describes is answered as stale, and
  `measurement-reporter.ts:79-80` marks it as reported, so that browser never sends it
  again: the size stays an estimate although a browser has measured it
  (docs/user-guide/agent-api.md:150). The sync connection is much faster than the
  debounce of a report, and `EventuallyMeasured` assumes that it is
  (`ReportsFollowEdits`).
- *Retention.* docs/decisions/005-history-retention.md:157-158 promises that restoring to
  a checkpoint boundary is not lost. A gap includes the event its last checkpoint is
  based on, and the routes restore by event id alone (`app.ts:160`, `525-531`), so the
  checkpoint that is left cannot be asked for. The comment at `compact-history.ts:171-173`
  says that a gap with anything but object events is skipped; the code, and the comment
  at lines 38-52, delete it whole. `requireFreshBackup` compares the modification times
  of main database files, which do not move while commits are in the WAL.
- *Canvas.* README.md:376 says that `connect_shapes` creates "a native unbound arrow" and that
  "moving a connected shape later does not automatically reattach that arrow". The code does
  the opposite, and says so: it binds both ends (`canvas-api.ts:337-344`) and redraws the
  arrows of what a request moved (`538-543`). `ArrowsFollow` holds of the code and is false
  of that sentence, which is out of date. Estimates of texts and labels rest on average
  glyph widths (`shared/layout.ts:126-130`, `181`), so a label of wide glyphs may need more
  room than its estimate, in a box that counts as verified
  (docs/user-guide/agent-api.md:148 says of estimates that they can be wrong):
  `VerifiedIsClear` leaves that box out (`LabelAsEstimated`). `delete_shape` of a frame or a
  group leaves its children without a parent. Arrows to children of a container that moved are not redrawn. The box of a note nobody
  has measured counts as verified (`layout-geometry.ts:203-207`, but agent-api.md:150).
  Groups that a request touched are skipped by `verifyLayout`. The `fields` of
  `create_entity` may name `id` and the cap is on new ids, so an action can overwrite an
  entity where it says it creates one (`entities.ts`, agent-api.md). `slideClear` gives
  up after 500 blockers. `verifyLayout` looks at the measurements of neighbours within
  `2 * LAYOUT_GAP` of a box (`layout-engine.ts:312`), so the label of a box further
  away, or an estimated text drawn wider or taller, if it exceeds its bounds by more than
  that, can cover a shape that counts as verified: this is the hypothesis `StaysNear` of
  `VerifiedIsClear`. An upload that a person gives
  a name of the form of an evidence table counts as one and passes by the cap (left out
  by `UploadNames \cap TableNames = {}`).
- *Backup.* Archives of failed and killed runs count as generations. `restore --force`
  stops at the first unsound database, after it has replaced others, and rooms that the
  archive does not have stay. A room is copied after `auth.sqlite`, so it may show an
  upload that the archived `auth.sqlite` does not register yet. Digests of uploads are
  not compared.

## Proofs

Fifty-nine theorems in eight modules, checked from nothing by TLAPS. Every safety
property that a run checks is a theorem, for every value of the constants and without
any fairness; `PlacedClear` for pages of no more shapes than `slideClear` has iterations.
Only liveness, named at the end of this section, is left to the runs.

`BoardHistoryProofs` proves, for any number of records, contents, people, agents and
events, `TypeOK`, `CheckpointsFaithful`, `Attribution`, `ReplayExact`, `CanvasAccounted`,
`TimelineOrdered`, `RestoreUndoable`, the action property `PastIsFixed`, and that the
history implements `VersionedBoard` (`ImplementsVersionedBoard`).

None of these is inductive by itself. The inductive invariant `IInv` says that events
followed by fragments form one chain: each change of each record starts where the
version before it left the record and ends where its own version has it, the
records it does not mention being equal; that the last version is the canvas; that
every checkpoint is the version of its base; that there is a checkpoint on the first
event, which has no changes; and that the fragments of the ghosts run beside the
real ones. `MergedLink` shows that merging a group keeps the chain, `Replay` that
applying a stretch of a chain to the version it starts from gives the version it
ends in, and `NoDivergence` that it never meets a wrong `before`. All inductions are
by a least counterexample, as replay is defined by the last event that touches a record.

`TimelineOrdered`, `RestoreUndoable` and the refinement ask what a step *adds*.
`StepShape` says it once for all actions (`Shaped`): a step leaves history and canvas alone, stages one edit, imports the
board, or publishes what is pending and after it no event, one, or the two of a restore
with its checkpoint; and checkpoints stay. `FlushedElements` says what is stored where
after it. Order is then inductive together with the order of the fragments and the fact
that they come after the events (`Ordered`); that a restore can be undone, with the
facts that no pending fragment and no request bears the name of a restore's events
(`Undoable`, `PlainRequests`). For the refinement, `ReplayIsExact` makes what a reader
rebuilds at each event the board as it was, so the abstract log is the ghost's, and
`PublishingExtends` gives what is appended as boards that were waiting, with the last of
them at the end, followed by the boards of the events after them. The only assumptions
are `ConstantsAssumption` (`Absent` is not a content, `Nobody` is not an actor, and the
types of the parameters).

`TokenStoreProofs` proves, for any number of calls, processes, names, secrets, users
and boards, for every cap and whatever fails, all the safety properties of the token
store: `TypeOK`, `OneWriter`, `AnswersHold`, `RetiredStayDead`, `OneClientPerName`,
`CapsHold`, `PinnedOnly`, `BackedUpFirst`, and that the calls implement
`TokenRegistry` (`ImplementsTokenRegistry`). `GrantAnswered` is proved on the
assumption that `"readback"` is not in `Faults`; with it the property is false (see
*Remarks*). Two ghosts say what the file is compared with. `retired` has the secrets of
what a call's *operation* is to revoke or rotate away, computed from the copy it read, and
not whatever its write leaves out: a write on a stale copy that loses another secret breaks
`AnswersHold`. `fate` has what became of each board an agent asked for, as its answer says
when the lock has been released or could not be: `"created"`, `"disowned"` (refused,
though granted), `"removed"` (refused and deleted), `"left"` (refused, not granted, and
left to its owner).

The argument starts from the lock: a call that took it is the only one between the
read and the release, crashes included, because only a call takes the lock file and
only its creator, or a person once the creator is gone, removes it. So the copy a
call read is the file it replaces, and what it checked on the copy (`Stands`: a free
name, room under a cap, a target) holds of that file. What it checked in the account
database need not hold any more, and no theorem rests on it. A secret is drawn
before the lock is asked for and is nobody else's (`OwnSecret`), so a rename never
brings back one that was retired. `OutcomeIsSuccessor` says once what every operation
makes of a store; `OnlyRenameWrites` reduces the action properties and the refinement
to the rename. The only assumption is `StoreAssumption`.

`AccountsProofs` proves, for any number of people, boards, sessions, invitations,
sockets and calls in progress, `TypeOK`, `ConnectionsMatchRoles`,
`ConnectionsAreSignedIn`, `OwnersStay`, `OneAdmin`, `InvitedOnly`, `InvitationsEnd`,
`InvitationsOnlyRaise` and `DeletedBoardsClose`. `setUserDisabled` revokes sessions and
closes no room, so where accounts are disabled `ConnectionsAreSignedIn` says its piece
of the administrator alone. What
makes `ConnectionsMatchRoles` inductive is that whoever is connected has an account
(so a user who registers with an invitation is connected nowhere) and that boards
without an owner have no members (so a board that is made or adopted has no
connections); `BoardChanges` says once all that can happen to the members of a board.
The first section of the module says which actions change which table, so that each
later proof has one case for each of those. The only assumption is
`AccountsAssumption`.

`RoomsProofs` proves, for any number of people, tabs and account events, every size of
batch and all lengths of time, with every write failing whenever it may, the safety
properties of a room: `TypeOK`, `OnlyMembersConnected`, `AuditTrail` and `AuditShown`.
`Agreement` says that the two tables of sessions are the same while no failure has
marked the handle, so that closing what the one lists closes what the other has;
`RequestsMatch` that a request about to connect comes from a member, which holds
because no other request runs before it is done; `Served` that the cursor is at the
last event once a request is served (`CursorMoves`: fewer rows than the limit means
there are no more). Every way of losing sessions satisfies `Shrinks` and `Heals`, so
`CalmStep` settles all those actions. The only assumption is `RoomsAssumption`.

`CanvasProofs` begins with the routes by themselves (`SpecAssets`): for any number of
requests, boards and names and every cap, `AssetsAreTheirBoards` and `TablesAreCapped`.
`AssetsInv` says, beside the types and `AssetsAreTheirBoards`, that a request
whose file is on disk and not registered holds its name alone (`HoldsAlone`): the file is
its board's, nothing is registered under the name, and no other request has written it,
which is what `MayWrite`, the flag `wx`, provides. A board under its cap stays there
because the count and the insertion are one step (`AssetsAssumption`).

Of `Canvas` with its requests, people and routes, for any shapes, entities, lists and
lengths of requests, it proves `BindingsResolve`, `RelationsResolve`,
`TablesAreOfThisBoard`, the action property `ArrowsFollow` and, as `Spec` implements
`SpecAssets` (`ImplementsAssets`), `AssetsAreTheirBoards`. Each invariant is stated once
of any page or set of entities and used of the board and of the copy a request works on,
so beginning and committing carry it over; the layout core stays closed, as all that
matters of it is that it makes and removes no shape (`LayoutStep`). Relations resolve
because links look their target up, nothing removes an entity, and an entity is always
kept under its own id, a patch of `id` included. A table is of its board because every
action that can make one looks the artifact up (`WrittenTables`) and registrations only
grow (`AssetsGrow`). Arrows follow because a request redraws, at its end, those of the
shapes it marked: `ArrowsInv` says that all it neither marked nor deleted lies in its
copy as it lies on the board (`Stays`), which each action keeps (`CopyStep`), and
`ArrowFollows` that an arrow `Reroute` leaves alone has both ends there.

`VerifiedIsClear` compares rectangles, so that all a layout is computed from must first be
numbers, and `Above`, `LayoutOf`, `SlideClear` and the sums of rows and grids are recursive
functions. As no shape is inside itself (`IsForest`), each of them recurs along a relation
in which every set has a least element, and `RecursionExists` says that such a function has
the values of its body (`AboveIs`, `LayoutRecursion`, `SlideRecursion`, `SumIs`); inductions on them are by a
least counterexample again. `PagesInv` says of the board and of a request's copy that they
are finite forests of shapes with numbers (`IsBoardPage`), which every action of a request
and of a person keeps because whatever moves a shape moves it by whole numbers
(`ArrangePlaced`, and a lemma for each kind of arrangement) and whatever nests one nests it
under a shape that is not inside it (`NestedPage`); and of a report that
is there that board and measurements still are what it was made from. The geometry is
`VerifiedMeansClear`: if `VerifyLayout` finds nothing, a box the request touched lies apart
from every other that is not its own, and what is drawn of it stays within its bounds or
near them (`CertainIsDrawn`, `DrawnIsNear`).

`PlacedIsClear` has a condition, that the page of the request has at most `MaxSlides` shapes
(500 in the code, `layout-engine.ts:54`): `slideClear` gives up after that many iterations and
leaves the box where it then is, so without it `PlacedClear` is false. With it the argument has three
parts. A slide: an iteration that hits something moves past all it hit and meets nothing it
passed again (`SlidPasses`), and there are no more blockers than shapes (`FewBlockers`), so
it ends clear (`SlideEndsClear`); a block slides as a whole and its members lie within it
(`BlockMovesClear`). A block: the members of a row, a stack or a grid lie in bands that have
room for them and the gap (`BandsApart`, `InLineApart`, `GridApart`). And a move: the layout
computed after it is the one computed before it, shifted, through every parent and group, for
what moves, and the same for what is unrelated to it (`LayoutShift`), so that what was made
clear in the plan is clear on the page (`ArrangedClear`). `PlacedInv` adds to `PagesInv` that
outside a request nothing counts as placed.

`CanvasAssumption` says that the boards and entities one starts from are sound, that
requests name whole numbers for places and sizes and each id of a list once, and that
the fields of a request bring no relations, for which their schema has no room
(`shared/entities.ts:276-282`). `LayoutAssumption` gives the types of the parameters of the
layout, and says that ids are ordered (`RankOf`), which is what ends a tie in the sort of
`distributeMoves` (`layout-engine.ts:155`). Neither says how an estimate compares with what
is drawn: what `VerifiedIsClear` needs of that it says itself, of the boxes in question.

`MeasurementsProofs` proves, for any number of browsers, shapes, contents and failures,
`WrongSizesAreTemporary` and the action property `TrustedStays`, which needs no invariant.
`WrongSizesAreTemporary` needs four of them. The document: what a browser has not sent
nobody else has or knows (`UnsentIsPrivate`), and what it measured and the document still
has, it still shows (`StillShown`), as every content is drawn once and none is ahead of the
last one (`NoneAhead`). The reporters: a size is wrong exactly if its font was missing when
it was taken (`TakenWith`), and a run that asked for fewer fonts than the page now needs, or
measured what the document no longer has, is followed by another (`FontsAsked`, `RunsAgain`),
for the texts of the page that was shown when it began.
Then a wrong size in the table has an owner (`WrongHasOwner`): a browser that shows the
shape, has not reported its right size and is certain to measure again, unless the editor
has closed, it has an edit to send, or its latest run began on another page than the
shape's. An answer that marks a batch as reported is where this
could break, hence the clause of `Responsible` on the stage after it. The only assumption is
`MeasurementsAssumption`.

`BackupProofs` proves, for any boards, uploads, periods and numbers of archives to keep,
whatever the service does meanwhile and wherever runs and restores stop, `ArchivesResolve`,
`GenerationsKept` and `RestoredIsSound`. What a database refers to is registered, what is
registered is whole and stays so (`ServiceInv`, `ServiceStep`); so it is enough that a run
lists the uploads after it has copied the databases, and `RunInv` follows what is still to
copy. Retention removes only what is no generation among *all archives ever made* in a
directory (`RetentionInv`): a generation stays one among the archives that are left
(`StillCounts`, because there are finitely many periods, `FewerPeriods`), and it is the
stronger statement that survives a run stopped between two removals. A restore has, of the
databases it no longer has to copy, those of its archive and nothing damaged
(`RestoreInv`). The only assumption is `BackupAssumption`: `auth` is not the name of a room,
time does not run backwards, and one archive of each kind at least is kept.

`RetentionProofs` proves, for any number of events and checkpoints, all lengths of the
windows and of a week and every sample of the verification, `TypeOK`, `KeptVersions`,
`PlansAreSound`, `WeeklySeries` and the action property `FullResolution`. The core of the
invariant is `Covered`: between any event that is left (or the next to come) and an event
before it that was deleted, there is the base of a checkpoint; so the checkpoint that
`reconstruct` chooses lies behind every hole, and a checkpoint has every change up to its
base (`Made`). `PlanStands` says what stays true of a plan while the server writes: what
it deletes is exactly what lies in its gaps, whose ends are retained checkpoints. Every
step of the server satisfies `Grows`, which keeps both. In the transaction,
`KeptIsBeyond` is the whole argument: what is kept and lies behind the start of a gap
lies behind its end. `KeptAreRebuiltAlike` follows from it alone, so neither the
comparison of hashes nor the check that the board has not moved is what keeps history
whole: they guard against a script that is wrong, and not against the server. The only
assumption is `RetentionAssumption`.

Only model-checked:

- The liveness properties `PendingPublished`, `ExpiredAreClosed`, `UnusedRoomsClose` and
  `EventuallyMeasured`: the prover does not do fairness and `ENABLED`.

## Not modelled

- *Rate limits* (`security.ts`, the hourly budgets of agent boards): a window per key in
  the memory of one process, decided without an `await`. In the plan.
- *Host policy and Cloudflare Access tokens*: decisions on one request, of which nothing
  is kept but the fetched keys.
- *Accounts*: renaming, settings, listings and the contents of audit events.
- *History reads*: listings with their filters and summaries; they change nothing.
- *Canvas reads*: `describe`, layout queries and semantic context (`canvas-api.ts:247-279`).
- *The web client* but for its measurement reporter: React views over the HTTP API. What
  matters of them (stale references, the expected clock of a restore) enters the server
  modules as inputs.
- *Harnesses*: acceptance and preflight scripts, `dr-drill.sh`,
  `measure-history-growth.sh`; they drive the system and keep no state of it.
- *`requireFreshBackup`*: a look at modification times before a pass.
- *The worker of version 1*: legacy code that is not deployed.

Hazards that were looked at and are not in `PROJECT.json`, with what is known of them: the
fragments of a failed immediate write wait without a timer until the next edit or the
closing of the room (`history.ts:912`); a handle whose legacy import throws has no
checkpoint (`rooms.ts:185`); `recorder.dispose` may throw after its handle is marked closed
(`rooms.ts:89`); projected events carry the times of account events, so the times of a
timeline are not monotonic (`rooms.ts:54`); a crash between board and rename leaves a board
nobody was granted (`token-store.mjs:642`), which the agent's quota counts; a board rolled
back for an agent may keep connections (`app.ts:602`, stated by `DeletedBoardsClose`).

## Plan

1. *Board history*, *token store*, *rooms*, *accounts* (done): modules, runs, abstract
   specifications of the first two, proofs.
2. *Retention*, *measurements*, *canvas with layout, entities and uploads*, *backup* (done):
   modules, runs, proofs.
3. *Limits*: the sliding window and the two budgets of agent boards, either of which may
   refuse: a refusal by one must not be spent from the other.
4. Proofs: every safety property of the runs is a theorem (done). What one could add is a
   specification of the room with its history, `Rooms` composed with `BoardHistory`, from
   the theorems of either.
