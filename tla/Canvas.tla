------------------------------- MODULE Canvas -------------------------------
(***************************************************************************)
(* A board under the machine API: applyRoomActions of server/canvas-api.ts *)
(* applies the actions of a request, one after the other, to a copy of the *)
(* board (room.storage.transaction), and either commits all of them with   *)
(* one reply or changes nothing.  Between requests people edit the board   *)
(* in their browsers, and browsers report the sizes of texts.              *)
(*                                                                         *)
(* Layout computes where shapes go, Entities what semantic actions write,  *)
(* and Assets holds the files that evidence refers to, whose routes run    *)
(* beside the requests.                                                    *)
(***************************************************************************)
EXTENDS Layout, Entities, Assets

CONSTANTS
  StartBoards,     \* the boards a behaviour starts from
  StartEntities,   \* the entities it starts from
  Here,            \* the board the requests are about
  Spots,           \* the coordinates a request or a person names
  BoxSizes,        \* the sizes they give
  Lists,           \* the lists of ids that layout actions name
  Columns,         \* the columns of a grid
  Gaps,            \* the gaps that requests ask for
  BlockOptions,    \* the gaps of a row, a stack or a grid, and where it starts
  Fields,          \* the fields of create_entity and update_entity
  MaxSteps         \* bound: the actions of requests and the edits of people

ShapeFields == {"type", "parent", "x", "y", "w", "h", "text", "locked", "from", "to", "aim"}

\* A record of the store.  An arrow lies where the API draws it, at the top level.
IsShape(shape) ==
  /\ DOMAIN shape = ShapeFields
  /\ shape.type = "arrow" => shape.parent = Page

\* A shape has numbers for its place and its size, and what is written has a text.
IsPlaced(shape) ==
  /\ shape.x \in Int /\ shape.y \in Int /\ shape.w \in Nat /\ shape.h \in Nat
  /\ shape.type \in {"geo", "text", "note"} => shape.text \in Texts

\* No shape is inside itself, through whatever holds it.
IsForest(shapes) ==
  \A S \in SUBSET DOMAIN shapes : S # {} => \E s \in S : shapes[s].parent \notin S

\* What a store holds of a board.
IsBoardPage(shapes) ==
  /\ IsFiniteSet(DOMAIN shapes) /\ DOMAIN shapes \subseteq ShapeIds
  /\ \A id \in DOMAIN shapes : IsShape(shapes[id]) /\ IsPlaced(shapes[id])
  /\ IsForest(shapes)

\* What requests and start states can be: the schema of fields has no room for a
\* relation, so that the only relations they can give are none, and layout actions
\* name each id once.
ASSUME CanvasAssumption ==
  /\ Here \in Boards
  /\ MaxSteps \in Nat
  /\ Spots \subseteq Int /\ BoxSizes \subseteq Sizes /\ Columns \subseteq Nat \ {0}
  /\ Gaps \subseteq Nat
  /\ \A given \in BlockOptions :
       /\ given.columnGap \in Nat /\ given.rowGap \in Nat
       /\ "x" \in DOMAIN given => given.x \in Int
       /\ "y" \in DOMAIN given => given.y \in Int
  /\ \A ids \in Lists : ids \in Seq(ShapeIds) /\ IsInjective(ids)
  /\ \A fields \in Fields : "relations" \in DOMAIN fields => fields.relations = {}
  /\ \A start \in StartBoards :
       /\ IsBoardPage(start.page)
       /\ \A b \in start.bindings : b.arrow \in DOMAIN start.page /\ b.to \in DOMAIN start.page
  /\ \A start \in StartEntities : \A id \in DOMAIN start :
       /\ start[id].id = id
       /\ \A r \in start[id].relations : r.target \in DOMAIN start
       /\ ~IsTable(start[id])

VARIABLES
  page,            \* the shapes
  bindings,        \* what holds the ends of arrows to shapes
  entities,
  rows,            \* layout_measurements
  txn,             \* the transaction of a request
  reply,           \* its layout report, until the board changes again
  focus,           \* bound: the half of the API that a behaviour uses
  steps            \* the actions and edits so far

vars == <<page, bindings, entities, rows, txn, reply, focus, steps, assetVars>>
board == <<page, bindings, entities>>

NoReply == [status |-> "none", touched |-> {}]
NoRegion == Rect(0, 0, [w |-> 0, h |-> 0])
Astray == <<NoRegion, NoRegion>>   \* the aim of an arrow that was itself moved

\* Outside a transaction.
NoTxn ==
  [open |-> FALSE, page |-> <<>>, bindings |-> {}, entities |-> <<>>, count |-> 0,
   affected |-> {}, touched |-> {}, ran |-> FALSE, statuses |-> {}, guessed |-> FALSE,
   placed |-> {}, region |-> NoRegion, spacing |-> Gap, gone |-> {}]

Init ==
  /\ \/ /\ focus = "shapes"
        /\ \E start \in StartBoards : page = start.page /\ bindings = start.bindings
        /\ entities = <<>>
     \/ /\ focus = "entities"
        /\ page = <<>> /\ bindings = {}
        /\ entities \in StartEntities
  /\ rows = [s \in ShapeIds |-> Unmeasured]
  /\ txn = NoTxn
  /\ reply = NoReply
  /\ steps = 0
  /\ InitAssets

-----------------------------------------------------------------------------
(* The transaction.                                                        *)

\* expectedClock, if the request gives one, is the clock of the board now.
Begin ==
  /\ ~txn.open
  /\ steps < MaxSteps
  /\ txn' = [NoTxn EXCEPT !.open = TRUE, !.page = page, !.bindings = bindings,
                          !.entities = entities, !.count = Cardinality(DOMAIN entities)]
  /\ UNCHANGED <<board, rows, reply, focus, steps, assetVars>>

\* An action that does not apply, or a clock that has moved on: nothing changes.
Refuse ==
  /\ txn.open
  /\ txn' = NoTxn
  /\ UNCHANGED <<board, rows, reply, focus, steps, assetVars>>

\* Every action of a request works on the copy.  (The bounds: a behaviour is about
\* shapes or about entities, and is short.)
Acting(on) ==
  /\ txn.open
  /\ focus = on
  /\ steps < MaxSteps
  /\ steps' = steps + 1
  /\ UNCHANGED <<board, rows, reply, focus, assetVars>>

\* What an action leaves in the copy.
Leaves(newPage, newBindings, moved) ==
  txn' = [txn EXCEPT !.page = newPage, !.bindings = newBindings,
                     !.affected = @ \cup moved, !.placed = {}, !.region = NoRegion]

\* current: the shapes at the top level of the page.
Current == {id \in DOMAIN txn.page : txn.page[id].parent = Page}

-----------------------------------------------------------------------------
(* Visual actions.                                                         *)

\* txn.set of a shape under a new id.
WithShape(shapes, id, shape) ==
  [s \in DOMAIN shapes \cup {id} |-> IF s = id THEN shape ELSE shapes[s]]

Shape(type, x, y, size, text) ==
  [type |-> type, parent |-> Page, x |-> x, y |-> y, w |-> size.w, h |-> size.h,
   text |-> text, locked |-> FALSE, from |-> Nobody, to |-> Nobody, aim |-> <<>>]

CreateShape(id, type, x, y, size, text) ==
  /\ Acting("shapes")
  /\ id \notin DOMAIN txn.page
  /\ Leaves(WithShape(txn.page, id, Shape(type, x, y, size, text)), txn.bindings, {})

\* The bounds an arrow is drawn between.
AimOf(layout, from, to) == <<layout[from].bounds, layout[to].bounds>>

ArrowBindings(arrow, from, to) ==
  {[arrow |-> arrow, end |-> "start", to |-> from], [arrow |-> arrow, end |-> "end", to |-> to]}

ConnectShapes(id, from, to) ==
  LET layout == LayoutOf(txn.page, rows)
      arrow == [Shape("arrow", 0, 0, [w |-> 0, h |-> 0], NoText) EXCEPT
                  !.from = from, !.to = to, !.aim = AimOf(layout, from, to)]
  IN  /\ Acting("shapes")
      /\ id \notin DOMAIN txn.page
      /\ {from, to} \subseteq Current \cap DOMAIN layout
      /\ Leaves(WithShape(txn.page, id, arrow), txn.bindings \cup ArrowBindings(id, from, to), {})

MoveShape(id, x, y) ==
  /\ Acting("shapes")
  /\ id \in Current
  /\ Leaves([txn.page EXCEPT ![id].x = x, ![id].y = y,
                               ![id].aim = IF @ = <<>> THEN @ ELSE Astray],
            txn.bindings, {id})

UpdateText(id, text) ==
  /\ Acting("shapes")
  /\ id \in Current
  /\ txn.page[id].type \in {"geo", "text", "note"}
  /\ Leaves([txn.page EXCEPT ![id].text = text], txn.bindings, {})

\* What resize_shape marks for the end of the request: nothing.
ResizedUnmarked(id) == {}
Resized(id) == {id}

ResizeShape(id, size) ==
  /\ Acting("shapes")
  /\ id \in Current
  /\ txn.page[id].type \in {"geo", "frame"}
  /\ Leaves([txn.page EXCEPT ![id].w = size.w, ![id].h = size.h], txn.bindings, Resized(id))

\* Bindings from a deleted arrow go, and those to a deleted shape stay.
LooseFrom(id, bound) == {b \in bound : b.arrow = id}

\* A binding that points at or from a deleted shape would dangle.
Loose(id, bound) == {b \in bound : b.arrow = id \/ b.to = id}

\* What a frame or a group holds stays behind, without a place on the page.
DeleteShape(id) ==
  /\ Acting("shapes")
  /\ id \in Current
  /\ txn' = [txn EXCEPT !.page = Restrict(@, DOMAIN @ \ {id}),
                        !.bindings = @ \ Loose(id, @),
                        !.placed = {}, !.region = NoRegion, !.gone = @ \cup {id}]

-----------------------------------------------------------------------------
(* Layout actions.                                                         *)

\* assertMovable: present, not pinned, and not together with its container.
Movable(layout, ids) ==
  /\ ids \subseteq DOMAIN layout
  /\ \A id \in ids : ~txn.page[id].locked /\ AncestorsOf(txn.page, id) \cap ids = {}

\* A page-space delta is one in the container's frame: nothing is rotated.
Translated(shape, move) == [shape EXCEPT !.x = @ + move.dx, !.y = @ + move.dy]

\* applyMoves, and the verification of what was written.
Arrange(moves, placed, gap) ==
  LET still == {id \in DOMAIN moves : moves[id].dx = 0 /\ moves[id].dy = 0}
      moved == DOMAIN moves \ still
      after == [id \in DOMAIN txn.page |->
                  IF id \in moved THEN Translated(txn.page[id], moves[id]) ELSE txn.page[id]]
  IN  txn' = [txn EXCEPT
                !.page = after,
                !.affected = @ \cup moved,
                !.touched = @ \cup DOMAIN moves,
                !.ran = TRUE,
                !.statuses = @ \cup {VerifyLayout(after, LayoutOf(after, rows), DOMAIN moves)},
                !.placed = placed,
                !.region = NoRegion,
                !.spacing = gap]

Aligns == {"start", "center", "end"}

PlaceBelowAction(id, target, align, gap) ==
  LET layout == LayoutOf(txn.page, rows)
  IN  /\ Acting("shapes")
      /\ id # target
      /\ Movable(layout, {id})
      /\ target \in DOMAIN layout
      /\ Arrange(PlaceBelow(txn.page, layout, id, target, align, gap), {id}, gap)

PlaceRightOfAction(id, target, align, gap) ==
  LET layout == LayoutOf(txn.page, rows)
  IN  /\ Acting("shapes")
      /\ id # target
      /\ Movable(layout, {id})
      /\ target \in DOMAIN layout
      /\ Arrange(PlaceRightOf(txn.page, layout, id, target, align, gap), {id}, gap)

AlignAction(ids, axis) ==
  LET layout == LayoutOf(txn.page, rows)
  IN  /\ Acting("shapes")
      /\ Cardinality(ids) >= 2
      /\ Movable(layout, ids)
      /\ Arrange(AlignMoves(layout, ids, axis), {}, Gap)

DistributeAction(ids, direction, gap) ==
  LET layout == LayoutOf(txn.page, rows)
  IN  /\ Acting("shapes")
      /\ Cardinality(ids) >= 3
      /\ Movable(layout, ids)
      /\ Arrange(DistributeMoves(layout, ids, direction, gap), {}, Gap)

\* row, stack and grid: the block, whose shapes are by the gap apart, is cleared of
\* everything else unless the request says otherwise.
ArrangeBlock(layout, moves, avoid, gap, clearance) ==
  IF avoid THEN Arrange(ClearBlock(txn.page, layout, moves, clearance), DOMAIN moves, gap)
           ELSE Arrange(moves, {}, Gap)

RowAction(ids, align, given, avoid) ==
  LET layout == LayoutOf(txn.page, rows)
  IN  /\ Acting("shapes")
      /\ Movable(layout, ToSet(ids))
      /\ ArrangeBlock(layout, RowMoves(layout, ids, align, given), avoid,
                      given.columnGap, given.columnGap)

StackAction(ids, align, given, avoid) ==
  LET layout == LayoutOf(txn.page, rows)
  IN  /\ Acting("shapes")
      /\ Movable(layout, ToSet(ids))
      /\ ArrangeBlock(layout, StackMoves(layout, ids, align, given), avoid,
                      given.rowGap, given.rowGap)

GridAction(ids, columns, given, avoid) ==
  LET layout == LayoutOf(txn.page, rows)
  IN  /\ Acting("shapes")
      /\ Movable(layout, ToSet(ids))
      /\ ArrangeBlock(layout, GridMoves(layout, ids, columns, given), avoid,
                      Least(given.columnGap, given.rowGap), Most(given.columnGap, given.rowGap))

\* find_free_region writes nothing, and is as certain as its neighbours.
FindFreeRegionAction(size, near, direction, gap) ==
  LET layout == LayoutOf(txn.page, rows)
      beside == layout[near].bounds
      anchor == IF near = Nobody
                  THEN IF TopLevel(txn.page, layout) = {} THEN NoRegion
                       ELSE [Extent(txn.page, layout) EXCEPT
                               !.y = Bottom(Extent(txn.page, layout)) + gap]
                ELSE IF direction = "right" THEN [beside EXCEPT !.x = Right(beside) + gap]
                ELSE [beside EXCEPT !.y = Bottom(beside) + gap]
      region == FindFreeRegion(txn.page, layout, size, anchor, direction, gap)
      nearby == {id \in DOMAIN layout :
                   /\ txn.page[id].type # "group"
                   /\ CloserThan(region, layout[id].bounds, 2 * gap)}
  IN  /\ Acting("shapes")
      /\ near \in DOMAIN layout \cup {Nobody}
      /\ txn' = [txn EXCEPT !.ran = TRUE,
                            !.guessed = @ \/ \E id \in nearby : ~layout[id].verified,
                            !.placed = {}, !.region = region, !.spacing = gap]

-----------------------------------------------------------------------------
(* The end of a request.                                                   *)

\* rerouteManagedArrows: arrows that this API drew, whose boxes moved or resized.
Reroute(shapes, layout, affected) ==
  [id \in DOMAIN shapes |->
     LET arrow == shapes[id]
     IN  IF /\ arrow.type = "arrow" /\ arrow.from # Nobody
            /\ {arrow.from, arrow.to} \cap affected # {}
            /\ {arrow.from, arrow.to} \subseteq DOMAIN layout
            /\ arrow.parent = Page
           THEN [arrow EXCEPT !.aim = AimOf(layout, arrow.from, arrow.to)]
           ELSE arrow]

\* The shape an end of an arrow is bound to, or was drawn to.
EndOf(shapes, bound, arrow, end) ==
  LET held == {b \in bound : b.arrow = arrow /\ b.end = end}
  IN  IF held # {} THEN (CHOOSE b \in held : TRUE).to
      ELSE IF end = "start" THEN shapes[arrow].from ELSE shapes[arrow].to

\* A bound end follows its box; one that is not is where it was drawn.
IsAttached(shapes, layout, bound, arrow) ==
  \A end \in {"start", "end"} :
    LET at == EndOf(shapes, bound, arrow, end)
        drawn == shapes[arrow].aim[IF end = "start" THEN 1 ELSE 2]
    IN  \/ at \notin DOMAIN layout
        \/ /\ shapes[at].type # "group"
           /\ \E b \in bound : b.arrow = arrow /\ b.end = end
        \/ shapes[arrow].from # Nobody /\ drawn = layout[at].bounds

\* The worst of the actions' reports is the status; the result is not looked at.
StatusOfActions(shapes, bound, touched) ==
  IF "overlaps" \in txn.statuses THEN "overlaps"
  ELSE IF "partially_unverified" \in txn.statuses \/ txn.guessed THEN "partially_unverified"
  ELSE "verified"

\* finishRun: the worst of what the actions reported and of the board they leave.
StatusOfRequest(shapes, bound, touched) ==
  LET layout == LayoutOf(shapes, rows)
      final == VerifyLayout(shapes, layout, touched)
      loose == \E a \in OnPage(shapes) \ DOMAIN layout :
                 /\ \E end \in {"start", "end"} : EndOf(shapes, bound, a, end) \in touched
                 /\ ~IsAttached(shapes, layout, bound, a)
      all == txn.statuses \cup {final}
  IN  IF "overlaps" \in all THEN "overlaps"
      ELSE IF "partially_unverified" \in all \/ txn.guessed \/ loose
        THEN "partially_unverified"
      ELSE "verified"

Commit ==
  LET final == IF txn.affected = {} THEN txn.page
               ELSE Reroute(txn.page, LayoutOf(txn.page, rows), txn.affected)
      touched == txn.touched \cup txn.affected
  IN  /\ txn.open
      /\ page' = final
      /\ bindings' = txn.bindings
      /\ entities' = txn.entities
      /\ reply' = IF ~txn.ran THEN NoReply
                  ELSE [status |-> StatusOfRequest(final, txn.bindings, touched),
                        touched |-> touched]
      /\ txn' = NoTxn
      /\ UNCHANGED <<rows, focus, steps, assetVars>>

-----------------------------------------------------------------------------
(* Semantic actions.                                                       *)

\* Only the artifacts of this board may be referred to as tables.
TableIsHere(entity) ==
  IsTable(entity) => AssetBelongsToBoard(entity.reference, Here)

\* An update is not checked.
TableIsAnywhere(entity) == TRUE
UpdatedTableIsHere(entity) == TableIsHere(entity)

Writes(entity, created) ==
  /\ Valid(entity)
  /\ txn' = [txn EXCEPT !.entities = Written(@, entity), !.count = @ + created]

CreateEntity(id, type, fields) ==
  LET candidate == NewEntity(id, type, fields)
  IN  /\ Acting("entities")
      /\ id \notin DOMAIN txn.entities
      /\ txn.count < MaxEntities
      /\ TableIsHere(candidate)
      /\ Writes(candidate, 1)

ApplyUpdate(id, fields) ==
  LET candidate == Patched(txn.entities[id], fields)
  IN  /\ Acting("entities")
      /\ id \in DOMAIN txn.entities
      /\ UpdatedTableIsHere(candidate)
      /\ Writes(candidate, 0)

UpdateEntity(id, fields) == ApplyUpdate(id, fields)
UpdateStatus(id, status) == ApplyUpdate(id, [status |-> status])
RecordExperimentResult(id, status) ==
  ApplyUpdate(id, [result |-> "recorded", status |-> status])

\* The target is not looked up.
AnyTarget(id) == TRUE

\* findEntity: a link "must resolve to a real entity; never a dangling reference".
FindTarget(id) == id \in DOMAIN txn.entities

LinkEntities(id, type, target) ==
  /\ Acting("entities")
  /\ id \in DOMAIN txn.entities
  /\ FindTarget(target)
  /\ Writes(WithRelation(txn.entities[id], type, target), 0)

AttachEvidence(id, target) ==
  /\ target \in DOMAIN txn.entities
  /\ txn.entities[target].entityType = "evidence"
  /\ LinkEntities(id, "supported_by", target)

UnlinkEntities(id, type, target) ==
  /\ Acting("entities")
  /\ id \in DOMAIN txn.entities
  /\ Writes(WithoutRelation(txn.entities[id], type, target), 0)

-----------------------------------------------------------------------------
(* People's browsers, between requests.                                    *)

Editing ==
  /\ ~txn.open
  /\ focus = "shapes"
  /\ steps < MaxSteps
  /\ steps' = steps + 1
  /\ reply' = NoReply
  /\ UNCHANGED <<entities, txn, focus, assetVars>>

\* Anything can be dragged, locked shapes once they are unlocked.
PersonMoves(id, x, y) ==
  /\ Editing
  /\ id \in DOMAIN page /\ page[id].type # "arrow"
  /\ page' = [page EXCEPT ![id].x = x, ![id].y = y]
  /\ UNCHANGED <<bindings, rows>>

\* Into a frame or a group, where it lies on the page.
PersonNests(id, container) ==
  /\ Editing
  /\ {id, container} \subseteq OnPage(page)
  /\ page[id].type # "arrow" /\ page[id].parent = Page
  /\ page[container].type \in {"frame", "group"}
  /\ container \notin Related(page, id)
  /\ page' = [page EXCEPT
                ![id].parent = container,
                ![id].x = @ - OffsetX(page, container) - page[container].x,
                ![id].y = @ - OffsetY(page, container) - page[container].y]
  /\ UNCHANGED <<bindings, rows>>

\* A box grows with its label.
PersonWrites(id, text) ==
  /\ Editing
  /\ id \in DOMAIN page /\ page[id].type \in {"geo", "text", "note"}
  /\ page' = [page EXCEPT ![id].text = text,
                          ![id].h = IF page[id].type = "geo" THEN Most(@, Drawn[text].h) ELSE @]
  /\ UNCHANGED <<bindings, rows>>

PersonLocks(id) ==
  /\ Editing
  /\ id \in DOMAIN page /\ page[id].type # "arrow"
  /\ page' = [page EXCEPT ![id].locked = ~@]
  /\ UNCHANGED <<bindings, rows>>

\* With all it holds, and with the bindings of what goes.
PersonDeletes(id) ==
  LET gone == {id} \cup DescendantsOf(page, id)
  IN  /\ Editing
      /\ id \in DOMAIN page
      /\ page' = Restrict(page, DOMAIN page \ gone)
      /\ bindings' = {b \in bindings : {b.arrow, b.to} \cap gone = {}}
      /\ UNCHANGED rows

\* saveMeasurements: a browser drew the text that the shape has.
Measure(id) ==
  /\ Editing
  /\ id \in DOMAIN page /\ page[id].type \in {"text", "note"}
  /\ rows' = [s \in ShapeIds |->
                IF s = id THEN [text |-> page[id].text, size |-> Drawn[page[id].text]]
                ELSE IF s \in DOMAIN page THEN rows[s] ELSE Unmeasured]
  /\ UNCHANGED <<page, bindings>>

-----------------------------------------------------------------------------
Groupings == {ToSet(ids) : ids \in Lists}
Words == Texts \ {NoText}
Axes == {"left", "center-x", "right", "top", "center-y", "bottom"}
Directions == {"horizontal", "vertical"}

VisualAction ==
  \E id \in ShapeIds :
    \/ \E x \in Spots, y \in Spots, size \in BoxSizes, text \in Words, type \in {"geo", "text"} :
         CreateShape(id, type, x, y, size, text)
    \/ \E from \in ShapeIds, to \in ShapeIds : ConnectShapes(id, from, to)
    \/ \E x \in Spots, y \in Spots : MoveShape(id, x, y)
    \/ \E text \in Words : UpdateText(id, text)
    \/ \E size \in BoxSizes : ResizeShape(id, size)
    \/ DeleteShape(id)

LayoutAction ==
  \/ \E id \in ShapeIds, target \in ShapeIds, align \in Aligns, gap \in Gaps :
       PlaceBelowAction(id, target, align, gap) \/ PlaceRightOfAction(id, target, align, gap)
  \/ \E ids \in Groupings, axis \in Axes : AlignAction(ids, axis)
  \/ \E ids \in Groupings, direction \in Directions, gap \in Gaps \cup {NoGap} :
       DistributeAction(ids, direction, gap)
  \/ \E ids \in Lists, given \in BlockOptions, avoid \in BOOLEAN :
       \/ \E align \in Aligns :
            RowAction(ids, align, given, avoid) \/ StackAction(ids, align, given, avoid)
       \/ \E columns \in Columns : GridAction(ids, columns, given, avoid)
  \/ \E size \in BoxSizes, near \in ShapeIds \cup {Nobody}, way \in {"below", "right", "any"},
        gap \in Gaps :
       FindFreeRegionAction(size, near, way, gap)

SemanticAction ==
  \E id \in EntityIds :
    \/ \E type \in EntityTypes, fields \in Fields : CreateEntity(id, type, fields)
    \/ \E fields \in Fields : UpdateEntity(id, fields)
    \/ \E type \in EntityTypes : \E status \in StatusesOf(type) : UpdateStatus(id, status)
    \/ \E status \in StatusesOf("experiment") : RecordExperimentResult(id, status)
    \/ \E target \in EntityIds :
         \/ AttachEvidence(id, target)
         \/ \E type \in RelationTypes :
              LinkEntities(id, type, target) \/ UnlinkEntities(id, type, target)

People ==
  \E id \in ShapeIds :
    \/ \E x \in Spots, y \in Spots : PersonMoves(id, x, y)
    \/ \E container \in ShapeIds : PersonNests(id, container)
    \/ \E text \in Words : PersonWrites(id, text)
    \/ PersonLocks(id) \/ PersonDeletes(id) \/ Measure(id)

Routes ==
  /\ ~txn.open
  /\ focus = "entities"
  /\ NextAssets
  /\ UNCHANGED <<board, rows, txn, reply, focus, steps>>

Next ==
  \/ Begin \/ Refuse \/ Commit
  \/ VisualAction \/ LayoutAction \/ SemanticAction
  \/ People \/ Routes

Spec == Init /\ [][Next]_vars

-----------------------------------------------------------------------------
(* Properties.                                                             *)

\* No binding dangles: what the API and people delete takes with it the bindings
\* from and to it, whatever was connected, moved and nested before.
BindingsResolve ==
  \A b \in bindings : b.arrow \in DOMAIN page /\ b.to \in DOMAIN page

\* What layout actions place is where nothing else is, by the gap: neither a
\* shape they did not name, at any depth, nor another one they placed.
PlacedClear ==
  LET layout == LayoutOf(txn.page, rows)
      apart(a, b) == \/ a.x >= Right(b) + txn.spacing \/ b.x >= Right(a) + txn.spacing
                     \/ a.y >= Bottom(b) + txn.spacing \/ b.y >= Bottom(a) + txn.spacing
      unrelated(b) == \A id \in txn.placed : b \notin Related(txn.page, id)
  IN  /\ \A id \in txn.placed :
           /\ \A b \in DOMAIN layout :
                txn.page[b].type # "group" /\ unrelated(b) =>
                  apart(layout[id].bounds, layout[b].bounds)
           /\ \A other \in txn.placed \ {id} :
                apart(layout[id].bounds, layout[other].bounds)
      /\ txn.region # NoRegion =>
           \A b \in DOMAIN layout :
             txn.page[b].type # "group" => apart(txn.region, layout[b].bounds)

\* How large a browser draws a shape, whatever the server believes, to the pixel that
\* computeLayout leaves a label; of a note that nobody has measured only the box is
\* known.
DrawnSize(shape, row) ==
  CASE shape.type = "text" -> Drawn[shape.text]
    [] shape.type = "geo" /\ Drawn[shape.text].h > shape.h + 1 ->
         [w |-> shape.w, h |-> Drawn[shape.text].h]
    [] OTHER -> SizeOf(shape, row)

DrawnBounds(id) ==
  Rect(OffsetX(page, id) + page[id].x, OffsetY(page, id) + page[id].y,
       DrawnSize(page[id], rows[id]))

DrawnOver(a, b) == OverlapArea(DrawnBounds(a), DrawnBounds(b)) > 1

OnPageBoxes == {id \in OnPage(page) : page[id].type \in Boxes}

\* The width of a glyph is an average, "set HIGH on purpose": a label that is drawn taller
\* than its estimate all the same may pass for one that its box holds.
LabelAsEstimated(id) ==
  page[id].type = "geo" => Drawn[page[id].text].h <= Estimate[page[id].text].h

\* It is drawn no further out of its bounds than verifyLayout looks for neighbours.
StaysNear(id) ==
  /\ DrawnSize(page[id], rows[id]).w < SizeOf(page[id], rows[id]).w + 2 * Gap
  /\ DrawnSize(page[id], rows[id]).h < SizeOf(page[id], rows[id]).h + 2 * Gap

\* "verified" is a promise: no box that the request arranged, moved or resized is
\* drawn over anything that is not its own, by the actions that came after in the
\* same request either.  It leaves out a box whose label needs more than its estimate,
\* and a neighbour that is drawn past the margin in which neighbours are looked at.
VerifiedIsClear ==
  reply.status = "verified" =>
    \A id \in reply.touched \cap OnPageBoxes :
      \A other \in OnPageBoxes \ Related(page, id) :
        LabelAsEstimated(id) /\ LabelAsEstimated(other) /\ StaysNear(other)
          => ~DrawnOver(id, other)

\* The arrow meets the boxes it connects.
Meets(shapes, arrow) ==
  LET layout == LayoutOf(shapes, rows)
  IN  /\ {shapes[arrow].from, shapes[arrow].to} \subseteq DOMAIN layout
      /\ shapes[arrow].aim = AimOf(layout, shapes[arrow].from, shapes[arrow].to)

\* Both ends are boxes at the top level whose size the record holds.
BetweenBoxes(shapes, arrow) ==
  \A end \in {shapes[arrow].from, shapes[arrow].to} :
    end \in DOMAIN shapes =>
      shapes[end].parent = Page /\ shapes[end].type \in {"geo", "frame"}

\* No request leaves an arrow behind: one that met its boxes before a request
\* meets them after it, unless one of them was deleted or it was itself moved.
\* This is what canvas-api.ts:337-344 and 538-543 do and say.  README.md:376 says the
\* opposite of the code, that connect_shapes "creates a native unbound arrow" which a
\* connected shape that moves later does not take along.
ArrowsFollow ==
  [][txn.open /\ ~txn'.open =>
       \A a \in DOMAIN page \cap DOMAIN page' :
         /\ page[a].type = "arrow" /\ page[a].from # Nobody
         /\ a \notin txn.affected \cup txn.gone
         /\ BetweenBoxes(page, a) /\ BetweenBoxes(page', a)
         /\ {page[a].from, page[a].to} \subseteq DOMAIN page' \ txn.gone
         /\ Meets(page, a)
         => Meets(page', a)]_vars

\* Every relation resolves: entities are archived and never removed, and no field
\* that a request gives displaces what others refer to.
RelationsResolve ==
  \A id \in DOMAIN entities :
    /\ entities[id].id = id
    /\ \A r \in entities[id].relations : r.target \in DOMAIN entities

\* Evidence of kind table names an artifact of this board, whatever turned it into
\* a table and whichever board the artifact was uploaded to.
TablesAreOfThisBoard ==
  \A id \in DOMAIN entities :
    IsTable(entities[id]) => AssetBelongsToBoard(entities[id].reference, Here)
=============================================================================
