------------------------------- MODULE Layout -------------------------------
(***************************************************************************)
(* The layout core of the machine API, which only computes: page-space     *)
(* bounds of the shapes of a page and how far each can be trusted          *)
(* (shared/layout-geometry.ts), where a layout action puts shapes and what *)
(* it reports afterwards (shared/layout-engine.ts, server/layout-          *)
(* service.ts).                                                            *)
(*                                                                         *)
(* A page is a function from the ids that are on it to their records.      *)
(* Shapes are not rotated, so a transform is an offset.  A text stands for *)
(* everything that decides how large it is drawn; its sizes are given by   *)
(* constants, and coordinates are whole numbers.                           *)
(***************************************************************************)
EXTENDS Integers, Sequences, FiniteSets, Functions, FiniteSetsExt, SequencesExt

CONSTANTS
  ShapeIds,
  RankOf,          \* how ids compare, as strings
  Page,            \* the parent of top-level shapes
  Nobody,          \* the end of an arrow that connects nothing
  Gap,             \* LAYOUT_GAP
  Texts,           \* the texts that notes, texts and labels hold
  NoText,          \* the label of what has none
  Drawn,           \* the size each text is drawn with in a browser
  Estimate,        \* estimateText, estimateLabelNeed: the size guessed for it
  NoteSize,        \* the side of a note
  MaxSlides        \* the iterations of slideClear, 500 in the code

Boxes == {"geo", "text", "note", "frame"}   \* what has a size of its own
Sizes == [w : Nat, h : Nat]
Unmeasured == [text |-> "none", size |-> [w |-> 0, h |-> 0]]

\* No two ids are the same string, and no text is the absence of a measurement.  How
\* an estimate compares with what is drawn is left open: it rests on average glyphs.
ASSUME LayoutAssumption ==
  /\ Page \notin ShapeIds /\ Nobody \notin ShapeIds
  /\ RankOf \in [ShapeIds -> Int]
  /\ \A s, t \in ShapeIds : RankOf[s] = RankOf[t] => s = t
  /\ Gap \in Nat \ {0} /\ NoteSize \in Nat \ {0} /\ MaxSlides \in Nat
  /\ Unmeasured.text \notin Texts
  /\ \A t \in Texts : Drawn[t] \in Sizes /\ Estimate[t] \in Sizes

-----------------------------------------------------------------------------
(* Rectangles.                                                             *)

Rect(x, y, size) == [x |-> x, y |-> y, w |-> size.w, h |-> size.h]
Right(r) == r.x + r.w
Bottom(r) == r.y + r.h
Least(a, b) == IF a < b THEN a ELSE b
Most(a, b) == IF a < b THEN b ELSE a

RectUnion(rects) ==
  LET left == Min({r.x : r \in rects})
      top == Min({r.y : r \in rects})
  IN  [x |-> left, y |-> top,
       w |-> Max({Right(r) : r \in rects}) - left,
       h |-> Max({Bottom(r) : r \in rects}) - top]

\* Touching edges are closer than any gap above 0.
CloserThan(a, b, gap) ==
  /\ a.x < Right(b) + gap /\ b.x < Right(a) + gap
  /\ a.y < Bottom(b) + gap /\ b.y < Bottom(a) + gap

OverlapArea(a, b) ==
  LET w == Least(Right(a), Right(b)) - Most(a.x, b.x)
      h == Least(Bottom(a), Bottom(b)) - Most(a.y, b.y)
  IN  IF w > 0 /\ h > 0 THEN w * h ELSE 0

GapBetween(a, b) ==
  Max({a.x - Right(b), b.x - Right(a), a.y - Bottom(b), b.y - Bottom(a), 0})

-----------------------------------------------------------------------------
(* The tree of a page: frames and groups hold shapes.                      *)

Children(page, id) == {c \in DOMAIN page : page[c].parent = id}

\* The shapes above id, as far up as they exist.
Above(page) ==
  LET above[id \in DOMAIN page] ==
        LET parent == page[id].parent
        IN  IF parent \in DOMAIN page THEN {parent} \cup above[parent] ELSE {}
  IN  above

\* Reachable from the page: what lost its container is nowhere.
OnPage(page) ==
  LET above == Above(page)
  IN  {id \in DOMAIN page : \E top \in above[id] \cup {id} : page[top].parent = Page}

AncestorsOf(page, id) == Above(page)[id]
DescendantsOf(page, id) == {d \in DOMAIN page : id \in Above(page)[d]}
Related(page, id) == {id} \cup AncestorsOf(page, id) \cup DescendantsOf(page, id)

\* Parent transforms composed, from the identity of the page: where a point of a
\* shape's parent is.
OffsetX(page, id) ==
  IF page[id].parent = Page THEN 0
  ELSE SumFunctionOnSet([a \in DOMAIN page |-> page[a].x], AncestorsOf(page, id))
OffsetY(page, id) ==
  IF page[id].parent = Page THEN 0
  ELSE SumFunctionOnSet([a \in DOMAIN page |-> page[a].y], AncestorsOf(page, id))

-----------------------------------------------------------------------------
(* sizeOf and computeLayout: what the server knows of each shape.          *)

\* A measurement counts while the shape has the text that was measured.
IsMeasured(shape, row) == shape.type \in {"text", "note"} /\ row.text = shape.text

\* The label of a box may need more room than the box has, by more than a pixel.
LabelMayOverflow(shape) == shape.type = "geo" /\ Estimate[shape.text].h > shape.h + 1

SizeOf(shape, row) ==
  IF IsMeasured(shape, row) THEN row.size
  ELSE CASE shape.type = "note" -> [w |-> NoteSize, h |-> NoteSize]
         [] shape.type = "text" -> [w |-> Most(Estimate[shape.text].w, shape.w),
                                    h |-> Estimate[shape.text].h]
         [] OTHER -> [w |-> shape.w, h |-> shape.h]

SourceOf(shape, row) ==
  IF IsMeasured(shape, row) THEN "measured"
  ELSE IF shape.type = "text" THEN "estimated" ELSE "declared"

\* The entry of a shape that is neither an arrow nor a group.
BoxLayout(page, rows, id) ==
  LET shape == page[id]
      row == rows[id]
  IN  [bounds |-> Rect(OffsetX(page, id) + shape.x, OffsetY(page, id) + shape.y,
                       SizeOf(shape, row)),
       source |-> SourceOf(shape, row),
       verified |-> SourceOf(shape, row) # "estimated" /\ ~LabelMayOverflow(shape),
       stale |-> /\ shape.type \in {"text", "note"}
                 /\ row # Unmeasured /\ ~IsMeasured(shape, row)]

\* A group is the union of what it contains, and as sure as the least sure of it.
GroupLayout(page, id, below) ==
  LET members == Children(page, id)
  IN  IF members = {}
        THEN [bounds |-> Rect(OffsetX(page, id) + page[id].x, OffsetY(page, id) + page[id].y,
                              [w |-> 0, h |-> 0]),
              source |-> "estimated", verified |-> FALSE, stale |-> FALSE]
        ELSE [bounds |-> RectUnion({below[m].bounds : m \in members}),
              source |-> IF \E m \in members : below[m].source = "estimated" THEN "estimated"
                         ELSE IF \E m \in members : below[m].source = "declared" THEN "declared"
                         ELSE "measured",
              verified |-> \A m \in members : below[m].verified,
              stale |-> FALSE]

\* Every shape of the page that is not an arrow: first those with a size of their
\* own, then groups, innermost first.
LayoutOf(page, rows) ==
  LET below[id \in OnPage(page)] ==
        IF page[id].type = "group"
          THEN GroupLayout(page, id, [m \in Children(page, id) |-> below[m]])
          ELSE BoxLayout(page, rows, id)
  IN  [id \in {b \in OnPage(page) : page[b].type # "arrow"} |->
         IF page[id].type = "group" THEN below[id] ELSE BoxLayout(page, rows, id)]

\* All there is at the top level, if there is anything but arrows.
TopLevel(page, layout) == {id \in DOMAIN layout : page[id].parent = Page}
Extent(page, layout) == RectUnion({layout[id].bounds : id \in TopLevel(page, layout)})

-----------------------------------------------------------------------------
(* Placement.                                                              *)

\* What moving shapes must avoid: neither what moves with them nor what holds them.
BlockersFor(page, layout, moving) ==
  {layout[id].bounds :
     id \in {b \in DOMAIN layout :
               /\ page[b].type # "group"
               /\ \A m \in moving : b \notin Related(page, m)}}

At(rect, axis, value) ==
  IF axis = "x" THEN [rect EXCEPT !.x = value] ELSE [rect EXCEPT !.y = value]

\* Up against what was hit, without the gap.
UpAgainstAll(hits, axis, gap) ==
  IF axis = "x" THEN Max({Right(hit) : hit \in hits}) ELSE Max({Bottom(hit) : hit \in hits})

\* One iteration of slideClear: past everything that was hit.
PastAll(hits, axis, gap) ==
  gap + IF axis = "x" THEN Max({Right(hit) : hit \in hits})
                      ELSE Max({Bottom(hit) : hit \in hits})

SlideClear(blockers, start, axis, gap) ==
  LET slide[n \in 0 .. MaxSlides] ==
        IF n = 0 THEN start
        ELSE LET here == slide[n - 1]
                 hits == {b \in blockers : CloserThan(here, b, gap)}
             IN  IF hits = {} THEN here ELSE At(here, axis, PastAll(hits, axis, gap))
  IN  slide[MaxSlides]

\* The nearer of the first clear places below the anchor and to its right.
FindFreeRegion(page, layout, size, anchor, direction, gap) ==
  LET blockers == BlockersFor(page, layout, {})
      below == SlideClear(blockers, Rect(anchor.x, anchor.y, size), "y", gap)
      right == SlideClear(blockers, Rect(anchor.x, anchor.y, size), "x", gap)
      isNearer == below.y - anchor.y <= right.x - anchor.x
  IN  IF direction = "below" \/ (direction = "any" /\ isNearer) THEN below ELSE right

\* Page-space deltas that take shapes to where their bounds should be.
MoveTo(rect, x, y) == [dx |-> x - rect.x, dy |-> y - rect.y]

Offset(container, item, align) ==
  CASE align = "start" -> 0
    [] align = "center" -> (container - item) \div 2
    [] align = "end" -> container - item

PlaceBelow(page, layout, id, target, align, gap) ==
  LET rect == layout[id].bounds
      beside == layout[target].bounds
      wanted == [rect EXCEPT !.x = beside.x + Offset(beside.w, rect.w, align),
                             !.y = Bottom(beside) + gap]
      cleared == SlideClear(BlockersFor(page, layout, {id}), wanted, "y", gap)
  IN  [m \in {id} |-> MoveTo(rect, cleared.x, cleared.y)]

PlaceRightOf(page, layout, id, target, align, gap) ==
  LET rect == layout[id].bounds
      beside == layout[target].bounds
      wanted == [rect EXCEPT !.x = Right(beside) + gap,
                             !.y = beside.y + Offset(beside.h, rect.h, align)]
      cleared == SlideClear(BlockersFor(page, layout, {id}), wanted, "x", gap)
  IN  [m \in {id} |-> MoveTo(rect, cleared.x, cleared.y)]

AlignMoves(layout, ids, axis) ==
  LET all == RectUnion({layout[id].bounds : id \in ids})
      delta(r) ==
        CASE axis = "left" -> MoveTo(r, all.x, r.y)
          [] axis = "right" -> MoveTo(r, Right(all) - r.w, r.y)
          [] axis = "center-x" -> MoveTo(r, all.x + (all.w - r.w) \div 2, r.y)
          [] axis = "top" -> MoveTo(r, r.x, all.y)
          [] axis = "bottom" -> MoveTo(r, r.x, Bottom(all) - r.h)
          [] axis = "center-y" -> MoveTo(r, r.x, all.y + (all.h - r.h) \div 2)
  IN  [id \in ids |-> delta(layout[id].bounds)]

\* A rectangle with its axes exchanged: what holds of columns holds of rows.
Turned(r) == [x |-> r.y, y |-> r.x, w |-> r.h, h |-> r.w]
TurnedMove(m) == [dx |-> m.dy, dy |-> m.dx]

\* The order along the axis: what starts at the same point is in the order of ids.
Precedes(rects, a, b) ==
  \/ rects[a].x < rects[b].x
  \/ rects[a].x = rects[b].x /\ rects[a].y < rects[b].y
  \/ rects[a].x = rects[b].x /\ rects[a].y = rects[b].y /\ RankOf[a] < RankOf[b]

Earlier(rects, id) == {o \in DOMAIN rects : Precedes(rects, o, id)}

\* From the first shape on, at the gap asked for, or so that the outermost stay.
SpreadOut(rects, gap) ==
  LET width == [id \in DOMAIN rects |-> rects[id].w]
      start == Min({rects[id].x : id \in DOMAIN rects})
      last == CHOOSE id \in DOMAIN rects : Earlier(rects, id) = DOMAIN rects \ {id}
      even == IF gap >= 0 THEN gap
              ELSE (Right(rects[last]) - start - SumFunction(width))
                     \div (Cardinality(DOMAIN rects) - 1)
  IN  [id \in DOMAIN rects |->
         LET before == Earlier(rects, id)
         IN  MoveTo(rects[id],
                    start + SumFunctionOnSet(width, before) + Cardinality(before) * even,
                    rects[id].y)]

NoGap == -1   \* distribute without a gap

DistributeMoves(layout, ids, direction, gap) ==
  IF direction = "horizontal"
    THEN SpreadOut([id \in ids |-> layout[id].bounds], gap)
    ELSE LET turned == SpreadOut([id \in ids |-> Turned(layout[id].bounds)], gap)
         IN  [id \in ids |-> TurnedMove(turned[id])]

\* The whole block slides down past anything it would land on.
ClearBlock(page, layout, moves, gap) ==
  LET block == RectUnion({[layout[id].bounds EXCEPT !.x = @ + moves[id].dx, !.y = @ + moves[id].dy]
                            : id \in DOMAIN moves})
      cleared == SlideClear(BlockersFor(page, layout, DOMAIN moves), block, "y", gap)
  IN  [id \in DOMAIN moves |-> [moves[id] EXCEPT !.dy = @ + cleared.y - block.y]]

\* Where a block starts: at the x and y of the request, else where its shapes do.
Origin(layout, ids, given) ==
  [RectUnion({layout[id].bounds : id \in ToSet(ids)}) EXCEPT
     !.x = IF "x" \in DOMAIN given THEN given.x ELSE @,
     !.y = IF "y" \in DOMAIN given THEN given.y ELSE @]

\* In the order given, from the origin on, at a uniform gap.
InLine(rects, origin, align, gap) ==
  LET height == Max({rects[i].h : i \in DOMAIN rects})
      stride == [j \in DOMAIN rects |-> rects[j].w + gap]
      cursor(i) == origin.x + SumFunctionOnSet(stride, 1 .. i - 1)
  IN  [i \in DOMAIN rects |->
         MoveTo(rects[i], cursor(i), origin.y + Offset(height, rects[i].h, align))]

ById(ids, moves) == [id \in ToSet(ids) |-> moves[CHOOSE i \in DOMAIN ids : ids[i] = id]]

RowMoves(layout, ids, align, given) ==
  ById(ids, InLine([i \in DOMAIN ids |-> layout[ids[i]].bounds],
                   Origin(layout, ids, given), align, given.columnGap))

StackMoves(layout, ids, align, given) ==
  LET moves == InLine([i \in DOMAIN ids |-> Turned(layout[ids[i]].bounds)],
                      Turned(Origin(layout, ids, given)), align, given.rowGap)
  IN  ById(ids, [i \in DOMAIN ids |-> TurnedMove(moves[i])])

\* Columns as wide, and rows as tall, as their largest member.
GridMoves(layout, ids, columns, given) ==
  LET rect(i) == layout[ids[i]].bounds
      column(i) == (i - 1) % columns
      row(i) == (i - 1) \div columns
      widest(c) == Max({rect(i).w : i \in {j \in DOMAIN ids : column(j) = c}} \cup {0})
      tallest(r) == Max({rect(i).h : i \in {j \in DOMAIN ids : row(j) = r}} \cup {0})
      across == [c \in 0 .. columns - 1 |-> widest(c) + given.columnGap]
      down == [r \in 0 .. Len(ids) - 1 |-> tallest(r) + given.rowGap]
      origin == Origin(layout, ids, given)
      x(c) == origin.x + SumFunctionOnSet(across, 0 .. c - 1)
      y(r) == origin.y + SumFunctionOnSet(down, 0 .. r - 1)
  IN  ById(ids, [i \in DOMAIN ids |-> MoveTo(rect(i), x(column(i)), y(row(i)))])

-----------------------------------------------------------------------------
(* Verification.                                                           *)

\* reasonFor: why the bounds of a shape are not certain.
IsUncertain(entry) == ~entry.verified \/ entry.stale \/ entry.source = "estimated"

\* The shapes a touched one is held against: not its own tree, nor groups.
Others(page, layout, id) ==
  {o \in DOMAIN layout \ Related(page, id) : page[o].type # "group"}

\* Status of the layout as written, of the worst kind found.
VerifyLayout(page, layout, touched) ==
  LET items == touched \cap DOMAIN layout
      boxes == {i \in items : page[i].type # "group"}
      overlaps == \E i \in boxes : \E o \in Others(page, layout, i) :
                    OverlapArea(layout[i].bounds, layout[o].bounds) > 1
      relevant == {o \in DOMAIN layout : \E i \in boxes :
                     /\ o \in Others(page, layout, i)
                     /\ GapBetween(layout[i].bounds, layout[o].bounds) < 2 * Gap}
  IN  IF overlaps THEN "overlaps"
      ELSE IF \E id \in items \cup relevant : IsUncertain(layout[id])
        THEN "partially_unverified"
      ELSE "verified"
=============================================================================
