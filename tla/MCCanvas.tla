------------------------------ MODULE MCCanvas ------------------------------
(* Instances of Canvas for TLC: boards with everything a rule looks at.     *)
EXTENDS Canvas

CONSTANTS a, b, c, d, e, short, long, t1, e1, e2

Size(width, height) == [w |-> width, h |-> height]

MCRankOf == (a :> 1) @@ (b :> 2) @@ (c :> 3) @@ (d :> 4) @@ (e :> 5)

MCDrawn == (short :> Size(4, 5)) @@ (long :> Size(12, 8)) @@ (NoText :> Size(0, 0))
MCEstimate == (short :> Size(8, 5)) @@ (long :> Size(8, 12)) @@ (NoText :> Size(0, 0))

MCBoxSizes == {Size(4, 4), Size(8, 12)}

Box(x, y) == Shape("geo", x, y, Size(4, 4), short)
Inside(container, shape) == [shape EXCEPT !.parent = container]

\* Two boxes with an arrow of this API from before it bound arrows, and a third.
Diagram ==
  LET boxes == (a :> Box(0, 0)) @@ (b :> Box(16, 0)) @@ (c :> Box(0, 8))
      bounds(id) == Rect(boxes[id].x, boxes[id].y, Size(4, 4))
      arrow == [Shape("arrow", 0, 0, Size(0, 0), NoText) EXCEPT
                  !.from = a, !.to = b, !.aim = <<bounds(a), bounds(b)>>]
  IN  [page |-> (d :> arrow) @@ boxes, bindings |-> {}]

\* A frame that holds a box, a text below it and a note over both.
Framed ==
  [page |-> (a :> Shape("frame", 0, 0, Size(8, 8), NoText))
            @@ (b :> Inside(a, Box(4, 4)))
            @@ (c :> Shape("text", 0, 16, Size(4, 4), long))
            @@ (d :> Shape("note", 4, 4, Size(0, 0), short)),
   bindings |-> {}]

\* A group of two boxes, and one that is apart.
Grouped ==
  [page |-> (a :> Shape("group", 0, 0, Size(0, 0), NoText))
            @@ (b :> Inside(a, Box(0, 0))) @@ (c :> Inside(a, Box(8, 8)))
            @@ (d :> Box(4, 16)),
   bindings |-> {}]

MCStartBoards == {Diagram, Framed, Grouped}

\* Nothing tells the requests in flight apart.
AlikeCallers == Permutations(Callers)

MCLists == {<<b, a>>, <<a, d>>, <<b, c, a>>, <<d, a, c>>}

\* The gaps of rows, stacks and grids, and the corner a request may give.
MCBlockOptions ==
  {[columnGap |-> 4, rowGap |-> 4], [columnGap |-> 0, rowGap |-> 8, x |-> 8]}

\* A document, which an experiment may come to rest on.
MCStartEntities ==
  {e1 :> NewEntity(e1, "evidence", "kind" :> "document" @@ "reference" :> t1)}

\* What requests give beside titles and texts.
MCFields ==
  {<<>>, "kind" :> "table" @@ "reference" :> t1,
   "kind" :> "document" @@ "reference" :> t1,
   "entityType" :> "evidence" @@ "kind" :> "table" @@ "reference" :> t1 @@ "status" :> "active",
   "relations" :> {}, "id" :> e1}
=============================================================================
