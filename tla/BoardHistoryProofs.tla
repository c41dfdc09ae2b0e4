------------------------- MODULE BoardHistoryProofs -------------------------
(***************************************************************************)
(* Theorems about BoardHistory, for every set of records, contents and     *)
(* actors and every value of the bounds.                                   *)
(*                                                                         *)
(* The argument is about links.  A list of changes links two boards when   *)
(* each change names what the first board holds and what the second holds, *)
(* and the rest of the boards agree.  Consecutive events link consecutive  *)
(* versions (Chain), the pending fragments link the newest version to the  *)
(* canvas (StagedChain, CanvasIsLast), and every checkpoint is one of the  *)
(* versions; replay is then a walk along the chain.                        *)
(*                                                                         *)
(* What a step adds is then described once for all actions (Shaped): the   *)
(* order of the events, the restores and the refinement of VersionedBoard  *)
(* are proved by the shape of a step and not by its action.                *)
(***************************************************************************)
EXTENDS BoardHistoryRefinement, SequenceTheorems, FiniteSetTheorems, TLAPS

Link(before, changes, after) ==
  /\ \A r \in DOMAIN changes :
       changes[r].before = before[r] /\ changes[r].after = after[r]
  /\ \A r \in Records \ DOMAIN changes : after[r] = before[r]

Chain(es, vs) ==
  /\ Len(vs) = Len(es)
  /\ \A i \in 2 .. Len(es) : Link(vs[i - 1].board, es[i].changes, vs[i].board)

\* The board before a pending fragment.
BoardBefore(i) ==
  IF i = 1 THEN version[Len(version)].board ELSE staged[i - 1].board

StagedChain ==
  \A i \in DOMAIN fragments :
    Link(BoardBefore(i), fragments[i].changes, staged[i].board)

CanvasIsLast ==
  /\ fragments # <<>> => docs = staged[Len(staged)].board
  /\ fragments = <<>> /\ events # <<>> => docs = version[Len(version)].board

\* The legacy import comes first, and brings the first event and checkpoint.
Imported ==
  /\ checkpoints = <<>> => events = <<>> /\ fragments = <<>>
  /\ checkpoints # <<>> => events # <<>> /\ checkpoints[1].base = 1

\* Where a handler can be: it has published what was pending, and before the
\* import there is nothing else to do.
HandlerState ==
  /\ todo # <<>> => fragments = <<>>
  /\ (open \/ todo # <<>>) /\ checkpoints = <<>> => todo = <<"legacy">>

HistoryInv ==
  /\ Chain(events, version)
  /\ StagedChain
  /\ CanvasIsLast
  /\ Imported
  /\ CheckpointsFaithful
  /\ Attribution

IInv == TypeOK /\ HistoryInv /\ HandlerState

-----------------------------------------------------------------------------
(* Least and greatest naturals: an induction in these proofs is a least     *)
(* counterexample.                                                          *)

\* A non-empty set of naturals has a least element: the initial segments below
\* its elements are finite sets, and inclusion between those is well-founded.
LEMMA LeastNatural ==
  ASSUME NEW S \in SUBSET Nat, S # {}
  PROVE  \E m \in S : \A n \in S : m <= n
<1> DEFINE below == {0 .. n : n \in S}
<1>1. below \subseteq FiniteSubsetsOf(Nat) /\ below # {}
  <2>1. \A n \in S : 0 .. n \in SUBSET Nat /\ IsFiniteSet(0 .. n)
    BY FS_Interval
  <2>. QED
    BY <2>1 DEF FiniteSubsetsOf
<1>2. PICK x \in below : \A y \in below : ~(<<y, x>> \in StrictSubsetOrdering(Nat))
  BY <1>1, FS_StrictSubsetOrderingWellFounded, WFMin
<1>3. PICK m \in S : x = 0 .. m
  OBVIOUS
<1>4. ASSUME NEW n \in S, n < m
      PROVE  FALSE
  <2>1. 0 .. n \in below /\ 0 .. n \subseteq x /\ 0 .. n # x
    BY <1>3, <1>4
  <2>. QED
    BY <1>1, <1>2, <2>1 DEF StrictSubsetOrdering, FiniteSubsetsOf
<1>. QED
  BY <1>4

\* A non-empty set of naturals with an upper bound has a greatest element.
LEMMA GreatestNatural ==
  ASSUME NEW b \in Nat, NEW S \in SUBSET (0 .. b), S # {}
  PROVE  \E m \in S : \A n \in S : m >= n
<1> DEFINE mirror == {b - n : n \in S}
<1>1. PICK x \in mirror : \A y \in mirror : x <= y
  <2>1. \A n \in S : b - n \in Nat
    OBVIOUS
  <2>2. mirror \in SUBSET Nat
    BY <2>1, Zenon
  <2>3. PICK n \in S : TRUE
    OBVIOUS
  <2>4. b - n \in mirror
    OBVIOUS
  <2>. QED
    BY <2>2, <2>4, LeastNatural
<1>2. PICK m \in S : x = b - m
  OBVIOUS
<1>3. \A n \in S : b - m <= b - n
  BY <1>1, <1>2
<1>. QED
  BY <1>3

\* Induction along an interval: what holds at its start and is handed on by every
\* step holds throughout.
LEMMA IntervalInduction ==
  ASSUME NEW lo \in Nat, NEW hi \in Nat,
         NEW Good \in SUBSET (lo .. hi),
         lo \in Good,
         \A i \in lo .. hi - 1 : i \in Good => i + 1 \in Good
  PROVE  \A i \in lo .. hi : i \in Good
<1> DEFINE Bad == (lo .. hi) \ Good
<1> SUFFICES ASSUME Bad # {}
             PROVE  FALSE
  OBVIOUS
<1>0. Bad \in SUBSET Nat
  OBVIOUS
<1>1. PICK m \in Bad : \A n \in Bad : m <= n
  BY <1>0, LeastNatural
<1>2. m # lo /\ m - 1 \in lo .. hi - 1
  BY <1>1
<1>3. m - 1 \in Good
  BY <1>1, <1>2
<1>. QED
  BY <1>1, <1>2, <1>3

-----------------------------------------------------------------------------
(* Changes.                                                                *)

\* A set of changes is a function on some of the records.
LEMMA ChangeSetsElements ==
  /\ \A changes \in ChangeSets : DOMAIN changes \subseteq Records
  /\ \A D \in SUBSET Records, before, after \in [Records -> Contents \cup {Absent}] :
       [r \in D |-> [before |-> before[r], after |-> after[r]]] \in ChangeSets
<1>1. \A changes \in ChangeSets : DOMAIN changes \subseteq Records
  BY DEF ChangeSets
<1>2. ASSUME NEW D \in SUBSET Records,
             NEW before \in [Records -> Contents \cup {Absent}],
             NEW after \in [Records -> Contents \cup {Absent}]
      PROVE  [r \in D |-> [before |-> before[r], after |-> after[r]]] \in ChangeSets
  <2> DEFINE f == [r \in D |-> [before |-> before[r], after |-> after[r]]]
             T == [before : Contents \cup {Absent}, after : Contents \cup {Absent}]
  <2>1. \A r \in D : [before |-> before[r], after |-> after[r]] \in T
    OBVIOUS
  <2>2. f \in [D -> T]
    BY <2>1
  <2>. QED
    BY <2>2 DEF ChangeSets
<1>. QED
  BY <1>1, <1>2

\* The difference of two boards is well-typed and links them.
LEMMA DiffLinks ==
  ASSUME NEW before \in Board, NEW after \in Board
  PROVE  /\ Diff(before, after) \in ChangeSets
         /\ Link(before, Diff(before, after), after)
<1>1. Diff(before, after) \in ChangeSets
  <2> DEFINE D == {x \in Records : before[x] # after[x]}
  <2>1. D \in SUBSET Records
    OBVIOUS
  <2>. QED
    BY <2>1, ChangeSetsElements DEF Diff, Board
<1>2. Link(before, Diff(before, after), after)
  BY DEF Diff, Link
<1>. QED
  BY <1>1, <1>2

\* An event without changes links a board to itself.
LEMMA NoChangesLinks ==
  /\ NoChanges \in ChangeSets
  /\ \A board \in Board : Link(board, NoChanges, board)
<1>1. NoChanges \in [{} -> [before : Contents \cup {Absent}, after : Contents \cup {Absent}]]
  BY DEF NoChanges
<1>2. NoChanges \in ChangeSets
  BY <1>1 DEF ChangeSets
<1>3. DOMAIN NoChanges = {}
  BY DEF NoChanges
<1>. QED
  BY <1>2, <1>3 DEF Link

\* What the type invariant says of the elements of the stored sequences.
LEMMA StoredElements ==
  ASSUME TypeOK
  PROVE  /\ DOMAIN version = DOMAIN events
         /\ \A i \in DOMAIN events : events[i] \in EventRecords /\ version[i] \in Writings
         /\ \A i \in DOMAIN events : version[i].board \in Board
         /\ Len(checkpoints) \in Nat /\ DOMAIN checkpoints = 1 .. Len(checkpoints)
         /\ \A c \in DOMAIN checkpoints : /\ checkpoints[c].base \in Nat
                                         /\ checkpoints[c].board \in Board
<1>1. /\ events \in Seq(EventRecords) /\ version \in Seq(Writings)
      /\ Len(version) = Len(events) /\ checkpoints \in Seq(CheckpointRecords)
  BY DEF TypeOK
<1>2. DOMAIN version = DOMAIN events
  BY <1>1, LenProperties
<1>3. \A i \in DOMAIN events : events[i] \in EventRecords /\ version[i] \in Writings
  BY <1>1, <1>2, ElementOfSeq, LenProperties
<1>4. Len(checkpoints) \in Nat /\ DOMAIN checkpoints = 1 .. Len(checkpoints)
  BY <1>1, LenProperties
<1>5. \A c \in DOMAIN checkpoints : checkpoints[c] \in CheckpointRecords
  BY <1>1, <1>4, ElementOfSeq
<1>. QED
  BY <1>2, <1>3, <1>4, <1>5 DEF Writings, CheckpointRecords

-----------------------------------------------------------------------------
(* Publishing.                                                             *)

\* The runs of fragments that a flush merges: they cover the fragments in order
\* and without gaps, and only the first of a run starts a group.
LEMMA GroupingFacts ==
  ASSUME TypeOK, NEW starts \in Groupings
  PROVE  /\ starts \in Seq(DOMAIN fragments)
         /\ Len(starts) = Cardinality(GroupStarts)
         /\ starts = <<>> <=> fragments = <<>>
         /\ \A k \in DOMAIN starts :
              /\ starts[k] \in DOMAIN fragments
              /\ GroupEnd(starts, k) \in DOMAIN fragments
              /\ starts[k] <= GroupEnd(starts, k)
              /\ \A i \in starts[k] + 1 .. GroupEnd(starts, k) : i \notin GroupStarts
         /\ starts # <<>> => /\ starts[1] = 1
                             /\ GroupEnd(starts, Len(starts)) = Len(fragments)
         /\ \A k \in 2 .. Len(starts) : starts[k] = GroupEnd(starts, k - 1) + 1
<1> DEFINE n == Cardinality(GroupStarts)
<1>1. fragments \in Seq(EventRecords) /\ DOMAIN fragments = 1 .. Len(fragments)
         /\ Len(fragments) \in Nat
  BY LenProperties DEF TypeOK
<1>2. GroupStarts \subseteq DOMAIN fragments
  BY DEF GroupStarts
<1>3. n \in Nat
  <2>1. IsFiniteSet(1 .. Len(fragments))
    BY <1>1, FS_Interval
  <2>. QED
    BY <1>1, <1>2, <2>1, FS_Subset, FS_CardinalityType
<1>4. /\ starts \in [1 .. n -> GroupStarts]
      /\ \A i, j \in DOMAIN starts : i < j => starts[i] < starts[j]
      /\ \A g \in GroupStarts : \E i \in DOMAIN starts : starts[i] = g
  BY DEF Groupings
<1>5. starts \in Seq(DOMAIN fragments) /\ Len(starts) = n /\ DOMAIN starts = 1 .. n
  BY <1>2, <1>3, <1>4
<1>6. fragments # <<>> => 1 \in GroupStarts
  BY <1>1, EmptySeq DEF GroupStarts
<1>7. starts = <<>> <=> fragments = <<>>
  <2>1. CASE fragments = <<>>
    <3>1. GroupStarts = {}
      BY <2>1, <1>1, <1>2
    <3>2. ~(1 \in 1 .. n)
      BY <3>1, <1>4
    <3>3. n = 0
      BY <3>2, <1>3
    <3>. QED
      BY <3>3, <2>1, <1>5, EmptySeq
  <2>2. CASE fragments # <<>>
    <3>1. PICK i \in DOMAIN starts : starts[i] = 1
      BY <2>2, <1>4, <1>6
    <3>. QED
      BY <3>1, <2>2, <1>5, EmptySeq
  <2>. QED
    BY <2>1, <2>2
<1>8. \A k \in DOMAIN starts : starts[k] \in DOMAIN fragments
  BY <1>2, <1>4
<1>9. \A k \in DOMAIN starts :
        /\ GroupEnd(starts, k) \in DOMAIN fragments
        /\ starts[k] <= GroupEnd(starts, k)
  BY <1>1, <1>3, <1>4, <1>5, <1>8 DEF GroupEnd
<1>10. ASSUME NEW k \in DOMAIN starts,
              NEW i \in starts[k] + 1 .. GroupEnd(starts, k), i \in GroupStarts
       PROVE  FALSE
  <2>1. PICK j \in DOMAIN starts : starts[j] = i
    BY <1>4, <1>10
  <2>2. starts[j] > starts[k] /\ starts[j] <= GroupEnd(starts, k)
    BY <2>1, <1>1, <1>8, <1>9
  <2>3. j > k
    BY <2>2, <1>1, <1>4, <1>5, <1>8
  <2>4. k < n /\ k + 1 \in DOMAIN starts /\ GroupEnd(starts, k) = starts[k + 1] - 1
    BY <2>3, <1>3, <1>5 DEF GroupEnd
  <2>5. starts[k + 1] <= starts[j]
    BY <2>3, <2>4, <1>1, <1>4, <1>5, <1>8
  <2>. QED
    BY <2>2, <2>4, <2>5, <1>1, <1>8
<1>11. ASSUME starts # <<>>
       PROVE  starts[1] = 1 /\ GroupEnd(starts, Len(starts)) = Len(fragments)
  <2>1. PICK i \in DOMAIN starts : starts[i] = 1
    BY <1>4, <1>6, <1>7, <1>11
  <2>2. 1 \in DOMAIN starts /\ starts[1] \in DOMAIN fragments
    BY <2>1, <1>3, <1>5, <1>8
  <2>3. starts[1] = 1
    BY <2>1, <2>2, <1>1, <1>4, <1>5
  <2>. QED
    BY <2>3 DEF GroupEnd
<1>12. \A k \in 2 .. Len(starts) : starts[k] = GroupEnd(starts, k - 1) + 1
  BY <1>1, <1>3, <1>5, <1>8 DEF GroupEnd
<1>. QED
  BY <1>5, <1>7, <1>8, <1>9, <1>10, <1>11, <1>12

\* The fragments of a run belong to one coalescing group: the same actor, the same
\* kind of event and the same records.
LEMMA OneGroup ==
  ASSUME TypeOK, NEW starts \in Groupings, NEW k \in DOMAIN starts,
         NEW i \in starts[k] .. GroupEnd(starts, k)
  PROVE  CoalesceGroup(fragments[i]) = CoalesceGroup(fragments[starts[k]])
<1> DEFINE lo == starts[k]
           hi == GroupEnd(starts, k)
           Good == {j \in lo .. hi :
                      CoalesceGroup(fragments[j]) = CoalesceGroup(fragments[lo])}
<1>1. DOMAIN fragments = 1 .. Len(fragments) /\ Len(fragments) \in Nat
  BY LenProperties DEF TypeOK
<1>2. /\ lo \in DOMAIN fragments /\ hi \in DOMAIN fragments /\ lo <= hi
      /\ \A j \in lo + 1 .. hi : j \notin GroupStarts
  BY GroupingFacts
<1>3. Good \in SUBSET (lo .. hi) /\ lo \in Good /\ lo \in Nat /\ hi \in Nat
  BY <1>1, <1>2
<1>4. ASSUME NEW j \in lo .. hi - 1, j \in Good
      PROVE  j + 1 \in Good
  <2>1. j + 1 \in lo + 1 .. hi /\ j + 1 \in DOMAIN fragments /\ j + 1 > 1 /\ (j + 1) - 1 = j
    BY <1>1, <1>2
  <2>2. CoalesceGroup(fragments[j + 1]) = CoalesceGroup(fragments[j])
    BY <1>2, <2>1 DEF GroupStarts
  <2>3. j + 1 \in lo .. hi
    BY <1>2, <1>1
  <2>4. CoalesceGroup(fragments[j]) = CoalesceGroup(fragments[lo])
    BY <1>4
  <2>. QED
    BY <2>2, <2>3, <2>4
<1>5. \A j \in lo .. hi : j \in Good
  <2> HIDE DEF Good, lo, hi
  <2>. QED
    BY <1>3, <1>4, IntervalInduction
<1>. QED
  BY <1>5

\* Merging a run of fragments keeps what the run did: the merged changes link the
\* board before its first fragment to the board after its last.
LEMMA MergedLink ==
  ASSUME TypeOK, StagedChain, NEW starts \in Groupings, NEW k \in DOMAIN starts
  PROVE  Link(BoardBefore(starts[k]),
              MergeChanges(fragments[starts[k]].changes,
                           fragments[GroupEnd(starts, k)].changes),
              staged[GroupEnd(starts, k)].board)
<1> DEFINE lo == starts[k]
           hi == GroupEnd(starts, k)
           D == DOMAIN fragments[lo].changes
           before == BoardBefore(lo)
<1>1. DOMAIN fragments = 1 .. Len(fragments) /\ Len(fragments) \in Nat
  BY LenProperties DEF TypeOK
<1>2. lo \in DOMAIN fragments /\ hi \in DOMAIN fragments /\ lo <= hi
  BY GroupingFacts
<1>3. \A i \in lo .. hi : i \in DOMAIN fragments /\ DOMAIN fragments[i].changes = D
  <2>1. ASSUME NEW i \in lo .. hi
        PROVE  DOMAIN fragments[i].changes = D
    <3>1. CoalesceGroup(fragments[i]) = CoalesceGroup(fragments[lo])
      BY OneGroup
    <3>. QED
      BY <3>1 DEF CoalesceGroup
  <2>. QED
    BY <2>1, <1>1, <1>2
<1>4. \A i \in lo .. hi : Link(BoardBefore(i), fragments[i].changes, staged[i].board)
  BY <1>3 DEF StagedChain
<1>5. ASSUME NEW r \in Records \ D
      PROVE  staged[hi].board[r] = before[r]
  <2> DEFINE Good == {i \in lo .. hi : staged[i].board[r] = before[r]}
  <2>1. lo \in Good /\ lo \in Nat /\ hi \in Nat /\ Good \in SUBSET (lo .. hi)
    BY <1>1, <1>2, <1>3, <1>4 DEF Link
  <2>2. ASSUME NEW i \in lo .. hi - 1, i \in Good
        PROVE  i + 1 \in Good
    <3>1. i + 1 \in lo .. hi /\ i + 1 # 1 /\ (i + 1) - 1 = i
      BY <1>1, <1>2
    <3>2. Link(BoardBefore(i + 1), fragments[i + 1].changes, staged[i + 1].board)
             /\ DOMAIN fragments[i + 1].changes = D
      BY <3>1, <1>3, <1>4
    <3>3. BoardBefore(i + 1) = staged[i].board
      BY <3>1 DEF BoardBefore
    <3>4. staged[i].board[r] = before[r]
      BY <2>2
    <3>5. staged[i + 1].board[r] = before[r]
      BY <3>2, <3>3, <3>4 DEF Link
    <3>. QED
      BY <3>1, <3>5
  <2>3. \A i \in lo .. hi : i \in Good
    <3> HIDE DEF Good, lo, hi
    <3>. QED
      BY <2>1, <2>2, IntervalInduction
  <2>4. hi \in lo .. hi
    BY <1>1, <1>2
  <2>. QED
    BY <2>3, <2>4
<1>6. \A r \in D : /\ fragments[lo].changes[r].before = before[r]
                   /\ fragments[hi].changes[r].after = staged[hi].board[r]
  <2>1. lo \in lo .. hi /\ hi \in lo .. hi
    BY <1>1, <1>2
  <2>. QED
    BY <2>1, <1>3, <1>4 DEF Link
<1>7. Link(before, MergeChanges(fragments[lo].changes, fragments[hi].changes),
           staged[hi].board)
  <2> HIDE DEF before, lo, hi
  <2>. QED
    BY <1>5, <1>6 DEF Link, MergeChanges
<1>. QED
  BY <1>7

-----------------------------------------------------------------------------
(* Histories.                                                              *)

\* A well-formed history, and one that keeps everything the present one says.
History(es, vs) ==
  /\ es \in Seq(EventRecords)
  /\ vs \in Seq(Writings)
  /\ Chain(es, vs)
  /\ \A i \in DOMAIN es : es[i].actor = vs[i].by

Keeps(es, vs) ==
  /\ Len(es) >= Len(events)
  /\ \A i \in DOMAIN events : es[i] = events[i] /\ vs[i] = version[i]

Ends(es, vs, board) == es # <<>> => vs[Len(es)].board = board

\* A sequence with one more element.
Longer(s, x) == s \o <<x>>

\* The elements of a sequence with one more element.
LEMMA LongerElements ==
  ASSUME NEW S, NEW s \in Seq(S), NEW x \in S
  PROVE  /\ Longer(s, x) \in Seq(S)
         /\ Len(Longer(s, x)) = Len(s) + 1
         /\ DOMAIN Longer(s, x) = 1 .. Len(s) + 1
         /\ Longer(s, x)[Len(s) + 1] = x
         /\ \A i \in DOMAIN s : Longer(s, x)[i] = s[i]
<1>1. Longer(s, x) \in Seq(S) /\ Len(Longer(s, x)) = Len(s) + 1
  BY DEF Longer
<1>2. Len(s) \in Nat /\ DOMAIN s = 1 .. Len(s)
  BY LenProperties
<1>3. DOMAIN Longer(s, x) = 1 .. Len(s) + 1
  BY <1>1, LenProperties
<1>4. Longer(s, x)[Len(s) + 1] = x
  BY <1>2 DEF Longer
<1>5. \A i \in DOMAIN s : Longer(s, x)[i] = s[i]
  BY <1>2 DEF Longer
<1>. QED
  BY <1>1, <1>3, <1>4, <1>5

\* Two more elements are one more and one more.
LEMMA LongerByTwo ==
  ASSUME NEW S, NEW s \in Seq(S), NEW x \in S, NEW y \in S
  PROVE  s \o <<x, y>> = Longer(Longer(s, x), y)
<1>1. Len(s) \in Nat
  OBVIOUS
<1>2. <<x, y>> \in Seq(S) /\ Len(<<x, y>>) = 2
  OBVIOUS
<1>3. s \o <<x, y>> \in Seq(S) /\ Len(s \o <<x, y>>) = Len(s) + 2
  BY <1>2, ConcatProperties
<1>4. s \o <<x>> \in Seq(S) /\ Len(s \o <<x>>) = Len(s) + 1
  BY ConcatProperties
<1>5. (s \o <<x>>) \o <<y>> \in Seq(S) /\ Len((s \o <<x>>) \o <<y>>) = Len(s) + 2
  BY <1>4, ConcatProperties
<1>6. \A i \in 1 .. Len(s) + 2 : (s \o <<x, y>>)[i] = ((s \o <<x>>) \o <<y>>)[i]
  BY <1>1, <1>4
<1>. QED
  BY <1>3, <1>5, <1>6, SeqEqual DEF Longer

\* One more event, linked from the last version, makes a longer history.
LEMMA ExtendHistory ==
  ASSUME NEW es \in Seq(EventRecords), NEW vs \in Seq(Writings), History(es, vs),
         NEW e \in EventRecords, NEW v \in Writings, e.actor = v.by,
         es # <<>> => Link(vs[Len(es)].board, e.changes, v.board)
  PROVE  /\ History(Longer(es, e), Longer(vs, v))
         /\ Ends(Longer(es, e), Longer(vs, v), v.board)
         /\ Len(Longer(es, e)) = Len(es) + 1
         /\ Longer(es, e)[Len(es) + 1] = e /\ Longer(vs, v)[Len(es) + 1] = v
         /\ \A i \in DOMAIN es : /\ Longer(es, e)[i] = es[i]
                                /\ Longer(vs, v)[i] = vs[i]
<1> DEFINE ee == Longer(es, e)
           vv == Longer(vs, v)
<1>1. /\ es \in Seq(EventRecords) /\ vs \in Seq(Writings) /\ Len(vs) = Len(es)
      /\ Len(es) \in Nat /\ DOMAIN es = 1 .. Len(es) /\ DOMAIN vs = DOMAIN es
  BY LenProperties DEF History, Chain
<1>2. ee \in Seq(EventRecords) /\ vv \in Seq(Writings)
  BY <1>1, LongerElements
<1>3. Len(ee) = Len(es) + 1 /\ Len(vv) = Len(es) + 1
  BY <1>1, LongerElements
<1>4. ee[Len(es) + 1] = e /\ vv[Len(es) + 1] = v
  <2>1. ee[Len(es) + 1] = e
    BY LongerElements
  <2>2. vv[Len(vs) + 1] = v
    BY LongerElements
  <2>. QED
    BY <2>1, <2>2, <1>1
<1>5. \A i \in DOMAIN es : ee[i] = es[i] /\ vv[i] = vs[i]
  <2>1. \A i \in DOMAIN es : ee[i] = es[i]
    BY LongerElements
  <2>2. \A i \in DOMAIN vs : vv[i] = vs[i]
    BY LongerElements
  <2>. QED
    BY <2>1, <2>2, <1>1
<1>6. DOMAIN ee = 1 .. Len(es) + 1
  BY <1>1, LongerElements
<1>7. Chain(ee, vv)
  <2> SUFFICES ASSUME NEW i \in 2 .. Len(ee)
               PROVE  Link(vv[i - 1].board, ee[i].changes, vv[i].board)
    BY <1>3 DEF Chain
  <2>1. CASE i = Len(es) + 1
    <3>1. es # <<>> /\ i - 1 = Len(es) /\ i - 1 \in DOMAIN es
      BY <2>1, <1>1, EmptySeq
    <3>2. vv[i - 1] = vs[Len(es)] /\ ee[i] = e /\ vv[i] = v
      BY <3>1, <2>1, <1>4, <1>5
    <3>. QED
      BY <3>1, <3>2
  <2>2. CASE i # Len(es) + 1
    <3>1. i \in 2 .. Len(es) /\ i \in DOMAIN es /\ i - 1 \in DOMAIN es
      BY <2>2, <1>1, <1>3
    <3>2. Link(vs[i - 1].board, es[i].changes, vs[i].board)
      BY <3>1 DEF History, Chain
    <3>. QED
      BY <3>1, <3>2, <1>5
  <2>. QED
    BY <2>1, <2>2
<1>8. ASSUME NEW i \in DOMAIN ee
      PROVE  ee[i].actor = vv[i].by
  <2>1. CASE i \in DOMAIN es
    BY <2>1, <1>5 DEF History
  <2>2. CASE i \notin DOMAIN es
    <3>1. i = Len(es) + 1
      BY <2>2, <1>1, <1>6
    <3>. QED
      BY <3>1, <1>4
  <2>. QED
    BY <2>1, <2>2
<1>. QED
  BY <1>2, <1>3, <1>4, <1>5, <1>7, <1>8 DEF History, Ends

\* The fields of a merged event that the proofs use.
LEMMA MergedEventFields ==
  \A first, last :
    /\ MergedEvent(first, last).actor = first.actor
    /\ MergedEvent(first, last).changes = MergeChanges(first.changes, last.changes)
BY DEF MergedEvent, Event

\* A flush publishes a history that keeps the present one and ends at the canvas.
LEMMA PublishedHistory ==
  ASSUME TypeOK, HistoryInv, NEW starts \in Groupings
  PROVE  LET es == events \o PublishedEvents(starts)
             vs == version \o PublishedVersions(starts)
         IN  /\ History(es, vs)
             /\ Keeps(es, vs)
             /\ Ends(es, vs, docs)
             /\ Len(es) = Len(events) + Len(starts)
<1> DEFINE pe == PublishedEvents(starts)
           pv == PublishedVersions(starts)
           es == events \o pe
           vs == version \o pv
<1>1. /\ events \in Seq(EventRecords) /\ Len(events) \in Nat /\ DOMAIN events = 1 .. Len(events)
      /\ version \in Seq(Writings) /\ Len(version) = Len(events)
      /\ fragments \in Seq(EventRecords) /\ Len(fragments) \in Nat
      /\ DOMAIN fragments = 1 .. Len(fragments)
      /\ staged \in Seq(Writings) /\ Len(staged) = Len(fragments)
  BY LenProperties DEF TypeOK
<1>2. /\ starts \in Seq(DOMAIN fragments) /\ Len(starts) \in Nat
      /\ DOMAIN starts = 1 .. Len(starts)
      /\ \A k \in DOMAIN starts : /\ starts[k] \in DOMAIN fragments
                                  /\ GroupEnd(starts, k) \in DOMAIN fragments
                                  /\ starts[k] <= GroupEnd(starts, k)
  BY GroupingFacts, LenProperties
<1>3. ASSUME NEW k \in DOMAIN starts
      PROVE  /\ MergedEvent(fragments[starts[k]], fragments[GroupEnd(starts, k)]) \in EventRecords
             /\ staged[GroupEnd(starts, k)] \in Writings
             /\ fragments[starts[k]].actor = staged[GroupEnd(starts, k)].by
  <2> DEFINE f == fragments[starts[k]]
             l == fragments[GroupEnd(starts, k)]
  <2>1. f \in EventRecords /\ l \in EventRecords /\ staged[GroupEnd(starts, k)] \in Writings
    BY <1>1, <1>2
  <2>2. CoalesceGroup(l) = CoalesceGroup(f)
    <3>1. GroupEnd(starts, k) \in starts[k] .. GroupEnd(starts, k)
      BY <1>1, <1>2
    <3>. QED
      BY <3>1, OneGroup
  <2>3. f.actor = l.actor /\ DOMAIN f.changes = DOMAIN l.changes
    BY <2>2 DEF CoalesceGroup
  <2>4. l.actor = staged[GroupEnd(starts, k)].by
    BY <1>2 DEF HistoryInv, Attribution
  <2>5. MergeChanges(f.changes, l.changes) \in ChangeSets
    <3> DEFINE cf == f.changes
               cl == l.changes
               T == [before : Contents \cup {Absent}, after : Contents \cup {Absent}]
    <3>1. cf \in ChangeSets /\ cl \in ChangeSets /\ DOMAIN cf = DOMAIN cl
      BY <2>1, <2>3 DEF EventRecords
    <3>2. DOMAIN cf \subseteq Records
      BY <3>1, ChangeSetsElements
    <3>3. \A r \in DOMAIN cf : cf[r] \in T /\ cl[r] \in T
      BY <3>1 DEF ChangeSets
    <3> HIDE DEF cf, cl
    <3> DEFINE D == {x \in DOMAIN cf : cf[x].before # cl[x].after}
    <3>4. MergeChanges(cf, cl) \in [D -> T]
      BY <3>3 DEF MergeChanges
    <3>5. D \in SUBSET Records
      BY <3>2
    <3>6. MergeChanges(cf, cl) \in ChangeSets
      BY <3>4, <3>5 DEF ChangeSets
    <3>. QED
      BY <3>6 DEF cf, cl
  <2>6. MergedEvent(f, l) \in EventRecords
    BY <2>1, <2>5 DEF MergedEvent, Event, EventRecords
  <2>. QED
    BY <2>1, <2>3, <2>4, <2>6
<1>4. /\ pe \in Seq(EventRecords) /\ pv \in Seq(Writings)
      /\ Len(pe) = Len(starts) /\ Len(pv) = Len(starts)
      /\ \A k \in DOMAIN starts :
           /\ pe[k] = MergedEvent(fragments[starts[k]], fragments[GroupEnd(starts, k)])
           /\ pv[k] = staged[GroupEnd(starts, k)]
  BY <1>2, <1>3 DEF PublishedEvents, PublishedVersions
<1> HIDE DEF pe, pv
<1>5. /\ es \in Seq(EventRecords) /\ vs \in Seq(Writings)
      /\ Len(es) = Len(events) + Len(starts) /\ Len(vs) = Len(es)
      /\ DOMAIN es = 1 .. Len(events) + Len(starts)
      /\ \A i \in DOMAIN events : es[i] = events[i] /\ vs[i] = version[i]
      /\ \A k \in DOMAIN starts : /\ es[Len(events) + k] = pe[k]
                                  /\ vs[Len(events) + k] = pv[k]
  <2>1. /\ es \in Seq(EventRecords) /\ vs \in Seq(Writings)
        /\ Len(es) = Len(events) + Len(starts) /\ Len(vs) = Len(es)
    <3>1. es \in Seq(EventRecords) /\ Len(es) = Len(events) + Len(pe)
      BY <1>1, <1>4, ConcatProperties
    <3>2. vs \in Seq(Writings) /\ Len(vs) = Len(version) + Len(pv)
      BY <1>1, <1>4, ConcatProperties
    <3>. QED
      BY <3>1, <3>2, <1>1, <1>4
  <2>2. DOMAIN es = 1 .. Len(events) + Len(starts)
    BY <2>1, LenProperties
  <2>3. \A i \in DOMAIN events : es[i] = events[i] /\ vs[i] = version[i]
    BY <1>1, <1>2, <1>4
  <2>4. \A k \in DOMAIN starts : /\ es[Len(events) + k] = pe[k]
                                /\ vs[Len(events) + k] = pv[k]
    BY <1>1, <1>2, <1>4
  <2>. QED
    BY <2>1, <2>2, <2>3, <2>4
<1> HIDE DEF es, vs
<1>6. \A i \in DOMAIN es : es[i].actor = vs[i].by
  <2> SUFFICES ASSUME NEW i \in DOMAIN es
               PROVE  es[i].actor = vs[i].by
    OBVIOUS
  <2>1. CASE i \in DOMAIN events
    BY <2>1, <1>5 DEF HistoryInv, Attribution
  <2>2. CASE i \notin DOMAIN events
    <3>1. PICK k \in DOMAIN starts : i = Len(events) + k
      <4>1. i - Len(events) \in DOMAIN starts /\ i = Len(events) + (i - Len(events))
        BY <2>2, <1>1, <1>2, <1>5
      <4>. QED
        BY <4>1
    <3>2. es[i] = pe[k] /\ vs[i] = pv[k]
      BY <3>1, <1>5
    <3>3. pe[k].actor = fragments[starts[k]].actor
      BY <1>4, MergedEventFields
    <3>4. pv[k] = staged[GroupEnd(starts, k)]
      BY <1>4
    <3>. QED
      BY <3>2, <3>3, <3>4, <1>3
  <2>. QED
    BY <2>1, <2>2
<1>7. ASSUME NEW k \in DOMAIN starts
      PROVE  /\ events # <<>>
             /\ vs[Len(events) + k - 1].board = BoardBefore(starts[k])
             /\ Link(vs[Len(events) + k - 1].board, es[Len(events) + k].changes,
                     vs[Len(events) + k].board)
  <2>1. fragments # <<>>
    BY <1>1, <1>2, EmptySeq
  <2>2. events # <<>> /\ Len(events) > 0
    BY <2>1, <1>1, EmptySeq DEF HistoryInv, Imported
  <2>5. Link(BoardBefore(starts[k]), es[Len(events) + k].changes, vs[Len(events) + k].board)
    <3>1. es[Len(events) + k] = pe[k] /\ vs[Len(events) + k] = pv[k]
      BY <1>5
    <3>2. /\ pe[k].changes = MergeChanges(fragments[starts[k]].changes,
                                          fragments[GroupEnd(starts, k)].changes)
          /\ pv[k].board = staged[GroupEnd(starts, k)].board
      BY <1>4, MergedEventFields
    <3>. QED
      BY <3>1, <3>2, MergedLink DEF HistoryInv
  <2>3. CASE k = 1
    <3>1. starts[k] = 1
      BY <2>3, <1>1, <1>2, GroupingFacts, EmptySeq
    <3>2. vs[Len(events) + k - 1] = version[Len(version)]
      BY <2>2, <2>3, <1>1, <1>5
    <3>. QED
      BY <2>2, <2>5, <3>1, <3>2 DEF BoardBefore
  <2>4. CASE k # 1
    <3>1. k - 1 \in DOMAIN starts /\ k \in 2 .. Len(starts)
      BY <2>4, <1>2
    <3>2. starts[k] = GroupEnd(starts, k - 1) + 1 /\ starts[k] # 1
            /\ starts[k] - 1 = GroupEnd(starts, k - 1)
      <4>1. starts[k] = GroupEnd(starts, k - 1) + 1
        BY <3>1, GroupingFacts
      <4>2. GroupEnd(starts, k - 1) \in 1 .. Len(fragments)
        BY <3>1, <1>1, <1>2
      <4>. QED
        BY <4>1, <4>2, <1>1
    <3>3. Len(events) + k - 1 = Len(events) + (k - 1)
      BY <1>1, <1>2
    <3>4. vs[Len(events) + k - 1] = staged[starts[k] - 1]
      BY <3>1, <3>2, <3>3, <1>4, <1>5
    <3>5. vs[Len(events) + k - 1].board = BoardBefore(starts[k])
      BY <3>2, <3>4 DEF BoardBefore
    <3>. QED
      BY <2>2, <2>5, <3>5
  <2>. QED
    BY <2>3, <2>4
<1>8. Chain(es, vs)
  <2> SUFFICES ASSUME NEW i \in 2 .. Len(es)
               PROVE  Link(vs[i - 1].board, es[i].changes, vs[i].board)
    BY <1>5 DEF Chain
  <2>1. CASE i \in DOMAIN events
    <3>1. i \in 2 .. Len(events) /\ i - 1 \in DOMAIN events
      BY <2>1, <1>1
    <3>2. Link(version[i - 1].board, events[i].changes, version[i].board)
      BY <3>1 DEF HistoryInv, Chain
    <3>. QED
      BY <2>1, <3>1, <3>2, <1>5
  <2>2. CASE i \notin DOMAIN events
    <3>1. PICK k \in DOMAIN starts : i = Len(events) + k
      <4>1. i - Len(events) \in DOMAIN starts /\ i = Len(events) + (i - Len(events))
        BY <2>2, <1>1, <1>2, <1>5
      <4>. QED
        BY <4>1
    <3>2. i - 1 = Len(events) + k - 1
      BY <3>1, <1>1, <1>2
    <3>. QED
      BY <3>1, <3>2, <1>7
  <2>. QED
    BY <2>1, <2>2
<1>9. Ends(es, vs, docs)
  <2>1. CASE starts = <<>>
    <3>1. fragments = <<>> /\ Len(starts) = 0
      BY <2>1, GroupingFacts
    <3>2. es # <<>> => events # <<>> /\ Len(events) \in DOMAIN events
      BY <3>1, <1>1, <1>5, EmptySeq
    <3>. QED
      BY <3>1, <3>2, <1>1, <1>5 DEF Ends, HistoryInv, CanvasIsLast
  <2>2. CASE starts # <<>>
    <3>1. /\ GroupEnd(starts, Len(starts)) = Len(fragments)
          /\ Len(starts) \in DOMAIN starts /\ fragments # <<>>
      BY <2>2, <1>2, GroupingFacts, EmptySeq
    <3>2. vs[Len(es)] = pv[Len(starts)]
      BY <3>1, <1>5
    <3>3. pv[Len(starts)] = staged[Len(fragments)]
      BY <3>1, <1>4
    <3>4. Len(fragments) = Len(staged)
      BY <1>1, LenProperties
    <3>. QED
      BY <3>1, <3>2, <3>3, <3>4 DEF Ends, HistoryInv, CanvasIsLast
  <2>. QED
    BY <2>1, <2>2
<1>10. History(es, vs) /\ Keeps(es, vs)
  BY <1>1, <1>2, <1>5, <1>6, <1>8 DEF History, Keeps
<1>. QED
  BY <1>5, <1>9, <1>10 DEF es, vs, pe, pv

-----------------------------------------------------------------------------
(* Replay.                                                                 *)

\* A record no event of an interval touches is the same at both ends.
LEMMA Untouched ==
  ASSUME TypeOK, Chain(events, version),
         NEW lo \in DOMAIN events, NEW hi \in DOMAIN events, lo <= hi,
         NEW r \in Records,
         Touching(r, lo, hi) = {}
  PROVE  version[hi].board[r] = version[lo].board[r]
<1> DEFINE Good == {i \in lo .. hi : version[i].board[r] = version[lo].board[r]}
<1>1. DOMAIN events = 1 .. Len(events) /\ Len(events) \in Nat
  BY LenProperties DEF TypeOK
<1>2. lo \in Nat /\ hi \in Nat /\ Good \in SUBSET (lo .. hi) /\ lo \in Good
  BY <1>1
<1>3. ASSUME NEW i \in lo .. hi - 1, i \in Good
      PROVE  i + 1 \in Good
  <2>1. i + 1 \in lo + 1 .. hi /\ i + 1 \in 2 .. Len(events) /\ (i + 1) - 1 = i
          /\ i + 1 \in lo .. hi
    BY <1>1
  <2>2. Link(version[i].board, events[i + 1].changes, version[i + 1].board)
    BY <2>1 DEF Chain
  <2>3. r \notin DOMAIN events[i + 1].changes
    BY <2>1 DEF Touching
  <2>4. version[i].board[r] = version[lo].board[r]
    BY <1>3
  <2>5. version[i + 1].board[r] = version[i].board[r]
    BY <2>2, <2>3 DEF Link
  <2>. QED
    BY <2>1, <2>4, <2>5
<1>4. \A i \in lo .. hi : i \in Good
  <2> HIDE DEF Good
  <2>. QED
    BY <1>2, <1>3, IntervalInduction
<1>. QED
  BY <1>1, <1>4

\* The last event that touches a record.
LEMMA LastTouch ==
  ASSUME NEW lo \in Nat, NEW hi \in Nat, NEW r, Touching(r, lo, hi) # {}
  PROVE  LET i == CHOOSE x \in Touching(r, lo, hi) : \A y \in Touching(r, lo, hi) : x >= y
         IN  /\ i \in Touching(r, lo, hi)
             /\ \A y \in Touching(r, lo, hi) : i >= y
<1> DEFINE S == Touching(r, lo, hi)
<1>1. S \in SUBSET (0 .. hi)
  BY DEF Touching
<1>2. \E x \in S : \A y \in S : x >= y
  <2> HIDE DEF S
  <2>. QED
    BY <1>1, GreatestNatural DEF S
<1>. QED
  BY <1>2

\* Replaying the events after one version gives the later one, and meets no
\* record that is not what an event replaced.
LEMMA Replay ==
  ASSUME TypeOK, Chain(events, version),
         NEW lo \in DOMAIN events, NEW hi \in DOMAIN events, lo <= hi
  PROVE  ApplyHistoryEvents(version[lo].board, lo, hi) = version[hi].board
<1>1. /\ DOMAIN events = 1 .. Len(events) /\ Len(events) \in Nat
      /\ lo \in Nat /\ hi \in Nat
  BY LenProperties DEF TypeOK
<1>2. version[hi].board \in [Records -> Contents \cup {Absent}]
  BY StoredElements DEF Board
<1>3. ASSUME NEW r \in Records
      PROVE  ApplyHistoryEvents(version[lo].board, lo, hi)[r] = version[hi].board[r]
  <2>1. CASE Touching(r, lo, hi) = {}
    BY <2>1, Untouched DEF ApplyHistoryEvents
  <2>2. CASE Touching(r, lo, hi) # {}
    <3> DEFINE i == CHOOSE x \in Touching(r, lo, hi) : \A y \in Touching(r, lo, hi) : x >= y
    <3>1. i \in Touching(r, lo, hi) /\ \A y \in Touching(r, lo, hi) : i >= y
      BY <2>2, <1>1, LastTouch
    <3>2. ApplyHistoryEvents(version[lo].board, lo, hi)[r] = events[i].changes[r].after
      BY <2>2 DEF ApplyHistoryEvents
    <3> HIDE DEF i
    <3>3. i \in lo + 1 .. hi /\ r \in DOMAIN events[i].changes
      BY <3>1 DEF Touching
    <3>4. i \in 2 .. Len(events) /\ i \in DOMAIN events /\ i <= hi
      BY <3>3, <1>1
    <3>5. events[i].changes[r].after = version[i].board[r]
      BY <3>3, <3>4 DEF Chain, Link
    <3>6. Touching(r, i, hi) = {}
      <4> SUFFICES ASSUME NEW y \in Touching(r, i, hi)
                   PROVE  FALSE
        OBVIOUS
      <4>1. y \in i + 1 .. hi /\ r \in DOMAIN events[y].changes
        BY DEF Touching
      <4>2. y \in lo + 1 .. hi /\ y > i
        BY <4>1, <3>3, <1>1
      <4>3. y \in Touching(r, lo, hi)
        BY <4>1, <4>2 DEF Touching
      <4>. QED
        BY <4>2, <4>3, <3>1, <3>3, <1>1
    <3>7. version[hi].board[r] = version[i].board[r]
      BY <3>4, <3>6, Untouched
    <3>. QED
      BY <3>2, <3>5, <3>7
  <2>. QED
    BY <2>1, <2>2
<1>. QED
  BY <1>2, <1>3 DEF ApplyHistoryEvents

\* The same replay meets no record that is not what an event replaced.
LEMMA NoDivergence ==
  ASSUME TypeOK, Chain(events, version),
         NEW lo \in DOMAIN events, NEW hi \in DOMAIN events, lo <= hi
  PROVE  ~Diverges(version[lo].board, lo, hi)
<1>1. DOMAIN events = 1 .. Len(events) /\ Len(events) \in Nat /\ events \in Seq(EventRecords)
  BY LenProperties DEF TypeOK
<1> SUFFICES ASSUME NEW i \in lo + 1 .. hi, NEW r \in DOMAIN events[i].changes
             PROVE  ApplyHistoryEvents(version[lo].board, lo, i - 1)[r]
                      = events[i].changes[r].before
  BY DEF Diverges
<1>2. i \in 2 .. Len(events) /\ i - 1 \in DOMAIN events /\ lo <= i - 1
  BY <1>1
<1>3. ApplyHistoryEvents(version[lo].board, lo, i - 1) = version[i - 1].board
  BY <1>2, Replay
<1>4. Link(version[i - 1].board, events[i].changes, version[i].board)
  BY <1>2 DEF Chain
<1>. QED
  BY <1>3, <1>4 DEF Link

\* The checkpoint the query picks is one of the candidates.
LEMMA BaseCheckpointFacts ==
  ASSUME TypeOK, NEW target \in Nat, Candidates(target) # {}
  PROVE  BaseCheckpoint(target) \in Candidates(target)
<1> DEFINE C == Candidates(target)
           bases == {checkpoints[d].base : d \in C}
<1>1. /\ DOMAIN checkpoints = 1 .. Len(checkpoints) /\ Len(checkpoints) \in Nat
      /\ \A d \in DOMAIN checkpoints : checkpoints[d].base \in Nat
  BY StoredElements
<1>0. \A d \in C : d \in DOMAIN checkpoints /\ checkpoints[d].base \in 0 .. target
  BY <1>1 DEF Candidates
<1>2. bases \in SUBSET (0 .. target) /\ bases # {}
  BY <1>0
<1>3. PICK m \in bases : \A n \in bases : m >= n
  <2> HIDE DEF bases
  <2>. QED
    BY <1>2, GreatestNatural
<1> DEFINE tops == {d \in C : checkpoints[d].base = m}
<1>4. tops \in SUBSET (0 .. Len(checkpoints)) /\ tops # {}
  BY <1>1, <1>3 DEF Candidates
<1>5. PICK c \in tops : \A d \in tops : c >= d
  <2> HIDE DEF tops
  <2>. QED
    BY <1>1, <1>4, GreatestNatural
<1>6. c \in C /\ \A d \in C : \/ checkpoints[d].base < checkpoints[c].base
                              \/ checkpoints[d].base = checkpoints[c].base /\ d <= c
  <2> SUFFICES ASSUME NEW d \in C, checkpoints[d].base # m
               PROVE  checkpoints[d].base < m
    BY <1>5, <1>1 DEF Candidates
  <2>1. checkpoints[d].base \in bases /\ checkpoints[d].base \in Nat /\ m \in Nat
    BY <1>0, <1>2
  <2> HIDE DEF bases
  <2>. QED
    BY <2>1, <1>3
<1>. QED
  BY <1>6 DEF BaseCheckpoint

\* Every version is reconstructed, from whichever checkpoint the query picks.
LEMMA ReplayOfHistory ==
  ASSUME TypeOK, HistoryInv
  PROVE  ReplayExact
<1> SUFFICES ASSUME NEW target \in DOMAIN events
             PROVE  /\ Reconstructable(target)
                    /\ Reconstruct(target) = version[target].board
  BY DEF ReplayExact
<1>1. /\ DOMAIN events = 1 .. Len(events) /\ Len(events) \in Nat /\ target \in Nat
      /\ DOMAIN checkpoints = 1 .. Len(checkpoints) /\ Len(checkpoints) \in Nat
  BY LenProperties DEF TypeOK
<1>2. checkpoints # <<>> /\ checkpoints[1].base = 1
  BY <1>1, EmptySeq DEF HistoryInv, Imported
<1>3. 1 \in Candidates(target)
  BY <1>1, <1>2, EmptySeq DEF Candidates
<1> DEFINE b == BaseCheckpoint(target)
<1>4. b \in DOMAIN checkpoints /\ checkpoints[b].base <= target
  BY <1>1, <1>3, BaseCheckpointFacts DEF Candidates
<1>5. /\ checkpoints[b].base \in DOMAIN events
      /\ checkpoints[b].board = version[checkpoints[b].base].board
  BY <1>4 DEF HistoryInv, CheckpointsFaithful
<1>6. Chain(events, version)
  BY DEF HistoryInv
<1>7. /\ ApplyHistoryEvents(checkpoints[b].board, checkpoints[b].base, target)
           = version[target].board
      /\ ~Diverges(checkpoints[b].board, checkpoints[b].base, target)
  BY <1>4, <1>5, <1>6, Replay, NoDivergence
<1>. QED
  BY <1>3, <1>7 DEF Reconstructable, Reconstruct

-----------------------------------------------------------------------------
(* Steps.                                                                  *)

\* A flush alone, a flush followed by one event, and by two: the next history
\* keeps the present one and ends with the last event's board.
LEMMA FlushAlone ==
  ASSUME TypeOK, HistoryInv, NEW starts \in Groupings,
         FlushFragments(starts, <<>>, <<>>)
  PROVE  /\ History(events', version') /\ Keeps(events', version')
         /\ Ends(events', version', docs)
         /\ Len(events') = Len(events) + Len(starts)
         /\ fragments' = <<>> /\ staged' = <<>>
<1> DEFINE es == events \o PublishedEvents(starts)
           vs == version \o PublishedVersions(starts)
<1>1. /\ History(es, vs) /\ Keeps(es, vs) /\ Ends(es, vs, docs)
      /\ Len(es) = Len(events) + Len(starts)
  BY PublishedHistory
<1> HIDE DEF es, vs
<1>2. events' = es \o <<>> /\ version' = vs \o <<>>
  BY DEF FlushFragments, es, vs
<1>3. es \o <<>> = es /\ vs \o <<>> = vs
  BY <1>1, ConcatEmptySeq DEF History
<1>. QED
  BY <1>1, <1>2, <1>3 DEF FlushFragments

\* A flush and one event, linked from the canvas: the new history ends with its board.
LEMMA FlushWithEvent ==
  ASSUME TypeOK, HistoryInv, NEW starts \in Groupings,
         NEW e \in EventRecords, NEW v \in Writings,
         e.actor = v.by, Link(docs, e.changes, v.board),
         FlushFragments(starts, <<e>>, <<v>>)
  PROVE  /\ History(events', version') /\ Keeps(events', version')
         /\ Ends(events', version', v.board)
         /\ Len(events') = Len(events) + Len(starts) + 1
         /\ fragments' = <<>> /\ staged' = <<>>
<1> DEFINE es == events \o PublishedEvents(starts)
           vs == version \o PublishedVersions(starts)
<1>1. /\ History(es, vs) /\ Keeps(es, vs) /\ Ends(es, vs, docs)
      /\ Len(es) = Len(events) + Len(starts)
  BY PublishedHistory
<1>2. events' = Longer(es, e) /\ version' = Longer(vs, v)
  BY DEF FlushFragments, Longer
<1> HIDE DEF es, vs
<1>3. /\ es # <<>> => Link(vs[Len(es)].board, e.changes, v.board)
      /\ es \in Seq(EventRecords) /\ vs \in Seq(Writings)
  BY <1>1 DEF Ends, History
<1>4. /\ History(events', version') /\ Ends(events', version', v.board)
      /\ Len(events') = Len(es) + 1
      /\ \A i \in DOMAIN es : events'[i] = es[i] /\ version'[i] = vs[i]
  <2>1. /\ History(Longer(es, e), Longer(vs, v))
        /\ Ends(Longer(es, e), Longer(vs, v), v.board)
        /\ Len(Longer(es, e)) = Len(es) + 1
        /\ \A i \in DOMAIN es : Longer(es, e)[i] = es[i] /\ Longer(vs, v)[i] = vs[i]
    <3>1. History(es, vs)
      BY <1>1
    <3>. QED
      BY <3>1, <1>3, ExtendHistory
  <2>. QED
    BY <2>1, <1>2
<1>5. Keeps(events', version')
  <2>1. /\ DOMAIN es = 1 .. Len(es) /\ Len(es) \in Nat
        /\ DOMAIN events = 1 .. Len(events) /\ Len(events) \in Nat
    BY <1>1, LenProperties DEF History, TypeOK
  <2>. QED
    BY <2>1, <1>1, <1>4 DEF Keeps
<1>. QED
  BY <1>1, <1>4, <1>5 DEF FlushFragments

\* A flush and two events, as a restore writes them.
LEMMA FlushWithTwoEvents ==
  ASSUME TypeOK, HistoryInv, NEW starts \in Groupings,
         NEW e \in EventRecords, NEW v \in Writings,
         e.actor = v.by, Link(docs, e.changes, v.board),
         NEW f \in EventRecords, NEW w \in Writings,
         f.actor = w.by, Link(v.board, f.changes, w.board),
         FlushFragments(starts, <<e, f>>, <<v, w>>)
  PROVE  /\ History(events', version') /\ Keeps(events', version')
         /\ Ends(events', version', w.board)
         /\ Len(events') = Len(events) + Len(starts) + 2
         /\ events'[Len(events) + Len(starts) + 1] = e
         /\ events'[Len(events) + Len(starts) + 2] = f
         /\ version'[Len(events) + Len(starts) + 1] = v
         /\ version'[Len(events) + Len(starts) + 2] = w
         /\ fragments' = <<>> /\ staged' = <<>>
<1> DEFINE es == events \o PublishedEvents(starts)
           vs == version \o PublishedVersions(starts)
           ee == Longer(es, e)
           vv == Longer(vs, v)
<1>1. /\ History(es, vs) /\ Keeps(es, vs) /\ Ends(es, vs, docs)
      /\ Len(es) = Len(events) + Len(starts)
  BY PublishedHistory
<1>2. events' = es \o <<e, f>> /\ version' = vs \o <<v, w>>
  BY DEF FlushFragments
<1> HIDE DEF es, vs
<1>3. /\ es # <<>> => Link(vs[Len(es)].board, e.changes, v.board)
      /\ es \in Seq(EventRecords) /\ vs \in Seq(Writings)
  BY <1>1 DEF Ends, History
<1>4. /\ History(ee, vv) /\ Ends(ee, vv, v.board) /\ Len(ee) = Len(es) + 1
      /\ ee[Len(es) + 1] = e /\ vv[Len(es) + 1] = v
      /\ \A i \in DOMAIN es : ee[i] = es[i] /\ vv[i] = vs[i]
  BY <1>1, <1>3, ExtendHistory
<1>5. events' = Longer(ee, f) /\ version' = Longer(vv, w)
  <2>1. es \in Seq(EventRecords) /\ vs \in Seq(Writings)
    BY <1>1 DEF History
  <2>2. es \o <<e, f>> = Longer(ee, f)
    BY <2>1, LongerByTwo
  <2>3. vs \o <<v, w>> = Longer(vv, w)
    BY <2>1, LongerByTwo
  <2>. QED
    BY <1>2, <2>2, <2>3
<1> HIDE DEF ee, vv
<1>6. /\ ee # <<>> => Link(vv[Len(ee)].board, f.changes, w.board)
      /\ ee \in Seq(EventRecords) /\ vv \in Seq(Writings)
  BY <1>4 DEF Ends, History
<1>7. /\ History(events', version') /\ Ends(events', version', w.board)
      /\ Len(events') = Len(ee) + 1
      /\ events'[Len(ee) + 1] = f /\ version'[Len(ee) + 1] = w
      /\ \A i \in DOMAIN ee : events'[i] = ee[i] /\ version'[i] = vv[i]
  <2>1. /\ History(Longer(ee, f), Longer(vv, w))
        /\ Ends(Longer(ee, f), Longer(vv, w), w.board)
        /\ Len(Longer(ee, f)) = Len(ee) + 1
        /\ Longer(ee, f)[Len(ee) + 1] = f /\ Longer(vv, w)[Len(ee) + 1] = w
        /\ \A i \in DOMAIN ee : Longer(ee, f)[i] = ee[i] /\ Longer(vv, w)[i] = vv[i]
    BY <1>4, <1>6, ExtendHistory
  <2>. QED
    BY <2>1, <1>5
<1>8. /\ DOMAIN es = 1 .. Len(es) /\ Len(es) \in Nat /\ Len(starts) \in Nat
      /\ DOMAIN ee = 1 .. Len(ee) /\ Len(ee) \in Nat
      /\ DOMAIN events = 1 .. Len(events) /\ Len(events) \in Nat
  <2>1. Len(es) \in Nat /\ DOMAIN es = 1 .. Len(es) /\ Len(ee) \in Nat /\ DOMAIN ee = 1 .. Len(ee)
    BY <1>1, <1>4, LenProperties DEF History
  <2>2. DOMAIN events = 1 .. Len(events) /\ Len(events) \in Nat
    BY LenProperties DEF TypeOK
  <2>3. Len(starts) \in Nat
    BY GroupingFacts, LenProperties
  <2>. QED
    BY <2>1, <2>2, <2>3
<1>9. Keeps(events', version')
  BY <1>1, <1>4, <1>7, <1>8 DEF Keeps
<1>10. Len(es) + 1 \in DOMAIN ee
  BY <1>4, <1>8
<1>11. /\ events'[Len(es) + 1] = e /\ version'[Len(es) + 1] = v
       /\ events'[Len(es) + 2] = f /\ version'[Len(es) + 2] = w
       /\ Len(events') = Len(es) + 2
  BY <1>4, <1>7, <1>8, <1>10
<1>. QED
  BY <1>1, <1>7, <1>8, <1>9, <1>11 DEF FlushFragments

\* With nothing pending a flush changes nothing.
LEMMA FlushOfNothing ==
  ASSUME TypeOK, fragments = <<>>, NEW starts \in Groupings
  PROVE  starts = <<>> /\ Len(starts) = 0
BY GroupingFacts

\* Checkpoints are only added, each of one of the versions of the new history.
MoreCheckpoints ==
  /\ checkpoints' \in Seq(CheckpointRecords)
  /\ Len(checkpoints') >= Len(checkpoints)
  /\ \A c \in DOMAIN checkpoints : checkpoints'[c] = checkpoints[c]
  /\ \A c \in DOMAIN checkpoints' \ DOMAIN checkpoints :
       /\ checkpoints'[c].base \in DOMAIN events'
       /\ checkpoints'[c].board = version'[checkpoints'[c].base].board

\* A step that publishes everything pending keeps the invariant of the history.
LEMMA PublishStep ==
  ASSUME TypeOK, HistoryInv,
         History(events', version'), Keeps(events', version'),
         Ends(events', version', docs'),
         fragments' = <<>>, staged' = <<>>,
         MoreCheckpoints,
         checkpoints # <<>> \/ Imported'
  PROVE  HistoryInv'
<1>1. /\ DOMAIN events = 1 .. Len(events) /\ Len(events) \in Nat
      /\ events' \in Seq(EventRecords) /\ DOMAIN events' = 1 .. Len(events')
      /\ Len(events') \in Nat /\ Len(version') = Len(events')
      /\ DOMAIN checkpoints = 1 .. Len(checkpoints) /\ Len(checkpoints) \in Nat
      /\ DOMAIN checkpoints' = 1 .. Len(checkpoints') /\ Len(checkpoints') \in Nat
  <2>1. DOMAIN events = 1 .. Len(events) /\ Len(events) \in Nat
    BY LenProperties DEF TypeOK
  <2>2. /\ events' \in Seq(EventRecords) /\ DOMAIN events' = 1 .. Len(events')
        /\ Len(events') \in Nat /\ Len(version') = Len(events')
    BY LenProperties DEF History, Chain
  <2>3. DOMAIN checkpoints = 1 .. Len(checkpoints) /\ Len(checkpoints) \in Nat
    BY StoredElements
  <2>4. DOMAIN checkpoints' = 1 .. Len(checkpoints') /\ Len(checkpoints') \in Nat
    BY LenProperties DEF MoreCheckpoints
  <2>. QED
    BY <2>1, <2>2, <2>3, <2>4
<1>2. Chain(events, version)'
  BY DEF History
<1>3. StagedChain'
  BY DEF StagedChain
<1>4. CanvasIsLast'
  BY <1>1 DEF CanvasIsLast, Ends
<1>5. Imported'
  <2>1. CASE checkpoints # <<>>
    <3>1. 1 \in DOMAIN checkpoints /\ checkpoints[1].base = 1
      BY <2>1, <1>1, EmptySeq, StoredElements DEF TypeOK, HistoryInv, Imported
    <3>2. checkpoints' # <<>> /\ checkpoints'[1].base = 1
      BY <3>1, <1>1, EmptySeq DEF MoreCheckpoints
    <3>3. events # <<>> /\ Len(events) > 0
      BY <2>1, EmptySeq DEF TypeOK, HistoryInv, Imported
    <3>4. events' # <<>>
      BY <3>3, <1>1, EmptySeq DEF Keeps
    <3>. QED
      BY <3>2, <3>4 DEF Imported
  <2>. QED
    BY <2>1
<1>6. CheckpointsFaithful'
  <2> SUFFICES ASSUME NEW c \in DOMAIN checkpoints'
               PROVE  /\ checkpoints'[c].base \in DOMAIN events'
                      /\ checkpoints'[c].board = version'[checkpoints'[c].base].board
    BY DEF CheckpointsFaithful
  <2>1. CASE c \in DOMAIN checkpoints
    <3>1. /\ checkpoints[c].base \in DOMAIN events
          /\ checkpoints[c].board = version[checkpoints[c].base].board
      BY <2>1 DEF HistoryInv, CheckpointsFaithful
    <3>. QED
      BY <2>1, <3>1, <1>1 DEF MoreCheckpoints, Keeps
  <2>. QED
    BY <2>1 DEF MoreCheckpoints
<1>7. Attribution'
  BY DEF Attribution, History
<1>. QED
  BY <1>2, <1>3, <1>4, <1>5, <1>6, <1>7 DEF HistoryInv

\* The types after a step that publishes everything pending.
LEMMA TypesAfterPublishing ==
  ASSUME History(events', version'), fragments' = <<>>, staged' = <<>>, MoreCheckpoints,
         docs' \in Board, clock' \in Nat, open' \in BOOLEAN,
         nextContext' \in Actors \cup {Nobody}, timer' \in {"off", "armed", "due"},
         snapshotMark' \in Nat, todo' \in Seq(Steps), request' \in Requests
  PROVE  TypeOK'
<1>1. /\ events' \in Seq(EventRecords) /\ version' \in Seq(Writings)
      /\ Len(version') = Len(events')
  BY DEF History, Chain
<1>2. fragments' \in Seq(EventRecords) /\ staged' \in Seq(Writings)
        /\ Len(staged') = Len(fragments')
  BY EmptySeq
<1>. QED
  BY <1>1, <1>2 DEF TypeOK, MoreCheckpoints

\* No new checkpoint; one; two.
LEMMA SameCheckpoints ==
  ASSUME TypeOK, checkpoints' = checkpoints
  PROVE  MoreCheckpoints
BY StoredElements DEF MoreCheckpoints, TypeOK

\* One new checkpoint, of a version of the new history.
LEMMA OneCheckpoint ==
  ASSUME TypeOK, NEW cp \in CheckpointRecords,
         checkpoints' = Longer(checkpoints, cp),
         cp.base \in DOMAIN events', cp.board = version'[cp.base].board
  PROVE  MoreCheckpoints /\ checkpoints' # <<>>
<1>1. /\ checkpoints \in Seq(CheckpointRecords) /\ Len(checkpoints) \in Nat
      /\ DOMAIN checkpoints = 1 .. Len(checkpoints)
  BY StoredElements DEF TypeOK
<1>2. /\ checkpoints' \in Seq(CheckpointRecords)
      /\ Len(checkpoints') = Len(checkpoints) + 1
      /\ DOMAIN checkpoints' = 1 .. Len(checkpoints) + 1
      /\ checkpoints'[Len(checkpoints) + 1] = cp
      /\ \A c \in DOMAIN checkpoints : checkpoints'[c] = checkpoints[c]
  <2> DEFINE cs == Longer(checkpoints, cp)
  <2>1. /\ cs \in Seq(CheckpointRecords) /\ Len(cs) = Len(checkpoints) + 1
        /\ DOMAIN cs = 1 .. Len(checkpoints) + 1 /\ cs[Len(checkpoints) + 1] = cp
        /\ \A c \in DOMAIN checkpoints : cs[c] = checkpoints[c]
    <3>1. checkpoints \in Seq(CheckpointRecords)
      BY <1>1
    <3>2. cs \in Seq(CheckpointRecords)
      BY <3>1, LongerElements
    <3>3. Len(cs) = Len(checkpoints) + 1 /\ DOMAIN cs = 1 .. Len(checkpoints) + 1
      BY <3>1, LongerElements
    <3>4. cs[Len(checkpoints) + 1] = cp
      BY <1>1 DEF Longer
    <3>5. \A c \in DOMAIN checkpoints : cs[c] = checkpoints[c]
      BY <1>1 DEF Longer
    <3>. QED
      BY <3>2, <3>3, <3>4, <3>5
  <2>. QED
    BY <2>1
<1>3. \A c \in DOMAIN checkpoints' \ DOMAIN checkpoints : c = Len(checkpoints) + 1
  BY <1>1, <1>2
<1>4. MoreCheckpoints
  BY <1>1, <1>2, <1>3 DEF MoreCheckpoints
<1>. QED
  BY <1>1, <1>2, <1>4, EmptySeq

\* Two new checkpoints, as a restore writes them.
LEMMA TwoCheckpoints ==
  ASSUME TypeOK, NEW cp \in CheckpointRecords, NEW cq \in CheckpointRecords,
         checkpoints' = checkpoints \o <<cp, cq>>,
         cp.base \in DOMAIN events', cp.board = version'[cp.base].board,
         cq.base \in DOMAIN events', cq.board = version'[cq.base].board
  PROVE  MoreCheckpoints
<1> DEFINE cs == Longer(checkpoints, cp)
<1>1. /\ checkpoints \in Seq(CheckpointRecords) /\ Len(checkpoints) \in Nat
      /\ DOMAIN checkpoints = 1 .. Len(checkpoints)
  BY StoredElements DEF TypeOK
<1>2. checkpoints' = Longer(cs, cq)
  BY <1>1, LongerByTwo
<1>3. /\ cs \in Seq(CheckpointRecords) /\ Len(cs) = Len(checkpoints) + 1
      /\ DOMAIN cs = 1 .. Len(checkpoints) + 1 /\ cs[Len(checkpoints) + 1] = cp
      /\ \A c \in DOMAIN checkpoints : cs[c] = checkpoints[c]
  BY <1>1, LongerElements
<1> HIDE DEF cs
<1>4. /\ checkpoints' \in Seq(CheckpointRecords) /\ Len(checkpoints') = Len(cs) + 1
      /\ DOMAIN checkpoints' = 1 .. Len(cs) + 1 /\ checkpoints'[Len(cs) + 1] = cq
      /\ \A c \in DOMAIN cs : checkpoints'[c] = cs[c]
  <2>1. /\ Longer(cs, cq) \in Seq(CheckpointRecords) /\ Len(Longer(cs, cq)) = Len(cs) + 1
        /\ DOMAIN Longer(cs, cq) = 1 .. Len(cs) + 1 /\ Longer(cs, cq)[Len(cs) + 1] = cq
        /\ \A c \in DOMAIN cs : Longer(cs, cq)[c] = cs[c]
    <3>1. cs \in Seq(CheckpointRecords)
      BY <1>3
    <3>. QED
      BY <3>1, LongerElements
  <2>. QED
    BY <2>1, <1>2
<1>5. \A c \in DOMAIN checkpoints' \ DOMAIN checkpoints :
        checkpoints'[c] = cp \/ checkpoints'[c] = cq
  BY <1>1, <1>3, <1>4
<1>6. \A c \in DOMAIN checkpoints : checkpoints'[c] = checkpoints[c]
  BY <1>1, <1>3, <1>4
<1>. QED
  BY <1>1, <1>3, <1>4, <1>5, <1>6 DEF MoreCheckpoints

\* A handler that is past the import, and any request, finds a board with history.
LEMMA HasHistory ==
  ASSUME IInv, Idle \/ (todo # <<>> /\ Head(todo) # "legacy")
  PROVE  /\ checkpoints # <<>> /\ events # <<>> /\ Len(events) \in Nat \ {0}
         /\ todo # <<>> => fragments = <<>>
<1>1. Head(<<"legacy">>) = "legacy" /\ <<"legacy">> # <<>>
  OBVIOUS
<1>2. checkpoints # <<>>
  BY <1>1 DEF IInv, HandlerState, Idle
<1>. QED
  BY <1>2, EmptySeq DEF IInv, HandlerState, HistoryInv, Imported, TypeOK

\* Taking the next of a handler's transactions keeps its state well-typed.
LEMMA NextStepTypes ==
  ASSUME TypeOK, todo # <<>>, NextStep
  PROVE  todo' \in Seq(Steps) /\ request' \in Requests
<1>1. NoRequest \in Requests
  BY DEF NoRequest, Requests, Kinds
<1>2. todo' \in Seq(Steps)
  BY DEF NextStep, TypeOK
<1>. QED
  BY <1>1, <1>2 DEF NextStep, TypeOK

\* Steps that leave the database alone keep what the history says.
LEMMA DurableUnchanged ==
  ASSUME HistoryInv, UNCHANGED durable
  PROVE  HistoryInv'
BY DEF HistoryInv, durable, Chain, StagedChain, BoardBefore, CanvasIsLast, Imported,
       CheckpointsFaithful, Attribution

\* An event written by this server is well-typed.
LEMMA EventTypes ==
  ASSUME NEW actor \in Actors \cup {Nobody}, NEW kind \in Kinds,
         NEW changes \in ChangeSets, NEW at \in Nat, NEW target \in Nat
  PROVE  /\ Event(actor, kind, changes, at, target) \in EventRecords
         /\ Event(actor, kind, changes, at, target).actor = actor
         /\ Event(actor, kind, changes, at, target).changes = changes
BY DEF Event, EventRecords

\* A ghost entry is well-typed.
LEMMA WrittenTypes ==
  ASSUME NEW board \in Board, NEW by \in Actors \cup {Nobody}
  PROVE  /\ Written(board, by) \in Writings
         /\ Written(board, by).board = board /\ Written(board, by).by = by
BY DEF Written, Writings

\* A checkpoint written by this server is well-typed.
LEMMA CheckpointTypes ==
  ASSUME NEW base \in Nat, NEW board \in Board,
         NEW reason \in {"legacy_import", "periodic", "explicit", "pre_restore",
                         "restore_completed"}
  PROVE  /\ Checkpoint(base, reason, board) \in CheckpointRecords
         /\ Checkpoint(base, reason, board).base = base
         /\ Checkpoint(base, reason, board).board = board
BY DEF Checkpoint, CheckpointRecords

-----------------------------------------------------------------------------
(* The invariant is inductive.                                             *)

\* A new board, or one older than the history.
LEMMA InitKeeps == Init => IInv
<1> SUFFICES ASSUME Init PROVE IInv
  OBVIOUS
<1>1. NoRequest \in Requests
  BY DEF NoRequest, Requests, Kinds
<1>2. TypeOK
  BY <1>1, EmptySeq DEF Init, TypeOK
<1>3. HistoryInv
  BY DEF Init, HistoryInv, Chain, StagedChain, CanvasIsLast, Imported,
         CheckpointsFaithful, Attribution
<1>4. HandlerState
  BY DEF Init, HandlerState
<1>. QED
  BY <1>2, <1>3, <1>4 DEF IInv

\* Every step also keeps the events there are: the timeline only grows.
Preserves == IInv' /\ Keeps(events', version')

\* A step that writes no event keeps those there are.
LEMMA KeepsUnchanged ==
  ASSUME TypeOK, UNCHANGED <<events, version>>
  PROVE  Keeps(events', version')
BY LenProperties DEF Keeps, TypeOK

\* recorder.flush() and whatever handler begins with it.
LEMMA RecorderFlushKeeps ==
  ASSUME IInv, NEW steps \in Seq(Steps), NEW req \in Requests,
         RecorderFlush(steps, req)
  PROVE  Preserves
<1>0. TypeOK /\ HistoryInv
  BY DEF IInv
<1>1. PICK starts \in Groupings :
        /\ FlushFragments(starts, <<>>, <<>>)
        /\ Continue((IF starts = <<>> THEN <<>> ELSE <<"maybe">>) \o steps, req)
  BY DEF RecorderFlush
<1>2. /\ UNCHANGED <<docs, clock, checkpoints, open, nextContext, snapshotMark>>
      /\ timer' = "off" /\ Idle
  BY DEF RecorderFlush
<1>3. /\ History(events', version') /\ Keeps(events', version')
      /\ Ends(events', version', docs')
      /\ fragments' = <<>> /\ staged' = <<>>
  BY <1>0, <1>1, <1>2, FlushAlone
<1>4. checkpoints # <<>> /\ MoreCheckpoints
  BY <1>0, <1>2, HasHistory, SameCheckpoints
<1>5. HistoryInv'
  BY <1>0, <1>3, <1>4, PublishStep
<1>6. todo' \in Seq(Steps) /\ request' \in Requests
  <2>1. (IF starts = <<>> THEN <<>> ELSE <<"maybe">>) \in Seq(Steps)
    <3>1. <<"maybe">> \in Seq(Steps) /\ <<>> \in Seq(Steps)
      BY DEF Steps
    <3>. QED
      BY <3>1
  <2>. QED
    BY <2>1, <1>1, ConcatProperties DEF Continue
<1>7. TypeOK'
  BY <1>0, <1>2, <1>3, <1>4, <1>6, TypesAfterPublishing DEF TypeOK
<1>8. HandlerState'
  BY <1>2, <1>3, <1>4 DEF HandlerState
<1>. QED
  BY <1>3, <1>5, <1>7, <1>8 DEF IInv, Preserves

\* Opening the board publishes what a dead process left.
LEMMA OpenKeeps == ASSUME IInv, Open PROVE Preserves
<1>0. TypeOK /\ HistoryInv
  BY DEF IInv
<1>1. PICK starts \in Groupings :
        /\ FlushFragments(starts, <<>>, <<>>)
        /\ snapshotMark' = Len(events) + Len(starts)
  BY DEF Open
<1>2. /\ UNCHANGED <<docs, clock, checkpoints, nextContext, timer>>
      /\ open' = TRUE /\ todo' = <<"legacy">> /\ request' = NoRequest
  BY DEF Open, Continue
<1>3. /\ History(events', version') /\ Keeps(events', version')
      /\ Ends(events', version', docs')
      /\ Len(events') = Len(events) + Len(starts)
      /\ fragments' = <<>> /\ staged' = <<>>
  BY <1>0, <1>1, <1>2, FlushAlone
<1>4. MoreCheckpoints
  BY <1>0, <1>2, SameCheckpoints
<1>5. checkpoints # <<>> \/ Imported'
  <2> SUFFICES ASSUME checkpoints = <<>> PROVE Imported'
    OBVIOUS
  <2>1. events = <<>> /\ fragments = <<>>
    BY <1>0 DEF HistoryInv, Imported
  <2>2. Len(starts) = 0 /\ Len(events) = 0
    BY <1>0, <2>1, FlushOfNothing, EmptySeq
  <2>3. events' = <<>>
    BY <1>3, <2>2, EmptySeq DEF History
  <2>. QED
    BY <1>2, <1>3, <2>3 DEF Imported
<1>6. HistoryInv'
  BY <1>0, <1>3, <1>4, <1>5, PublishStep
<1>7. /\ snapshotMark' \in Nat /\ todo' \in Seq(Steps) /\ request' \in Requests
  <2>1. Len(events) \in Nat /\ Len(starts) \in Nat
    BY <1>0, GroupingFacts, LenProperties DEF TypeOK
  <2>2. <<"legacy">> \in Seq(Steps) /\ NoRequest \in Requests
    BY DEF Steps, NoRequest, Requests, Kinds
  <2>. QED
    BY <2>1, <2>2, <1>1, <1>2
<1>8. TypeOK'
  BY <1>0, <1>2, <1>3, <1>4, <1>7, TypesAfterPublishing DEF TypeOK
<1>9. HandlerState'
  BY <1>2, <1>3 DEF HandlerState
<1>. QED
  BY <1>3, <1>6, <1>8, <1>9 DEF IInv, Preserves

\* The import writes the first event and checkpoint, or nothing.
LEMMA LegacyImportKeeps == ASSUME IInv, LegacyImport PROVE Preserves
<1>0. TypeOK /\ HistoryInv /\ todo # <<>> /\ fragments = <<>>
  BY DEF IInv, HandlerState, LegacyImport, At
<1>1. todo' \in Seq(Steps) /\ request' \in Requests
  BY <1>0, NextStepTypes DEF LegacyImport
<1>2. CASE checkpoints # <<>>
  <2>1. UNCHANGED durable
    BY <1>2 DEF LegacyImport, durable
  <2>2. HistoryInv'
    BY <1>0, <2>1, DurableUnchanged
  <2>3. TypeOK'
    BY <1>0, <1>1, <2>1 DEF LegacyImport, TypeOK, durable
  <2>4. HandlerState'
    BY <1>0, <1>2, <2>1 DEF HandlerState, durable
  <2>. QED
    BY <1>0, <2>1, <2>2, <2>3, <2>4, KeepsUnchanged DEF IInv, Preserves, durable
<1>3. CASE checkpoints = <<>>
  <2> DEFINE e == Event(Nobody, "board.imported", NoChanges, clock, 0)
             v == Written(docs, Nobody)
             cp == Checkpoint(1, "legacy_import", docs)
  <2>1. events = <<>> /\ version = <<>> /\ staged = <<>> /\ Len(events) = 0
    BY <1>0, <1>3, EmptySeq DEF HistoryInv, Imported, TypeOK
  <2>2. /\ events' = Longer(events, e) /\ version' = Longer(version, v)
        /\ checkpoints' = <<cp>>
    <3>1. /\ events' = Append(events, e) /\ version' = Append(version, v)
          /\ checkpoints' = <<Checkpoint(Len(events) + 1, "legacy_import", docs)>>
      BY <1>3 DEF LegacyImport
    <3>2. Append(events, e) = events \o <<e>> /\ Append(version, v) = version \o <<v>>
      BY <2>1
    <3>. QED
      BY <3>1, <3>2, <2>1 DEF Longer
  <2>3. /\ UNCHANGED <<docs, clock, fragments, staged, open, nextContext, timer,
                       snapshotMark>>
    BY DEF LegacyImport
  <2>4. e \in EventRecords /\ e.actor = Nobody /\ v \in Writings /\ v.by = Nobody
          /\ v.board = docs
    <3>1. docs \in Board /\ clock \in Nat /\ Nobody \in Actors \cup {Nobody}
      BY <1>0 DEF TypeOK
    <3>2. "board.imported" \in Kinds /\ NoChanges \in ChangeSets
      BY NoChangesLinks DEF Kinds
    <3>3. e \in EventRecords /\ e.actor = Nobody
      BY <3>1, <3>2, EventTypes
    <3>4. v \in Writings /\ v.by = Nobody /\ v.board = docs
      BY <3>1, WrittenTypes
    <3>. QED
      BY <3>3, <3>4
  <2>5. cp \in CheckpointRecords /\ cp.base = 1 /\ cp.board = docs
    BY <1>0, CheckpointTypes DEF TypeOK
  <2> HIDE DEF e, v, cp
  <2>6. events \in Seq(EventRecords) /\ version \in Seq(Writings) /\ History(events, version)
    BY <1>0 DEF TypeOK, History, HistoryInv, Attribution
  <2>7. /\ History(events', version') /\ Len(events') = 1
        /\ Ends(events', version', docs) /\ version'[1] = v
    <3>1. /\ History(Longer(events, e), Longer(version, v))
          /\ Ends(Longer(events, e), Longer(version, v), v.board)
          /\ Len(Longer(events, e)) = Len(events) + 1
          /\ Longer(version, v)[Len(events) + 1] = v
      <4>1. e.actor = v.by /\ (events # <<>> => Link(version[Len(events)].board, e.changes, v.board))
        BY <2>1, <2>4
      <4>2. e \in EventRecords /\ v \in Writings
        BY <2>4
      <4>. QED
        BY <4>1, <4>2, <2>6, ExtendHistory
    <3>. QED
      BY <3>1, <2>1, <2>2, <2>4
  <2>8. Keeps(events', version')
    BY <2>1, <2>7 DEF Keeps
  <2>9. MoreCheckpoints
    <3>1. 1 \in DOMAIN events'
      BY <2>7, LenProperties DEF History
    <3>2. checkpoints' = Longer(checkpoints, cp)
      BY <1>3, <2>2 DEF Longer
    <3>. QED
      BY <1>0, <2>4, <2>5, <2>7, <3>1, <3>2, OneCheckpoint
  <2>10. Imported'
    <3>1. checkpoints' # <<>> /\ checkpoints'[1] = cp
      BY <2>2
    <3>2. events' # <<>>
      BY <2>7, EmptySeq
    <3>. QED
      BY <3>1, <3>2, <2>5 DEF Imported
  <2>11. fragments' = <<>> /\ staged' = <<>>
    BY <1>0, <2>1, <2>3
  <2>12. HistoryInv'
    BY <1>0, <2>3, <2>7, <2>8, <2>9, <2>10, <2>11, PublishStep
  <2>13. TypeOK'
    BY <1>0, <1>1, <2>3, <2>7, <2>9, <2>11, TypesAfterPublishing DEF TypeOK
  <2>14. HandlerState'
    BY <2>2, <2>11 DEF HandlerState
  <2>. QED
    BY <2>8, <2>12, <2>13, <2>14 DEF IInv, Preserves
<1>. QED
  BY <1>2, <1>3

\* Operators of the recorder have their types.
LEMMA RecorderTypes ==
  ASSUME TypeOK
  PROVE  /\ Cardinality(GroupStarts) \in Nat
         /\ \A n \in Nat, due \in BOOLEAN : MarkAfter(n, due) \in Nat
         /\ \A changes : EventTypeForChanges(changes) \in Kinds
<1>1. Cardinality(GroupStarts) \in Nat
  <2>1. IsFiniteSet(1 .. Len(fragments)) /\ DOMAIN fragments = 1 .. Len(fragments)
    BY FS_Interval, LenProperties DEF TypeOK
  <2>2. GroupStarts \subseteq 1 .. Len(fragments)
    BY <2>1 DEF GroupStarts
  <2>. QED
    BY <2>1, <2>2, FS_Subset, FS_CardinalityType
<1>. QED
  BY <1>1 DEF MarkAfter, TypeOK, EventTypeForChanges, Kinds

\* The steps that touch memory only.
LEMMA MemoryStepKeeps ==
  ASSUME IInv,
         \/ Crash \/ QuietTransaction \/ ImmediateWriteFails \/ TimerExpires
         \/ RestoreRefused \/ CloseStep \/ StepFails
         \/ \E s \in Sessions : DroppedPush(s)
  PROVE  Preserves
<1>0. TypeOK /\ HistoryInv /\ HandlerState
  BY DEF IInv
<1>1. UNCHANGED durable
  BY DEF Crash, QuietTransaction, ImmediateWriteFails, TimerExpires, RestoreRefused,
         CloseStep, StepFails, DroppedPush
<1>2. HistoryInv'
  BY <1>0, <1>1, DurableUnchanged
<1>9. Keeps(events', version')
  BY <1>0, <1>1, KeepsUnchanged DEF durable
<1>3. NoRequest \in Requests /\ <<>> \in Seq(Steps)
  BY EmptySeq DEF NoRequest, Requests, Kinds
<1>4. CASE Crash
  <2>1. TypeOK'
    BY <1>0, <1>1, <1>3, <1>4 DEF Crash, TypeOK, durable
  <2>2. HandlerState'
    BY <1>4 DEF Crash, HandlerState
  <2>. QED
    BY <1>2, <1>9, <2>1, <2>2 DEF IInv, Preserves
<1>5. CASE QuietTransaction \/ TimerExpires \/ \E s \in Sessions : DroppedPush(s)
  <2>1. TypeOK'
    BY <1>0, <1>1, <1>5 DEF QuietTransaction, TimerExpires, DroppedPush, TypeOK, durable, Actors
  <2>2. HandlerState'
    BY <1>0, <1>1, <1>5 DEF QuietTransaction, TimerExpires, DroppedPush, HandlerState, durable
  <2>. QED
    BY <1>2, <1>9, <2>1, <2>2 DEF IInv, Preserves
<1>6. CASE ImmediateWriteFails
  <2>1. snapshotMark' \in Nat
    <3>1. Len(events) + Cardinality(GroupStarts) + 1 \in Nat
      <4>1. Len(events) \in Nat
        BY <1>0, LenProperties DEF TypeOK
      <4>2. Cardinality(GroupStarts) \in Nat
        BY <1>0, RecorderTypes
      <4>. QED
        BY <4>1, <4>2
    <3>2. \A due \in BOOLEAN :
            MarkAfter(Len(events) + Cardinality(GroupStarts) + 1, due) \in Nat
      BY <1>0, <3>1, RecorderTypes
    <3>. QED
      BY <1>0, <1>6, <3>2 DEF ImmediateWriteFails, TypeOK
  <2>2. TypeOK'
    BY <1>0, <1>1, <1>6, <2>1 DEF ImmediateWriteFails, TypeOK, durable
  <2>3. HandlerState'
    BY <1>0, <1>1, <1>6 DEF ImmediateWriteFails, HandlerState, durable
  <2>. QED
    BY <1>2, <1>9, <2>2, <2>3 DEF IInv, Preserves
<1>7. CASE RestoreRefused \/ CloseStep
  <2>1. todo # <<>> /\ NextStep /\ Head(todo) # "legacy"
    BY <1>7 DEF RestoreRefused, CloseStep, At
  <2>2. todo' \in Seq(Steps) /\ request' \in Requests
    BY <1>0, <2>1, NextStepTypes
  <2>3. checkpoints # <<>> /\ fragments = <<>>
    BY <2>1, HasHistory
  <2>4. TypeOK'
    <3>1. open' \in BOOLEAN /\ nextContext' \in Actors \cup {Nobody}
            /\ timer' \in {"off", "armed", "due"} /\ snapshotMark' \in Nat
      <4>1. CASE RestoreRefused
        BY <1>0, <4>1 DEF RestoreRefused, TypeOK
      <4>2. CASE CloseStep
        BY <4>2 DEF CloseStep
      <4>. QED
        BY <1>7, <4>1, <4>2
    <3>. QED
      BY <1>0, <1>1, <2>2, <3>1 DEF TypeOK, durable
  <2>5. HandlerState'
    BY <1>1, <2>3 DEF HandlerState, durable
  <2>. QED
    BY <1>2, <1>9, <2>4, <2>5 DEF IInv, Preserves
<1>8. CASE StepFails
  <2>1. todo # <<>> /\ Head(todo) # "legacy" /\ todo' = <<>> /\ request' = NoRequest
    BY <1>8 DEF StepFails
  <2>2. checkpoints # <<>>
    BY <2>1, HasHistory
  <2>3. TypeOK'
    BY <1>0, <1>1, <1>3, <1>8, <2>1 DEF StepFails, TypeOK, durable
  <2>4. HandlerState'
    BY <1>1, <2>1, <2>2 DEF HandlerState, durable
  <2>. QED
    BY <1>2, <1>9, <2>3, <2>4 DEF IInv, Preserves
<1>. QED
  BY <1>4, <1>5, <1>6, <1>7, <1>8

\* A person's edit: one more fragment, linked from the canvas.
LEMMA PushKeeps ==
  ASSUME IInv, NEW session \in Sessions, Push(session)
  PROVE  Preserves
<1>0. TypeOK /\ HistoryInv /\ HandlerState
  BY DEF IInv
<1>1. PICK board \in Board \ {docs} :
        /\ docs' = board
        /\ fragments' = Append(fragments,
             Event(ContextOfPush(session), EventTypeForChanges(Diff(docs, board)),
                   Diff(docs, board), clock + 1, 0))
        /\ staged' = Append(staged, Written(board, session))
  BY DEF Push, ScheduleFlush
<1> DEFINE f == Event(ContextOfPush(session), EventTypeForChanges(Diff(docs, board)),
                      Diff(docs, board), clock + 1, 0)
           w == Written(board, session)
<1>2. /\ UNCHANGED <<events, checkpoints, open, snapshotMark, todo, request, version>>
      /\ clock' = clock + 1 /\ timer' = "armed" /\ nextContext' = Nobody /\ Idle
  BY DEF Push, ScheduleFlush
<1>3. /\ f \in EventRecords /\ f.actor = session /\ f.changes = Diff(docs, board)
      /\ w \in Writings /\ w.by = session /\ w.board = board
  <2>1. /\ session \in Actors \cup {Nobody} /\ docs \in Board /\ clock + 1 \in Nat
        /\ ContextOfPush(session) = session
    BY <1>0 DEF Actors, TypeOK, ContextOfPush
  <2>2. EventTypeForChanges(Diff(docs, board)) \in Kinds
    BY <1>0, RecorderTypes
  <2>3. Diff(docs, board) \in ChangeSets
    BY <2>1, DiffLinks
  <2>4. f \in EventRecords /\ f.actor = session /\ f.changes = Diff(docs, board)
    BY <2>1, <2>2, <2>3, EventTypes
  <2>5. w \in Writings /\ w.by = session /\ w.board = board
    BY <2>1, WrittenTypes
  <2>. QED
    BY <2>4, <2>5
<1>4. Link(docs, f.changes, w.board)
  BY <1>0, <1>3, DiffLinks DEF TypeOK
<1> HIDE DEF f, w
<1>5. /\ fragments \in Seq(EventRecords) /\ staged \in Seq(Writings)
      /\ Len(staged) = Len(fragments) /\ Len(fragments) \in Nat
      /\ DOMAIN fragments = 1 .. Len(fragments) /\ DOMAIN staged = DOMAIN fragments
  BY <1>0, LenProperties DEF TypeOK
<1>6. fragments' = Append(fragments, f) /\ staged' = Append(staged, w)
  BY <1>1 DEF f, w
<1>7. /\ fragments' \in Seq(EventRecords) /\ staged' \in Seq(Writings)
      /\ Len(fragments') = Len(fragments) + 1 /\ Len(staged') = Len(fragments) + 1
      /\ DOMAIN fragments' = 1 .. Len(fragments) + 1
      /\ fragments'[Len(fragments) + 1] = f /\ staged'[Len(fragments) + 1] = w
  <2>1. /\ fragments' \in Seq(EventRecords) /\ Len(fragments') = Len(fragments) + 1
        /\ staged' \in Seq(Writings) /\ Len(staged') = Len(staged) + 1
    BY <1>3, <1>5, <1>6, AppendProperties
  <2>2. DOMAIN fragments' = 1 .. Len(fragments) + 1
    BY <2>1, LenProperties
  <2>3. fragments'[Len(fragments) + 1] = f
    BY <1>3, <1>5, <1>6
  <2>4. staged'[Len(staged) + 1] = w
    BY <1>3, <1>5, <1>6
  <2>. QED
    BY <2>1, <2>2, <2>3, <2>4, <1>5
<1>8. \A i \in DOMAIN fragments : fragments'[i] = fragments[i] /\ staged'[i] = staged[i]
  BY <1>3, <1>5, <1>6
<1>9. TypeOK'
  BY <1>0, <1>1, <1>2, <1>5, <1>7 DEF TypeOK
<1>10. StagedChain'
  <2> SUFFICES ASSUME NEW i \in DOMAIN fragments'
               PROVE  Link(BoardBefore(i)', fragments'[i].changes, staged'[i].board)
    BY DEF StagedChain
  <2>1. CASE i \in DOMAIN fragments
    <3>1. BoardBefore(i)' = BoardBefore(i)
      <4>1. CASE i = 1
        BY <4>1, <1>2 DEF BoardBefore
      <4>2. CASE i # 1
        <5>1. i - 1 \in DOMAIN fragments
          BY <4>2, <2>1, <1>5
        <5>. QED
          BY <4>2, <5>1, <1>8 DEF BoardBefore
      <4>. QED
        BY <4>1, <4>2
    <3>2. Link(BoardBefore(i), fragments[i].changes, staged[i].board)
      BY <1>0, <2>1 DEF HistoryInv, StagedChain
    <3>. QED
      BY <3>1, <3>2, <2>1, <1>8
  <2>2. CASE i \notin DOMAIN fragments
    <3>1. i = Len(fragments) + 1
      BY <2>2, <1>5, <1>7
    <3>2. BoardBefore(i)' = docs
      <4>1. CASE fragments = <<>>
        <5>1. i = 1 /\ docs = version[Len(version)].board
          BY <4>1, <3>1, <1>0, <1>2, HasHistory, EmptySeq DEF HistoryInv, CanvasIsLast
        <5>. QED
          BY <5>1, <1>2 DEF BoardBefore
      <4>2. CASE fragments # <<>>
        <5>1. Len(fragments) \in DOMAIN fragments /\ i # 1 /\ i - 1 = Len(fragments)
          BY <4>2, <3>1, <1>5, EmptySeq
        <5>2. docs = staged[Len(fragments)].board
          BY <4>2, <1>0, <1>5 DEF HistoryInv, CanvasIsLast
        <5>. QED
          BY <5>1, <5>2, <1>8 DEF BoardBefore
      <4>. QED
        BY <4>1, <4>2
    <3>. QED
      BY <3>1, <3>2, <1>4, <1>7
  <2>. QED
    BY <2>1, <2>2
<1>11. CanvasIsLast'
  <2>1. fragments' # <<>>
    BY <1>5, <1>7, EmptySeq
  <2>2. staged'[Len(staged')].board = board
    BY <1>3, <1>7
  <2>. QED
    BY <2>1, <2>2, <1>1 DEF CanvasIsLast
<1>12. Attribution'
  <2>1. \A i \in DOMAIN fragments' : fragments'[i].actor = staged'[i].by
    <3> SUFFICES ASSUME NEW i \in DOMAIN fragments'
                 PROVE  fragments'[i].actor = staged'[i].by
      OBVIOUS
    <3>1. CASE i \in DOMAIN fragments
      BY <3>1, <1>0, <1>8 DEF HistoryInv, Attribution
    <3>2. CASE i \notin DOMAIN fragments
      <4>1. i = Len(fragments) + 1
        BY <3>2, <1>5, <1>7
      <4>. QED
        BY <4>1, <1>3, <1>7
    <3>. QED
      BY <3>1, <3>2
  <2>. QED
    BY <2>1, <1>0, <1>2 DEF HistoryInv, Attribution
<1>13. Chain(events, version)' /\ Imported' /\ CheckpointsFaithful'
  <2>1. checkpoints # <<>>
    BY <1>2, HasHistory
  <2>. QED
    BY <2>1, <1>0, <1>2 DEF HistoryInv, Chain, Imported, CheckpointsFaithful
<1>14. HandlerState'
  <2>1. checkpoints # <<>>
    BY <1>2, HasHistory
  <2>. QED
    BY <2>1, <1>2 DEF HandlerState, Idle
<1>. QED
  BY <1>0, <1>2, <1>9, <1>10, <1>11, <1>12, <1>13, <1>14, KeepsUnchanged
     DEF IInv, HistoryInv, Preserves

\* The common shape of the handlers' remaining steps: everything pending is
\* published, and the handler moves on.
LEMMA PublishingStepKeeps ==
  ASSUME IInv, Idle \/ (todo # <<>> /\ Head(todo) # "legacy"),
         History(events', version'), Keeps(events', version'),
         Ends(events', version', docs'),
         fragments' = <<>>, staged' = <<>>, MoreCheckpoints, checkpoints' # <<>>,
         docs' \in Board, clock' \in Nat, open' \in BOOLEAN,
         nextContext' \in Actors \cup {Nobody}, timer' \in {"off", "armed", "due"},
         snapshotMark' \in Nat, todo' \in Seq(Steps), request' \in Requests
  PROVE  Preserves
<1>1. HistoryInv'
  BY HasHistory, PublishStep DEF IInv
<1>2. TypeOK'
  BY TypesAfterPublishing
<1>3. HandlerState'
  BY DEF HandlerState
<1>. QED
  BY <1>1, <1>2, <1>3 DEF IInv, Preserves

\* Adding a checkpoint to a board that has one leaves some.
LEMMA StillCheckpoints ==
  ASSUME TypeOK, checkpoints # <<>>, MoreCheckpoints
  PROVE  checkpoints' # <<>>
BY StoredElements, EmptySeq DEF TypeOK, MoreCheckpoints

\* The periodic checkpoint is of the board that the last event left.
LEMMA PeriodicCheckpoint ==
  ASSUME TypeOK, NEW n \in Nat, NEW board \in Board, NEW due \in BOOLEAN,
         checkpoints' = checkpoints \o PeriodicCheckpoints(n, board, due),
         n \in DOMAIN events', version'[n].board = board
  PROVE  MoreCheckpoints
<1>1. checkpoints \in Seq(CheckpointRecords)
  BY DEF TypeOK
<1>2. CASE CheckpointDue(n, due)
  <2> DEFINE cp == Checkpoint(n, "periodic", board)
  <2>1. checkpoints' = Longer(checkpoints, cp)
    BY <1>2 DEF PeriodicCheckpoints, Longer
  <2>2. cp \in CheckpointRecords /\ cp.base = n /\ cp.board = board
    BY CheckpointTypes
  <2> HIDE DEF cp
  <2>. QED
    BY <2>1, <2>2, OneCheckpoint
<1>3. CASE ~CheckpointDue(n, due)
  <2>1. checkpoints' = checkpoints \o <<>>
    BY <1>3 DEF PeriodicCheckpoints
  <2>2. checkpoints' = checkpoints
    BY <1>1, <2>1, ConcatEmptySeq
  <2>. QED
    BY <2>2, SameCheckpoints
<1>. QED
  BY <1>2, <1>3

\* A write of the HTTP API, with its event and perhaps a checkpoint.
LEMMA ImmediateWriteKeeps ==
  ASSUME IInv, NEW agent \in Agents, ImmediateWrite(agent)
  PROVE  Preserves
<1>0. TypeOK /\ HistoryInv
  BY DEF IInv
<1>1. PICK board \in Board \ {docs}, starts \in Groupings, due \in BOOLEAN :
        /\ FlushFragments(starts,
             <<Event(agent, EventTypeForChanges(Diff(docs, board)), Diff(docs, board),
                     clock + 1, 0)>>,
             <<Written(board, agent)>>)
        /\ docs' = board
        /\ checkpoints' = checkpoints \o
             PeriodicCheckpoints(Len(events) + Len(starts) + 1, board, due)
        /\ snapshotMark' = MarkAfter(Len(events) + Len(starts) + 1, due)
  BY DEF ImmediateWrite
<1>2. /\ UNCHANGED <<open, nextContext, todo, request>>
      /\ clock' = clock + 1 /\ timer' = "off" /\ Idle
  BY DEF ImmediateWrite
<1> DEFINE e == Event(agent, EventTypeForChanges(Diff(docs, board)), Diff(docs, board),
                      clock + 1, 0)
           v == Written(board, agent)
           n == Len(events) + Len(starts) + 1
<1>3. /\ e \in EventRecords /\ e.actor = agent /\ e.changes = Diff(docs, board)
      /\ v \in Writings /\ v.by = agent /\ v.board = board
  <2>1. agent \in Actors \cup {Nobody} /\ docs \in Board /\ clock + 1 \in Nat
    BY <1>0 DEF Actors, TypeOK
  <2>2. EventTypeForChanges(Diff(docs, board)) \in Kinds
    BY <1>0, RecorderTypes
  <2>3. Diff(docs, board) \in ChangeSets
    BY <2>1, DiffLinks
  <2>0. 0 \in Nat
    OBVIOUS
  <2>4. e \in EventRecords /\ e.actor = agent /\ e.changes = Diff(docs, board)
    BY <2>0, <2>1, <2>2, <2>3 DEF Event, EventRecords
  <2>5. v \in Writings /\ v.by = agent /\ v.board = board
    BY <2>1, WrittenTypes
  <2>. QED
    BY <2>4, <2>5
<1>4. Link(docs, e.changes, v.board)
  BY <1>0, <1>3, DiffLinks DEF TypeOK
<1>5. n \in Nat
  <2>1. Len(events) \in Nat /\ Len(starts) \in Nat
    BY <1>0, GroupingFacts, LenProperties DEF TypeOK
  <2>. QED
    BY <2>1
<1>6. FlushFragments(starts, <<e>>, <<v>>)
  BY <1>1
<1> HIDE DEF e, v, n
<1>7. /\ History(events', version') /\ Keeps(events', version')
      /\ Ends(events', version', v.board) /\ Len(events') = n
      /\ fragments' = <<>> /\ staged' = <<>>
  <2>1. e.actor = v.by
    BY <1>3
  <2>. QED
    BY <1>0, <1>3, <1>4, <1>6, <2>1, FlushWithEvent DEF n
<1>8. n \in DOMAIN events' /\ version'[n].board = board
  <2>1. n > 0
    BY <1>0, GroupingFacts, LenProperties DEF n, TypeOK
  <2>2. n \in DOMAIN events' /\ events' # <<>>
    BY <2>1, <1>5, <1>7, LenProperties, EmptySeq DEF History
  <2>. QED
    BY <2>2, <1>3, <1>7 DEF Ends
<1>9. MoreCheckpoints
  BY <1>0, <1>1, <1>5, <1>8, PeriodicCheckpoint DEF n
<1>10. checkpoints' # <<>>
  BY <1>0, <1>2, <1>9, HasHistory, StillCheckpoints
<1>11. snapshotMark' \in Nat
  BY <1>0, <1>1, <1>5, RecorderTypes DEF n
<1>12. docs' \in Board /\ Ends(events', version', docs')
  BY <1>1, <1>3, <1>7
<1>. QED
  BY <1>0, <1>2, <1>7, <1>9, <1>10, <1>11, <1>12, PublishingStepKeeps DEF TypeOK

\* The flush with which recording an activity begins.
LEMMA RecordActivityKeeps ==
  ASSUME IInv, NEW actor \in Actors, RecordActivity(actor)
  PROVE  Preserves
<1>0. TypeOK /\ HistoryInv
  BY DEF IInv
<1>1. PICK starts \in Groupings : FlushFragments(starts, <<>>, <<>>)
  BY DEF RecordActivity
<1>2. /\ UNCHANGED <<docs, clock, checkpoints, open, nextContext, snapshotMark>>
      /\ timer' = "off" /\ Idle /\ todo' = <<"append", "maybe">>
      /\ request' = [NoRequest EXCEPT !.actor = actor, !.kind = "activity"]
  BY DEF RecordActivity, Continue
<1>3. /\ History(events', version') /\ Keeps(events', version')
      /\ Ends(events', version', docs')
      /\ fragments' = <<>> /\ staged' = <<>>
  BY <1>0, <1>1, <1>2, FlushAlone
<1>4. MoreCheckpoints
  BY <1>0, <1>2, SameCheckpoints
<1>5. checkpoints' # <<>>
  BY <1>2, HasHistory
<1>6. todo' \in Seq(Steps)
  BY <1>2 DEF Steps
<1>7. request' \in Requests
  BY <1>2 DEF NoRequest, Requests, Kinds
<1>. QED
  BY <1>0, <1>2, <1>3, <1>4, <1>5, <1>6, <1>7, PublishingStepKeeps DEF TypeOK

\* An event without changes, linked from the canvas to itself.
LEMMA AppendStepKeeps == ASSUME IInv, AppendStep PROVE Preserves
<1>0. TypeOK /\ HistoryInv
  BY DEF IInv
<1> DEFINE e == Event(request.actor, request.kind, NoChanges, clock, 0)
           v == Written(docs, request.actor)
<1>1. PICK starts \in Groupings : FlushFragments(starts, <<e>>, <<v>>)
  BY DEF AppendStep
<1>2. /\ UNCHANGED <<docs, clock, checkpoints, open, nextContext, timer, snapshotMark>>
      /\ todo # <<>> /\ Head(todo) = "append" /\ NextStep
  BY DEF AppendStep, At
<1>3. /\ request.actor \in Actors \cup {Nobody} /\ request.kind \in Kinds
      /\ docs \in Board /\ clock \in Nat
  BY <1>0, <1>2 DEF TypeOK, Requests, IInv, HandlerState
<1>4. /\ e \in EventRecords /\ e.actor = request.actor /\ e.changes = NoChanges
      /\ v \in Writings /\ v.by = request.actor /\ v.board = docs
  BY <1>3, EventTypes, WrittenTypes, NoChangesLinks
<1> HIDE DEF e, v
<1>5. Link(docs, e.changes, v.board) /\ e.actor = v.by
  BY <1>3, <1>4, NoChangesLinks
<1>6. /\ History(events', version') /\ Keeps(events', version')
      /\ Ends(events', version', docs')
      /\ fragments' = <<>> /\ staged' = <<>>
  BY <1>0, <1>1, <1>2, <1>4, <1>5, FlushWithEvent
<1>7. MoreCheckpoints /\ checkpoints' # <<>>
  BY <1>0, <1>2, HasHistory, SameCheckpoints
<1>8. todo' \in Seq(Steps) /\ request' \in Requests
  BY <1>0, <1>2, NextStepTypes
<1>. QED
  BY <1>0, <1>2, <1>6, <1>7, <1>8, PublishingStepKeeps DEF TypeOK

\* The canvas is the board of the newest event when nothing is pending.
LEMMA CanvasIsNewest ==
  ASSUME IInv, checkpoints # <<>>, fragments = <<>>
  PROVE  /\ Len(events) \in DOMAIN events
         /\ version[Len(events)].board = docs
BY EmptySeq, LenProperties DEF IInv, HistoryInv, Imported, CanvasIsLast, TypeOK

\* The periodic checkpoint after a flush, taken of the live canvas.
LEMMA MaybeStepKeeps == ASSUME IInv, MaybeStep PROVE Preserves
<1>0. TypeOK /\ HistoryInv
  BY DEF IInv
<1>1. PICK due \in BOOLEAN :
        /\ IF CheckpointDue(Len(events), due)
             THEN \E starts \in Groupings : FlushFragments(starts, <<>>, <<>>)
             ELSE UNCHANGED <<events, version, fragments, staged>>
        /\ checkpoints' = checkpoints \o PeriodicCheckpoints(Len(events), docs, due)
        /\ snapshotMark' = MarkAfter(Len(events), due)
  BY DEF MaybeStep
<1>2. /\ UNCHANGED <<docs, clock, open, nextContext, timer>>
      /\ todo # <<>> /\ Head(todo) = "maybe" /\ Head(todo) # "legacy" /\ NextStep
  BY DEF MaybeStep, At
<1>3. checkpoints # <<>> /\ fragments = <<>> /\ staged = <<>>
  BY <1>0, <1>2, HasHistory, EmptySeq DEF TypeOK
<1>4. /\ History(events', version') /\ Keeps(events', version')
      /\ Ends(events', version', docs')
      /\ Len(events') = Len(events) /\ fragments' = <<>> /\ staged' = <<>>
  <2>1. CASE CheckpointDue(Len(events), due)
    <3>1. PICK starts \in Groupings : FlushFragments(starts, <<>>, <<>>)
      BY <1>1, <2>1
    <3>2. Len(starts) = 0 /\ Len(events) \in Nat
      BY <1>0, <1>3, FlushOfNothing, LenProperties DEF TypeOK
    <3>. QED
      BY <1>0, <1>2, <3>1, <3>2, FlushAlone
  <2>2. CASE ~CheckpointDue(Len(events), due)
    <3>1. UNCHANGED <<events, version, fragments, staged>>
      BY <1>1, <2>2
    <3>2. History(events, version)
      BY <1>0 DEF TypeOK, HistoryInv, History, Attribution
    <3>3. Keeps(events, version)
      BY <1>0, LenProperties DEF Keeps, TypeOK
    <3>4. Ends(events, version, docs)
      BY <1>3, CanvasIsNewest DEF Ends
    <3>. QED
      BY <1>2, <1>3, <3>1, <3>2, <3>3, <3>4
  <2>. QED
    BY <2>1, <2>2
<1>5. Len(events) \in Nat /\ Len(events) \in DOMAIN events
        /\ version[Len(events)].board = docs
  BY <1>0, <1>3, CanvasIsNewest, LenProperties DEF TypeOK
<1>6. Len(events) \in DOMAIN events' /\ version'[Len(events)].board = docs
  <2>1. events' # <<>> /\ Len(events) \in DOMAIN events'
    BY <1>0, <1>4, <1>5, LenProperties, EmptySeq DEF History, TypeOK
  <2>. QED
    BY <2>1, <1>2, <1>4 DEF Ends
<1>7. MoreCheckpoints
  BY <1>0, <1>1, <1>5, <1>6, PeriodicCheckpoint DEF TypeOK
<1>8. checkpoints' # <<>>
  BY <1>0, <1>3, <1>7, StillCheckpoints
<1>9. snapshotMark' \in Nat
  BY <1>0, <1>1, <1>5, RecorderTypes
<1>10. todo' \in Seq(Steps) /\ request' \in Requests
  BY <1>0, <1>2, NextStepTypes
<1>. QED
  BY <1>0, <1>2, <1>4, <1>7, <1>8, <1>9, <1>10, PublishingStepKeeps DEF TypeOK

\* The explicit checkpoint, based on the event just appended.
LEMMA ExplicitStepKeeps == ASSUME IInv, ExplicitStep PROVE Preserves
<1>0. TypeOK /\ HistoryInv
  BY DEF IInv
<1>1. PICK starts \in Groupings : FlushFragments(starts, <<>>, <<>>)
  BY DEF ExplicitStep
<1>2. /\ UNCHANGED <<docs, clock, open, nextContext, timer, snapshotMark>>
      /\ todo # <<>> /\ Head(todo) = "explicit" /\ Head(todo) # "legacy" /\ NextStep
      /\ checkpoints' = Append(checkpoints, Checkpoint(Len(events), "explicit", docs))
  BY DEF ExplicitStep, At
<1>3. checkpoints # <<>> /\ fragments = <<>>
  BY <1>2, HasHistory
<1>4. Len(starts) = 0 /\ Len(events) \in Nat
  BY <1>0, <1>3, FlushOfNothing, LenProperties DEF TypeOK
<1>5. /\ History(events', version') /\ Keeps(events', version')
      /\ Ends(events', version', docs')
      /\ Len(events') = Len(events) /\ fragments' = <<>> /\ staged' = <<>>
  BY <1>0, <1>1, <1>2, <1>4, FlushAlone
<1>6. Len(events) \in DOMAIN events
  BY <1>3, CanvasIsNewest
<1>7. Len(events) \in DOMAIN events' /\ version'[Len(events)].board = docs
  <2>1. events' # <<>> /\ Len(events) \in DOMAIN events'
    BY <1>0, <1>5, <1>6, LenProperties, EmptySeq DEF History, TypeOK
  <2>. QED
    BY <2>1, <1>2, <1>5 DEF Ends
<1> DEFINE cp == Checkpoint(Len(events), "explicit", docs)
<1>8. cp \in CheckpointRecords /\ cp.base = Len(events) /\ cp.board = docs
  BY <1>0, <1>4, CheckpointTypes DEF TypeOK
<1>9. checkpoints' = Longer(checkpoints, cp)
  <2>1. checkpoints \in Seq(CheckpointRecords)
    BY <1>0 DEF TypeOK
  <2> HIDE DEF cp
  <2>2. Append(checkpoints, cp) = checkpoints \o <<cp>>
    BY <1>8, <2>1, AppendIsConcat
  <2>. QED
    BY <1>2, <2>2 DEF Longer, cp
<1> HIDE DEF cp
<1>10. MoreCheckpoints /\ checkpoints' # <<>>
  BY <1>0, <1>7, <1>8, <1>9, OneCheckpoint
<1>11. todo' \in Seq(Steps) /\ request' \in Requests
  BY <1>0, <1>2, NextStepTypes
<1>. QED
  BY <1>0, <1>2, <1>5, <1>10, <1>11, PublishingStepKeeps DEF TypeOK

\* A restore: two events and two checkpoints, linked through the replayed board.
LEMMA RestoreAppliedKeeps == ASSUME IInv, RestoreApplied PROVE Preserves
<1>0. TypeOK /\ HistoryInv
  BY DEF IInv
<1> DEFINE restored == Reconstruct(request.target)
           after == IF restored = docs THEN clock ELSE clock + 1
           e == Event(request.actor, "restore.started", NoChanges, clock, request.target)
           f == Event(request.actor, "restore.completed", Diff(docs, restored), after,
                      request.target)
           v == Written(docs, request.actor)
           w == Written(restored, request.actor)
<1>1. PICK starts \in Groupings :
        /\ FlushFragments(starts, <<e, f>>, <<v, w>>)
        /\ checkpoints' = checkpoints \o
             <<Checkpoint(Len(events) + Len(starts) + 1, "pre_restore", docs),
               Checkpoint(Len(events) + Len(starts) + 1 + 1, "restore_completed", restored)>>
        /\ docs' = restored
        /\ clock' = after
  BY Zenon DEF RestoreApplied, RestoreCheckpoints
<1>2. /\ UNCHANGED <<open, nextContext, timer, snapshotMark>>
      /\ todo # <<>> /\ Head(todo) = "restore" /\ Head(todo) # "legacy" /\ NextStep
      /\ Reconstructable(request.target)
  BY DEF RestoreApplied, At
<1>3. restored \in Board
  <2>1. request.target \in DOMAIN events
    BY <1>2 DEF Reconstructable
  <2>2. restored = version[request.target].board
    BY <1>0, <2>1, ReplayOfHistory DEF ReplayExact
  <2>. QED
    BY <1>0, <2>1, <2>2, StoredElements
<1>4. /\ request.actor \in Actors \cup {Nobody} /\ request.target \in Nat
      /\ docs \in Board /\ clock \in Nat
  BY <1>0 DEF TypeOK, Requests
<1> HIDE DEF restored
<1>5. /\ e \in EventRecords /\ e.actor = request.actor /\ e.changes = NoChanges
      /\ v \in Writings /\ v.by = request.actor /\ v.board = docs
  <2>1. "restore.started" \in Kinds /\ NoChanges \in ChangeSets
    BY NoChangesLinks DEF Kinds
  <2>. QED
    BY <1>4, <2>1, EventTypes, WrittenTypes
<1>6. /\ f \in EventRecords /\ f.actor = request.actor /\ f.changes = Diff(docs, restored)
      /\ w \in Writings /\ w.by = request.actor /\ w.board = restored
  <2>1. "restore.completed" \in Kinds /\ Diff(docs, restored) \in ChangeSets
    BY <1>3, <1>4, DiffLinks DEF Kinds
  <2>2. after \in Nat
    BY <1>4
  <2>3. f \in EventRecords /\ f.actor = request.actor /\ f.changes = Diff(docs, restored)
    BY <1>4, <2>1, <2>2 DEF Event, EventRecords
  <2>4. w \in Writings /\ w.by = request.actor /\ w.board = restored
    BY <1>3, <1>4, WrittenTypes
  <2>. QED
    BY <2>3, <2>4
<1>7. clock' \in Nat
  BY <1>1, <1>4
<1> HIDE DEF e, f, v, w, after
<1>8. Link(docs, e.changes, v.board) /\ Link(v.board, f.changes, w.board)
        /\ e.actor = v.by /\ f.actor = w.by
  BY <1>3, <1>4, <1>5, <1>6, NoChangesLinks, DiffLinks
<1> DEFINE n == Len(events) + Len(starts)
<1>9. n \in Nat
  <2>1. Len(events) \in Nat /\ Len(starts) \in Nat
    BY <1>0, GroupingFacts, LenProperties DEF TypeOK
  <2>. QED
    BY <2>1
<1>10. /\ History(events', version') /\ Keeps(events', version')
       /\ Ends(events', version', w.board)
       /\ Len(events') = n + 2
       /\ version'[n + 1] = v /\ version'[n + 2] = w
       /\ fragments' = <<>> /\ staged' = <<>>
  <2>1. /\ HistoryInv /\ TypeOK /\ starts \in Groupings
        /\ FlushFragments(starts, <<e, f>>, <<v, w>>)
    BY <1>0, <1>1
  <2>2. /\ e \in EventRecords /\ f \in EventRecords /\ v \in Writings /\ w \in Writings
    BY <1>5, <1>6
  <2>3. /\ History(events', version') /\ Keeps(events', version')
        /\ Ends(events', version', w.board)
        /\ Len(events') = Len(events) + Len(starts) + 2
        /\ version'[Len(events) + Len(starts) + 1] = v
        /\ version'[Len(events) + Len(starts) + 2] = w
        /\ fragments' = <<>> /\ staged' = <<>>
    BY <2>1, <2>2, <1>8, FlushWithTwoEvents
  <2>. QED
    BY <2>3
<1>11. /\ docs' \in Board /\ Ends(events', version', docs')
  BY <1>1, <1>3, <1>6, <1>10
<1> HIDE DEF n
<1> DEFINE cp == Checkpoint(n + 1, "pre_restore", docs)
           cq == Checkpoint(n + 2, "restore_completed", restored)
<1>12. checkpoints' = checkpoints \o <<cp, cq>>
  <2>1. n + 1 + 1 = n + 2
    BY <1>9
  <2>. QED
    BY <1>1, <2>1 DEF n
<1>13. /\ cp \in CheckpointRecords /\ cp.base = n + 1 /\ cp.board = docs
       /\ cq \in CheckpointRecords /\ cq.base = n + 2 /\ cq.board = restored
  <2>1. n + 1 \in Nat /\ n + 2 \in Nat
    BY <1>9
  <2>. QED
    BY <2>1, <1>3, <1>4, CheckpointTypes
<1> HIDE DEF cp, cq
<1>14. n + 1 \in DOMAIN events' /\ n + 2 \in DOMAIN events'
  BY <1>9, <1>10, LenProperties DEF History
<1>15. MoreCheckpoints
  BY <1>0, <1>5, <1>6, <1>10, <1>12, <1>13, <1>14, TwoCheckpoints
<1>16. checkpoints' # <<>>
  BY <1>0, <1>2, <1>15, HasHistory, StillCheckpoints
<1>17. todo' \in Seq(Steps) /\ request' \in Requests
  BY <1>0, <1>2, NextStepTypes
<1>. QED
  BY <1>0, <1>2, <1>7, <1>10, <1>11, <1>15, <1>16, <1>17, PublishingStepKeeps DEF TypeOK

\* Every step keeps the invariant.
LEMMA NextKeeps == ASSUME IInv, [Next]_vars PROVE Preserves
<1>1. CASE Open
  BY <1>1, OpenKeeps
<1>2. CASE Crash \/ QuietTransaction \/ ImmediateWriteFails \/ TimerExpires
             \/ RestoreRefused \/ CloseStep \/ StepFails
             \/ \E s \in Sessions : DroppedPush(s)
  BY <1>2, MemoryStepKeeps
<1>3. CASE \E s \in Sessions : Push(s)
  BY <1>3, PushKeeps
<1>4. CASE \E a \in Agents : ImmediateWrite(a)
  BY <1>4, ImmediateWriteKeeps
<1>5. CASE \E a \in Actors : RecordActivity(a)
  BY <1>5, RecordActivityKeeps
<1>6. ASSUME NEW steps \in Seq(Steps), NEW req \in Requests, RecorderFlush(steps, req)
      PROVE  Preserves
  BY <1>6, RecorderFlushKeeps
<1>7. CASE TimerFires \/ CloseHandle
  <2>1. /\ <<>> \in Seq(Steps) /\ <<"close">> \in Seq(Steps) /\ NoRequest \in Requests
    BY DEF Steps, NoRequest, Requests, Kinds
  <2>. QED
    BY <1>6, <1>7, <2>1 DEF TimerFires, CloseHandle
<1>8. CASE \E a \in Actors : CreateCheckpoint(a)
  <2>1. PICK a \in Actors : CreateCheckpoint(a)
    BY <1>8
  <2> DEFINE req == [NoRequest EXCEPT !.actor = a, !.kind = "checkpoint.created"]
  <2>2. <<"append", "explicit">> \in Seq(Steps)
    BY DEF Steps
  <2>4. req \in Requests
    BY DEF NoRequest, Requests, Kinds
  <2>3. RecorderFlush(<<"append", "explicit">>, req)
    BY <2>1 DEF CreateCheckpoint
  <2>. QED
    BY <1>6, <2>2, <2>3, <2>4
<1>9. CASE \E a \in Actors, target \in DOMAIN events, expected \in 0 .. clock :
             RestoreVersion(a, target, expected)
  <2>1. PICK a \in Actors, target \in DOMAIN events, expected \in 0 .. clock :
               RestoreVersion(a, target, expected)
    BY <1>9
  <2> DEFINE req == [actor |-> a, kind |-> "restore", target |-> target,
                     expected |-> expected]
  <2>2. target \in Nat /\ expected \in Nat
    BY LenProperties DEF IInv, TypeOK
  <2>3. <<"restore">> \in Seq(Steps) /\ req \in Requests
    BY <2>2 DEF Steps, Requests, Kinds
  <2>4. RecorderFlush(<<"restore">>, req)
    BY <2>1 DEF RestoreVersion
  <2>. QED
    BY <1>6, <2>3, <2>4
<1>10. CASE LegacyImport
  BY <1>10, LegacyImportKeeps
<1>11. CASE AppendStep
  BY <1>11, AppendStepKeeps
<1>12. CASE MaybeStep
  BY <1>12, MaybeStepKeeps
<1>13. CASE ExplicitStep
  BY <1>13, ExplicitStepKeeps
<1>14. CASE RestoreApplied
  BY <1>14, RestoreAppliedKeeps
<1>15. CASE UNCHANGED vars
  <2>1. IInv'
    BY <1>15 DEF vars, IInv, TypeOK, HistoryInv, HandlerState, Chain, StagedChain,
         BoardBefore, CanvasIsLast, Imported, CheckpointsFaithful, Attribution
  <2>. QED
    BY <1>15, <2>1, KeepsUnchanged DEF vars, IInv, Preserves
<1>. QED
  BY <1>1, <1>2, <1>3, <1>4, <1>5, <1>7, <1>8, <1>9, <1>10, <1>11, <1>12, <1>13, <1>14,
     <1>15 DEF Next, Handler

-----------------------------------------------------------------------------
(* Theorems.                                                               *)

\* The inductive invariant: history, checkpoints, pending fragments and canvas
\* stay linked through every interleaving, failure and crash.
THEOREM Invariance == Spec => []IInv
<1>1. Init => IInv
  BY InitKeeps
<1>2. IInv /\ [Next]_vars => IInv'
  BY NextKeeps DEF Preserves
<1>. QED
  BY <1>1, <1>2, PTL DEF Spec

\* Every variable has its type.
THEOREM TypeCorrect == Spec => []TypeOK
<1>1. IInv => TypeOK
  BY DEF IInv
<1>. QED
  BY <1>1, Invariance, PTL

\* A checkpoint is the board as of the event it is based on.
THEOREM CheckpointsAreFaithful == Spec => []CheckpointsFaithful
<1>1. IInv => CheckpointsFaithful
  BY DEF IInv, HistoryInv
<1>. QED
  BY <1>1, Invariance, PTL

\* Events and fragments name the actor who left the board that way.
THEOREM ActorsAreRight == Spec => []Attribution
<1>1. IInv => Attribution
  BY DEF IInv, HistoryInv
<1>. QED
  BY <1>1, Invariance, PTL

\* Every event can be opened and shows the board exactly as it was, whichever
\* checkpoint the replay starts from.
THEOREM ReplayIsExact == Spec => []ReplayExact
<1>1. IInv => ReplayExact
  BY ReplayOfHistory DEF IInv
<1>. QED
  BY <1>1, Invariance, PTL

-----------------------------------------------------------------------------
(* What the durable history says of the canvas.                            *)

PendingOn(r) == {i \in DOMAIN fragments : r \in DOMAIN fragments[i].changes}

\* A record no fragment of an interval touches is on both of its boards the same.
LEMMA UntouchedByFragments ==
  ASSUME TypeOK, StagedChain, NEW r \in Records,
         NEW lo \in DOMAIN fragments, NEW hi \in DOMAIN fragments, lo <= hi,
         \A i \in lo + 1 .. hi : i \notin PendingOn(r)
  PROVE  staged[hi].board[r] = staged[lo].board[r]
<1> DEFINE Good == {i \in lo .. hi : staged[i].board[r] = staged[lo].board[r]}
<1>1. DOMAIN fragments = 1 .. Len(fragments) /\ Len(fragments) \in Nat
  BY LenProperties DEF TypeOK
<1>2. lo \in Nat /\ hi \in Nat /\ Good \in SUBSET (lo .. hi) /\ lo \in Good
  BY <1>1
<1>3. ASSUME NEW i \in lo .. hi - 1, i \in Good
      PROVE  i + 1 \in Good
  <2>1. /\ i + 1 \in lo + 1 .. hi /\ i + 1 \in DOMAIN fragments /\ i + 1 # 1
        /\ (i + 1) - 1 = i /\ i + 1 \in lo .. hi
    BY <1>1
  <2>2. Link(staged[i].board, fragments[i + 1].changes, staged[i + 1].board)
    BY <2>1 DEF StagedChain, BoardBefore
  <2>3. r \notin DOMAIN fragments[i + 1].changes
    BY <2>1 DEF PendingOn
  <2>4. staged[i].board[r] = staged[lo].board[r]
    BY <1>3
  <2>5. staged[i + 1].board[r] = staged[i].board[r]
    BY <2>2, <2>3 DEF Link
  <2>. QED
    BY <2>1, <2>4, <2>5
<1>4. \A i \in lo .. hi : i \in Good
  <2> HIDE DEF Good
  <2>. QED
    BY <1>2, <1>3, IntervalInduction
<1>. QED
  BY <1>1, <1>4

\* The newest event's board with the pending fragments on top is the canvas.
LEMMA CanvasOfDurableState ==
  ASSUME IInv, checkpoints # <<>>
  PROVE  CanvasOfHistory = docs
<1>0. TypeOK /\ HistoryInv /\ StagedChain
  BY DEF IInv, HistoryInv
<1>1. /\ DOMAIN fragments = 1 .. Len(fragments) /\ Len(fragments) \in Nat
      /\ Len(staged) = Len(fragments)
      /\ Len(events) \in DOMAIN events /\ Len(version) = Len(events)
  BY <1>0, LenProperties, EmptySeq DEF TypeOK, HistoryInv, Imported
<1>2. Reconstruct(Len(events)) = version[Len(events)].board
  BY <1>0, <1>1, ReplayOfHistory DEF ReplayExact
<1>3. ASSUME NEW r \in Records
      PROVE  (IF PendingOn(r) = {}
                THEN Reconstruct(Len(events))[r]
                ELSE LET i == CHOOSE x \in PendingOn(r) : \A y \in PendingOn(r) : x >= y
                     IN  fragments[i].changes[r].after)
             = docs[r]
  <2>1. CASE PendingOn(r) = {} /\ fragments = <<>>
    BY <2>1, <1>0, <1>1, <1>2, EmptySeq DEF HistoryInv, CanvasIsLast
  <2>2. CASE PendingOn(r) = {} /\ fragments # <<>>
    <3>1. 1 \in DOMAIN fragments /\ Len(fragments) \in DOMAIN fragments /\ 1 <= Len(fragments)
      BY <2>2, <1>0, <1>1, EmptySeq DEF TypeOK
    <3>2. staged[Len(fragments)].board[r] = staged[1].board[r]
      BY <2>2, <3>1, <1>0, UntouchedByFragments
    <3>3. Link(version[Len(events)].board, fragments[1].changes, staged[1].board)
      BY <3>1, <1>1 DEF HistoryInv, StagedChain, BoardBefore, IInv
    <3>4. r \notin DOMAIN fragments[1].changes
      BY <2>2, <3>1 DEF PendingOn
    <3>5. docs = staged[Len(fragments)].board
      BY <2>2, <1>0, <1>1 DEF HistoryInv, CanvasIsLast
    <3>. QED
      BY <2>2, <3>2, <3>3, <3>4, <3>5, <1>2 DEF Link
  <2>3. CASE PendingOn(r) # {}
    <3> DEFINE i == CHOOSE x \in PendingOn(r) : \A y \in PendingOn(r) : x >= y
    <3>1. i \in PendingOn(r) /\ \A y \in PendingOn(r) : i >= y
      <4>1. PendingOn(r) \in SUBSET (0 .. Len(fragments))
        BY <1>1 DEF PendingOn
      <4>2. \E x \in PendingOn(r) : \A y \in PendingOn(r) : x >= y
        BY <4>1, <1>1, <2>3, GreatestNatural
      <4>. QED
        BY <4>2
    <3> HIDE DEF i
    <3>2. i \in DOMAIN fragments /\ r \in DOMAIN fragments[i].changes /\ i <= Len(fragments)
            /\ Len(fragments) \in DOMAIN fragments
      BY <3>1, <1>1 DEF PendingOn
    <3>3. fragments[i].changes[r].after = staged[i].board[r]
      BY <3>2, <1>0 DEF StagedChain, Link
    <3>4. \A y \in i + 1 .. Len(fragments) : y \notin PendingOn(r)
      BY <3>1, <3>2, <1>1
    <3>5. staged[Len(fragments)].board[r] = staged[i].board[r]
      BY <3>2, <3>4, <1>0, UntouchedByFragments
    <3>6. docs = staged[Len(fragments)].board
      BY <3>2, <1>0, <1>1, EmptySeq DEF HistoryInv, CanvasIsLast
    <3>. QED
      BY <2>3, <3>3, <3>5, <3>6 DEF i
  <2>. QED
    BY <2>1, <2>2, <2>3
<1>4. docs \in [Records -> Contents \cup {Absent}]
  BY <1>0 DEF TypeOK, Board
<1>. QED
  BY <1>3, <1>4 DEF CanvasOfHistory, PendingOn

-----------------------------------------------------------------------------
(* More theorems.                                                          *)

\* No edit of the canvas is missing from the durable history, at any commit and
\* after any crash.
THEOREM CanvasIsAccounted == Spec => []CanvasAccounted
<1>1. IInv => CanvasAccounted
  BY CanvasOfDurableState DEF CanvasAccounted
<1>. QED
  BY <1>1, Invariance, PTL

\* What the timeline shows for an event never changes.
THEOREM PastStaysFixed == Spec => PastIsFixed
<1>0. IInv' => ReplayExact'
  <2>1. IInv => ReplayExact
    BY ReplayOfHistory DEF IInv
  <2>. QED
    BY <2>1, PTL
<1>1. ASSUME IInv, [Next]_vars
      PROVE  \A target \in DOMAIN events :
               Reconstructable(target)' /\ Reconstruct(target)' = Reconstruct(target)
  <2> SUFFICES ASSUME NEW target \in DOMAIN events
               PROVE  Reconstructable(target)' /\ Reconstruct(target)' = Reconstruct(target)
    OBVIOUS
  <2>1. IInv' /\ Keeps(events', version')
    BY <1>1, NextKeeps DEF Preserves
  <2>2. ReplayExact
    BY <1>1, ReplayOfHistory DEF IInv
  <2>3. ReplayExact'
    BY <1>0, <2>1
  <2>4. target \in DOMAIN events' /\ version'[target] = version[target]
    <3>1. /\ events \in Seq(EventRecords) /\ events' \in Seq(EventRecords)
          /\ Len(events') >= Len(events)
      BY <1>1, <2>1 DEF IInv, TypeOK, Keeps
    <3>2. target \in DOMAIN events'
      BY <3>1, LenProperties
    <3>. QED
      BY <2>1, <3>2 DEF Keeps
  <2>5. Reconstructable(target)' /\ Reconstruct(target)' = version'[target].board
    BY <2>3, <2>4 DEF ReplayExact
  <2>6. Reconstruct(target) = version[target].board
    BY <2>2 DEF ReplayExact
  <2>. QED
    BY <2>4, <2>5, <2>6
<1>. QED
  BY <1>1, Invariance, PTL DEF Spec, PastIsFixed
-----------------------------------------------------------------------------
(* What a step does, whichever action takes it: it leaves the history and   *)
(* the canvas alone, stages one edit, imports the board, or publishes what  *)
(* is pending and at most two events after it.                              *)

RestoreKinds == {"restore.started", "restore.completed"}

\* No request is named as one of the events of a restore.
RequestPlain == request.kind \notin RestoreKinds

Quiet == UNCHANGED <<docs, clock, events, fragments, version, staged>>

Stages ==
  \E f \in EventRecords, w \in Writings :
    /\ fragments' = Append(fragments, f) /\ staged' = Append(staged, w)
    /\ clock' = clock + 1 /\ f.clock = clock' /\ f.kind \notin RestoreKinds
    /\ docs' \in Board /\ w.board = docs'
    /\ UNCHANGED <<events, version>>

Imports ==
  \E e \in EventRecords, v \in Writings :
    /\ events = <<>> /\ fragments = <<>>
    /\ events' = <<e>> /\ version' = <<v>>
    /\ e.clock = clock /\ e.kind \notin RestoreKinds /\ v.board = docs
    /\ UNCHANGED <<docs, clock, fragments, staged>>

\* Nothing beside what was pending.
PublishesPending ==
  /\ \E starts \in Groupings : FlushFragments(starts, <<>>, <<>>)
  /\ UNCHANGED <<docs, clock>>

\* And one event that leaves the board as it is now.
PublishesOne ==
  \E starts \in Groupings, e \in EventRecords, v \in Writings :
    /\ FlushFragments(starts, <<e>>, <<v>>)
    /\ clock' \in {clock, clock + 1} /\ e.clock = clock' /\ e.kind \notin RestoreKinds
    /\ docs' \in Board /\ v.board = docs'

\* And the two events of a restore, the first with its checkpoint.
PublishesRestore ==
  \E starts \in Groupings, e \in EventRecords, f \in EventRecords,
     v \in Writings, w \in Writings :
    /\ FlushFragments(starts, <<e, f>>, <<v, w>>)
    /\ e.kind = "restore.started" /\ e.clock = clock /\ v.board = docs
    /\ f.kind = "restore.completed" /\ f.clock = clock' /\ w.board = docs'
    /\ clock' \in {clock, clock + 1}
    /\ f.target \in DOMAIN events /\ docs' = version[f.target].board
    /\ events # <<>>
    /\ \E c \in DOMAIN checkpoints' :
         checkpoints'[c] = Checkpoint(Len(events) + Len(starts) + 1, "pre_restore", docs)

CheckpointsStay ==
  \A c \in DOMAIN checkpoints :
    c \in DOMAIN checkpoints' /\ checkpoints'[c] = checkpoints[c]

Publishes == PublishesPending \/ PublishesOne \/ PublishesRestore

Shaped == CheckpointsStay /\ (Quiet \/ Stages \/ Imports \/ Publishes)

\* Concatenation leaves the elements of its first argument in place.
LEMMA Prefix ==
  ASSUME NEW S, NEW s \in Seq(S), NEW t \in Seq(S)
  PROVE  /\ s \o t \in Seq(S) /\ Len(s \o t) = Len(s) + Len(t)
         /\ Len(s) \in Nat /\ Len(t) \in Nat /\ DOMAIN s = 1 .. Len(s) /\ DOMAIN t = 1 .. Len(t)
         /\ DOMAIN (s \o t) = 1 .. Len(s) + Len(t)
         /\ \A i \in 1 .. Len(s) : (s \o t)[i] = s[i]
         /\ \A i \in 1 .. Len(t) : (s \o t)[Len(s) + i] = t[i]
<1>1. s \o t \in Seq(S) /\ Len(s \o t) = Len(s) + Len(t)
  BY ConcatProperties
<1>2. Len(s) \in Nat /\ Len(t) \in Nat /\ DOMAIN s = 1 .. Len(s) /\ DOMAIN t = 1 .. Len(t)
  BY LenProperties
<1>3. DOMAIN (s \o t) = 1 .. Len(s) + Len(t)
  BY <1>1, LenProperties
<1>4. \A i \in 1 .. Len(s) : (s \o t)[i] = s[i]
  BY <1>2
<1>5. \A i \in 1 .. Len(t) : (s \o t)[Len(s) + i] = t[i]
  BY <1>2
<1>. QED
  BY <1>1, <1>2, <1>3, <1>4, <1>5

\* New checkpoints go after the others.
LEMMA CheckpointsAppended ==
  ASSUME TypeOK, NEW S, NEW more \in Seq(S), checkpoints' = checkpoints \o more
  PROVE  /\ CheckpointsStay
         /\ \A c \in 1 .. Len(more) : /\ Len(checkpoints) + c \in DOMAIN checkpoints'
                                      /\ checkpoints'[Len(checkpoints) + c] = more[c]
<1> DEFINE T == CheckpointRecords \cup S
<1>1. checkpoints \in Seq(T) /\ more \in Seq(T)
  BY DEF TypeOK
<1>2. /\ Len(checkpoints) \in Nat /\ Len(more) \in Nat /\ DOMAIN checkpoints = 1 .. Len(checkpoints)
      /\ DOMAIN checkpoints' = 1 .. Len(checkpoints) + Len(more)
      /\ \A i \in 1 .. Len(checkpoints) : checkpoints'[i] = checkpoints[i]
      /\ \A i \in 1 .. Len(more) : checkpoints'[Len(checkpoints) + i] = more[i]
  <2> HIDE DEF T
  <2>. QED
    BY <1>1, Prefix
<1>. QED
  BY <1>2 DEF CheckpointsStay

\* The periodic checkpoint, or none.
LEMMA PeriodicStays ==
  ASSUME TypeOK, NEW n, NEW board, NEW due,
         checkpoints' = checkpoints \o PeriodicCheckpoints(n, board, due)
  PROVE  CheckpointsStay
<1> DEFINE cp == Checkpoint(n, "periodic", board)
<1>1. PeriodicCheckpoints(n, board, due) \in Seq({cp})
  <2> HIDE DEF cp
  <2>1. <<>> \in Seq({cp}) /\ <<cp>> \in Seq({cp})
    OBVIOUS
  <2>2. PeriodicCheckpoints(n, board, due) = <<>> \/ PeriodicCheckpoints(n, board, due) = <<cp>>
    BY DEF PeriodicCheckpoints, cp
  <2>. QED
    BY <2>1, <2>2
<1>. QED
  BY <1>1, CheckpointsAppended

\* Requests are named for what was asked.
LEMMA RequestKeeps ==
  ASSUME RequestPlain, [Next]_vars PROVE RequestPlain'
<1>1. NoRequest.kind \notin RestoreKinds
  BY DEF NoRequest, RestoreKinds
<1>2. ASSUME NEW steps, NEW req, RecorderFlush(steps, req), req.kind \notin RestoreKinds
      PROVE  RequestPlain'
  BY <1>2 DEF RecorderFlush, Continue, RequestPlain
<1>3. ASSUME NextStep
      PROVE  RequestPlain'
  BY <1>1, <1>3 DEF NextStep, RequestPlain
<1>4. CASE Open \/ Crash \/ StepFails
  BY <1>1, <1>4 DEF Open, Continue, Crash, StepFails, RequestPlain
<1>5. CASE \/ QuietTransaction \/ ImmediateWriteFails \/ TimerExpires \/ UNCHANGED vars
           \/ \E s \in Sessions : Push(s) \/ DroppedPush(s)
           \/ \E a \in Agents : ImmediateWrite(a)
  <2>1. request' = request
    BY <1>5 DEF QuietTransaction, ImmediateWriteFails, TimerExpires, vars, Push, DroppedPush,
                ImmediateWrite
  <2>. QED
    BY <2>1 DEF RequestPlain
<1>6. CASE \E a \in Actors : RecordActivity(a)
  <2>1. PICK a \in Actors : request' = [NoRequest EXCEPT !.actor = a, !.kind = "activity"]
    BY <1>6 DEF RecordActivity, Continue
  <2>. QED
    BY <2>1 DEF RequestPlain, RestoreKinds, NoRequest
<1>7. CASE TimerFires \/ CloseHandle
  BY <1>1, <1>2, <1>7 DEF TimerFires, CloseHandle
<1>8. CASE \E a \in Actors : CreateCheckpoint(a)
  <2>1. PICK a \in Actors : CreateCheckpoint(a)
    BY <1>8
  <2> DEFINE req == [NoRequest EXCEPT !.actor = a, !.kind = "checkpoint.created"]
  <2>2. req.kind \notin RestoreKinds
    BY DEF RestoreKinds, NoRequest
  <2>. QED
    BY <1>2, <2>1, <2>2 DEF CreateCheckpoint
<1>9. CASE \E a \in Actors, target \in DOMAIN events, expected \in 0 .. clock :
             RestoreVersion(a, target, expected)
  <2>1. PICK a \in Actors, target \in DOMAIN events, expected \in 0 .. clock :
               RestoreVersion(a, target, expected)
    BY <1>9
  <2> DEFINE req == [actor |-> a, kind |-> "restore", target |-> target,
                     expected |-> expected]
  <2>2. req.kind \notin RestoreKinds
    BY DEF RestoreKinds
  <2>. QED
    BY <1>2, <2>1, <2>2 DEF RestoreVersion
<1>10. CASE Handler
  BY <1>3, <1>10 DEF Handler, LegacyImport, AppendStep, MaybeStep, ExplicitStep,
                     RestoreRefused, RestoreApplied, CloseStep
<1>. QED
  BY <1>4, <1>5, <1>6, <1>7, <1>8, <1>9, <1>10 DEF Next

\* Checkpoints that are not touched stay.
LEMMA SameStay == ASSUME checkpoints' = checkpoints PROVE CheckpointsStay
BY DEF CheckpointsStay

\* An edit of the canvas is named for what it does to the records.
LEMMA EditKinds ==
  \A changes : EventTypeForChanges(changes) \in Kinds \ RestoreKinds
BY DEF EventTypeForChanges, Kinds, RestoreKinds

\* The fields of an event beside its changes.
LEMMA EventFields ==
  \A actor, kind, changes, at, target :
    /\ Event(actor, kind, changes, at, target).actor = actor
    /\ Event(actor, kind, changes, at, target).kind = kind
    /\ Event(actor, kind, changes, at, target).clock = at
    /\ Event(actor, kind, changes, at, target).target = target
BY DEF Event

\* A person's edit.
LEMMA PushShape == ASSUME IInv, NEW session \in Sessions, Push(session) PROVE Shaped
<1>0. TypeOK
  BY DEF IInv
<1>1. PICK board \in Board \ {docs} :
        /\ docs' = board
        /\ fragments' = Append(fragments,
             Event(ContextOfPush(session), EventTypeForChanges(Diff(docs, board)),
                   Diff(docs, board), clock + 1, 0))
        /\ staged' = Append(staged, Written(board, session))
  BY DEF Push, ScheduleFlush
<1> DEFINE f == Event(ContextOfPush(session), EventTypeForChanges(Diff(docs, board)),
                      Diff(docs, board), clock + 1, 0)
           w == Written(board, session)
<1>2. UNCHANGED <<events, checkpoints, version>> /\ clock' = clock + 1
  BY DEF Push
<1>3. f \in EventRecords /\ f.clock = clock + 1 /\ f.kind \notin RestoreKinds
  <2>1. /\ session \in Actors \cup {Nobody} /\ docs \in Board /\ clock + 1 \in Nat /\ 0 \in Nat
        /\ ContextOfPush(session) = session
    BY <1>0 DEF Actors, TypeOK, ContextOfPush
  <2>2. EventTypeForChanges(Diff(docs, board)) \in Kinds \ RestoreKinds
    BY EditKinds
  <2>3. Diff(docs, board) \in ChangeSets
    BY <2>1, DiffLinks
  <2>4. f \in EventRecords
    BY <2>1, <2>2, <2>3, EventTypes
  <2>. QED
    BY <2>2, <2>4, EventFields
<1>4. w \in Writings /\ w.board = board
  BY WrittenTypes DEF Actors
<1> HIDE DEF f, w
<1>5. fragments' = Append(fragments, f) /\ staged' = Append(staged, w)
  BY <1>1 DEF f, w
<1>6. Stages
  BY <1>1, <1>2, <1>3, <1>4, <1>5 DEF Stages
<1>. QED
  BY <1>2, <1>6, SameStay DEF Shaped

\* A write of the HTTP API.
LEMMA ImmediateWriteShape == ASSUME IInv, NEW agent \in Agents, ImmediateWrite(agent) PROVE Shaped
<1>0. TypeOK
  BY DEF IInv
<1>1. PICK board \in Board \ {docs}, starts \in Groupings, due \in BOOLEAN :
        /\ FlushFragments(starts,
             <<Event(agent, EventTypeForChanges(Diff(docs, board)), Diff(docs, board),
                     clock + 1, 0)>>,
             <<Written(board, agent)>>)
        /\ docs' = board
        /\ checkpoints' = checkpoints \o
             PeriodicCheckpoints(Len(events) + Len(starts) + 1, board, due)
  BY DEF ImmediateWrite
<1> DEFINE e == Event(agent, EventTypeForChanges(Diff(docs, board)), Diff(docs, board),
                      clock + 1, 0)
           v == Written(board, agent)
<1>2. clock' = clock + 1
  BY DEF ImmediateWrite
<1>3. e \in EventRecords /\ e.clock = clock + 1 /\ e.kind \notin RestoreKinds
  <2>1. agent \in Actors \cup {Nobody} /\ docs \in Board /\ clock + 1 \in Nat /\ 0 \in Nat
    BY <1>0 DEF Actors, TypeOK
  <2>2. EventTypeForChanges(Diff(docs, board)) \in Kinds \ RestoreKinds
    BY EditKinds
  <2>3. Diff(docs, board) \in ChangeSets
    BY <2>1, DiffLinks
  <2>4. e \in EventRecords
    BY <2>1, <2>2, <2>3, EventTypes
  <2>. QED
    BY <2>2, <2>4, EventFields
<1>4. v \in Writings /\ v.board = board
  BY WrittenTypes DEF Actors
<1>5. FlushFragments(starts, <<e>>, <<v>>)
  BY <1>1
<1> HIDE DEF e, v
<1>6. PublishesOne
  BY <1>1, <1>2, <1>3, <1>4, <1>5 DEF PublishesOne
<1>7. CheckpointsStay
  BY <1>0, <1>1, PeriodicStays
<1>. QED
  BY <1>6, <1>7 DEF Shaped, Publishes

\* The import of a board.
LEMMA LegacyImportShape == ASSUME IInv, LegacyImport PROVE Shaped
<1>0. TypeOK /\ todo # <<>> /\ fragments = <<>>
  BY DEF IInv, HandlerState, LegacyImport, At
<1>1. CASE checkpoints # <<>>
  <2>1. Quiet /\ checkpoints' = checkpoints
    BY <1>1 DEF LegacyImport, Quiet
  <2>. QED
    BY <2>1, SameStay DEF Shaped
<1>2. CASE checkpoints = <<>>
  <2> DEFINE e == Event(Nobody, "board.imported", NoChanges, clock, 0)
             v == Written(docs, Nobody)
  <2>1. events = <<>> /\ version = <<>>
    BY <1>0, <1>2, EmptySeq DEF IInv, HistoryInv, Imported, TypeOK
  <2>2. /\ events' = Append(events, e) /\ version' = Append(version, v)
        /\ UNCHANGED <<docs, clock, fragments, staged>>
    BY <1>2 DEF LegacyImport
  <2>3. Append(<<>>, e) = <<e>> /\ Append(<<>>, v) = <<v>>
    <3> HIDE DEF e, v
    <3>. QED
      OBVIOUS
  <2>4. e \in EventRecords /\ e.clock = clock /\ e.kind \notin RestoreKinds
    <3>1. "board.imported" \in Kinds /\ "board.imported" \notin RestoreKinds
            /\ NoChanges \in ChangeSets /\ clock \in Nat /\ Nobody \in Actors \cup {Nobody}
      BY <1>0, NoChangesLinks DEF Kinds, RestoreKinds, TypeOK
    <3>. QED
      BY <3>1, EventTypes, EventFields
  <2>5. v \in Writings /\ v.board = docs
    BY <1>0, WrittenTypes DEF TypeOK
  <2> HIDE DEF e, v
  <2>6. Imports
    BY <1>0, <2>1, <2>2, <2>3, <2>4, <2>5 DEF Imports
  <2>7. CheckpointsStay
    BY <1>2 DEF CheckpointsStay
  <2>. QED
    BY <2>6, <2>7 DEF Shaped
<1>. QED
  BY <1>1, <1>2

\* An event that changes no record.
LEMMA AppendStepShape == ASSUME IInv, RequestPlain, AppendStep PROVE Shaped
<1>0. TypeOK
  BY DEF IInv
<1> DEFINE e == Event(request.actor, request.kind, NoChanges, clock, 0)
           v == Written(docs, request.actor)
<1>1. PICK starts \in Groupings : FlushFragments(starts, <<e>>, <<v>>)
  BY DEF AppendStep
<1>2. UNCHANGED <<docs, clock, checkpoints>>
  BY DEF AppendStep
<1>3. /\ request.actor \in Actors \cup {Nobody} /\ request.kind \in Kinds
      /\ docs \in Board /\ clock \in Nat
  BY <1>0 DEF TypeOK, Requests
<1>4. /\ e \in EventRecords /\ v \in Writings /\ v.board = docs
      /\ e.clock = clock /\ e.kind \notin RestoreKinds
  BY <1>3, EventTypes, WrittenTypes, NoChangesLinks, EventFields DEF RequestPlain
<1> HIDE DEF e, v
<1>5. PublishesOne
  BY <1>1, <1>2, <1>3, <1>4 DEF PublishesOne
<1>. QED
  BY <1>2, <1>5, SameStay DEF Shaped, Publishes

\* A restore.
LEMMA RestoreAppliedShape == ASSUME IInv, RestoreApplied PROVE Shaped
<1>0. TypeOK /\ HistoryInv
  BY DEF IInv
<1> DEFINE restored == Reconstruct(request.target)
           after == IF restored = docs THEN clock ELSE clock + 1
           e == Event(request.actor, "restore.started", NoChanges, clock, request.target)
           f == Event(request.actor, "restore.completed", Diff(docs, restored), after,
                      request.target)
           v == Written(docs, request.actor)
           w == Written(restored, request.actor)
<1>1. PICK starts \in Groupings :
        /\ FlushFragments(starts, <<e, f>>, <<v, w>>)
        /\ checkpoints' = checkpoints \o
             <<Checkpoint(Len(events) + Len(starts) + 1, "pre_restore", docs),
               Checkpoint(Len(events) + Len(starts) + 1 + 1, "restore_completed", restored)>>
        /\ docs' = restored
        /\ clock' = after
  BY Zenon DEF RestoreApplied, RestoreCheckpoints
<1>2. request.target \in DOMAIN events /\ restored = version[request.target].board
  <2>1. Reconstructable(request.target)
    BY DEF RestoreApplied
  <2>. QED
    BY <1>0, <2>1, ReplayOfHistory DEF Reconstructable, ReplayExact
<1>3. restored \in Board
  BY <1>0, <1>2, StoredElements
<1>4. /\ request.actor \in Actors \cup {Nobody} /\ request.target \in Nat
      /\ docs \in Board /\ clock \in Nat
  BY <1>0 DEF TypeOK, Requests
<1>5. after \in Nat /\ after \in {clock, clock + 1}
  BY <1>4
<1> HIDE DEF restored, after
<1>6. /\ e \in EventRecords /\ e.kind = "restore.started" /\ e.clock = clock
      /\ v \in Writings /\ v.board = docs
  <2>1. "restore.started" \in Kinds /\ NoChanges \in ChangeSets
    BY NoChangesLinks DEF Kinds
  <2>. QED
    BY <1>4, <2>1, EventTypes, WrittenTypes, EventFields
<1>7. /\ f \in EventRecords /\ f.kind = "restore.completed" /\ f.clock = after
      /\ f.target = request.target /\ w \in Writings /\ w.board = restored
  <2>1. "restore.completed" \in Kinds /\ Diff(docs, restored) \in ChangeSets
    BY <1>3, <1>4, DiffLinks DEF Kinds
  <2>. QED
    BY <1>3, <1>4, <1>5, <2>1, EventTypes, WrittenTypes, EventFields
<1> HIDE DEF e, f, v, w
<1> DEFINE cp == Checkpoint(Len(events) + Len(starts) + 1, "pre_restore", docs)
           cq == Checkpoint(Len(events) + Len(starts) + 1 + 1, "restore_completed", restored)
<1>8. checkpoints' = checkpoints \o <<cp, cq>>
  BY <1>1
<1> HIDE DEF cp, cq
<1>9. CheckpointsStay /\ \E c \in DOMAIN checkpoints' : checkpoints'[c] = cp
  <2>1. <<cp, cq>> \in Seq({cp, cq}) /\ Len(<<cp, cq>>) = 2 /\ <<cp, cq>>[1] = cp
    OBVIOUS
  <2>2. 1 \in 1 .. Len(<<cp, cq>>)
    BY <2>1
  <2>. QED
    BY <1>0, <1>8, <2>1, <2>2, CheckpointsAppended
<1>10. events # <<>>
  BY <1>0, <1>2, EmptySeq
<1>11. PublishesRestore
  <2>1. /\ FlushFragments(starts, <<e, f>>, <<v, w>>)
        /\ docs' = restored /\ clock' = after
    BY <1>1
  <2>2. \E c \in DOMAIN checkpoints' :
          checkpoints'[c] = Checkpoint(Len(events) + Len(starts) + 1, "pre_restore", docs)
    BY <1>9 DEF cp
  <2>3. /\ f.target \in DOMAIN events /\ docs' = version[f.target].board
        /\ w.board = docs' /\ f.clock = clock' /\ clock' \in {clock, clock + 1}
    BY <1>2, <1>5, <1>7, <2>1
  <2>. QED
    BY <1>6, <1>7, <1>10, <2>1, <2>2, <2>3 DEF PublishesRestore
<1>. QED
  BY <1>9, <1>11 DEF Shaped, Publishes

\* The checkpoint steps, which publish nothing or what is pending.
LEMMA CheckpointStepShape == ASSUME IInv, MaybeStep \/ ExplicitStep PROVE Shaped
<1>0. TypeOK
  BY DEF IInv
<1>1. CASE MaybeStep
  <2>1. PICK due \in BOOLEAN :
          /\ IF CheckpointDue(Len(events), due)
               THEN \E starts \in Groupings : FlushFragments(starts, <<>>, <<>>)
               ELSE UNCHANGED <<events, version, fragments, staged>>
          /\ checkpoints' = checkpoints \o PeriodicCheckpoints(Len(events), docs, due)
    BY <1>1 DEF MaybeStep
  <2>2. UNCHANGED <<docs, clock>>
    BY <1>1 DEF MaybeStep
  <2>3. PublishesPending \/ Quiet
    BY <2>1, <2>2 DEF PublishesPending, Quiet
  <2>4. CheckpointsStay
    BY <1>0, <2>1, PeriodicStays
  <2>. QED
    BY <2>3, <2>4 DEF Shaped, Publishes
<1>2. CASE ExplicitStep
  <2> DEFINE cp == Checkpoint(Len(events), "explicit", docs)
  <2>1. PublishesPending
    BY <1>2 DEF ExplicitStep, PublishesPending
  <2>2. checkpoints' = Append(checkpoints, cp)
    BY <1>2 DEF ExplicitStep
  <2> HIDE DEF cp
  <2>3. CheckpointsStay
    <3> DEFINE T == CheckpointRecords \cup {cp}
    <3>1. checkpoints \in Seq(T) /\ cp \in T
      BY <1>0 DEF TypeOK
    <3> HIDE DEF T
    <3>2. checkpoints' = checkpoints \o <<cp>> /\ <<cp>> \in Seq(T)
      BY <2>2, <3>1, AppendIsConcat
    <3>. QED
      BY <1>0, <3>2, CheckpointsAppended
  <2>. QED
    BY <2>1, <2>3 DEF Shaped, Publishes
<1>. QED
  BY <1>1, <1>2

\* Every step has one of the shapes.
LEMMA StepShape == ASSUME IInv, RequestPlain, [Next]_vars PROVE Shaped
<1>1. CASE \/ Crash \/ QuietTransaction \/ ImmediateWriteFails \/ TimerExpires
           \/ RestoreRefused \/ CloseStep \/ StepFails \/ UNCHANGED vars
           \/ \E s \in Sessions : DroppedPush(s)
  <2>1. UNCHANGED durable
    BY <1>1 DEF Crash, QuietTransaction, ImmediateWriteFails, TimerExpires, RestoreRefused,
                CloseStep, StepFails, DroppedPush, vars, durable
  <2>2. Quiet /\ checkpoints' = checkpoints
    BY <2>1 DEF durable, Quiet
  <2>. QED
    BY <2>2, SameStay DEF Shaped
<1>2. CASE \/ Open \/ \E a \in Actors : RecordActivity(a)
           \/ \E steps, req : RecorderFlush(steps, req)
  <2>1. PublishesPending /\ checkpoints' = checkpoints
    BY <1>2 DEF Open, RecordActivity, RecorderFlush, PublishesPending
  <2>. QED
    BY <2>1, SameStay DEF Shaped, Publishes
<1>3. CASE \/ TimerFires \/ CloseHandle \/ \E a \in Actors : CreateCheckpoint(a)
           \/ \E a \in Actors, target \in DOMAIN events, expected \in 0 .. clock :
                RestoreVersion(a, target, expected)
  <2>1. \E steps, req : RecorderFlush(steps, req)
    BY <1>3 DEF TimerFires, CloseHandle, CreateCheckpoint, RestoreVersion
  <2>. QED
    BY <1>2, <2>1
<1>. QED
  BY <1>1, <1>2, <1>3, PushShape, ImmediateWriteShape, LegacyImportShape, AppendStepShape,
     CheckpointStepShape, RestoreAppliedShape DEF Next, Handler

-----------------------------------------------------------------------------
(* The elements of a history after a flush.                                *)

\* The groups end in the order they come in.
LEMMA GroupEndsIncrease ==
  ASSUME TypeOK, NEW starts \in Groupings,
         NEW k \in DOMAIN starts, NEW l \in DOMAIN starts, k < l
  PROVE  GroupEnd(starts, k) < GroupEnd(starts, l)
<1>1. /\ starts \in Seq(DOMAIN fragments) /\ DOMAIN starts = 1 .. Len(starts)
      /\ Len(starts) \in Nat
      /\ DOMAIN fragments = 1 .. Len(fragments) /\ Len(fragments) \in Nat
  BY GroupingFacts, LenProperties DEF TypeOK
<1>2. k + 1 \in DOMAIN starts /\ k + 1 \in 2 .. Len(starts) /\ (k + 1) - 1 = k
  BY <1>1
<1>3. starts[k + 1] = GroupEnd(starts, k) + 1
  BY <1>2, GroupingFacts
<1>4. starts[k + 1] <= starts[l]
  <2>1. CASE k + 1 = l
    BY <2>1, <1>1, <1>2, GroupingFacts
  <2>2. CASE k + 1 # l
    <3>1. k + 1 < l
      BY <2>2, <1>1
    <3>2. starts[k + 1] < starts[l]
      BY <3>1, <1>2 DEF Groupings
    <3>. QED
      BY <3>2, <1>1, <1>2, GroupingFacts
  <2>. QED
    BY <2>1, <2>2
<1>5. /\ starts[l] <= GroupEnd(starts, l) /\ GroupEnd(starts, k) \in DOMAIN fragments
      /\ GroupEnd(starts, l) \in DOMAIN fragments /\ starts[l] \in DOMAIN fragments
      /\ starts[k + 1] \in DOMAIN fragments
  BY <1>2, GroupingFacts
<1>. QED
  BY <1>1, <1>3, <1>4, <1>5

\* The merged events are well-typed.
LEMMA PublishedTypes ==
  ASSUME TypeOK, HistoryInv, NEW starts \in Groupings
  PROVE  /\ events \o PublishedEvents(starts) \in Seq(EventRecords)
         /\ version \o PublishedVersions(starts) \in Seq(Writings)
         /\ Len(events \o PublishedEvents(starts)) = Len(events) + Len(starts)
         /\ Len(version \o PublishedVersions(starts)) = Len(events) + Len(starts)
BY PublishedHistory DEF History, Chain

\* What is stored where after a flush that publishes more events.
LEMMA FlushedElements ==
  ASSUME TypeOK, HistoryInv, NEW starts \in Groupings,
         NEW es \in Seq(EventRecords), NEW vs \in Seq(Writings), Len(vs) = Len(es),
         FlushFragments(starts, es, vs)
  PROVE  /\ Len(events) \in Nat /\ Len(starts) \in Nat /\ Len(es) \in Nat
         /\ DOMAIN events = 1 .. Len(events) /\ DOMAIN starts = 1 .. Len(starts)
         /\ DOMAIN es = 1 .. Len(es)
         /\ events' \in Seq(EventRecords) /\ version' \in Seq(Writings)
         /\ Len(events') = Len(events) + Len(starts) + Len(es)
         /\ Len(version') = Len(events')
         /\ DOMAIN events' = 1 .. Len(events) + Len(starts) + Len(es)
         /\ DOMAIN version' = DOMAIN events'
         /\ \A i \in DOMAIN events : events'[i] = events[i] /\ version'[i] = version[i]
         /\ \A k \in DOMAIN starts :
              /\ events'[Len(events) + k]
                   = MergedEvent(fragments[starts[k]], fragments[GroupEnd(starts, k)])
              /\ version'[Len(events) + k] = staged[GroupEnd(starts, k)]
         /\ \A k \in DOMAIN es :
              /\ events'[Len(events) + Len(starts) + k] = es[k]
              /\ version'[Len(events) + Len(starts) + k] = vs[k]
<1> DEFINE pe == PublishedEvents(starts)
           pv == PublishedVersions(starts)
           ee == events \o pe
           vv == version \o pv
<1>1. /\ Len(events) \in Nat /\ DOMAIN events = 1 .. Len(events)
      /\ Len(version) = Len(events) /\ DOMAIN version = DOMAIN events
      /\ Len(starts) \in Nat /\ DOMAIN starts = 1 .. Len(starts)
      /\ Len(es) \in Nat /\ DOMAIN es = 1 .. Len(es) /\ DOMAIN vs = DOMAIN es
      /\ Len(vs) = Len(es)
  BY GroupingFacts, LenProperties DEF TypeOK
<1>2. /\ ee \in Seq(EventRecords) /\ vv \in Seq(Writings)
      /\ Len(ee) = Len(events) + Len(starts) /\ Len(vv) = Len(events) + Len(starts)
  BY PublishedTypes
<1>3. /\ Len(pe) = Len(starts) /\ Len(pv) = Len(starts)
      /\ \A k \in DOMAIN starts :
           /\ pe[k] = MergedEvent(fragments[starts[k]], fragments[GroupEnd(starts, k)])
           /\ pv[k] = staged[GroupEnd(starts, k)]
  BY <1>1 DEF PublishedEvents, PublishedVersions
<1> HIDE DEF pe, pv
<1>4. /\ \A i \in DOMAIN events : ee[i] = events[i] /\ vv[i] = version[i]
      /\ \A k \in DOMAIN starts : ee[Len(events) + k] = pe[k] /\ vv[Len(events) + k] = pv[k]
  <2>1. \A i \in DOMAIN events : ee[i] = events[i] /\ vv[i] = version[i]
    BY <1>1, <1>3
  <2>2. \A k \in DOMAIN starts : ee[Len(events) + k] = pe[k] /\ vv[Len(events) + k] = pv[k]
    BY <1>1, <1>3
  <2>. QED
    BY <2>1, <2>2
<1>5. events' = ee \o es /\ version' = vv \o vs
  BY DEF FlushFragments, pe, pv
<1> HIDE DEF ee, vv
<1>6. /\ events' \in Seq(EventRecords)
      /\ Len(events') = Len(events) + Len(starts) + Len(es)
      /\ DOMAIN events' = 1 .. Len(events) + Len(starts) + Len(es)
      /\ \A i \in 1 .. Len(events) + Len(starts) : events'[i] = ee[i]
      /\ \A k \in DOMAIN es : events'[Len(events) + Len(starts) + k] = es[k]
  <2>1. /\ ee \o es \in Seq(EventRecords) /\ Len(ee \o es) = Len(ee) + Len(es)
        /\ DOMAIN (ee \o es) = 1 .. Len(ee) + Len(es)
        /\ \A i \in 1 .. Len(ee) : (ee \o es)[i] = ee[i]
        /\ \A i \in 1 .. Len(es) : (ee \o es)[Len(ee) + i] = es[i]
    <3>1. ee \in Seq(EventRecords)
      BY <1>2
    <3>. QED
      BY <3>1, Prefix
  <2>. QED
    BY <2>1, <1>1, <1>2, <1>5
<1>7. /\ version' \in Seq(Writings)
      /\ Len(version') = Len(events) + Len(starts) + Len(es)
      /\ DOMAIN version' = 1 .. Len(events) + Len(starts) + Len(es)
      /\ \A i \in 1 .. Len(events) + Len(starts) : version'[i] = vv[i]
      /\ \A k \in DOMAIN es : version'[Len(events) + Len(starts) + k] = vs[k]
  <2>1. /\ vv \o vs \in Seq(Writings) /\ Len(vv \o vs) = Len(vv) + Len(vs)
        /\ DOMAIN (vv \o vs) = 1 .. Len(vv) + Len(vs)
        /\ \A i \in 1 .. Len(vv) : (vv \o vs)[i] = vv[i]
        /\ \A i \in 1 .. Len(vs) : (vv \o vs)[Len(vv) + i] = vs[i]
    <3>1. vv \in Seq(Writings)
      BY <1>2
    <3>2. vs \in Seq(Writings)
      OBVIOUS
    <3>3. vv \o vs \in Seq(Writings) /\ Len(vv \o vs) = Len(vv) + Len(vs)
      BY <3>1, <3>2, ConcatProperties
    <3>4. DOMAIN (vv \o vs) = 1 .. Len(vv) + Len(vs)
      BY <3>3, LenProperties
    <3>5. Len(vv) \in Nat /\ Len(vs) \in Nat
      BY <3>1, <3>2, LenProperties
    <3>6. \A i \in 1 .. Len(vv) : (vv \o vs)[i] = vv[i]
      BY <3>5
    <3>7. \A i \in 1 .. Len(vs) : (vv \o vs)[Len(vv) + i] = vs[i]
      BY <3>5
    <3>. QED
      BY <3>3, <3>4, <3>6, <3>7
  <2>. QED
    BY <2>1, <1>1, <1>2, <1>5
<1>8. \A i \in DOMAIN events : events'[i] = events[i] /\ version'[i] = version[i]
  <2>1. \A i \in DOMAIN events : i \in 1 .. Len(events) + Len(starts)
    BY <1>1
  <2>. QED
    BY <2>1, <1>4, <1>6, <1>7
<1>9. \A k \in DOMAIN starts :
        /\ events'[Len(events) + k]
             = MergedEvent(fragments[starts[k]], fragments[GroupEnd(starts, k)])
        /\ version'[Len(events) + k] = staged[GroupEnd(starts, k)]
  <2>1. \A k \in DOMAIN starts : Len(events) + k \in 1 .. Len(events) + Len(starts)
    BY <1>1
  <2> SUFFICES ASSUME NEW k \in DOMAIN starts
               PROVE  /\ events'[Len(events) + k]
                           = MergedEvent(fragments[starts[k]], fragments[GroupEnd(starts, k)])
                      /\ version'[Len(events) + k] = staged[GroupEnd(starts, k)]
    OBVIOUS
  <2>2. events'[Len(events) + k] = ee[Len(events) + k] /\ ee[Len(events) + k] = pe[k]
    BY <2>1, <1>4, <1>6
  <2>3. version'[Len(events) + k] = vv[Len(events) + k] /\ vv[Len(events) + k] = pv[k]
    BY <2>1, <1>4, <1>7
  <2>4. /\ pe[k] = MergedEvent(fragments[starts[k]], fragments[GroupEnd(starts, k)])
        /\ pv[k] = staged[GroupEnd(starts, k)]
    BY <1>3
  <2>. QED
    BY <2>2, <2>3, <2>4
<1>. QED
  BY <1>1, <1>6, <1>7, <1>8, <1>9

\* The kind and clock of a merged event are those of its last fragment.
LEMMA MergedFromLast ==
  ASSUME TypeOK, NEW starts \in Groupings, NEW k \in DOMAIN starts
  PROVE  LET m == MergedEvent(fragments[starts[k]], fragments[GroupEnd(starts, k)])
         IN  m.clock = fragments[GroupEnd(starts, k)].clock /\ m.kind = fragments[starts[k]].kind
BY DEF MergedEvent, Event

-----------------------------------------------------------------------------
(* The order of the timeline.                                              *)

\* Fragments follow the events and come in the order of the clock too.
FragmentsOrdered ==
  /\ \A i, j \in DOMAIN fragments : i < j => fragments[i].clock <= fragments[j].clock
  /\ \A i \in DOMAIN fragments : fragments[i].clock <= clock
  /\ \A i \in DOMAIN events, j \in DOMAIN fragments : events[i].clock <= fragments[j].clock

Ordered == TimelineOrdered /\ FragmentsOrdered

\* Publishing events that are not older than the clock keeps the order.
LEMMA PublishingKeepsOrder ==
  ASSUME TypeOK, HistoryInv, Ordered, NEW starts \in Groupings,
         NEW es \in Seq(EventRecords), NEW vs \in Seq(Writings), Len(vs) = Len(es),
         FlushFragments(starts, es, vs),
         clock' \in Nat, clock <= clock',
         \A i \in DOMAIN es : clock <= es[i].clock /\ es[i].clock <= clock',
         \A i, j \in DOMAIN es : i < j => es[i].clock <= es[j].clock
  PROVE  Ordered'
<1> DEFINE a == Len(events)
           b == Len(starts)
           c == Len(es)
<1>1. /\ a \in Nat /\ b \in Nat /\ c \in Nat
      /\ DOMAIN events = 1 .. a /\ DOMAIN starts = 1 .. b /\ DOMAIN es = 1 .. c
      /\ events' \in Seq(EventRecords) /\ DOMAIN events' = 1 .. a + b + c
      /\ \A i \in 1 .. a : events'[i] = events[i]
      /\ \A k \in 1 .. b : events'[a + k]
           = MergedEvent(fragments[starts[k]], fragments[GroupEnd(starts, k)])
      /\ \A k \in 1 .. c : events'[a + b + k] = es[k]
  <2>1. /\ Len(events) \in Nat /\ Len(starts) \in Nat /\ Len(es) \in Nat
        /\ DOMAIN events = 1 .. Len(events) /\ DOMAIN starts = 1 .. Len(starts)
        /\ DOMAIN es = 1 .. Len(es)
        /\ events' \in Seq(EventRecords)
        /\ DOMAIN events' = 1 .. Len(events) + Len(starts) + Len(es)
        /\ \A i \in DOMAIN events : events'[i] = events[i]
        /\ \A k \in DOMAIN starts : events'[Len(events) + k]
             = MergedEvent(fragments[starts[k]], fragments[GroupEnd(starts, k)])
        /\ \A k \in DOMAIN es : events'[Len(events) + Len(starts) + k] = es[k]
    BY FlushedElements
  <2>. QED
    BY <2>1
<1>2. clock \in Nat /\ \A i \in DOMAIN events : events[i].clock \in Nat
  BY StoredElements DEF TypeOK, EventRecords
<1>3. \A i \in DOMAIN fragments : fragments[i].clock \in Nat
  <2>1. \A i \in DOMAIN fragments : fragments[i] \in EventRecords
    BY ElementOfSeq, LenProperties DEF TypeOK
  <2>. QED
    BY <2>1 DEF EventRecords
<1>4. \A i \in DOMAIN es : es[i].clock \in Nat
  <2>1. \A i \in DOMAIN es : es[i] \in EventRecords
    BY <1>1, ElementOfSeq
  <2>. QED
    BY <2>1 DEF EventRecords
<1>5. \A k \in 1 .. b : /\ GroupEnd(starts, k) \in DOMAIN fragments
                        /\ events'[a + k].clock = fragments[GroupEnd(starts, k)].clock
  <2> SUFFICES ASSUME NEW k \in DOMAIN starts
               PROVE  /\ GroupEnd(starts, k) \in DOMAIN fragments
                      /\ events'[a + k].clock = fragments[GroupEnd(starts, k)].clock
    BY <1>1
  <2>1. GroupEnd(starts, k) \in DOMAIN fragments
    BY GroupingFacts
  <2>2. events'[a + k] = MergedEvent(fragments[starts[k]], fragments[GroupEnd(starts, k)])
    BY <1>1
  <2>. QED
    BY <2>1, <2>2, MergedFromLast
<1>6. \A k, l \in 1 .. b : k < l => GroupEnd(starts, k) < GroupEnd(starts, l)
  BY <1>1, GroupEndsIncrease
<1>7. /\ \A i, j \in DOMAIN events : i < j => events[i].clock <= events[j].clock
      /\ \A i \in DOMAIN events : events[i].clock <= clock
      /\ \A i, j \in DOMAIN fragments : i < j => fragments[i].clock <= fragments[j].clock
      /\ \A i \in DOMAIN fragments : fragments[i].clock <= clock
      /\ \A i \in DOMAIN events, j \in DOMAIN fragments :
           events[i].clock <= fragments[j].clock
  BY DEF Ordered, TimelineOrdered, FragmentsOrdered
<1> HIDE DEF a, b, c
<1>8. /\ \A i \in 1 .. a : events'[i].clock = events[i].clock
      /\ \A i \in a + 1 .. a + b :
           /\ i - a \in 1 .. b /\ GroupEnd(starts, i - a) \in DOMAIN fragments
           /\ events'[i].clock = fragments[GroupEnd(starts, i - a)].clock
      /\ \A i \in a + b + 1 .. a + b + c :
           i - (a + b) \in 1 .. c /\ events'[i].clock = es[i - (a + b)].clock
  <2>1. \A i \in a + 1 .. a + b : i - a \in 1 .. b /\ i = a + (i - a)
    BY <1>1
  <2>2. \A i \in a + b + 1 .. a + b + c : i - (a + b) \in 1 .. c /\ i = a + b + (i - (a + b))
    BY <1>1
  <2>3. \A i \in a + 1 .. a + b :
           /\ GroupEnd(starts, i - a) \in DOMAIN fragments
           /\ events'[i].clock = fragments[GroupEnd(starts, i - a)].clock
    BY <1>5, <2>1
  <2>4. \A i \in a + b + 1 .. a + b + c : events'[i].clock = es[i - (a + b)].clock
    BY <1>1, <2>2
  <2>. QED
    BY <1>1, <2>1, <2>2, <2>3, <2>4
<1>9. /\ \A i \in 1 .. a + b + c : events'[i].clock \in Nat /\ events'[i].clock <= clock'
      /\ \A i \in 1 .. a + b : events'[i].clock <= clock
      /\ \A i \in a + b + 1 .. a + b + c : clock <= events'[i].clock
  <2>1. \A i \in 1 .. a : events'[i].clock \in Nat /\ events'[i].clock <= clock
    BY <1>1, <1>2, <1>7, <1>8
  <2>2. \A i \in a + 1 .. a + b : events'[i].clock \in Nat /\ events'[i].clock <= clock
    BY <1>3, <1>7, <1>8
  <2>3. \A i \in a + b + 1 .. a + b + c :
          /\ events'[i].clock \in Nat /\ clock <= events'[i].clock
          /\ events'[i].clock <= clock'
    <3> SUFFICES ASSUME NEW i \in a + b + 1 .. a + b + c
                 PROVE  /\ events'[i].clock \in Nat /\ clock <= events'[i].clock
                        /\ events'[i].clock <= clock'
      OBVIOUS
    <3> DEFINE k == i - (a + b)
    <3>1. k \in DOMAIN es /\ events'[i].clock = es[k].clock
      BY <1>1, <1>8
    <3> HIDE DEF k
    <3>. QED
      BY <3>1, <1>4
  <2>4. \A i \in 1 .. a + b + c : i \in 1 .. a \/ i \in a + 1 .. a + b \/ i \in a + b + 1 .. a + b + c
    BY <1>1
  <2>5. \A i \in 1 .. a + b : i \in 1 .. a \/ i \in a + 1 .. a + b
    BY <1>1
  <2>. QED
    BY <2>1, <2>2, <2>3, <2>4, <2>5, <1>2
<1>10. ASSUME NEW i \in 1 .. a + b + c, NEW j \in 1 .. a + b + c, i < j
       PROVE  events'[i].clock <= events'[j].clock
  <2>1. CASE j \in 1 .. a
    <3>1. i \in 1 .. a
      BY <2>1, <1>1, <1>10
    <3>. QED
      BY <2>1, <3>1, <1>1, <1>7, <1>8, <1>10
  <2>2. CASE i \in 1 .. a /\ j \in a + 1 .. a + b
    <3>1. i \in DOMAIN events /\ events'[i].clock = events[i].clock
      BY <2>2, <1>1, <1>8
    <3>2. /\ GroupEnd(starts, j - a) \in DOMAIN fragments
          /\ events'[j].clock = fragments[GroupEnd(starts, j - a)].clock
      BY <2>2, <1>8
    <3>3. events[i].clock <= fragments[GroupEnd(starts, j - a)].clock
      BY <3>1, <3>2, <1>7
    <3>. QED
      BY <3>1, <3>2, <3>3
  <2>3. CASE i \in a + 1 .. a + b /\ j \in a + 1 .. a + b
    <3>1. i - a \in 1 .. b /\ j - a \in 1 .. b /\ i - a < j - a
      BY <2>3, <1>1, <1>8, <1>10
    <3>2. GroupEnd(starts, i - a) < GroupEnd(starts, j - a)
      BY <3>1, <1>6
    <3>. QED
      BY <2>3, <3>2, <1>7, <1>8
  <2>4. CASE i \in 1 .. a + b /\ j \in a + b + 1 .. a + b + c
    BY <2>4, <1>2, <1>9
  <2>5. CASE i \in a + b + 1 .. a + b + c /\ j \in a + b + 1 .. a + b + c
    <3>1. i - (a + b) \in DOMAIN es /\ j - (a + b) \in DOMAIN es /\ i - (a + b) < j - (a + b)
      BY <2>5, <1>1, <1>8, <1>10
    <3>. QED
      BY <2>5, <3>1, <1>8
  <2>. QED
    BY <2>1, <2>2, <2>3, <2>4, <2>5, <1>1, <1>10
<1>11. fragments' = <<>> /\ DOMAIN fragments' = {}
  BY DEF FlushFragments
<1>. QED
  BY <1>1, <1>9, <1>10, <1>11 DEF Ordered, TimelineOrdered, FragmentsOrdered

\* Every step keeps the order.
LEMMA OrderedKeeps == ASSUME IInv, RequestPlain, Ordered, [Next]_vars PROVE Ordered'
<1>0. TypeOK /\ HistoryInv /\ Shaped /\ clock \in Nat /\ clock <= clock
  BY StepShape DEF IInv, TypeOK
<1>1. CASE Quiet
  BY <1>1 DEF Quiet, Ordered, TimelineOrdered, FragmentsOrdered
<1>2. CASE Stages
  <2>1. PICK f \in EventRecords, w \in Writings :
          /\ fragments' = Append(fragments, f)
          /\ clock' = clock + 1 /\ f.clock = clock'
          /\ UNCHANGED events
    BY <1>2 DEF Stages
  <2>2. fragments \in Seq(EventRecords) /\ Len(fragments) \in Nat
          /\ DOMAIN fragments = 1 .. Len(fragments)
    BY <1>0, LenProperties DEF TypeOK
  <2>3. /\ DOMAIN fragments' = 1 .. Len(fragments) + 1
        /\ fragments'[Len(fragments) + 1] = f
        /\ \A i \in DOMAIN fragments : fragments'[i] = fragments[i]
    BY <2>1, <2>2
  <2>4. /\ \A i \in DOMAIN events : events[i].clock \in Nat
        /\ \A i \in DOMAIN fragments : fragments[i].clock \in Nat
    <3>1. \A i \in DOMAIN fragments : fragments[i] \in EventRecords
      BY <2>2, ElementOfSeq
    <3>. QED
      BY <3>1, <1>0, StoredElements DEF EventRecords
  <2>5. TimelineOrdered'
    BY <2>1, <2>4, <1>0 DEF Ordered, TimelineOrdered
  <2>6. FragmentsOrdered'
    <3>1. \A i \in DOMAIN fragments' : i \in DOMAIN fragments \/ i = Len(fragments) + 1
      BY <2>2, <2>3
    <3>2. \A i \in DOMAIN fragments' : fragments'[i].clock <= clock'
      BY <3>1, <2>1, <2>3, <2>4, <1>0 DEF Ordered, FragmentsOrdered
    <3>3. \A i, j \in DOMAIN fragments' : i < j => fragments'[i].clock <= fragments'[j].clock
      <4> SUFFICES ASSUME NEW i \in DOMAIN fragments', NEW j \in DOMAIN fragments', i < j
                   PROVE  fragments'[i].clock <= fragments'[j].clock
        OBVIOUS
      <4>1. i \in DOMAIN fragments
        BY <2>2, <2>3
      <4>2. CASE j \in DOMAIN fragments
        BY <4>1, <4>2, <2>3 DEF Ordered, FragmentsOrdered
      <4>3. CASE j = Len(fragments) + 1
        BY <4>1, <4>3, <2>1, <2>3, <3>2
      <4>. QED
        BY <3>1, <4>2, <4>3
    <3>4. \A i \in DOMAIN events', j \in DOMAIN fragments' :
            events'[i].clock <= fragments'[j].clock
      <4> SUFFICES ASSUME NEW i \in DOMAIN events, NEW j \in DOMAIN fragments'
                   PROVE  events[i].clock <= fragments'[j].clock
        BY <2>1
      <4>1. CASE j \in DOMAIN fragments
        BY <4>1, <2>3 DEF Ordered, FragmentsOrdered
      <4>2. CASE j = Len(fragments) + 1
        <5>1. events[i].clock <= clock /\ events[i].clock \in Nat
          BY <2>4 DEF Ordered, TimelineOrdered
        <5>. QED
          BY <4>2, <5>1, <2>1, <2>3, <1>0
      <4>. QED
        BY <3>1, <4>1, <4>2
    <3>. QED
      BY <3>2, <3>3, <3>4 DEF FragmentsOrdered
  <2>. QED
    BY <2>5, <2>6 DEF Ordered
<1>3. CASE Imports
  <2>1. PICK e \in EventRecords : /\ events' = <<e>> /\ e.clock = clock
                                  /\ fragments = <<>> /\ UNCHANGED <<clock, fragments>>
    BY <1>3 DEF Imports
  <2>2. DOMAIN events' = {1} /\ events'[1] = e /\ DOMAIN fragments' = {}
    BY <2>1
  <2>. QED
    BY <2>1, <2>2, <1>0 DEF Ordered, TimelineOrdered, FragmentsOrdered
<1>4. CASE PublishesPending
  <2>1. PICK starts \in Groupings : FlushFragments(starts, <<>>, <<>>)
    BY <1>4 DEF PublishesPending
  <2>2. /\ <<>> \in Seq(EventRecords) /\ <<>> \in Seq(Writings) /\ DOMAIN <<>> = {}
        /\ clock' = clock /\ Len(<<>>) = Len(<<>>)
    BY <1>4 DEF PublishesPending
  <2>. QED
    BY <2>1, <2>2, <1>0, PublishingKeepsOrder
<1>5. CASE PublishesOne
  <2>1. PICK starts \in Groupings, e \in EventRecords, v \in Writings :
          /\ FlushFragments(starts, <<e>>, <<v>>)
          /\ clock' \in {clock, clock + 1} /\ e.clock = clock'
    BY <1>5 DEF PublishesOne
  <2>2. /\ <<e>> \in Seq(EventRecords) /\ <<v>> \in Seq(Writings)
        /\ DOMAIN <<e>> = {1} /\ <<e>>[1] = e /\ Len(<<v>>) = Len(<<e>>)
    BY <2>1
  <2>3. clock' \in Nat /\ clock <= clock' /\ clock' <= clock'
    BY <2>1, <1>0
  <2>. QED
    BY <2>1, <2>2, <2>3, <1>0, PublishingKeepsOrder
<1>6. CASE PublishesRestore
  <2>1. PICK starts \in Groupings, e \in EventRecords, f \in EventRecords,
             v \in Writings, w \in Writings :
          /\ FlushFragments(starts, <<e, f>>, <<v, w>>)
          /\ e.clock = clock /\ f.clock = clock' /\ clock' \in {clock, clock + 1}
    BY <1>6 DEF PublishesRestore
  <2>2. /\ <<e, f>> \in Seq(EventRecords) /\ <<v, w>> \in Seq(Writings)
        /\ DOMAIN <<e, f>> = {1, 2} /\ <<e, f>>[1] = e /\ <<e, f>>[2] = f
        /\ Len(<<v, w>>) = Len(<<e, f>>)
    BY <2>1
  <2>3. clock' \in Nat /\ clock <= clock' /\ clock' <= clock'
    BY <2>1, <1>0
  <2>4. \A i \in DOMAIN <<e, f>> : clock <= <<e, f>>[i].clock /\ <<e, f>>[i].clock <= clock'
    BY <2>1, <2>2, <2>3, <1>0
  <2>5. \A i, j \in DOMAIN <<e, f>> : i < j => <<e, f>>[i].clock <= <<e, f>>[j].clock
    BY <2>1, <2>2, <2>3, <1>0
  <2>. QED
    BY <2>1, <2>2, <2>3, <2>4, <2>5, <1>0, PublishingKeepsOrder
<1>. QED
  BY <1>0, <1>1, <1>2, <1>3, <1>4, <1>5, <1>6 DEF Shaped, Publishes

\* Requests of this server are never named as the events of a restore.
LEMMA PlainRequests == Spec => []RequestPlain
<1>1. Init => RequestPlain
  BY DEF Init, RequestPlain, NoRequest, RestoreKinds
<1>2. RequestPlain /\ [Next]_vars => RequestPlain'
  BY RequestKeeps
<1>. QED
  BY <1>1, <1>2, PTL DEF Spec

\* The timeline is in the order of the document clock, whatever waits in the
\* fragments when an event is published, and across merges, restores and crashes.
THEOREM TimelineIsOrdered == Spec => []TimelineOrdered
<1>1. Init => Ordered
  BY DEF Init, Ordered, TimelineOrdered, FragmentsOrdered
<1>2. IInv /\ RequestPlain /\ Ordered /\ [Next]_vars => Ordered'
  BY OrderedKeeps
<1>3. Ordered => TimelineOrdered
  BY DEF Ordered
<1>. QED
  BY <1>1, <1>2, <1>3, Invariance, PlainRequests, PTL DEF Spec

-----------------------------------------------------------------------------
(* Restores.                                                               *)

\* What RestoreUndoable says of one event, and that the target of a restore is one
\* of the events.
RestoreAt(i) ==
  /\ events[i].kind = "restore.completed" =>
       /\ events[i].target \in DOMAIN events
       /\ version[i].board = version[events[i].target].board
       /\ i > 2 /\ events[i - 1].kind = "restore.started"
       /\ version[i - 1].board = version[i - 2].board
       /\ \E c \in DOMAIN checkpoints :
            checkpoints[c] = Checkpoint(i - 1, "pre_restore", version[i - 2].board)
  /\ events[i].kind = "restore.started" =>
       i < Len(events) /\ events[i + 1].kind = "restore.completed"

PlainFragments == \A i \in DOMAIN fragments : fragments[i].kind \notin RestoreKinds

Undoable == PlainFragments /\ \A i \in DOMAIN events : RestoreAt(i)

\* A restore that is in the history stays as it is when the history grows.
LEMMA OldRestoresStay ==
  ASSUME TypeOK, Undoable, CheckpointsStay,
         NEW m \in Nat, Len(events') = m, DOMAIN events' = 1 .. m, m >= Len(events),
         \A i \in DOMAIN events : events'[i] = events[i] /\ version'[i] = version[i],
         NEW i \in DOMAIN events
  PROVE  RestoreAt(i)'
<1>1. DOMAIN events = 1 .. Len(events) /\ Len(events) \in Nat /\ events'[i] = events[i]
        /\ i \in Nat
  BY LenProperties DEF TypeOK
<1>2. RestoreAt(i)
  BY DEF Undoable
<1>3. ASSUME events[i].kind = "restore.completed"
      PROVE  /\ events[i].target \in DOMAIN events'
             /\ version'[i].board = version'[events[i].target].board
             /\ i > 2 /\ events'[i - 1].kind = "restore.started"
             /\ version'[i - 1].board = version'[i - 2].board
             /\ \E c \in DOMAIN checkpoints' :
                  checkpoints'[c] = Checkpoint(i - 1, "pre_restore", version'[i - 2].board)
  <2>1. /\ events[i].target \in DOMAIN events
        /\ version[i].board = version[events[i].target].board
        /\ i > 2 /\ events[i - 1].kind = "restore.started"
        /\ version[i - 1].board = version[i - 2].board
    BY <1>2, <1>3 DEF RestoreAt
  <2>2. PICK c \in DOMAIN checkpoints :
               checkpoints[c] = Checkpoint(i - 1, "pre_restore", version[i - 2].board)
    BY <1>2, <1>3 DEF RestoreAt
  <2>3. i - 1 \in DOMAIN events /\ i - 2 \in DOMAIN events
    BY <2>1, <1>1
  <2>4. /\ version'[i] = version[i] /\ version'[i - 1] = version[i - 1]
        /\ version'[i - 2] = version[i - 2] /\ events'[i - 1] = events[i - 1]
        /\ version'[events[i].target] = version[events[i].target]
    BY <2>1, <2>3
  <2>5. c \in DOMAIN checkpoints' /\ checkpoints'[c] = checkpoints[c]
    BY DEF CheckpointsStay
  <2>6. events[i].target \in DOMAIN events'
    BY <2>1, <1>1
  <2>. QED
    BY <2>1, <2>2, <2>4, <2>5, <2>6
<1>4. ASSUME events[i].kind = "restore.started"
      PROVE  i < Len(events') /\ events'[i + 1].kind = "restore.completed"
  <2>1. i < Len(events) /\ events[i + 1].kind = "restore.completed"
    BY <1>2, <1>4 DEF RestoreAt
  <2>2. i + 1 \in DOMAIN events
    BY <2>1, <1>1
  <2>. QED
    BY <2>1, <2>2, <1>1
<1>. QED
  BY <1>1, <1>3, <1>4 DEF RestoreAt

\* What is published before an event leaves the board the canvas.
LEMMA CanvasBeforeEvent ==
  ASSUME TypeOK, HistoryInv, events # <<>>, NEW starts \in Groupings,
         NEW es \in Seq(EventRecords), NEW vs \in Seq(Writings), Len(vs) = Len(es),
         FlushFragments(starts, es, vs)
  PROVE  /\ version'[Len(events) + Len(starts)].board = docs
         /\ Len(events) + Len(starts) \in Nat \ {0}
<1>1. /\ Len(events) \in Nat /\ Len(starts) \in Nat /\ DOMAIN starts = 1 .. Len(starts)
      /\ DOMAIN events = 1 .. Len(events)
      /\ \A i \in DOMAIN events : version'[i] = version[i]
      /\ \A k \in DOMAIN starts : version'[Len(events) + k] = staged[GroupEnd(starts, k)]
  BY FlushedElements
<1>2. Len(events) > 0 /\ Len(version) = Len(events)
  BY <1>1, EmptySeq DEF TypeOK
<1>3. CASE starts = <<>>
  <2>1. fragments = <<>> /\ Len(starts) = 0
    BY <1>3, GroupingFacts
  <2>2. docs = version[Len(events)].board
    BY <2>1, <1>2 DEF HistoryInv, CanvasIsLast
  <2>. QED
    BY <2>1, <2>2, <1>1, <1>2
<1>4. CASE starts # <<>>
  <2>1. /\ GroupEnd(starts, Len(starts)) = Len(fragments) /\ fragments # <<>>
        /\ Len(starts) \in DOMAIN starts
    BY <1>1, <1>4, GroupingFacts, EmptySeq
  <2>2. docs = staged[Len(fragments)].board
    BY <2>1 DEF HistoryInv, CanvasIsLast, TypeOK
  <2>3. version'[Len(events) + Len(starts)] = staged[Len(fragments)]
    BY <2>1, <1>1
  <2>. QED
    BY <2>2, <2>3, <1>1, <1>2
<1>. QED
  BY <1>3, <1>4

\* A merged event is named for an edit.
LEMMA MergedPlain ==
  ASSUME TypeOK, PlainFragments, NEW starts \in Groupings, NEW k \in DOMAIN starts
  PROVE  MergedEvent(fragments[starts[k]], fragments[GroupEnd(starts, k)]).kind
           \notin RestoreKinds
BY GroupingFacts, MergedFromLast DEF PlainFragments

\* Publishing keeps what is said of the events there are and of the merged ones.
LEMMA PublishingKeepsUndoable ==
  ASSUME TypeOK, HistoryInv, Undoable, CheckpointsStay, NEW starts \in Groupings,
         NEW es \in Seq(EventRecords), NEW vs \in Seq(Writings), Len(vs) = Len(es),
         FlushFragments(starts, es, vs),
         \A i \in Len(events) + Len(starts) + 1 .. Len(events) + Len(starts) + Len(es) :
           RestoreAt(i)'
  PROVE  Undoable'
<1> DEFINE a == Len(events)
           b == Len(starts)
           c == Len(es)
<1>1. /\ a \in Nat /\ b \in Nat /\ c \in Nat
      /\ DOMAIN events = 1 .. a /\ DOMAIN starts = 1 .. b /\ DOMAIN es = 1 .. c
      /\ Len(events') = a + b + c /\ DOMAIN events' = 1 .. a + b + c
      /\ \A i \in DOMAIN events : events'[i] = events[i] /\ version'[i] = version[i]
      /\ \A k \in DOMAIN starts : events'[a + k]
           = MergedEvent(fragments[starts[k]], fragments[GroupEnd(starts, k)])
  BY FlushedElements
<1>2. \A i \in DOMAIN events : RestoreAt(i)'
  <2>1. a + b + c \in Nat /\ a + b + c >= Len(events)
    BY <1>1
  <2> HIDE DEF a, b, c
  <2>. QED
    BY <1>1, <2>1, OldRestoresStay
<1>3. \A i \in a + 1 .. a + b : RestoreAt(i)'
  <2> SUFFICES ASSUME NEW i \in a + 1 .. a + b PROVE RestoreAt(i)'
    OBVIOUS
  <2>1. i - a \in DOMAIN starts /\ i = a + (i - a)
    BY <1>1
  <2>2. events'[i] = MergedEvent(fragments[starts[i - a]], fragments[GroupEnd(starts, i - a)])
    BY <1>1, <2>1
  <2>3. events'[i].kind \notin RestoreKinds
    BY <2>1, <2>2, MergedPlain DEF Undoable
  <2>. QED
    BY <2>3 DEF RestoreAt, RestoreKinds
<1>4. \A i \in a + b + 1 .. a + b + c : RestoreAt(i)'
  OBVIOUS
<1> HIDE DEF a, b, c
<1>5. ASSUME NEW i \in DOMAIN events' PROVE RestoreAt(i)'
  <2>1. i \in 1 .. a \/ i \in a + 1 .. a + b \/ i \in a + b + 1 .. a + b + c
    BY <1>1
  <2>. QED
    BY <2>1, <1>1, <1>2, <1>3, <1>4
<1>6. PlainFragments'
  BY DEF FlushFragments, PlainFragments
<1>. QED
  BY <1>5, <1>6 DEF Undoable

\* Every step keeps it.
LEMMA UndoableKeeps == ASSUME IInv, RequestPlain, Undoable, [Next]_vars PROVE Undoable'
<1>0. TypeOK /\ HistoryInv /\ Shaped /\ CheckpointsStay
  BY StepShape DEF IInv, Shaped
<1>1. /\ Len(events) \in Nat /\ DOMAIN events = 1 .. Len(events)
      /\ fragments \in Seq(EventRecords) /\ Len(fragments) \in Nat
      /\ DOMAIN fragments = 1 .. Len(fragments)
  BY <1>0, LenProperties DEF TypeOK
<1>2. ASSUME UNCHANGED <<events, version>>
      PROVE  \A i \in DOMAIN events' : RestoreAt(i)'
  <2> SUFFICES ASSUME NEW i \in DOMAIN events PROVE RestoreAt(i)'
    BY <1>2
  <2>1. \A j \in DOMAIN events : events'[j] = events[j] /\ version'[j] = version[j]
    BY <1>2
  <2>2. Len(events') = Len(events) /\ DOMAIN events' = 1 .. Len(events) /\ Len(events) >= Len(events)
    BY <1>1, <1>2
  <2>. QED
    BY <2>1, <2>2, <1>0, <1>1, OldRestoresStay
<1>3. CASE Quiet
  <2>1. UNCHANGED <<events, version, fragments>>
    BY <1>3 DEF Quiet
  <2>. QED
    BY <1>2, <2>1 DEF Undoable, PlainFragments
<1>4. CASE Stages
  <2>1. PICK f \in EventRecords :
               /\ fragments' = Append(fragments, f) /\ f.kind \notin RestoreKinds
               /\ UNCHANGED <<events, version>>
    BY <1>4 DEF Stages
  <2>2. PlainFragments'
    BY <2>1, <1>1 DEF Undoable, PlainFragments
  <2>. QED
    BY <1>2, <2>1, <2>2 DEF Undoable
<1>5. CASE Imports
  <2>1. PICK e \in EventRecords : /\ events' = <<e>> /\ e.kind \notin RestoreKinds
                                  /\ fragments' = fragments
    BY <1>5 DEF Imports
  <2>2. DOMAIN events' = {1} /\ events'[1].kind \notin RestoreKinds
    BY <2>1
  <2>3. \A i \in DOMAIN events' : RestoreAt(i)'
    BY <2>2 DEF RestoreAt, RestoreKinds
  <2>. QED
    BY <2>1, <2>3 DEF Undoable, PlainFragments
<1>6. CASE PublishesPending
  <2>1. PICK starts \in Groupings : FlushFragments(starts, <<>>, <<>>)
    BY <1>6 DEF PublishesPending
  <2> DEFINE n == Len(events) + Len(starts)
  <2>2. /\ <<>> \in Seq(EventRecords) /\ <<>> \in Seq(Writings) /\ Len(<<>>) = 0
        /\ n \in Nat
    BY <1>0, <1>1, GroupingFacts, LenProperties
  <2>3. \A i \in n + 1 .. n + Len(<<>>) : RestoreAt(i)'
    BY <2>2
  <2>. QED
    BY <2>1, <2>2, <2>3, <1>0, PublishingKeepsUndoable
<1>7. CASE PublishesOne
  <2>1. PICK starts \in Groupings, e \in EventRecords, v \in Writings :
               FlushFragments(starts, <<e>>, <<v>>) /\ e.kind \notin RestoreKinds
    BY <1>7 DEF PublishesOne
  <2> DEFINE es == <<e>>
             vs == <<v>>
  <2>2. /\ es \in Seq(EventRecords) /\ vs \in Seq(Writings) /\ DOMAIN es = {1}
        /\ es[1] = e /\ Len(vs) = Len(es) /\ Len(es) = 1
    OBVIOUS
  <2>3. FlushFragments(starts, es, vs)
    BY <2>1
  <2> HIDE DEF es, vs
  <2>4. \A k \in DOMAIN es : events'[Len(events) + Len(starts) + k] = es[k]
    BY <2>2, <2>3, <1>0, FlushedElements
  <2>5. ASSUME NEW i \in Len(events) + Len(starts) + 1 .. Len(events) + Len(starts) + Len(es)
        PROVE  RestoreAt(i)'
    <3>1. i = Len(events) + Len(starts) + 1
      <4>1. Len(es) = 1 /\ Len(events) + Len(starts) \in Nat
        BY <2>2, <1>0, <1>1, GroupingFacts, LenProperties
      <4>. QED
        BY <4>1
    <3>2. events'[i].kind \notin RestoreKinds
      BY <2>1, <2>2, <2>4, <3>1
    <3>. QED
      BY <3>2 DEF RestoreAt, RestoreKinds
  <2>. QED
    BY <2>2, <2>3, <2>5, <1>0, PublishingKeepsUndoable
<1>8. CASE PublishesRestore
  <2>1. PICK starts \in Groupings, e \in EventRecords, f \in EventRecords,
             v \in Writings, w \in Writings :
          /\ FlushFragments(starts, <<e, f>>, <<v, w>>)
          /\ e.kind = "restore.started" /\ v.board = docs
          /\ f.kind = "restore.completed" /\ w.board = docs'
          /\ f.target \in DOMAIN events /\ docs' = version[f.target].board
          /\ events # <<>>
          /\ \E c \in DOMAIN checkpoints' :
               checkpoints'[c] = Checkpoint(Len(events) + Len(starts) + 1, "pre_restore", docs)
    BY <1>8 DEF PublishesRestore
  <2> DEFINE es == <<e, f>>
             vs == <<v, w>>
             n == Len(events) + Len(starts)
  <2>2. /\ es \in Seq(EventRecords) /\ vs \in Seq(Writings) /\ DOMAIN es = {1, 2}
        /\ Len(es) = 2
        /\ es[1] = e /\ es[2] = f /\ vs[1] = v /\ vs[2] = w /\ Len(vs) = Len(es)
    OBVIOUS
  <2>3. FlushFragments(starts, es, vs)
    BY <2>1
  <2> HIDE DEF es, vs
  <2>4. /\ Len(events) \in Nat /\ Len(starts) \in Nat
        /\ Len(events') = n + Len(es) /\ DOMAIN events' = 1 .. n + Len(es)
        /\ \A i \in DOMAIN events : version'[i] = version[i]
        /\ \A k \in DOMAIN es : events'[n + k] = es[k] /\ version'[n + k] = vs[k]
    BY <2>2, <2>3, <1>0, FlushedElements
  <2>5. version'[n].board = docs /\ n \in Nat \ {0}
    BY <2>1, <2>2, <2>3, <1>0, CanvasBeforeEvent
  <2>6. /\ events'[n + 1] = e /\ events'[n + 2] = f
        /\ version'[n + 1] = v /\ version'[n + 2] = w
        /\ Len(events') = n + 2
    BY <2>2, <2>4
  <2>7. PICK c \in DOMAIN checkpoints' : checkpoints'[c] = Checkpoint(n + 1, "pre_restore", docs)
    BY <2>1
  <2>8. f.target \in DOMAIN events' /\ version'[f.target] = version[f.target]
    BY <2>1, <2>2, <2>4, <1>1
  <2> HIDE DEF n
  <2>9. ASSUME NEW i, i = n + 1 PROVE RestoreAt(i)'
    <3>1. events'[i].kind = "restore.started" /\ i < Len(events') /\ i + 1 = n + 2
      BY <2>1, <2>5, <2>6, <2>9
    <3>2. events'[i + 1].kind = "restore.completed"
      BY <3>1, <2>1, <2>6
    <3>. QED
      BY <3>1, <3>2 DEF RestoreAt
  <2>10. ASSUME NEW i, i = n + 2 PROVE RestoreAt(i)'
    <3>1. i > 2 /\ i - 1 = n + 1 /\ i - 2 = n
      BY <2>5, <2>10
    <3>2. /\ events'[i].kind = "restore.completed" /\ events'[i].target = f.target
          /\ version'[i].board = version'[events'[i].target].board
      BY <2>1, <2>6, <2>8, <2>10
    <3>3. /\ events'[i - 1].kind = "restore.started"
          /\ version'[i - 1].board = version'[i - 2].board
      BY <3>1, <2>1, <2>5, <2>6
    <3>4. checkpoints'[c] = Checkpoint(i - 1, "pre_restore", version'[i - 2].board)
      BY <3>1, <2>5, <2>7
    <3>. QED
      BY <3>1, <3>2, <3>3, <3>4, <2>8 DEF RestoreAt
  <2>11. ASSUME NEW i \in n + 1 .. n + Len(es) PROVE RestoreAt(i)'
    <3>1. i = n + 1 \/ i = n + 2
      BY <2>2, <2>5
    <3>. QED
      BY <3>1, <2>9, <2>10
  <2>. QED
    BY <2>2, <2>3, <2>11, <1>0, PublishingKeepsUndoable DEF n
<1>. QED
  BY <1>0, <1>3, <1>4, <1>5, <1>6, <1>7, <1>8 DEF Shaped, Publishes

\* A restore brings back exactly the board of its target, and can itself be undone:
\* the event before it and its checkpoint keep the board it replaced, for ever.
THEOREM RestoresAreUndoable == Spec => []RestoreUndoable
<1>1. Init => Undoable
  BY DEF Init, Undoable, PlainFragments
<1>2. IInv /\ RequestPlain /\ Undoable /\ [Next]_vars => Undoable'
  BY UndoableKeeps
<1>3. Undoable => RestoreUndoable
  BY DEF Undoable, RestoreAt, RestoreUndoable
<1>. QED
  BY <1>1, <1>2, <1>3, Invariance, PlainRequests, PTL DEF Spec

-----------------------------------------------------------------------------
(* The timeline is a log of versions.                                      *)

BoardsOf(vs) == [i \in DOMAIN vs |-> vs[i].board]

\* The boards of a sequence of ghost entries.
LEMMA BoardsOfTypes ==
  ASSUME NEW vs \in Seq(Writings)
  PROVE  /\ BoardsOf(vs) \in Seq(Board) /\ Len(BoardsOf(vs)) = Len(vs)
         /\ DOMAIN BoardsOf(vs) = DOMAIN vs
         /\ \A i \in DOMAIN vs : BoardsOf(vs)[i] = vs[i].board
<1>1. DOMAIN vs = 1 .. Len(vs) /\ Len(vs) \in Nat /\ \A i \in DOMAIN vs : vs[i] \in Writings
  BY ElementOfSeq, LenProperties
<1>2. \A i \in DOMAIN vs : vs[i].board \in Board
  BY <1>1 DEF Writings
<1>. QED
  BY <1>1, <1>2 DEF BoardsOf

\* What a reader sees at each event is the board as it was.
LEMMA TimelineIsVersions ==
  ASSUME TypeOK, HistoryInv
  PROVE  Timeline = BoardsOf(version) /\ StagedBoards = BoardsOf(staged)
<1>1. DOMAIN version = DOMAIN events
  BY StoredElements
<1>2. \A i \in DOMAIN events : Reconstruct(i) = version[i].board
  BY ReplayOfHistory DEF ReplayExact
<1>. QED
  BY <1>1, <1>2 DEF Timeline, BoardsOf, StagedBoards

\* The same after a step.
LEMMA TimelineAfter ==
  (TypeOK /\ HistoryInv)' =>
    Timeline' = BoardsOf(version') /\ StagedBoards' = BoardsOf(staged')
<1>1. TypeOK /\ HistoryInv => Timeline = BoardsOf(version) /\ StagedBoards = BoardsOf(staged)
  BY TimelineIsVersions
<1>2. (TypeOK /\ HistoryInv => Timeline = BoardsOf(version) /\ StagedBoards = BoardsOf(staged))'
  BY <1>1, PTL
<1>. QED
  BY <1>2

\* Each group is one fragment at least.
LEMMA GroupsAtMost ==
  ASSUME TypeOK, NEW starts \in Groupings
  PROVE  Len(starts) \in 0 .. Len(fragments)
<1>1. DOMAIN fragments = 1 .. Len(fragments) /\ Len(fragments) \in Nat
  BY LenProperties DEF TypeOK
<1>2. IsFiniteSet(1 .. Len(fragments)) /\ Cardinality(1 .. Len(fragments)) = Len(fragments)
  <2>1. 1 \in Int /\ Len(fragments) \in Int
    BY <1>1
  <2>2. /\ IsFiniteSet(1 .. Len(fragments))
        /\ Cardinality(1 .. Len(fragments))
             = IF 1 > Len(fragments) THEN 0 ELSE Len(fragments) - 1 + 1
    BY <2>1, FS_Interval
  <2>. QED
    BY <2>2, <1>1
<1>3. GroupStarts \subseteq 1 .. Len(fragments)
  BY <1>1 DEF GroupStarts
<1>4. Cardinality(GroupStarts) <= Len(fragments)
  BY <1>2, <1>3, FS_Subset
<1>5. Len(starts) = Cardinality(GroupStarts) /\ Len(starts) \in Nat
  BY GroupingFacts, LenProperties
<1>. QED
  BY <1>1, <1>4, <1>5

\* A sequence that runs through three others is their concatenation.
LEMMA ThreePieces ==
  ASSUME NEW S, NEW a \in Seq(S), NEW b \in Seq(S), NEW c \in Seq(S), NEW t \in Seq(S),
         Len(t) = Len(a) + Len(b) + Len(c),
         \A i \in 1 .. Len(a) : t[i] = a[i],
         \A i \in 1 .. Len(b) : t[Len(a) + i] = b[i],
         \A i \in 1 .. Len(c) : t[Len(a) + Len(b) + i] = c[i]
  PROVE  t = a \o b \o c
<1>1. Len(a) \in Nat /\ Len(b) \in Nat /\ Len(c) \in Nat
  BY LenProperties
<1>2. /\ a \o b \in Seq(S) /\ Len(a \o b) = Len(a) + Len(b)
  BY ConcatProperties
<1>3. \A i \in 1 .. Len(a) : (a \o b)[i] = a[i]
  BY <1>1
<1>4. \A i \in 1 .. Len(b) : (a \o b)[Len(a) + i] = b[i]
  BY <1>1
<1> DEFINE ab == a \o b
<1> HIDE DEF ab
<1>5. ab \in Seq(S) /\ Len(ab) = Len(a) + Len(b)
  BY <1>2 DEF ab
<1>6. ab \o c \in Seq(S) /\ Len(ab \o c) = Len(a) + Len(b) + Len(c)
  BY <1>5, ConcatProperties
<1>7. \A i \in 1 .. Len(ab) : (ab \o c)[i] = ab[i]
  BY <1>1, <1>5
<1>8. \A i \in 1 .. Len(c) : (ab \o c)[Len(ab) + i] = c[i]
  BY <1>1, <1>5
<1>9. \A i \in 1 .. Len(t) : t[i] = (ab \o c)[i]
  <2> SUFFICES ASSUME NEW i \in 1 .. Len(a) + Len(b) + Len(c)
               PROVE  t[i] = (ab \o c)[i]
    OBVIOUS
  <2>1. CASE i \in 1 .. Len(a)
    <3>1. i \in 1 .. Len(ab)
      BY <2>1, <1>1, <1>5
    <3>2. ab[i] = a[i]
      BY <2>1, <1>3 DEF ab
    <3>. QED
      BY <2>1, <3>1, <3>2, <1>7
  <2>2. CASE i \in Len(a) + 1 .. Len(a) + Len(b)
    <3>1. i - Len(a) \in 1 .. Len(b) /\ i = Len(a) + (i - Len(a))
      BY <2>2, <1>1
    <3>2. t[i] = b[i - Len(a)]
      BY <3>1
    <3>3. ab[i] = b[i - Len(a)]
      BY <3>1, <1>4 DEF ab
    <3>4. i \in 1 .. Len(ab)
      BY <2>2, <1>1, <1>5
    <3>. QED
      BY <3>2, <3>3, <3>4, <1>7
  <2>3. CASE i \in Len(a) + Len(b) + 1 .. Len(a) + Len(b) + Len(c)
    <3> DEFINE j == i - (Len(a) + Len(b))
    <3>1. j \in 1 .. Len(c) /\ i = Len(a) + Len(b) + j /\ i = Len(ab) + j
      BY <2>3, <1>1, <1>5
    <3> HIDE DEF j
    <3>2. t[i] = c[j]
      BY <3>1
    <3>3. (ab \o c)[i] = c[j]
      BY <3>1, <1>8
    <3>. QED
      BY <3>2, <3>3
  <2>4. \A x, y, z \in Nat : \A k \in 1 .. x + y + z :
          k \in 1 .. x \/ k \in x + 1 .. x + y \/ k \in x + y + 1 .. x + y + z
    OBVIOUS
  <2>5. \/ i \in 1 .. Len(a) \/ i \in Len(a) + 1 .. Len(a) + Len(b)
        \/ i \in Len(a) + Len(b) + 1 .. Len(a) + Len(b) + Len(c)
    BY <2>4, <1>1
  <2>. QED
    BY <2>1, <2>2, <2>3, <2>5
<1>. QED
  BY <1>6, <1>9, SeqEqual DEF ab

\* A flush extends the log by boards that were waiting, the last of them included,
\* and then by the boards of the events that follow.
LEMMA PublishingExtends ==
  ASSUME TypeOK, HistoryInv, TypeOK', HistoryInv', NEW starts \in Groupings,
         NEW es \in Seq(EventRecords), NEW vs \in Seq(Writings), Len(vs) = Len(es),
         FlushFragments(starts, es, vs)
  PROVE  Abstract!Extended(BoardsOf(vs)) /\ StagedBoards' = <<>>
<1> DEFINE log == BoardsOf(version)
           waiting == BoardsOf(staged)
           newest == BoardsOf(vs)
           n == Len(starts)
           pick == [k \in 1 .. n |-> GroupEnd(starts, k)]
           picked == [i \in 1 .. n |-> waiting[pick[i]]]
<1>1. Timeline = log /\ StagedBoards = waiting
  BY TimelineIsVersions
<1>2. Timeline' = BoardsOf(version') /\ StagedBoards' = BoardsOf(staged')
  BY TimelineAfter
<1>3. /\ Len(events) \in Nat /\ n \in Nat /\ Len(es) \in Nat /\ Len(vs) \in Nat
      /\ DOMAIN starts = 1 .. n /\ DOMAIN vs = 1 .. Len(es) /\ DOMAIN events = 1 .. Len(events)
      /\ DOMAIN version = DOMAIN events /\ Len(version) = Len(events)
      /\ version \in Seq(Writings) /\ staged \in Seq(Writings) /\ version' \in Seq(Writings)
      /\ Len(staged) = Len(fragments) /\ DOMAIN staged = DOMAIN fragments
      /\ DOMAIN fragments = 1 .. Len(fragments) /\ Len(fragments) \in Nat
  <2>1. Len(staged) = Len(fragments) /\ staged \in Seq(Writings) /\ version \in Seq(Writings)
          /\ fragments \in Seq(EventRecords) /\ Len(version) = Len(events)
    BY DEF TypeOK
  <2>2. DOMAIN staged = DOMAIN fragments /\ DOMAIN fragments = 1 .. Len(fragments)
          /\ Len(fragments) \in Nat /\ DOMAIN version = 1 .. Len(version)
    BY <2>1, LenProperties
  <2>3. /\ Len(events) \in Nat /\ n \in Nat /\ Len(es) \in Nat
        /\ DOMAIN starts = 1 .. n /\ DOMAIN events = 1 .. Len(events)
        /\ version' \in Seq(Writings)
    BY FlushedElements
  <2>4. DOMAIN vs = 1 .. Len(es) /\ Len(vs) \in Nat
    BY LenProperties
  <2>. QED
    BY <2>1, <2>2, <2>3, <2>4
<1>4. /\ DOMAIN version' = 1 .. Len(events) + n + Len(es)
      /\ Len(version') = Len(events) + n + Len(es)
      /\ \A i \in DOMAIN events : version'[i] = version[i]
      /\ \A k \in DOMAIN starts : version'[Len(events) + k] = staged[GroupEnd(starts, k)]
      /\ \A k \in DOMAIN es : version'[Len(events) + n + k] = vs[k]
      /\ DOMAIN es = 1 .. Len(es)
  <2>1. /\ DOMAIN events' = 1 .. Len(events) + Len(starts) + Len(es)
        /\ DOMAIN version' = DOMAIN events' /\ Len(version') = Len(events')
        /\ Len(events') = Len(events) + Len(starts) + Len(es)
        /\ \A i \in DOMAIN events : version'[i] = version[i]
        /\ \A k \in DOMAIN starts : version'[Len(events) + k] = staged[GroupEnd(starts, k)]
        /\ \A k \in DOMAIN es : version'[Len(events) + Len(starts) + k] = vs[k]
        /\ DOMAIN es = 1 .. Len(es)
    BY FlushedElements
  <2>. QED
    BY <2>1
<1>5. /\ log \in Seq(Board) /\ Len(log) = Len(events)
      /\ \A i \in DOMAIN events : log[i] = version[i].board
  BY <1>3, BoardsOfTypes
<1>6. /\ waiting \in Seq(Board) /\ DOMAIN waiting = DOMAIN fragments
      /\ Len(waiting) = Len(fragments)
      /\ \A i \in DOMAIN fragments : waiting[i] = staged[i].board
  BY <1>3, BoardsOfTypes
<1>7. /\ newest \in Seq(Board) /\ Len(newest) = Len(es)
      /\ \A i \in 1 .. Len(es) : newest[i] = vs[i].board
  BY <1>3, BoardsOfTypes
<1>8. /\ BoardsOf(version') \in Seq(Board)
      /\ Len(BoardsOf(version')) = Len(events) + n + Len(es)
      /\ \A i \in 1 .. Len(events) + n + Len(es) : BoardsOf(version')[i] = version'[i].board
  <2>1. version' \in Seq(Writings)
    BY <1>3
  <2>2. /\ BoardsOf(version') \in Seq(Board) /\ Len(BoardsOf(version')) = Len(version')
        /\ \A i \in DOMAIN version' : BoardsOf(version')[i] = version'[i].board
    BY <2>1, BoardsOfTypes
  <2>. QED
    BY <2>2, <1>4
<1>9. n \in 0 .. Len(fragments)
  BY GroupsAtMost
<1>10. pick \in [1 .. n -> DOMAIN fragments]
  BY <1>3, GroupingFacts
<1>11. \A i, j \in 1 .. n : i < j => pick[i] < pick[j]
  <2>1. \A i, j \in DOMAIN starts : i < j => GroupEnd(starts, i) < GroupEnd(starts, j)
    BY GroupEndsIncrease
  <2>. QED
    BY <2>1, <1>3
<1>12. waiting # <<>> => n > 0 /\ pick[n] = Len(fragments)
  <2> SUFFICES ASSUME waiting # <<>> PROVE n > 0 /\ pick[n] = Len(fragments)
    OBVIOUS
  <2>1. fragments # <<>>
    BY <1>6, EmptySeq DEF TypeOK
  <2>2. starts # <<>> /\ GroupEnd(starts, n) = Len(fragments)
    BY <2>1, GroupingFacts
  <2>3. n > 0
    BY <2>2, <1>3, EmptySeq, GroupingFacts
  <2>. QED
    BY <2>2, <2>3, <1>3
<1>13. /\ picked \in Seq(Board) /\ Len(picked) = n
       /\ \A k \in 1 .. n : picked[k] = staged[GroupEnd(starts, k)].board
  <2>1. \A k \in 1 .. n : /\ pick[k] = GroupEnd(starts, k) /\ pick[k] \in DOMAIN fragments
                          /\ waiting[pick[k]] \in Board
                          /\ waiting[pick[k]] = staged[GroupEnd(starts, k)].board
    <3>1. \A i \in DOMAIN fragments : waiting[i] \in Board
      BY <1>6, ElementOfSeq, LenProperties
    <3>2. \A k \in 1 .. n : pick[k] = GroupEnd(starts, k) /\ pick[k] \in DOMAIN fragments
      BY <1>10
    <3> HIDE DEF waiting, pick
    <3>. QED
      BY <3>1, <3>2, <1>6
  <2> HIDE DEF waiting, pick
  <2>. QED
    BY <2>1, <1>3
<1> HIDE DEF log, waiting, newest, pick, picked
<1>14. BoardsOf(version') = log \o picked \o newest
  <2>1. /\ BoardsOf(version') \in Seq(Board)
        /\ Len(BoardsOf(version')) = Len(log) + Len(picked) + Len(newest)
    BY <1>5, <1>7, <1>8, <1>13
  <2>2. \A i \in 1 .. Len(log) : BoardsOf(version')[i] = log[i]
    <3> SUFFICES ASSUME NEW i \in 1 .. Len(log) PROVE BoardsOf(version')[i] = log[i]
      OBVIOUS
    <3>1. i \in DOMAIN events /\ i \in 1 .. Len(events) + n + Len(es)
      BY <1>3, <1>5
    <3>2. BoardsOf(version')[i] = version'[i].board
      BY <3>1, <1>8
    <3>3. version'[i] = version[i]
      BY <3>1, <1>4
    <3>. QED
      BY <3>1, <3>2, <3>3, <1>5
  <2>3. \A i \in 1 .. Len(picked) : BoardsOf(version')[Len(log) + i] = picked[i]
    <3> SUFFICES ASSUME NEW i \in 1 .. n
                 PROVE  BoardsOf(version')[Len(events) + i] = picked[i]
      BY <1>5, <1>13
    <3>1. Len(events) + i \in 1 .. Len(events) + n + Len(es)
      BY <1>3
    <3>2. BoardsOf(version')[Len(events) + i] = version'[Len(events) + i].board
      BY <3>1, <1>8
    <3>3. version'[Len(events) + i] = staged[GroupEnd(starts, i)]
      BY <1>3, <1>4
    <3>. QED
      BY <3>2, <3>3, <1>13
  <2>4. \A i \in 1 .. Len(newest) :
          BoardsOf(version')[Len(log) + Len(picked) + i] = newest[i]
    <3> SUFFICES ASSUME NEW i \in 1 .. Len(es)
                 PROVE  BoardsOf(version')[Len(events) + n + i] = newest[i]
      BY <1>5, <1>7, <1>13
    <3>1. Len(events) + n + i \in 1 .. Len(events) + n + Len(es)
      BY <1>3
    <3>2. BoardsOf(version')[Len(events) + n + i] = version'[Len(events) + n + i].board
      BY <3>1, <1>8
    <3>3. version'[Len(events) + n + i] = vs[i]
      BY <1>4
    <3>. QED
      BY <3>2, <3>3, <1>7
  <2>5. log \in Seq(Board) /\ picked \in Seq(Board) /\ newest \in Seq(Board)
    BY <1>5, <1>7, <1>13
  <2> DEFINE whole == BoardsOf(version')
  <2> HIDE DEF whole
  <2>6. /\ whole \in Seq(Board) /\ Len(whole) = Len(log) + Len(picked) + Len(newest)
        /\ \A i \in 1 .. Len(log) : whole[i] = log[i]
        /\ \A i \in 1 .. Len(picked) : whole[Len(log) + i] = picked[i]
        /\ \A i \in 1 .. Len(newest) : whole[Len(log) + Len(picked) + i] = newest[i]
    BY <2>1, <2>2, <2>3, <2>4 DEF whole
  <2>7. whole = log \o picked \o newest
    BY <2>5, <2>6, ThreePieces
  <2>. QED
    BY <2>7 DEF whole
<1>15. StagedBoards' = <<>>
  <2>1. staged' = <<>>
    BY DEF FlushFragments
  <2>. QED
    BY <2>1 DEF StagedBoards
<1>16. \E m \in 0 .. Len(waiting) : \E p \in [1 .. m -> DOMAIN waiting] :
          /\ \A i, j \in 1 .. m : i < j => p[i] < p[j]
          /\ waiting # <<>> => m > 0 /\ p[m] = Len(waiting)
          /\ BoardsOf(version') = log \o [i \in 1 .. m |-> waiting[p[i]]] \o newest
  <2>1. n \in 0 .. Len(waiting) /\ pick \in [1 .. n -> DOMAIN waiting]
    BY <1>6, <1>9, <1>10
  <2>2. BoardsOf(version') = log \o [i \in 1 .. n |-> waiting[pick[i]]] \o newest
    BY <1>14 DEF picked
  <2>. QED
    BY <2>1, <2>2, <1>6, <1>11, <1>12
<1>17. Abstract!Extended(newest)
  BY <1>1, <1>2, <1>16, Zenon DEF Abstract!Extended
<1>. QED
  BY <1>15, <1>17 DEF newest

\* Of none, one and two.
LEMMA BoardsOfFew ==
  /\ BoardsOf(<<>>) = <<>>
  /\ \A v \in Writings : BoardsOf(<<v>>) = <<v.board>>
  /\ \A v, w \in Writings : BoardsOf(<<v, w>>) = <<v.board, w.board>>
<1>1. BoardsOf(<<>>) = <<>>
  BY DEF BoardsOf
<1>2. ASSUME NEW v \in Writings PROVE BoardsOf(<<v>>) = <<v.board>>
  BY DEF BoardsOf
<1>3. ASSUME NEW v \in Writings, NEW w \in Writings
      PROVE  BoardsOf(<<v, w>>) = <<v.board, w.board>>
  BY DEF BoardsOf
<1>. QED
  BY <1>1, <1>2, <1>3

\* What a step publishes goes at the end of what readers see, whichever kind of
\* step it is: every step of the history is one of the log, or changes nothing there.
LEMMA StepImplements ==
  ASSUME TypeOK, HistoryInv, TypeOK', HistoryInv', Shaped
  PROVE  Abstract!Next \/ UNCHANGED Abstract!vars
<1>1. Timeline = BoardsOf(version) /\ StagedBoards = BoardsOf(staged)
  BY TimelineIsVersions
<1>2. Timeline' = BoardsOf(version') /\ StagedBoards' = BoardsOf(staged')
  BY TimelineAfter
<1>3. docs \in Board /\ docs' \in Board
  BY DEF TypeOK
<1>4. CASE Quiet
  <2>1. UNCHANGED <<docs, Timeline, StagedBoards>>
    BY <1>1, <1>2, <1>4 DEF Quiet
  <2>. QED
    BY <2>1 DEF Abstract!vars
<1>5. CASE Stages
  <2>1. PICK w \in Writings : staged' = Append(staged, w) /\ w.board = docs'
    BY <1>5 DEF Stages
  <2>2. staged \in Seq(Writings) /\ Len(staged) \in Nat /\ DOMAIN staged = 1 .. Len(staged)
    BY LenProperties DEF TypeOK
  <2>3. BoardsOf(staged') = Append(BoardsOf(staged), docs')
    <3>1. /\ BoardsOf(staged) \in Seq(Board) /\ Len(BoardsOf(staged)) = Len(staged)
          /\ \A i \in 1 .. Len(staged) : BoardsOf(staged)[i] = staged[i].board
      BY <2>2, BoardsOfTypes
    <3>2. /\ staged' \in Seq(Writings) /\ Len(staged') = Len(staged) + 1
          /\ staged'[Len(staged) + 1] = w
          /\ \A i \in 1 .. Len(staged) : staged'[i] = staged[i]
      BY <2>1, <2>2, AppendProperties
    <3>3. /\ BoardsOf(staged') \in Seq(Board) /\ Len(BoardsOf(staged')) = Len(staged) + 1
          /\ \A i \in 1 .. Len(staged) + 1 : BoardsOf(staged')[i] = staged'[i].board
      <4>1. DOMAIN staged' = 1 .. Len(staged) + 1
        BY <3>2, LenProperties
      <4>2. /\ BoardsOf(staged') \in Seq(Board) /\ Len(BoardsOf(staged')) = Len(staged')
            /\ \A i \in DOMAIN staged' : BoardsOf(staged')[i] = staged'[i].board
        BY <3>2, BoardsOfTypes
      <4>. QED
        BY <3>2, <4>1, <4>2
    <3> DEFINE old == BoardsOf(staged)
               new == BoardsOf(staged')
    <3>4. /\ old \in Seq(Board) /\ new \in Seq(Board) /\ Len(old) = Len(staged)
          /\ Len(new) = Len(old) + 1 /\ new[Len(old) + 1] = docs'
      BY <2>1, <2>2, <3>1, <3>2, <3>3
    <3>5. \A i \in 1 .. Len(old) : new[i] = old[i]
      <4> SUFFICES ASSUME NEW i \in 1 .. Len(staged) PROVE new[i] = old[i]
        BY <3>4
      <4>1. i \in 1 .. Len(staged) + 1
        BY <2>2
      <4>. QED
        BY <4>1, <3>1, <3>2, <3>3
    <3> HIDE DEF old, new
    <3>6. new = Append(old, docs')
      <4>1. /\ Append(old, docs') \in Seq(Board) /\ Len(Append(old, docs')) = Len(old) + 1
            /\ \A i \in 1 .. Len(old) : Append(old, docs')[i] = old[i]
            /\ Append(old, docs')[Len(old) + 1] = docs'
        BY <1>3, <3>4, AppendProperties
      <4>2. Len(old) \in Nat
        BY <3>4, LenProperties
      <4>3. \A i \in 1 .. Len(old) + 1 : i \in 1 .. Len(old) \/ i = Len(old) + 1
        BY <4>2
      <4>4. \A i \in 1 .. Len(new) : new[i] = Append(old, docs')[i]
        BY <4>1, <4>3, <3>4, <3>5
      <4>. QED
        BY <4>1, <4>4, <3>4, SeqEqual
    <3>. QED
      BY <3>6 DEF old, new
  <2>4. StagedBoards' = Append(StagedBoards, docs') /\ UNCHANGED Timeline
    BY <1>1, <1>2, <1>5, <2>3 DEF Stages
  <2>5. Abstract!Edit
    BY <1>3, <2>4 DEF Abstract!Edit
  <2>. QED
    BY <2>5 DEF Abstract!Next
<1>6. CASE Imports
  <2>1. PICK v \in Writings : version' = <<v>> /\ v.board = docs /\ events = <<>>
    BY <1>6 DEF Imports
  <2>2. version = <<>>
    BY <2>1, EmptySeq DEF TypeOK
  <2>3. BoardsOf(<<>>) = <<>> /\ BoardsOf(<<v>>) = <<docs>>
    BY <2>1, BoardsOfFew
  <2>4. Timeline = <<>> /\ Timeline' = <<docs>> /\ UNCHANGED <<docs, StagedBoards>>
    BY <1>1, <1>2, <1>6, <2>1, <2>2, <2>3 DEF Imports
  <2>5. Abstract!Import
    BY <2>4 DEF Abstract!Import
  <2>. QED
    BY <2>5 DEF Abstract!Next
<1>7. CASE PublishesPending
  <2>1. PICK starts \in Groupings : FlushFragments(starts, <<>>, <<>>)
    BY <1>7 DEF PublishesPending
  <2>2. <<>> \in Seq(EventRecords) /\ <<>> \in Seq(Writings) /\ Len(<<>>) = Len(<<>>)
    OBVIOUS
  <2>3. Abstract!Extended(BoardsOf(<<>>)) /\ StagedBoards' = <<>>
    BY <2>1, <2>2, PublishingExtends
  <2>4. Abstract!Extended(<<>>) /\ StagedBoards' = <<>> /\ docs' = docs
    BY <1>7, <2>3, BoardsOfFew DEF PublishesPending
  <2>5. Abstract!Publish
    BY <2>4 DEF Abstract!Publish
  <2>. QED
    BY <2>5 DEF Abstract!Next
<1>8. CASE PublishesOne
  <2>1. PICK starts \in Groupings, e \in EventRecords, v \in Writings :
          FlushFragments(starts, <<e>>, <<v>>) /\ v.board = docs'
    BY <1>8 DEF PublishesOne
  <2>2. <<e>> \in Seq(EventRecords) /\ <<v>> \in Seq(Writings) /\ Len(<<v>>) = Len(<<e>>)
    OBVIOUS
  <2>3. Abstract!Extended(BoardsOf(<<v>>)) /\ StagedBoards' = <<>>
    BY <2>1, <2>2, PublishingExtends
  <2>4. Abstract!Extended(<<docs'>>) /\ StagedBoards' = <<>>
    BY <2>1, <2>3, BoardsOfFew
  <2>5. Abstract!Write
    BY <1>3, <2>4 DEF Abstract!Write
  <2>. QED
    BY <2>5 DEF Abstract!Next
<1>9. CASE PublishesRestore
  <2>1. PICK starts \in Groupings, e \in EventRecords, f \in EventRecords,
             v \in Writings, w \in Writings :
          /\ FlushFragments(starts, <<e, f>>, <<v, w>>)
          /\ e.kind = "restore.started" /\ v.board = docs
          /\ f.kind = "restore.completed" /\ w.board = docs'
          /\ f.target \in DOMAIN events /\ docs' = version[f.target].board
          /\ events # <<>>
          /\ \E c \in DOMAIN checkpoints' :
               checkpoints'[c] = Checkpoint(Len(events) + Len(starts) + 1, "pre_restore", docs)
    BY <1>9 DEF PublishesRestore
  <2>2. <<e, f>> \in Seq(EventRecords) /\ <<v, w>> \in Seq(Writings)
          /\ Len(<<v, w>>) = Len(<<e, f>>)
    OBVIOUS
  <2>3. Abstract!Extended(BoardsOf(<<v, w>>)) /\ StagedBoards' = <<>>
    BY <2>1, <2>2, PublishingExtends
  <2>4. Abstract!Extended(<<docs, docs'>>) /\ StagedBoards' = <<>>
    BY <2>1, <2>3, BoardsOfFew
  <2>5. f.target \in DOMAIN Timeline /\ docs' = Timeline[f.target]
    <3>1. DOMAIN version = DOMAIN events
      BY StoredElements
    <3>. QED
      BY <1>1, <2>1, <3>1 DEF BoardsOf
  <2>6. Abstract!Restore
    BY <2>4, <2>5 DEF Abstract!Restore
  <2>. QED
    BY <2>6 DEF Abstract!Next
<1>. QED
  BY <1>4, <1>5, <1>6, <1>7, <1>8, <1>9 DEF Shaped, Publishes

\* The timeline read back from checkpoints and events is a log of the boards as
\* they were: every behaviour of the recorder is one of VersionedBoard.
THEOREM TimelineIsLog == Spec => ImplementsVersionedBoard
<1>1. Init => Abstract!Init
  <2> SUFFICES ASSUME Init PROVE Abstract!Init
    OBVIOUS
  <2>1. docs \in Board /\ events = <<>> /\ staged = <<>>
    BY DEF Init, Board
  <2>2. Timeline = <<>> /\ StagedBoards = <<>>
    BY <2>1, EmptySeq DEF Timeline, StagedBoards
  <2>. QED
    BY <2>1, <2>2 DEF Abstract!Init
<1>2. IInv /\ RequestPlain /\ [Next]_vars => (Abstract!Next \/ UNCHANGED Abstract!vars)
  <2> SUFFICES ASSUME IInv, RequestPlain, [Next]_vars
               PROVE  Abstract!Next \/ UNCHANGED Abstract!vars
    OBVIOUS
  <2>1. TypeOK /\ HistoryInv /\ TypeOK' /\ HistoryInv'
    BY NextKeeps DEF Preserves, IInv
  <2>2. Shaped
    BY StepShape
  <2>. QED
    BY <2>1, <2>2, StepImplements
<1>. QED
  BY <1>1, <1>2, Invariance, PlainRequests, PTL
     DEF Spec, ImplementsVersionedBoard, Abstract!Spec
=============================================================================
