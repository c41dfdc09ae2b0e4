-------------------------- MODULE RetentionProofs --------------------------
(***************************************************************************)
(* Proofs about Retention: whatever passes delete while the server writes, *)
(* what is left shows every version that is left as it was.                *)
(***************************************************************************)
EXTENDS Retention, FiniteSetTheorems, TLAPS

\* What the append and the checkpoint of a handler leave behind: a checkpoint has
\* every change up to its base and is not older than any of them, and the event
\* of a running handler is there, behind every checkpoint.
Made ==
  \A c \in 1..made :
    /\ rows[c].base \in 1..last
    /\ rows[c].has = 1..rows[c].base
    /\ rows[c].at <= today
    /\ \A e \in 1..rows[c].base : appendedAt[e] <= rows[c].at

Young == \A e \in 1..last : appendedAt[e] <= today

Fresh ==
  fresh =>
    /\ last \in events
    /\ made < last
    /\ \A c \in 1..made : rows[c].base < last

\* Between an event that is left, or the next one to come, and an event that
\* was deleted there is a checkpoint.
Covered ==
  \A e \in events \cup {last + 1} :
    /\ \E c \in checkpoints : rows[c].base <= e
    /\ \A x \in (1..last) \ events :
         x < e => \E c \in checkpoints : x <= rows[c].base /\ rows[c].base <= e

SameWeek(c, d) == IsoWeek(rows[d].at) = IsoWeek(rows[c].at)

\* What a plan says of the board stays true while the server writes.
PlanStands ==
  plan.step # "none" =>
    /\ plan.retained \subseteq checkpoints
    /\ plan.checkpoints \subseteq checkpoints \ plan.retained
    /\ plan.events \subseteq events
    /\ \A e \in events : e \in plan.events <=> \E g \in plan.gaps : Within(g, e)
    /\ \A g \in plan.gaps :
         \E c, d \in plan.retained : g.lower = rows[c].base /\ g.upper = rows[d].base
    /\ \A c \in plan.checkpoints :
         \E g \in plan.gaps : g.lower < rows[c].base /\ rows[c].base < g.upper
    /\ \A c \in plan.checkpoints :
         /\ ~Pinned(c)
         /\ \E d \in plan.retained : c < d /\ ~Pinned(d) /\ SameWeek(c, d)
    /\ \A e \in plan.events : appendedAt[e] < today - DetailedDays

IInv ==
  /\ TypeOK
  /\ Made
  /\ Young
  /\ Fresh
  /\ Covered
  /\ PlanStands
  /\ WeeklySeries

\* A step that deletes nothing: the server's, and the passing of a day.
Grows ==
  /\ last' \in Nat /\ last <= last'
  /\ made' \in Nat /\ made <= made'
  /\ events' = events \cup (last + 1 .. last')
  /\ checkpoints' = checkpoints \cup (made + 1 .. made')
  /\ \A c \in 1..made : rows'[c] = rows[c]
  /\ \A e \in 1..last : appendedAt'[e] = appendedAt[e]
  /\ today' \in Nat /\ today <= today'
  /\ plan' = plan

-----------------------------------------------------------------------------
(* Newest, Oldest and the checkpoint a version is rebuilt from.            *)

\* A non-empty set of naturals has a least element: the initial segments below
\* its elements are finite sets, and inclusion between those is well-founded.
LEMMA LeastNatural ==
  ASSUME NEW S \in SUBSET Nat, S # {}
  PROVE  \E m \in S : \A n \in S : m <= n
<1> DEFINE below == {0 .. n : n \in S}
<1>1. below \subseteq FiniteSubsetsOf(Nat) /\ below # {}
  <2>1. \A n \in S : 0 .. n \in SUBSET Nat /\ IsFiniteSet(0 .. n)
    BY FS_Interval
  <2>. QED
    BY <2>1 DEF FiniteSubsetsOf
<1>2. PICK x \in below : \A y \in below : ~(<<y, x>> \in StrictSubsetOrdering(Nat))
  BY <1>1, FS_StrictSubsetOrderingWellFounded, WFMin
<1>3. PICK m \in S : x = 0 .. m
  OBVIOUS
<1>4. ASSUME NEW n \in S, n < m
      PROVE  FALSE
  <2>1. 0 .. n \in below /\ 0 .. n \subseteq x /\ 0 .. n # x
    BY <1>3, <1>4
  <2>. QED
    BY <1>1, <1>2, <2>1 DEF StrictSubsetOrdering, FiniteSubsetsOf
<1>. QED
  BY <1>4

\* A non-empty set of naturals with an upper bound has a greatest element.
LEMMA GreatestNatural ==
  ASSUME NEW b \in Nat, NEW S \in SUBSET (0 .. b), S # {}
  PROVE  \E m \in S : \A n \in S : m >= n
<1> DEFINE mirror == {b - n : n \in S}
<1>1. PICK x \in mirror : \A y \in mirror : x <= y
  <2>1. \A n \in S : b - n \in Nat
    OBVIOUS
  <2>2. mirror \in SUBSET Nat
    BY <2>1, Zenon
  <2>3. PICK n \in S : TRUE
    OBVIOUS
  <2>4. b - n \in mirror
    OBVIOUS
  <2>. QED
    BY <2>2, <2>4, LeastNatural
<1>2. PICK m \in S : x = b - m
  OBVIOUS
<1>3. \A n \in S : b - m <= b - n
  BY <1>1, <1>2
<1>. QED
  BY <1>3

LEMMA NewestIs ==
  ASSUME NEW b \in Nat, NEW S \in SUBSET (0 .. b), S # {}
  PROVE  Newest(S) \in S /\ \A y \in S : y <= Newest(S)
<1>1. PICK m \in S : \A n \in S : m >= n
  BY GreatestNatural
<1>2. \A n \in S : n <= m
  BY <1>1
<1>. QED
  BY <1>2 DEF Newest

LEMMA OldestIs ==
  ASSUME NEW S \in SUBSET Nat, S # {}
  PROVE  Oldest(S) \in S /\ \A y \in S : Oldest(S) <= y
<1>1. PICK m \in S : \A n \in S : m <= n
  BY LeastNatural
<1>. QED
  BY <1>1 DEF Oldest

LEMMA Ids ==
  ASSUME TypeOK
  PROVE  /\ last \in Nat /\ last >= 1 /\ last <= MaxEvents
         /\ made \in Nat /\ made >= 1 /\ made <= last
         /\ today \in Nat /\ today <= MaxTime
         /\ EventIds \subseteq Nat /\ 1..last \subseteq EventIds
         /\ \A c \in 1..made : rows[c] \in Rows
         /\ \A c \in EventIds : rows[c].at \in Nat /\ rows[c].base \in Nat
         /\ \A e \in EventIds : appendedAt[e] \in Nat
<1>. USE RetentionAssumption
<1>1. last \in Nat /\ last >= 1 /\ last <= MaxEvents
  BY DEF TypeOK, EventIds
<1>2. made \in Nat /\ made >= 1 /\ made <= last
  BY <1>1 DEF TypeOK
<1>3. today \in Nat /\ today <= MaxTime
  BY DEF TypeOK, Times
<1>4. EventIds \subseteq Nat
  BY DEF EventIds
<1>5. \A c \in EventIds : rows[c] \in Rows
  BY DEF TypeOK
<1>6. \A c \in EventIds : rows[c].at \in Nat /\ rows[c].base \in Nat
  <2>1. \A r \in Rows : r.at \in Nat /\ r.base \in Nat
    BY DEF Rows, Times, EventIds
  <2>. QED
    BY <1>5, <2>1
<1>7. \A e \in EventIds : appendedAt[e] \in Nat
  BY DEF TypeOK, Times
<1>8. \A c \in 1..made : rows[c] \in Rows
  BY <1>1, <1>2, <1>5 DEF EventIds
<1>9. 1..last \subseteq EventIds
  BY <1>1 DEF EventIds
<1>. QED
  BY <1>1, <1>2, <1>3, <1>4, <1>6, <1>7, <1>8, <1>9

LEMMA CheckpointIds ==
  ASSUME TypeOK
  PROVE  /\ checkpoints \subseteq 1..made
         /\ 1..made \subseteq EventIds
         /\ \A c \in checkpoints :
              c \in Nat /\ c <= made /\ rows[c].base \in Nat /\ rows[c].at \in Nat
<1>1. checkpoints \subseteq 1..made
  BY DEF TypeOK
<1>2. 1..made \subseteq EventIds
  BY Ids, RetentionAssumption DEF EventIds
<1>3. \A c \in 1..made : c \in Nat /\ c <= made
  BY Ids
<1>. QED
  BY <1>1, <1>2, <1>3, Ids

LEMMA Bases ==
  ASSUME TypeOK, Made
  PROVE  \A c \in checkpoints : rows[c].base \in Nat /\ 1 <= rows[c].base /\ rows[c].base <= last
<1>1. checkpoints \subseteq 1..made /\ last \in Nat
  BY Ids, CheckpointIds
<1>2. \A c \in checkpoints : rows[c].base \in 1..last
  BY <1>1 DEF Made
<1>. QED
  BY <1>1, <1>2

LEMMA LatestIs ==
  ASSUME TypeOK, last \in events
  PROVE  LatestEventId = last
<1>1. last \in Nat /\ events \subseteq 1..last
  BY Ids DEF TypeOK
<1>2. events \in SUBSET (0 .. last) /\ events # {}
  BY <1>1
<1>3. Newest(events) \in events /\ \A y \in events : y <= Newest(events)
  BY <1>1, <1>2, NewestIs
<1>4. Newest(events) \in 1..last /\ last <= Newest(events)
  BY <1>1, <1>3
<1>5. Newest(events) = last
  BY <1>1, <1>4
<1>. QED
  BY <1>2, <1>5 DEF LatestEventId

\* Of the checkpoints with a base up to e, one has the greatest base and, among
\* those with that base, the greatest id.
LEMMA BaseForIs ==
  ASSUME TypeOK, NEW cs \in SUBSET checkpoints, NEW e \in Nat,
         \E c \in cs : rows[c].base <= e
  PROVE  /\ BaseFor(e, cs) \in cs
         /\ rows[BaseFor(e, cs)].base <= e
         /\ \A d \in cs : rows[d].base <= e =>
              \/ rows[d].base < rows[BaseFor(e, cs)].base
              \/ rows[d].base = rows[BaseFor(e, cs)].base /\ d <= BaseFor(e, cs)
<1>. DEFINE near == {c \in cs : rows[c].base <= e}
            bases == {rows[c].base : c \in near}
<1>1. made \in Nat /\ cs \subseteq 1..made /\ \A c \in cs : rows[c].base \in Nat
  BY Ids, CheckpointIds
<1>2. bases \in SUBSET (0 .. e) /\ bases # {}
  BY <1>1
<1>3. PICK b \in bases : \A n \in bases : b >= n
  BY <1>2, GreatestNatural
<1>. DEFINE highest == {c \in near : rows[c].base = b}
<1>4. highest \in SUBSET (0 .. made) /\ highest # {}
  <2>1. PICK c \in near : rows[c].base = b
    OBVIOUS
  <2>2. c \in highest
    BY <2>1
  <2>3. \A k \in highest : k \in 0 .. made
    BY <1>1
  <2>. QED
    BY <2>2, <2>3
<1>5. PICK m \in highest : \A n \in highest : m >= n
  BY <1>1, <1>4, GreatestNatural
<1>6. m \in cs /\ rows[m].base <= e
  BY <1>5
<1>7. ASSUME NEW d \in cs, rows[d].base <= e
      PROVE  rows[d].base < rows[m].base \/ (rows[d].base = rows[m].base /\ d <= m)
  <2>1. rows[d].base \in bases /\ rows[m].base = b /\ b \in Nat
    BY <1>1, <1>2, <1>3, <1>5, <1>7
  <2>2. rows[d].base <= b
    BY <1>1, <1>3, <2>1
  <2>3. rows[d].base = b => d \in highest
    BY <1>7
  <2>. QED
    BY <1>1, <1>5, <2>1, <2>2, <2>3
<1>. QED
  BY <1>6, <1>7, Zenon DEF BaseFor

LEMMA BaseForOnly ==
  ASSUME TypeOK, NEW cs \in SUBSET checkpoints, NEW e \in Nat, NEW c \in cs,
         rows[c].base <= e,
         \A d \in cs : rows[d].base <= e =>
           rows[d].base < rows[c].base \/ (rows[d].base = rows[c].base /\ d <= c)
  PROVE  BaseFor(e, cs) = c
<1>. DEFINE b == BaseFor(e, cs)
<1>1. /\ b \in cs /\ rows[b].base <= e
      /\ \A d \in cs : rows[d].base <= e =>
           rows[d].base < rows[b].base \/ (rows[d].base = rows[b].base /\ d <= b)
  BY BaseForIs, Zenon
<1>2. \A d \in cs : d \in Nat /\ rows[d].base \in Nat
  BY Ids, CheckpointIds
<1>. HIDE DEF b
<1>3. b = c
  BY <1>1, <1>2
<1>. QED
  BY <1>3 DEF b

-----------------------------------------------------------------------------
(* What deletes nothing keeps what the board and the plan stand on.        *)

LEMMA GrowsKeepsCovered ==
  ASSUME TypeOK, Made, Covered, Grows
  PROVE  Covered'
<1>1. last \in Nat /\ made \in Nat /\ events \subseteq 1..last /\ checkpoints \subseteq 1..made
  BY Ids, CheckpointIds DEF TypeOK
<1>2. \A c \in checkpoints : c \in checkpoints' /\ rows'[c].base = rows[c].base
  BY <1>1 DEF Grows
<1>3. \A c \in checkpoints : rows[c].base \in Nat /\ rows[c].base <= last
  BY Bases
<1>4. \A x \in (1..last') \ events' : x \in (1..last) \ events
  BY <1>1 DEF Grows
<1>5. SUFFICES ASSUME NEW e \in events' \cup {last' + 1}
               PROVE  /\ \E c \in checkpoints' : rows'[c].base <= e
                      /\ \A x \in (1..last') \ events' :
                           x < e => \E c \in checkpoints' : x <= rows'[c].base /\ rows'[c].base <= e
  BY DEF Covered
<1>6. CASE e \in events
  <2>1. /\ \E c \in checkpoints : rows[c].base <= e
        /\ \A x \in (1..last) \ events :
             x < e => \E c \in checkpoints : x <= rows[c].base /\ rows[c].base <= e
    BY <1>6 DEF Covered
  <2>. QED
    BY <2>1, <1>2, <1>4
<1>7. CASE e \notin events
  <2>1. e \in Nat /\ last + 1 <= e
    BY <1>1, <1>5, <1>7 DEF Grows
  <2>2. /\ \E c \in checkpoints : rows[c].base <= last + 1
        /\ \A x \in (1..last) \ events : x < last + 1 =>
             \E c \in checkpoints : x <= rows[c].base /\ rows[c].base <= last + 1
    BY DEF Covered
  <2>3. \E c \in checkpoints : rows[c].base <= e
    BY <1>1, <1>3, <2>1, <2>2
  <2>4. \A x \in (1..last) \ events :
          \E c \in checkpoints : x <= rows[c].base /\ rows[c].base <= e
    BY <1>1, <1>3, <2>1, <2>2
  <2>. QED
    BY <1>2, <1>4, <2>3, <2>4
<1>. QED
  BY <1>6, <1>7

LEMMA GrowsKeepsSeries ==
  ASSUME TypeOK, WeeklySeries, Grows
  PROVE  WeeklySeries'
<1>1. made \in Nat /\ checkpoints \subseteq 1..made
  BY Ids, CheckpointIds
<1>2. \A c \in 1..made : rows'[c] = rows[c]
  BY DEF Grows
<1>3. checkpoints \subseteq checkpoints' /\ \A c \in 1..made' : c \in 1..made \/ c \in checkpoints'
  BY <1>1 DEF Grows
<1>4. SUFFICES ASSUME NEW c \in 1..made', c \notin checkpoints'
               PROVE  (/\ ~Pinned(c)
                       /\ \E d \in checkpoints :
                            c < d /\ ~Pinned(d) /\ IsoWeek(rows[d].at) = IsoWeek(rows[c].at))'
  BY DEF WeeklySeries
<1>5. c \in 1..made /\ c \notin checkpoints
  BY <1>3, <1>4
<1>6. ~Pinned(c)
  BY <1>5 DEF WeeklySeries
<1>7. PICK d \in checkpoints : c < d /\ ~Pinned(d) /\ IsoWeek(rows[d].at) = IsoWeek(rows[c].at)
  BY <1>5 DEF WeeklySeries
<1>8. rows'[c] = rows[c] /\ rows'[d] = rows[d] /\ d \in checkpoints'
  BY <1>1, <1>2, <1>3, <1>5
<1>. QED
  BY <1>6, <1>7, <1>8 DEF Pinned, IsoWeek

LEMMA GrowsKeepsPlan ==
  ASSUME TypeOK, Made, PlanStands, Grows
  PROVE  PlanStands'
<1>1. last \in Nat /\ made \in Nat /\ events \subseteq 1..last /\ checkpoints \subseteq 1..made
  BY Ids, CheckpointIds DEF TypeOK
<1>2. checkpoints \subseteq checkpoints' /\ events \subseteq events' /\ plan' = plan
  BY <1>1 DEF Grows
<1>3. \A c \in checkpoints : rows'[c] = rows[c]
  BY <1>1 DEF Grows
<1>4. \A c \in checkpoints : rows[c].base \in Nat /\ rows[c].base <= last
  BY Bases
<1>5. SUFFICES ASSUME plan.step # "none"
               PROVE  PlanStands'
  BY <1>2 DEF PlanStands
<1>6. /\ plan.retained \subseteq checkpoints
      /\ plan.checkpoints \subseteq checkpoints \ plan.retained
      /\ plan.events \subseteq events
  BY <1>5 DEF PlanStands
<1>7. plan.checkpoints \subseteq checkpoints' \ plan.retained
  BY <1>2, <1>6
<1>8. \A e \in events' : e \in plan.events <=> \E g \in plan.gaps : Within(g, e)
  <2>1. SUFFICES ASSUME NEW e \in events', e \notin events
                 PROVE  e \in plan.events <=> \E g \in plan.gaps : Within(g, e)
    BY <1>5 DEF PlanStands
  <2>2. e \in Nat /\ last < e
    BY <1>1, <2>1 DEF Grows
  <2>3. ASSUME NEW g \in plan.gaps
        PROVE  ~Within(g, e)
    <3>1. PICK d \in plan.retained : g.upper = rows[d].base
      BY <1>5, <2>3 DEF PlanStands
    <3>2. rows[d].base \in Nat /\ rows[d].base <= last
      BY <1>4, <1>6
    <3>. QED
      BY <1>1, <2>2, <3>1, <3>2 DEF Within
  <2>. QED
    BY <1>6, <2>1, <2>3
<1>9. \A g \in plan.gaps :
        \E c, d \in plan.retained : g.lower = rows'[c].base /\ g.upper = rows'[d].base
  <2>1. \A g \in plan.gaps :
          \E c, d \in plan.retained : g.lower = rows[c].base /\ g.upper = rows[d].base
    BY <1>5 DEF PlanStands
  <2>2. \A c \in plan.retained : rows'[c] = rows[c]
    BY <1>3, <1>6
  <2>. QED
    BY <2>1, <2>2
<1>10. \A c \in plan.checkpoints :
         \E g \in plan.gaps : g.lower < rows'[c].base /\ rows'[c].base < g.upper
  <2>1. \A c \in plan.checkpoints :
          \E g \in plan.gaps : g.lower < rows[c].base /\ rows[c].base < g.upper
    BY <1>5 DEF PlanStands
  <2>2. \A c \in plan.checkpoints : rows'[c] = rows[c]
    BY <1>3, <1>6
  <2>. QED
    BY <2>1, <2>2
<1>11. ASSUME NEW c \in plan.checkpoints
       PROVE  (/\ ~Pinned(c)
               /\ \E d \in plan.retained : c < d /\ ~Pinned(d) /\ SameWeek(c, d))'
  <2>1. ~Pinned(c)
    BY <1>5, <1>11 DEF PlanStands
  <2>2. PICK d \in plan.retained : c < d /\ ~Pinned(d) /\ SameWeek(c, d)
    BY <1>5, <1>11 DEF PlanStands
  <2>3. rows'[c] = rows[c] /\ rows'[d] = rows[d]
    BY <1>3, <1>6, <1>11, <2>2
  <2>. QED
    BY <1>2, <2>1, <2>2, <2>3 DEF Pinned, SameWeek, IsoWeek
<1>12. \A e \in plan.events : appendedAt'[e] < today' - DetailedDays
  <2>1. SUFFICES ASSUME NEW e \in plan.events
                 PROVE  appendedAt'[e] < today' - DetailedDays
    OBVIOUS
  <2>2. appendedAt[e] < today - DetailedDays
    BY <1>5, <2>1 DEF PlanStands
  <2>3. e \in 1..last
    BY <1>1, <1>6, <2>1
  <2>4. appendedAt'[e] = appendedAt[e] /\ today <= today'
    BY <2>3 DEF Grows
  <2>5. appendedAt[e] \in Nat /\ today \in Nat /\ DetailedDays \in Nat /\ today' \in Nat
    <3>1. e \in EventIds
      BY Ids, <2>3
    <3>. QED
      BY Ids, RetentionAssumption, <3>1 DEF Grows
  <2>. QED
    BY <2>2, <2>4, <2>5
<1>. QED
  BY <1>2, <1>6, <1>7, <1>8, <1>9, <1>10, <1>11, <1>12 DEF PlanStands

-----------------------------------------------------------------------------
(* The server.                                                             *)

LEMMA GrowsKeeps ==
  ASSUME IInv, Grows, TypeOK', Made', Young', Fresh'
  PROVE  IInv'
BY GrowsKeepsCovered, GrowsKeepsSeries, GrowsKeepsPlan DEF IInv

LEMMA RowIsOne ==
  ASSUME NEW at \in Times, NEW base \in EventIds, NEW reason \in Reasons,
         NEW has \in SUBSET EventIds
  PROVE  Checkpoint(at, base, reason, has) \in Rows
BY DEF Checkpoint, Rows

LEMMA AppendEventKeeps ==
  ASSUME IInv, AppendEvent
  PROVE  IInv'
<1>. USE DEF IInv
<1>1. last \in Nat /\ last >= 1 /\ made \in Nat /\ made <= last /\ last' = last + 1 /\ made' = made
  BY Ids DEF AppendEvent
<1>2. last + 1 \in EventIds /\ today \in Times
  BY <1>1, RetentionAssumption DEF AppendEvent, EventIds, TypeOK
<1>3. appendedAt \in [EventIds -> Times] /\ events \subseteq 1..last
  BY DEF TypeOK
<1>4. /\ appendedAt' \in [EventIds -> Times]
      /\ appendedAt'[last + 1] = today
      /\ \A e \in 1..last : appendedAt'[e] = appendedAt[e]
  BY <1>1, <1>2, <1>3 DEF AppendEvent
<1>5. TypeOK'
  <2>1. events' \subseteq 1..last' /\ made' \in 1..last'
    BY <1>1, <1>3 DEF AppendEvent, TypeOK
  <2>. QED
    BY <1>1, <1>2, <1>4, <2>1 DEF TypeOK, AppendEvent
<1>6. Grows
  <2>1. events' = events \cup (last + 1 .. last')
    BY <1>1 DEF AppendEvent
  <2>2. checkpoints' = checkpoints \cup (made + 1 .. made')
    BY <1>1 DEF AppendEvent
  <2>3. rows' = rows /\ today' = today /\ plan' = plan
    BY DEF AppendEvent
  <2>4. today \in Nat
    BY Ids
  <2>. QED
    BY <1>1, <1>4, <2>1, <2>2, <2>3, <2>4 DEF Grows
<1>7. Made'
  <2>1. rows' = rows /\ made' = made /\ today' = today
    BY DEF AppendEvent
  <2>2. \A c \in 1..made : rows[c].base \in 1..last /\ rows[c].base \in 1..last'
    BY <1>1 DEF Made
  <2>3. \A c \in 1..made : \A e \in 1..rows[c].base : e \in 1..last
    BY <1>1, <2>2
  <2>. QED
    BY <1>4, <2>1, <2>2, <2>3 DEF Made
<1>8. Young'
  <2>1. \A e \in 1..last' : e \in 1..last \/ e = last + 1
    BY <1>1
  <2>2. today' = today /\ today \in Nat
    BY Ids DEF AppendEvent
  <2>. QED
    BY <1>4, <2>1, <2>2 DEF Young
<1>9. Fresh'
  <2>1. rows' = rows /\ last' \in events'
    BY <1>1 DEF AppendEvent
  <2>2. \A c \in 1..made : rows[c].base \in 1..last
    BY DEF Made
  <2>3. \A c \in 1..made' : rows'[c].base < last'
    BY <1>1, <2>1, <2>2
  <2>. QED
    BY <1>1, <2>1, <2>3 DEF Fresh
<1>. QED
  BY <1>5, <1>6, <1>7, <1>8, <1>9, GrowsKeeps

\* A checkpoint that the handler of the last event takes.
LEMMA AddCheckpointKeeps ==
  ASSUME IInv, fresh, NEW reason \in Reasons, AddCheckpoint(last, reason), fresh' = FALSE,
         UNCHANGED <<last, appendedAt, events, today, plan>>
  PROVE  IInv'
<1>. USE DEF IInv
<1>. DEFINE row == Checkpoint(today, last, reason, 1..last)
<1>1. /\ last \in Nat /\ last >= 1 /\ made \in Nat /\ made >= 1 /\ made < last
      /\ last' = last /\ made' = made + 1 /\ today' = today /\ appendedAt' = appendedAt
  BY Ids DEF AddCheckpoint, Fresh
<1>2. made + 1 \in 1..last /\ made + 1 \in EventIds
  BY <1>1, Ids
<1>3. row \in Rows
  <2>1. today \in Times /\ last \in EventIds /\ 1..last \in SUBSET EventIds
    BY Ids DEF TypeOK
  <2>. QED
    BY <2>1, RowIsOne
<1>4. rows \in [EventIds -> Rows]
  BY DEF TypeOK
<1>5. rows' = [rows EXCEPT ![made + 1] = row]
  BY DEF AddCheckpoint
<1>. HIDE DEF row
<1>6. rows' \in [EventIds -> Rows] /\ rows'[made + 1] = row /\ \A c \in 1..made : rows'[c] = rows[c]
  BY <1>1, <1>2, <1>3, <1>4, <1>5
<1>7. TypeOK'
  <2>1. checkpoints' \subseteq 1..made'
    BY <1>1, CheckpointIds DEF AddCheckpoint
  <2>2. plan'.step # "none" => plan'.events \subseteq EventIds /\ plan'.checkpoints \subseteq 1..made'
    BY <1>1 DEF TypeOK
  <2>. QED
    BY <1>1, <1>2, <1>6, <2>1, <2>2 DEF TypeOK
<1>8. Grows
  <2>1. events' = events \cup (last + 1 .. last')
    BY <1>1
  <2>2. checkpoints' = checkpoints \cup (made + 1 .. made')
    BY <1>1 DEF AddCheckpoint
  <2>3. today \in Nat
    BY Ids
  <2>. QED
    BY <1>1, <1>6, <2>1, <2>2, <2>3 DEF Grows
<1>9. Made'
  <2>1. row.at = today /\ row.base = last /\ row.has = 1..last
    BY DEF row, Checkpoint
  <2>2. \A e \in 1..last : appendedAt[e] <= today
    BY DEF Young
  <2>3. today \in Nat
    BY Ids
  <2>4. \A c \in 1..made' : c \in 1..made \/ c = made + 1
    BY <1>1
  <2>5. ASSUME NEW c \in 1..made'
        PROVE  /\ rows'[c].base \in 1..last'
               /\ rows'[c].has = 1..rows'[c].base
               /\ rows'[c].at <= today'
               /\ \A e \in 1..rows'[c].base : appendedAt'[e] <= rows'[c].at
    <3>1. CASE c \in 1..made
      BY <1>1, <1>6, <3>1 DEF Made
    <3>2. CASE c = made + 1
      BY <1>1, <1>6, <2>1, <2>2, <2>3, <3>2
    <3>. QED
      BY <2>4, <3>1, <3>2
  <2>. QED
    BY <2>5 DEF Made
<1>10. Young' /\ Fresh'
  BY <1>1 DEF Young, Fresh
<1>. QED
  BY <1>7, <1>8, <1>9, <1>10, GrowsKeeps

LEMMA CheckpointKeeps ==
  ASSUME IInv, MaybeCheckpoint \/ CreateRoomCheckpoint
  PROVE  IInv'
<1>1. fresh /\ fresh' = FALSE /\ UNCHANGED <<last, appendedAt, events, today, plan>>
  BY DEF MaybeCheckpoint, CreateRoomCheckpoint
<1>2. LatestEventId = last
  BY <1>1, LatestIs DEF IInv, Fresh
<1>3. AddCheckpoint(last, "periodic") \/ AddCheckpoint(last, "explicit")
  BY <1>2 DEF MaybeCheckpoint, CreateRoomCheckpoint
<1>. QED
  BY <1>1, <1>3, AddCheckpointKeeps DEF Reasons

LEMMA RestoreKeeps ==
  ASSUME IInv, NEW e \in EventIds, RestoreRoomVersion(e)
  PROVE  IInv'
<1>. USE DEF IInv
<1>. DEFINE started == last + 1
            completed == last + 2
            before == Checkpoint(today, started, "pre_restore", 1..started)
            after == Checkpoint(today, completed, "restore_completed", 1..completed)
<1>1. /\ last \in Nat /\ last >= 1 /\ made \in Nat /\ made >= 1 /\ made <= last
      /\ last' = last + 2 /\ made' = made + 2 /\ today' = today /\ plan' = plan
      /\ today \in Nat
  BY Ids DEF RestoreRoomVersion
<1>2. /\ started \in EventIds /\ completed \in EventIds
      /\ made + 1 \in EventIds /\ made + 2 \in EventIds
      /\ 1..started \in SUBSET EventIds /\ 1..completed \in SUBSET EventIds
  BY <1>1, RetentionAssumption DEF RestoreRoomVersion, EventIds
<1>3. /\ appendedAt \in [EventIds -> Times] /\ rows \in [EventIds -> Rows]
      /\ today \in Times /\ events \subseteq 1..last
  BY DEF TypeOK
<1>4. before \in Rows /\ after \in Rows
  BY <1>2, <1>3, RowIsOne DEF Reasons
<1>5. /\ appendedAt' = [appendedAt EXCEPT ![started] = today, ![completed] = today]
      /\ rows' = [rows EXCEPT ![made + 1] = before, ![made + 2] = after]
      /\ events' = events \cup {started, completed}
      /\ checkpoints' = checkpoints \cup {made + 1, made + 2}
  BY DEF RestoreRoomVersion
<1>6. /\ before.at = today /\ before.base = started /\ before.has = 1..started
      /\ after.at = today /\ after.base = completed /\ after.has = 1..completed
  BY DEF Checkpoint
<1>. HIDE DEF before, after
<1>7. /\ appendedAt' \in [EventIds -> Times]
      /\ \A x \in 1..last : appendedAt'[x] = appendedAt[x]
      /\ appendedAt'[started] = today /\ appendedAt'[completed] = today
  BY <1>1, <1>2, <1>3, <1>5
<1>8. /\ rows' \in [EventIds -> Rows]
      /\ \A c \in 1..made : rows'[c] = rows[c]
      /\ rows'[made + 1] = before /\ rows'[made + 2] = after
  BY <1>1, <1>2, <1>3, <1>4, <1>5
<1>9. TypeOK'
  <2>1. events' \subseteq 1..last' /\ checkpoints' \subseteq 1..made' /\ made' \in 1..last'
    BY <1>1, <1>3, <1>5, CheckpointIds
  <2>2. plan'.step # "none" => plan'.events \subseteq EventIds /\ plan'.checkpoints \subseteq 1..made'
    BY <1>1 DEF TypeOK
  <2>3. fresh' = FALSE
    BY DEF RestoreRoomVersion
  <2>. QED
    BY <1>1, <1>2, <1>3, <1>7, <1>8, <2>1, <2>2, <2>3 DEF TypeOK
<1>10. Grows
  <2>1. events' = events \cup (last + 1 .. last')
    BY <1>1, <1>5
  <2>2. checkpoints' = checkpoints \cup (made + 1 .. made')
    BY <1>1, <1>5
  <2>. QED
    BY <1>1, <1>7, <1>8, <2>1, <2>2 DEF Grows
<1>11. Young'
  <2>1. \A x \in 1..last' : x \in 1..last \/ x = started \/ x = completed
    BY <1>1
  <2>. QED
    BY <1>1, <1>7, <2>1 DEF Young
<1>12. Made'
  <2>1. \A c \in 1..made' : c \in 1..made \/ c = made + 1 \/ c = made + 2
    BY <1>1
  <2>2. \A x \in 1..last' : appendedAt'[x] <= today
    BY <1>1, <1>11 DEF Young
  <2>3. ASSUME NEW c \in 1..made'
        PROVE  /\ rows'[c].base \in 1..last'
               /\ rows'[c].has = 1..rows'[c].base
               /\ rows'[c].at <= today'
               /\ \A x \in 1..rows'[c].base : appendedAt'[x] <= rows'[c].at
    <3>1. CASE c \in 1..made
      <4>1. /\ rows[c].base \in 1..last /\ rows[c].has = 1..rows[c].base /\ rows[c].at <= today
            /\ \A x \in 1..rows[c].base : appendedAt[x] <= rows[c].at
        BY <3>1 DEF Made
      <4>. QED
        BY <1>1, <1>7, <1>8, <3>1, <4>1
    <3>2. CASE c = made + 1
      BY <1>1, <1>6, <1>8, <2>2, <3>2
    <3>3. CASE c = made + 2
      BY <1>1, <1>6, <1>8, <2>2, <3>3
    <3>. QED
      BY <2>1, <3>1, <3>2, <3>3
  <2>. QED
    BY <2>3 DEF Made
<1>13. Fresh'
  BY DEF Fresh, RestoreRoomVersion
<1>. QED
  BY <1>9, <1>10, <1>11, <1>12, <1>13, GrowsKeeps

LEMMA TickKeeps ==
  ASSUME IInv, Tick
  PROVE  IInv'
<1>. USE DEF IInv
<1>1. /\ UNCHANGED <<last, appendedAt, events, made, rows, checkpoints, fresh, plan>>
      /\ last \in Nat /\ made \in Nat /\ today \in Nat /\ today' = today + 1
      /\ checkpoints \subseteq 1..made /\ 1..last \subseteq EventIds
      /\ \A c \in 1..made : rows[c].at \in Nat
      /\ \A e \in EventIds : appendedAt[e] \in Nat
  BY Ids, CheckpointIds DEF Tick, board
<1>2. TypeOK'
  <2>1. today' \in Times
    BY <1>1, RetentionAssumption DEF Tick, TypeOK, Times
  <2>. QED
    BY <1>1, <2>1 DEF TypeOK
<1>3. Grows
  BY <1>1 DEF Grows
<1>4. Made' /\ Young'
  BY <1>1 DEF Made, Young
<1>5. Fresh'
  BY <1>1 DEF Fresh
<1>. QED
  BY <1>2, <1>3, <1>4, <1>5, GrowsKeeps

LEMMA CrashKeeps ==
  ASSUME IInv, Crash
  PROVE  IInv'
<1>. USE DEF IInv
<1>1. /\ UNCHANGED <<last, appendedAt, events, made, rows, checkpoints, today, plan>>
      /\ fresh' = FALSE /\ last \in Nat /\ made \in Nat /\ today \in Nat
  BY Ids DEF Crash
<1>2. TypeOK'
  BY <1>1 DEF TypeOK
<1>3. Grows
  BY <1>1 DEF Grows
<1>4. Made' /\ Young' /\ Fresh'
  BY <1>1 DEF Made, Young, Fresh
<1>. QED
  BY <1>2, <1>3, <1>4, GrowsKeeps

-----------------------------------------------------------------------------
(* The plan.                                                               *)

LEMMA RetainedIs ==
  ASSUME TypeOK
  PROVE  /\ Retained \subseteq checkpoints
         /\ \A c \in checkpoints \ Retained :
              /\ ~Pinned(c)
              /\ \E d \in Retained : c < d /\ ~Pinned(d) /\ SameWeek(c, d)
<1>1. Retained \subseteq checkpoints
  BY DEF Retained
<1>2. ASSUME NEW c \in checkpoints, c \notin Retained
      PROVE  /\ ~Pinned(c)
             /\ \E d \in Retained : c < d /\ ~Pinned(d) /\ SameWeek(c, d)
  <2>. DEFINE week == {d \in checkpoints : Old(d) /\ SameWeek(c, d)}
  <2>1. Old(c) /\ \E d \in checkpoints : Old(d) /\ SameWeek(c, d) /\ ~(d <= c)
    BY <1>2 DEF Retained, SameWeek
  <2>2. PICK d \in week : ~(d <= c)
    BY <2>1
  <2>3. week \in SUBSET (0 .. made) /\ made \in Nat
    BY Ids, CheckpointIds
  <2>4. PICK m \in week : \A n \in week : m >= n
    BY <2>2, <2>3, GreatestNatural
  <2>5. m \in checkpoints /\ Old(m) /\ SameWeek(c, m)
    BY <2>4
  <2>6. \A n \in checkpoints : Old(n) /\ IsoWeek(rows[n].at) = IsoWeek(rows[m].at) => n <= m
    <3>1. \A n \in checkpoints :
            Old(n) /\ IsoWeek(rows[n].at) = IsoWeek(rows[m].at) => n \in week
      BY <2>5 DEF SameWeek
    <3>2. \A n \in week : n <= m
      BY <2>3, <2>4
    <3>. QED
      BY <3>1, <3>2
  <2>7. m \in Retained
    BY <2>5, <2>6 DEF Retained
  <2>8. c < m
    <3>1. c \in Nat /\ d \in Nat /\ m \in Nat
      BY <2>3, <2>2, <2>4, <1>2, CheckpointIds
    <3>. QED
      BY <2>2, <2>4, <3>1
  <2>. QED
    BY <2>1, <2>5, <2>7, <2>8 DEF Old
<1>. QED
  BY <1>1, <1>2

LEMMA GapIs ==
  ASSUME NEW r, NEW g \in Gaps(r)
  PROVE  \E c, d \in r :
           /\ Consecutive(r, c, d) /\ Eligible(r, d)
           /\ g.lower = rows[c].base /\ g.upper = rows[d].base
<1>. DEFINE between == {p \in r \X r : Consecutive(r, p[1], p[2]) /\ Eligible(r, p[2])}
<1>1. g \in {[lower |-> rows[p[1]].base, upper |-> rows[p[2]].base] : p \in between}
  BY DEF Gaps
<1>2. PICK p \in between : g = [lower |-> rows[p[1]].base, upper |-> rows[p[2]].base]
  BY <1>1
<1>3. p[1] \in r /\ p[2] \in r /\ Consecutive(r, p[1], p[2]) /\ Eligible(r, p[2])
  BY <1>2
<1>4. g.lower = rows[p[1]].base /\ g.upper = rows[p[2]].base
  BY <1>2
<1>. QED
  BY <1>3, <1>4

\* The events of a gap are not younger than the checkpoint at its end, which
\* is out of the days of full resolution.
LEMMA GapsAreOld ==
  ASSUME TypeOK, Made, NEW r \in SUBSET checkpoints, NEW g \in Gaps(r),
         NEW e \in events, Within(g, e)
  PROVE  appendedAt[e] < today - DetailedDays
<1>1. PICK c \in r, d \in r :
        /\ Consecutive(r, c, d) /\ Eligible(r, d)
        /\ g.lower = rows[c].base /\ g.upper = rows[d].base
  BY GapIs
<1>2. r \in SUBSET Nat /\ r # {}
  BY <1>1, CheckpointIds
<1>3. Oldest(r) \in r /\ Oldest(r) <= c
  BY <1>1, <1>2, OldestIs
<1>4. Oldest(r) < d
  <2>1. c \in Nat /\ d \in Nat /\ Oldest(r) \in Nat
    BY <1>1, <1>2, <1>3
  <2>. QED
    BY <1>1, <1>3, <2>1 DEF Consecutive
<1>5. rows[d].at < today - DetailedDays
  BY <1>1, <1>2, <1>4 DEF Eligible
<1>6. /\ e \in 1..last /\ e \in EventIds /\ last \in Nat /\ today \in Nat /\ DetailedDays \in Nat
      /\ appendedAt[e] \in Nat
  BY Ids, RetentionAssumption DEF TypeOK
<1>7. d \in 1..made /\ rows[d].at \in Nat /\ rows[d].base \in Nat
  BY <1>1, CheckpointIds
<1>8. e \in 1..rows[d].base
  BY <1>1, <1>6, <1>7 DEF Within
<1>9. appendedAt[e] <= rows[d].at
  BY <1>7, <1>8 DEF Made
<1>. QED
  BY <1>5, <1>6, <1>7, <1>9

LEMMA PlanCompactionKeeps ==
  ASSUME IInv, PlanCompaction
  PROVE  IInv'
<1>. USE DEF IInv
<1>. DEFINE gaps == Gaps(Retained)
<1>1. /\ UNCHANGED <<last, appendedAt, events, made, rows, checkpoints, fresh, today>>
      /\ plan'.step = "planned" /\ plan'.retained = Retained /\ plan'.gaps = gaps
      /\ plan'.events = DeletableEvents(gaps)
      /\ plan'.checkpoints = DeletableCheckpoints(Retained, gaps)
  BY DEF PlanCompaction, board
<1>2. DeletableEvents(gaps) \subseteq events
  BY DEF DeletableEvents
<1>3. DeletableCheckpoints(Retained, gaps) \subseteq checkpoints \ Retained
  BY DEF DeletableCheckpoints
<1>4. TypeOK'
  <2>1. DeletableEvents(gaps) \subseteq EventIds
    BY <1>2, Ids DEF TypeOK
  <2>2. DeletableCheckpoints(Retained, gaps) \subseteq 1..made
    BY <1>3, CheckpointIds
  <2>. QED
    BY <1>1, <2>1, <2>2 DEF TypeOK
<1>5. Made' /\ Young' /\ Fresh' /\ Covered' /\ WeeklySeries'
  BY <1>1 DEF Made, Young, Fresh, Covered, WeeklySeries, Pinned, IsoWeek
<1>6. PlanStands'
  <2>1. plan'.retained \subseteq checkpoints'
    BY <1>1, RetainedIs
  <2>2. plan'.checkpoints \subseteq checkpoints' \ plan'.retained /\ plan'.events \subseteq events'
    BY <1>1, <1>2, <1>3
  <2>3. \A e \in events' : e \in plan'.events <=> \E g \in plan'.gaps : Within(g, e)
    BY <1>1 DEF DeletableEvents
  <2>4. \A g \in plan'.gaps :
          \E c, d \in plan'.retained : g.lower = rows'[c].base /\ g.upper = rows'[d].base
    BY <1>1, GapIs
  <2>5. \A c \in plan'.checkpoints :
          \E g \in plan'.gaps : g.lower < rows'[c].base /\ rows'[c].base < g.upper
    BY <1>1 DEF DeletableCheckpoints
  <2>6. \A c \in plan'.checkpoints :
          (/\ ~Pinned(c)
           /\ \E d \in plan.retained : c < d /\ ~Pinned(d) /\ SameWeek(c, d))'
    <3>1. \A c \in DeletableCheckpoints(Retained, gaps) :
            /\ ~Pinned(c)
            /\ \E d \in Retained : c < d /\ ~Pinned(d) /\ SameWeek(c, d)
      BY <1>3, RetainedIs
    <3>. QED
      BY <1>1, <3>1 DEF Pinned, SameWeek, IsoWeek
  <2>7. \A e \in plan'.events : appendedAt'[e] < today' - DetailedDays
    <3>1. \A e \in DeletableEvents(gaps) : appendedAt[e] < today - DetailedDays
      BY RetainedIs, GapsAreOld DEF DeletableEvents
    <3>. QED
      BY <1>1, <3>1
  <2>. QED
    BY <2>1, <2>2, <2>3, <2>4, <2>5, <2>6, <2>7 DEF PlanStands
<1>. QED
  BY <1>4, <1>5, <1>6

LEMMA HashBeforeKeeps ==
  ASSUME IInv, HashBefore
  PROVE  IInv'
<1>. USE DEF IInv
<1>1. /\ UNCHANGED <<last, appendedAt, events, made, rows, checkpoints, fresh, today>>
      /\ plan.step # "none" /\ plan'.step = "hashed"
      /\ plan'.retained = plan.retained /\ plan'.gaps = plan.gaps
      /\ plan'.events = plan.events /\ plan'.checkpoints = plan.checkpoints
  BY DEF HashBefore, board
<1>2. TypeOK'
  BY <1>1 DEF TypeOK
<1>3. Made' /\ Young' /\ Fresh' /\ Covered' /\ WeeklySeries'
  BY <1>1 DEF Made, Young, Fresh, Covered, WeeklySeries, Pinned, IsoWeek
<1>4. PlanStands'
  BY <1>1 DEF PlanStands, Within, Pinned, SameWeek, IsoWeek
<1>. QED
  BY <1>2, <1>3, <1>4

LEMMA RollBackKeeps ==
  ASSUME IInv, RollBack
  PROVE  IInv'
<1>. USE DEF IInv
<1>1. /\ UNCHANGED <<last, appendedAt, events, made, rows, checkpoints, fresh, today>>
      /\ plan'.step = "none"
  BY DEF RollBack, board
<1>2. TypeOK'
  BY <1>1 DEF TypeOK
<1>3. Made' /\ Young' /\ Fresh' /\ Covered' /\ WeeklySeries' /\ PlanStands'
  BY <1>1 DEF Made, Young, Fresh, Covered, WeeklySeries, PlanStands, Pinned, IsoWeek
<1>. QED
  BY <1>2, <1>3

-----------------------------------------------------------------------------
(* The transaction.                                                        *)

\* An event that is kept and lies behind the start of a gap lies behind its
\* end, and so does the next event to come.
LEMMA KeptIsBeyond ==
  ASSUME TypeOK, Made, PlanStands, plan.step # "none",
         NEW g \in plan.gaps, NEW e \in KeptEvents \cup {last + 1}, g.lower < e
  PROVE  \E d \in plan.retained \cap KeptCheckpoints :
           g.upper = rows[d].base /\ rows[d].base < e
<1>1. PICK d \in plan.retained : g.upper = rows[d].base
  BY DEF PlanStands
<1>2. d \in checkpoints /\ d \in KeptCheckpoints
  BY DEF PlanStands, KeptCheckpoints
<1>3. rows[d].base \in Nat /\ rows[d].base <= last /\ last \in Nat
  BY <1>2, Bases, Ids
<1>4. e \in Nat
  BY <1>3 DEF KeptEvents, TypeOK
<1>5. CASE e = last + 1
  <2>1. rows[d].base < e
    BY <1>3, <1>5
  <2>. QED
    BY <1>1, <1>2, <2>1
<1>6. CASE e \in KeptEvents
  <2>1. e \in events /\ e \notin plan.events
    BY <1>6 DEF KeptEvents
  <2>2. ~Within(g, e)
    BY <2>1 DEF PlanStands
  <2>3. rows[d].base < e
    BY <1>1, <1>3, <1>4, <2>2 DEF Within
  <2>. QED
    BY <1>1, <1>2, <2>3
<1>. QED
  BY <1>5, <1>6

\* Everything that the transaction deletes lies strictly behind the base of a
\* checkpoint that it keeps, and before or at the base of another.
LEMMA DeletedLiesWithin ==
  ASSUME TypeOK, Made, PlanStands, plan.step # "none"
  PROVE  /\ \A c \in checkpoints \ KeptCheckpoints : \E g \in plan.gaps :
              g.lower < rows[c].base /\ rows[c].base < g.upper
         /\ \A x \in events \ KeptEvents : \E g \in plan.gaps : Within(g, x)
         /\ \A g \in plan.gaps : \E c \in KeptCheckpoints : g.lower = rows[c].base
<1>1. \A c \in checkpoints \ KeptCheckpoints : c \in plan.checkpoints
  BY DEF KeptCheckpoints
<1>2. \A x \in events \ KeptEvents : x \in plan.events /\ x \in events
  BY DEF KeptEvents
<1>3. \A c \in plan.retained : c \in KeptCheckpoints
  BY DEF PlanStands, KeptCheckpoints
<1>. QED
  BY <1>1, <1>2, <1>3 DEF PlanStands

LEMMA ApplyKeepsCovered ==
  ASSUME TypeOK, Made, Covered, PlanStands, plan.step # "none",
         NEW e \in KeptEvents \cup {last + 1}
  PROVE  /\ \E c \in KeptCheckpoints : rows[c].base <= e
         /\ \A x \in (1..last) \ KeptEvents :
              x < e => \E c \in KeptCheckpoints : x <= rows[c].base /\ rows[c].base <= e
<1>1. e \in events \cup {last + 1} /\ e \in Nat /\ last \in Nat
  <2>1. \A x \in events : x \in Nat
    BY Ids DEF TypeOK
  <2>2. last \in Nat /\ last + 1 \in Nat
    BY Ids
  <2>3. e \in events \/ e = last + 1
    BY DEF KeptEvents
  <2>. QED
    BY <2>1, <2>2, <2>3
<1>2. \A c \in checkpoints : rows[c].base \in Nat
  BY Bases
<1>3. KeptCheckpoints \subseteq checkpoints
  BY DEF KeptCheckpoints
<1>4. \E c \in KeptCheckpoints : rows[c].base <= e
  <2>1. PICK c \in checkpoints : rows[c].base <= e
    BY <1>1 DEF Covered
  <2>2. CASE c \in KeptCheckpoints
    BY <2>1, <2>2
  <2>3. CASE c \notin KeptCheckpoints
    <3>1. PICK g \in plan.gaps : g.lower < rows[c].base /\ rows[c].base < g.upper
      BY <2>1, <2>3, DeletedLiesWithin
    <3>2. PICK d \in KeptCheckpoints : g.lower = rows[d].base
      BY <3>1, DeletedLiesWithin
    <3>3. rows[d].base \in Nat /\ rows[c].base \in Nat
      BY <1>2, <1>3, <2>1, <3>2
    <3>4. rows[d].base <= e
      BY <1>1, <2>1, <3>1, <3>2, <3>3
    <3>. QED
      BY <3>2, <3>4
  <2>. QED
    BY <2>2, <2>3
<1>5. ASSUME NEW x \in (1..last) \ KeptEvents, x < e
      PROVE  \E c \in KeptCheckpoints : x <= rows[c].base /\ rows[c].base <= e
  <2>0. x \in Nat
    BY <1>1
  <2>1. CASE x \in events
    <3>1. PICK g \in plan.gaps : Within(g, x)
      BY <1>5, <2>1, DeletedLiesWithin
    <3>2. PICK k \in KeptCheckpoints : g.lower = rows[k].base
      BY <3>1, DeletedLiesWithin
    <3>3. g.lower \in Nat
      BY <1>2, <1>3, <3>2
    <3>4. g.lower < e
      BY <1>1, <1>5, <2>0, <3>1, <3>3 DEF Within
    <3>5. PICK d \in KeptCheckpoints : g.upper = rows[d].base /\ rows[d].base < e
      BY <3>1, <3>4, KeptIsBeyond
    <3>6. rows[d].base \in Nat
      BY <1>2, <1>3, <3>5
    <3>7. x <= rows[d].base /\ rows[d].base <= e
      BY <1>1, <2>0, <3>1, <3>5, <3>6 DEF Within
    <3>. QED
      BY <3>5, <3>7
  <2>2. CASE x \notin events
    <3>1. PICK c \in checkpoints : x <= rows[c].base /\ rows[c].base <= e
      BY <1>1, <1>5, <2>2 DEF Covered
    <3>2. CASE c \in KeptCheckpoints
      BY <3>1, <3>2
    <3>3. CASE c \notin KeptCheckpoints
      <4>1. PICK g \in plan.gaps : g.lower < rows[c].base /\ rows[c].base < g.upper
        BY <3>1, <3>3, DeletedLiesWithin
      <4>2. PICK k \in KeptCheckpoints : g.lower = rows[k].base
        BY <4>1, DeletedLiesWithin
      <4>3. g.lower \in Nat /\ rows[c].base \in Nat
        BY <1>2, <1>3, <3>1, <4>2
      <4>4. g.lower < e
        BY <1>1, <3>1, <4>1, <4>3
      <4>5. PICK d \in KeptCheckpoints : g.upper = rows[d].base /\ rows[d].base < e
        BY <4>1, <4>4, KeptIsBeyond
      <4>6. rows[d].base \in Nat
        BY <1>2, <1>3, <4>5
      <4>7. x <= rows[d].base /\ rows[d].base <= e
        BY <1>1, <2>0, <3>1, <4>1, <4>3, <4>5, <4>6
      <4>. QED
        BY <4>5, <4>7
    <3>. QED
      BY <3>2, <3>3
  <2>. QED
    BY <2>1, <2>2
<1>. QED
  BY <1>4, <1>5

LEMMA ApplyKeepsSeries ==
  ASSUME TypeOK, WeeklySeries, PlanStands, plan.step # "none",
         NEW c \in 1..made, c \notin KeptCheckpoints
  PROVE  /\ ~Pinned(c)
         /\ \E d \in KeptCheckpoints : c < d /\ ~Pinned(d) /\ SameWeek(c, d)
<1>1. \A d \in plan.retained : d \in KeptCheckpoints
  BY DEF PlanStands, KeptCheckpoints
<1>2. \A d \in plan.checkpoints :
        /\ ~Pinned(d)
        /\ \E x \in KeptCheckpoints : d < x /\ ~Pinned(x) /\ SameWeek(d, x)
  BY <1>1 DEF PlanStands
<1>3. CASE c \in checkpoints
  BY <1>2, <1>3 DEF KeptCheckpoints
<1>4. CASE c \notin checkpoints
  <2>1. ~Pinned(c)
    BY <1>4 DEF WeeklySeries
  <2>2. PICK d \in checkpoints : c < d /\ ~Pinned(d) /\ SameWeek(c, d)
    BY <1>4 DEF WeeklySeries, SameWeek
  <2>3. CASE d \in KeptCheckpoints
    BY <2>1, <2>2, <2>3
  <2>4. CASE d \notin KeptCheckpoints
    <3>1. PICK x \in KeptCheckpoints : d < x /\ ~Pinned(x) /\ SameWeek(d, x)
      BY <1>2, <2>2, <2>4 DEF KeptCheckpoints
    <3>2. c \in Nat /\ d \in Nat /\ x \in Nat
      BY <2>2, <3>1, Ids, CheckpointIds DEF KeptCheckpoints
    <3>3. c < x /\ SameWeek(c, x)
      BY <2>2, <3>1, <3>2 DEF SameWeek
    <3>. QED
      BY <2>1, <3>1, <3>3
  <2>. QED
    BY <2>3, <2>4
<1>. QED
  BY <1>3, <1>4

LEMMA ApplyKeeps ==
  ASSUME IInv, Apply
  PROVE  IInv'
<1>. USE DEF IInv
<1>1. /\ UNCHANGED <<last, appendedAt, made, rows, fresh, today>>
      /\ events' = KeptEvents /\ checkpoints' = KeptCheckpoints
      /\ plan.step # "none" /\ plan'.step = "none"
  BY DEF Apply
<1>2. KeptEvents \subseteq events /\ KeptCheckpoints \subseteq checkpoints
  BY DEF KeptEvents, KeptCheckpoints
<1>3. TypeOK'
  BY <1>1, <1>2 DEF TypeOK
<1>4. Made' /\ Young' /\ PlanStands'
  BY <1>1 DEF Made, Young, PlanStands
<1>5. Fresh'
  <2>1. SUFFICES ASSUME fresh
                 PROVE  last \in KeptEvents
    BY <1>1 DEF Fresh
  <2>2. last \in events /\ last \in Nat /\ checkpoints \subseteq 1..made
    BY <2>1, Ids, CheckpointIds DEF Fresh
  <2>3. \A d \in checkpoints : rows[d].base \in Nat /\ rows[d].base < last
    BY <2>1, <2>2, Bases DEF Fresh
  <2>4. ASSUME NEW g \in plan.gaps
        PROVE  ~Within(g, last)
    <3>1. PICK d \in plan.retained : g.upper = rows[d].base
      BY <1>1, <2>4 DEF PlanStands
    <3>2. d \in checkpoints
      BY <1>1, <3>1 DEF PlanStands
    <3>. QED
      BY <2>2, <2>3, <3>1, <3>2 DEF Within
  <2>5. last \notin plan.events
    BY <1>1, <2>2, <2>4 DEF PlanStands
  <2>. QED
    BY <2>2, <2>5 DEF KeptEvents
<1>6. Covered'
  BY <1>1, ApplyKeepsCovered DEF Covered
<1>7. WeeklySeries'
  <2>1. \A c \in 1..made : c \notin KeptCheckpoints =>
          /\ ~Pinned(c)
          /\ \E d \in KeptCheckpoints : c < d /\ ~Pinned(d) /\ SameWeek(c, d)
    BY <1>1, ApplyKeepsSeries
  <2>. QED
    BY <1>1, <2>1 DEF WeeklySeries, Pinned, SameWeek, IsoWeek
<1>. QED
  BY <1>3, <1>4, <1>5, <1>6, <1>7

-----------------------------------------------------------------------------
(* The theorems.                                                           *)

LEMMA InitEstablishes == Init => IInv
<1>. SUFFICES ASSUME Init
              PROVE  IInv
  OBVIOUS
<1>. USE RetentionAssumption
<1>. DEFINE first == Checkpoint(0, 1, "legacy_import", {1})
<1>1. /\ last = 1 /\ events = {1} /\ made = 1 /\ checkpoints = {1} /\ fresh = FALSE /\ today = 0
      /\ appendedAt = [e \in EventIds |-> 0]
      /\ rows = [c \in EventIds |-> first]
      /\ plan.step = "none"
  BY DEF Init
<1>2. 1 \in EventIds /\ 0 \in Times
  BY DEF EventIds, Times
<1>3. first \in Rows /\ first.base = 1 /\ first.has = {1} /\ first.at = 0
  <2>1. first \in Rows
    BY <1>2, RowIsOne DEF Reasons
  <2>. QED
    BY <2>1 DEF Checkpoint
<1>. HIDE DEF first
<1>4. rows[1] = first /\ appendedAt[1] = 0
  BY <1>1, <1>2
<1>5. TypeOK
  <2>1. appendedAt \in [EventIds -> Times] /\ rows \in [EventIds -> Rows]
    BY <1>1, <1>2, <1>3
  <2>2. events \subseteq 1..last /\ made \in 1..last /\ checkpoints \subseteq 1..made
    BY <1>1
  <2>. QED
    BY <1>1, <1>2, <2>1, <2>2 DEF TypeOK
<1>6. Made
  <2>1. \A c \in 1..made : c = 1
    BY <1>1
  <2>2. {1} = 1..1
    OBVIOUS
  <2>3. \A e \in 1..1 : e = 1
    OBVIOUS
  <2>4. /\ rows[1].base \in 1..last /\ rows[1].has = 1..rows[1].base /\ rows[1].at <= today
        /\ \A e \in 1..rows[1].base : appendedAt[e] <= rows[1].at
    <3>1. rows[1].base = 1 /\ rows[1].has = {1} /\ rows[1].at = 0 /\ 1..rows[1].base = {1}
      BY <1>3, <1>4, <2>2
    <3>2. 0 <= today /\ \A e \in {1} : appendedAt[e] <= 0
      BY <1>1, <1>4
    <3>3. 1 \in 1..last
      BY <1>1
    <3>. QED
      BY <2>2, <3>1, <3>2, <3>3
  <2>. QED
    BY <2>1, <2>4 DEF Made
<1>7. Young
  BY <1>1, <1>4 DEF Young
<1>8. Fresh /\ PlanStands
  BY <1>1 DEF Fresh, PlanStands
<1>9. Covered
  BY <1>1, <1>3, <1>4 DEF Covered
<1>10. WeeklySeries
  BY <1>1 DEF WeeklySeries
<1>. QED
  BY <1>5, <1>6, <1>7, <1>8, <1>9, <1>10 DEF IInv

LEMMA NextKeeps == IInv /\ [Next]_vars => IInv'
<1>. SUFFICES ASSUME IInv, [Next]_vars
              PROVE  IInv'
  OBVIOUS
<1>1. CASE AppendEvent
  BY <1>1, AppendEventKeeps
<1>2. CASE MaybeCheckpoint \/ CreateRoomCheckpoint
  BY <1>2, CheckpointKeeps
<1>3. ASSUME NEW e \in EventIds, RestoreRoomVersion(e)
      PROVE  IInv'
  BY <1>3, RestoreKeeps
<1>4. CASE PlanCompaction
  BY <1>4, PlanCompactionKeeps
<1>5. CASE HashBefore
  BY <1>5, HashBeforeKeeps
<1>6. CASE Apply
  BY <1>6, ApplyKeeps
<1>7. CASE RollBack
  BY <1>7, RollBackKeeps
<1>8. CASE Crash
  BY <1>8, CrashKeeps
<1>9. CASE Tick
  BY <1>9, TickKeeps
<1>10. CASE UNCHANGED vars
  BY <1>10 DEF vars, IInv, TypeOK, Made, Young, Fresh, Covered, PlanStands, WeeklySeries,
               Within, Pinned, SameWeek, IsoWeek
<1>. QED
  BY <1>1, <1>2, <1>3, <1>4, <1>5, <1>6, <1>7, <1>8, <1>9, <1>10 DEF Next

LEMMA Invariant == Spec => []IInv
BY InitEstablishes, NextKeeps, PTL DEF Spec

\* Ids, rows and plans are what the tables and the script can hold.
THEOREM TypeCorrect == Spec => []TypeOK
<1>1. IInv => TypeOK
  BY DEF IInv
<1>. QED
  BY <1>1, Invariant, PTL

\* However many passes ran beside the server, every event that is left is
\* rebuilt as the board after it, and every checkpoint as the board at its base.
THEOREM KeptVersionsReplay == Spec => []KeptVersions
<1>1. ASSUME IInv
      PROVE  KeptVersions
  <2>. USE <1>1 DEF IInv
  <2>1. last \in Nat /\ events \subseteq 1..last /\ checkpoints \subseteq 1..made
    BY Ids, CheckpointIds DEF TypeOK
  <2>2. ASSUME NEW e \in events
        PROVE  Snapshot(ReconstructEvent(e, events, checkpoints)) = 1..e
    <3>. DEFINE b == BaseFor(e, checkpoints)
    <3>1. e \in Nat /\ \E c \in checkpoints : rows[c].base <= e
      BY <2>1 DEF Covered
    <3>2. /\ b \in checkpoints /\ rows[b].base <= e
          /\ \A d \in checkpoints : rows[d].base <= e =>
               rows[d].base < rows[b].base \/ (rows[d].base = rows[b].base /\ d <= b)
      BY <3>1, BaseForIs, Zenon
    <3>. HIDE DEF b
    <3>3. rows[b].base \in Nat /\ \A d \in checkpoints : rows[d].base \in Nat
      BY <3>2, Bases
    <3>4. rows[b].has = 1..rows[b].base
      BY <2>1, <3>2 DEF Made
    <3>5. ASSUME NEW x \in 1..e, x \notin events
          PROVE  x <= rows[b].base
      <4>1. x \in (1..last) \ events /\ x < e
        BY <2>1, <3>1, <3>5
      <4>2. PICK c \in checkpoints : x <= rows[c].base /\ rows[c].base <= e
        BY <4>1 DEF Covered
      <4>3. rows[c].base <= rows[b].base
        BY <3>2, <3>3, <4>2
      <4>. QED
        BY <2>1, <3>3, <4>1, <4>2, <4>3
    <3>6. (1..rows[b].base) \cup {x \in events : rows[b].base < x /\ x <= e} = 1..e
      <4>1. \A x \in 1..e : x \in 1..rows[b].base \/ (x \in events /\ rows[b].base < x /\ x <= e)
        BY <3>1, <3>3, <3>5
      <4>2. \A x \in 1..rows[b].base : x \in 1..e
        BY <3>1, <3>2, <3>3
      <4>3. \A x \in events : x <= e => x \in 1..e
        <5>1. \A x \in events : x \in Nat /\ 1 <= x
          BY <2>1
        <5>. QED
          BY <3>1, <5>1
      <4>. QED
        BY <4>1, <4>2, <4>3
    <3>7. Snapshot(ReconstructEvent(e, events, checkpoints)) =
            rows[b].has \cup {x \in events : rows[b].base < x /\ x <= e}
      BY DEF Snapshot, ReconstructEvent, Rebuilt, b
    <3>. QED
      BY <3>4, <3>6, <3>7, Zenon
  <2>3. ASSUME NEW c \in checkpoints
        PROVE  Snapshot(ReconstructCheckpoint(c, events)) = 1..rows[c].base
    <3>1. rows[c].base \in Nat /\ rows[c].has = 1..rows[c].base
      BY <2>1, Bases DEF Made
    <3>2. {x \in events : rows[c].base < x /\ x <= rows[c].base} = {}
      <4>1. \A x \in events : x \in Nat
        BY <2>1
      <4>. QED
        BY <3>1, <4>1
    <3>3. Snapshot(ReconstructCheckpoint(c, events)) =
            rows[c].has \cup {x \in events : rows[c].base < x /\ x <= rows[c].base}
      BY DEF Snapshot, ReconstructCheckpoint, Rebuilt
    <3>. QED
      BY <3>1, <3>2, <3>3
  <2>. QED
    BY <2>2, <2>3 DEF KeptVersions
<1>. QED
  BY <1>1, Invariant, PTL

\* A version that is kept is rebuilt from the same checkpoint and the same
\* events after the transaction as before it.
LEMMA KeptAreRebuiltAlike ==
  ASSUME IInv, plan.step # "none", NEW e \in KeptEvents
  PROVE  ReconstructEvent(e, KeptEvents, KeptCheckpoints) = ReconstructEvent(e, events, checkpoints)
<1>. USE DEF IInv
<1>. DEFINE b == BaseFor(e, checkpoints)
<1>1. e \in events /\ e \in Nat /\ \A x \in events : x \in Nat
  <2>1. \A x \in events : x \in Nat
    BY Ids DEF TypeOK
  <2>. QED
    BY <2>1 DEF KeptEvents
<1>2. KeptEvents \subseteq events /\ KeptCheckpoints \subseteq checkpoints
  BY DEF KeptEvents, KeptCheckpoints
<1>3. \E c \in checkpoints : rows[c].base <= e
  BY <1>1 DEF Covered
<1>4. /\ b \in checkpoints /\ rows[b].base <= e
      /\ \A d \in checkpoints : rows[d].base <= e =>
           rows[d].base < rows[b].base \/ (rows[d].base = rows[b].base /\ d <= b)
  BY <1>1, <1>3, BaseForIs, Zenon
<1>. HIDE DEF b
<1>5. \A d \in checkpoints : rows[d].base \in Nat
  BY Bases
<1>6. ASSUME NEW g \in plan.gaps, g.lower < e
      PROVE  g.upper \in Nat /\ g.upper <= rows[b].base
  <2>1. PICK d \in KeptCheckpoints : g.upper = rows[d].base /\ rows[d].base < e
    BY <1>6, KeptIsBeyond
  <2>2. d \in checkpoints /\ rows[d].base \in Nat
    BY <1>2, <1>5, <2>1
  <2>3. rows[d].base <= e
    BY <1>1, <2>1, <2>2
  <2>4. rows[d].base <= rows[b].base
    BY <1>4, <1>5, <2>2, <2>3
  <2>. QED
    BY <2>1, <2>2, <2>4
<1>7. ASSUME NEW g \in plan.gaps
      PROVE  g.lower \in Nat
  <2>1. PICK k \in KeptCheckpoints : g.lower = rows[k].base
    BY <1>7, DeletedLiesWithin
  <2>. QED
    BY <1>2, <1>5, <2>1
<1>8. b \in KeptCheckpoints
  <2>1. SUFFICES ASSUME b \notin KeptCheckpoints
                 PROVE  FALSE
    OBVIOUS
  <2>2. PICK g \in plan.gaps : g.lower < rows[b].base /\ rows[b].base < g.upper
    BY <1>4, <2>1, DeletedLiesWithin
  <2>3. g.lower \in Nat /\ rows[b].base \in Nat
    BY <1>4, <1>5, <1>7
  <2>4. g.lower < e
    BY <1>1, <1>4, <2>2, <2>3
  <2>5. g.upper \in Nat /\ g.upper <= rows[b].base
    BY <1>6, <2>4
  <2>. QED
    BY <2>2, <2>3, <2>5
<1>9. BaseFor(e, KeptCheckpoints) = b
  <2>1. \A d \in KeptCheckpoints : rows[d].base <= e =>
          rows[d].base < rows[b].base \/ (rows[d].base = rows[b].base /\ d <= b)
    BY <1>2, <1>4
  <2>2. KeptCheckpoints \in SUBSET checkpoints
    BY <1>2
  <2>. QED
    BY <1>1, <1>4, <1>8, <2>1, <2>2, BaseForOnly
<1>10. ASSUME NEW x \in events, rows[b].base < x, x <= e
       PROVE  x \in KeptEvents
  <2>1. SUFFICES ASSUME x \notin KeptEvents
                 PROVE  FALSE
    OBVIOUS
  <2>2. PICK g \in plan.gaps : Within(g, x)
    BY <1>10, <2>1, DeletedLiesWithin
  <2>3. g.lower \in Nat /\ rows[b].base \in Nat /\ x \in Nat
    BY <1>1, <1>4, <1>5, <1>7, <1>10
  <2>4. g.lower < e
    BY <1>1, <1>10, <2>2, <2>3 DEF Within
  <2>5. g.upper \in Nat /\ g.upper <= rows[b].base
    BY <1>6, <2>4
  <2>. QED
    BY <1>10, <2>2, <2>3, <2>5 DEF Within
<1>11. {x \in KeptEvents : rows[b].base < x /\ x <= e} = {x \in events : rows[b].base < x /\ x <= e}
  BY <1>2, <1>10
<1>. QED
  BY <1>9, <1>11 DEF ReconstructEvent, Rebuilt, b

\* A plan, however old, rebuilds what it keeps as before: the hashes that the
\* transaction compares never differ.
THEOREM PlansRebuildAlike == Spec => []PlansAreSound
<1>1. ASSUME IInv
      PROVE  PlansAreSound
  <2>. USE <1>1
  <2>1. SUFFICES ASSUME plan.step = "hashed"
                 PROVE  /\ plan.events \subseteq events
                        /\ SnapshotHashes(KeptEvents, KeptEvents, KeptCheckpoints) =
                             SnapshotHashes(KeptEvents, events, checkpoints)
    BY DEF PlansAreSound
  <2>2. plan.step # "none"
    BY <2>1
  <2>3. plan.events \subseteq events /\ plan.retained \subseteq checkpoints
    BY <2>2 DEF IInv, PlanStands
  <2>4. \A e \in KeptEvents :
          ReconstructEvent(e, KeptEvents, KeptCheckpoints) = ReconstructEvent(e, events, checkpoints)
    BY <2>2, KeptAreRebuiltAlike
  <2>5. \A c \in plan.retained :
          ReconstructCheckpoint(c, KeptEvents) = ReconstructCheckpoint(c, events)
    <3>1. \A x \in events : x \in Nat
      BY Ids DEF IInv, TypeOK
    <3>2. \A c \in plan.retained : rows[c].base \in Nat
      BY <2>3, Bases DEF IInv
    <3>3. ASSUME NEW c \in plan.retained
          PROVE  {x \in KeptEvents : rows[c].base < x /\ x <= rows[c].base} =
                   {x \in events : rows[c].base < x /\ x <= rows[c].base}
      BY <3>1, <3>2 DEF KeptEvents
    <3>. QED
      BY <3>3 DEF ReconstructCheckpoint, Rebuilt
  <2>. QED
    BY <2>3, <2>4, <2>5 DEF SnapshotHashes
<1>. QED
  BY <1>1, Invariant, PTL

\* Of every checkpoint that was made, it, or a later one of its week, is there.
THEOREM WeeksStayShown == Spec => []WeeklySeries
<1>1. IInv => WeeklySeries
  BY DEF IInv
<1>. QED
  BY <1>1, Invariant, PTL

\* Events are deleted only out of the days of full resolution.
THEOREM RecentEventsStay == Spec => FullResolution
<1>1. IInv /\ [Next]_vars => \A e \in events \ events' : appendedAt[e] < today - DetailedDays
  <2>. SUFFICES ASSUME IInv, [Next]_vars
                PROVE  \A e \in events \ events' : appendedAt[e] < today - DetailedDays
    OBVIOUS
  <2>1. ASSUME NEW e \in events, e \notin events'
        PROVE  appendedAt[e] < today - DetailedDays
    <3>1. CASE Apply
      <4>1. e \in plan.events /\ plan.step # "none"
        BY <2>1, <3>1 DEF Apply, KeptEvents
      <4>. QED
        BY <4>1 DEF IInv, PlanStands
    <3>2. CASE ~Apply
      BY <2>1, <3>2 DEF Next, vars, board, AppendEvent, MaybeCheckpoint, CreateRoomCheckpoint,
        RestoreRoomVersion, PlanCompaction, HashBefore, RollBack, Crash, Tick
    <3>. QED
      BY <3>1, <3>2
  <2>. QED
    BY <2>1
<1>. QED
  BY <1>1, Invariant, PTL DEF Spec, FullResolution
=============================================================================
