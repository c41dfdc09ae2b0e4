------------------------- MODULE MeasurementsProofs -------------------------
(***************************************************************************)
(* Proofs about Measurements, for any number of browsers, shapes, pages,   *)
(* contents and failures.                                                  *)
(*                                                                         *)
(* A wrong size does not stay because of three facts.  A content is drawn  *)
(* once: what a browser has not sent nobody else has, and what it measured *)
(* and the document has, it still shows.  A size is wrong only if the font *)
(* was not asked for, so that the text is on a page that the browser did   *)
(* not show when its run began, or the document changed while fonts loaded *)
(* and a flush is scheduled.  And a flush with its page shown sends the    *)
(* right size, which the browser has not reported yet.                     *)
(***************************************************************************)
EXTENDS Measurements, TLAPS

Right(c) == [fp |-> c, size |-> "right"]

Measures == [fp : Contents, size : {"wrong", "right"}]
Reports == UNION {[S -> Measures] : S \in SUBSET Shapes}

\* The document, what the server and the browsers have of it.
DocumentTypes ==
  /\ doc \in [Shapes -> 0 .. MaxContent]
  /\ rows \in [Shapes -> Measures \cup {None}]
  /\ local \in [Browsers -> [Shapes -> 0 .. MaxContent]]
  /\ unsent \in [Browsers -> SUBSET Shapes]
  /\ drawn \in 0 .. MaxContent

\* The reporters.
ReporterTypes ==
  /\ loaded \in [Browsers -> SUBSET Slow]
  /\ page \in [Browsers -> {"closed", "open", "stopped"}]
  /\ shown \in [Browsers -> Pages]
  /\ viewed \in [Browsers -> Pages]
  /\ timer \in [Browsers -> BOOLEAN]
  /\ stage \in [Browsers -> {"idle", "fonts", "sent", "answered", "failed"}]
  /\ asked \in [Browsers -> SUBSET Slow]
  /\ batch \in [Browsers -> Reports]
  /\ left \in [Browsers -> Reports]
  /\ again \in [Browsers -> BOOLEAN]
  /\ reported \in [Browsers -> [Shapes -> Measures \cup {None}]]

Types == DocumentTypes /\ ReporterTypes

\* A browser has measured content c of a shape, and may have sent or reported it.
Knows(b, s, c) ==
  \/ s \in DOMAIN batch[b] /\ batch[b][s].fp = c
  \/ s \in DOMAIN left[b] /\ left[b][s].fp = c
  \/ reported[b][s].fp = c

\* No content is ahead of the last one drawn.
NoneAhead ==
  \A s \in Shapes :
    /\ doc[s] <= drawn /\ rows[s].fp <= drawn
    /\ \A b \in Browsers :
         /\ local[b][s] <= drawn
         /\ \A c \in Contents : Knows(b, s, c) => c <= drawn

\* What a browser has not sent, nobody else has.
UnsentIsPrivate ==
  \A b \in Browsers : \A s \in unsent[b] : \A c \in Contents :
    local[b][s] = c =>
      /\ doc[s] # c /\ rows[s].fp # c
      /\ \A o \in Browsers \ {b} : local[o][s] # c /\ ~Knows(o, s, c)

\* A browser that has measured what the document has still shows it.
StillShown ==
  \A b \in Browsers : \A s \in Shapes \ unsent[b] : \A c \in Contents :
    page[b] = "open" /\ doc[s] = c /\ Knows(b, s, c) => local[b][s] = c

ClosedHasSentAll == \A b \in Browsers : page[b] # "open" => unsent[b] = {}

DocumentInv == NoneAhead /\ UnsentIsPrivate /\ StillShown /\ ClosedHasSentAll

\* What a browser measures with the fonts it has.
SizeFor(b, c) == IF c \in Slow \ loaded[b] THEN "wrong" ELSE "right"

\* The measurements of a run were taken with the fonts there still are, and a
\* right one was never taken without.
TakenWith(b) ==
  /\ \A s \in DOMAIN batch[b] : batch[b][s].size = SizeFor(b, batch[b][s].fp)
  /\ \A s \in DOMAIN left[b] : left[b][s].size = SizeFor(b, left[b][s].fp)
  /\ \A s \in Shapes : reported[b][s].size = "right" => reported[b][s].fp \notin Slow \ loaded[b]

\* Another run is certain to begin.
Again(b) == timer[b] \/ again[b]

\* The fonts of the page shown have been asked for, or the document has changed
\* since.
FontsAsked(b) ==
  stage[b] = "fonts" /\ page[b] = "open" =>
    \/ Again(b)
    \/ \A s \in Shapes :
         PageOf[s] = viewed[b] /\ local[b][s] \in Slow => local[b][s] \in asked[b] \cup loaded[b]

\* A measurement of what browser b has, right if it showed the shape.
Sound(b, s, m) == m.fp = local[b][s] /\ (m.size = "right" \/ PageOf[s] # viewed[b])

\* A run whose measurements are not of what the browser has, or not right though
\* it showed their page, is not the last one.
RunsAgain(b) ==
  stage[b] \in {"sent", "answered"} /\ page[b] = "open" =>
    \/ Again(b)
    \/ /\ \A s \in DOMAIN batch[b] : Sound(b, s, batch[b][s])
       /\ \A s \in DOMAIN left[b] : Sound(b, s, left[b][s])

Stages(b) ==
  /\ stage[b] # "idle" => page[b] # "closed"
  /\ timer[b] => page[b] = "open"
  /\ DOMAIN batch[b] \cap DOMAIN left[b] = {}

ReporterInv(b) == TakenWith(b) /\ FontsAsked(b) /\ RunsAgain(b) /\ Stages(b)

\* It has the shape as it is, has not reported its right size, and will measure
\* it again or has it on a page that it did not show.
Responsible(b, s) ==
  /\ page[b] = "open"
  /\ local[b][s] = doc[s]
  /\ reported[b][s] # Right(doc[s])
  /\ stage[b] = "answered" /\ s \in DOMAIN batch[b] => batch[b][s] # Right(doc[s])
  /\ \/ Again(b)
     \/ stage[b] \in {"fonts", "failed"}
     \/ stage[b] = "sent" /\ s \in DOMAIN batch[b] \cup DOMAIN left[b]
     \/ stage[b] = "answered" /\ s \in DOMAIN left[b]
     \/ viewed[b] # PageOf[s]

Owns(b, s) == page[b] = "stopped" \/ s \in unsent[b] \/ Responsible(b, s)

WrongHasOwner ==
  \A s \in Shapes : Trusted(s) /\ rows[s].size = "wrong" => \E b \in Browsers : Owns(b, s)

ReportersInv == \A b \in Browsers : ReporterInv(b)

IInv == Types /\ DocumentInv /\ ReportersInv /\ WrongHasOwner

-----------------------------------------------------------------------------
(* Reports.                                                                *)

LEMMA ReportFacts ==
  /\ \A f \in Reports : /\ DOMAIN f \subseteq Shapes
                        /\ \A s \in DOMAIN f : f[s] \in Measures
  /\ \A S \in SUBSET Shapes : \A f \in [S -> Measures] : f \in Reports
  /\ Nothing \in Reports /\ DOMAIN Nothing = {}
<1>1. ASSUME NEW f \in Reports
      PROVE  DOMAIN f \subseteq Shapes /\ \A s \in DOMAIN f : f[s] \in Measures
  <2>1. PICK S \in SUBSET Shapes : f \in [S -> Measures]
    BY DEF Reports
  <2>. QED
    BY <2>1
<1>2. ASSUME NEW S \in SUBSET Shapes, NEW f \in [S -> Measures]
      PROVE  f \in Reports
  BY DEF Reports
<1>3. Nothing \in [{} -> Measures] /\ DOMAIN Nothing = {}
  BY DEF Nothing
<1>4. Nothing \in Reports
  BY <1>2, <1>3
<1>. QED
  BY <1>1, <1>2, <1>3, <1>4

-----------------------------------------------------------------------------
(* What each step of a reporter leaves.                                    *)

\* The other reporters are where they were.
OthersStay(b) ==
  \A o \in Browsers \ {b} :
    /\ stage'[o] = stage[o] /\ viewed'[o] = viewed[o] /\ asked'[o] = asked[o]
    /\ batch'[o] = batch[o] /\ left'[o] = left[o] /\ again'[o] = again[o]
    /\ timer'[o] = timer[o] /\ reported'[o] = reported[o] /\ loaded'[o] = loaded[o]

\* The run is over, and the next one begins or not.
RunEnds(b) ==
  /\ batch'[b] = Nothing /\ left'[b] = Nothing
  /\ \/ /\ stage'[b] = "fonts" /\ again'[b] = FALSE
        /\ viewed'[b] = shown[b] /\ asked'[b] = FontsShown(b)
     \/ /\ stage'[b] = "idle" /\ again'[b] = again[b]
        /\ viewed'[b] = viewed[b] /\ asked'[b] = {}
        /\ ~(again[b] /\ page[b] = "open")

\* Some of the measurements are sent and the others kept.
RunSends(b, todo) ==
  /\ stage'[b] = "sent" /\ again'[b] = again[b]
  /\ viewed'[b] = viewed[b] /\ asked'[b] = {}
  /\ DOMAIN batch'[b] \cup DOMAIN left'[b] = DOMAIN todo
  /\ DOMAIN batch'[b] \cap DOMAIN left'[b] = {}
  /\ \A s \in DOMAIN batch'[b] : batch'[b][s] = todo[s]
  /\ \A s \in DOMAIN left'[b] : left'[b][s] = todo[s]

RunTypes ==
  /\ stage' \in [Browsers -> {"idle", "fonts", "sent", "answered", "failed"}]
  /\ viewed' \in [Browsers -> Pages]
  /\ asked' \in [Browsers -> SUBSET Slow]
  /\ batch' \in [Browsers -> Reports]
  /\ left' \in [Browsers -> Reports]
  /\ again' \in [Browsers -> BOOLEAN]

RunOfOthersStays(b) ==
  \A o \in Browsers \ {b} :
    /\ stage'[o] = stage[o] /\ viewed'[o] = viewed[o] /\ asked'[o] = asked[o]
    /\ batch'[o] = batch[o] /\ left'[o] = left[o] /\ again'[o] = again[o]

LEMMA BeginRunDoes ==
  ASSUME ReporterTypes, NEW b \in Browsers, BeginRun(b), again' \in [Browsers -> BOOLEAN],
         \A o \in Browsers \ {b} : again'[o] = again[o]
  PROVE  /\ RunTypes /\ RunOfOthersStays(b)
         /\ stage'[b] = "fonts" /\ batch'[b] = Nothing /\ left'[b] = Nothing
         /\ viewed'[b] = shown[b] /\ asked'[b] = FontsShown(b)
<1>1. FontsShown(b) \in SUBSET Slow
  BY DEF FontsShown
<1>2. /\ stage' \in [Browsers -> {"idle", "fonts", "sent", "answered", "failed"}]
      /\ viewed' \in [Browsers -> Pages]
      /\ asked' \in [Browsers -> SUBSET Slow]
      /\ batch' \in [Browsers -> Reports]
      /\ left' \in [Browsers -> Reports]
  BY <1>1, ReportFacts DEF BeginRun, Set, ReporterTypes
<1>. QED
  BY <1>2 DEF BeginRun, Set, ReporterTypes, RunTypes, RunOfOthersStays

LEMMA FinishDoes ==
  ASSUME ReporterTypes, NEW b \in Browsers, Finish(b)
  PROVE  RunTypes /\ RunOfOthersStays(b) /\ RunEnds(b)
<1>1. CASE again[b] /\ page[b] = "open"
  <2>1. BeginRun(b) /\ again' = Set(again, b, FALSE)
    BY <1>1 DEF Finish
  <2>2. /\ again' \in [Browsers -> BOOLEAN] /\ again'[b] = FALSE
        /\ \A o \in Browsers \ {b} : again'[o] = again[o]
    BY <2>1 DEF Set, ReporterTypes
  <2>. QED
    BY <2>1, <2>2, BeginRunDoes DEF RunEnds
<1>2. CASE ~(again[b] /\ page[b] = "open")
  <2>1. EndRun(b) /\ UNCHANGED again
    BY <1>2 DEF Finish
  <2>2. RunTypes
    BY <2>1, ReportFacts DEF EndRun, Set, ReporterTypes, RunTypes
  <2>3. RunOfOthersStays(b)
    BY <2>1 DEF EndRun, Set, ReporterTypes, RunOfOthersStays
  <2>4. RunEnds(b)
    BY <1>2, <2>1 DEF EndRun, Set, ReporterTypes, RunEnds
  <2>. QED
    BY <2>2, <2>3, <2>4
<1>. QED
  BY <1>1, <1>2

LEMMA SendBatchDoes ==
  ASSUME ReporterTypes, NEW b \in Browsers, NEW todo \in Reports, SendBatch(b, todo)
  PROVE  RunTypes /\ RunOfOthersStays(b) /\ RunSends(b, todo)
<1>1. PICK sent \in SUBSET DOMAIN todo :
        /\ stage' = Set(stage, b, "sent")
        /\ batch' = Set(batch, b, [s \in sent |-> todo[s]])
        /\ left' = Set(left, b, [s \in DOMAIN todo \ sent |-> todo[s]])
        /\ asked' = Set(asked, b, {})
        /\ UNCHANGED <<viewed, again>>
  BY DEF SendBatch
<1> DEFINE first == [s \in sent |-> todo[s]]
           rest == [s \in DOMAIN todo \ sent |-> todo[s]]
<1>2. /\ DOMAIN first = sent /\ DOMAIN rest = DOMAIN todo \ sent
      /\ \A s \in sent : first[s] = todo[s]
      /\ \A s \in DOMAIN todo \ sent : rest[s] = todo[s]
  OBVIOUS
<1>3. first \in Reports /\ rest \in Reports
  <2>1. DOMAIN todo \subseteq Shapes /\ \A s \in DOMAIN todo : todo[s] \in Measures
    BY ReportFacts
  <2>2. sent \in SUBSET Shapes /\ DOMAIN todo \ sent \in SUBSET Shapes
    BY <2>1
  <2>3. first \in [sent -> Measures] /\ rest \in [DOMAIN todo \ sent -> Measures]
    BY <2>1
  <2> HIDE DEF first, rest
  <2>. QED
    BY <2>2, <2>3, ReportFacts
<1>4. batch' = Set(batch, b, first) /\ left' = Set(left, b, rest)
  BY <1>1
<1> HIDE DEF first, rest
<1>5. RunTypes
  BY <1>1, <1>3, <1>4 DEF Set, ReporterTypes, RunTypes
<1>6. RunOfOthersStays(b)
  BY <1>1, <1>4 DEF Set, ReporterTypes, RunOfOthersStays
<1>7. batch'[b] = first /\ left'[b] = rest
  BY <1>4 DEF Set, ReporterTypes
<1>8. stage'[b] = "sent" /\ UNCHANGED <<viewed, again>> /\ asked'[b] = {}
  BY <1>1 DEF Set, ReporterTypes
<1>9. RunSends(b, todo)
  BY <1>2, <1>7, <1>8 DEF RunSends
<1>. QED
  BY <1>5, <1>6, <1>9

\* The document and what the server stores of it stay.
ReporterFrame == UNCHANGED <<document, rows, page, shown>>

LEMMA FontsReadyDoes ==
  ASSUME MeasurementsAssumption, Types, NEW b \in Browsers, FontsReady(b)
  PROVE  /\ ReporterTypes' /\ ReporterFrame /\ OthersStay(b) /\ stage[b] = "fonts"
         /\ timer'[b] = timer[b] /\ loaded'[b] = loaded[b] \cup asked[b]
         /\ \/ page[b] # "open" /\ RunEnds(b) /\ reported'[b] = reported[b]
            \/ /\ page[b] = "open"
               /\ \A s \in Shapes : reported'[b][s] = IF local[b][s] = Absent THEN None
                                                      ELSE reported[b][s]
               /\ \/ Pending(b) = {} /\ RunEnds(b)
                  \/ RunSends(b, [s \in Pending(b) |-> Measured(b, s)])
<1>1. /\ stage[b] = "fonts" /\ loaded' = [loaded EXCEPT ![b] = @ \cup asked[b]]
      /\ UNCHANGED <<document, rows, page, shown, timer>>
  BY DEF FontsReady, view
<1>2. ReporterFrame
  BY <1>1 DEF ReporterFrame
<1>3. ReporterTypes
  BY DEF Types
<1>4. /\ loaded' \in [Browsers -> SUBSET Slow] /\ loaded'[b] = loaded[b] \cup asked[b]
      /\ \A o \in Browsers \ {b} : loaded'[o] = loaded[o]
  BY <1>1, <1>3 DEF ReporterTypes
<1>5. /\ page' \in [Browsers -> {"closed", "open", "stopped"}] /\ timer' \in [Browsers -> BOOLEAN]
      /\ timer' = timer /\ shown' \in [Browsers -> Pages]
  BY <1>1, <1>3 DEF ReporterTypes
<1> DEFINE seen == [s \in Shapes |-> IF local[b][s] = Absent THEN None ELSE reported[b][s]]
           todo == [s \in Pending(b) |-> Measured(b, s)]
<1>6. CASE page[b] # "open"
  <2>1. Finish(b) /\ UNCHANGED reported
    BY <1>6 DEF FontsReady
  <2>2. RunTypes /\ RunOfOthersStays(b) /\ RunEnds(b)
    BY <1>3, <2>1, FinishDoes
  <2>3. ReporterTypes'
    BY <1>3, <1>4, <1>5, <2>1, <2>2 DEF ReporterTypes, RunTypes
  <2>4. OthersStay(b)
    BY <1>4, <1>5, <2>1, <2>2 DEF OthersStay, RunOfOthersStays
  <2>. QED
    BY <1>1, <1>2, <1>4, <1>5, <1>6, <2>1, <2>2, <2>3, <2>4
<1>7. CASE page[b] = "open"
  <2>1. /\ reported' = [reported EXCEPT ![b] =
                          [s \in Shapes |-> IF local[b][s] = Absent THEN None ELSE @[s]]]
        /\ IF Pending(b) = {} THEN Finish(b) ELSE SendBatch(b, todo)
    BY <1>7 DEF FontsReady
  <2>2. reported' = [reported EXCEPT ![b] = seen]
    BY <2>1
  <2>3. seen \in [Shapes -> Measures \cup {None}]
    BY <1>3 DEF ReporterTypes
  <2>4. /\ reported' \in [Browsers -> [Shapes -> Measures \cup {None}]]
        /\ reported'[b] = seen
        /\ \A o \in Browsers \ {b} : reported'[o] = reported[o]
    <3> HIDE DEF seen
    <3>. QED
      BY <1>3, <2>2, <2>3 DEF ReporterTypes
  <2>5. todo \in Reports
    <3>1. Pending(b) \in SUBSET Shapes
      BY DEF Pending
    <3>2. \A s \in Pending(b) : Measured(b, s) \in Measures
      <4> SUFFICES ASSUME NEW s \in Pending(b) PROVE Measured(b, s) \in Measures
        OBVIOUS
      <4>1. local[b][s] \in Contents
        BY MeasurementsAssumption DEF Pending, Contents, Absent, Types, DocumentTypes
      <4>. QED
        BY <4>1 DEF Measured, Measures
    <3>3. todo \in [Pending(b) -> Measures]
      BY <3>2
    <3> HIDE DEF todo
    <3>. QED
      BY <3>1, <3>3, ReportFacts
  <2> HIDE DEF todo
  <2>6. /\ RunTypes /\ RunOfOthersStays(b)
        /\ (Pending(b) = {} /\ RunEnds(b)) \/ RunSends(b, todo)
    BY <1>3, <2>1, <2>5, FinishDoes, SendBatchDoes
  <2> HIDE DEF seen
  <2>7. ReporterTypes'
    BY <1>3, <1>4, <1>5, <2>4, <2>6 DEF ReporterTypes, RunTypes
  <2>8. OthersStay(b)
    BY <1>4, <1>5, <2>4, <2>6 DEF OthersStay, RunOfOthersStays
  <2>9. \A s \in Shapes : reported'[b][s] = IF local[b][s] = Absent THEN None ELSE reported[b][s]
    BY <2>4 DEF seen
  <2>. QED
    BY <1>1, <1>2, <1>4, <1>5, <1>7, <2>6, <2>7, <2>8, <2>9 DEF todo
<1>. QED
  BY <1>6, <1>7

LEMMA AnsweredDoes ==
  ASSUME Types, NEW b \in Browsers, Answered(b)
  PROVE  /\ ReporterTypes' /\ ReporterFrame /\ OthersStay(b) /\ stage[b] = "answered"
         /\ timer'[b] = timer[b] /\ loaded'[b] = loaded[b]
         /\ \A s \in Shapes : reported'[b][s] = IF s \in DOMAIN batch[b] THEN batch[b][s]
                                                ELSE reported[b][s]
         /\ \/ RunEnds(b) /\ (left[b] = Nothing \/ page[b] # "open")
            \/ page[b] = "open" /\ RunSends(b, left[b])
<1>1. /\ stage[b] = "answered"
      /\ reported' = [reported EXCEPT ![b] =
                        [s \in Shapes |-> IF s \in DOMAIN batch[b] THEN batch[b][s] ELSE @[s]]]
      /\ IF left[b] = Nothing \/ page[b] # "open" THEN Finish(b) ELSE SendBatch(b, left[b])
      /\ UNCHANGED <<document, rows, loaded, page, shown, timer>>
  BY DEF Answered, view
<1>2. ReporterTypes
  BY DEF Types
<1> DEFINE seen == [s \in Shapes |-> IF s \in DOMAIN batch[b] THEN batch[b][s] ELSE reported[b][s]]
<1>3. reported' = [reported EXCEPT ![b] = seen]
  BY <1>1
<1>4. seen \in [Shapes -> Measures \cup {None}]
  <2>1. batch[b] \in Reports
    BY <1>2 DEF ReporterTypes
  <2>2. \A s \in DOMAIN batch[b] : batch[b][s] \in Measures
    BY <2>1, ReportFacts
  <2>. QED
    BY <1>2, <2>2 DEF ReporterTypes
<1>5. left[b] \in Reports
  BY <1>2 DEF ReporterTypes
<1>6. /\ RunTypes /\ RunOfOthersStays(b)
      /\ \/ RunEnds(b) /\ (left[b] = Nothing \/ page[b] # "open")
         \/ page[b] = "open" /\ RunSends(b, left[b])
  BY <1>1, <1>2, <1>5, FinishDoes, SendBatchDoes
<1>7. \A s \in Shapes : seen[s] = IF s \in DOMAIN batch[b] THEN batch[b][s] ELSE reported[b][s]
  OBVIOUS
<1> HIDE DEF seen
<1>8. /\ reported' \in [Browsers -> [Shapes -> Measures \cup {None}]] /\ reported'[b] = seen
      /\ \A o \in Browsers \ {b} : reported'[o] = reported[o]
  BY <1>2, <1>3, <1>4 DEF ReporterTypes
<1>9. ReporterTypes'
  BY <1>1, <1>2, <1>6, <1>8 DEF ReporterTypes, RunTypes
<1>10. OthersStay(b)
  BY <1>1, <1>6, <1>8 DEF OthersStay, RunOfOthersStays
<1>. QED
  BY <1>1, <1>6, <1>7, <1>8, <1>9, <1>10 DEF ReporterFrame

LEMMA FailedDoes ==
  ASSUME Types, NEW b \in Browsers, Failed(b)
  PROVE  /\ ReporterTypes' /\ ReporterFrame /\ OthersStay(b) /\ stage[b] = "failed"
         /\ (timer'[b] <=> page[b] = "open") /\ loaded'[b] = loaded[b] /\ reported'[b] = reported[b]
         /\ RunEnds(b)
<1>1. /\ stage[b] = "failed" /\ timer' = [timer EXCEPT ![b] = page[b] = "open"] /\ Finish(b)
      /\ UNCHANGED <<document, rows, loaded, page, shown, reported>>
  BY DEF Failed, Set, view
<1>2. ReporterTypes
  BY DEF Types
<1>3. RunTypes /\ RunOfOthersStays(b) /\ RunEnds(b)
  BY <1>1, <1>2, FinishDoes
<1>4. /\ timer' \in [Browsers -> BOOLEAN] /\ (timer'[b] <=> page[b] = "open")
      /\ \A o \in Browsers \ {b} : timer'[o] = timer[o]
  BY <1>1, <1>2 DEF ReporterTypes
<1>5. ReporterTypes'
  BY <1>1, <1>2, <1>3, <1>4 DEF ReporterTypes, RunTypes
<1>6. OthersStay(b)
  BY <1>1, <1>3, <1>4 DEF OthersStay, RunOfOthersStays
<1>. QED
  BY <1>1, <1>3, <1>4, <1>5, <1>6 DEF ReporterFrame

LEMMA FireDoes ==
  ASSUME Types, NEW b \in Browsers, Fire(b)
  PROVE  /\ ReporterTypes' /\ ReporterFrame /\ OthersStay(b)
         /\ timer[b] /\ ~timer'[b] /\ loaded'[b] = loaded[b] /\ reported'[b] = reported[b]
         /\ \/ /\ stage[b] = "idle" /\ stage'[b] = "fonts" /\ again'[b] = again[b]
               /\ batch'[b] = Nothing /\ left'[b] = Nothing
               /\ viewed'[b] = shown[b] /\ asked'[b] = FontsShown(b)
            \/ /\ stage[b] # "idle" /\ again'[b]
               /\ UNCHANGED <<stage, viewed, asked, batch, left>>
<1>1. /\ timer[b] /\ timer' = [timer EXCEPT ![b] = FALSE]
      /\ IF stage[b] = "idle"
           THEN BeginRun(b) /\ UNCHANGED again
           ELSE again' = Set(again, b, TRUE) /\ UNCHANGED <<stage, viewed, asked, batch, left>>
      /\ UNCHANGED <<document, rows, loaded, page, shown, reported>>
  BY DEF Fire, Set, view
<1>2. ReporterTypes
  BY DEF Types
<1>3. /\ timer' \in [Browsers -> BOOLEAN] /\ ~timer'[b]
      /\ \A o \in Browsers \ {b} : timer'[o] = timer[o]
  BY <1>1, <1>2 DEF ReporterTypes
<1>4. CASE stage[b] = "idle"
  <2>1. BeginRun(b) /\ again' = again /\ again' \in [Browsers -> BOOLEAN]
    BY <1>1, <1>2, <1>4 DEF ReporterTypes
  <2>2. /\ RunTypes /\ RunOfOthersStays(b)
        /\ stage'[b] = "fonts" /\ batch'[b] = Nothing /\ left'[b] = Nothing
        /\ viewed'[b] = shown[b] /\ asked'[b] = FontsShown(b)
    BY <1>2, <2>1, BeginRunDoes
  <2>3. ReporterTypes'
    BY <1>1, <1>2, <1>3, <2>2 DEF ReporterTypes, RunTypes
  <2>4. OthersStay(b)
    BY <1>1, <1>3, <2>2 DEF OthersStay, RunOfOthersStays
  <2>. QED
    BY <1>1, <1>3, <1>4, <2>1, <2>2, <2>3, <2>4 DEF ReporterFrame
<1>5. CASE stage[b] # "idle"
  <2>1. again' = [again EXCEPT ![b] = TRUE] /\ UNCHANGED <<stage, viewed, asked, batch, left>>
    BY <1>1, <1>5 DEF Set
  <2>2. /\ again' \in [Browsers -> BOOLEAN] /\ again'[b]
        /\ \A o \in Browsers \ {b} : again'[o] = again[o]
    BY <1>2, <2>1 DEF ReporterTypes
  <2>3. ReporterTypes'
    BY <1>1, <1>2, <1>3, <2>1, <2>2 DEF ReporterTypes
  <2>4. OthersStay(b)
    BY <1>1, <1>3, <2>1, <2>2 DEF OthersStay
  <2>. QED
    BY <1>1, <1>3, <1>5, <2>1, <2>2, <2>3, <2>4 DEF ReporterFrame
<1>. QED
  BY <1>4, <1>5

\* A request is answered or fails.
LEMMA RequestDoes ==
  ASSUME Types, NEW b \in Browsers, SaveMeasurements(b) \/ RequestFails(b)
  PROVE  /\ ReporterTypes' /\ OthersStay(b)
         /\ UNCHANGED <<document, loaded, page, shown, timer, viewed, asked, batch, left, again, reported>>
         /\ \/ stage[b] = "sent" /\ stage'[b] = "answered"
            \/ stage[b] \in {"sent", "answered"} /\ stage'[b] = "failed" /\ rows' = rows
<1>1. ReporterTypes
  BY DEF Types
<1>2. CASE SaveMeasurements(b)
  <2>1. /\ stage[b] = "sent" /\ stage' = [stage EXCEPT ![b] = "answered"]
        /\ UNCHANGED <<document, loaded, page, shown, timer, viewed, asked, batch, left, again, reported>>
    BY <1>2 DEF SaveMeasurements, Set, view
  <2>2. /\ stage' \in [Browsers -> {"idle", "fonts", "sent", "answered", "failed"}]
        /\ stage'[b] = "answered" /\ \A o \in Browsers \ {b} : stage'[o] = stage[o]
    BY <1>1, <2>1 DEF ReporterTypes
  <2>3. ReporterTypes'
    BY <1>1, <2>1, <2>2 DEF ReporterTypes
  <2>. QED
    BY <2>1, <2>2, <2>3 DEF OthersStay
<1>3. CASE RequestFails(b)
  <2>1. /\ stage[b] \in {"sent", "answered"} /\ stage' = [stage EXCEPT ![b] = "failed"]
        /\ UNCHANGED <<document, rows, loaded, page, shown, timer, viewed, asked, batch, left, again,
                     reported>>
    BY <1>3 DEF RequestFails, Set, view
  <2>2. /\ stage' \in [Browsers -> {"idle", "fonts", "sent", "answered", "failed"}]
        /\ stage'[b] = "failed" /\ \A o \in Browsers \ {b} : stage'[o] = stage[o]
    BY <1>1, <2>1 DEF ReporterTypes
  <2>3. ReporterTypes'
    BY <1>1, <2>1, <2>2 DEF ReporterTypes
  <2>. QED
    BY <2>1, <2>2, <2>3 DEF OthersStay
<1>. QED
  BY <1>2, <1>3

-----------------------------------------------------------------------------
(* Contents are drawn once.                                                *)

\* Between contents and what nobody has drawn there is an order.
LEMMA DocumentFacts ==
  ASSUME MeasurementsAssumption, Types
  PROVE  /\ MaxContent \in Nat /\ drawn \in Nat /\ drawn <= MaxContent
         /\ \A s \in Shapes : doc[s] \in Nat /\ doc[s] <= MaxContent /\ rows[s].fp \in Nat
         /\ \A b \in Browsers : \A s \in Shapes : local[b][s] \in Nat /\ local[b][s] <= MaxContent
         /\ \A c \in Nat : c <= MaxContent /\ c # Absent => c \in Contents
         /\ \A c \in Contents : c \in Nat /\ c # Absent
         /\ \A b \in Browsers : unsent[b] \subseteq Shapes
<1>1. MaxContent \in Nat
  BY DEF MeasurementsAssumption
<1>2. \A c \in Contents : c \in Nat /\ c # Absent
  BY <1>1 DEF Contents, Absent
<1>3. \A c \in Nat : c <= MaxContent /\ c # Absent => c \in Contents
  BY <1>1 DEF Contents, Absent
<1>4. drawn \in Nat /\ drawn <= MaxContent
  BY <1>1 DEF Types, DocumentTypes
<1>5. ASSUME NEW s \in Shapes
      PROVE  doc[s] \in Nat /\ doc[s] <= MaxContent /\ rows[s].fp \in Nat
  <2>1. rows[s] \in Measures \cup {None} /\ doc[s] \in 0 .. MaxContent
    BY DEF Types, DocumentTypes
  <2>2. rows[s].fp \in Contents \cup {Absent}
    BY <2>1 DEF Measures, None
  <2>. QED
    BY <1>1, <1>2, <2>1, <2>2 DEF Absent
<1>6. \A b \in Browsers : \A s \in Shapes : local[b][s] \in 0 .. MaxContent
  BY DEF Types, DocumentTypes
<1>7. \A b \in Browsers : unsent[b] \subseteq Shapes
  BY DEF Types, DocumentTypes
<1>. QED
  BY <1>1, <1>2, <1>3, <1>4, <1>5, <1>6, <1>7

\* What is measured does not change while nobody reports.
LEMMA SameKnowledge ==
  ASSUME UNCHANGED <<batch, left, reported>>
  PROVE  \A b \in Browsers : \A s, c : Knows(b, s, c)' <=> Knows(b, s, c)
BY Zenon DEF Knows

\* A result of an edit is the absence of a shape or a content nobody has.
LEMMA EditIsNew ==
  ASSUME MeasurementsAssumption, Types, DocumentInv,
         NEW content, NEW result \in 0 .. MaxContent, EditOutcome(content, result)
  PROVE  /\ result \in Nat /\ drawn' \in 0 .. MaxContent /\ drawn <= drawn' /\ result <= drawn'
         /\ result # Absent =>
              \A s \in Shapes :
                /\ doc[s] # result /\ rows[s].fp # result
                /\ \A b \in Browsers : local[b][s] # result /\ ~Knows(b, s, result)
<1>1. /\ MaxContent \in Nat /\ drawn \in Nat /\ drawn <= MaxContent
      /\ \A s \in Shapes : doc[s] \in Nat /\ rows[s].fp \in Nat
      /\ \A b \in Browsers : \A s \in Shapes : local[b][s] \in Nat
      /\ \A c \in Nat : c <= MaxContent /\ c # Absent => c \in Contents
  BY DocumentFacts
<1>2. (result = Absent \/ result = drawn + 1) /\ drawn' = Most(drawn, result)
  BY DEF EditOutcome
<1>3. result \in Nat /\ drawn' \in 0 .. MaxContent /\ drawn <= drawn' /\ result <= drawn'
  BY <1>1, <1>2 DEF Most, Absent
<1>4. ASSUME result # Absent, NEW s \in Shapes
      PROVE  /\ doc[s] # result /\ rows[s].fp # result
             /\ \A b \in Browsers : local[b][s] # result /\ ~Knows(b, s, result)
  <2>1. result = drawn + 1 /\ result \in Contents
    BY <1>1, <1>2, <1>3, <1>4
  <2>2. /\ doc[s] <= drawn /\ rows[s].fp <= drawn
        /\ \A b \in Browsers : local[b][s] <= drawn /\ (Knows(b, s, result) => result <= drawn)
    BY <2>1 DEF DocumentInv, NoneAhead
  <2>. QED
    BY <1>1, <2>1, <2>2
<1>. QED
  BY <1>3, <1>4

\* What all edits have in common: the reporters have what they had.
LEMMA EditKeeps ==
  ASSUME MeasurementsAssumption, Types, DocumentInv, NEW b \in Browsers, NEW s \in Shapes, Edit(b, s)
  PROVE  DocumentTypes' /\ DocumentInv'
<1>1. PICK result \in 0 .. MaxContent :
        /\ EditOutcome(local[b][s], result)
        /\ local' = [local EXCEPT ![b][s] = result]
        /\ unsent' = [unsent EXCEPT ![b] = @ \cup {s}]
  BY DEF Edit
<1>2. page[b] = "open" /\ UNCHANGED <<doc, rows, batch, left, reported, page>>
  BY DEF Edit, run, view
<1>3. /\ result \in Nat /\ drawn' \in 0 .. MaxContent /\ drawn <= drawn' /\ result <= drawn'
      /\ result # Absent =>
           \A t \in Shapes :
             /\ doc[t] # result /\ rows[t].fp # result
             /\ \A o \in Browsers : local[o][t] # result /\ ~Knows(o, t, result)
  BY <1>1, EditIsNew
<1>4. /\ local' \in [Browsers -> [Shapes -> 0 .. MaxContent]] /\ local'[b][s] = result
      /\ \A o \in Browsers : \A t \in Shapes : o # b \/ t # s => local'[o][t] = local[o][t]
  BY <1>1 DEF Types, DocumentTypes
<1>5. /\ unsent' \in [Browsers -> SUBSET Shapes] /\ unsent'[b] = unsent[b] \cup {s}
      /\ \A o \in Browsers \ {b} : unsent'[o] = unsent[o]
  BY <1>1 DEF Types, DocumentTypes
<1>6. DocumentTypes'
  BY <1>2, <1>3, <1>4, <1>5 DEF Types, DocumentTypes
<1>7. \A o \in Browsers : \A t, c : Knows(o, t, c)' <=> Knows(o, t, c)
  BY <1>2, SameKnowledge
<1>8. NoneAhead'
  <2>1. /\ drawn \in Nat /\ drawn' \in Nat
        /\ \A t \in Shapes : doc[t] \in Nat /\ rows[t].fp \in Nat
        /\ \A o \in Browsers : \A t \in Shapes : local[o][t] \in Nat
        /\ \A c \in Contents : c \in Nat
    BY <1>3, DocumentFacts
  <2>2. ASSUME NEW t \in Shapes
        PROVE  doc'[t] <= drawn' /\ rows'[t].fp <= drawn'
    BY <1>2, <1>3, <2>1 DEF DocumentInv, NoneAhead
  <2>3. ASSUME NEW t \in Shapes, NEW o \in Browsers
        PROVE  local'[o][t] <= drawn'
    <3>1. local[o][t] <= drawn /\ local[o][t] \in Nat
      BY <2>1 DEF DocumentInv, NoneAhead
    <3>2. local'[o][t] = local[o][t] \/ local'[o][t] = result
      BY <1>4
    <3>. QED
      BY <3>1, <3>2, <2>1, <1>3
  <2>4. ASSUME NEW t \in Shapes, NEW o \in Browsers, NEW c \in Contents, Knows(o, t, c)'
        PROVE  c <= drawn'
    <3>1. c <= drawn /\ c \in Nat
      BY <1>7, <2>1, <2>4 DEF DocumentInv, NoneAhead
    <3>. QED
      BY <3>1, <2>1, <1>3
  <2>. QED
    BY <2>2, <2>3, <2>4 DEF NoneAhead
<1>9. UnsentIsPrivate'
  <2> SUFFICES ASSUME NEW o \in Browsers, NEW t \in unsent'[o], NEW c \in Contents,
                      local'[o][t] = c
               PROVE  /\ doc'[t] # c /\ rows'[t].fp # c
                      /\ \A p \in Browsers \ {o} : local'[p][t] # c /\ ~Knows(p, t, c)'
    BY DEF UnsentIsPrivate
  <2>1. t \in Shapes /\ c # Absent
    BY <1>5, DocumentFacts
  <2>2. CASE o = b /\ t = s
    <3>1. c = result
      BY <1>4, <2>2
    <3>2. /\ doc[t] # c /\ rows[t].fp # c
          /\ \A p \in Browsers : local[p][t] # c /\ ~Knows(p, t, c)
      BY <1>3, <2>1, <3>1
    <3>. QED
      BY <1>2, <1>4, <1>7, <2>1, <2>2, <3>2
  <2>3. CASE o # b \/ t # s
    <3>1. t \in unsent[o] /\ local[o][t] = c
      BY <1>4, <1>5, <2>1, <2>3
    <3>2. /\ doc[t] # c /\ rows[t].fp # c
          /\ \A p \in Browsers \ {o} : local[p][t] # c /\ ~Knows(p, t, c)
      BY <3>1 DEF DocumentInv, UnsentIsPrivate
    <3>3. ASSUME NEW p \in Browsers \ {o} PROVE local'[p][t] # c
      <4>1. CASE p = b /\ t = s
        <5>1. local'[p][t] = result
          BY <1>4, <4>1
        <5>. QED
          BY <1>3, <2>1, <3>1, <5>1
      <4>2. CASE p # b \/ t # s
        BY <1>4, <2>1, <3>2, <4>2
      <4>. QED
        BY <4>1, <4>2
    <3>. QED
      BY <1>2, <1>7, <3>2, <3>3
  <2>. QED
    BY <2>2, <2>3
<1>10. StillShown'
  <2> SUFFICES ASSUME NEW o \in Browsers, NEW t \in Shapes \ unsent'[o], NEW c \in Contents,
                      page'[o] = "open", doc'[t] = c, Knows(o, t, c)'
               PROVE  local'[o][t] = c
    BY DEF StillShown
  <2>1. t \notin unsent[o] /\ local'[o][t] = local[o][t]
    BY <1>4, <1>5
  <2>2. page[o] = "open" /\ doc[t] = c /\ Knows(o, t, c)
    BY <1>2, <1>7
  <2>. QED
    BY <2>1, <2>2 DEF DocumentInv, StillShown
<1>11. ClosedHasSentAll'
  BY <1>2, <1>5 DEF DocumentInv, ClosedHasSentAll
<1>. QED
  BY <1>6, <1>8, <1>9, <1>10, <1>11 DEF DocumentInv

LEMMA ApiEditKeeps ==
  ASSUME MeasurementsAssumption, Types, DocumentInv, NEW s \in Shapes, ApiEdit(s)
  PROVE  DocumentTypes' /\ DocumentInv' /\ (Trusted(s)' => rows'[s].fp # doc'[s])
<1>1. PICK result \in 0 .. MaxContent :
        EditOutcome(doc[s], result) /\ doc' = [doc EXCEPT ![s] = result]
  BY DEF ApiEdit
<1>2. UNCHANGED <<rows, local, unsent, batch, left, reported, page>>
  BY DEF ApiEdit, run, view
<1>3. /\ result \in Nat /\ drawn' \in 0 .. MaxContent /\ drawn <= drawn' /\ result <= drawn'
      /\ result # Absent =>
           \A t \in Shapes :
             /\ doc[t] # result /\ rows[t].fp # result
             /\ \A o \in Browsers : local[o][t] # result /\ ~Knows(o, t, result)
  BY <1>1, EditIsNew
<1>4. /\ doc' \in [Shapes -> 0 .. MaxContent] /\ doc'[s] = result
      /\ \A t \in Shapes \ {s} : doc'[t] = doc[t]
  BY <1>1 DEF Types, DocumentTypes
<1>5. DocumentTypes'
  BY <1>2, <1>3, <1>4 DEF Types, DocumentTypes
<1>6. \A o \in Browsers : \A t, c : Knows(o, t, c)' <=> Knows(o, t, c)
  BY <1>2, SameKnowledge
<1>7. NoneAhead'
  <2>1. /\ drawn \in Nat /\ drawn' \in Nat
        /\ \A t \in Shapes : doc[t] \in Nat /\ rows[t].fp \in Nat
        /\ \A o \in Browsers : \A t \in Shapes : local[o][t] \in Nat
        /\ \A c \in Contents : c \in Nat
    BY <1>3, DocumentFacts
  <2>2. ASSUME NEW t \in Shapes
        PROVE  doc'[t] <= drawn' /\ rows'[t].fp <= drawn'
    <3>1. doc[t] <= drawn /\ rows[t].fp <= drawn /\ doc[t] \in Nat /\ rows[t].fp \in Nat
      BY <2>1 DEF DocumentInv, NoneAhead
    <3>2. (doc'[t] = doc[t] \/ doc'[t] = result) /\ rows'[t] = rows[t]
      BY <1>2, <1>4
    <3>. QED
      BY <3>1, <3>2, <2>1, <1>3
  <2>3. ASSUME NEW t \in Shapes, NEW o \in Browsers
        PROVE  local'[o][t] <= drawn'
    <3>1. local[o][t] <= drawn /\ local[o][t] \in Nat /\ local'[o][t] = local[o][t]
      BY <1>2, <2>1 DEF DocumentInv, NoneAhead
    <3>. QED
      BY <3>1, <2>1, <1>3
  <2>4. ASSUME NEW t \in Shapes, NEW o \in Browsers, NEW c \in Contents, Knows(o, t, c)'
        PROVE  c <= drawn'
    <3>1. c <= drawn /\ c \in Nat
      BY <1>6, <2>1, <2>4 DEF DocumentInv, NoneAhead
    <3>. QED
      BY <3>1, <2>1, <1>3
  <2>. QED
    BY <2>2, <2>3, <2>4 DEF NoneAhead
<1>8. UnsentIsPrivate'
  <2> SUFFICES ASSUME NEW o \in Browsers, NEW t \in unsent[o], NEW c \in Contents,
                      local[o][t] = c
               PROVE  /\ doc'[t] # c /\ rows[t].fp # c
                      /\ \A p \in Browsers \ {o} : local[p][t] # c /\ ~Knows(p, t, c)
    BY <1>2, <1>6 DEF UnsentIsPrivate
  <2>1. t \in Shapes /\ c # Absent
    BY DocumentFacts
  <2>2. /\ doc[t] # c /\ rows[t].fp # c
        /\ \A p \in Browsers \ {o} : local[p][t] # c /\ ~Knows(p, t, c)
    BY DEF DocumentInv, UnsentIsPrivate
  <2>3. doc'[t] # c
    BY <1>3, <1>4, <2>1, <2>2
  <2>. QED
    BY <2>2, <2>3
<1>9. StillShown'
  <2> SUFFICES ASSUME NEW o \in Browsers, NEW t \in Shapes \ unsent[o], NEW c \in Contents,
                      page[o] = "open", doc'[t] = c, Knows(o, t, c)
               PROVE  local[o][t] = c
    BY <1>2, <1>6 DEF StillShown
  <2>1. c # Absent
    BY DocumentFacts
  <2>2. doc'[t] = doc[t]
    BY <1>3, <1>4, <2>1
  <2>. QED
    BY <2>2 DEF DocumentInv, StillShown
<1>10. ClosedHasSentAll'
  BY <1>2 DEF DocumentInv, ClosedHasSentAll
<1>11. Trusted(s)' => rows'[s].fp # doc'[s]
  BY <1>2, <1>3, <1>4 DEF Trusted
<1>. QED
  BY <1>5, <1>7, <1>8, <1>9, <1>10, <1>11 DEF DocumentInv

LEMMA UploadKeeps ==
  ASSUME MeasurementsAssumption, Types, DocumentInv, NEW b \in Browsers, Upload(b)
  PROVE  /\ DocumentTypes' /\ DocumentInv'
         /\ \A s \in Shapes :
              Trusted(s)' => rows[s].fp = doc[s] /\ doc'[s] = doc[s] /\ s \notin unsent[b]
<1>1. /\ doc' = [s \in Shapes |-> IF s \in unsent[b] THEN local[b][s] ELSE doc[s]]
      /\ unsent' = [unsent EXCEPT ![b] = {}]
      /\ UNCHANGED <<rows, local, batch, left, reported, page, drawn>>
  BY DEF Upload, Set, run, view
<1>2. /\ unsent' \in [Browsers -> SUBSET Shapes] /\ unsent'[b] = {}
      /\ \A o \in Browsers \ {b} : unsent'[o] = unsent[o]
  BY <1>1 DEF Types, DocumentTypes
<1>3. /\ doc' \in [Shapes -> 0 .. MaxContent]
      /\ \A s \in Shapes : doc'[s] = IF s \in unsent[b] THEN local[b][s] ELSE doc[s]
  BY <1>1 DEF Types, DocumentTypes
<1>4. DocumentTypes'
  BY <1>1, <1>2, <1>3 DEF Types, DocumentTypes
<1>5. \A o \in Browsers : \A t, c : Knows(o, t, c)' <=> Knows(o, t, c)
  BY <1>1, SameKnowledge
<1>6. NoneAhead'
  BY <1>1, <1>3, <1>5 DEF DocumentInv, NoneAhead
<1>7. UnsentIsPrivate'
  <2> SUFFICES ASSUME NEW o \in Browsers \ {b}, NEW t \in unsent[o], NEW c \in Contents,
                      local[o][t] = c
               PROVE  /\ doc'[t] # c /\ rows[t].fp # c
                      /\ \A p \in Browsers \ {o} : local[p][t] # c /\ ~Knows(p, t, c)
    BY <1>1, <1>2, <1>5 DEF UnsentIsPrivate
  <2>1. t \in Shapes
    BY DocumentFacts
  <2>2. /\ doc[t] # c /\ rows[t].fp # c
        /\ \A p \in Browsers \ {o} : local[p][t] # c /\ ~Knows(p, t, c)
    BY DEF DocumentInv, UnsentIsPrivate
  <2>. QED
    BY <1>3, <2>1, <2>2
<1>8. StillShown'
  <2> SUFFICES ASSUME NEW o \in Browsers, NEW t \in Shapes \ unsent'[o], NEW c \in Contents,
                      page[o] = "open", doc'[t] = c, Knows(o, t, c)
               PROVE  local[o][t] = c
    BY <1>1, <1>5 DEF StillShown
  <2>1. CASE t \in unsent[b]
    <3>1. local[b][t] = c
      BY <1>3, <2>1
    <3>2. o # b => ~Knows(o, t, c)
      BY <2>1, <3>1 DEF DocumentInv, UnsentIsPrivate
    <3>. QED
      BY <3>1, <3>2
  <2>2. CASE t \notin unsent[b]
    <3>1. doc[t] = c /\ t \notin unsent[o]
      BY <1>2, <1>3, <2>2
    <3>. QED
      BY <3>1 DEF DocumentInv, StillShown
  <2>. QED
    BY <2>1, <2>2
<1>9. ClosedHasSentAll'
  BY <1>1, <1>2 DEF DocumentInv, ClosedHasSentAll
<1>10. ASSUME NEW s \in Shapes, Trusted(s)'
       PROVE  rows[s].fp = doc[s] /\ doc'[s] = doc[s] /\ s \notin unsent[b]
  <2>1. doc'[s] # Absent /\ rows[s].fp = doc'[s]
    BY <1>1, <1>10 DEF Trusted
  <2>2. ASSUME s \in unsent[b] PROVE FALSE
    <3>1. doc'[s] = local[b][s] /\ local[b][s] \in Contents
      BY <1>3, <2>1, <2>2, DocumentFacts
    <3>. QED
      BY <2>1, <2>2, <3>1 DEF DocumentInv, UnsentIsPrivate
  <2>. QED
    BY <1>3, <2>1, <2>2
<1>. QED
  BY <1>4, <1>6, <1>7, <1>8, <1>9, <1>10 DEF DocumentInv

\* A browser takes over what the server has, where it has nothing of its own.
LEMMA TakesOver ==
  ASSUME MeasurementsAssumption, Types, DocumentInv, NEW b \in Browsers,
         local' \in [Browsers -> [Shapes -> 0 .. MaxContent]],
         \A o \in Browsers \ {b} : local'[o] = local[o],
         \A s \in Shapes : local'[b][s] = IF s \in unsent[b] THEN local[b][s] ELSE doc[s],
         UNCHANGED <<doc, rows, unsent, drawn, batch, left, reported>>,
         \A o \in Browsers \ {b} : page'[o] = page[o],
         page'[b] = "open"
  PROVE  DocumentTypes' /\ DocumentInv'
<1>1. DocumentTypes'
  BY DEF Types, DocumentTypes
<1>2. \A o \in Browsers : \A t, c : Knows(o, t, c)' <=> Knows(o, t, c)
  BY SameKnowledge
<1>3. NoneAhead'
  <2>1. \A o \in Browsers : \A t \in Shapes :
          local'[o][t] = local[o][t] \/ local'[o][t] = doc[t]
    OBVIOUS
  <2>2. \A o \in Browsers : \A t \in Shapes : local'[o][t] <= drawn
    BY <2>1 DEF DocumentInv, NoneAhead
  <2>. QED
    BY <1>2, <2>2 DEF DocumentInv, NoneAhead
<1>4. UnsentIsPrivate'
  <2> SUFFICES ASSUME NEW o \in Browsers, NEW t \in unsent[o], NEW c \in Contents,
                      local'[o][t] = c
               PROVE  /\ doc[t] # c /\ rows[t].fp # c
                      /\ \A p \in Browsers \ {o} : local'[p][t] # c /\ ~Knows(p, t, c)
    BY <1>2 DEF UnsentIsPrivate
  <2>1. t \in Shapes /\ local[o][t] = c
    BY DocumentFacts
  <2>2. /\ doc[t] # c /\ rows[t].fp # c
        /\ \A p \in Browsers \ {o} : local[p][t] # c /\ ~Knows(p, t, c)
    BY <2>1 DEF DocumentInv, UnsentIsPrivate
  <2>. QED
    BY <2>1, <2>2
<1>5. StillShown'
  <2> SUFFICES ASSUME NEW o \in Browsers, NEW t \in Shapes \ unsent[o], NEW c \in Contents,
                      page'[o] = "open", doc[t] = c, Knows(o, t, c)
               PROVE  local'[o][t] = c
    BY <1>2 DEF StillShown
  <2>1. CASE o = b
    BY <2>1
  <2>2. CASE o # b
    BY <2>2 DEF DocumentInv, StillShown
  <2>. QED
    BY <2>1, <2>2
<1>6. ClosedHasSentAll'
  BY DEF DocumentInv, ClosedHasSentAll
<1>. QED
  BY <1>1, <1>3, <1>4, <1>5, <1>6 DEF DocumentInv

LEMMA DownloadKeeps ==
  ASSUME MeasurementsAssumption, Types, DocumentInv, NEW b \in Browsers, Download(b)
  PROVE  DocumentTypes' /\ DocumentInv'
<1> DEFINE merged == [s \in Shapes |-> IF s \in unsent[b] THEN local[b][s] ELSE doc[s]]
<1>1. /\ page[b] = "open" /\ local' = [local EXCEPT ![b] = merged]
      /\ UNCHANGED <<doc, rows, unsent, drawn, batch, left, reported, page>>
  BY DEF Download, Set, run, view
<1>2. merged \in [Shapes -> 0 .. MaxContent]
  BY DEF Types, DocumentTypes
<1>3. \A s \in Shapes : merged[s] = IF s \in unsent[b] THEN local[b][s] ELSE doc[s]
  OBVIOUS
<1> HIDE DEF merged
<1>4. /\ local' \in [Browsers -> [Shapes -> 0 .. MaxContent]] /\ local'[b] = merged
      /\ \A o \in Browsers \ {b} : local'[o] = local[o]
  BY <1>1, <1>2 DEF Types, DocumentTypes
<1>. QED
  BY <1>1, <1>3, <1>4, TakesOver

LEMMA OpenKeeps ==
  ASSUME MeasurementsAssumption, Types, DocumentInv, NEW b \in Browsers, Open(b)
  PROVE  DocumentTypes' /\ DocumentInv'
<1>1. /\ page[b] = "closed" /\ page' = [page EXCEPT ![b] = "open"]
      /\ local' = [local EXCEPT ![b] = doc]
      /\ UNCHANGED <<doc, rows, unsent, drawn, batch, left, reported>>
  BY DEF Open, Set, run
<1>2. unsent[b] = {}
  BY <1>1 DEF DocumentInv, ClosedHasSentAll
<1>3. /\ local' \in [Browsers -> [Shapes -> 0 .. MaxContent]] /\ local'[b] = doc
      /\ \A o \in Browsers \ {b} : local'[o] = local[o]
  BY <1>1 DEF Types, DocumentTypes
<1>4. page'[b] = "open" /\ \A o \in Browsers \ {b} : page'[o] = page[o]
  BY <1>1 DEF Types, ReporterTypes
<1>. QED
  BY <1>1, <1>2, <1>3, <1>4, TakesOver

LEMMA StopKeeps ==
  ASSUME MeasurementsAssumption, Types, DocumentInv, NEW b \in Browsers, Stop(b)
  PROVE  DocumentTypes' /\ DocumentInv'
<1>1. /\ page' = [page EXCEPT ![b] = "stopped"] /\ unsent' = [unsent EXCEPT ![b] = {}]
      /\ UNCHANGED <<doc, rows, local, drawn, batch, left, reported>>
  BY DEF Stop, Set, run
<1>2. /\ unsent' \in [Browsers -> SUBSET Shapes] /\ unsent'[b] = {}
      /\ \A o \in Browsers \ {b} : unsent'[o] = unsent[o]
  BY <1>1 DEF Types, DocumentTypes
<1>3. page'[b] = "stopped" /\ \A o \in Browsers \ {b} : page'[o] = page[o]
  BY <1>1 DEF Types, ReporterTypes
<1>4. DocumentTypes'
  BY <1>1, <1>2 DEF Types, DocumentTypes
<1>5. \A o \in Browsers : \A t, c : Knows(o, t, c)' <=> Knows(o, t, c)
  BY <1>1, SameKnowledge
<1>6. NoneAhead'
  BY <1>1, <1>5 DEF DocumentInv, NoneAhead
<1>7. UnsentIsPrivate'
  <2> SUFFICES ASSUME NEW o \in Browsers \ {b}, NEW t \in unsent[o], NEW c \in Contents,
                      local[o][t] = c
               PROVE  /\ doc[t] # c /\ rows[t].fp # c
                      /\ \A p \in Browsers \ {o} : local[p][t] # c /\ ~Knows(p, t, c)
    BY <1>1, <1>2, <1>5 DEF UnsentIsPrivate
  <2>. QED
    BY DEF DocumentInv, UnsentIsPrivate
<1>8. StillShown'
  <2> SUFFICES ASSUME NEW o \in Browsers \ {b}, NEW t \in Shapes \ unsent[o], NEW c \in Contents,
                      page[o] = "open", doc[t] = c, Knows(o, t, c)
               PROVE  local[o][t] = c
    BY <1>1, <1>2, <1>3, <1>5 DEF StillShown
  <2>. QED
    BY DEF DocumentInv, StillShown
<1>9. ClosedHasSentAll'
  BY <1>2, <1>3 DEF DocumentInv, ClosedHasSentAll
<1>. QED
  BY <1>4, <1>6, <1>7, <1>8, <1>9 DEF DocumentInv

\* A reporter learns of what its page shows, and of nothing else.
Learns(b) ==
  \A o \in Browsers : \A s \in Shapes, c \in Contents :
    Knows(o, s, c)' => Knows(o, s, c) \/ (o = b /\ local[b][s] = c)

\* What the server stores is of what the document has.
LEMMA LearningKeeps ==
  ASSUME MeasurementsAssumption, Types, DocumentInv, NEW b \in Browsers, Learns(b),
         UNCHANGED <<document, page>>,
         rows' \in [Shapes -> Measures \cup {None}],
         \A s \in Shapes : rows'[s].fp \in {rows[s].fp, doc[s], Absent}
  PROVE  DocumentTypes' /\ DocumentInv'
<1>1. UNCHANGED <<doc, local, unsent, drawn, page>>
  BY DEF document
<1>2. DocumentTypes'
  BY <1>1 DEF Types, DocumentTypes
<1>3. NoneAhead'
  <2>1. drawn \in Nat
    BY DocumentFacts
  <2>2. \A s \in Shapes : rows'[s].fp <= drawn
    BY <2>1 DEF DocumentInv, NoneAhead, Absent
  <2>3. ASSUME NEW o \in Browsers, NEW s \in Shapes, NEW c \in Contents, Knows(o, s, c)'
        PROVE  c <= drawn
    <3>1. Knows(o, s, c) \/ local[o][s] = c
      BY <2>3 DEF Learns
    <3>. QED
      BY <3>1 DEF DocumentInv, NoneAhead
  <2>. QED
    BY <1>1, <2>2, <2>3 DEF DocumentInv, NoneAhead
<1>4. UnsentIsPrivate'
  <2> SUFFICES ASSUME NEW o \in Browsers, NEW t \in unsent[o], NEW c \in Contents,
                      local[o][t] = c
               PROVE  /\ doc[t] # c /\ rows'[t].fp # c
                      /\ \A p \in Browsers \ {o} : local[p][t] # c /\ ~Knows(p, t, c)'
    BY <1>1 DEF UnsentIsPrivate
  <2>1. t \in Shapes /\ c # Absent
    BY DocumentFacts
  <2>2. /\ doc[t] # c /\ rows[t].fp # c
        /\ \A p \in Browsers \ {o} : local[p][t] # c /\ ~Knows(p, t, c)
    BY DEF DocumentInv, UnsentIsPrivate
  <2>3. ASSUME NEW p \in Browsers \ {o} PROVE ~Knows(p, t, c)'
    <3>1. ~Knows(p, t, c) /\ local[p][t] # c
      BY <2>2
    <3>. QED
      BY <2>1, <3>1 DEF Learns
  <2>4. rows'[t].fp # c
    BY <2>1, <2>2
  <2>. QED
    BY <2>2, <2>3, <2>4
<1>5. StillShown'
  <2> SUFFICES ASSUME NEW o \in Browsers, NEW t \in Shapes \ unsent[o], NEW c \in Contents,
                      page[o] = "open", doc[t] = c, Knows(o, t, c)'
               PROVE  local[o][t] = c
    BY <1>1 DEF StillShown
  <2>1. Knows(o, t, c) \/ local[o][t] = c
    BY DEF Learns
  <2>. QED
    BY <2>1 DEF DocumentInv, StillShown
<1>6. ClosedHasSentAll'
  BY <1>1 DEF DocumentInv, ClosedHasSentAll
<1>. QED
  BY <1>2, <1>3, <1>4, <1>5, <1>6 DEF DocumentInv

-----------------------------------------------------------------------------
(* Runs.                                                                   *)

\* A reporter that does nothing, on a page that stays as it is.
LEMMA OthersKeep ==
  ASSUME ReportersInv, NEW b \in Browsers, OthersStay(b), NEW o \in Browsers, o # b,
         page'[o] = page[o], local'[o] = local[o]
  PROVE  ReporterInv(o)' /\ \A s, c : Knows(o, s, c)' <=> Knows(o, s, c)
<1>1. /\ stage'[o] = stage[o] /\ viewed'[o] = viewed[o] /\ asked'[o] = asked[o]
      /\ batch'[o] = batch[o] /\ left'[o] = left[o] /\ again'[o] = again[o]
      /\ timer'[o] = timer[o] /\ reported'[o] = reported[o] /\ loaded'[o] = loaded[o]
  BY DEF OthersStay
<1>2. ReporterInv(o)
  BY DEF ReportersInv
<1>3. TakenWith(o)'
  BY <1>1, <1>2 DEF ReporterInv, TakenWith, SizeFor
<1>4. FontsAsked(o)' /\ RunsAgain(o)'
  BY <1>1, <1>2 DEF ReporterInv, FontsAsked, RunsAgain, Sound, Again
<1>5. Stages(o)'
  BY <1>1, <1>2 DEF ReporterInv, Stages
<1>6. \A s, c : Knows(o, s, c)' <=> Knows(o, s, c)
  BY <1>1, Zenon DEF Knows
<1>. QED
  BY <1>3, <1>4, <1>5, <1>6 DEF ReporterInv

\* From what holds of the reporter that moved.
LEMMA OneMoves ==
  ASSUME ReportersInv, NEW b \in Browsers, OthersStay(b), UNCHANGED <<document, page>>,
         ReporterInv(b)',
         \A s \in Shapes, c \in Contents : Knows(b, s, c)' => Knows(b, s, c) \/ local[b][s] = c
  PROVE  ReportersInv' /\ Learns(b)
<1>1. \A o \in Browsers : page'[o] = page[o] /\ local'[o] = local[o]
  BY DEF document
<1>2. ASSUME NEW o \in Browsers, o # b
      PROVE  ReporterInv(o)' /\ \A s, c : Knows(o, s, c)' <=> Knows(o, s, c)
  BY <1>1, <1>2, OthersKeep
<1>3. ReportersInv'
  BY <1>2 DEF ReportersInv
<1>4. Learns(b)
  BY <1>2 DEF Learns
<1>. QED
  BY <1>3, <1>4

\* A run that ends leaves nothing to be sent.
LEMMA EndedRun ==
  ASSUME NEW b \in Browsers, RunEnds(b), local'[b] = local[b], page'[b] = page[b],
         timer'[b] => page'[b] = "open", page[b] # "closed",
         \A s \in Shapes :
           reported'[b][s].size = "right" => reported'[b][s].fp \notin Slow \ loaded'[b]
  PROVE  ReporterInv(b)' /\ DOMAIN batch'[b] = {} /\ DOMAIN left'[b] = {}
<1>1. /\ DOMAIN batch'[b] = {} /\ DOMAIN left'[b] = {}
      /\ \/ stage'[b] = "fonts" /\ viewed'[b] = shown[b] /\ asked'[b] = FontsShown(b)
         \/ stage'[b] = "idle"
  BY ReportFacts DEF RunEnds
<1>2. TakenWith(b)'
  BY <1>1 DEF TakenWith
<1>3. FontsAsked(b)'
  BY <1>1 DEF FontsAsked, FontsShown
<1>4. RunsAgain(b)' /\ Stages(b)'
  BY <1>1 DEF RunsAgain, Stages
<1>. QED
  BY <1>1, <1>2, <1>3, <1>4 DEF ReporterInv

\* The fonts and sizes of what is reported afterwards.
LEMMA FontsReadyKeeps ==
  ASSUME MeasurementsAssumption, Types, ReportersInv, NEW b \in Browsers, FontsReady(b)
  PROVE  ReportersInv' /\ Learns(b)
<1> DEFINE todo == [s \in Pending(b) |-> Measured(b, s)]
<1>1. /\ ReporterFrame /\ OthersStay(b) /\ stage[b] = "fonts"
      /\ timer'[b] = timer[b] /\ loaded'[b] = loaded[b] \cup asked[b]
      /\ \/ page[b] # "open" /\ RunEnds(b) /\ reported'[b] = reported[b]
         \/ /\ page[b] = "open"
            /\ \A s \in Shapes : reported'[b][s] = IF local[b][s] = Absent THEN None
                                                   ELSE reported[b][s]
            /\ (Pending(b) = {} /\ RunEnds(b)) \/ RunSends(b, todo)
  BY FontsReadyDoes
<1>2. UNCHANGED <<document, page>> /\ local'[b] = local[b] /\ page'[b] = page[b]
  BY <1>1 DEF ReporterFrame, document
<1>3. ReporterInv(b)
  BY DEF ReportersInv
<1>4. /\ page[b] # "closed" /\ (timer'[b] => page'[b] = "open")
  BY <1>1, <1>2, <1>3 DEF ReporterInv, Stages
<1>5. \A s \in Shapes : reported'[b][s] = None \/ reported'[b][s] = reported[b][s]
  BY <1>1
<1>6. \A s \in Shapes :
        reported'[b][s].size = "right" => reported'[b][s].fp \notin Slow \ loaded'[b]
  <2> SUFFICES ASSUME NEW s \in Shapes, reported'[b][s].size = "right"
               PROVE  reported'[b][s].fp \notin Slow \ loaded'[b]
    OBVIOUS
  <2>1. reported'[b][s] = reported[b][s]
    BY <1>5 DEF None
  <2>2. reported[b][s].fp \notin Slow \ loaded[b]
    BY <1>3, <2>1 DEF ReporterInv, TakenWith
  <2>. QED
    BY <1>1, <2>1, <2>2
<1>7. \A s \in Shapes, c \in Contents : reported'[b][s].fp = c => reported[b][s].fp = c
  BY <1>5, MeasurementsAssumption DEF None, Contents, Absent
<1>8. CASE RunEnds(b)
  <2>1. ReporterInv(b)' /\ DOMAIN batch'[b] = {} /\ DOMAIN left'[b] = {}
    BY <1>2, <1>4, <1>6, <1>8, EndedRun
  <2>2. \A s \in Shapes, c \in Contents : Knows(b, s, c)' => Knows(b, s, c)
    BY <1>7, <2>1 DEF Knows
  <2>. QED
    BY <1>1, <1>2, <2>1, <2>2, OneMoves
<1>9. CASE page[b] = "open" /\ RunSends(b, todo)
  <2>1. /\ stage'[b] = "sent" /\ again'[b] = again[b] /\ viewed'[b] = viewed[b]
        /\ DOMAIN batch'[b] \cup DOMAIN left'[b] = Pending(b)
        /\ DOMAIN batch'[b] \cap DOMAIN left'[b] = {}
        /\ \A s \in DOMAIN batch'[b] : batch'[b][s] = Measured(b, s)
        /\ \A s \in DOMAIN left'[b] : left'[b][s] = Measured(b, s)
    BY <1>9 DEF RunSends
  <2>2. \A s : /\ Measured(b, s).fp = local[b][s]
               /\ Measured(b, s).size = IF local[b][s] \in Slow \ loaded'[b] THEN "wrong"
                                        ELSE "right"
    BY DEF Measured
  <2>3. TakenWith(b)'
    BY <1>6, <2>1, <2>2 DEF TakenWith, SizeFor
  <2>4. RunsAgain(b)'
    <3> SUFFICES ASSUME ~Again(b)'
                 PROVE  /\ \A s \in DOMAIN batch'[b] : Sound(b, s, batch[b][s])'
                        /\ \A s \in DOMAIN left'[b] : Sound(b, s, left[b][s])'
      BY DEF RunsAgain
    <3>1. ~Again(b)
      BY <1>1, <2>1 DEF Again
    <3>2. \A s \in Shapes :
            PageOf[s] = viewed[b] /\ local[b][s] \in Slow => local[b][s] \in loaded'[b]
      BY <1>1, <1>3, <1>9, <3>1 DEF ReporterInv, FontsAsked
    <3>3. Pending(b) \subseteq Shapes
      BY DEF Pending
    <3>. QED
      BY <1>2, <2>1, <2>2, <3>2, <3>3 DEF Sound
  <2>5. FontsAsked(b)' /\ Stages(b)'
    BY <1>2, <1>4, <2>1 DEF FontsAsked, Stages
  <2>6. ReporterInv(b)'
    BY <2>3, <2>4, <2>5 DEF ReporterInv
  <2>7. \A s \in Shapes, c \in Contents : Knows(b, s, c)' => Knows(b, s, c) \/ local[b][s] = c
    BY <1>7, <2>1, <2>2 DEF Knows
  <2>. QED
    BY <1>1, <1>2, <2>6, <2>7, OneMoves
<1>. QED
  BY <1>1, <1>8, <1>9

LEMMA AnsweredKeeps ==
  ASSUME Types, ReportersInv, NEW b \in Browsers, Answered(b)
  PROVE  ReportersInv' /\ Learns(b)
<1>1. /\ ReporterFrame /\ OthersStay(b) /\ stage[b] = "answered"
      /\ timer'[b] = timer[b] /\ loaded'[b] = loaded[b]
      /\ \A s \in Shapes : reported'[b][s] = IF s \in DOMAIN batch[b] THEN batch[b][s]
                                             ELSE reported[b][s]
      /\ \/ RunEnds(b)
         \/ page[b] = "open" /\ RunSends(b, left[b])
  BY AnsweredDoes
<1>2. UNCHANGED <<document, page>> /\ local'[b] = local[b] /\ page'[b] = page[b]
  BY <1>1 DEF ReporterFrame, document
<1>3. ReporterInv(b)
  BY DEF ReportersInv
<1>4. /\ page[b] # "closed" /\ (timer'[b] => page'[b] = "open")
  BY <1>1, <1>2, <1>3 DEF ReporterInv, Stages
<1>5. \A s \in Shapes :
        reported'[b][s].size = "right" => reported'[b][s].fp \notin Slow \ loaded'[b]
  BY <1>1, <1>3 DEF ReporterInv, TakenWith, SizeFor
<1>6. \A s \in Shapes, c \in Contents : reported'[b][s].fp = c => Knows(b, s, c)
  BY <1>1 DEF Knows
<1>7. CASE RunEnds(b)
  <2>1. ReporterInv(b)' /\ DOMAIN batch'[b] = {} /\ DOMAIN left'[b] = {}
    BY <1>2, <1>4, <1>5, <1>7, EndedRun
  <2>2. \A s \in Shapes, c \in Contents : Knows(b, s, c)' => Knows(b, s, c)
    BY <1>6, <2>1 DEF Knows
  <2>. QED
    BY <1>1, <1>2, <2>1, <2>2, OneMoves
<1>8. CASE page[b] = "open" /\ RunSends(b, left[b])
  <2>1. /\ stage'[b] = "sent" /\ again'[b] = again[b] /\ viewed'[b] = viewed[b]
        /\ DOMAIN batch'[b] \cup DOMAIN left'[b] = DOMAIN left[b]
        /\ DOMAIN batch'[b] \cap DOMAIN left'[b] = {}
        /\ \A s \in DOMAIN batch'[b] : batch'[b][s] = left[b][s]
        /\ \A s \in DOMAIN left'[b] : left'[b][s] = left[b][s]
    BY <1>8 DEF RunSends
  <2>2. TakenWith(b)'
    BY <1>1, <1>3, <1>5, <2>1 DEF ReporterInv, TakenWith, SizeFor
  <2>3. RunsAgain(b)'
    BY <1>1, <1>2, <1>3, <1>8, <2>1 DEF ReporterInv, RunsAgain, Sound, Again
  <2>4. FontsAsked(b)' /\ Stages(b)'
    BY <1>2, <1>4, <2>1 DEF FontsAsked, Stages
  <2>5. ReporterInv(b)'
    BY <2>2, <2>3, <2>4 DEF ReporterInv
  <2>6. \A s \in Shapes, c \in Contents : Knows(b, s, c)' => Knows(b, s, c)
    BY <1>6, <2>1 DEF Knows
  <2>. QED
    BY <1>1, <1>2, <2>5, <2>6, OneMoves
<1>. QED
  BY <1>1, <1>7, <1>8

LEMMA FailedKeeps ==
  ASSUME Types, ReportersInv, NEW b \in Browsers, Failed(b)
  PROVE  ReportersInv' /\ Learns(b)
<1>1. /\ ReporterFrame /\ OthersStay(b) /\ stage[b] = "failed"
      /\ (timer'[b] <=> page[b] = "open") /\ loaded'[b] = loaded[b] /\ reported'[b] = reported[b]
      /\ RunEnds(b)
  BY FailedDoes
<1>2. UNCHANGED <<document, page>> /\ local'[b] = local[b] /\ page'[b] = page[b]
  BY <1>1 DEF ReporterFrame, document
<1>3. ReporterInv(b)
  BY DEF ReportersInv
<1>4. /\ page[b] # "closed" /\ (timer'[b] => page'[b] = "open")
  BY <1>1, <1>2, <1>3 DEF ReporterInv, Stages
<1>5. \A s \in Shapes :
        reported'[b][s].size = "right" => reported'[b][s].fp \notin Slow \ loaded'[b]
  BY <1>1, <1>3 DEF ReporterInv, TakenWith
<1>6. ReporterInv(b)' /\ DOMAIN batch'[b] = {} /\ DOMAIN left'[b] = {}
  BY <1>1, <1>2, <1>4, <1>5, EndedRun
<1>7. \A s \in Shapes, c \in Contents : Knows(b, s, c)' => Knows(b, s, c)
  BY <1>1, <1>6 DEF Knows
<1>. QED
  BY <1>1, <1>2, <1>6, <1>7, OneMoves

LEMMA FireKeeps ==
  ASSUME Types, ReportersInv, NEW b \in Browsers, Fire(b)
  PROVE  ReportersInv' /\ Learns(b)
<1>1. /\ ReporterFrame /\ OthersStay(b)
      /\ timer[b] /\ ~timer'[b] /\ loaded'[b] = loaded[b] /\ reported'[b] = reported[b]
      /\ \/ /\ stage[b] = "idle" /\ stage'[b] = "fonts" /\ again'[b] = again[b]
            /\ batch'[b] = Nothing /\ left'[b] = Nothing
            /\ viewed'[b] = shown[b] /\ asked'[b] = FontsShown(b)
         \/ /\ stage[b] # "idle" /\ again'[b]
            /\ UNCHANGED <<stage, viewed, asked, batch, left>>
  BY FireDoes
<1>2. UNCHANGED <<document, page>> /\ local'[b] = local[b] /\ page'[b] = page[b]
  BY <1>1 DEF ReporterFrame, document
<1>3. ReporterInv(b)
  BY DEF ReportersInv
<1>4. page[b] = "open"
  BY <1>1, <1>3 DEF ReporterInv, Stages
<1>5. DOMAIN Nothing = {}
  BY ReportFacts
<1>6. TakenWith(b)'
  BY <1>1, <1>3, <1>5 DEF ReporterInv, TakenWith, SizeFor
<1>7. FontsAsked(b)'
  BY <1>1, <1>2 DEF FontsAsked, FontsShown, Again
<1>8. RunsAgain(b)'
  BY <1>1 DEF RunsAgain, Again
<1>9. Stages(b)'
  BY <1>1, <1>2, <1>3, <1>4, <1>5 DEF ReporterInv, Stages
<1>10. ReporterInv(b)'
  BY <1>6, <1>7, <1>8, <1>9 DEF ReporterInv
<1>11. \A s \in Shapes, c \in Contents : Knows(b, s, c)' => Knows(b, s, c)
  BY <1>1, <1>5 DEF Knows
<1>. QED
  BY <1>1, <1>2, <1>10, <1>11, OneMoves

LEMMA RequestKeeps ==
  ASSUME Types, ReportersInv, NEW b \in Browsers, SaveMeasurements(b) \/ RequestFails(b)
  PROVE  ReportersInv' /\ Learns(b)
<1>1. /\ OthersStay(b)
      /\ UNCHANGED <<document, loaded, page, timer, viewed, asked, batch, left, again, reported>>
      /\ \/ stage[b] = "sent" /\ stage'[b] = "answered"
         \/ stage[b] \in {"sent", "answered"} /\ stage'[b] = "failed" /\ rows' = rows
  BY RequestDoes
<1>2. local' = local
  BY <1>1 DEF document
<1>3. ReporterInv(b)
  BY DEF ReportersInv
<1>4. TakenWith(b)'
  BY <1>1, <1>3 DEF ReporterInv, TakenWith, SizeFor
<1>5. FontsAsked(b)' /\ Stages(b)'
  BY <1>1, <1>3 DEF ReporterInv, FontsAsked, Stages
<1>6. RunsAgain(b)'
  BY <1>1, <1>2, <1>3 DEF ReporterInv, RunsAgain, Sound, Again
<1>7. ReporterInv(b)'
  BY <1>4, <1>5, <1>6 DEF ReporterInv
<1>8. \A s, c : Knows(b, s, c)' <=> Knows(b, s, c)
  BY <1>1, Zenon DEF Knows
<1>. QED
  BY <1>1, <1>7, <1>8, OneMoves

\* A page that changes makes a flush certain.
LEMMA TouchKeeps ==
  ASSUME Types, ReportersInv, NEW b \in Browsers, UNCHANGED <<run, reported, loaded>>,
         timer'[b], page'[b] = "open",
         \A o \in Browsers \ {b} :
           timer'[o] = timer[o] /\ page'[o] = page[o] /\ local'[o] = local[o]
  PROVE  ReportersInv'
<1>1. UNCHANGED <<stage, viewed, asked, batch, left, again, reported, loaded>>
  BY DEF run
<1>2. OthersStay(b)
  BY <1>1 DEF OthersStay
<1>3. \A o \in Browsers \ {b} : ReporterInv(o)'
  BY <1>2, OthersKeep
<1>4. ReporterInv(b)
  BY DEF ReportersInv
<1>5. ReporterInv(b)'
  BY <1>1, <1>4 DEF ReporterInv, TakenWith, SizeFor, FontsAsked, RunsAgain, Again, Stages
<1>. QED
  BY <1>3, <1>5 DEF ReportersInv

-----------------------------------------------------------------------------
(* Who will correct a wrong size.                                          *)

\* A browser that does nothing stays responsible.
LEMMA OwnerStays ==
  ASSUME NEW b \in Browsers, OthersStay(b), NEW o \in Browsers, o # b, NEW s \in Shapes,
         Owns(o, s), page'[o] = page[o], unsent'[o] = unsent[o],
         local'[o] = local[o], doc'[s] = doc[s]
  PROVE  Owns(o, s)'
<1>1. /\ stage'[o] = stage[o] /\ batch'[o] = batch[o] /\ left'[o] = left[o]
      /\ again'[o] = again[o] /\ timer'[o] = timer[o] /\ reported'[o] = reported[o]
      /\ viewed'[o] = viewed[o]
  BY DEF OthersStay
<1>. QED
  BY <1>1 DEF Owns, Responsible, Right, Again

\* The same where only the reporter moves.
LEMMA OwnerMoves ==
  ASSUME WrongHasOwner, NEW b \in Browsers, OthersStay(b), UNCHANGED <<document, rows, page>>,
         \A s \in Shapes : Trusted(s) /\ rows[s].size = "wrong" /\ Responsible(b, s) => Responsible(b, s)'
  PROVE  WrongHasOwner'
<1>1. UNCHANGED <<doc, rows, page, unsent, local>>
  BY DEF document
<1>2. SUFFICES ASSUME NEW s \in Shapes, Trusted(s)', rows'[s].size = "wrong"
               PROVE  \E o \in Browsers : Owns(o, s)'
  BY DEF WrongHasOwner
<1>3. Trusted(s) /\ rows[s].size = "wrong"
  BY <1>1, <1>2 DEF Trusted
<1>4. PICK o \in Browsers : Owns(o, s)
  BY <1>3 DEF WrongHasOwner
<1>5. CASE o # b
  BY <1>1, <1>4, <1>5, OwnerStays
<1>6. CASE o = b
  <2>1. Owns(b, s)'
    BY <1>1, <1>3, <1>4, <1>6 DEF Owns
  <2>. QED
    BY <2>1
<1>. QED
  BY <1>5, <1>6

LEMMA FontsReadyKeepsOwner ==
  ASSUME MeasurementsAssumption, Types, ReportersInv, WrongHasOwner, NEW b \in Browsers, FontsReady(b)
  PROVE  WrongHasOwner'
<1> DEFINE todo == [s \in Pending(b) |-> Measured(b, s)]
<1>1. /\ ReporterFrame /\ OthersStay(b) /\ stage[b] = "fonts"
      /\ timer'[b] = timer[b] /\ loaded'[b] = loaded[b] \cup asked[b]
      /\ \/ page[b] # "open" /\ RunEnds(b) /\ reported'[b] = reported[b]
         \/ /\ page[b] = "open"
            /\ \A s \in Shapes : reported'[b][s] = IF local[b][s] = Absent THEN None
                                                   ELSE reported[b][s]
            /\ (Pending(b) = {} /\ RunEnds(b)) \/ RunSends(b, todo)
  BY FontsReadyDoes
<1>2. UNCHANGED <<document, rows, page, doc, local>>
  BY <1>1 DEF ReporterFrame, document
<1>3. ASSUME NEW s \in Shapes, Trusted(s), Responsible(b, s)
      PROVE  Responsible(b, s)'
  <2>1. /\ page[b] = "open" /\ local[b][s] = doc[s] /\ doc[s] # Absent
        /\ reported[b][s] # Right(doc[s])
    BY <1>3 DEF Trusted, Responsible
  <2>2. reported'[b][s] = reported[b][s]
    BY <1>1, <2>1
  <2>3. Again(b) \/ viewed[b] # PageOf[s] \/ Measured(b, s) = Right(doc[s])
    <3> SUFFICES ASSUME ~Again(b), viewed[b] = PageOf[s] PROVE Measured(b, s) = Right(doc[s])
      OBVIOUS
    <3>1. local[b][s] \in Slow => local[b][s] \in loaded'[b]
      BY <1>1, <2>1 DEF ReportersInv, ReporterInv, FontsAsked
    <3>. QED
      BY <2>1, <3>1 DEF Measured, Right
  <2>4. Again(b) \/ viewed[b] # PageOf[s] \/ s \in Pending(b)
    BY <2>1, <2>3 DEF Pending, IsNews
  <2>5. CASE RunEnds(b) /\ Pending(b) = {}
    <3>1. \/ stage'[b] = "fonts"
          \/ stage'[b] = "idle" /\ (timer'[b] \/ viewed'[b] # PageOf[s])
      BY <1>1, <2>1, <2>4, <2>5 DEF RunEnds, Again
    <3>. QED
      BY <1>2, <2>1, <2>2, <3>1 DEF Responsible, Right, Again
  <2>6. CASE RunSends(b, todo)
    <3>1. /\ stage'[b] = "sent" /\ again'[b] = again[b] /\ viewed'[b] = viewed[b]
          /\ DOMAIN batch'[b] \cup DOMAIN left'[b] = Pending(b)
      BY <2>6 DEF RunSends
    <3>2. Again(b)' \/ viewed'[b] # PageOf[s] \/ s \in DOMAIN batch'[b] \cup DOMAIN left'[b]
      BY <1>1, <2>4, <3>1 DEF Again
    <3>. QED
      BY <1>2, <2>1, <2>2, <3>1, <3>2 DEF Responsible, Right
  <2>. QED
    BY <1>1, <2>1, <2>5, <2>6
<1>. QED
  BY <1>1, <1>2, <1>3, OwnerMoves

LEMMA AnsweredKeepsOwner ==
  ASSUME Types, WrongHasOwner, NEW b \in Browsers, Answered(b)
  PROVE  WrongHasOwner'
<1>1. /\ ReporterFrame /\ OthersStay(b) /\ stage[b] = "answered"
      /\ timer'[b] = timer[b]
      /\ \A s \in Shapes : reported'[b][s] = IF s \in DOMAIN batch[b] THEN batch[b][s]
                                             ELSE reported[b][s]
      /\ \/ RunEnds(b) /\ (left[b] = Nothing \/ page[b] # "open")
         \/ page[b] = "open" /\ RunSends(b, left[b])
  BY AnsweredDoes
<1>2. UNCHANGED <<document, rows, page, doc, local>>
  BY <1>1 DEF ReporterFrame, document
<1>3. ASSUME NEW s \in Shapes, Responsible(b, s)
      PROVE  Responsible(b, s)'
  <2>1. /\ page[b] = "open" /\ local[b][s] = doc[s]
        /\ reported[b][s] # Right(doc[s]) /\ (s \in DOMAIN batch[b] => batch[b][s] # Right(doc[s]))
        /\ Again(b) \/ viewed[b] # PageOf[s] \/ s \in DOMAIN left[b]
    BY <1>1, <1>3 DEF Responsible
  <2>2. reported'[b][s] # Right(doc[s])
    BY <1>1, <2>1
  <2>3. CASE RunEnds(b) /\ left[b] = Nothing
    <3>1. Again(b) \/ viewed[b] # PageOf[s]
      BY <2>1, <2>3, ReportFacts
    <3>2. \/ stage'[b] = "fonts"
          \/ stage'[b] = "idle" /\ (timer'[b] \/ viewed'[b] # PageOf[s])
      BY <1>1, <2>1, <2>3, <3>1 DEF RunEnds, Again
    <3>. QED
      BY <1>2, <2>1, <2>2, <3>2 DEF Responsible, Right, Again
  <2>4. CASE RunSends(b, left[b])
    <3>1. /\ stage'[b] = "sent" /\ again'[b] = again[b] /\ viewed'[b] = viewed[b]
          /\ DOMAIN batch'[b] \cup DOMAIN left'[b] = DOMAIN left[b]
      BY <2>4 DEF RunSends
    <3>2. Again(b)' \/ viewed'[b] # PageOf[s] \/ s \in DOMAIN batch'[b] \cup DOMAIN left'[b]
      BY <1>1, <2>1, <3>1 DEF Again
    <3>. QED
      BY <1>2, <2>1, <2>2, <3>1, <3>2 DEF Responsible, Right
  <2>. QED
    BY <1>1, <2>1, <2>3, <2>4
<1>. QED
  BY <1>1, <1>2, <1>3, OwnerMoves

LEMMA FailedOrFireKeepsOwner ==
  ASSUME Types, WrongHasOwner, NEW b \in Browsers, Failed(b) \/ Fire(b) \/ RequestFails(b)
  PROVE  WrongHasOwner'
<1>1. CASE Failed(b)
  <2>1. /\ ReporterFrame /\ OthersStay(b) /\ (timer'[b] <=> page[b] = "open")
        /\ reported'[b] = reported[b] /\ RunEnds(b)
    BY <1>1, FailedDoes
  <2>2. UNCHANGED <<document, rows, page, doc, local>>
    BY <2>1 DEF ReporterFrame, document
  <2>3. \A s \in Shapes : Responsible(b, s) => Responsible(b, s)'
    BY <2>1, <2>2 DEF Responsible, Right, Again, RunEnds
  <2>. QED
    BY <2>1, <2>2, <2>3, OwnerMoves
<1>2. CASE Fire(b)
  <2>1. /\ ReporterFrame /\ OthersStay(b) /\ reported'[b] = reported[b]
        /\ \/ stage'[b] = "fonts"
           \/ again'[b] /\ stage' = stage /\ batch' = batch
    BY <1>2, FireDoes
  <2>2. UNCHANGED <<document, rows, page, doc, local>>
    BY <2>1 DEF ReporterFrame, document
  <2>3. \A s \in Shapes : Responsible(b, s) => Responsible(b, s)'
    BY <2>1, <2>2 DEF Responsible, Right, Again
  <2>. QED
    BY <2>1, <2>2, <2>3, OwnerMoves
<1>3. CASE RequestFails(b)
  <2>1. OthersStay(b) /\ UNCHANGED <<document, page, timer, viewed, batch, left, again, reported>>
    BY <1>3, RequestDoes
  <2>2. stage'[b] = "failed" /\ rows' = rows
    BY <1>3 DEF RequestFails, Set, Types, ReporterTypes
  <2>3. UNCHANGED <<doc, local>>
    BY <2>1 DEF document
  <2>4. \A s \in Shapes : Responsible(b, s) => Responsible(b, s)'
    BY <2>1, <2>2, <2>3 DEF Responsible, Right, Again
  <2>. QED
    BY <2>1, <2>2, <2>4, OwnerMoves
<1>. QED
  BY <1>1, <1>2, <1>3

\* Whoever stores a wrong size becomes responsible for it.
LEMMA SaveKeepsOwner ==
  ASSUME MeasurementsAssumption, Types, DocumentInv, ReportersInv, WrongHasOwner,
         NEW b \in Browsers, SaveMeasurements(b)
  PROVE  WrongHasOwner'
<1>1. /\ OthersStay(b) /\ stage[b] = "sent"
      /\ UNCHANGED <<document, loaded, page, timer, viewed, asked, batch, left, again, reported>>
  BY RequestDoes DEF SaveMeasurements
<1>2. /\ stage'[b] = "answered"
      /\ \A s \in Shapes : rows'[s] =
           IF doc[s] = Absent THEN None
           ELSE IF s \in DOMAIN batch[b] /\ batch[b][s].fp = doc[s] THEN batch[b][s]
           ELSE rows[s]
  <2>. QED
    BY DEF SaveMeasurements, Set, Types, ReporterTypes, StillDescribes
<1>3. UNCHANGED <<doc, local, unsent>>
  BY <1>1 DEF document
<1>4. SUFFICES ASSUME NEW s \in Shapes, Trusted(s)', rows'[s].size = "wrong"
               PROVE  \E o \in Browsers : Owns(o, s)'
  BY DEF WrongHasOwner
<1>5. doc[s] # Absent /\ rows'[s].fp = doc[s]
  BY <1>3, <1>4 DEF Trusted
<1>6. ReporterInv(b) /\ page[b] # "closed"
  BY <1>1 DEF ReportersInv, ReporterInv, Stages
<1>7. CASE s \in DOMAIN batch[b] /\ batch[b][s].fp = doc[s]
  <2>1. batch[b][s].size = "wrong"
    BY <1>2, <1>4, <1>5, <1>7
  <2> SUFFICES ASSUME page[b] = "open", s \notin unsent[b]
               PROVE  Responsible(b, s)'
    <3>1. page[b] = "stopped" \/ page[b] = "open"
      BY <1>6 DEF Types, ReporterTypes
    <3>. QED
      BY <1>1, <1>3, <3>1 DEF Owns
  <2>2. local[b][s] = doc[s]
    <3>1. doc[s] \in Contents
      BY <1>5, DocumentFacts
    <3>2. Knows(b, s, doc[s])
      BY <1>7 DEF Knows
    <3>. QED
      BY <3>1, <3>2 DEF DocumentInv, StillShown
  <2>3. doc[s] \in Slow \ loaded[b]
    BY <1>6, <1>7, <2>1 DEF ReporterInv, TakenWith, SizeFor
  <2>4. reported[b][s] # Right(doc[s])
    BY <1>6, <2>3 DEF ReporterInv, TakenWith, Right
  <2>5. Again(b) \/ viewed[b] # PageOf[s]
    BY <1>1, <1>6, <1>7, <2>1 DEF ReporterInv, RunsAgain, Sound
  <2>. QED
    BY <1>1, <1>2, <1>3, <2>1, <2>2, <2>4, <2>5 DEF Responsible, Right, Again
<1>8. CASE ~(s \in DOMAIN batch[b] /\ batch[b][s].fp = doc[s])
  <2>1. rows'[s] = rows[s]
    BY <1>2, <1>5, <1>8
  <2>2. Trusted(s) /\ rows[s].size = "wrong"
    BY <1>4, <1>5, <2>1 DEF Trusted
  <2>3. PICK o \in Browsers : Owns(o, s)
    BY <2>2 DEF WrongHasOwner
  <2>4. CASE o # b
    <3>1. Owns(o, s)'
      BY <1>1, <1>3, <2>3, <2>4, OwnerStays
    <3>. QED
      BY <3>1
  <2>5. CASE o = b /\ ~Responsible(b, s)
    <3>1. Owns(b, s)'
      BY <1>1, <1>3, <2>3, <2>5 DEF Owns
    <3>. QED
      BY <3>1
  <2>6. CASE o = b /\ Responsible(b, s)
    <3>1. /\ page[b] = "open" /\ local[b][s] = doc[s] /\ reported[b][s] # Right(doc[s])
          /\ Again(b) \/ viewed[b] # PageOf[s] \/ s \in DOMAIN batch[b] \cup DOMAIN left[b]
      BY <1>1, <2>6 DEF Responsible
    <3>2. s \in DOMAIN batch[b] => batch[b][s] # Right(doc[s])
      BY <1>8 DEF Right
    <3>3. Again(b) \/ viewed[b] # PageOf[s] \/ s \in DOMAIN left[b]
      BY <1>1, <1>6, <1>8, <3>1 DEF ReporterInv, RunsAgain, Sound
    <3>4. Responsible(b, s)'
      BY <1>1, <1>2, <1>3, <3>1, <3>2, <3>3 DEF Responsible, Right, Again
    <3>. QED
      BY <3>4 DEF Owns
  <2>. QED
    BY <2>4, <2>5, <2>6
<1>. QED
  BY <1>7, <1>8

\* A change of one page, or of the document under all of them.
LEMMA PageKeepsOwner ==
  ASSUME WrongHasOwner, NEW b \in Browsers, UNCHANGED <<doc, rows, run, reported, loaded>>,
         \A o \in Browsers \ {b} :
           /\ timer'[o] = timer[o] /\ page'[o] = page[o]
           /\ local'[o] = local[o] /\ unsent'[o] = unsent[o],
         \/ page'[b] = "stopped"
         \/ /\ page'[b] = "open" /\ timer'[b] /\ unsent[b] \subseteq unsent'[b]
            /\ page[b] # "stopped"
            /\ \A s \in Shapes : s \in unsent'[b] \/ local'[b][s] \in {local[b][s], doc[s]}
  PROVE  WrongHasOwner'
<1>1. UNCHANGED <<stage, viewed, asked, batch, left, again, reported, loaded>>
  BY DEF run
<1>2. OthersStay(b)
  BY <1>1 DEF OthersStay
<1>3. SUFFICES ASSUME NEW s \in Shapes, Trusted(s)', rows'[s].size = "wrong"
               PROVE  \E o \in Browsers : Owns(o, s)'
  BY DEF WrongHasOwner
<1>4. Trusted(s) /\ rows[s].size = "wrong"
  BY <1>3 DEF Trusted
<1>5. PICK o \in Browsers : Owns(o, s)
  BY <1>4 DEF WrongHasOwner
<1>6. CASE o # b
  <2>1. Owns(o, s)'
    BY <1>2, <1>5, <1>6, OwnerStays
  <2>. QED
    BY <2>1
<1>7. CASE o = b
  <2>1. CASE page'[b] = "stopped"
    BY <2>1 DEF Owns
  <2>2. CASE s \in unsent'[b]
    BY <2>2 DEF Owns
  <2>3. CASE page'[b] # "stopped" /\ s \notin unsent'[b]
    <3>1. Responsible(b, s) /\ page'[b] = "open" /\ timer'[b] /\ local'[b][s] \in {local[b][s], doc[s]}
      BY <1>5, <1>7, <2>3 DEF Owns
    <3>2. Responsible(b, s)'
      BY <1>1, <3>1 DEF Responsible, Right, Again
    <3>. QED
      BY <3>2 DEF Owns
  <2>. QED
    BY <2>1, <2>2, <2>3
<1>. QED
  BY <1>6, <1>7


-----------------------------------------------------------------------------
(* The steps of pages and of the document, and every step together.        *)

\* A step that moves no more of the reporters than the page and the timer of one.
PageTypes(b, state) ==
  /\ page' = [page EXCEPT ![b] = state]
  /\ timer' = [timer EXCEPT ![b] = state = "open"]
  /\ UNCHANGED <<shown, run, reported, loaded>>

LEMMA PageTypesKept ==
  ASSUME Types, NEW b \in Browsers, NEW state \in {"closed", "open", "stopped"}, PageTypes(b, state)
  PROVE  /\ ReporterTypes' /\ page'[b] = state /\ timer'[b] = (state = "open")
         /\ \A o \in Browsers \ {b} : timer'[o] = timer[o] /\ page'[o] = page[o]
<1>1. /\ page' = [page EXCEPT ![b] = state] /\ timer' = [timer EXCEPT ![b] = state = "open"]
      /\ UNCHANGED <<shown, stage, viewed, asked, batch, left, again, reported, loaded>>
  BY DEF PageTypes, run
<1>2. ReporterTypes
  BY DEF Types
<1>3. /\ page' \in [Browsers -> {"closed", "open", "stopped"}] /\ page'[b] = state
      /\ \A o \in Browsers \ {b} : page'[o] = page[o]
  BY <1>1, <1>2 DEF ReporterTypes
<1>4. /\ timer' \in [Browsers -> BOOLEAN] /\ timer'[b] = (state = "open")
      /\ \A o \in Browsers \ {b} : timer'[o] = timer[o]
  BY <1>1, <1>2 DEF ReporterTypes
<1>5. ReporterTypes'
  BY <1>1, <1>2, <1>3, <1>4 DEF ReporterTypes
<1>. QED
  BY <1>3, <1>4, <1>5

LEMMA EditKeepsAll ==
  ASSUME MeasurementsAssumption, IInv, NEW b \in Browsers, NEW s \in Shapes, Edit(b, s)
  PROVE  IInv'
<1>1. Types /\ DocumentInv /\ ReportersInv /\ WrongHasOwner
  BY DEF IInv
<1>2. DocumentTypes' /\ DocumentInv'
  BY <1>1, EditKeeps
<1>3. /\ page[b] = "open" /\ page' = page /\ timer' = [timer EXCEPT ![b] = page[b] = "open"]
      /\ UNCHANGED <<doc, rows, shown, run, reported, loaded>>
  BY DEF Edit, Touch, Set, view
<1>4. page' = [page EXCEPT ![b] = "open"] /\ timer' = [timer EXCEPT ![b] = "open" = "open"]
  BY <1>1, <1>3 DEF Types, ReporterTypes
<1>5. PageTypes(b, "open")
  BY <1>3, <1>4 DEF PageTypes
<1>6. /\ ReporterTypes' /\ page'[b] = "open" /\ timer'[b]
      /\ \A o \in Browsers \ {b} : timer'[o] = timer[o] /\ page'[o] = page[o]
  BY <1>1, <1>5, PageTypesKept
<1>7. PICK result \in 0 .. MaxContent :
        /\ local' = [local EXCEPT ![b][s] = result]
        /\ unsent' = [unsent EXCEPT ![b] = @ \cup {s}]
  BY DEF Edit
<1>8. /\ \A o \in Browsers \ {b} : local'[o] = local[o] /\ unsent'[o] = unsent[o]
      /\ unsent'[b] = unsent[b] \cup {s}
      /\ \A t \in Shapes \ {s} : local'[b][t] = local[b][t]
  BY <1>1, <1>7 DEF Types, DocumentTypes
<1>9. ReportersInv'
  BY <1>1, <1>3, <1>6, <1>8, TouchKeeps
<1>10. \A t \in Shapes : t \in unsent'[b] \/ local'[b][t] \in {local[b][t], doc[t]}
  BY <1>8
<1>11. WrongHasOwner'
  BY <1>1, <1>3, <1>6, <1>8, <1>10, PageKeepsOwner
<1>. QED
  BY <1>2, <1>6, <1>9, <1>11 DEF IInv, Types

LEMMA DownloadKeepsAll ==
  ASSUME MeasurementsAssumption, IInv, NEW b \in Browsers, Download(b)
  PROVE  IInv'
<1> DEFINE merged == [s \in Shapes |-> IF s \in unsent[b] THEN local[b][s] ELSE doc[s]]
<1>1. Types /\ DocumentInv /\ ReportersInv /\ WrongHasOwner
  BY DEF IInv
<1>2. DocumentTypes' /\ DocumentInv'
  BY <1>1, DownloadKeeps
<1>3. /\ page[b] = "open" /\ page' = page /\ timer' = [timer EXCEPT ![b] = page[b] = "open"]
      /\ local' = [local EXCEPT ![b] = merged]
      /\ UNCHANGED <<doc, rows, unsent, shown, run, reported, loaded>>
  BY DEF Download, Touch, Set, view
<1>4. \A t \in Shapes : merged[t] \in {local[b][t], doc[t]}
  OBVIOUS
<1> HIDE DEF merged
<1>5. page' = [page EXCEPT ![b] = "open"] /\ timer' = [timer EXCEPT ![b] = "open" = "open"]
  BY <1>1, <1>3 DEF Types, ReporterTypes
<1>6. PageTypes(b, "open")
  BY <1>3, <1>5 DEF PageTypes
<1>7. /\ ReporterTypes' /\ page'[b] = "open" /\ timer'[b]
      /\ \A o \in Browsers \ {b} : timer'[o] = timer[o] /\ page'[o] = page[o]
  BY <1>1, <1>6, PageTypesKept
<1>8. /\ \A o \in Browsers \ {b} : local'[o] = local[o] /\ unsent'[o] = unsent[o]
      /\ unsent'[b] = unsent[b] /\ local'[b] = merged
  BY <1>1, <1>3 DEF Types, DocumentTypes
<1>9. ReportersInv'
  BY <1>1, <1>3, <1>7, <1>8, TouchKeeps
<1>10. WrongHasOwner'
  BY <1>1, <1>3, <1>4, <1>7, <1>8, PageKeepsOwner
<1>. QED
  BY <1>2, <1>7, <1>9, <1>10 DEF IInv, Types

LEMMA OpenKeepsAll ==
  ASSUME MeasurementsAssumption, IInv, NEW b \in Browsers, Open(b)
  PROVE  IInv'
<1>1. Types /\ DocumentInv /\ ReportersInv /\ WrongHasOwner
  BY DEF IInv
<1>2. DocumentTypes' /\ DocumentInv'
  BY <1>1, OpenKeeps
<1>3. /\ page[b] = "closed" /\ page' = [page EXCEPT ![b] = "open"] /\ timer' = [timer EXCEPT ![b] = TRUE]
      /\ local' = [local EXCEPT ![b] = doc]
      /\ UNCHANGED <<doc, rows, unsent, shown, run, reported, loaded>>
  BY DEF Open, Set
<1>4. PageTypes(b, "open")
  BY <1>3 DEF PageTypes
<1>5. /\ ReporterTypes' /\ page'[b] = "open" /\ timer'[b]
      /\ \A o \in Browsers \ {b} : timer'[o] = timer[o] /\ page'[o] = page[o]
  BY <1>1, <1>4, PageTypesKept
<1>6. /\ \A o \in Browsers \ {b} : local'[o] = local[o] /\ unsent'[o] = unsent[o]
      /\ unsent'[b] = unsent[b] /\ local'[b] = doc
  BY <1>1, <1>3 DEF Types, DocumentTypes
<1>7. ReportersInv'
  BY <1>1, <1>3, <1>5, <1>6, TouchKeeps
<1>8. WrongHasOwner'
  <2>1. \A o \in Browsers \ {b} :
          /\ timer'[o] = timer[o] /\ page'[o] = page[o]
          /\ local'[o] = local[o] /\ unsent'[o] = unsent[o]
    BY <1>5, <1>6
  <2>2. /\ page'[b] = "open" /\ timer'[b] /\ unsent[b] \subseteq unsent'[b]
        /\ page[b] # "stopped"
        /\ \A s \in Shapes : s \in unsent'[b] \/ local'[b][s] \in {local[b][s], doc[s]}
    BY <1>3, <1>5, <1>6
  <2>. QED
    BY <1>1, <1>3, <2>1, <2>2, PageKeepsOwner
<1>. QED
  BY <1>2, <1>5, <1>7, <1>8 DEF IInv, Types

LEMMA StopKeepsAll ==
  ASSUME MeasurementsAssumption, IInv, NEW b \in Browsers, Stop(b)
  PROVE  IInv'
<1>1. Types /\ DocumentInv /\ ReportersInv /\ WrongHasOwner
  BY DEF IInv
<1>2. DocumentTypes' /\ DocumentInv'
  BY <1>1, StopKeeps
<1>3. /\ page[b] = "open" /\ page' = [page EXCEPT ![b] = "stopped"] /\ timer' = [timer EXCEPT ![b] = FALSE]
      /\ unsent' = [unsent EXCEPT ![b] = {}]
      /\ UNCHANGED <<doc, rows, local, shown, run, reported, loaded>>
  BY DEF Stop, Set
<1>4. PageTypes(b, "stopped")
  BY <1>3 DEF PageTypes
<1>5. /\ ReporterTypes' /\ page'[b] = "stopped" /\ ~timer'[b]
      /\ \A o \in Browsers \ {b} : timer'[o] = timer[o] /\ page'[o] = page[o]
  BY <1>1, <1>4, PageTypesKept
<1>6. /\ \A o \in Browsers \ {b} : local'[o] = local[o] /\ unsent'[o] = unsent[o]
  BY <1>1, <1>3 DEF Types, DocumentTypes
<1>7. UNCHANGED <<stage, viewed, asked, batch, left, again, reported, loaded>>
  BY <1>3 DEF run
<1>8. OthersStay(b)
  BY <1>5, <1>7 DEF OthersStay
<1>9. \A o \in Browsers \ {b} : ReporterInv(o)'
  BY <1>1, <1>5, <1>6, <1>8, OthersKeep
<1>10. ReporterInv(b)
  BY <1>1 DEF ReportersInv
<1>11. ReporterInv(b)'
  BY <1>5, <1>7, <1>10 DEF ReporterInv, TakenWith, SizeFor, FontsAsked, RunsAgain, Stages
<1>12. ReportersInv'
  BY <1>9, <1>11 DEF ReportersInv
<1>13. WrongHasOwner'
  BY <1>1, <1>3, <1>5, <1>6, PageKeepsOwner
<1>. QED
  BY <1>2, <1>5, <1>12, <1>13 DEF IInv, Types

\* The reporters of a step that changes no more than the server's document or the
\* page that somebody looks at.
LEMMA ReportersUntouched ==
  ASSUME IInv, UNCHANGED <<local, loaded, page, timer, run, reported>>, shown' \in [Browsers -> Pages]
  PROVE  ReporterTypes' /\ ReportersInv'
<1>1. UNCHANGED <<stage, viewed, asked, batch, left, again, reported, loaded, page, timer, local>>
  BY DEF run
<1>2. ReporterTypes /\ ReportersInv
  BY DEF IInv, Types
<1>3. ReporterTypes'
  BY <1>1, <1>2 DEF ReporterTypes
<1>4. ReportersInv'
  BY <1>1, <1>2 DEF ReportersInv, ReporterInv, TakenWith, SizeFor, FontsAsked, RunsAgain, Sound, Again, Stages
<1>. QED
  BY <1>3, <1>4

LEMMA UploadKeepsAll ==
  ASSUME MeasurementsAssumption, IInv, NEW b \in Browsers, Upload(b)
  PROVE  IInv'
<1>1. Types /\ DocumentInv /\ ReportersInv /\ WrongHasOwner
  BY DEF IInv
<1>2. /\ DocumentTypes' /\ DocumentInv'
      /\ \A s \in Shapes :
           Trusted(s)' => rows[s].fp = doc[s] /\ doc'[s] = doc[s] /\ s \notin unsent[b]
  BY <1>1, UploadKeeps
<1>3. /\ unsent' = [unsent EXCEPT ![b] = {}]
      /\ UNCHANGED <<rows, local, loaded, page, shown, timer, run, reported>>
  BY DEF Upload, Set, view
<1>4. ReporterTypes' /\ ReportersInv'
  BY <1>1, <1>3, ReportersUntouched DEF Types, ReporterTypes
<1>5. \A o \in Browsers \ {b} : unsent'[o] = unsent[o]
  BY <1>1, <1>3 DEF Types, DocumentTypes
<1>6. WrongHasOwner'
  <2>1. SUFFICES ASSUME NEW s \in Shapes, Trusted(s)', rows'[s].size = "wrong"
                 PROVE  \E o \in Browsers : Owns(o, s)'
    BY DEF WrongHasOwner
  <2>2. rows[s].fp = doc[s] /\ doc'[s] = doc[s] /\ s \notin unsent[b]
    BY <1>2, <2>1
  <2>3. Trusted(s) /\ rows[s].size = "wrong"
    BY <1>3, <2>1, <2>2 DEF Trusted
  <2>4. PICK o \in Browsers : Owns(o, s)
    BY <1>1, <2>3 DEF WrongHasOwner
  <2>5. UNCHANGED <<stage, viewed, batch, left, again, reported, page, timer, local>>
    BY <1>3 DEF run
  <2>6. s \in unsent[o] => s \in unsent'[o]
    BY <1>5, <2>2
  <2>7. Owns(o, s)'
    BY <2>2, <2>4, <2>5, <2>6 DEF Owns, Responsible, Right, Again
  <2>. QED
    BY <2>7
<1>. QED
  BY <1>2, <1>4, <1>6 DEF IInv, Types

LEMMA ApiEditKeepsAll ==
  ASSUME MeasurementsAssumption, IInv, NEW s \in Shapes, ApiEdit(s)
  PROVE  IInv'
<1>1. Types /\ DocumentInv /\ ReportersInv /\ WrongHasOwner
  BY DEF IInv
<1>2. DocumentTypes' /\ DocumentInv' /\ (Trusted(s)' => rows'[s].fp # doc'[s])
  BY <1>1, ApiEditKeeps
<1>3. /\ \E result \in 0 .. MaxContent : doc' = [doc EXCEPT ![s] = result]
      /\ UNCHANGED <<rows, local, unsent, loaded, page, shown, timer, run, reported>>
  BY DEF ApiEdit, view
<1>4. ReporterTypes' /\ ReportersInv'
  BY <1>1, <1>3, ReportersUntouched DEF Types, ReporterTypes
<1>5. WrongHasOwner'
  <2>1. SUFFICES ASSUME NEW t \in Shapes, Trusted(t)', rows'[t].size = "wrong"
                 PROVE  \E o \in Browsers : Owns(o, t)'
    BY DEF WrongHasOwner
  <2>2. t # s
    BY <1>2, <2>1 DEF Trusted
  <2>3. doc'[t] = doc[t]
    BY <1>1, <1>3, <2>2 DEF Types, DocumentTypes
  <2>4. Trusted(t) /\ rows[t].size = "wrong"
    BY <1>3, <2>1, <2>3 DEF Trusted
  <2>5. PICK o \in Browsers : Owns(o, t)
    BY <1>1, <2>4 DEF WrongHasOwner
  <2>6. UNCHANGED <<stage, viewed, batch, left, again, reported, page, timer, local, unsent>>
    BY <1>3 DEF run
  <2>7. Owns(o, t)'
    BY <2>3, <2>5, <2>6 DEF Owns, Responsible, Right, Again
  <2>. QED
    BY <2>7
<1>. QED
  BY <1>2, <1>4, <1>5 DEF IInv, Types

LEMMA ReporterKeepsAll ==
  ASSUME MeasurementsAssumption, IInv, NEW b \in Browsers, Reporter(b) \/ RequestFails(b)
  PROVE  IInv' /\ rows' = rows /\ doc' = doc
<1>1. Types /\ DocumentInv /\ ReportersInv /\ WrongHasOwner
  BY DEF IInv
<1>2. ReporterTypes' /\ UNCHANGED <<document, page>> /\ rows' = rows
  BY <1>1, FontsReadyDoes, AnsweredDoes, FailedDoes, FireDoes, RequestDoes
     DEF Reporter, ReporterFrame, RequestFails
<1>3. ReportersInv' /\ Learns(b)
  BY <1>1, FontsReadyKeeps, AnsweredKeeps, FailedKeeps, FireKeeps, RequestKeeps DEF Reporter
<1>4. WrongHasOwner'
  BY <1>1, FontsReadyKeepsOwner, AnsweredKeepsOwner, FailedOrFireKeepsOwner DEF Reporter
<1>5. rows \in [Shapes -> Measures \cup {None}]
  BY <1>1 DEF Types, DocumentTypes
<1>6. DocumentTypes' /\ DocumentInv'
  BY <1>1, <1>2, <1>3, <1>5, LearningKeeps
<1>. QED
  BY <1>2, <1>3, <1>4, <1>6 DEF IInv, Types, document

LEMMA SaveKeepsAll ==
  ASSUME MeasurementsAssumption, IInv, NEW b \in Browsers, SaveMeasurements(b)
  PROVE  IInv'
<1>1. Types /\ DocumentInv /\ ReportersInv /\ WrongHasOwner
  BY DEF IInv
<1>2. ReporterTypes' /\ UNCHANGED <<document, page>>
  BY <1>1, RequestDoes
<1>3. ReportersInv' /\ Learns(b)
  BY <1>1, RequestKeeps
<1>4. WrongHasOwner'
  BY <1>1, SaveKeepsOwner
<1>5. rows' = [s \in Shapes |->
                 IF doc[s] = Absent THEN None
                 ELSE IF s \in DOMAIN batch[b] /\ batch[b][s].fp = doc[s] THEN batch[b][s]
                 ELSE rows[s]]
  BY DEF SaveMeasurements, StillDescribes
<1>6. \A s \in DOMAIN batch[b] : batch[b][s] \in Measures
  BY <1>1, ReportFacts DEF Types, ReporterTypes
<1>7. rows \in [Shapes -> Measures \cup {None}]
  BY <1>1 DEF Types, DocumentTypes
<1>8. /\ rows' \in [Shapes -> Measures \cup {None}]
      /\ \A s \in Shapes : rows'[s].fp \in {rows[s].fp, doc[s], Absent}
  BY <1>5, <1>6, <1>7 DEF None
<1>9. DocumentTypes' /\ DocumentInv'
  BY <1>1, <1>2, <1>3, <1>8, LearningKeeps
<1>. QED
  BY <1>2, <1>3, <1>4, <1>9 DEF IInv, Types

LEMMA InitKeepsAll == ASSUME MeasurementsAssumption, Init PROVE IInv
<1>1. /\ MaxContent \in Nat /\ FirstPage \in Pages
      /\ \A spent \in Spent : spent.contents \in 0 .. MaxContent
  BY DEF MeasurementsAssumption
<1>2. drawn \in 0 .. MaxContent
  BY <1>1 DEF Init
<1>3. /\ doc = [s \in Shapes |-> Absent] /\ rows = [s \in Shapes |-> None]
      /\ local = [b \in Browsers |-> doc] /\ unsent = [b \in Browsers |-> {}]
      /\ page = [b \in Browsers |-> "closed"]
  BY DEF Init
<1>4. doc \in [Shapes -> 0 .. MaxContent]
  BY <1>1, <1>3 DEF Absent
<1>5. DocumentTypes
  BY <1>2, <1>3, <1>4 DEF DocumentTypes
<1>6. /\ shown = [b \in Browsers |-> FirstPage] /\ viewed = [b \in Browsers |-> FirstPage]
      /\ loaded = [b \in Browsers |-> {}] /\ timer = [b \in Browsers |-> FALSE]
      /\ stage = [b \in Browsers |-> "idle"] /\ asked = [b \in Browsers |-> {}]
      /\ batch = [b \in Browsers |-> Nothing] /\ left = [b \in Browsers |-> Nothing]
      /\ again = [b \in Browsers |-> FALSE]
      /\ reported = [b \in Browsers |-> [s \in Shapes |-> None]]
  BY DEF Init
<1>7. [s \in Shapes |-> None] \in [Shapes -> Measures \cup {None}]
  OBVIOUS
<1>8. ReporterTypes
  BY <1>1, <1>3, <1>6, <1>7, ReportFacts DEF ReporterTypes
<1>9. \A b \in Browsers : /\ DOMAIN batch[b] = {} /\ DOMAIN left[b] = {}
                          /\ \A s \in Shapes : reported[b][s] = None
  BY <1>6, ReportFacts
<1>10. \A b \in Browsers : \A s \in Shapes, c \in Contents : ~Knows(b, s, c)
  BY <1>1, <1>9 DEF Knows, None, Absent, Contents
<1>11. \A s \in Shapes : doc[s] = 0 /\ rows[s].fp = 0 /\ \A b \in Browsers : local[b][s] = 0
  BY <1>3 DEF Absent, None
<1>12. NoneAhead
  BY <1>2, <1>10, <1>11 DEF NoneAhead
<1>13. DocumentInv
  BY <1>3, <1>10, <1>12 DEF DocumentInv, UnsentIsPrivate, StillShown, ClosedHasSentAll
<1>14. ASSUME NEW b \in Browsers PROVE ReporterInv(b)
  <2>1. page[b] = "closed" /\ stage[b] = "idle" /\ ~timer[b]
    BY <1>3, <1>6
  <2>2. \A s \in Shapes : reported[b][s].size = "none"
    BY <1>9 DEF None
  <2>. QED
    BY <1>9, <2>1, <2>2 DEF ReporterInv, TakenWith, FontsAsked, RunsAgain, Stages
<1>15. WrongHasOwner
  BY <1>11 DEF WrongHasOwner, Trusted, Absent
<1>. QED
  BY <1>5, <1>8, <1>13, <1>14, <1>15 DEF IInv, Types, ReportersInv

\* A page that is turned starts nothing: every reporter is where it was.
LEMMA SwitchKeepsAll ==
  ASSUME IInv, shown' \in [Browsers -> Pages],
         UNCHANGED <<document, rows, loaded, page, timer, run, reported>>
  PROVE  IInv'
<1>1. UNCHANGED <<doc, local, unsent, drawn, rows, loaded, page, timer, stage, viewed, asked, batch,
                  left, again, reported>>
  BY DEF document, run
<1>2. ReporterTypes' /\ ReportersInv'
  BY <1>1, ReportersUntouched DEF run
<1>3. DocumentTypes'
  BY <1>1 DEF IInv, Types, DocumentTypes
<1>4. DocumentInv'
  BY <1>1 DEF IInv, DocumentInv, NoneAhead, UnsentIsPrivate, StillShown, ClosedHasSentAll, Knows
<1>5. WrongHasOwner'
  BY <1>1 DEF IInv, WrongHasOwner, Owns, Responsible, Right, Again, Trusted
<1>. QED
  BY <1>2, <1>3, <1>4, <1>5 DEF IInv, Types

LEMMA SwitchPageKeepsAll == ASSUME IInv, NEW b \in Browsers, SwitchPage(b) PROVE IInv'
<1>1. PICK p \in Pages : shown' = [shown EXCEPT ![b] = p]
  BY DEF SwitchPage, Set
<1>2. shown' \in [Browsers -> Pages]
  BY <1>1 DEF IInv, Types, ReporterTypes
<1>. QED
  BY <1>2, SwitchKeepsAll DEF SwitchPage

LEMMA StutterKeepsAll == ASSUME IInv, UNCHANGED vars PROVE IInv'
<1>1. shown' \in [Browsers -> Pages]
  BY DEF vars, view, IInv, Types, ReporterTypes
<1>. QED
  BY <1>1, SwitchKeepsAll DEF vars, view

LEMMA NextKeepsAll == ASSUME MeasurementsAssumption, IInv, [Next]_vars PROVE IInv'
BY EditKeepsAll, DownloadKeepsAll, OpenKeepsAll, StopKeepsAll, SwitchPageKeepsAll, UploadKeepsAll,
   ApiEditKeepsAll, ReporterKeepsAll, SaveKeepsAll, StutterKeepsAll DEF Next

-----------------------------------------------------------------------------
(* The theorems.                                                           *)

\* The invariant holds of every behaviour of any number of browsers.
THEOREM Invariance == Spec => []IInv
<1>1. Init => IInv
  BY MeasurementsAssumption, InitKeepsAll
<1>2. IInv /\ [Next]_vars => IInv'
  BY MeasurementsAssumption, NextKeepsAll
<1>. QED
  BY <1>1, <1>2, PTL DEF Spec

\* The document, the rows of layout_measurements and the reporters of every
\* browser keep their types: a run never has a batch of what is not a shape.
THEOREM TypeCorrect == Spec => []Types
<1>1. IInv => Types
  BY DEF IInv
<1>. QED
  BY <1>1, Invariance, PTL

\* A size that was taken before its font had loaded stays only of a text that its
\* browser did not show, has edited or has gone from, whichever fonts are slow,
\* pages are turned, requests fail and edits overtake a run.
THEOREM WrongSizesDoNotStay == Spec => []WrongSizesAreTemporary
<1>1. ASSUME NEW b \in Browsers, NEW s \in Shapes, Owns(b, s)
      PROVE  \/ page[b] = "stopped" \/ s \in unsent[b]
             \/ /\ page[b] = "open" /\ local[b][s] = doc[s]
                /\ reported[b][s] # [fp |-> doc[s], size |-> "right"]
                /\ WillMeasureAgain(b) \/ Underway(b, s) \/ viewed[b] # PageOf[s]
  BY <1>1 DEF Owns, Responsible, Right, Again, WillMeasureAgain, Underway
<1>2. IInv => WrongSizesAreTemporary
  BY <1>1 DEF IInv, WrongHasOwner, WrongSizesAreTemporary
<1>. QED
  BY <1>2, Invariance, PTL

\* No report, however late and of whichever browser, takes away the trust in a
\* size while the shape keeps its content.
THEOREM TrustIsKept == Spec => TrustedStays
<1>1. ASSUME Next
      PROVE  \A s \in Shapes : Trusted(s) /\ doc'[s] = doc[s] => Trusted(s)'
  <2>1. CASE rows' = rows
    BY <2>1 DEF Trusted
  <2>2. ASSUME NEW b \in Browsers, SaveMeasurements(b)
        PROVE  \A s \in Shapes : Trusted(s) /\ doc'[s] = doc[s] => Trusted(s)'
    BY <2>2 DEF SaveMeasurements, StillDescribes, Trusted
  <2>3. rows' = rows \/ \E b \in Browsers : SaveMeasurements(b)
    BY <1>1 DEF Next, Open, Stop, SwitchPage, Upload, Download, Reporter, Fire, FontsReady, Answered, Failed,
                RequestFails, Edit, ApiEdit
  <2>. QED
    BY <2>1, <2>2, <2>3
<1>2. UNCHANGED vars => \A s \in Shapes : Trusted(s) /\ doc'[s] = doc[s] => Trusted(s)'
  BY DEF vars, document, Trusted
<1>3. [Next]_vars => [\A s \in Shapes : Trusted(s) /\ doc'[s] = doc[s] => Trusted(s)']_vars
  BY <1>1, <1>2
<1>. QED
  BY <1>3, PTL DEF Spec, TrustedStays
=============================================================================
