---------------------------- MODULE Measurements ----------------------------
(***************************************************************************)
(* The sizes of texts and notes, which only a browser can measure: the     *)
(* reporter that runs in every editor's browser                            *)
(* (client/layout/measurement-reporter.ts, attach-measurement-reporter.ts) *)
(* and the server that keeps what is reported                              *)
(* (server/layout-measurements.ts, with its route in server/app.ts).       *)
(*                                                                         *)
(* A reporter waits for its timer, for fonts and for the answer to each    *)
(* request; the document changes during every one of these waits, in the   *)
(* browser and on the server, which see each other's changes later.  A     *)
(* content stands for everything the fingerprint of a shape covers; a size *)
(* is right, or it was taken with a font that had not been loaded.         *)
(*                                                                         *)
(* A board has pages.  A reporter measures the shapes of all of them, and  *)
(* waits for the fonts of the page its browser shows; showing another page *)
(* is no change of the document, and starts nothing.  A font is loaded by  *)
(* a reporter only: one that drawing loads makes sizes right sooner.       *)
(***************************************************************************)
EXTENDS Integers, FiniteSets

CONSTANTS
  Browsers,
  Shapes,         \* texts and notes
  Slow,           \* contents whose font a browser has to load
  Pages,          \* the board's pages
  PageOf,         \* the page each shape is on
  FirstPage,      \* the page an editor opens with
  MaxReport,      \* MAX_REPORT_SIZE
  MaxContent,     \* bound: the contents that are ever drawn
  MaxFailures,    \* bound: requests that fail, before or after they are handled
  MaxSwitches,    \* bound: the times a browser shows another page
  Spent           \* bound: how much of each is spent when a behaviour starts

Contents == 1 .. MaxContent
Absent == 0       \* the content of a shape that is not there

ASSUME MeasurementsAssumption ==
  /\ Slow \subseteq Contents
  /\ MaxReport \in Nat \ {0}
  /\ MaxContent \in Nat
  /\ MaxFailures \in Nat
  /\ MaxSwitches \in Nat
  /\ PageOf \in [Shapes -> Pages]
  /\ FirstPage \in Pages
  /\ Spent \subseteq [contents : 0 .. MaxContent, failures : 0 .. MaxFailures,
                     switches : 0 .. MaxSwitches]

VARIABLES
  doc,         \* the server's document: the content of each shape
  rows,        \* layout_measurements
  local,       \* each browser's document
  unsent,      \* the shapes whose edits it has not sent to the server
  loaded,      \* the fonts it has
  page,        \* whether the editor is mounted: "closed", "open" or "stopped"
  shown,       \* the page each browser shows
  viewed,      \* history: the page it showed when its latest run began
  timer,       \* whether a flush is scheduled, after the debounce or the backoff
  stage,       \* where run() is: idle, fonts, sent, answered, failed
  asked,       \* the fonts it waits for
  batch,       \* the measurements it has sent
  left,        \* those it has still to send
  again,       \* a flush was asked for during the run
  reported,    \* "What the server already has"
  drawn,       \* the last content drawn
  failures,    \* requests that failed
  switches     \* times that a browser showed another page

run == <<stage, viewed, asked, batch, left, again>>
document == <<doc, local, unsent, drawn>>
view == <<page, shown, switches>>
vars == <<document, rows, loaded, view, timer, run, reported, failures>>

None == [fp |-> Absent, size |-> "none"]

\* A function on some of the shapes: the measurements of one report.
Nothing == [s \in {} |-> None]

-----------------------------------------------------------------------------
Init ==
  /\ doc = [s \in Shapes |-> Absent]
  /\ rows = [s \in Shapes |-> None]
  /\ local = [b \in Browsers |-> doc]
  /\ unsent = [b \in Browsers |-> {}]
  /\ loaded = [b \in Browsers |-> {}]
  /\ page = [b \in Browsers |-> "closed"]
  /\ shown = [b \in Browsers |-> FirstPage]
  /\ viewed = [b \in Browsers |-> FirstPage]
  /\ timer = [b \in Browsers |-> FALSE]
  /\ stage = [b \in Browsers |-> "idle"]
  /\ asked = [b \in Browsers |-> {}]
  /\ batch = [b \in Browsers |-> Nothing]
  /\ left = [b \in Browsers |-> Nothing]
  /\ again = [b \in Browsers |-> FALSE]
  /\ reported = [b \in Browsers |-> [s \in Shapes |-> None]]
  /\ \E spent \in Spent :
       /\ drawn = spent.contents
       /\ failures = spent.failures
       /\ switches = spent.switches

Most(a, b) == IF a < b THEN b ELSE a
Set(f, b, value) == [f EXCEPT ![b] = value]

-----------------------------------------------------------------------------
(* The document, which browsers and the server keep in step (tldraw sync). *)

\* store.listen: every change of the document schedules a flush.
Touch(b) == timer' = Set(timer, b, page[b] = "open")

\* What an edit may leave: a new content, or nothing.
EditOutcome(content, result) ==
  /\ result # content
  /\ result = Absent \/ result = drawn + 1
  /\ drawn' = Most(drawn, result)

\* A person edits a shape in a browser, which sends the edit in its own time.
Edit(b, s) ==
  /\ page[b] = "open"
  /\ \E result \in 0 .. MaxContent :
       /\ EditOutcome(local[b][s], result)
       /\ local' = [local EXCEPT ![b][s] = result]
       /\ unsent' = [unsent EXCEPT ![b] = @ \cup {s}]
  /\ Touch(b)
  /\ UNCHANGED <<doc, rows, loaded, view, run, reported, failures>>

\* Its edits reach the server.
Upload(b) ==
  /\ unsent[b] # {}
  /\ doc' = [s \in Shapes |-> IF s \in unsent[b] THEN local[b][s] ELSE doc[s]]
  /\ unsent' = Set(unsent, b, {})
  /\ UNCHANGED <<rows, local, loaded, view, timer, run, reported, drawn, failures>>

\* It receives the changes of others.
Download(b) ==
  LET merged == [s \in Shapes |-> IF s \in unsent[b] THEN local[b][s] ELSE doc[s]]
  IN  /\ page[b] = "open"
      /\ merged # local[b]
      /\ local' = Set(local, b, merged)
      /\ Touch(b)
      /\ UNCHANGED <<doc, unsent, rows, loaded, view, run, reported, drawn, failures>>

\* An action of the machine API edits a shape on the server.
ApiEdit(s) ==
  /\ \E result \in 0 .. MaxContent :
       EditOutcome(doc[s], result) /\ doc' = [doc EXCEPT ![s] = result]
  /\ UNCHANGED <<rows, local, unsent, loaded, view, timer, run, reported, failures>>

-----------------------------------------------------------------------------
(* The reporter.                                                           *)

\* attachMeasurementReporter: a reporter of its own for each editor.  A board
\* that is opened again counts as another browser.
Open(b) ==
  /\ page[b] = "closed"
  /\ page' = Set(page, b, "open")
  /\ local' = Set(local, b, doc)
  /\ timer' = Set(timer, b, TRUE)
  /\ UNCHANGED <<doc, unsent, rows, loaded, shown, switches, run, reported, drawn, failures>>

\* stop: the timer is cancelled and a request in flight goes on; edits that the
\* server has not seen are lost with the page.
Stop(b) ==
  /\ page[b] = "open"
  /\ page' = Set(page, b, "stopped")
  /\ timer' = Set(timer, b, FALSE)
  /\ unsent' = Set(unsent, b, {})
  /\ UNCHANGED <<doc, rows, local, loaded, shown, switches, run, reported, drawn, failures>>

\* A person shows another page of the board.  The store's listener takes changes
\* of the document only: no run follows.
SwitchPage(b) ==
  /\ page[b] = "open"
  /\ switches < MaxSwitches
  /\ \E p \in Pages \ {shown[b]} : shown' = Set(shown, b, p)
  /\ switches' = switches + 1
  /\ UNCHANGED <<document, rows, loaded, page, timer, run, reported, failures>>

\* loadRequiredFontsForCurrentPage: what the page shown now needs.
FontsShown(b) == {local[b][s] : s \in {t \in Shapes : PageOf[t] = shown[b]}} \cap Slow

\* run() begins and waits for the fonts of the current page.
BeginRun(b) ==
  /\ stage' = Set(stage, b, "fonts")
  /\ viewed' = Set(viewed, b, shown[b])
  /\ asked' = Set(asked, b, FontsShown(b))
  /\ batch' = Set(batch, b, Nothing)
  /\ left' = Set(left, b, Nothing)

\* Between runs a reporter waits for nothing.
EndRun(b) ==
  /\ UNCHANGED viewed
  /\ stage' = Set(stage, b, "idle")
  /\ asked' = Set(asked, b, {})
  /\ batch' = Set(batch, b, Nothing)
  /\ left' = Set(left, b, Nothing)

\* A flush that was asked for during the run is forgotten.
FinishForGood(b) == EndRun(b) /\ again' = Set(again, b, FALSE)

\* finally: "if (again && !stopped)" the next run begins.
Finish(b) ==
  IF again[b] /\ page[b] = "open"
    THEN BeginRun(b) /\ again' = Set(again, b, FALSE)
    ELSE EndRun(b) /\ UNCHANGED again

\* The timer fires: flush(), or a note to flush after the run in progress.
Fire(b) ==
  /\ timer[b]
  /\ timer' = Set(timer, b, FALSE)
  /\ IF stage[b] = "idle"
       THEN BeginRun(b) /\ UNCHANGED again
       ELSE again' = Set(again, b, TRUE) /\ UNCHANGED <<stage, viewed, asked, batch, left>>
  /\ UNCHANGED <<document, rows, loaded, view, reported, failures>>

\* measure and layoutFingerprint, with the fonts there are.
Measured(b, s) ==
  [fp |-> local[b][s],
   size |-> IF local[b][s] \in Slow \ loaded'[b] THEN "wrong" ELSE "right"]

\* Only the fingerprint is compared with what was reported.
IsNewContent(b, s) == reported[b][s].fp # Measured(b, s).fp

\* "A change in either is sent again."
IsNews(b, s) == reported[b][s] # Measured(b, s)

Pending(b) == {s \in Shapes : local[b][s] # Absent /\ IsNews(b, s)}

\* The next batch of the measurements in todo leaves for the server.
SendBatch(b, todo) ==
  \E sent \in SUBSET DOMAIN todo :
    /\ sent # {}
    /\ Cardinality(sent) <= MaxReport
    /\ sent # DOMAIN todo => Cardinality(sent) = MaxReport
    /\ stage' = Set(stage, b, "sent")
    /\ batch' = Set(batch, b, [s \in sent |-> todo[s]])
    /\ left' = Set(left, b, [s \in DOMAIN todo \ sent |-> todo[s]])
    /\ asked' = Set(asked, b, {})
    /\ UNCHANGED <<viewed, again>>

\* ready() resolves: the shapes of every page are measured now, whatever appeared
\* meanwhile, and shapes that are gone are forgotten.
FontsReady(b) ==
  /\ stage[b] = "fonts"
  /\ loaded' = [loaded EXCEPT ![b] = @ \cup asked[b]]
  /\ IF page[b] # "open" THEN Finish(b) /\ UNCHANGED reported
     ELSE /\ reported' = [reported EXCEPT ![b] =
                            [s \in Shapes |-> IF local[b][s] = Absent THEN None ELSE @[s]]]
          /\ IF Pending(b) = {} THEN Finish(b)
             ELSE SendBatch(b, [s \in Pending(b) |-> Measured(b, s)])
  /\ UNCHANGED <<document, rows, view, timer, failures>>

\* The answer: the batch counts as reported, stale or not.
Answered(b) ==
  /\ stage[b] = "answered"
  /\ reported' = [reported EXCEPT ![b] =
                    [s \in Shapes |-> IF s \in DOMAIN batch[b] THEN batch[b][s] ELSE @[s]]]
  /\ IF left[b] = Nothing \/ page[b] # "open" THEN Finish(b) ELSE SendBatch(b, left[b])
  /\ UNCHANGED <<document, rows, loaded, view, timer, failures>>

\* catch: the rest of the run is given up, and tried again after the backoff.
Failed(b) ==
  /\ stage[b] = "failed"
  /\ timer' = Set(timer, b, page[b] = "open")
  /\ Finish(b)
  /\ UNCHANGED <<document, rows, loaded, view, reported, failures>>

-----------------------------------------------------------------------------
(* The server.                                                             *)

\* Every reported size is stored.
AnyContent(s, m) == doc[s] # Absent

\* The report describes what the shape has now: else it is stale, or ignored.
StillDescribes(s, m) == doc[s] = m.fp

\* saveMeasurements: the rows of shapes that are gone are dropped too.
SaveMeasurements(b) ==
  /\ stage[b] = "sent"
  /\ rows' = [s \in Shapes |->
                IF doc[s] = Absent THEN None
                ELSE IF s \in DOMAIN batch[b] /\ StillDescribes(s, batch[b][s]) THEN batch[b][s]
                ELSE rows[s]]
  /\ stage' = Set(stage, b, "answered")
  /\ UNCHANGED <<document, loaded, view, timer, viewed, asked, batch, left, again, reported, failures>>

\* The report does not arrive, or is refused, or its answer is lost.
RequestFails(b) ==
  /\ stage[b] \in {"sent", "answered"}
  /\ failures < MaxFailures
  /\ failures' = failures + 1
  /\ stage' = Set(stage, b, "failed")
  /\ UNCHANGED <<document, rows, loaded, view, timer, viewed, asked, batch, left, again, reported>>

-----------------------------------------------------------------------------
Reporter(b) == Fire(b) \/ FontsReady(b) \/ Answered(b) \/ Failed(b)

Next ==
  \/ \E b \in Browsers :
       \/ Open(b) \/ Stop(b) \/ SwitchPage(b)
       \/ Upload(b) \/ Download(b)
       \/ Reporter(b)
       \/ SaveMeasurements(b) \/ RequestFails(b)
       \/ \E s \in Shapes : Edit(b, s)
  \/ \E s \in Shapes : ApiEdit(s)

Spec == Init /\ [][Next]_vars

\* Timers fire, fonts load, requests and sync messages arrive; nobody has to
\* open a board or edit it.
Fairness ==
  \A b \in Browsers :
    /\ WF_vars(Fire(b)) /\ WF_vars(FontsReady(b))
    /\ WF_vars(Answered(b)) /\ WF_vars(Failed(b))
    /\ WF_vars(SaveMeasurements(b))
    /\ WF_vars(Upload(b)) /\ WF_vars(Download(b))

LiveSpec == Spec /\ Fairness

-----------------------------------------------------------------------------
(* Properties.                                                             *)

\* sizeOf: a measurement counts while the shape has the content it measured.
Trusted(s) == doc[s] # Absent /\ rows[s].fp = doc[s]

\* What layout reads trust stays trusted for as long as the shape is not edited:
\* no late report of an earlier content, of whichever browser, displaces it.
TrustedStays ==
  [][\A s \in Shapes : Trusted(s) /\ doc'[s] = doc[s] => Trusted(s)']_vars

\* Reports that are still to be measured, or on their way.
WillMeasureAgain(b) ==
  timer[b] \/ again[b] \/ stage[b] \in {"fonts", "failed"}

Underway(b, s) ==
  stage[b] \in {"sent", "answered"} /\ s \in DOMAIN batch[b] \cup DOMAIN left[b]

\* A size that was taken before its font had loaded is never what a browser
\* leaves behind on the page it showed: one that has the shape as it is, and has
\* not reported its right size, measures again.  Only a text of a page that it
\* did not show when its run began keeps such a size, as does one whose browser
\* has gone or has edited the shape since.
WrongSizesAreTemporary ==
  \A s \in Shapes :
    Trusted(s) /\ rows[s].size = "wrong" =>
      \E b \in Browsers :
        \/ page[b] = "stopped" \/ s \in unsent[b]
        \/ /\ page[b] = "open" /\ local[b][s] = doc[s]
           /\ reported[b][s] # [fp |-> doc[s], size |-> "right"]
           /\ WillMeasureAgain(b) \/ Underway(b, s) \/ viewed[b] # PageOf[s]

\* A browser reports what it has edited after it has sent the edit.  The sync
\* connection is much faster than the debounce of a report, and nothing else
\* keeps the two in order.
ReportsFollowEdits ==
  \A b \in Browsers : \A s \in unsent[b] \cap DOMAIN batch[b] :
    stage[b] = "sent" => batch[b][s].fp # local[b][s]

\* "Text and notes are estimated until someone with the board open in a browser
\* has measured them": if boards stay open and no report overtakes its edit, every
\* text gets a size for good once editing ends, and the right one if those who
\* measure it have its page before them.
EventuallyMeasured ==
  /\ [](ReportsFollowEdits /\ \A b \in Browsers : page[b] # "stopped")
  /\ <>(\E b \in Browsers : page[b] = "open")
  => \A s \in Shapes :
       /\ <>[](doc[s] # Absent => Trusted(s))
       /\ <>[](\A b \in Browsers : page[b] = "open" => viewed[b] = PageOf[s])
            => <>[](doc[s] # Absent => Trusted(s) /\ rows[s].size = "right")
=============================================================================
