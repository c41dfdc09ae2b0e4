--------------------------- MODULE MCMeasurements ---------------------------
(* Instances of Measurements for TLC.                                      *)
EXTENDS Measurements

\* The text is on the page that editors open with.
MCPageOf == [s \in Shapes |-> FirstPage]

\* Two contents and no failure, or one that is slow and a failure.  A page is
\* turned while one slow content is drawn, and nothing fails.
MCSpent ==
  {[contents |-> 0, failures |-> 1, switches |-> 2],
   [contents |-> 1, failures |-> 0, switches |-> 2],
   [contents |-> 1, failures |-> 1, switches |-> 0]}
=============================================================================
