--------------------------- MODULE MCSegmentMedia ---------------------------
(***************************************************************************)
(* Instances of SegmentMedia: two manifest entries, the first of which is  *)
(* recorded in several segments.                                           *)
(***************************************************************************)
EXTENDS SegmentMedia

CONSTANTS e1, e2

\* The highest segment belongs to the second entry.
TwoEntries ==
    [s \in Segments |-> IF \A r \in Segments : r <= s THEN e2 ELSE e1]

Modes(deferred, merge, transcodes, failures, odd) ==
    {[deferred |-> deferred, merge |-> merge, transcode |-> transcode,
      throws |-> failure # "journal", strict |-> failure = "strict",
      journalFaults |-> failure = "journal",
      doubtful |-> odd, losable |-> odd] :
          transcode \in transcodes, failure \in failures}

\* Segments transcoded after the worker's tests while the journal fails, or
\* while processing throws and captures go wrong; merged; processed at once.
AllModes ==
    Modes(TRUE, FALSE, {TRUE}, {"journal"}, {}) \union
    Modes(TRUE, FALSE, {TRUE}, {"strict"}, {3}) \union
    Modes(TRUE, TRUE, BOOLEAN, {"strict", "warn"}, {2, 3}) \union
    Modes(FALSE, TRUE, BOOLEAN, {"strict", "warn"}, {2, 3})
=============================================================================
