---------------------------- MODULE MCSpanWorker ----------------------------
(***************************************************************************)
(* SpanWorker on batches of one trace.  b1 and b2 share span 3 (a client   *)
(* sent it twice) and wait for each other; b3 shares nothing with them, so *)
(* its transaction overlaps theirs freely, and has the earliest start.     *)
(* Span 4 of b1 fails preparation.                                         *)
(***************************************************************************)
EXTENDS SpanWorker, TLC

MCSpans == {1, 3, 4}
MCBatchSpans == [b \in Batches |-> CASE b = "b1" -> {3, 4}
                                     [] b = "b2" -> {3}
                                     [] b = "b3" -> {1}]
MCIdOf == [s \in MCSpans |-> s]
MCTraceOf == [s \in MCSpans |-> IF s = 4 THEN "t2" ELSE "t1"]
MCStartOf == [s \in MCSpans |-> s]
MCBad == {4}
MCWanted == {1, 3}

Symmetry == Permutations(Workers)
=============================================================================
