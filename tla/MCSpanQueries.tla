--------------------------- MODULE MCSpanQueries ---------------------------
(***************************************************************************)
(* SpanQueries over two traces.  b1 starts both at 3; b2 repeats span 3,   *)
(* moves trace 1 to start 1 and adds span 6 to trace 2.  Span 4 fails      *)
(* preparation; span 6 starts after the current time bucket.  The failed   *)
(* spans 1 and 3 have different messages with one fingerprint.             *)
(***************************************************************************)
EXTENDS SpanQueries, TLC

MCSpans == {1, 2, 3, 4, 6}
MCBatchSpans == [b \in Batches |-> IF b = "b1" THEN {2, 3, 4} ELSE {1, 3, 6}]
MCIdOf == [s \in MCSpans |-> s]
MCTraceOf == [s \in MCSpans |-> IF s \in {1, 3} THEN 1 ELSE 2]
MCStartOf == [s \in MCSpans |-> IF s = 2 THEN 3 ELSE s]
MCBad == {4}
MCWanted == {1}
MCWindows == {<<2, 9>>}
MCErrors == {1, 2, 3}
MCModelOf == [s \in MCSpans |-> IF s = 2 THEN "none" ELSE "m1"]
MCProviderOf == [s \in MCSpans |-> IF s = 1 THEN "none" ELSE "p1"]
MCErrorOf == [s \in MCSpans |-> CASE s = 1 -> <<"timeout", "7s", "here">>
                                  [] s = 3 -> <<"timeout", "9s", "there">>
                                  [] OTHER -> << >>]

Symmetry == Permutations(Workers)
=============================================================================
