---------------------------- MODULE MCRetention ----------------------------
(* Project p keeps a, b, c and f: b's payload is refused by S3, c has none, *)
(* f carries a key under q's prefix; late span d has a's id and trace and a *)
(* later start.  Project q keeps x, whose payload has f's key.              *)
EXTENDS Retention

MCProjectOf == [s \in Rows |-> IF s = "x" THEN "q" ELSE "p"]
MCTraceOf == [s \in Rows |-> CASE s \in {"a", "d"} -> "t" [] s = "x" -> "w"
                               [] OTHER -> "u"]
MCStartOf == [s \in Rows |-> CASE s = "a" -> 1 [] s = "b" -> 1 [] s = "c" -> 2
                               [] s = "f" -> 1 [] s = "x" -> 2 [] OTHER -> 3]
MCKeyOf == [s \in Rows |-> CASE s \in {"a", "d"} -> "ka" [] s = "b" -> "kb"
                             [] s \in {"f", "x"} -> "kx" [] OTHER -> NoKey]
MCHomeOf == [k \in Keys |-> IF k = "kx" THEN "q" ELSE "p"]
=============================================================================
