------------------------------ MODULE MCAlerts ------------------------------
(* A windowed rule u, an anomaly rule n that is created, a calm and a busy *)
(* situation, and batches of two spans of which one is slow.               *)
EXTENDS Alerts

MCConditionOf == [r \in Rules |-> IF r = "u" THEN "gt" ELSE "anomaly"]
MCChannelsOf == [r \in Rules |-> IF r = "u" THEN {"slack", "email"} ELSE {"slack"}]
MCWindowAt == [l \in Loads |-> IF l = "calm" THEN [value |-> 0, samples |-> 1]
                                             ELSE [value |-> 2, samples |-> 2]]
MCStatsAt == [l \in Loads |-> IF l = "calm" THEN [count |-> 3, mean |-> 1, stddev |-> 1]
                                            ELSE [count |-> 2, mean |-> 5, stddev |-> 1]]
MCErrorsAt == [l \in Loads |-> IF l = "calm" THEN [total |-> 0, errors |-> 0]
                                             ELSE [total |-> 3, errors |-> 1]]
MCLatencyOf == [s \in Spans |-> IF s = "slow" THEN 5 ELSE 4]
=============================================================================
