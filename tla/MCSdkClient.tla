----------------------------- MODULE MCSdkClient ----------------------------
(* SdkClient with a traced function, a manual span and a streamed call. *)
EXTENDS SdkClient, TLC

MCKindOf == [c \in Calls |-> CASE c = 1 -> "trace" [] c = 2 -> "manual"
                               [] OTHER -> "stream"]
=============================================================================
