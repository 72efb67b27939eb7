----------------------------- MODULE MCSdkTracer ----------------------------
(* SdkTracer on small instances. *)
EXTENDS SdkTracer, TLC
=============================================================================
