--------------------------- MODULE MCApiKeyCache ---------------------------
(* A project with two successive hashes of its own and one ingest key.     *)
EXTENDS ApiKeyCache

MCScopeOf == [k \in Keys |-> IF k \in Legacy THEN "read_write" ELSE "ingest"]
MCNeedOf == [q \in Requests |-> IF q = 1 THEN "ingest" ELSE "read"]
=============================================================================
