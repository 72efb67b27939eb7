----------------------------- MODULE ApiKeyCache -----------------------------
(***************************************************************************)
(* API key authentication: get_project_from_api_key with its Redis cache   *)
(* in front of PostgreSQL, and the admin calls that create, revoke and     *)
(* rotate the keys of a project.  Admin calls change the row in one        *)
(* transaction and delete the cache entry afterwards, while requests fill  *)
(* the cache from rows they have read.                                     *)
(***************************************************************************)
EXTENDS Integers

CONSTANTS
    Keys,       \* key hashes
    Legacy,     \* hashes that become a project's own api_key_hash
    First,      \* the api_key_hash the project is created with
    ScopeOf,    \* scope of a key: ingest, read or read_write
    Requests,   \* concurrent authentications
    NeedOf,     \* the scope each requires: that of the endpoint it serves
    Admins,     \* concurrent admin calls
    TTL,        \* lifetime of a cache entry
    MaxFaults   \* bound: Redis errors and crashes

ASSUME ApiKeyAssumption ==
    /\ Legacy \subseteq Keys /\ First \in Legacy
    /\ ScopeOf \in [Keys -> {"ingest", "read", "read_write"}]
    /\ \A k \in Legacy : ScopeOf[k] = "read_write"
    /\ NeedOf \in [Requests -> {"ingest", "read"}]
    /\ TTL \in Nat \ {0} /\ MaxFaults \in Nat

VARIABLES
    status,    \* of a key: unused, live or dead
    left,      \* time left of its cache entry, 0: there is none
    rpc,       \* where each request stands, or how it ended
    rkey,      \* its key; means nothing while it is idle
    apc,       \* where each admin call stands
    drop,      \* cache entries it will delete
    faults,    \* faults so far
    tainted,   \* history: dead keys whose entry may be there still
    then       \* history: the key was live, withdrawn or neither at the start

request == <<rpc, rkey>>
admin == <<apc, drop>>
keyHistory == <<tainted, then>>
keyVars == <<status, left, request, admin, faults, keyHistory>>

-----------------------------------------------------------------------------
Verdicts == {"granted", "unknown", "denied", "error"}

KeyTypeOK ==
    /\ status \in [Keys -> {"unused", "live", "dead"}]
    /\ \E k \in Legacy : \A j \in Legacy : status[j] = "live" <=> j = k
    /\ left \in [Keys -> 0 .. TTL]
    /\ rpc \in [Requests -> {"idle", "lookup", "load", "store"} \cup Verdicts]
    /\ rkey \in [Requests -> Keys]
    /\ apc \in [Admins -> {"idle", "locked", "invalidate"}]
    /\ drop \in [Admins -> SUBSET Keys]
    /\ faults \in 0 .. MaxFaults
    /\ tainted \subseteq Keys
    /\ then \in [Requests -> {"live", "withdrawn", "neither"}]

KeyInit ==
    /\ status = [k \in Keys |-> IF k = First THEN "live" ELSE "unused"]
    /\ left = [k \in Keys |-> 0]
    /\ rpc = [q \in Requests |-> "idle"]
    /\ rkey = [q \in Requests |-> First]
    /\ apc = [a \in Admins |-> "idle"]
    /\ drop = [a \in Admins |-> {}]
    /\ faults = 0
    /\ tainted = {}
    /\ then = [q \in Requests |-> "neither"]

-----------------------------------------------------------------------------
(* Time passes for the entries. *)
Tick ==
    /\ \E k \in Keys : left[k] > 0
    /\ left' = [k \in Keys |-> IF left[k] > 0 THEN left[k] - 1 ELSE 0]
    /\ UNCHANGED <<status, request, admin, faults, keyHistory>>

(* Seeded fault: read_write does not include the other scopes. *)
ApiKeyAllows_Exact(k, n) == ScopeOf[k] = n

(* api_key_allows *)
ApiKeyAllows(k, n) == ScopeOf[k] = "read_write" \/ ScopeOf[k] = n

KeyGoto(q, p) == rpc' = [rpc EXCEPT ![q] = p] /\ UNCHANGED rkey

(* A request arrives with a key that somebody was given. *)
Begin(q, k) ==
    /\ rpc[q] = "idle" /\ status[k] # "unused"
    /\ rpc' = [rpc EXCEPT ![q] = "lookup"]
    /\ rkey' = [rkey EXCEPT ![q] = k]
    /\ then' = [then EXCEPT ![q] =
                  CASE status[k] = "live" -> "live"
                    [] /\ status[k] = "dead" /\ k \notin tainted
                       /\ \A a \in Admins : k \notin drop[a] -> "withdrawn"
                    [] OTHER -> "neither"]
    /\ UNCHANGED <<status, left, admin, faults, tainted>>

(* The cache decides when it has an entry. *)
LookUp(q) ==
    LET k == rkey[q] IN
    /\ rpc[q] = "lookup"
    /\ \/ left[k] = 0 /\ KeyGoto(q, "load")
       \/ /\ left[k] > 0
          /\ KeyGoto(q, IF ApiKeyAllows(k, NeedOf[q]) THEN "granted" ELSE "denied")
    /\ UNCHANGED <<status, left, admin, faults, keyHistory>>

(* Seeded fault: the query does not ask for active keys. *)
Load_AnyRow(q) ==
    LET k == rkey[q] IN
    /\ rpc[q] = "load"
    /\ \/ status[k] = "unused" /\ KeyGoto(q, "unknown")
       \/ status[k] # "unused" /\ ~ApiKeyAllows(k, NeedOf[q]) /\ KeyGoto(q, "denied")
       \/ status[k] # "unused" /\ ApiKeyAllows(k, NeedOf[q]) /\ KeyGoto(q, "store")
    /\ UNCHANGED <<status, left, admin, faults, keyHistory>>

(* The database decides otherwise; last_used_at is written in the same      *)
(* transaction, whatever has become of the key since it was read.           *)
Load(q) ==
    LET k == rkey[q] IN
    /\ rpc[q] = "load"
    /\ \/ status[k] # "live" /\ KeyGoto(q, "unknown")
       \/ status[k] = "live" /\ ~ApiKeyAllows(k, NeedOf[q]) /\ KeyGoto(q, "denied")
       \/ status[k] = "live" /\ ApiKeyAllows(k, NeedOf[q]) /\ KeyGoto(q, "store")
    /\ UNCHANGED <<status, left, admin, faults, keyHistory>>

(* SETEX, with what was read before. *)
Store(q) ==
    /\ rpc[q] = "store"
    /\ left' = [left EXCEPT ![rkey[q]] = TTL]
    /\ KeyGoto(q, "granted")
    /\ UNCHANGED <<status, admin, faults, keyHistory>>

(* Redis or the database fails: the request gets an error. *)
RequestFails(q) ==
    /\ rpc[q] \in {"lookup", "load", "store"} /\ faults < MaxFaults
    /\ faults' = faults + 1
    /\ KeyGoto(q, "error")
    /\ UNCHANGED <<status, left, admin, keyHistory>>

(* The answer is given. *)
Answer(q) ==
    /\ rpc[q] \in Verdicts
    /\ rpc' = [rpc EXCEPT ![q] = "idle"]
    /\ rkey' = [rkey EXCEPT ![q] = First]
    /\ then' = [then EXCEPT ![q] = "neither"]
    /\ UNCHANGED <<status, left, admin, faults, tainted>>

-----------------------------------------------------------------------------
(* create_api_key *)
CreateApiKey(k) ==
    /\ k \notin Legacy /\ status[k] = "unused"
    /\ status' = [status EXCEPT ![k] = "live"]
    /\ UNCHANGED <<left, request, admin, faults, keyHistory>>

(* revoke_api_key commits; a revoked key can be revoked again. *)
Revoke(a, k) ==
    /\ apc[a] = "idle" /\ k \notin Legacy /\ status[k] # "unused"
    /\ status' = [status EXCEPT ![k] = "dead"]
    /\ apc' = [apc EXCEPT ![a] = "invalidate"]
    /\ drop' = [drop EXCEPT ![a] = {k}]
    /\ UNCHANGED <<left, request, faults, keyHistory>>

(* rotate_api_key reads the current hash and locks the project's row. *)
RotateLock(a) ==
    /\ apc[a] = "idle" /\ \A b \in Admins : apc[b] # "locked"
    /\ apc' = [apc EXCEPT ![a] = "locked"]
    /\ drop' = [drop EXCEPT ![a] = {k \in Legacy : status[k] = "live"}]
    /\ UNCHANGED <<status, left, request, faults, keyHistory>>

(* The project's api_key_hash is replaced by k. *)
Rotated(k) ==
    [j \in Keys |-> CASE j = k -> "live"
                      [] j \in Legacy \ {k} /\ status[j] = "live" -> "dead"
                      [] OTHER -> status[j]]

(* It writes a new hash and commits. *)
RotateCommit(a, k) ==
    /\ apc[a] = "locked" /\ k \in Legacy /\ status[k] = "unused"
    /\ status' = Rotated(k)
    /\ apc' = [apc EXCEPT ![a] = "invalidate"]
    /\ drop' = [drop EXCEPT ![a] = @ \cup {k}]
    /\ UNCHANGED <<left, request, faults, keyHistory>>

(* The call ends having deleted the entries of D; what it leaves, or what a *)
(* request is about to store, may outlive the key.                          *)
EndAdmin(a, D) ==
    /\ apc' = [apc EXCEPT ![a] = "idle"]
    /\ drop' = [drop EXCEPT ![a] = {}]
    /\ left' = [k \in Keys |-> IF k \in D THEN 0 ELSE left[k]]
    /\ tainted' = (tainted \ D) \cup (drop[a] \ D)
                    \cup {k \in D : \E q \in Requests : rpc[q] = "store" /\ rkey[q] = k}
    /\ UNCHANGED <<status, request, then>>

(* Seeded fault: the cache is left alone. *)
Invalidate_Forgotten(a) ==
    /\ apc[a] = "invalidate"
    /\ apc' = [apc EXCEPT ![a] = "idle"]
    /\ drop' = [drop EXCEPT ![a] = {}]
    /\ UNCHANGED <<status, left, request, faults, keyHistory>>

(* The cache entries are deleted after the commit. *)
Invalidate(a) ==
    /\ apc[a] = "invalidate"
    /\ EndAdmin(a, drop[a])
    /\ UNCHANGED faults

(* Redis fails, or the process dies, before all entries are deleted. *)
InvalidateFails(a) ==
    /\ apc[a] = "invalidate" /\ faults < MaxFaults
    /\ faults' = faults + 1
    /\ \E D \in SUBSET drop[a] : D # drop[a] /\ EndAdmin(a, D)

(* The transaction of a rotation fails and rolls back. *)
RotateFails(a) ==
    /\ apc[a] = "locked"
    /\ \/ \A k \in Legacy : status[k] # "unused"  \* the supply of hashes is a bound
       \/ faults < MaxFaults
    /\ faults' = IF faults < MaxFaults THEN faults + 1 ELSE faults
    /\ apc' = [apc EXCEPT ![a] = "idle"]
    /\ drop' = [drop EXCEPT ![a] = {}]
    /\ UNCHANGED <<status, left, request, keyHistory>>

-----------------------------------------------------------------------------
RequestStep(q) == LookUp(q) \/ Load(q) \/ Store(q) \/ Answer(q)

AdminStep(a) ==
    \/ \E k \in Keys : Revoke(a, k) \/ RotateCommit(a, k)
    \/ RotateLock(a) \/ Invalidate(a) \/ InvalidateFails(a) \/ RotateFails(a)

KeyNext ==
    \/ Tick
    \/ \E q \in Requests :
          \/ \E k \in Keys : Begin(q, k)
          \/ RequestStep(q) \/ RequestFails(q)
    \/ \E k \in Keys : CreateApiKey(k)
    \/ \E a \in Admins : AdminStep(a)

(* Time passes, and a request or a commit that was begun goes on. *)
KeyFairness ==
    /\ WF_keyVars(Tick)
    /\ \A q \in Requests : WF_keyVars(RequestStep(q))

KeySpec == KeyInit /\ [][KeyNext]_keyVars /\ KeyFairness

-----------------------------------------------------------------------------
(* A request that begins after its key was revoked or rotated away, and     *)
(* after the admin call has deleted the cache entry, is not granted, unless *)
(* that delete failed or an older request was about to store the entry; and *)
(* no request is granted beyond the scope of its key.                       *)
WithdrawnKeyIsRefused ==
    \A q \in Requests : rpc[q] = "granted" =>
        then[q] # "withdrawn" /\ ScopeOf[rkey[q]] \in {NeedOf[q], "read_write"}

(* A key that was live when the request began and still is, and has the     *)
(* scope, is neither unknown nor denied, whatever the cache went through.   *)
LiveKeyIsAccepted ==
    \A q \in Requests :
        (then[q] = "live" /\ status[rkey[q]] = "live"
           /\ ScopeOf[rkey[q]] \in {NeedOf[q], "read_write"})
          => rpc[q] \notin {"unknown", "denied"}

(* Withdrawing keys takes hold even when invalidation failed or lost a      *)
(* race: entries of dead keys run out, however often the keys are used, and *)
(* do not come back (only finitely many keys are ever withdrawn here).      *)
WithdrawalTakesHold ==
    <>[](\A k \in Keys : status[k] = "dead" => left[k] = 0)
=============================================================================
