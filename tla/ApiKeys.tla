------------------------------ MODULE ApiKeys ------------------------------
(***************************************************************************)
(* API keys: their store, the handlers that create and revoke them, and    *)
(* the CachingValidator (internal/auth) that the Ingest API asks about     *)
(* every request.  A key may be revoked while requests that carry it are   *)
(* being validated.                                                        *)
(***************************************************************************)
EXTENDS KeyParameters

Never == MaxClock + 1
Times == 0..MaxClock

VARIABLES
    clock,
    owner,        \* owner[k]: the project of key k, NoProject before it is created
    revokedAt,    \* revokedAt[k]: when k was first revoked, or Never
    cache,        \* cache[k]: expiresAt of the entry of k, 0 if there is none
    checks,       \* checks[r]: where Validate is with request r
    arrival       \* history: arrival[k]: the latest arrival of an accepted request with k

validatorVars == <<cache, checks, arrival>>
vars == <<clock, owner, revokedAt, validatorVars>>

Free == [at |-> "free"]

Init ==
    /\ clock = 0
    /\ owner \in [Keys -> Projects \cup {NoProject}]
    /\ revokedAt = [k \in Keys |-> Never]
    /\ cache = [k \in Keys |-> 0]
    /\ checks = [r \in Checks |-> Free]
    /\ arrival = [k \in Keys |-> 0]

Tick ==
    /\ clock < MaxClock
    /\ clock' = clock + 1
    /\ UNCHANGED <<owner, revokedAt, validatorVars>>

(* HandleGenerateAPIKey stores a key that nobody has had before. *)
CreateAPIKey(k, p) ==
    /\ owner[k] = NoProject
    /\ owner' = [owner EXCEPT ![k] = p]
    /\ UNCHANGED <<clock, revokedAt, validatorVars>>

(* RevokeAPIKey stamps the keys in ks.  A second revocation stamps them    *)
(* again, which nobody can tell from the first.                            *)
RevokeAPIKeys(ks) ==
    /\ \A k \in ks : owner[k] # NoProject
    /\ revokedAt' = [k \in Keys |-> IF k \in ks /\ revokedAt[k] = Never THEN clock ELSE revokedAt[k]]
    /\ UNCHANGED <<clock, owner, validatorVars>>

-----------------------------------------------------------------------------
Latest(a, b) == IF a >= b THEN a ELSE b

Accept(k, now) == arrival' = [arrival EXCEPT ![k] = Latest(@, now)]

(* Validate reads the clock and the cache. *)
Arrive(r, k) ==
    /\ checks[r] = Free
    /\ owner[k] # NoProject
    /\ IF clock < cache[k]
       THEN Accept(k, clock) /\ UNCHANGED checks
       ELSE /\ checks' = [checks EXCEPT ![r] = [at |-> "lookup", key |-> k, now |-> clock]]
            /\ UNCHANGED arrival
    /\ UNCHANGED <<clock, owner, revokedAt, cache>>

(* GetAPIKeyByHash answers, or fails. *)
LookUp(r) ==
    /\ checks[r].at = "lookup"
    /\ \/ /\ revokedAt[checks[r].key] = Never
          /\ checks' = [checks EXCEPT ![r].at = "found"]
       \/ checks' = [checks EXCEPT ![r] = Free]
    /\ UNCHANGED <<clock, owner, revokedAt, cache, arrival>>

(* Mutant: the entry lives for a full TTL from when it is stored. *)
MutantExpiresAt(check) == clock + TTL

(* The entry's lifetime counts from the arrival of the request. *)
ExpiresAt(check) == check.now + TTL

(* The answer is cached and the request accepted. *)
FillCache(r) ==
    /\ checks[r].at = "found"
    /\ cache' = [cache EXCEPT ![checks[r].key] = ExpiresAt(checks[r])]
    /\ Accept(checks[r].key, checks[r].now)
    /\ checks' = [checks EXCEPT ![r] = Free]
    /\ UNCHANGED <<clock, owner, revokedAt>>

Validate == \E r \in Checks : LookUp(r) \/ FillCache(r) \/ \E k \in Keys : Arrive(r, k)

Next ==
    \/ Tick
    \/ Validate
    \/ \E k \in Keys, p \in Projects : CreateAPIKey(k, p)
    \/ \E ks \in SUBSET Keys : RevokeAPIKeys(ks)

Spec == Init /\ [][Next]_vars

-----------------------------------------------------------------------------
TypeOK ==
    /\ clock \in Times
    /\ owner \in [Keys -> Projects \cup {NoProject}]
    /\ revokedAt \in [Keys -> Times \cup {Never}]
    /\ cache \in [Keys -> Nat]
    /\ arrival \in [Keys -> Times]
    /\ checks \in [Checks -> {Free} \cup [at : {"lookup", "found"}, key : Keys, now : Times]]

(* A request that arrives a cache lifetime or more after its key was       *)
(* revoked is never accepted, not even when an entry was stored after the  *)
(* revocation by a validation that was under way.                          *)
RevokedKeyRefused == \A k \in Keys : revokedAt[k] # Never => arrival[k] < revokedAt[k] + TTL
=============================================================================
