-------------------------------- MODULE Api --------------------------------
(***************************************************************************)
(* The way of a request through /api/v1 to its handler: the bearer token   *)
(* (internal/middleware/auth.go), the key it stands for                    *)
(* (internal/service/auth.go, internal/repository/apikey.go), then the     *)
(* rate limiter of the key's tenant (module RateLimiter), in the order     *)
(* newRouter installs them (cmd/server/main.go).  Meanwhile an operator    *)
(* revokes keys in the database, which may also be out of reach.            *)
(*                                                                         *)
(* A token is the plaintext of a key, or None for any other: a header that *)
(* is missing, no bearer token, no key by its form, or a key that was      *)
(* never issued.  Hashing is injective.                                     *)
(***************************************************************************)
EXTENDS RateLimiter

CONSTANTS
    Keys,      \* rows of api_keys
    TenantOf   \* their tenant_id

ASSUME KeysAssumption == TenantOf \in [Keys -> Tenants] /\ None \notin Keys

VARIABLES
    revoked,   \* keys with a revoked_at
    token,     \* what each request presents
    expired    \* history: requests that came after their key was revoked

authVars == <<revoked, token, expired>>
vars == <<clock, zset, expireAt, pc, tenant, stamp, passed, promise,
          revoked, token, expired>>

TypeOK ==
    /\ LimiterTypeOK
    /\ pc \in [Requests -> {"new", "lookup", "unauthorized", "limit",
                            "eval", "late", "next", "denied", "open"}]
    /\ revoked \subseteq Keys
    /\ token \in [Requests -> Keys \cup {None}]
    /\ expired \subseteq Requests

Init ==
    /\ LimiterInit
    /\ pc = [r \in Requests |-> "new"]
    /\ revoked = {} /\ expired = {}
    /\ token = [r \in Requests |-> None]

-----------------------------------------------------------------------------

\* APIKeyAuth up to the database: bearerToken and ValidKeyFormat refuse
\* whatever cannot be a key.
bearerToken(r, tok) ==
    /\ pc[r] = "new"
    /\ token' = [token EXCEPT ![r] = tok]
    /\ \/ pc' = [pc EXCEPT ![r] = "lookup"]
       \/ tok = None /\ pc' = [pc EXCEPT ![r] = "unauthorized"]
    /\ expired' = IF tok \in revoked THEN expired \cup {r} ELSE expired
    /\ UNCHANGED <<clock, zset, expireAt, tenant, stamp, passed, promise,
                   revoked>>

setAuth(r, k) == tenant' = [tenant EXCEPT ![r] = TenantOf[k]]

\* The mistake of taking any row for a valid key.
AuthenticateRevoked(r) ==
    /\ pc[r] = "lookup" /\ token[r] \in Keys
    /\ setAuth(r, token[r])
    /\ pc' = [pc EXCEPT ![r] = "limit"]
    /\ UNCHANGED <<clock, zset, expireAt, stamp, passed, promise,
                   revoked, token, expired>>
\* GetByHash finds a key that is not revoked: its tenant goes on the context.
\* (The goroutine that sets last_used_at writes what no code reads.)
Authenticate(r) ==
    /\ pc[r] = "lookup" /\ token[r] \in Keys \ revoked
    /\ setAuth(r, token[r])
    /\ pc' = [pc EXCEPT ![r] = "limit"]
    /\ UNCHANGED <<clock, zset, expireAt, stamp, passed, promise,
                   revoked, token, expired>>

\* No such key, a revoked key, or no answer from the database: all are 401.
ErrUnauthorized(r) ==
    /\ pc[r] = "lookup"
    /\ pc' = [pc EXCEPT ![r] = "unauthorized"]
    /\ UNCHANGED <<clock, zset, expireAt, tenant, stamp, passed, promise,
                   revoked, token, expired>>

\* External: an operator sets revoked_at.
Revoke(k) ==
    /\ k \notin revoked
    /\ revoked' = revoked \cup {k}
    /\ UNCHANGED <<clock, zset, expireAt, pc, tenant, stamp, passed, promise,
                   token, expired>>

Next ==
    \/ \E r \in Requests :
          \/ \E tok \in Keys \cup {None} : bearerToken(r, tok)
          \/ Authenticate(r) \/ ErrUnauthorized(r)
          \/ RateLimit(r) /\ UNCHANGED authVars
    \/ \E k \in Keys : Revoke(k)
    \/ Tick /\ UNCHANGED authVars

Spec == Init /\ [][Next]_vars

-----------------------------------------------------------------------------
(* Properties.                                                              *)

\* A request reaches its handler, or takes room in a bucket, only for the
\* tenant of the key it presented, and never if the key was revoked before it
\* came, also not when the limiter fails open or its script runs late: the
\* window of a revocation is the requests under way, and a key that is no
\* longer good cannot use up its tenant's limit.
OnlyForItsTenant ==
    \A r \in Requests :
        LET charged == {t \in Tenants : \E e \in zset[t] : e.member = r}
            good == IF token[r] \in Keys /\ r \notin expired THEN {TenantOf[token[r]]} ELSE {}
        IN  /\ charged \subseteq good
            /\ pc[r] \in {"next", "open", "late"} => tenant[r] \in good
=============================================================================
