---------------------------- MODULE RateLimiter ----------------------------
(***************************************************************************)
(* The per-tenant sliding-window log (internal/repository/ratelimit.go)    *)
(* and the middleware around it (internal/middleware/ratelimit.go).  Which *)
(* requests come here, and for which tenant, is decided in module Api.      *)
(*                                                                         *)
(* A request reads the clock of its server, and the Lua script runs with   *)
(* that stamp when it reaches Redis, up to MaxDelay later and in any order *)
(* with the scripts of other requests.  A caller that gives up first fails *)
(* open, and its script may still run.  Stamps and the Redis clock come    *)
(* from one clock: skew between servers adds to MaxDelay.                   *)
(***************************************************************************)
EXTENDS Integers, FiniteSets, FiniteSetsExt

CONSTANTS
    Requests,   \* each made once
    Tenants,
    Limit,      \* RATE_LIMIT_REQUESTS
    Window,     \* RATE_LIMIT_WINDOW in whole milliseconds: 0 when it is shorter than one
    Second,     \* the milliseconds of a second
    MaxDelay,   \* bound on the age of a stamp when its script is answered
    MaxNow,     \* bound on the clock
    None

ASSUME LimitAssumption == Limit \in Nat \ {0} /\ Window \in Nat
ASSUME SecondAssumption == Second \in Nat \ {0}
ASSUME DelayAssumption == MaxDelay \in Nat /\ MaxNow \in Nat
ASSUME NoneAssumption == None \notin Int /\ None \notin Tenants

VARIABLES
    clock,
    zset,      \* each tenant's sorted set: one entry per recorded request
    expireAt,  \* when each set's key expires (None before the first PEXPIRE)
    pc,        \* where each request stands
    tenant,    \* the tenant on each request's context, None if there is none
    stamp,     \* the now argument of each request's script
    passed,    \* history: when the limiter admitted each request
    promise    \* history: the stamp for which a tenant's last denial promised room

limiterVars == <<clock, zset, expireAt, pc, tenant, stamp, passed, promise>>

Entries == [member: Requests, score: Nat]

\* Members of a sorted set are unique (uniqueMember), and it never holds more
\* requests than the limit.
LimiterTypeOK ==
    /\ clock \in 0..MaxNow
    /\ zset \in [Tenants -> SUBSET Entries]
    /\ \A t \in Tenants : Cardinality(zset[t]) <= Limit
    /\ expireAt \in [Tenants -> Nat \cup {None}]
    /\ tenant \in [Requests -> Tenants \cup {None}]
    /\ stamp \in [Requests -> Nat \cup {None}]
    /\ passed \in [Requests -> Nat \cup {None}]
    /\ promise \in [Tenants -> Int \cup {None}]

LimiterInit ==
    /\ clock = 0 /\ zset = [t \in Tenants |-> {}]
    /\ expireAt = [t \in Tenants |-> None] /\ promise = expireAt
    /\ tenant = [r \in Requests |-> None] /\ stamp = tenant /\ passed = tenant

-----------------------------------------------------------------------------

\* Allow up to the script: a member is drawn and the clock read.
ReadClock(r) ==
    /\ pc[r] = "limit"
    /\ pc' = [pc EXCEPT ![r] = "eval"]
    /\ stamp' = [stamp EXCEPT ![r] = clock]
    /\ UNCHANGED <<clock, zset, expireAt, tenant, passed, promise>>

\* What a script finds under the key of the tenant.  PEXPIRE with a window of
\* 0 deletes the key at once.
Stored(t) ==
    IF expireAt[t] # None /\ (clock > expireAt[t] \/ Window = 0) THEN {} ELSE zset[t]

\* The mistakes of trimming one millisecond too much or too little.
TrimEager(entries, t) == {e \in entries : e.score > t - Window + 1}
TrimLazy(entries, t) == {e \in entries : e.score >= t - Window}
\* ZREMRANGEBYSCORE key 0 now-window.
Trim(entries, t) == {e \in entries : e.score > t - Window}

\* The mistake of admitting the request that reaches the limit.
HasRoomInclusive(entries) == Cardinality(entries) <= Limit
HasRoom(entries) == Cardinality(entries) < Limit

\* Where the request goes: one whose caller gave up has its answer already.
Answer(r, verdict) ==
    pc' = [pc EXCEPT ![r] = IF @ = "late" THEN "open" ELSE verdict]

\* The script records the request: the middleware calls the next handler.
EvalAllows(r) ==
    LET t == tenant[r]
        kept == Trim(Stored(t), stamp[r])
    IN
    /\ pc[r] \in {"eval", "late"}
    /\ HasRoom(kept)
    /\ zset' = [zset EXCEPT ![t] = kept \cup {[member |-> r, score |-> stamp[r]]}]
    /\ expireAt' = [expireAt EXCEPT ![t] = clock + Window]
    /\ Answer(r, "next")
    /\ passed' = [passed EXCEPT ![r] = IF pc[r] = "late" THEN None ELSE clock]
    /\ promise' = [promise EXCEPT ![t] = None]
    /\ UNCHANGED <<clock, tenant, stamp>>

\* retryAfter: until the oldest entry leaves the window, at least 0.
RetryAfter(entries, t) ==
    LET wait == Min({e.score : e \in entries}) + Window - t
    IN  IF wait < 0 THEN 0 ELSE wait

\* The Retry-After header: the wait cut to whole seconds, at least one.
RetrySeconds(wait) == LET secs == wait \div Second IN IF secs < 1 THEN 1 ELSE secs

\* The script refuses: 429 with the seconds to wait.
EvalDenies(r) ==
    LET t == tenant[r]
        kept == Trim(Stored(t), stamp[r])
    IN
    /\ pc[r] \in {"eval", "late"}
    /\ ~HasRoom(kept)
    /\ zset' = [zset EXCEPT ![t] = kept]
    /\ Answer(r, "denied")
    /\ promise' = [promise EXCEPT ![t] =
                     stamp[r] + RetrySeconds(RetryAfter(kept, stamp[r])) * Second]
    /\ UNCHANGED <<clock, expireAt, tenant, stamp, passed>>

\* Redis fails or does not answer in time: the middleware fails open.  The
\* script has not run, and may still run later.
FailOpen(r) ==
    /\ pc[r] = "eval"
    /\ \E s \in {"open", "late"} : pc' = [pc EXCEPT ![r] = s]
    /\ UNCHANGED <<clock, zset, expireAt, tenant, stamp, passed, promise>>

\* Time passes, but no caller waits for longer than MaxDelay.
Tick ==
    /\ clock < MaxNow
    /\ \A r \in Requests : pc[r] = "eval" => clock < stamp[r] + MaxDelay
    /\ clock' = clock + 1
    /\ UNCHANGED <<zset, expireAt, pc, tenant, stamp, passed, promise>>

RateLimit(r) == ReadClock(r) \/ EvalAllows(r) \/ EvalDenies(r) \/ FailOpen(r)

-----------------------------------------------------------------------------
(* Properties.                                                              *)

PassedDuring(t, from, to) ==
    {r \in Requests : /\ tenant[r] = t /\ passed[r] # None
                      /\ from < passed[r] /\ passed[r] <= to}

\* However scripts are delayed and reordered, the limiter admits no more than
\* Limit requests of a tenant in any stretch of time of length Window - MaxDelay: latency
\* costs at most its own length of the window, and without latency the limit
\* is exact ("accurate windowing without the boundary bursts", DESIGN.md:117).
EffectiveWindow ==
    \A t \in Tenants, now \in 0..clock :
        Cardinality(PassedDuring(t, now - (Window - MaxDelay), now)) <= Limit

\* The wait that a denial reports falls short of the room by less than a second,
\* what the header's whole seconds cut off: a request stamped that much later, and
\* the rest of a second, is not denied again unless another request of the tenant
\* was admitted in between.
RetryIsNearlyEnough ==
    [][\A r \in Requests :
        /\ pc[r] # "denied" /\ pc'[r] = "denied"
        /\ promise[tenant[r]] # None
        => stamp[r] < promise[tenant[r]] + Second - 1]_limiterVars
=============================================================================
