------------------------------- MODULE Startup -------------------------------
(***************************************************************************)
(* From the start of the process to the first request (cmd/server/main.go, *)
(* run): the configuration is loaded and validated (module Config), the    *)
(* demo playground is provisioned where it is asked for                    *)
(* (internal/seed/seed.go), Redis is reached, and the constructors are     *)
(* called: the dispatcher, the pipeline, the demo policy, the janitor.     *)
(* Servers share one database, start at any time, each time with one of    *)
(* the environments an operator may give them, and crash or lose a         *)
(* database call between any two steps.                                     *)
(*                                                                         *)
(* Only the rows named "Demo Tenant" and the row of the demo key matter.   *)
(***************************************************************************)
EXTENDS Config, Sequences, FiniteSets

CONSTANTS
    Servers,
    TenantIds,   \* ids gen_random_uuid may hand out; also bounds the starts
    Envs,        \* the environments a server may be started with
    None

ASSUME NoneAssumption == None \notin TenantIds

VARIABLES
    born,     \* ids of INSERTs into tenants, in the order of created_at
    tenants,  \* ids of the rows that were committed
    key,      \* tenant_id of the demo key's row, None if there is no row
    pc,       \* where each server stands in run
    cfg,      \* what config.Load returned to each server
    found,    \* the tenant each server holds in memory (demoTenant)
    policy,   \* demoTenantID of each server's link service
    janitor,  \* the tenant each server's janitor sweeps
    failed,   \* history: servers whose Demo returned an error
    raced     \* history: two servers seeded together before there was a key

vars == <<born, tenants, key, pc, cfg, found, policy, janitor, failed, raced>>

\* Includes the primary key of tenants and the foreign key of api_keys.
TypeOK ==
    /\ born \in Seq(TenantIds)
    /\ \A m, n \in DOMAIN born : born[m] = born[n] => m = n
    /\ tenants \subseteq {born[n] : n \in DOMAIN born}
    /\ key \in tenants \cup {None}
    /\ pc \in [Servers -> {"down", "find", "create", "insert_tenant",
                           "get_key", "insert_key", "wire", "serving"}]
    /\ cfg \in [Servers -> {Resolved(env) : env \in Envs} \cup {None}]
    /\ found \in [Servers -> TenantIds \cup {None}]
    /\ policy \in [Servers -> TenantIds \cup {None}]
    /\ janitor \in [Servers -> TenantIds \cup {None}]
    /\ failed \subseteq Servers /\ raced \in BOOLEAN

Init ==
    /\ born = <<>> /\ tenants = {} /\ key = None /\ failed = {} /\ raced = FALSE
    /\ pc = [s \in Servers |-> "down"]
    /\ cfg = [s \in Servers |-> None] /\ found = cfg /\ policy = cfg /\ janitor = cfg

-----------------------------------------------------------------------------
(* config.Load.                                                             *)

Seeding(s) == pc[s] \notin {"down", "wire", "serving"}

\* Always in dev, in prod by SEED_DEMO_TENANT.
WantsDemo(c) == IsDev(c) \/ c.Seed

\* The process starts; without a valid configuration it is gone at once.
Load(s, env) ==
    LET c == Resolved(env) IN
    /\ pc[s] = "down" /\ Validate(c)
    /\ cfg' = [cfg EXCEPT ![s] = c]
    /\ pc' = [pc EXCEPT ![s] = IF WantsDemo(c) THEN "find" ELSE "wire"]
    /\ failed' = failed \ {s}
    /\ raced' = (raced \/ (WantsDemo(c) /\ key = None /\ \E o \in Servers : Seeding(o)))
    /\ UNCHANGED <<born, tenants, key, found, policy, janitor>>

-----------------------------------------------------------------------------
(* seed.Demo.                                                               *)

\* WHERE name = 'Demo Tenant' ORDER BY created_at LIMIT 1.
FirstTenant ==
    LET live == {n \in DOMAIN born : born[n] \in tenants}
    IN  born[CHOOSE n \in live : \A m \in live : n <= m]

\* The mistake of creating the tenant without looking for it.
FindByNameBlind(s) ==
    /\ pc[s] = "find"
    /\ pc' = [pc EXCEPT ![s] = "create"]
    /\ UNCHANGED <<born, tenants, key, cfg, found, policy, janitor, failed, raced>>
FindByName(s) ==
    /\ pc[s] = "find"
    /\ IF tenants = {}
       THEN pc' = [pc EXCEPT ![s] = "create"] /\ UNCHANGED found
       ELSE /\ pc' = [pc EXCEPT ![s] = "get_key"]
            /\ found' = [found EXCEPT ![s] = FirstTenant]
    /\ UNCHANGED <<born, tenants, key, cfg, policy, janitor, failed, raced>>

\* INSERT INTO tenants begins, which fixes the row's id and created_at ...
CreateTenant(s, t) ==
    /\ pc[s] = "create"
    /\ \A n \in DOMAIN born : born[n] # t
    /\ born' = Append(born, t)
    /\ found' = [found EXCEPT ![s] = t]
    /\ pc' = [pc EXCEPT ![s] = "insert_tenant"]
    /\ UNCHANGED <<tenants, key, cfg, policy, janitor, failed, raced>>

\* ... and commits: nothing makes the name unique.
TenantCommitted(s) ==
    /\ pc[s] = "insert_tenant"
    /\ tenants' = tenants \cup {found[s]}
    /\ pc' = [pc EXCEPT ![s] = "get_key"]
    /\ UNCHANGED <<born, key, cfg, found, policy, janitor, failed, raced>>

\* Demo returns the tenant, or nil and an error, which is only logged: run goes
\* on either way.
Return(s, t) ==
    /\ pc' = [pc EXCEPT ![s] = "wire"]
    /\ found' = [found EXCEPT ![s] = t]
    /\ failed' = IF t = None THEN failed \cup {s} ELSE failed

\* The key is there, whoever owns it, or has to be created.
GetByHash(s) ==
    /\ pc[s] = "get_key"
    /\ IF key # None
       THEN Return(s, found[s])
       ELSE pc' = [pc EXCEPT ![s] = "insert_key"] /\ UNCHANGED <<found, failed>>
    /\ UNCHANGED <<born, tenants, key, cfg, policy, janitor, raced>>

\* INSERT INTO api_keys: the unique index on key_hash refuses a second row,
\* and Demo returns the error.
CreateKey(s) ==
    /\ pc[s] = "insert_key"
    /\ IF key = None
       THEN key' = found[s] /\ Return(s, found[s])
       ELSE UNCHANGED key /\ Return(s, None)
    /\ UNCHANGED <<born, tenants, cfg, policy, janitor, raced>>

\* A database call of s ends without an answer.  An INSERT that was under way
\* may have been committed all the same.
Unanswered(s) ==
    /\ \/ pc[s] = "insert_tenant" /\ tenants' = tenants \cup {found[s]} /\ UNCHANGED key
       \/ pc[s] = "insert_key" /\ key = None /\ key' = found[s] /\ UNCHANGED tenants
       \/ UNCHANGED <<tenants, key>>
    /\ UNCHANGED <<born, raced>>

\* The mistake of carrying on with the tenant after a failed INSERT.
SeedFailsGoesOn(s) ==
    /\ Seeding(s) /\ Unanswered(s) /\ UNCHANGED <<cfg, policy, janitor>>
    /\ IF pc[s] = "insert_tenant"
       THEN pc' = [pc EXCEPT ![s] = "get_key"] /\ UNCHANGED <<found, failed>>
       ELSE Return(s, None)
\* Demo returns the error of a failed call.
SeedFails(s) ==
    /\ Seeding(s) /\ Unanswered(s) /\ Return(s, None)
    /\ UNCHANGED <<cfg, policy, janitor>>

-----------------------------------------------------------------------------
(* The rest of run.                                                         *)

\* The end of the process takes everything it holds in memory along.
Dies(s) ==
    /\ pc' = [pc EXCEPT ![s] = "down"]
    /\ cfg' = [cfg EXCEPT ![s] = None]
    /\ found' = [found EXCEPT ![s] = None]
    /\ policy' = [policy EXCEPT ![s] = None]
    /\ janitor' = [janitor EXCEPT ![s] = None]
    /\ UNCHANGED failed

\* The constructors, down to the listening server: the TTL cap and the janitor
\* need a tenant, the cap a limit as well.
Wire(s) ==
    /\ pc[s] = "wire" /\ ~MakeChanPanics(cfg[s].QueueSize)
    /\ pc' = [pc EXCEPT ![s] = "serving"]
    /\ policy' = [policy EXCEPT ![s] = IF cfg[s].MaxLinkTTL > 0 THEN found[s] ELSE None]
    /\ janitor' = [janitor EXCEPT ![s] = found[s]]
    /\ UNCHANGED <<born, tenants, key, cfg, found, failed, raced>>

\* NewDispatcher panics, or, at any time later, a goroutine does: a pipeline
\* worker that starts its ticker, a sender that draws the jitter of a retry.
Panics(s) ==
    /\ \/ pc[s] = "wire" /\ MakeChanPanics(cfg[s].QueueSize)
       \/ pc[s] = "serving" /\ NewTickerPanics(cfg[s].FlushInterval)
       \/ pc[s] = "serving" /\ JitterPanics(cfg[s])
    /\ Dies(s)
    /\ UNCHANGED <<born, tenants, key, raced>>

\* The process ends, while starting (a store that cannot be reached makes run
\* return) or while serving; it may start again.
Stop(s) == pc[s] # "down" /\ Unanswered(s) /\ Dies(s)

Next ==
    \E s \in Servers :
        \/ \E env \in Envs : Load(s, env)
        \/ FindByName(s) \/ TenantCommitted(s) \/ GetByHash(s)
        \/ CreateKey(s) \/ SeedFails(s)
        \/ \E t \in TenantIds : CreateTenant(s, t)
        \/ Wire(s) \/ Panics(s) \/ Stop(s)

Spec == Init /\ [][Next]_vars

-----------------------------------------------------------------------------
(* Properties.                                                              *)

Serving(s) == pc[s] = "serving"

\* Demo is idempotent: "repeated runs converge on the same tenant and key"
\* (seed.go:42-43).  Unless two servers made their first start together, the
\* TTL cap and the janitor of a server guard no tenant but the one the demo key
\* belongs to, whatever crashes, restarts and half-answered INSERTs came
\* before.  And a server that takes requests while the demo key works has both
\* of them, unless it was told not to (it does not seed, or DEMO_MAX_LINK_TTL is
\* 0 for the cap) or its seed failed, which run only logs.
PolicyGuardsKey ==
    ~raced => \A s \in Servers :
        /\ policy[s] \in {key, None} /\ janitor[s] \in {key, None}
        /\ Serving(s) /\ key # None /\ WantsDemo(cfg[s]) /\ s \notin failed =>
              janitor[s] = key /\ (policy[s] = key \/ cfg[s].MaxLinkTTL = 0)

\* There is a demo tenant and nobody is about to insert another.
Settled ==
    tenants # {} /\ \A s \in Servers : pc[s] \notin {"create", "insert_tenant"}

\* Demo converges even when first starts race and leave several demo tenants
\* behind ("repeated runs converge on the same tenant and key", seed.go:42-43):
\* once a tenant is there and the creations under way have ended, no start ever
\* creates another, and each one finds the same row, whoever crashes in between;
\* and the demo key never moves.
SeedSettles ==
    [][Settled => Settled' /\ FirstTenant' = FirstTenant /\ key \in {key', None}]_vars

\* The retries of a server back off: the delay before retry n is base * 2^n,
\* cut to the cap ("exponential growth capped at maxBackoff",
\* dispatcher.go:268), although baseBackoff << attempt wraps around for large
\* attempts.  This needs a base whose odd part times the cap fits the Duration;
\* otherwise a shift can wrap to a small positive delay.
BackoffSane ==
    \A s \in Servers : Serving(s) =>
        LET c == cfg[s]
            grown(n) == c.BaseBackoff * Pow2[n]
        IN  BackoffFits(c) =>
              \A n \in 0..c.MaxRetries - 1 :
                  CappedDelay(c, n) = IF grown(n) < c.MaxBackoff THEN grown(n) ELSE c.MaxBackoff
=============================================================================
