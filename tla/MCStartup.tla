----------------------------- MODULE MCStartup -----------------------------
(* A small instance of Startup for TLC.                                     *)
EXTENDS Startup, TLC

Symmetry == Permutations(Servers) \cup Permutations(TenantIds)

Prod == "APP_ENV" :> "prod" @@ "IP_HASH_SALT" :> "secret"
Playground == Prod @@ "SEED_DEMO_TENANT" :> TRUE @@ "DEMO_MAX_LINK_TTL" :> 60 * Second

\* Seeding and regular servers, values at and beyond each limit, the shortest
\* window, a duration out of range, text that does not parse, and retries long
\* enough for the shift to wrap.
MCEnvs ==
    {"APP_ENV" :> "dev", Prod,
     "APP_ENV" :> "prod", "APP_ENV" :> "staging", "LOG_LEVEL" :> "loud",
     Prod @@ "SEED_DEMO_TENANT" :> TRUE @@ "WEBHOOK_QUEUE_SIZE" :> -1,
     "SERVER_PORT" :> 0, "DATABASE_MAX_CONNS" :> 0,
     "DATABASE_MAX_CONNS" :> Int32Max + 1 @@ "ANALYTICS_WORKERS" :> Bad,
     "ANALYTICS_BUFFER_SIZE" :> 0, "ANALYTICS_WORKERS" :> 0, "ANALYTICS_BATCH_SIZE" :> 0,
     Prod @@ "ANALYTICS_FLUSH_INTERVAL" :> 0,
     "RATE_LIMIT_REQUESTS" :> 0, "RATE_LIMIT_WINDOW" :> 0,
     Prod @@ "RATE_LIMIT_WINDOW" :> 1 @@ "DEMO_MAX_LINK_TTL" :> Pow2[Width - 1],
     "SHORTCODE_LENGTH" :> 3, "DEMO_CLEANUP_INTERVAL" :> 0, "DEMO_RETENTION" :> -1,
     "DEMO_MAX_LINK_TTL" :> -1, "WEBHOOK_MAX_RETRIES" :> -1,
     Prod @@ "WEBHOOK_MAX_BACKOFF" :> -Second,
     Playground @@ "WEBHOOK_MAX_RETRIES" :> Width @@ "WEBHOOK_BASE_BACKOFF" :> 10}
=============================================================================
