------------------------------- MODULE Config -------------------------------
(***************************************************************************)
(* internal/config/config.go: what Load makes of the environment, what     *)
(* validate lets through, which settings make a component panic, and what  *)
(* Dispatcher.backoff computes.  Constant-level: no state.                  *)
(*                                                                         *)
(* An environment maps the variables that are set and not empty to their   *)
(* values: a number (nanoseconds for a duration), a Boolean, a word, or    *)
(* Bad, text that does not parse.  Settings that only reach a library      *)
(* (hosts, timeouts, credentials) are left out.                             *)
(***************************************************************************)
EXTENDS Integers

CONSTANTS
    Bad,
    Int32Max,   \* the largest int32
    Width,      \* bits of a time.Duration
    Second      \* time.Second, in the nanoseconds of a Duration

ASSUME WidthAssumption == Int32Max \in Nat \ {0} /\ Width \in Nat \ {0, 1}
ASSUME SecondAssumption == Second \in Nat \ {0}

Pow2[k \in Nat] == IF k = 0 THEN 1 ELSE 2 * Pow2[k - 1]

\* The values of a time.Duration.
Durations == -Pow2[Width - 1] .. Pow2[Width - 1] - 1

\* The longest default is a Duration.
ASSUME DurationAssumption == 86400 * Second \in Durations

-----------------------------------------------------------------------------
(* getEnv and its kin: a value that does not parse is replaced by the       *)
(* default, silently.                                                       *)

getEnv(env, key, def) == IF key \in DOMAIN env THEN env[key] ELSE def
getEnvInt(env, key, def) ==
    IF key \in DOMAIN env /\ env[key] \in Int THEN env[key] ELSE def
\* ParseInt(v, 10, 32) fails out of range, so the default is taken.
getEnvInt32(env, key, def) ==
    IF key \in DOMAIN env /\ env[key] \in -Int32Max - 1 .. Int32Max THEN env[key] ELSE def
getEnvBool(env, key, def) ==
    IF key \in DOMAIN env /\ env[key] \in BOOLEAN THEN env[key] ELSE def
\* ParseDuration fails out of range as well.
getEnvDuration(env, key, def) ==
    IF key \in DOMAIN env /\ env[key] \in Durations THEN env[key] ELSE def

DevSalt == "dev-insecure-ip-salt-change-me"

\* The Config that Load fills in before it validates it.
Resolved(env) ==
    [Env             |-> getEnv(env, "APP_ENV", "dev"),
     LogLevel        |-> getEnv(env, "LOG_LEVEL", "info"),
     IPHashSalt      |-> getEnv(env, "IP_HASH_SALT", DevSalt),
     Port            |-> getEnvInt(env, "SERVER_PORT", 8080),
     MaxConns        |-> getEnvInt32(env, "DATABASE_MAX_CONNS", 20),
     BufferSize      |-> getEnvInt(env, "ANALYTICS_BUFFER_SIZE", 10000),
     Workers         |-> getEnvInt(env, "ANALYTICS_WORKERS", 4),
     BatchSize       |-> getEnvInt(env, "ANALYTICS_BATCH_SIZE", 200),
     FlushInterval   |-> getEnvDuration(env, "ANALYTICS_FLUSH_INTERVAL", 2 * Second),
     Requests        |-> getEnvInt(env, "RATE_LIMIT_REQUESTS", 100),
     Window          |-> getEnvDuration(env, "RATE_LIMIT_WINDOW", 60 * Second),
     Enabled         |-> getEnvBool(env, "RATE_LIMIT_ENABLED", TRUE),
     QueueSize       |-> getEnvInt(env, "WEBHOOK_QUEUE_SIZE", 1000),
     MaxRetries      |-> getEnvInt(env, "WEBHOOK_MAX_RETRIES", 5),
     BaseBackoff     |-> getEnvDuration(env, "WEBHOOK_BASE_BACKOFF", Second),
     MaxBackoff      |-> getEnvDuration(env, "WEBHOOK_MAX_BACKOFF", 300 * Second),
     Length          |-> getEnvInt(env, "SHORTCODE_LENGTH", 7),
     Seed            |-> getEnvBool(env, "SEED_DEMO_TENANT", FALSE),
     MaxLinkTTL      |-> getEnvDuration(env, "DEMO_MAX_LINK_TTL", 0),
     CleanupInterval |-> getEnvDuration(env, "DEMO_CLEANUP_INTERVAL", 3600 * Second),
     Retention       |-> getEnvDuration(env, "DEMO_RETENTION", 86400 * Second)]

IsDev(cfg) == cfg.Env = "dev"

\* validate finds no problem.
Validate(cfg) ==
    /\ cfg.Env \in {"dev", "prod"}
    /\ cfg.LogLevel \in {"debug", "info", "warn", "error"}
    /\ 1 <= cfg.Port /\ cfg.Port <= 65535 /\ cfg.MaxConns >= 1
    /\ cfg.BufferSize >= 1 /\ cfg.Workers >= 1 /\ cfg.BatchSize >= 1
    /\ cfg.Requests >= 1 /\ cfg.Window > 0 /\ cfg.MaxRetries >= 0
    /\ cfg.Length \in 4..16
    /\ cfg.Env = "prod" => cfg.IPHashSalt # DevSalt
    /\ cfg.MaxLinkTTL >= 0 /\ cfg.CleanupInterval > 0 /\ cfg.Retention >= 0

-----------------------------------------------------------------------------
(* The constructors.                                                        *)

\* make(chan T, n) and time.NewTicker(d) panic for these arguments.
MakeChanPanics(n) == n < 0
NewTickerPanics(d) == d <= 0

\* n << k in a signed integer of Width bits.
Shl(n, k) ==
    LET bits == (n * Pow2[k]) % Pow2[Width]
    IN  IF bits >= Pow2[Width - 1] THEN bits - Pow2[Width] ELSE bits

\* The mistake of not looking for a wrapped sign.
CappedDelayUnchecked(cfg, attempt) ==
    LET delay == Shl(cfg.BaseBackoff, attempt)
    IN  IF delay > cfg.MaxBackoff THEN cfg.MaxBackoff ELSE delay
\* Dispatcher.backoff before the jitter, which takes off at most a half.
CappedDelay(cfg, attempt) ==
    LET delay == Shl(cfg.BaseBackoff, attempt)
    IN  IF delay <= 0 \/ delay > cfg.MaxBackoff THEN cfg.MaxBackoff ELSE delay
\* rand.Int64N wants a positive argument: a negative cap is what every delay
\* is cut down to.
JitterPanics(cfg) == cfg.MaxRetries > 0 /\ cfg.MaxBackoff < -1

\* Base and cap for which no shift of the base wraps to a delay below the cap:
\* a wrapped value is a multiple of the base's power of two.
BackoffFits(cfg) ==
    /\ cfg.BaseBackoff > 0 /\ cfg.MaxBackoff > 0
    /\ \E k \in 0..Width : /\ cfg.BaseBackoff % Pow2[k] = 0
                           /\ (cfg.BaseBackoff \div Pow2[k]) * cfg.MaxBackoff < Pow2[Width - 1]
=============================================================================
