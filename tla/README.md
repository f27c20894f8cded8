# A TLA+ model of go-link-shortener

The repository is a multi-tenant URL shortener: a Go server over PostgreSQL and
Redis that resolves `GET /:code`, manages links over a JSON API, counts clicks in
the background and sends webhooks. Its hard parts are not in any one function.
They are in what several requests, workers, servers and stores do to each other:
a cache in front of a table, bounded queues drained by worker pools, retries,
dead-lettering, start-up and shutdown. This directory models those parts, checks
them with TLC on small instances and proves the central results with TLAPS for
instances of any size. `PROJECT.json` maps every definition to the lines it
models, and lists runs, mutants, findings and hazards.

## Inventory

| Component | Source | State | Operations | Talks to |
|---|---|---|---|---|
| link management | `internal/service/link.go`, `handler/link.go`, `repository/link.go` | `links` table | Create, Update, Delete (Get, List read) | cache (invalidate), dispatcher (link.created) |
| redirect | `internal/service/redirect.go`, `handler/redirect.go` | none of its own | Resolve, backfill, record a click | cache, table, pipeline |
| redirect cache | `internal/repository/link_cache.go` | one Redis key per code: snapshot, negative marker or nothing | Get, Set, SetNegative, Invalidate, TTL | Redis |
| click storage | `internal/repository/click.go` | `clicks` table, `links.click_count` | RecordBatch in one transaction; aggregates read | table, row locks |
| link janitor | `internal/service/janitor.go` | none | sweep: cutoff, DELETE | table |
| analytics pipeline | `internal/analytics/pipeline.go` | channel, per-worker batch, quit, drop counter | Enqueue, worker loop, flush, Shutdown | click storage, cache (evict exhausted), notifier |
| webhook dispatcher | `internal/webhook/dispatcher.go`, `notifier.go`, `repository/webhook.go` | events and jobs channels, timers, quit, `webhooks` table | Dispatch, resolve, deliver, retry, dead-letter, Shutdown | receivers over HTTP |
| webhook management | `service/webhook.go`, `handler/webhook.go` | `webhooks` table | Create, Delete (List reads) | dispatcher, through the table |
| rate limiter | `internal/repository/ratelimit.go`, `middleware/ratelimit.go` | one sorted set per tenant | Allow, fail open | Redis |
| demo seed | `internal/seed/seed.go`, `repository/tenant.go`, `repository/apikey.go` | `tenants`, `api_keys` | Demo | table, link service (policy), janitor |
| server lifecycle | `cmd/server/main.go` | stage of `run`, shutdown deadline | start, serve, signal, three shutdowns, close the pool | everything |
| authentication | `service/auth.go`, `middleware/auth.go`, `repository/apikey.go` | `api_keys.revoked_at`, `last_used_at` | Authenticate | table, rate limiter (the tenant) |
| statistics | `service/stats.go`, `handler/stats.go`, `repository/click.go` | none | two endpoints, several queries each | clicks and links tables |
| configuration | `internal/config/config.go` | none after start | Load, validate | the constructors of everything |
| enrichment, signing, short codes, HTTP plumbing, schema | see `PROJECT.json` | none that changes while serving | pure or read-only | - |
| web console, scripts | `web/`, `scripts/` | browser state; none | fetch and render; deploy, backup | the API |

Where the difficulty lies, and what correctness means there:

* **Cache against table.** A redirect reads the row and writes it to Redis in two
  round trips, management calls commit and delete the key in two round trips, and
  either can fail in the middle. Correct means: a stale entry is either about to
  be evicted or has a cause that can be named, and it goes away in the end.
* **The table under concurrency.** Creates race for a code, updates write back
  rows they read earlier, the janitor deletes by a cutoff it computed earlier.
  Correct means: one live link per code, deletion is final, tenants do not touch
  each other's links, demo links never become permanent, only dead links are
  purged.
* **The click store under concurrency.** A batch is several statements in one
  transaction, its row locks meet those of other batches and of the janitor's
  DELETE, and an answer to a statistics request is several queries outside any
  transaction. Correct means: rows and counters change together, batches take
  effect whole or not at all, and an answer does not contradict itself.
* **Queues and workers.** Handlers, workers and Shutdown share channels. Correct
  means: an accepted click is in exactly one place, a drained shutdown leaves
  nothing of what was accepted before, nobody blocks for ever.
* **Retries and dead-lettering.** Correct means: a delivery has one outcome and a
  bounded number of attempts, goes to nobody but the tenant's own subscribers,
  and the table agrees with itself about who is disabled.
* **Clocks and latency.** The limiter's script runs with a stamp from another
  machine and another moment. Correct means: the limit holds over a window
  shortened by no more than the latency, tenant by tenant, and only good keys
  are served or charged.
* **Start-up and shutdown.** Servers take whatever the environment says, seed one
  database and crash in between; one deadline covers three shutdowns, and none the
  closing of the pool after them. Correct means: starts converge on one tenant, the
  demo key is guarded, retries back off, order protects clicks and webhooks, and the
  process ends.

## Modules

| Module | Models | Composes / extends |
|---|---|---|
| `Link` | the link entity, validation, the demo cap, the meaning of a PATCH body | - (constant level) |
| `LinkService` | table, cache, redirects, Create/Update/Delete, click batches, evictions, janitor | `Link` |
| `Handoff` | abstract: what a queue with workers and a shutdown promises | - |
| `Pipeline` | Enqueue, the workers, flush, Shutdown | implements `Handoff` |
| `Dispatcher` | webhook registration, Dispatch, resolver, senders, timers, dead-lettering, Shutdown | implements `Handoff` |
| `ClickLedger` | abstract: batches and purges as single steps | - |
| `ClickStore` | RecordBatch, janitor DELETE and statistics, statement by statement, with row locks | implements `ClickLedger` |
| `Server` | requests, main goroutine with its three shutdowns and `pool.Close`, who holds a connection | `Pipeline`; the dispatcher from outside |
| `RateLimiter` | the tenants' sliding windows | - |
| `Api` | bearer token, key lookup and revocation, then the limiter | `RateLimiter` |
| `Config` | environment, defaults, validation, backoff arithmetic | - (constant level) |
| `Startup` | start-up of several servers over one database | `Config` |
| `LinkServiceProofs`, `LinkCoherenceProofs` | theorems about `LinkService` | `LinkService` |
| `PipelineProofs`, `ServerProofs` | theorems about `Pipeline` and, on top of them, `Server` | `Pipeline`, `Server` |
| `DispatcherProofs`, `ClickStoreProofs`, `ApiProofs`, `StartupProofs` | theorems about the module they are named after (`ApiProofs` also about `RateLimiter`) | that module |
| `MC*` | instances for TLC | the module after `MC` |

Operators named after a mistake (`OwnsDeleted`, `SendBlocking`, `BlockersForUpdate`, ...)
stand directly before the definition they get wrong. They are used by nothing in
the model: each is a plausible bug that, put in the place of the definition,
makes TLC report the property it is paired with in `PROJECT.json`.

### Link and LinkService

A row is a record: id, tenant, code, target, expiry, click limit, click count,
creation and deletion time. Target URL and redirect type are one value, because
nothing distinguishes them. Validation of URL, redirect type, alias shape and
`max_clicks` is the input's `valid` flag; the expiry check stays, as it depends on
the clock. `Keep` is a PATCH field that is absent, `None` one that is null.

Every PostgreSQL statement and every Redis command is one step; what a Go function
holds between two of them is in `rlink` (redirects) and `held` (management calls).
`CommitUpdate` writes all mutable columns of the held link over the row, as the
UPDATE does. A click of a served redirect goes to `input`; `RecordBatch` is the
transaction of the worker's flush, with the foreign key of `clicks.link_id` as a
guard, and leaves the exhausted codes in `evict`, to be invalidated one by one.
The analytics channel and the worker's batch are one queue here; their own
behaviour is module `Pipeline`.

`excuse` is a history variable. It says for each code why its cache entry may
disagree with the table: `late`, the entry was already wrong when it was written;
`lost`, a DEL that had to come did not; `created`, a link was inserted under an
entry of the code's earlier life. It is cleared whenever the key is deleted or
written afresh, so it never covers more than the entry it is about.

Two simplifications. The read at the start of Update or Delete and the decision
taken on it are one step with the call's start, and a failure of that read is a
call that never happened. A statement that fails has not committed: a commit whose
answer is lost leaves the store as a commit followed by a lost DEL does, which is
modelled, and differs from it only in the answer to the client. (`Startup` has
unanswered commits of its own.)

### Pipeline

One step per channel operation and per RecordBatch. A worker is at its select, in
a flush, at the hook after a commit, draining, or gone. `early` remembers the
clicks that had been accepted when quit was closed. Enrichment is a pure function
of a click and left out; eviction of exhausted links is in `LinkService`.

### Handoff

An abstract specification, four variables wide: an item is taken or refused once,
what is taken is settled once, and a shutdown that reports success has settled
everything taken before it. `Pipeline` implements it with its clicks as items,
safety and progress. `Dispatcher` implements its safety with the attempts of
deliveries as items: an attempt is taken when its job is queued and settled by its
POST. Its progress is `EventuallySettled`, which also covers retries that wait in a
timer. `Handoff` lets an item be taken after the shutdown has reported, because
both `Enqueue` and `enqueueJob` look at quit before they send; that gap is closed
only by the order of `run` (`Server`).

### ClickStore and ClickLedger

`ClickStore` opens up what the other modules take as single steps. A RecordBatch is
a COPY whose foreign-key checks hold each link FOR KEY SHARE, then one counter
UPDATE per link in the random order of a Go map, then the commit; a DELETE of the
janitor takes its rows FOR UPDATE in any order. A transaction waits at a held row;
PostgreSQL aborts a transaction in a smallest cycle of waits. What a transaction
has written is not visible before its commit, so only locks and the click set are
kept until then. Statistics are read as sets of click rows, one query per step, of
which the answer's figures are the sizes. `IsLedger` shows that whoever reads the
tables sees `ClickLedger`: batches entered whole, rows and counters together, and
links purged with their clicks. That is what licenses the single steps
`RecordBatch` and `PurgeExpired` of `LinkService` and the flush of `Pipeline`.

### Dispatcher

Events, jobs, retry timers and the goroutines they fire are explicit. A sender's
state is a pair: in which loop it is (select or drain) and where it is in
`deliver`. Receiving an event and looking up its subscribers are one step: the
lookup is the only thing the resolver does between the two, and the table changes
it could miss may as well have come before or after both. Tenants register webhooks
(`Create`, with `validateEvents` and `dedupeEvents`) and delete them at any time; a
row that is gone keeps its columns so that `OnlyToSubscribers` can still say whose
it was. Jitter and backoff
decide when a timer fires, so a timer fires at any time.

### Server

Extends `Pipeline` and lets its steps happen only while the process lives, new
requests only while HTTP is served, and `Shutdown` only where `run` calls it. The
dispatcher is reduced to whether it still looks at events. `run` returns into its
deferred calls (stage `closing`): `pool.Close` waits, with no deadline, until every
connection is back (`held`), refuses new ones meanwhile, and only then the process and
its goroutines end. Three kinds of goroutines hold connections: workers in a flush,
which has a timeout; `Loops`, whose calls have one too or, as the janitor's, the
signal's context; and `Queries`, requests, whose context has no deadline. `rdb.Close`,
which runs before it, does not wait for anybody.

### RateLimiter and Api

A request reads the clock in one step, the script runs in another, at most
`MaxDelay` later; a caller that gives up fails open while its script may still run,
at any later time. Each tenant has a bucket; entries are unique per request. Times
are milliseconds: `RetryAfter` is what the script computes, `RetrySeconds` what the
header makes of it, whole seconds and at least one, with `Second` the milliseconds of a
second. `Window` is `window.Milliseconds()`: 0 for a setting below a millisecond, which
`validate` lets through, and then PEXPIRE deletes the log at once. `Api` puts the
authentication in front, as `newRouter` does: a token is a key or nothing, the
lookup succeeds or is a 401, and an operator may revoke a key between any two steps.
`last_used_at`, written by a goroutine and read by no code, is left out.

### Config and Startup

`Config` gives every setting a component's behaviour depends on: its default, what
becomes of text that does not parse or is out of range, the checks of `validate`, and
which values make a constructor or a goroutine panic. Durations are nanoseconds in
`Width` bits, with `Second` of them to a second, so the defaults of `Load` and single
nanoseconds (the threshold of `JitterPanics`, a window of one) are on one scale and
`baseBackoff << attempt` wraps as in Go. `Startup` runs several servers through
`run` up to the listening socket: Load, seed.Demo, the constructors. Tenants carry
their `created_at` order (`born`), which is fixed when the INSERT begins, while the
row appears when it commits. `Unanswered` is a statement without a reply, committed
or not; whether it commits is decided when its caller gives up, not later. Equal
timestamps of two INSERTs are not modelled.

## Runs

| Run | Instance | Shows |
|---|---|---|
| `link_table` | 2 tenants (one the demo tenant), 2 rows, 1 code, 3 calls, 1 redirect, clock 0..2, database errors | `TypeOK` (with the retry budget), `UniqueLiveCode`, `DemoExpiryCapped`, `DeleteIsFinal`, `TenantIsolation`, `PurgedWereDead` |
| `link_converge` | 1 row, 2 redirects, 2 calls, 1 worker, all faults, fairness | `StaleIsExplained`, `CountsNeverFall`, `EventuallyCoherent` |
| `pipeline` | 3 clicks, 2 workers, channel of 1, batches of 2, fairness | `TypeOK`, `Accounting`, `DrainKeepsPromise`, `HookFollowsCommit`, `IsHandoff`, `EventuallyFlushed`, `EnqueueReturns`, `WorkersExit` |
| `dispatcher` | 2 events, 2 tenants, 1 hook, 2 senders, queues of 1, 1 retry, fairness | `TypeOK` (with the number of attempts), `OnlyToSubscribers`, `OneOutcome`, `DeadLetterConsistent`, `IsHandoff`, `EventuallySettled`, `LoopsExit` |
| `server` | as `pipeline`, with the life of the process, a request and a loop that hold connections, fairness | `NothingLeftBehind`, `FinalWebhooksHeard`, `ShutdownEnds` |
| `api` | 4 requests, 2 tenants with a key each, limit 2, window 3, seconds of 2, delay 1, clock 0..3 | `TypeOK` (with the size of the logs), `EffectiveWindow`, `OnlyForItsTenant`, `RetryIsNearlyEnough` |
| `startup` | 3 servers, 3 tenant ids, 23 environments, durations of 20 bits, seconds of 4 | `TypeOK` (with the foreign key), `PolicyGuardsKey`, `SeedSettles`, `BackoffSane` |
| `click_store` | 2 links, 4 clicks, 2 workers, batches of 2, the janitor, 1 statistics reader | `TypeOK`, `UpdatesFindTheirLinks`, `DeadlockNeedsTwoLinks`, `FiguresGrow`, `IsLedger` |
| `link_stale` | violation | `StaleTargetNeverServed` |
| `link_batch` | violation | `PurgedClicksSkipped` |
| `dispatcher_drain` | violation | `QueuedEventsDelivered` |
| `dispatcher_deadletter` | violation | `DeadLetterIsFinal` |

The bounds are small because the interesting cases are. One code with two rows is
enough for a code to be freed and taken again under an old cache entry; three calls
are a create, a delete and a racing create, or two updates of one link. A channel
of one is full after one click, and a batch of two is left partial by the third. Two
senders are what lets a success and a failure of one webhook be recorded in either
order; one retry makes a job pass through a timer; one hook that either tenant may
register is enough for an event to meet the other tenant's row. Two workers with
batches of two over two links are the smallest instance in which counter UPDATEs
deadlock, and a janitor's DELETE of one of the links joins the cycle. A window of three with a delay of one
leaves room for a request to be trimmed by a later stamp than its own, and widening
the stretch of `EffectiveWindow` by one makes TLC find a counterexample in that very
instance, so the bound is tight. Seconds of two make the cut of Retry-After show: a wait
of three is reported as one second, and a client that comes back after two is denied
again. Twenty bits hold a day in seconds of four, the longest default, and with 20
retries of a base of 10 the shift wraps and comes out positive, zero and negative. Three servers and three
tenants let two first starts race and a third come later. One request and one loop
beside the workers are each enough to keep the pool from closing. Deadlock checking is off where an
instance comes to an end: calls, clicks, events and requests each happen once, and
processes exit. Symmetry is used only in runs without liveness.

### Fairness

* `LinkService`: handlers, workers and TTLs are weakly fair. A Redis call
  is bounded by the client's timeouts and a worker's flush by its own; a database call
  of a request ends when PostgreSQL answers or the client goes away, which is assumed
  here and not in `Server`, where a request may hang. Keys are always
  written with a TTL (`link_cache.go:78-95`). Nothing forces a request, a call, a sweep
  or a clock tick to happen.
* `Pipeline`, `Dispatcher`: the Go scheduler runs every runnable goroutine, flushes
  and POSTs have timeouts, tickers and timers fire. Nothing forces a click, an
  event or a shutdown.
* `Api`, `Startup`, `ClickStore`: none; their properties are about safety.
* `Server`: the main goroutine and the deadline are fair (`MainFairness`), and a
  database call made under a timeout ends (`Timeouts`: `flushTimeout` in
  `pipeline.go:178`, the dispatcher's and `auth.go`'s, the signal's context of the
  janitor). Nothing is assumed of requests, of handlers inside Enqueue, of the workers'
  other steps or of the dispatcher: they may hang, and `ShutdownEnds` says what becomes
  of the process then.

## Findings

* **A stale target can be served after its invalidation** (`link_stale`).
  `fromDB` reads, then sets; an Update between the two commits and deletes a key
  that is then written with the old target, until the TTL. README.md:294-295 and
  `service/link.go:39-40` say it is never served.
* **One click of a purged link loses a whole batch** (`link_batch`). The COPY
  violates the foreign key before the "link hard-deleted; skip" branch
  (`repository/click.go:73`) is reached.
* **Events queued at shutdown are discarded** (`dispatcher_drain`). The resolver
  drains them, but `enqueueJob` returns as soon as quit is closed. This is the
  normal shutdown: `FinalWebhooksHeard` shows that the last flush reaches the
  dispatcher, and this run that its events go no further when they are still in
  the channel by then.
* **A dead-lettered webhook can come back** (`dispatcher_deadletter`).
  `RecordFailure` computes `active` from the counter alone, and a late success has
  reset the counter.

Seen while modelling and not the subject of a run: concurrent PATCH calls lose one
another's fields, since Update writes back whole rows (`service/link.go:246`; the
click counter is not among them, `CountsNeverFall`);
`Enqueue` does not count a refusal during shutdown as a drop although its comment
says so (`pipeline.go:106-108`; `DropsCounted` is what it counts); a demo link that is patched again and again
outlives `DEMO_MAX_LINK_TTL` counted from its creation, since every PATCH clamps
from the current time; two servers that make their very first start at the same
moment leave two demo tenants, and later starts attach the policy to the older
one, whoever owns the key (`PolicyGuardsKey` excludes exactly this with `raced`);
an HTTP shutdown that runs into the deadline skips the other two
(`main.go:172-175`), and then `pool.Close` (`main.go:64`) waits for the query of the
very request that held it up, with no deadline: `http ~> exit` without the exception
that `ShutdownEnds` makes is violated in the `server` instance; a client that waits
exactly as long as Retry-After says can be denied again, the wait being cut to whole
seconds (`middleware/ratelimit.go:44`; `RetryIsNearlyEnough` is what is left); an event
whose lookup of subscribers fails is lost with a log line and not counted
(`dispatcher.go:150-152`); the "link hard-deleted; skip" branch of RecordBatch cannot be
reached, since the foreign key holds the rows until the commit
(`UpdatesFindTheirLinks`); TenantOverview groups by code, so a deleted link and its
successor under the same code are one line of it; PATCH with `redirect_type: null`
resets the type to 302; a database error during authentication is answered 401; a
server that does not seed, or whose seed failed, serves the demo key without cap and
janitor (`PolicyGuardsKey` names these as its exceptions).

`config.go:1-3` calls a loaded configuration correct by construction. These settings
pass `validate` and do not work: a negative `WEBHOOK_QUEUE_SIZE` (`make` panics at
start; 0 makes an unbuffered channel, outside `Dispatcher`), a `RATE_LIMIT_WINDOW`
below a millisecond (it becomes 0 at `repository/ratelimit.go:69`, the log is deleted as
it is written and every request admitted), `ANALYTICS_FLUSH_INTERVAL` of 0 or less
(the workers' ticker panics), a `WEBHOOK_MAX_BACKOFF` below -1ns (the jitter of the
first retry panics), `WEBHOOK_WORKERS` of 0 (nothing is ever sent, against the
senders `Dispatcher` assumes), a cache TTL of 0 (keys without expiry, against the
fairness of `CacheExpire`). The backoff can also wrap to a short positive delay for
bases and caps outside `BackoffFits`; with a base of whole milliseconds every wrapped
delay is days or longer and cut to a sane cap, so it takes a base given to the
nanosecond and more than 30 retries. The comment of `getEnvInt32` says it clamps; it falls back
to the default.

## Proofs

| Theorem | Module | States |
|---|---|---|
| `TypeCorrect` | `LinkServiceProofs` | `Spec => []TypeOK` |
| `UniqueCorrect` | `LinkCoherenceProofs` | `Spec => []UniqueLiveCode` |
| `DeleteFinal` | `LinkCoherenceProofs` | `Spec => DeleteIsFinal` |
| `PurgeSafe` | `LinkCoherenceProofs` | `Spec => PurgedWereDead` |
| `CoherenceCorrect` | `LinkCoherenceProofs` | `Spec => []StaleIsExplained` |
| `DemoCapCorrect` | `LinkCoherenceProofs` | `Spec => []DemoExpiryCapped` |
| `CountsCorrect` | `LinkCoherenceProofs` | `Spec => CountsNeverFall` |
| `IsolationCorrect` | `LinkCoherenceProofs` | `Spec => TenantIsolation` |
| `ExpiryConverges` | `LinkCoherenceProofs` | `Spec`, a fair TTL, a code whose answer rests and whose old reads are gone `=> <>[]Coherent(c)` |
| `TypeCorrect` | `PipelineProofs` | `Spec => []TypeOK` |
| `AccountingCorrect` | `PipelineProofs` | `Spec => []Accounting` |
| `DrainCorrect` | `PipelineProofs` | `Spec => []DrainKeepsPromise` |
| `HookCorrect` | `PipelineProofs` | `Spec => []HookFollowsCommit` |
| `HandoffSafe` | `PipelineProofs` | `Spec => Contract!Safety`, the safety of `Handoff` |
| `HandoffCorrect` | `PipelineProofs` | `Spec /\ EventuallyFlushed => IsHandoff` |
| `EnqueueReturnsCorrect` | `PipelineProofs` | `FairSpec => EnqueueReturns`, given what the guards enable |
| `DropsCountedCorrect` | `PipelineProofs` | `Spec => []DropsCounted` |
| `ServerRunsPipeline` | `ServerProofs` | `ServerSpec => Spec`, the pipeline's |
| `NothingLeftBehindCorrect` | `ServerProofs` | `ServerSpec => []NothingLeftBehind` |
| `FinalWebhooksCorrect` | `ServerProofs` | `ServerSpec => []FinalWebhooksHeard` |
| `HeldUpByPoolOnly` | `ServerProofs` | `ServerSpec /\ MainFairness` => a shutdown ends, or waits for ever for a held connection in `pool.Close`; given what the guards enable |
| `TypeCorrect` | `DispatcherProofs` | `Spec => []TypeOK` |
| `SubscribersCorrect` | `DispatcherProofs` | `Spec => []OnlyToSubscribers` |
| `OneOutcomeCorrect` | `DispatcherProofs` | `Spec => []OneOutcome` |
| `DeadLetterCorrect` | `DispatcherProofs` | `Spec => []DeadLetterConsistent` |
| `HandoffCorrect` | `DispatcherProofs` | `Spec => IsHandoff`, given a sender |
| `LossesCountedCorrect` | `DispatcherProofs` | `Spec => []LossesCounted` |
| `DrainLooksUpCorrect` | `DispatcherProofs` | `Spec => []DrainLooksUp` |
| `TypeCorrect` | `ApiProofs` | `Spec => []TypeOK` |
| `OnlyForItsTenantCorrect` | `ApiProofs` | `Spec => []OnlyForItsTenant` |
| `EffectiveWindowCorrect` | `ApiProofs` | `Spec => []EffectiveWindow` |
| `RetryIsNearlyEnoughCorrect` | `ApiProofs` | `Spec => RetryIsNearlyEnough` |
| `TypeCorrect` | `StartupProofs` | `Spec => []TypeOK` |
| `PolicyGuardsKeyCorrect` | `StartupProofs` | `Spec => []PolicyGuardsKey` |
| `SeedSettlesCorrect` | `StartupProofs` | `Spec => SeedSettles` |
| `BackoffCorrect` | `StartupProofs` | `Spec => []BackoffSane` |
| `TypeCorrect` | `ClickStoreProofs` | `Spec => []TypeOK` |
| `UpdatesFindTheirLinksCorrect` | `ClickStoreProofs` | `Spec => []UpdatesFindTheirLinks` |
| `LedgerCorrect` | `ClickStoreProofs` | `Spec => IsLedger` |
| `CountersCorrect` | `ClickStoreProofs` | `Spec => []CountersMatchRows` |
| `DeadlockNeedsTwoLinksCorrect` | `ClickStoreProofs` | `Spec => []DeadlockNeedsTwoLinks` |
| `FiguresGrowCorrect` | `ClickStoreProofs` | `Spec => []FiguresGrow` |

They hold for any sets of requests, calls, workers, codes, clicks, events, hooks,
servers and environments and any sizes that satisfy the named ASSUMEs of the
modules. These say that sentinels differ from data (`NoPlanAssumption` among them: a
request without a plan is not one with a sequence of figures), that bodies and queries
are well formed, that clicks are finitely many, and that sizes are positive (the
limiter's window may be 0). `validate` (`config.go:220-284`) checks the sizes of
`Pipeline` and `RateLimiter`, and the constructor of the link service raises its retry
budget to at least one. Nothing checks `WEBHOOK_WORKERS` and `WEBHOOK_QUEUE_SIZE`: that there is a sender is therefore a
hypothesis of the one theorem that needs it, `HandoffCorrect`, because without senders
Shutdown reports success over a full channel; a queue of size 0, an unbuffered channel,
is outside `Dispatcher`.

*LinkService.* `TypeOK` alone is not inductive: a call writes back what it holds,
so what it holds must fit the row it came from. `ShapeInv` adds that a row sits at
its own id, that a link held after its INSERT or its read still has the code and
the tenant of its row (neither ever changes), and that the janitor's cutoff is no
later than the retention allows. `Base` is both. `UniqueLiveCode` is preserved
because INSERT requires no live row and no other step makes a row live or changes
a code. `PurgedWereDead` follows from the cutoff's bound and from the fact that
only the janitor purges (`RowsKept`). `StaleIsExplained` is inductive together with `Base` and `UniqueLiveCode`
(`CoherenceInv`): a step that changes a live row leaves an eviction pending for its
code, an INSERT marks the entry it finds, a step that writes the cache compares
with the table or marks the entry, and a purge touches only rows that are deleted
or expired, whose snapshots are no longer served. `DemoExpiryCapped` needs the
links that calls hold to be capped as well (`DemoInv`), since they are written
later than they were clamped; time only makes the cap looser. `CountsNeverFall` and
`TenantIsolation` rest on one lemma, `RowStep`, about what a step may do to a row;
the second also needs that the link an Update is about to write belongs to its
caller (`WriterInv`).

`ExpiryConverges` is the part of `EventuallyCoherent` that speaks for the TTL: with
every DEL lost, the expiry of the key alone makes the cache agree with the table. Its
two hypotheses say when that can begin: from some time on no step changes what a
redirect of the code deserves (`SameAnswer`; clicks may still be counted), and no
redirect is about to write an older read (`OldRead`). Under them every step keeps a
coherent code coherent (`CoherentStays`), and the expiry makes it so (`ExpiryCures`).
That a code comes to rest once the finitely many calls and redirects are over is what
`EventuallyCoherent` adds.

*Pipeline.* `Accounting` is strengthened by what a worker's stage says about its
batch (`StageInv`): at the hook the batch has been written, at exit it is empty.
For `DrainKeepsPromise`, `StageInv` adds that once a worker has left the drain no
early click is in the channel, because nothing that was accepted before quit can
still be added, and `ShutdownInv` that Shutdown reports success only when every
worker is gone. From these every step is a step or a stutter of `Handoff`
(`HandoffSafe`); the progress of `Handoff` is derived from `EventuallyFlushed`, which
is the only part left to TLC. `DropsCounted` needs that every drop is a step of the
click's own call, so the counter and the set grow together; it stops short of what
the comment of `Enqueue` claims, that refusals during shutdown are counted as well. `EnqueueReturns`
uses the fairness of the one handler only: no other step takes a call back, and a
step of its own takes it from the check to the send and from there out.

*Server.* Every step of the server is a step of the pipeline or leaves it alone, so
the pipeline's invariants carry over. `OrderInv` says what the stage `run` has reached
rules out: once it is past HTTP no handler is inside Enqueue, so what is accepted when
quit closes is all there will ever be (`HearingInv`, `early = Accepted`). That closes
the gap between the quit check and the send that `Pipeline` alone has.
`HeldUpByPoolOnly` is the part of `ShutdownEnds` that needs no timeouts but the
deadline. It is proved along the stations of a shutdown: before the deadline
(`InTime`) only the timer is needed, and past it main goes from HTTP to the pipeline,
to the dispatcher and to `pool.Close`, where it is `Blocked` as long as a connection is
out and `Closable` after; each lemma shows that a step stays at a station or goes on
to a later one, and that a step of main leaves it. Connections only come back once the
pool is being closed, so who is not `Blocked` for ever ends. `OrderInv` is needed because at the pipeline station main returns
only if Shutdown has been called, and because past HTTP no request holds a connection
or takes one (`Unasked`). That the finitely many workers and loops do give
theirs back is the other part; it is left to TLC.

The provers know WF only through ENABLED, and ENABLED not at all. The two liveness
theorems of `Pipeline` and `Server`, and `ExpiryConverges`, therefore assume that
where the guard of the fair action holds the action is enabled
(`CallGuardEnables`, `GuardsEnable`, and a conjunct of `ExpiryConverges`). These are
facts about the formulas, not about the system: each action is a guard and an
assignment to every variable. TLC finds the first two true in every state of the `pipeline`
and `server` instances.

*Dispatcher.* The heart of the invariant is `OnePlaceInv`: a delivery is in one of
twelve places, from an event nobody has emitted to an outcome. No property in the run
says so, yet none of them is inductive without it: a job that was in two channels would
be posted twice under one attempt number. `PostInv` ties that number to the POSTs
made, `SubscriberInv` carries the result of the lookup through queue, sender and timer
(rows keep owner and events once registered), `SenderInv` gives each job one sender,
and `ShutdownInv` says where the jobs that Shutdown owes can be. For the
refinement, `StandingInv` translates places into the items of `Handoff`. TLC checked
the invariant on small instances before it was proved. `LossesCounted` rests on it
too: a job that met a full channel is counted once because its delivery is in one
place, so it was not in `overflowed` before. It also says that before quit nothing is
refused or discarded for another reason than a full channel. It does not say that nothing else is lost: a
failed lookup of subscribers loses its event uncounted. `DrainLooksUp` is what the resolver keeps of
the drain that `QueuedEventsDelivered` refutes: once it has left, no event that was
queued when quit closed is in the channel or half fanned out (`DrainInv`), though
their jobs were discarded.

*Api and RateLimiter.* `RecordInv` is what the window rests on: a request admitted
less than `Window - MaxDelay` ago is still in its tenant's log and the log's TTL has
not run out, since a script trims by a stamp that is at most the clock, and its own
stamp is at most `MaxDelay` old. So a script that admits one more has counted all of
them. `PromiseInv` says that while a Retry-After stands the log is full and has
an entry that leaves the window less than a second after the promise: the script's wait
is exact, and `RetrySecondsShort` bounds what the header cuts off. `AuthInv` and `LogInv` carry
the key's tenant from the lookup to the log.

*Startup.* `MemoryInv` says what a process has in memory at each stage of `run`; it
holds always. `SoloInv`, that there is one tenant and everyone who comes later finds
it, holds as long as no two first starts raced, and is proved under that condition
only, as `PolicyGuardsKey` states it. `SeedSettles` needs no such condition: once a
tenant is committed and nobody is between deciding to create one and its INSERT, every
later `FindByName` finds the first, so nobody gets there again, and the tables only
grow through those who do (`TablesStep`). `BackoffSane` says what a retry waits, exactly:
`min(base * 2^n, cap)`, although `base << n` is computed in `Width` bits. Powers of two
are a recursive function (`Pow2`), and what the proof needs of them is shown by taking
the least counterexample, since the library's induction theorems cannot be instantiated.
The rest is one case split: a shifted base that fits is the product; one that does not
is zero, negative or a multiple of the power of two in the base, which
`BackoffFits` keeps above the cap, and all three are cut to the cap.

*ClickStore.* `LockInv` is the point: a link whose FOR KEY SHARE lock a batch holds is
there and not being removed. From it follow that no UPDATE misses its row, that a
commit enters the whole batch (`LedgerCorrect`), and that workers
in their UPDATEs wait only for counters of other workers, never for the janitor: one
with a single link has no counter yet while it waits, so nobody in a cycle waits for
it. `FiguresInv` follows a request
through its queries: what it has counted so far is still in the table while its links
are. `CountersMatchRows`, the promise of `click.go:33-34` that clicks and counters stay
consistent, is proved of the steps of `ClickLedger` and holds of `ClickStore` because
that implements it: a commit adds to each counter the new rows of its link, which is a
sum of cardinalities, and a purge takes both.

Only model-checked:

* liveness that needs a ranking (`EventuallyCoherent`, `EventuallyFlushed`,
  `WorkersExit`, `EventuallySettled`, `LoopsExit`): that a channel runs empty or that
  the calls come to an end is an induction over temporal formulas, which is out of the
  prover's reach; `EnqueueReturns` passes a fixed number of stations, and so does the
  part of `ShutdownEnds` that is `HeldUpByPoolOnly`; that the set of held connections
  runs empty under `Timeouts` is again a ranking;
* the enabledness of the fair actions, as said under *Server*;
* the four properties that the code violates.

## Not modelled

User-agent parsing, IP hashing, geo lookup, HMAC signing and the random bytes of a
short code (pure functions of strings); error envelopes, metrics and logging;
`last_used_at`; migrations, which run once before serving; the web console and the
shell scripts, clients of what is modelled. `Server` composes the process with
`Pipeline` only: with the full `Dispatcher` as well the state space is out of reach,
and what it needs of the dispatcher is whether it still listens. Whether waits in
`ClickStore` end is left to PostgreSQL's deadlock detector and the flush timeout.
Settings that only reach a library (hosts, credentials, timeouts, pool sizes) are
not in `Config`.

## Plan

1. Done: `Link`, `LinkService`, `Pipeline`, `Dispatcher`, `Server`, `ClickStore`,
   `Config`, `Startup`, `RateLimiter`, `Api`; the abstract specifications `Handoff` and
   `ClickLedger`; a theorem for every safety property of a passing run and for both
   refinements; what the code keeps of three promises it breaks or does not test
   (`DropsCounted`, `DrainLooksUp`, `CountersMatchRows`); the liveness that passes a
   fixed number of stations.
2. Left: liveness by ranking, once a prover can do the induction; shorter proofs where
   steps of `DispatcherProofs` repeat the same argument for several conjuncts.
