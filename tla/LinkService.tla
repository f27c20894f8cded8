---------------------------- MODULE LinkService ----------------------------
(***************************************************************************)
(* The links table, the Redis redirect cache in front of it, and everybody *)
(* who reads or writes either: public redirects (RedirectService.Resolve), *)
(* management calls (LinkService.Create / Update / Delete), the analytics  *)
(* workers that add up clicks and evict exhausted links, and the demo      *)
(* janitor.  Any number of server instances share the two stores, so every *)
(* database or Redis round trip is a step of its own.                       *)
(***************************************************************************)
EXTENDS Link, Sequences, FiniteSets

CONSTANTS
    Requests,       \* concurrent GET /:code requests; each may be reused
    Calls,          \* management API calls; each happens once
    Workers,        \* analytics workers flushing click batches
    Absent, Purged, \* links table: id not inserted yet / row hard-deleted
    Miss, Neg,      \* Redis: no key / the negative marker
    CreateBodies,   \* POST bodies clients send
    UpdateBodies,   \* PATCH bodies clients send
    MaxCollision,   \* SHORTCODE_MAX_COLLISION_RETRIES
    BufferSize,     \* ANALYTICS_BUFFER_SIZE
    BatchSize,      \* ANALYTICS_BATCH_SIZE
    Retention,      \* DEMO_RETENTION
    RedisFails,     \* whether Redis calls may fail, time out or be cancelled
    DbFails,        \* whether Postgres calls may fail
    MaxNow,         \* bound on the clock
    MaxCount        \* bound on a link's click count

ASSUME SentinelAssumption ==
    /\ {Absent, Purged, Miss, Neg} \cap Links = {}
    /\ None \notin Links /\ Absent # Purged /\ Miss # Neg
ASSUME BodiesAssumption ==
    /\ CreateBodies \subseteq CreateInputs
    /\ UpdateBodies \subseteq UpdateInputs
ASSUME BoundsAssumption ==
    /\ MaxCollision \in Nat \ {0} /\ BufferSize \in Nat /\ BatchSize \in Nat \ {0}
    /\ Retention \in Nat /\ MaxNow \in Nat /\ MaxCount \in Nat
    /\ RedisFails \in BOOLEAN /\ DbFails \in BOOLEAN

VARIABLES
    now,        \* the clock, shared by Postgres and the servers
    links,      \* the links table
    cache,      \* Redis: what the key of each code holds
    excuse,     \* history: why the entry of a code may disagree with links
    rpc, rcode, rlink,   \* a redirect request: next step, code, link read
    pc, who, held, attempt,
                \* a management call: next step, authenticated tenant, the
                \* *domain.Link it holds, codes tried so far
    announced,  \* ids handed to the event sink (LinkCreated)
    input,      \* link ids of clicks accepted and not yet written
    evict,      \* per worker: exhausted codes it still has to invalidate
    cutoff      \* the janitor's cutoff while a sweep is running

svcVars == <<rpc, rcode, rlink>>
callVars == <<pc, who, held, attempt, announced>>
clickVars == <<input, evict>>
vars == <<now, links, cache, excuse, rpc, rcode, rlink, pc, who, held,
          attempt, announced, input, evict, cutoff>>

Excuses == {"late", "lost", "created"}

TypeOK ==
    /\ now \in 0..MaxNow
    /\ links \in [Ids -> Links \cup {Absent, Purged}]
    /\ cache \in [Codes -> Links \cup {Miss, Neg}]
    /\ excuse \in [Codes -> SUBSET Excuses]
    /\ rpc \in [Requests -> {"idle", "get_by_code", "set", "set_negative"}]
    /\ rcode \in [Requests -> Codes \cup {None}]
    /\ rlink \in [Requests -> Links \cup {None}]
    /\ pc \in [Calls -> {"start", "insert", "emit", "write", "soft_delete",
                         "invalidate", "done"}]
    /\ who \in [Calls -> Tenants \cup {None}]
    /\ held \in [Calls -> Drafts \cup {None}]
    /\ attempt \in [Calls -> 0..MaxCollision]
    /\ announced \subseteq Ids
    /\ input \in Seq(Ids) /\ Len(input) <= BufferSize
    /\ evict \in [Workers -> SUBSET Codes]
    /\ cutoff \in Int \cup {None}

Init ==
    /\ now = 0
    /\ links = [i \in Ids |-> Absent]
    /\ cache = [c \in Codes |-> Miss]
    /\ excuse = [c \in Codes |-> {}]
    /\ rpc = [r \in Requests |-> "idle"]
    /\ rcode = [r \in Requests |-> None]
    /\ rlink = [r \in Requests |-> None]
    /\ pc = [k \in Calls |-> "start"]
    /\ who = [k \in Calls |-> None]
    /\ held = [k \in Calls |-> None]
    /\ attempt = [k \in Calls |-> 0]
    /\ announced = {}
    /\ input = <<>>
    /\ evict = [w \in Workers |-> {}]
    /\ cutoff = None

-----------------------------------------------------------------------------
(* The links table as SQL sees it.                                          *)

IsRow(i) == links[i] \notin {Absent, Purged}
IsLive(i) == IsRow(i) /\ links[i].deleted = None

\* The rows WHERE code = c AND deleted_at IS NULL.
LiveIds(c) == {i \in Ids : IsLive(i) /\ links[i].code = c}

\* The mistakes of leaving one condition out of the WHERE clause.
OwnsDeleted(t, i) == IsRow(i) /\ links[i].tenant = t
OwnsAnybodys(t, i) == IsLive(i)
\* WHERE id = i AND tenant_id = t AND deleted_at IS NULL.
Owns(t, i) == IsLive(i) /\ links[i].tenant = t

\* What Redis does with DEL and with SET.
Del(c) ==
    /\ cache' = [cache EXCEPT ![c] = Miss]
    /\ excuse' = [excuse EXCEPT ![c] = {}]

\* A snapshot agrees with a row when a redirect answered from it now or later
\* is the redirect the row asks for.  The cached click count may lag, as long
\* as the row has not reached its limit.
Agrees(s, l) ==
    /\ s.id = l.id /\ s.target = l.target
    /\ s.expires = l.expires /\ s.max = l.max
    /\ IsExhausted(l) => IsExhausted(s)

\* SET link:c to entry e.  The history variable notes an entry that disagrees
\* with the table already when it is written.
CacheWrite(c, e, fresh) ==
    /\ cache' = [cache EXCEPT ![c] = e]
    /\ excuse' = [excuse EXCEPT ![c] = IF fresh THEN {} ELSE {"late"}]

\* The DEL of c did not happen: Redis failed, the request context was
\* cancelled, or the process died after its commit.
DelLost(c) ==
    /\ excuse' = [excuse EXCEPT ![c] = IF cache[c] = Miss THEN {}
                                       ELSE @ \cup {"lost"}]
    /\ UNCHANGED cache

-----------------------------------------------------------------------------
(* RedirectService.Resolve and RedirectHandler.Redirect.                    *)

\* checkActive, then Record: an active link is served and its click offered
\* to the bounded analytics buffer, which drops it when full.
ServeOrGone(l) ==
    input' = IF IsActive(l, now) /\ Len(input) < BufferSize
             THEN Append(input, l.id) ELSE input

ResolveIdle(r) ==
    /\ rpc' = [rpc EXCEPT ![r] = "idle"]
    /\ rcode' = [rcode EXCEPT ![r] = None]
    /\ rlink' = [rlink EXCEPT ![r] = None]

\* Cache hit: a snapshot is checked and served, the negative marker is a 404.
ResolveHit(r, c) ==
    /\ rpc[r] = "idle"
    /\ cache[c] # Miss
    /\ IF cache[c] = Neg THEN UNCHANGED input ELSE ServeOrGone(cache[c])
    /\ UNCHANGED <<now, links, cache, excuse, svcVars, callVars, evict, cutoff>>

\* Cache miss, or a Redis error (fail open): fall back to Postgres.
ResolveMiss(r, c) ==
    /\ rpc[r] = "idle"
    /\ cache[c] = Miss \/ RedisFails
    /\ rpc' = [rpc EXCEPT ![r] = "get_by_code"]
    /\ rcode' = [rcode EXCEPT ![r] = c]
    /\ UNCHANGED <<now, links, cache, excuse, rlink, callVars, clickVars, cutoff>>

\* GetByCode found a live row.
ReadFound(r) ==
    /\ rpc[r] = "get_by_code"
    /\ \E i \in LiveIds(rcode[r]) : rlink' = [rlink EXCEPT ![r] = links[i]]
    /\ rpc' = [rpc EXCEPT ![r] = "set"]
    /\ UNCHANGED <<now, links, cache, excuse, rcode, callVars, clickVars, cutoff>>

\* GetByCode found no live row.
ReadNotFound(r) ==
    /\ rpc[r] = "get_by_code"
    /\ LiveIds(rcode[r]) = {}
    /\ rpc' = [rpc EXCEPT ![r] = "set_negative"]
    /\ UNCHANGED <<now, links, cache, excuse, rcode, rlink, callVars, clickVars,
                   cutoff>>

\* GetByCode failed: the redirect is a 500.
ReadError(r) ==
    /\ rpc[r] = "get_by_code" /\ DbFails
    /\ ResolveIdle(r)
    /\ UNCHANGED <<now, links, cache, excuse, callVars, clickVars, cutoff>>

\* Set(link), whose failure is only logged; the link read is then checked and
\* served whatever has happened to the row since.
Backfill(r) ==
    /\ rpc[r] = "set"
    /\ \/ CacheWrite(rlink[r].code, Snapshot(rlink[r]),
                     \E i \in LiveIds(rlink[r].code) : Agrees(rlink[r], links[i]))
       \/ RedisFails /\ UNCHANGED <<cache, excuse>>
    /\ ServeOrGone(rlink[r])
    /\ ResolveIdle(r)
    /\ UNCHANGED <<now, links, callVars, evict, cutoff>>

\* SetNegative(code), whose failure is only logged; the answer is a 404.
BackfillNegative(r) ==
    /\ rpc[r] = "set_negative"
    /\ \/ CacheWrite(rcode[r], Neg, LiveIds(rcode[r]) = {})
       \/ RedisFails /\ UNCHANGED <<cache, excuse>>
    /\ ResolveIdle(r)
    /\ UNCHANGED <<now, links, callVars, clickVars, cutoff>>

\* The mistake of storing snapshots without a TTL.
CacheExpireMarkers(c) ==
    /\ cache[c] = Neg
    /\ Del(c)
    /\ UNCHANGED <<now, links, svcVars, callVars, clickVars, cutoff>>
\* Redis drops a key when its TTL runs out.
CacheExpire(c) ==
    /\ cache[c] # Miss
    /\ Del(c)
    /\ UNCHANGED <<now, links, svcVars, callVars, clickVars, cutoff>>

-----------------------------------------------------------------------------
(* LinkService.Create.                                                      *)

Done(k) ==
    /\ pc' = [pc EXCEPT ![k] = "done"]
    /\ who' = [who EXCEPT ![k] = None]
    /\ held' = [held EXCEPT ![k] = None]

\* Validation fails, or the link is built and goes to the first INSERT.
StartCreate(k, t, in) ==
    /\ pc[k] = "start"
    /\ IF Valid(in) /\ ValidExpiry(in.expires, now)
       THEN /\ pc' = [pc EXCEPT ![k] = "insert"]
            /\ who' = [who EXCEPT ![k] = t]
            /\ held' = [held EXCEPT ![k] = NewDraft(t, in, now)]
       ELSE Done(k)
    /\ UNCHANGED <<now, links, cache, excuse, svcVars, attempt, announced,
                   clickVars, cutoff>>

\* The codes the next INSERT may try: the alias, or whatever Generate returns.
CandidateCodes(k) == IF held[k].code = None THEN Codes ELSE {held[k].code}

\* The mistake of a unique index on (tenant_id, code).
InsertOkPerTenant(k, c, i) ==
    /\ pc[k] = "insert"
    /\ c \in CandidateCodes(k)
    /\ \A j \in LiveIds(c) : links[j].tenant # held[k].tenant
    /\ links[i] = Absent
    /\ links' = [links EXCEPT ![i] = [held[k] EXCEPT !.id = i, !.code = c,
                                                     !.created = now]]
    /\ held' = [held EXCEPT ![k] = links'[i]]
    /\ pc' = [pc EXCEPT ![k] = "emit"]
    /\ UNCHANGED <<now, cache, excuse, svcVars, who, attempt, announced,
                   clickVars, cutoff>>
\* INSERT succeeds: the partial unique index finds no live row with the code.
\* Nothing touches the cache, so an entry of an earlier life of the code stays.
InsertOk(k, c, i) ==
    /\ pc[k] = "insert"
    /\ c \in CandidateCodes(k)
    /\ LiveIds(c) = {}
    /\ links[i] = Absent
    /\ links' = [links EXCEPT ![i] = [held[k] EXCEPT !.id = i, !.code = c,
                                                     !.created = now]]
    /\ held' = [held EXCEPT ![k] = links'[i]]
    /\ pc' = [pc EXCEPT ![k] = "emit"]
    /\ excuse' = [excuse EXCEPT ![c] = IF cache[c] = Miss THEN {}
                                       ELSE @ \cup {"created"}]
    /\ UNCHANGED <<now, cache, svcVars, who, attempt, announced, clickVars,
                   cutoff>>

\* The mistake of retrying a generated code without a budget.
InsertConflictForever(k, c) ==
    /\ pc[k] = "insert"
    /\ c \in CandidateCodes(k)
    /\ LiveIds(c) # {}
    /\ IF held[k].code = None
       THEN /\ attempt' = [attempt EXCEPT ![k] = @ + 1]
            /\ UNCHANGED <<pc, who, held>>
       ELSE /\ Done(k)
            /\ UNCHANGED attempt
    /\ UNCHANGED <<now, links, cache, excuse, svcVars, announced, clickVars,
                   cutoff>>
\* INSERT hits the unique index.  An alias is refused; a generated code is
\* tried again until the budget is spent.
InsertConflict(k, c) ==
    /\ pc[k] = "insert"
    /\ c \in CandidateCodes(k)
    /\ LiveIds(c) # {}
    /\ IF held[k].code = None /\ attempt[k] + 1 < MaxCollision
       THEN /\ attempt' = [attempt EXCEPT ![k] = @ + 1]
            /\ UNCHANGED <<pc, who, held>>
       ELSE /\ Done(k)
            /\ UNCHANGED attempt
    /\ UNCHANGED <<now, links, cache, excuse, svcVars, announced, clickVars,
                   cutoff>>

\* emitCreated, unless the process dies between the INSERT and the event.
EmitCreated(k) ==
    /\ pc[k] = "emit"
    /\ \/ announced' = announced \cup {held[k].id}
       \/ UNCHANGED announced
    /\ Done(k)
    /\ UNCHANGED <<now, links, cache, excuse, svcVars, attempt, clickVars, cutoff>>

-----------------------------------------------------------------------------
(* LinkService.Update and LinkService.Delete.                               *)

\* GetByIDForTenant, validation and the new field values, in memory.
StartUpdate(k, t, i, in) ==
    /\ pc[k] = "start"
    /\ IF /\ Owns(t, i) /\ Valid(in)
          /\ in.expires = Keep \/ ValidExpiry(in.expires, now)
       THEN /\ pc' = [pc EXCEPT ![k] = "write"]
            /\ who' = [who EXCEPT ![k] = t]
            /\ held' = [held EXCEPT ![k] = ApplyUpdate(links[i], in, now)]
       ELSE Done(k)
    /\ UNCHANGED <<now, links, cache, excuse, svcVars, attempt, announced,
                   clickVars, cutoff>>

\* The mistake of writing the whole struct back, click_count included.
WriteWhole(row, l) == [l EXCEPT !.deleted = row.deleted]
\* The row after UPDATE links SET code, target_url, expires_at, max_clicks.
WriteMutable(row, l) ==
    [row EXCEPT !.code = l.code, !.target = l.target, !.expires = l.expires,
                !.max = l.max]

\* UPDATE ... WHERE id, tenant, not deleted: the row, or ErrNotFound.
CommitUpdate(k) ==
    /\ pc[k] = "write"
    /\ IF Owns(held[k].tenant, held[k].id)
       THEN /\ links' = [links EXCEPT ![held[k].id] = WriteMutable(@, held[k])]
            /\ pc' = [pc EXCEPT ![k] = "invalidate"]
            /\ UNCHANGED <<who, held>>
       ELSE Done(k) /\ UNCHANGED links
    /\ UNCHANGED <<now, cache, excuse, svcVars, attempt, announced, clickVars,
                   cutoff>>

\* Delete reads the link first, for its code.
StartDelete(k, t, i) ==
    /\ pc[k] = "start"
    /\ IF Owns(t, i)
       THEN /\ pc' = [pc EXCEPT ![k] = "soft_delete"]
            /\ who' = [who EXCEPT ![k] = t]
            /\ held' = [held EXCEPT ![k] = links[i]]
       ELSE Done(k)
    /\ UNCHANGED <<now, links, cache, excuse, svcVars, attempt, announced,
                   clickVars, cutoff>>

CommitDelete(k) ==
    /\ pc[k] = "soft_delete"
    /\ IF Owns(who[k], held[k].id)
       THEN /\ links' = [links EXCEPT ![held[k].id].deleted = now]
            /\ pc' = [pc EXCEPT ![k] = "invalidate"]
            /\ UNCHANGED <<who, held>>
       ELSE Done(k) /\ UNCHANGED links
    /\ UNCHANGED <<now, cache, excuse, svcVars, attempt, announced, clickVars,
                   cutoff>>

\* invalidate(code): best effort, after the commit.
Invalidate(k) ==
    /\ pc[k] = "invalidate"
    /\ \/ Del(held[k].code)
       \/ RedisFails /\ DelLost(held[k].code)
    /\ Done(k)
    /\ UNCHANGED <<now, links, svcVars, attempt, announced, clickVars, cutoff>>

\* A statement fails before it commits: the call returns the error.
CallError(k) ==
    /\ DbFails /\ pc[k] \in {"insert", "write", "soft_delete"}
    /\ Done(k)
    /\ UNCHANGED <<now, links, cache, excuse, svcVars, attempt, announced,
                   clickVars, cutoff>>

-----------------------------------------------------------------------------
(* Pipeline.flush over ClickRepository.RecordBatch.                         *)

ClicksOf(batch, i) == Cardinality({n \in DOMAIN batch : batch[n] = i})

\* The foreign key of clicks.link_id holds for the whole COPY.
CopySucceeds(batch) == \A n \in DOMAIN batch : IsRow(batch[n])

Counted(batch) ==
    [i \in Ids |-> IF IsRow(i)
                   THEN [links[i] EXCEPT !.clicks = @ + ClicksOf(batch, i)]
                   ELSE links[i]]

\* The mistake of reporting a link only once it is over its limit.
ExhaustedCodesLate(batch, table) ==
    {table[i].code : i \in {j \in Ids : /\ ClicksOf(batch, j) > 0
                                         /\ table[j].max # None
                                         /\ table[j].clicks > table[j].max}}
\* The codes RecordBatch returns: those of the batch's links at their limit.
ExhaustedCodes(batch, table) ==
    {table[i].code : i \in {j \in Ids : ClicksOf(batch, j) > 0 /\ IsExhausted(table[j])}}

\* One transaction writes a batch; when it fails the batch is gone.
RecordBatch(w, n) ==
    LET batch == SubSeq(input, 1, n) IN
    /\ evict[w] = {}
    /\ n <= Len(input)
    /\ input' = SubSeq(input, n + 1, Len(input))
    /\ \/ /\ CopySucceeds(batch)
          /\ links' = Counted(batch)
          /\ \A i \in Ids : IsRow(i) => links'[i].clicks <= MaxCount
          /\ evict' = [evict EXCEPT ![w] = ExhaustedCodes(batch, links')]
       \/ /\ ~CopySucceeds(batch) \/ DbFails
          /\ UNCHANGED <<links, evict>>
    /\ UNCHANGED <<now, cache, excuse, svcVars, callVars, cutoff>>

\* The worker invalidates the exhausted codes one by one.
EvictExhausted(w, c) ==
    /\ c \in evict[w]
    /\ \/ Del(c)
       \/ RedisFails /\ DelLost(c)
    /\ evict' = [evict EXCEPT ![w] = @ \ {c}]
    /\ UNCHANGED <<now, links, svcVars, callVars, input, cutoff>>

-----------------------------------------------------------------------------
(* LinkJanitor.sweep: the cutoff is read first, the DELETE runs later.      *)

SweepStart ==
    /\ DemoTenant # None /\ cutoff = None
    /\ cutoff' = now - Retention
    /\ UNCHANGED <<now, links, cache, excuse, svcVars, callVars, clickVars>>

\* The mistake of including the cutoff itself.
PurgeableAtCutoff(l, t) ==
    /\ l.tenant = DemoTenant
    /\ \/ l.expires # None /\ l.expires <= t
       \/ l.deleted # None /\ l.deleted <= t
Purgeable(l, t) ==
    /\ l.tenant = DemoTenant
    /\ \/ l.expires # None /\ l.expires < t
       \/ l.deleted # None /\ l.deleted < t

PurgeExpired ==
    /\ cutoff # None
    /\ \/ links' = [i \in Ids |-> IF IsRow(i) /\ Purgeable(links[i], cutoff)
                                  THEN Purged ELSE links[i]]
       \/ DbFails /\ UNCHANGED links
    /\ cutoff' = None
    /\ UNCHANGED <<now, cache, excuse, svcVars, callVars, clickVars>>

Tick ==
    /\ now < MaxNow
    /\ now' = now + 1
    /\ UNCHANGED <<links, cache, excuse, svcVars, callVars, clickVars, cutoff>>

-----------------------------------------------------------------------------

ResolveStep(r) ==
    \/ ReadFound(r) \/ ReadNotFound(r) \/ ReadError(r)
    \/ Backfill(r) \/ BackfillNegative(r)
ResolveStart(r) == \E c \in Codes : ResolveHit(r, c) \/ ResolveMiss(r, c)

CallStart(k) ==
    \/ \E t \in Tenants, in \in CreateBodies : StartCreate(k, t, in)
    \/ \E t \in Tenants, i \in Ids, in \in UpdateBodies : StartUpdate(k, t, i, in)
    \/ \E t \in Tenants, i \in Ids : StartDelete(k, t, i)
CallStep(k) ==
    \/ \E c \in Codes : InsertConflict(k, c) \/ \E i \in Ids : InsertOk(k, c, i)
    \/ EmitCreated(k) \/ CommitUpdate(k) \/ CommitDelete(k) \/ Invalidate(k)
    \/ CallError(k)

WorkerStep(w) ==
    \/ \E n \in 1..BatchSize : RecordBatch(w, n)
    \/ \E c \in Codes : EvictExhausted(w, c)

Next ==
    \/ \E r \in Requests : ResolveStart(r) \/ ResolveStep(r)
    \/ \E c \in Codes : CacheExpire(c)
    \/ \E k \in Calls : CallStart(k) \/ CallStep(k)
    \/ \E w \in Workers : WorkerStep(w)
    \/ SweepStart \/ PurgeExpired
    \/ Tick

Spec == Init /\ [][Next]_vars

\* Handlers and workers make progress (Redis calls and flushes have timeouts, and
\* PostgreSQL is assumed to answer a request's query), and a Redis key with a TTL
\* does not live for ever.
Fairness ==
    /\ \A r \in Requests : WF_vars(ResolveStep(r))
    /\ \A k \in Calls : WF_vars(CallStep(k))
    /\ \A w \in Workers : WF_vars(WorkerStep(w))
    /\ \A c \in Codes : WF_vars(CacheExpire(c))
FairSpec == Spec /\ Fairness

-----------------------------------------------------------------------------
(* Properties.                                                              *)

\* A cached answer for c is the answer Postgres would give: the marker hides
\* no live link, and a snapshot either agrees with the live row or belongs to
\* a link that can no longer be served and has no successor.
Coherent(c) ==
    LET e == cache[c] IN
    \/ e = Miss
    \/ e = Neg /\ LiveIds(c) = {}
    \/ /\ e \notin {Miss, Neg}
       /\ \/ \E i \in LiveIds(c) : Agrees(e, links[i])
          \/ LiveIds(c) = {} /\ ~IsActive(e, now)

\* Somebody has committed a change of a link with this code and is about to
\* delete the code's key.
EvictPending(c) ==
    \/ \E k \in Calls : pc[k] = "invalidate" /\ held[k].code = c
    \/ \E w \in Workers : c \in evict[w]

\* At most one live link per code: what lets GET /:code resolve without a
\* tenant (links_code_live_idx).
UniqueLiveCode ==
    \A i, j \in Ids : IsLive(i) /\ IsLive(j) /\ links[i].code = links[j].code => i = j

\* Every stale cache entry has one of four causes: an eviction still to come,
\* a DEL that was lost, a backfill whose read is older than the commit, or a
\* code that was created under an older entry.  In particular Update, Delete
\* and click exhaustion never leave a stale entry behind on their own.
StaleIsExplained == \A c \in Codes : Coherent(c) \/ EvictPending(c) \/ excuse[c] # {}

\* Mutations invalidate the entry, so stale targets are never served once the
\* eviction is through (README.md:294-295, service/link.go:39-40).
StaleTargetNeverServed ==
    \A c \in Codes : cache[c] \notin {Miss, Neg} /\ IsActive(cache[c], now) =>
        \/ EvictPending(c)
        \/ \E i \in LiveIds(c) : links[i].id = cache[c].id /\ links[i].target = cache[c].target

\* A demo link always has an expiry, at most DemoMaxTTL away: whatever PATCH
\* bodies and concurrent write-backs do, none is ever made permanent.
DemoExpiryCapped ==
    DemoMaxTTL > 0 =>
        \A i \in Ids : IsRow(i) /\ links[i].tenant = DemoTenant =>
            links[i].expires # None /\ links[i].expires <= now + DemoMaxTTL

\* A deleted link never comes back, however an Update that read it before the
\* deletion is scheduled; it may only be purged.
DeleteIsFinal ==
    [][\A i \in Ids : IsRow(i) /\ links[i].deleted # None =>
        links'[i] = Purged \/ links'[i].deleted = links[i].deleted]_vars

\* The janitor only removes links that have been dead for longer than the
\* retention, although it computes its cutoff before the DELETE runs.
PurgedWereDead ==
    [][\A i \in Ids : IsRow(i) /\ links'[i] = Purged =>
        \/ links[i].expires # None /\ links[i].expires + Retention < now
        \/ links[i].deleted # None /\ links[i].deleted + Retention < now]_vars

\* Two PATCH calls may undo each other's fields, but clicks counted between a
\* PATCH's read and its write-back survive it: a count never falls.
CountsNeverFall ==
    [][\A i \in Ids : IsRow(i) /\ links'[i] # Purged =>
        links'[i].clicks >= links[i].clicks]_vars

\* Only calls of the owning tenant change what a link is: its target, limits
\* or life.
TenantIsolation ==
    [][\A i \in Ids, k \in Calls :
        IsRow(i) /\ pc[k] # pc'[k] /\ links'[i] # links[i] => who[k] = links[i].tenant]_vars

\* A click of a purged link is skipped and the rest of its batch counted
\* (click.go:72-73).
PurgedClicksSkipped ==
    [][input' # input /\ Len(input') < Len(input) =>
        \A i \in Ids : IsRow(i) =>
            links'[i].clicks = links[i].clicks
                + ClicksOf(input, i) - ClicksOf(input', i)]_vars

\* Once calls and counters come to rest, the cache converges to the table:
\* TTLs clear whatever the races and the lost evictions left behind.
EventuallyCoherent == <>[](\A c \in Codes : Coherent(c))
=============================================================================
