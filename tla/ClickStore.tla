----------------------------- MODULE ClickStore -----------------------------
(***************************************************************************)
(* The clicks table and the counters of the links table                    *)
(* (internal/repository/click.go) under concurrent flush workers, the      *)
(* janitor's DELETE (repository/link.go) and the statistics endpoints      *)
(* (service/stats.go, handler/stats.go).                                    *)
(*                                                                         *)
(* RecordBatch is a transaction of several statements.  The row locks they *)
(* take are PostgreSQL's: the foreign-key check of an inserted click holds *)
(* its link FOR KEY SHARE, an UPDATE of a counter holds it FOR NO KEY      *)
(* UPDATE, a DELETE holds it FOR UPDATE, and a cycle of waits is broken by *)
(* aborting one of the transactions in it.  The variables rows and table   *)
(* are what is committed.  Links have different codes here, so that what   *)
(* TenantOverview groups by code is grouped by link.                        *)
(***************************************************************************)
EXTENDS Integers, Sequences, FiniteSets

CONSTANTS
    Links, Tenants,
    Owner,         \* the tenant of each link
    DemoTenant,    \* the tenant whose dead links the janitor removes
    Clicks,        \* the clicks the pipeline hands over
    LinkOf, TimeOf, LabelOf,
                   \* their link, occurred_at, and what a breakdown groups by
    Workers,       \* flush workers of all servers
    Janitor,       \* the janitor's DELETE, as a party that holds locks
    Readers,       \* concurrent statistics requests; each may be reused
    Queries,       \* what they may ask
    BatchSize,
    Times,         \* instants of clicks and of query windows
    DefaultWindow, \* defaultStatsWindow
    TopN,          \* rows of a breakdown
    Absent, Bad,   \* a query parameter that is not given / does not parse
    None

ASSUME OwnerAssumption == Owner \in [Links -> Tenants]
ASSUME ClicksAssumption ==
    /\ IsFiniteSet(Clicks)
    /\ LinkOf \in [Clicks -> Links] /\ TimeOf \in [Clicks -> Times]
    /\ DOMAIN LabelOf = Clicks
ASSUME StoreSizesAssumption ==
    /\ BatchSize \in Nat \ {0} /\ TopN \in Nat \ {0} /\ DefaultWindow \in Nat \ {0}
    /\ Times \subseteq Int
ASSUME StoreNamesAssumption ==
    /\ None \notin Links \cup Tenants /\ Janitor \notin Workers
    /\ {Absent, Bad} \cap Int = {} /\ Absent # Bad
ASSUME QueriesAssumption ==
    Queries \subseteq [tenant: Tenants, link: Links, from: Times \cup {Absent, Bad},
                      to: Times \cup {Absent, Bad}, bucket: {"hour", "day", "other"}]

Parties == Workers \cup {Janitor}

VARIABLES
    input,     \* clicks the pipeline has not flushed yet
    rows,      \* the clicks table
    table,     \* the links table
    pc, batch, \* a RecordBatch: where it stands, its clicks
    todo, want,   \* per transaction: links its statements still have to
                  \* reach, the link they are at
    shared, counted, removing,
               \* links held FOR KEY SHARE, FOR NO KEY UPDATE, FOR UPDATE
    plan, ask, answer
               \* a statistics request: queries still to come, parameters,
               \* and the click rows behind each figure of the answer

batchVars == <<pc, batch, shared, counted>>
readVars == <<plan, ask, answer>>
vars == <<input, rows, table, pc, batch, todo, want, shared, counted, removing,
          plan, ask, answer>>

ClicksOn(S, l) == {c \in S : LinkOf[c] = l}
LinksOf(S) == {LinkOf[c] : c \in S}
Present(l) == table[l].state # "purged"

\* The mistake of asking for the total first.
LinkFiguresTotalFirst == <<"total", "series", "referrers", "countries", "devices">>
\* The queries behind an answer, in the order they are made.
LinkFigures == <<"series", "total", "referrers", "countries", "devices">>
OverviewFigures == <<"totals", "top_links">>
Figures == {"series", "total", "referrers", "countries", "devices", "totals",
            "top_links"}
\* A request that is not under way has no list of queries, not even an empty one.
ASSUME NoPlanAssumption == None \notin Seq(Figures)

NotAsked == [link |-> None, tenant |-> None, from |-> 0, to |-> 0]

\* A click that waits is neither in a batch nor written, and a transaction
\* waits at a row its statement has still to reach.
TypeOK ==
    /\ input \subseteq Clicks /\ rows \subseteq Clicks
    /\ table \in [Links -> [state: {"live", "deleted", "purged"}, clicks: Nat]]
    /\ pc \in [Workers -> {"idle", "copy", "update"}]
    /\ batch \in [Workers -> SUBSET Clicks] /\ input \cap rows = {}
    /\ \A w \in Workers : batch[w] \cap input = {}
    /\ todo \in [Parties -> SUBSET Links]
    /\ want \in [Parties -> Links \cup {None}]
    /\ \A p \in Parties : want[p] \in todo[p] \cup {None}
    /\ shared \in [Workers -> SUBSET Links]
    /\ counted \in [Workers -> SUBSET Links]
    /\ removing \subseteq Links
    /\ plan \in [Readers -> Seq(Figures) \cup {None}]
    /\ ask \in [Readers -> [link: Links \cup {None}, tenant: Tenants \cup {None},
                            from: Int, to: Int]]
    /\ answer \in [Readers -> [Figures -> SUBSET Clicks]]

Init ==
    /\ input = Clicks /\ rows = {}
    /\ table = [l \in Links |-> [state |-> "live", clicks |-> 0]]
    /\ pc = [w \in Workers |-> "idle"] /\ batch = [w \in Workers |-> {}]
    /\ todo = [p \in Parties |-> {}] /\ want = [p \in Parties |-> None]
    /\ shared = [w \in Workers |-> {}] /\ counted = [w \in Workers |-> {}]
    /\ removing = {}
    /\ plan = [r \in Readers |-> None]
    /\ ask = [r \in Readers |-> NotAsked]
    /\ answer = [r \in Readers |-> [f \in Figures |-> {}]]

-----------------------------------------------------------------------------
(* Row locks, as PostgreSQL grants them.                                    *)

\* The mistake of a batch that takes its links FOR UPDATE.
BlockersForUpdate(p, l) ==
    IF p = Janitor
    THEN {w \in Workers : l \in shared[w] \cup counted[w]}
    ELSE {v \in Workers \ {p} : pc[p] = "update" /\ l \in shared[v] \cup counted[v]}
         \cup {q \in {Janitor} : l \in removing}
\* Whom a transaction has to wait for at link l: the foreign-key check only for
\* a DELETE, the counter UPDATE also for other counter UPDATEs, the DELETE for
\* everybody.
Blockers(p, l) ==
    IF p = Janitor
    THEN {w \in Workers : l \in shared[w] \cup counted[w]}
    ELSE {v \in Workers \ {p} : pc[p] = "update" /\ l \in counted[v]}
         \cup {q \in {Janitor} : l \in removing}

\* The deadlock detector finds a cycle of waits: a smallest set of parties
\* each of which waits for another one of it.
Stuck(S) == S # {} /\ \A p \in S : want[p] # None /\ Blockers(p, want[p]) \cap S # {}
IsCycle(S) == Stuck(S) /\ \A T \in SUBSET S : Stuck(T) => T = S
InCycle(p) == want[p] # None /\ \E S \in SUBSET Parties : p \in S /\ IsCycle(S)

\* The statements of a transaction reach the rows they name in any order: the
\* order of the batch, of a Go map, of a table scan.  At a row that is held the
\* transaction waits; else it passes.
At(p) == IF want[p] = None THEN todo[p] ELSE {want[p]}
Wait(p) ==
    /\ want[p] = None
    /\ \E l \in todo[p] : /\ Blockers(p, l) # {}
                          /\ want' = [want EXCEPT ![p] = l]
    /\ UNCHANGED <<input, rows, table, batchVars, todo, removing, readVars>>
Pass(p, l) ==
    /\ l \in At(p) /\ Blockers(p, l) = {}
    /\ want' = [want EXCEPT ![p] = None]
    /\ todo' = [todo EXCEPT ![p] = @ \ {l}]

-----------------------------------------------------------------------------
(* ClickRepository.RecordBatch.                                             *)

\* The mistake of handing a slice over without truncating it.
BeginKeeps(w, B) ==
    /\ pc[w] = "idle" /\ B # {} /\ Cardinality(B) <= BatchSize
    /\ batch' = [batch EXCEPT ![w] = B]
    /\ pc' = [pc EXCEPT ![w] = "copy"]
    /\ todo' = [todo EXCEPT ![w] = LinksOf(B)]
    /\ UNCHANGED <<input, rows, table, want, shared, counted, removing, readVars>>
Begin(w, B) ==
    /\ pc[w] = "idle" /\ B # {} /\ Cardinality(B) <= BatchSize
    /\ input' = input \ B
    /\ batch' = [batch EXCEPT ![w] = B]
    /\ pc' = [pc EXCEPT ![w] = "copy"]
    /\ todo' = [todo EXCEPT ![w] = LinksOf(B)]
    /\ UNCHANGED <<rows, table, want, shared, counted, removing, readVars>>

\* The transaction is over and its locks are free, committed or rolled back.
Release(w) ==
    /\ pc' = [pc EXCEPT ![w] = "idle"]
    /\ batch' = [batch EXCEPT ![w] = {}]
    /\ todo' = [todo EXCEPT ![w] = {}]
    /\ want' = [want EXCEPT ![w] = None]
    /\ shared' = [shared EXCEPT ![w] = {}]
    /\ counted' = [counted EXCEPT ![w] = {}]

\* An error is returned and the deferred Rollback runs: the batch is lost.
Abort(w) ==
    /\ Release(w)
    /\ UNCHANGED <<input, rows, table, removing, readVars>>

\* The mistake of looking the link up instead of a foreign key.
CheckKeyUnlocked(w, l) ==
    /\ pc[w] = "copy"
    /\ IF Present(l)
       THEN /\ Pass(w, l)
            /\ UNCHANGED <<input, rows, table, batchVars, removing, readVars>>
       ELSE l \in At(w) /\ Abort(w)
\* The foreign-key check of one link of the COPY.
CheckKey(w, l) ==
    /\ pc[w] = "copy"
    /\ IF Present(l)
       THEN /\ Pass(w, l)
            /\ shared' = [shared EXCEPT ![w] = @ \cup {l}]
            /\ UNCHANGED <<input, rows, table, pc, batch, counted, removing, readVars>>
       ELSE l \in At(w) /\ Abort(w)

CopyEnds(w) ==
    /\ pc[w] = "copy" /\ todo[w] = {}
    /\ pc' = [pc EXCEPT ![w] = "update"]
    /\ todo' = [todo EXCEPT ![w] = LinksOf(batch[w])]
    /\ UNCHANGED <<input, rows, table, batch, want, shared, counted, removing,
                   readVars>>

\* UPDATE links SET click_count = click_count + n: a link without a row is
\* skipped.
Increment(w, l) ==
    /\ pc[w] = "update" /\ Pass(w, l)
    /\ counted' = [counted EXCEPT ![w] = IF Present(l) THEN @ \cup {l} ELSE @]
    /\ UNCHANGED <<input, rows, table, pc, batch, shared, removing, readVars>>

\* Whether the answer to a commit gets lost makes no difference to the store.
Commit(w) ==
    /\ pc[w] = "update" /\ todo[w] = {}
    /\ rows' = rows \cup batch[w]
    /\ table' = [l \in Links |->
          IF l \in counted[w]
          THEN [table[l] EXCEPT !.clicks = @ + Cardinality(ClicksOn(batch[w], l))]
          ELSE table[l]]
    /\ Release(w)
    /\ UNCHANGED <<input, removing, readVars>>

\* A statement fails or flushTimeout runs out.
BatchFails(w) == pc[w] # "idle" /\ Abort(w)

\* PostgreSQL aborts a transaction that is in a cycle of waits.
BatchDeadlocks(w) == InCycle(w) /\ Abort(w)

-----------------------------------------------------------------------------
(* The rest of the links table: SoftDelete, and the janitor's DELETE, one   *)
(* statement that takes the matching links and, by cascade, their clicks.   *)

SoftDelete(l) ==
    /\ table[l].state = "live" /\ \A w \in Workers : l \notin counted[w]
    /\ table' = [table EXCEPT ![l].state = "deleted"]
    /\ UNCHANGED <<input, rows, batchVars, todo, want, removing, readVars>>

Sweeping == todo[Janitor] # {} \/ removing # {}

SweepStart ==
    /\ ~Sweeping
    /\ todo' = [todo EXCEPT ![Janitor] = {l \in Links : /\ table[l].state = "deleted"
                                                        /\ Owner[l] = DemoTenant}]
    /\ todo' # todo
    /\ UNCHANGED <<input, rows, table, batchVars, want, removing, readVars>>

Remove(l) ==
    /\ Pass(Janitor, l)
    /\ removing' = removing \cup {l}
    /\ UNCHANGED <<input, rows, table, batchVars, readVars>>

\* The mistake of a foreign key without ON DELETE CASCADE.
SweepEndKeepsClicks ==
    /\ Sweeping /\ todo[Janitor] = {}
    /\ table' = [l \in Links |-> IF l \in removing
                                 THEN [state |-> "purged", clicks |-> 0] ELSE table[l]]
    /\ removing' = {}
    /\ UNCHANGED <<input, rows, batchVars, todo, want, readVars>>
SweepEnd ==
    /\ Sweeping /\ todo[Janitor] = {}
    /\ table' = [l \in Links |-> IF l \in removing
                                 THEN [state |-> "purged", clicks |-> 0] ELSE table[l]]
    /\ rows' = {c \in rows : LinkOf[c] \notin removing}
    /\ removing' = {}
    /\ UNCHANGED <<input, batchVars, todo, want, readVars>>

\* The DELETE is rolled back; the next sweep tries again.
SweepAborts ==
    /\ todo' = [todo EXCEPT ![Janitor] = {}]
    /\ want' = [want EXCEPT ![Janitor] = None]
    /\ removing' = {}
    /\ UNCHANGED <<input, rows, table, batchVars, readVars>>
SweepFails == Sweeping /\ SweepAborts
SweepDeadlocks == InCycle(Janitor) /\ SweepAborts

-----------------------------------------------------------------------------
(* StatsHandler and StatsService.                                           *)

ParseTimeQuery(raw, default) == IF raw = Absent THEN default ELSE raw

Owns(t, l) == table[l].state = "live" /\ Owner[l] = t

\* The parameters are checked, then that the tenant owns the link; now is what
\* the handler's clock says.
LinkStats(r, q, now) ==
    LET to == ParseTimeQuery(q.to, now)
        from == ParseTimeQuery(q.from, to - DefaultWindow)
    IN
    /\ plan[r] = None
    /\ IF /\ Bad \notin {q.from, q.to} /\ from < to
          /\ q.bucket \in {"hour", "day"} /\ Owns(q.tenant, q.link)
       THEN /\ ask' = [ask EXCEPT ![r] = [link |-> q.link, tenant |-> q.tenant,
                                          from |-> from, to |-> to]]
            /\ plan' = [plan EXCEPT ![r] = LinkFigures]
       ELSE plan' = [plan EXCEPT ![r] = <<>>] /\ UNCHANGED ask
    /\ UNCHANGED <<input, rows, table, batchVars, todo, want, removing, answer>>

Overview(r, t) ==
    /\ plan[r] = None
    /\ ask' = [ask EXCEPT ![r].tenant = t]
    /\ plan' = [plan EXCEPT ![r] = OverviewFigures]
    /\ UNCHANGED <<input, rows, table, batchVars, todo, want, removing, answer>>

OfTenant(t) == {c \in rows : Owner[LinkOf[c]] = t}
InWindow(q) == {c \in OfTenant(q.tenant) : /\ LinkOf[c] = q.link
                                         /\ q.from <= TimeOf[c] /\ TimeOf[c] < q.to}

\* GROUP BY ... ORDER BY count DESC LIMIT TopN: the rows of the largest groups.
Top(S, group) ==
    LET keys == {group[c] : c \in S}
        size(k) == Cardinality({c \in S : group[c] = k})
        largest == {K \in SUBSET keys :
                      /\ Cardinality(K) <= TopN /\ (K = keys \/ Cardinality(K) = TopN)
                      /\ \A k \in K, m \in keys \ K : size(k) >= size(m)}
    IN  {{c \in S : group[c] \in K} : K \in largest}

\* The click rows a query may count.
Reads(f, q) ==
    CASE f \in {"series", "total"} -> {InWindow(q)}
      [] f \in {"referrers", "countries", "devices"} ->
            Top(InWindow(q), LabelOf)
      [] f = "totals" -> {OfTenant(q.tenant)}
      [] f = "top_links" -> Top(OfTenant(q.tenant), LinkOf)

Query(r) ==
    /\ plan[r] \notin {None, <<>>}
    /\ \E S \in Reads(Head(plan[r]), ask[r]) : answer' = [answer EXCEPT ![r][Head(plan[r])] = S]
    /\ plan' = [plan EXCEPT ![r] = Tail(@)]
    /\ UNCHANGED <<input, rows, table, batchVars, todo, want, removing, ask>>

\* The answer goes out, or the error of a query in its place.
Respond(r) ==
    /\ plan[r] # None
    /\ plan' = [plan EXCEPT ![r] = None]
    /\ ask' = [ask EXCEPT ![r] = NotAsked]
    /\ answer' = [answer EXCEPT ![r] = [f \in Figures |-> {}]]
    /\ UNCHANGED <<input, rows, table, batchVars, todo, want, removing>>

-----------------------------------------------------------------------------

WorkerStep(w) ==
    \/ Wait(w) \/ (\E l \in Links : CheckKey(w, l) \/ Increment(w, l))
    \/ CopyEnds(w) \/ Commit(w) \/ BatchDeadlocks(w)
SweepStep ==
    Wait(Janitor) \/ (\E l \in Links : Remove(l)) \/ SweepEnd \/ SweepDeadlocks

Next ==
    \/ \E w \in Workers : WorkerStep(w) \/ BatchFails(w)
                         \/ \E B \in SUBSET input : Begin(w, B)
    \/ \E l \in Links : SoftDelete(l)
    \/ SweepStart \/ SweepStep \/ SweepFails
    \/ \E r \in Readers :
          \/ \E q \in Queries, now \in Times : LinkStats(r, q, now)
          \/ \E t \in Tenants : Overview(r, t)
          \/ Query(r) \/ Respond(r)

Spec == Init /\ [][Next]_vars

-----------------------------------------------------------------------------
(* Properties.                                                              *)

\* From the COPY to the commit every link of a batch is there: the rows the
\* foreign key holds cannot be purged, and no UPDATE of a counter is skipped.
UpdatesFindTheirLinks ==
    \A w \in Workers : pc[w] = "update" => \A l \in LinksOf(batch[w]) : Present(l)

\* A batch of a single link is never the victim of a deadlock, whatever other
\* workers and the janitor do: only the order of several UPDATEs makes one.
DeadlockNeedsTwoLinks ==
    \A w \in Workers : InCycle(w) => Cardinality(LinksOf(batch[w])) > 1

\* "The whole batch is one transaction: clicks and counters stay consistent"
\* (click.go:33-34).  Seen by its readers, the store takes batches and purges
\* one at a time, and a counter is always the number of its link's rows.
Ledger == INSTANCE ClickLedger WITH
    count <- [l \in Links |-> table[l].clicks],
    gone <- {l \in Links : table[l].state = "purged"}
IsLedger == Ledger!Spec

\* The figures of one answer come from separate statements: rows can only have
\* been added from one to the next, so the series never exceeds the total, nor
\* a listed label or link the earlier figures, unless a purge came between.
Covers(later, earlier, group) ==
    {c \in earlier : \E d \in later : group[c] = group[d]} \subseteq later
FiguresGrow ==
    \A r \in Readers : plan[r] = <<>> =>
        LET a == answer[r] IN
        /\ ask[r].link # None /\ Present(ask[r].link) =>
              /\ a["series"] \subseteq a["total"]
              /\ \A f \in {"referrers", "countries", "devices"} :
                    Covers(a[f], a["total"], LabelOf)
        /\ (\A l \in Links : Present(l)) => Covers(a["top_links"], a["totals"], LinkOf)
=============================================================================
