-------------------------- MODULE ClickStoreProofs --------------------------
(***************************************************************************)
(* Proofs about ClickStore for any links, clicks, flush workers, readers   *)
(* and queries: what the row locks of RecordBatch and of the janitor's     *)
(* DELETE give.                                                             *)
(***************************************************************************)
EXTENDS ClickStore, FiniteSetTheorems, TLAPS

-----------------------------------------------------------------------------
(* The inductive invariant.                                                 *)

\* The parameters of a request.
AskType == [link: Links \cup {None}, tenant: Tenants \cup {None}, from: Int, to: Int]

\* A click is in one batch at most, and not in the table yet.
BatchInv ==
    /\ \A w \in Workers : batch[w] \cap rows = {} /\ (pc[w] = "idle" <=> batch[w] = {})
    /\ \A v, w \in Workers : v # w => batch[v] \cap batch[w] = {}

\* What the transaction of a batch holds, and that what it holds is there.
LockInv ==
    \A w \in Workers :
        /\ pc[w] = "idle" => todo[w] = {} /\ shared[w] = {} /\ counted[w] = {}
        /\ pc[w] = "copy" =>
              /\ shared[w] \cup todo[w] = LinksOf(batch[w]) /\ shared[w] \cap todo[w] = {}
              /\ counted[w] = {}
        /\ pc[w] = "update" =>
              /\ shared[w] = LinksOf(batch[w])
              /\ counted[w] \cup todo[w] = shared[w] /\ counted[w] \cap todo[w] = {}
        /\ \A l \in shared[w] : Present(l) /\ l \notin removing

\* The DELETE is about links that are deleted and not yet purged.
SweepInv == \A l \in todo[Janitor] \cup removing : table[l].state = "deleted"

StoreInv == TypeOK /\ BatchInv /\ LockInv /\ SweepInv

\* The store starts empty.
LEMMA StoreInit == Init => StoreInv
<1> SUFFICES ASSUME Init PROVE StoreInv
  OBVIOUS
<1>1. TypeOK
  BY DEF Init, TypeOK, Parties, NotAsked
<1>2. BatchInv /\ LockInv /\ SweepInv
  BY DEF Init, BatchInv, LockInv, SweepInv, Parties
<1> QED
  BY <1>1, <1>2 DEF StoreInv

-----------------------------------------------------------------------------
(* The steps.                                                               *)

\* A row at which a transaction is, is one it has still to reach.
LEMMA AtTodo ==
    ASSUME TypeOK, NEW p \in Parties, NEW l \in At(p)
    PROVE  l \in todo[p]
<1>1. want[p] # None => want[p] \in todo[p]
  BY DEF TypeOK
<1> QED
  BY <1>1 DEF At

\* The links of a batch are links.
LEMMA LinksOfType == ASSUME NEW B \in SUBSET Clicks PROVE LinksOf(B) \subseteq Links
  BY ClicksAssumption DEF LinksOf

\* What a query may count are clicks.
LEMMA ReadsType ==
    ASSUME rows \subseteq Clicks, NEW f \in Figures, NEW q, NEW S \in Reads(f, q)
    PROVE  S \subseteq Clicks
<1>1. InWindow(q) \subseteq Clicks /\ OfTenant(q.tenant) \subseteq Clicks
  BY DEF InWindow, OfTenant
<1>2. ASSUME NEW R, NEW g, NEW K \in Top(R, g) PROVE K \subseteq R
  BY DEF Top
<1>3. CASE f \in {"series", "total"}
  BY <1>1, <1>3 DEF Reads
<1>4. CASE f \in {"referrers", "countries", "devices"}
  BY <1>1, <1>2, <1>4 DEF Reads
<1>5. CASE f = "totals"
  BY <1>1, <1>5 DEF Reads
<1>6. CASE f = "top_links"
  BY <1>1, <1>2, <1>6 DEF Reads
<1> QED
  BY <1>3, <1>4, <1>5, <1>6 DEF Figures

\* A statistics request reads and leaves the store alone.
LEMMA ReadStep ==
    ASSUME StoreInv, NEW r \in Readers,
           \/ \E q \in Queries, now \in Times : LinkStats(r, q, now)
           \/ \E t \in Tenants : Overview(r, t)
           \/ Query(r) \/ Respond(r)
    PROVE  StoreInv' /\ UNCHANGED <<input, rows, table, batchVars, todo, want, removing>>
<1>1. UNCHANGED <<input, rows, table, pc, batch, shared, counted, todo, want, removing>>
  BY DEF LinkStats, Overview, Query, Respond, batchVars
<1>2. plan' \in [Readers -> Seq(Figures) \cup {None}]
  <2>1. LinkFigures \in Seq(Figures) /\ OverviewFigures \in Seq(Figures) /\ <<>> \in Seq(Figures)
    BY DEF LinkFigures, OverviewFigures, Figures
  <2>2. ASSUME Query(r) PROVE Tail(plan[r]) \in Seq(Figures)
    <3>1. plan[r] \in Seq(Figures) /\ plan[r] # <<>>
      BY <2>2 DEF StoreInv, TypeOK, Query
    <3> QED
      BY <3>1
  <2> QED
    BY <2>1, <2>2 DEF StoreInv, TypeOK, LinkStats, Overview, Query, Respond
<1>3. ask' \in [Readers -> AskType]
  <2>0. ask \in [Readers -> AskType]
    BY DEF StoreInv, TypeOK, AskType
  <2>1. ASSUME NEW q \in Queries, NEW now \in Times, LinkStats(r, q, now)
        PROVE  ask' \in [Readers -> AskType]
    <3> DEFINE to == ParseTimeQuery(q.to, now)
               from == ParseTimeQuery(q.from, to - DefaultWindow)
    <3>1. /\ q.tenant \in Tenants /\ q.link \in Links
          /\ q.from \in Times \cup {Absent, Bad} /\ q.to \in Times \cup {Absent, Bad}
      BY QueriesAssumption
    <3>2. /\ Times \subseteq Int /\ DefaultWindow \in Int
      BY StoreSizesAssumption
    <3>3. Bad # q.to => to \in Int
      BY <3>1, <3>2 DEF ParseTimeQuery
    <3>4. ASSUME Bad # q.from, to \in Int PROVE from \in Int
      <4> HIDE DEF to
      <4>1. from = IF q.from = Absent THEN to - DefaultWindow ELSE q.from
        BY DEF ParseTimeQuery
      <4>2. q.from # Absent => q.from \in Int
        BY <3>1, <3>2, <3>4
      <4> HIDE DEF from
      <4> QED
        BY <3>2, <3>4, <4>1, <4>2
    <3>5. \/ UNCHANGED ask
          \/ /\ Bad \notin {q.from, q.to}
             /\ ask' = [ask EXCEPT ![r] = [link |-> q.link, tenant |-> q.tenant,
                                           from |-> from, to |-> to]]
      BY <2>1 DEF LinkStats
    <3> HIDE DEF to, from
    <3>6. to \in Int /\ from \in Int =>
            [link |-> q.link, tenant |-> q.tenant, from |-> from, to |-> to] \in AskType
      BY <3>1 DEF AskType
    <3> QED
      BY <2>0, <3>3, <3>4, <3>5, <3>6
  <2>2. ASSUME NEW t \in Tenants, Overview(r, t) PROVE ask' \in [Readers -> AskType]
    BY <2>0, <2>2 DEF Overview, AskType
  <2>3. ASSUME Respond(r) PROVE ask' \in [Readers -> AskType]
    <3>1. NotAsked \in AskType
      BY DEF NotAsked, AskType
    <3> QED
      BY <2>0, <2>3, <3>1 DEF Respond
  <2>4. ASSUME Query(r) PROVE ask' \in [Readers -> AskType]
    BY <2>0, <2>4 DEF Query
  <2> QED
    BY <2>1, <2>2, <2>3, <2>4
<1>4. answer' \in [Readers -> [Figures -> SUBSET Clicks]]
  <2>0. answer \in [Readers -> [Figures -> SUBSET Clicks]]
    BY DEF StoreInv, TypeOK
  <2>1. ASSUME Query(r) PROVE answer' \in [Readers -> [Figures -> SUBSET Clicks]]
    <3>1. Head(plan[r]) \in Figures
      BY <2>1 DEF StoreInv, TypeOK, Query
    <3>2. PICK S \in Reads(Head(plan[r]), ask[r]) :
              answer' = [answer EXCEPT ![r][Head(plan[r])] = S]
      BY <2>1 DEF Query
    <3>3. S \subseteq Clicks
      BY <3>1, <3>2, ReadsType DEF StoreInv, TypeOK
    <3> QED
      BY <2>0, <3>1, <3>2, <3>3
  <2>2. ASSUME Respond(r) PROVE answer' \in [Readers -> [Figures -> SUBSET Clicks]]
    BY <2>0, <2>2 DEF Respond
  <2>3. ASSUME \/ \E q \in Queries, now \in Times : LinkStats(r, q, now)
               \/ \E t \in Tenants : Overview(r, t)
        PROVE  UNCHANGED answer
    BY <2>3 DEF LinkStats, Overview
  <2> QED
    BY <2>0, <2>1, <2>2, <2>3
<1>5. TypeOK'
  BY <1>1, <1>2, <1>3, <1>4 DEF StoreInv, TypeOK, AskType
<1>6. BatchInv' /\ LockInv' /\ SweepInv'
  BY <1>1 DEF StoreInv, BatchInv, LockInv, SweepInv, Present
<1> QED
  BY <1>1, <1>5, <1>6 DEF StoreInv, batchVars

\* A worker that ends its transaction, committed or not, keeps nothing.
LEMMA ReleaseStep ==
    ASSUME StoreInv, NEW w \in Workers, Release(w),
           UNCHANGED <<input, removing, readVars>>,
           rows \subseteq rows', rows' \subseteq rows \cup batch[w],
           table' \in [Links -> [state: {"live", "deleted", "purged"}, clicks: Nat]],
           \A l \in Links : table'[l].state = table[l].state
    PROVE  StoreInv'
<1>0. TypeOK /\ BatchInv /\ LockInv /\ SweepInv /\ w \in Parties /\ Janitor \in Parties
  BY DEF StoreInv, Parties
<1>1. /\ pc' = [pc EXCEPT ![w] = "idle"] /\ batch' = [batch EXCEPT ![w] = {}]
      /\ todo' = [todo EXCEPT ![w] = {}] /\ want' = [want EXCEPT ![w] = None]
      /\ shared' = [shared EXCEPT ![w] = {}] /\ counted' = [counted EXCEPT ![w] = {}]
      /\ UNCHANGED <<input, removing, plan, ask, answer>>
  BY DEF Release, readVars
<1>2. TypeOK'
  BY <1>0, <1>1 DEF TypeOK, BatchInv
<1>3. BatchInv'
  BY <1>0, <1>1 DEF TypeOK, BatchInv
<1>4. LockInv'
  BY <1>0, <1>1 DEF TypeOK, LockInv, Present, Parties
<1>5. SweepInv'
  <2>1. todo'[Janitor] = todo[Janitor] /\ todo[Janitor] \subseteq Links /\ removing \subseteq Links
    BY <1>0, <1>1, StoreNamesAssumption DEF TypeOK
  <2> QED
    BY <1>0, <1>1, <2>1 DEF SweepInv
<1> QED
  BY <1>2, <1>3, <1>4, <1>5 DEF StoreInv

\* A batch begins, waits, passes a row, or goes from the COPY to the UPDATEs.
LEMMA BatchStep ==
    ASSUME StoreInv, NEW w \in Workers,
           \/ Wait(w) \/ CopyEnds(w)
           \/ \E B \in SUBSET input : Begin(w, B)
           \/ \E l \in Links : Present(l) /\ CheckKey(w, l)
           \/ \E l \in Links : Increment(w, l)
    PROVE  StoreInv' /\ UNCHANGED <<rows, table, removing, readVars>>
<1>0. TypeOK /\ BatchInv /\ LockInv /\ SweepInv /\ w \in Parties /\ Janitor \in Parties
      /\ Janitor # w
  BY StoreNamesAssumption DEF StoreInv, Parties
<1>1. UNCHANGED <<rows, table, removing, plan, ask, answer>>
  BY DEF Wait, CopyEnds, Begin, CheckKey, Increment, Pass, batchVars, readVars
<1>2. ASSUME Wait(w) PROVE StoreInv'
  <2>1. UNCHANGED <<input, rows, table, pc, batch, todo, shared, counted, removing>>
    BY <1>2 DEF Wait, batchVars
  <2>2. PICK l \in todo[w] : want' = [want EXCEPT ![w] = l]
    BY <1>2 DEF Wait
  <2>3. TypeOK'
    BY <1>0, <1>1, <2>1, <2>2 DEF TypeOK
  <2> QED
    BY <1>0, <2>1, <2>3 DEF StoreInv, BatchInv, LockInv, SweepInv, Present
<1>3. ASSUME NEW B \in SUBSET input, Begin(w, B) PROVE StoreInv'
  <2>1. /\ pc[w] = "idle" /\ B # {} /\ input' = input \ B
        /\ batch' = [batch EXCEPT ![w] = B] /\ pc' = [pc EXCEPT ![w] = "copy"]
        /\ todo' = [todo EXCEPT ![w] = LinksOf(B)]
        /\ UNCHANGED <<want, shared, counted>>
    BY <1>3 DEF Begin
  <2>2. LinksOf(B) \subseteq Links /\ B \subseteq Clicks
    BY <1>0, LinksOfType DEF TypeOK
  <2>3. want[w] = None
    BY <1>0, <2>1 DEF TypeOK, LockInv
  <2>4. TypeOK'
    BY <1>0, <1>1, <2>1, <2>2, <2>3 DEF TypeOK
  <2>5. BatchInv'
    BY <1>0, <1>1, <2>1, <2>2 DEF TypeOK, BatchInv
  <2>6. LockInv'
    BY <1>0, <1>1, <2>1, <2>2 DEF TypeOK, LockInv, Present
  <2>7. SweepInv'
    BY <1>0, <1>1, <2>1 DEF TypeOK, SweepInv
  <2> QED
    BY <2>4, <2>5, <2>6, <2>7 DEF StoreInv
<1>4. ASSUME NEW l \in Links, Present(l), CheckKey(w, l) PROVE StoreInv'
  <2>1. /\ pc[w] = "copy" /\ l \in At(w) /\ Blockers(w, l) = {}
        /\ want' = [want EXCEPT ![w] = None] /\ todo' = [todo EXCEPT ![w] = @ \ {l}]
        /\ shared' = [shared EXCEPT ![w] = @ \cup {l}]
        /\ UNCHANGED <<input, pc, batch, counted>>
    BY <1>4 DEF CheckKey, Pass
  <2>2. l \in todo[w] /\ l \notin removing
    BY <1>0, <2>1, AtTodo DEF Blockers
  <2>3. TypeOK'
    BY <1>0, <1>1, <2>1 DEF TypeOK
  <2>4. BatchInv'
    BY <1>0, <1>1, <2>1 DEF BatchInv
  <2>5. LockInv'
    BY <1>0, <1>1, <1>4, <2>1, <2>2 DEF TypeOK, LockInv, Present
  <2>6. SweepInv'
    BY <1>0, <1>1, <2>1 DEF TypeOK, SweepInv
  <2> QED
    BY <2>3, <2>4, <2>5, <2>6 DEF StoreInv
<1>5. ASSUME CopyEnds(w) PROVE StoreInv'
  <2>1. /\ pc[w] = "copy" /\ todo[w] = {} /\ pc' = [pc EXCEPT ![w] = "update"]
        /\ todo' = [todo EXCEPT ![w] = LinksOf(batch[w])]
        /\ UNCHANGED <<input, batch, want, shared, counted>>
    BY <1>5 DEF CopyEnds
  <2>2. LinksOf(batch[w]) \subseteq Links
    BY <1>0, LinksOfType DEF TypeOK
  <2>3. want[w] = None
    BY <1>0, <2>1 DEF TypeOK
  <2>4. TypeOK'
    BY <1>0, <1>1, <2>1, <2>2, <2>3 DEF TypeOK
  <2>5. BatchInv'
    BY <1>0, <1>1, <2>1 DEF TypeOK, BatchInv
  <2>6. LockInv'
    <3>1. shared[w] = LinksOf(batch[w]) /\ counted[w] = {}
      BY <1>0, <2>1 DEF LockInv
    <3>2. todo'[w] = LinksOf(batch[w]) /\ pc'[w] = "update"
      BY <1>0, <2>1 DEF TypeOK
    <3>3. \A v \in Workers : v # w => todo'[v] = todo[v] /\ pc'[v] = pc[v]
      BY <1>0, <2>1 DEF TypeOK
    <3> QED
      BY <1>0, <1>1, <2>1, <3>1, <3>2, <3>3 DEF LockInv, Present
  <2>7. SweepInv'
    BY <1>0, <1>1, <2>1 DEF TypeOK, SweepInv
  <2> QED
    BY <2>4, <2>5, <2>6, <2>7 DEF StoreInv
<1>6. ASSUME NEW l \in Links, Increment(w, l) PROVE StoreInv'
  <2>1. /\ pc[w] = "update" /\ l \in At(w)
        /\ want' = [want EXCEPT ![w] = None] /\ todo' = [todo EXCEPT ![w] = @ \ {l}]
        /\ counted' = [counted EXCEPT ![w] = IF Present(l) THEN @ \cup {l} ELSE @]
        /\ UNCHANGED <<input, pc, batch, shared>>
    BY <1>6 DEF Increment, Pass
  <2>2. l \in todo[w]
    BY <1>0, <2>1, AtTodo
  <2>3. l \in shared[w] /\ Present(l)
    BY <1>0, <2>1, <2>2 DEF LockInv
  <2>4. TypeOK'
    BY <1>0, <1>1, <2>1 DEF TypeOK
  <2>5. BatchInv'
    BY <1>0, <1>1, <2>1 DEF BatchInv
  <2>6. LockInv'
    BY <1>0, <1>1, <2>1, <2>2, <2>3 DEF TypeOK, LockInv, Present
  <2>7. SweepInv'
    BY <1>0, <1>1, <2>1 DEF TypeOK, SweepInv
  <2> QED
    BY <2>4, <2>5, <2>6, <2>7 DEF StoreInv
<1> QED
  BY <1>1, <1>2, <1>3, <1>4, <1>5, <1>6 DEF readVars

\* A delete and the janitor's sweep.
LEMMA SweepingStep ==
    ASSUME StoreInv,
           \/ \E l \in Links : SoftDelete(l) \/ Remove(l)
           \/ SweepStart \/ Wait(Janitor) \/ SweepEnd \/ SweepAborts
    PROVE  StoreInv'
<1>0. TypeOK /\ BatchInv /\ LockInv /\ SweepInv /\ Janitor \in Parties /\ Janitor \notin Workers
  BY StoreNamesAssumption DEF StoreInv, Parties
<1>1. UNCHANGED <<input, pc, batch, shared, counted, plan, ask, answer>>
  BY DEF SoftDelete, Remove, SweepStart, Wait, SweepEnd, SweepAborts, batchVars, readVars
<1>2. ASSUME NEW l \in Links, SoftDelete(l) PROVE StoreInv'
  <2>1. /\ table[l].state = "live" /\ UNCHANGED <<rows, todo, want, removing>>
        /\ table' = [table EXCEPT ![l].state = "deleted"]
    BY <1>2 DEF SoftDelete
  <2>2. table' \in [Links -> [state: {"live", "deleted", "purged"}, clicks: Nat]]
    <3>1. table \in [Links -> [state: {"live", "deleted", "purged"}, clicks: Nat]]
      BY <1>0 DEF TypeOK
    <3>2. [table[l] EXCEPT !.state = "deleted"] \in [state: {"live", "deleted", "purged"},
                                                     clicks: Nat]
      BY <3>1
    <3> QED
      BY <2>1, <3>1, <3>2
  <2>3. TypeOK'
    BY <1>0, <1>1, <2>1, <2>2 DEF TypeOK
  <2>4. \A m \in Links : table'[m].state = IF m = l THEN "deleted" ELSE table[m].state
    BY <1>0, <2>1 DEF TypeOK
  <2>5. LockInv'
    BY <1>0, <1>1, <2>1, <2>4 DEF TypeOK, LockInv, Present
  <2>6. SweepInv'
    BY <1>0, <2>1, <2>4 DEF TypeOK, SweepInv
  <2> QED
    BY <1>0, <1>1, <2>1, <2>3, <2>5, <2>6 DEF StoreInv, BatchInv
<1>3. ASSUME NEW l \in Links, Remove(l) PROVE StoreInv'
  <2>1. /\ l \in At(Janitor) /\ Blockers(Janitor, l) = {}
        /\ want' = [want EXCEPT ![Janitor] = None]
        /\ todo' = [todo EXCEPT ![Janitor] = @ \ {l}]
        /\ removing' = removing \cup {l} /\ UNCHANGED <<rows, table>>
    BY <1>3 DEF Remove, Pass
  <2>2. l \in todo[Janitor] /\ \A w \in Workers : l \notin shared[w]
    BY <1>0, <2>1, AtTodo DEF Blockers
  <2>3. TypeOK'
    BY <1>0, <1>1, <2>1 DEF TypeOK
  <2>4. LockInv'
    BY <1>0, <1>1, <2>1, <2>2 DEF TypeOK, LockInv, Present, Parties
  <2>5. SweepInv'
    BY <1>0, <2>1, <2>2 DEF TypeOK, SweepInv
  <2> QED
    BY <1>0, <1>1, <2>1, <2>3, <2>4, <2>5 DEF StoreInv, BatchInv
<1>4. ASSUME SweepStart PROVE StoreInv'
  <2>1. /\ todo[Janitor] = {} /\ removing = {}
        /\ todo' = [todo EXCEPT ![Janitor] = {l \in Links : /\ table[l].state = "deleted"
                                                            /\ Owner[l] = DemoTenant}]
        /\ UNCHANGED <<rows, table, want, removing>>
    BY <1>4 DEF SweepStart, Sweeping
  <2>2. want[Janitor] = None
    BY <1>0, <2>1 DEF TypeOK
  <2>3. TypeOK'
    BY <1>0, <1>1, <2>1, <2>2 DEF TypeOK
  <2>4. LockInv'
    BY <1>0, <1>1, <2>1 DEF TypeOK, LockInv, Present, Parties
  <2>5. SweepInv'
    BY <1>0, <2>1 DEF TypeOK, SweepInv
  <2> QED
    BY <1>0, <1>1, <2>1, <2>3, <2>4, <2>5 DEF StoreInv, BatchInv
<1>5. ASSUME Wait(Janitor) PROVE StoreInv'
  <2>1. PICK l \in todo[Janitor] : want' = [want EXCEPT ![Janitor] = l]
    BY <1>5 DEF Wait
  <2>2. UNCHANGED <<rows, table, todo, removing>>
    BY <1>5 DEF Wait
  <2>3. TypeOK'
    BY <1>0, <1>1, <2>1, <2>2 DEF TypeOK
  <2> QED
    BY <1>0, <1>1, <2>2, <2>3 DEF StoreInv, BatchInv, LockInv, SweepInv, Present
<1>6. ASSUME SweepEnd PROVE StoreInv'
  <2>1. /\ todo[Janitor] = {}
        /\ table' = [l \in Links |-> IF l \in removing
                                     THEN [state |-> "purged", clicks |-> 0] ELSE table[l]]
        /\ rows' = {c \in rows : LinkOf[c] \notin removing}
        /\ removing' = {} /\ UNCHANGED <<todo, want>>
    BY <1>6 DEF SweepEnd
  <2>2. TypeOK'
    BY <1>0, <1>1, <2>1 DEF TypeOK
  <2>3. LockInv'
    BY <1>0, <1>1, <2>1 DEF TypeOK, LockInv, Present
  <2>4. BatchInv' /\ SweepInv'
    BY <1>0, <1>1, <2>1 DEF BatchInv, SweepInv
  <2> QED
    BY <2>2, <2>3, <2>4 DEF StoreInv
<1>7. ASSUME SweepAborts PROVE StoreInv'
  <2>1. /\ todo' = [todo EXCEPT ![Janitor] = {}] /\ want' = [want EXCEPT ![Janitor] = None]
        /\ removing' = {} /\ UNCHANGED <<rows, table>>
    BY <1>7 DEF SweepAborts
  <2>2. TypeOK'
    BY <1>0, <1>1, <2>1 DEF TypeOK
  <2>3. LockInv'
    BY <1>0, <1>1, <2>1 DEF TypeOK, LockInv, Present, Parties
  <2>4. BatchInv' /\ SweepInv'
    BY <1>0, <1>1, <2>1 DEF TypeOK, BatchInv, SweepInv
  <2> QED
    BY <2>2, <2>3, <2>4 DEF StoreInv
<1> QED
  BY <1>2, <1>3, <1>4, <1>5, <1>6, <1>7

\* A commit adds to each counter the number of the batch's clicks on its link.
LEMMA CommitTable ==
    ASSUME StoreInv, NEW w \in Workers, Commit(w)
    PROVE  /\ table' \in [Links -> [state: {"live", "deleted", "purged"}, clicks: Nat]]
           /\ \A l \in Links :
                 /\ table'[l].state = table[l].state
                 /\ table'[l].clicks = table[l].clicks + Cardinality(ClicksOn(batch[w], l))
<1>0. TypeOK /\ LockInv
  BY DEF StoreInv
<1>1. table' = [l \in Links |->
          IF l \in counted[w]
          THEN [table[l] EXCEPT !.clicks = @ + Cardinality(ClicksOn(batch[w], l))]
          ELSE table[l]]
  BY DEF Commit
<1>2. counted[w] = LinksOf(batch[w])
  BY <1>0 DEF LockInv, Commit
<1>3. \A l \in Links : Cardinality(ClicksOn(batch[w], l)) \in Nat
  BY <1>0, ClicksAssumption, FS_Subset, FS_CardinalityType DEF TypeOK, ClicksOn
<1>4. \A l \in Links : l \notin counted[w] => Cardinality(ClicksOn(batch[w], l)) = 0
  <2>1. \A l \in Links : l \notin counted[w] => ClicksOn(batch[w], l) = {}
    BY <1>2 DEF LinksOf, ClicksOn
  <2> QED
    BY <2>1, FS_EmptySet
<1>5. ASSUME NEW l \in Links
      PROVE  /\ table'[l] \in [state: {"live", "deleted", "purged"}, clicks: Nat]
             /\ table'[l].state = table[l].state
             /\ table'[l].clicks = table[l].clicks + Cardinality(ClicksOn(batch[w], l))
  <2> DEFINE n == Cardinality(ClicksOn(batch[w], l))
  <2>1. /\ table[l] \in [state: {"live", "deleted", "purged"}, clicks: Nat]
        /\ n \in Nat /\ (l \notin counted[w] => n = 0)
    BY <1>0, <1>3, <1>4 DEF TypeOK
  <2>2. table'[l] = IF l \in counted[w] THEN [table[l] EXCEPT !.clicks = @ + n] ELSE table[l]
    BY <1>1
  <2> HIDE DEF n
  <2>3. /\ table'[l] \in [state: {"live", "deleted", "purged"}, clicks: Nat]
        /\ table'[l].state = table[l].state /\ table'[l].clicks = table[l].clicks + n
    BY <2>1, <2>2
  <2> QED
    BY <2>3 DEF n
<1>6. DOMAIN table' = Links /\ table' = [l \in Links |-> table'[l]]
  BY <1>1
<1> QED
  BY <1>5, <1>6

\* Every step preserves the invariant of the store.
LEMMA StoreStep == StoreInv /\ [Next]_vars => StoreInv'
<1> SUFFICES ASSUME StoreInv, [Next]_vars PROVE StoreInv'
  OBVIOUS
<1>1. ASSUME NEW w \in Workers, Abort(w) PROVE StoreInv'
  <2>1. Release(w) /\ UNCHANGED <<input, rows, table, removing, readVars>>
    BY <1>1 DEF Abort
  <2> QED
    BY <2>1, ReleaseStep DEF StoreInv, TypeOK
<1>2. ASSUME NEW w \in Workers, Commit(w) PROVE StoreInv'
  <2>1. /\ Release(w) /\ rows' = rows \cup batch[w] /\ UNCHANGED <<input, removing, readVars>>
    BY <1>2 DEF Commit
  <2> QED
    BY <1>2, <2>1, CommitTable, ReleaseStep
<1>3. ASSUME NEW w \in Workers, WorkerStep(w) \/ BatchFails(w) PROVE StoreInv'
  <2>1. ASSUME NEW l \in Links, CheckKey(w, l) PROVE Present(l) \/ Abort(w)
    BY <2>1 DEF CheckKey
  <2> QED
    BY <1>1, <1>2, <1>3, <2>1, BatchStep DEF WorkerStep, BatchFails, BatchDeadlocks
<1>4. ASSUME NEW w \in Workers, NEW B \in SUBSET input, Begin(w, B) PROVE StoreInv'
  BY <1>4, BatchStep
<1>5. ASSUME \/ \E l \in Links : SoftDelete(l)
             \/ SweepStart \/ SweepStep \/ SweepFails
      PROVE  StoreInv'
  BY <1>5, SweepingStep DEF SweepStep, SweepFails, SweepDeadlocks
<1>6. ASSUME NEW r \in Readers,
             \/ \E q \in Queries, now \in Times : LinkStats(r, q, now)
             \/ \E t \in Tenants : Overview(r, t)
             \/ Query(r) \/ Respond(r)
      PROVE  StoreInv'
  BY <1>6, ReadStep
<1>7. CASE UNCHANGED vars
  BY <1>7 DEF vars, StoreInv, TypeOK, BatchInv, LockInv, SweepInv, Present
<1> QED
  BY <1>3, <1>4, <1>5, <1>6, <1>7 DEF Next

\* Every run satisfies the invariant of the store.
THEOREM StoreInvariance == Spec => []StoreInv
  BY StoreInit, StoreStep, PTL DEF Spec

\* Clicks, rows, counters, locks and answers keep their types, and no click is
\* both waiting and written.
THEOREM TypeCorrect == Spec => []TypeOK
<1>1. StoreInv => TypeOK
  BY DEF StoreInv
<1> QED
  BY <1>1, StoreInvariance, PTL

\* The foreign key's row locks keep every link of a batch in the table until
\* the commit, so no UPDATE of RecordBatch finds its link gone.
THEOREM UpdatesFindTheirLinksCorrect == Spec => []UpdatesFindTheirLinks
<1>1. StoreInv => UpdatesFindTheirLinks
  BY DEF StoreInv, LockInv, UpdatesFindTheirLinks
<1> QED
  BY <1>1, StoreInvariance, PTL

-----------------------------------------------------------------------------
(* The ledger.                                                              *)

\* The ledger counts clicks as the store does.
LEMMA LedgerCounts == ASSUME NEW S PROVE Ledger!Cardinality(S) = Cardinality(S)
  BY DEF Ledger!Cardinality, Cardinality

\* A step either enters one batch, or purges what the janitor holds, or is not
\* visible to the readers of the two tables.
LEMMA LedgerStep == StoreInv /\ [Next]_vars => [Ledger!Next]_(Ledger!vars)
<1> SUFFICES ASSUME StoreInv, [Next]_vars PROVE [Ledger!Next]_(Ledger!vars)
  OBVIOUS
<1>0. TypeOK /\ BatchInv /\ LockInv /\ SweepInv
  BY DEF StoreInv
<1> DEFINE count == [l \in Links |-> table[l].clicks]
           gone == {l \in Links : table[l].state = "purged"}
<1>1. ASSUME UNCHANGED <<rows, table>> PROVE UNCHANGED Ledger!vars
  BY <1>1 DEF Ledger!vars
<1>2. ASSUME NEW w \in Workers, Commit(w) PROVE Ledger!Next
  <2>1. /\ batch[w] # {} /\ batch[w] \subseteq Clicks \ rows
        /\ \A c \in batch[w] : LinkOf[c] \notin gone
    <3>1. batch[w] # {} /\ batch[w] \cap rows = {} /\ batch[w] \subseteq Clicks
      BY <1>0, <1>2 DEF BatchInv, TypeOK, Commit
    <3>2. \A l \in LinksOf(batch[w]) : Present(l)
      BY <1>0, <1>2 DEF LockInv, Commit
    <3> QED
      BY <3>1, <3>2 DEF LinksOf, Present
  <2>2. rows' = rows \cup batch[w] /\ rows' \ rows = batch[w]
    BY <1>2, <2>1 DEF Commit
  <2>3. \A l \in Links : /\ table'[l].state = table[l].state
                         /\ table'[l].clicks = table[l].clicks
                              + Cardinality(Ledger!ClicksOn(batch[w], l))
    BY <1>2, CommitTable DEF ClicksOn, Ledger!ClicksOn
  <2>4. /\ gone' = gone
        /\ count' = [l \in Links |-> count[l] + Cardinality(Ledger!ClicksOn(batch[w], l))]
    BY <2>3
  <2>5. Ledger!Enter(batch[w])
    BY <2>1, <2>2, <2>4, LedgerCounts DEF Ledger!Enter
  <2> QED
    BY <2>2, <2>5 DEF Ledger!Next, Ledger!Enter
<1>3. ASSUME SweepEnd PROVE Ledger!Next
  <2>1. /\ removing # {} /\ removing \subseteq Links \ gone
    BY <1>0, <1>3 DEF SweepEnd, Sweeping, SweepInv, TypeOK
  <2>2. /\ table' = [l \in Links |-> IF l \in removing
                                     THEN [state |-> "purged", clicks |-> 0] ELSE table[l]]
        /\ rows' = {c \in rows : LinkOf[c] \notin removing}
    BY <1>3 DEF SweepEnd
  <2>3. gone' = gone \cup removing /\ gone' \ gone = removing
    BY <2>1, <2>2
  <2>4. count' = [l \in Links |-> IF l \in removing THEN 0 ELSE count[l]]
    BY <2>2
  <2>5. Ledger!Remove(removing)
    BY <2>1, <2>2, <2>3, <2>4 DEF Ledger!Remove
  <2> QED
    BY <2>3, <2>5 DEF Ledger!Next, Ledger!Remove
<1>4. ASSUME NEW l \in Links, SoftDelete(l) PROVE UNCHANGED Ledger!vars
  <2>1. /\ rows' = rows /\ table[l].state = "live"
        /\ table' = [table EXCEPT ![l].state = "deleted"]
    BY <1>4 DEF SoftDelete
  <2>2. \A m \in Links : /\ table'[m].clicks = table[m].clicks
                         /\ table'[m].state = "purged" <=> table[m].state = "purged"
    BY <1>0, <2>1 DEF TypeOK
  <2>3. gone' = gone /\ count' = count
    BY <2>2
  <2> QED
    BY <2>1, <2>3 DEF Ledger!vars
<1>5. ASSUME NEW w \in Workers, WorkerStep(w) \/ BatchFails(w) PROVE Commit(w) \/ UNCHANGED <<rows, table>>
  BY <1>5 DEF WorkerStep, BatchFails, BatchDeadlocks, Abort, Wait, CheckKey, CopyEnds, Increment
<1>6. ASSUME NEW w \in Workers, NEW B \in SUBSET input, Begin(w, B) PROVE UNCHANGED <<rows, table>>
  BY <1>6 DEF Begin
<1>7. ASSUME SweepStart \/ SweepStep \/ SweepFails PROVE SweepEnd \/ UNCHANGED <<rows, table>>
  BY <1>7 DEF SweepStart, SweepStep, SweepFails, SweepDeadlocks, SweepAborts, Wait, Remove
<1>8. ASSUME NEW r \in Readers,
             \/ \E q \in Queries, now \in Times : LinkStats(r, q, now)
             \/ \E t \in Tenants : Overview(r, t)
             \/ Query(r) \/ Respond(r)
      PROVE  UNCHANGED <<rows, table>>
  BY <1>8 DEF LinkStats, Overview, Query, Respond
<1>9. CASE UNCHANGED vars
  BY <1>1, <1>9 DEF vars
<1> QED
  BY <1>1, <1>2, <1>3, <1>4, <1>5, <1>6, <1>7, <1>8, <1>9 DEF Next

\* "The whole batch is one transaction": however COPY, UPDATEs, aborts and the
\* janitor's cascade interleave, readers see whole batches and counters that
\* agree with the rows.
THEOREM LedgerCorrect == Spec => IsLedger
<1>1. Init => Ledger!Init
  BY DEF Init, Ledger!Init
<1> QED
  BY <1>1, LedgerStep, StoreInvariance, PTL DEF Spec, IsLedger, Ledger!Spec

\* A link's click_count is the number of its rows in the clicks table.
CountersMatchRows == \A l \in Links : table[l].clicks = Cardinality(ClicksOn(rows, l))

\* A batch and the table have no click in common, so on each link their rows
\* add up.
LEMMA RowsAddUp ==
    ASSUME NEW R \in SUBSET Clicks, NEW B \in SUBSET Clicks, B \cap R = {}, NEW l
    PROVE  Cardinality(ClicksOn(R \cup B, l))
              = Cardinality(ClicksOn(R, l)) + Cardinality(ClicksOn(B, l))
<1> DEFINE S == ClicksOn(R, l)
           T == ClicksOn(B, l)
<1>1. ClicksOn(R \cup B, l) = S \cup T /\ S \cap T = {} /\ S \subseteq Clicks /\ T \subseteq Clicks
  BY DEF ClicksOn
<1>2. IsFiniteSet(S) /\ IsFiniteSet(T)
  BY <1>1, FS_Subset, ClicksAssumption
<1>3. Cardinality(S \cup T) = Cardinality(S) + Cardinality(T) - Cardinality(S \cap T)
  BY <1>2, FS_Union
<1>4. Cardinality(S) \in Nat /\ Cardinality(T) \in Nat /\ Cardinality(S \cap T) = 0
  BY <1>1, <1>2, FS_CardinalityType, FS_EmptySet
<1> HIDE DEF S, T
<1>5. Cardinality(S \cup T) = Cardinality(S) + Cardinality(T)
  BY <1>3, <1>4
<1> QED
  BY <1>1, <1>5 DEF S, T

\* What one step of the ledger does to counters and rows keeps them equal.
LEMMA CountersStep ==
    StoreInv /\ CountersMatchRows /\ [Ledger!Next]_(Ledger!vars) => CountersMatchRows'
<1> SUFFICES ASSUME StoreInv, CountersMatchRows, [Ledger!Next]_(Ledger!vars), NEW l \in Links
             PROVE  table'[l].clicks = Cardinality(ClicksOn(rows', l))
  BY DEF CountersMatchRows, ClicksOn
<1> DEFINE count == [m \in Links |-> table[m].clicks]
           gone == {m \in Links : table[m].state = "purged"}
           B == rows' \ rows
           L == gone' \ gone
<1>0. rows \subseteq Clicks /\ count[l] = Cardinality(ClicksOn(rows, l))
  BY DEF StoreInv, TypeOK, CountersMatchRows
<1>1. table'[l].clicks = count'[l]
  OBVIOUS
<1>2. ASSUME Ledger!Enter(B) PROVE count'[l] = Cardinality(ClicksOn(rows', l))
  <2>1. /\ B \subseteq Clicks \ rows /\ rows' = rows \cup B
        /\ count' = [m \in Links |-> count[m] + Cardinality(Ledger!ClicksOn(B, m))]
    BY <1>2, LedgerCounts DEF Ledger!Enter
  <2> HIDE DEF B
  <2>2. Ledger!ClicksOn(B, l) = ClicksOn(B, l)
    BY DEF Ledger!ClicksOn, ClicksOn
  <2>3. Cardinality(ClicksOn(rows \cup B, l))
           = Cardinality(ClicksOn(rows, l)) + Cardinality(ClicksOn(B, l))
    BY <1>0, <2>1, RowsAddUp
  <2> HIDE DEF count
  <2> QED
    BY <1>0, <2>1, <2>2, <2>3
<1>3. ASSUME Ledger!Remove(L) PROVE count'[l] = Cardinality(ClicksOn(rows', l))
  <2>1. /\ rows' = {c \in rows : LinkOf[c] \notin L}
        /\ count' = [m \in Links |-> IF m \in L THEN 0 ELSE count[m]]
    BY <1>3 DEF Ledger!Remove
  <2>2. ClicksOn(rows', l) = IF l \in L THEN {} ELSE ClicksOn(rows, l)
    BY <2>1 DEF ClicksOn
  <2> HIDE DEF count
  <2> QED
    BY <1>0, <2>1, <2>2, FS_EmptySet
<1>4. ASSUME UNCHANGED Ledger!vars PROVE count'[l] = Cardinality(ClicksOn(rows', l))
  <2>1. rows' = rows /\ count' = count
    BY <1>4 DEF Ledger!vars
  <2> HIDE DEF count
  <2> QED
    BY <1>0, <2>1
<1>5. Ledger!Enter(B) \/ Ledger!Remove(L) \/ UNCHANGED Ledger!vars
  BY DEF Ledger!Next, Ledger!Enter, Ledger!Remove
<1> HIDE DEF count, B, L
<1> QED
  BY <1>1, <1>2, <1>3, <1>4, <1>5

\* "clicks and counters stay consistent" (click.go:33-34): in every state that
\* is committed, each counter is the number of the rows on its link, however
\* batches abort or deadlock and whatever the janitor purges between them.
THEOREM CountersCorrect == Spec => []CountersMatchRows
<1>1. Init => CountersMatchRows
  <2> SUFFICES ASSUME Init, NEW l \in Links PROVE table[l].clicks = Cardinality(ClicksOn(rows, l))
    BY DEF CountersMatchRows
  <2>1. table[l].clicks = 0 /\ ClicksOn(rows, l) = {}
    BY DEF Init, ClicksOn
  <2> QED
    BY <2>1, FS_EmptySet
<1> QED
  BY <1>1, LedgerStep, CountersStep, StoreInvariance, PTL DEF Spec

-----------------------------------------------------------------------------
(* Deadlocks.                                                               *)

\* A set of links with two different members has more than one.
LEMMA TwoLinks ==
    ASSUME NEW B \in SUBSET Clicks, NEW l \in LinksOf(B), NEW m \in LinksOf(B), l # m
    PROVE  Cardinality(LinksOf(B)) > 1
<1>1. IsFiniteSet(B)
  BY ClicksAssumption, FS_Subset
<1>2. IsFiniteSet(LinksOf(B))
  <2> DEFINE f == [c \in B |-> LinkOf[c]]
  <2>1. f \in Surjection(B, LinksOf(B))
    BY DEF LinksOf, Surjection
  <2> QED
    BY <1>1, <2>1, FS_Surjection
<1>3. Cardinality(LinksOf(B)) \in Nat /\ Cardinality(LinksOf(B)) # 0
  BY <1>2, FS_CardinalityType, FS_EmptySet
<1>4. Cardinality(LinksOf(B)) # 1
  BY <1>2, FS_Singleton
<1> QED
  BY <1>3, <1>4

\* A party that holds up nobody in a set of waiting parties which another one
\* does not hold up as well is not part of a smallest such set.
LEMMA NotInCycle ==
    ASSUME NEW w, NEW S, IsCycle(S), w \in S, want[w] # None,
           NEW v \in S, v # w,
           \A p \in S : p # w /\ w \in Blockers(p, want[p]) => v \in Blockers(p, want[p])
    PROVE  FALSE
<1> DEFINE T == S \ {w}
<1>1. Stuck(S)
  BY DEF IsCycle
<1>2. ASSUME NEW p \in T PROVE want[p] # None /\ Blockers(p, want[p]) \cap T # {}
  <2>1. PICK q \in S : q \in Blockers(p, want[p])
    BY <1>1, <1>2 DEF Stuck
  <2> QED
    BY <1>1, <1>2, <2>1 DEF Stuck
<1>3. Stuck(T)
  BY <1>2 DEF Stuck
<1> QED
  BY <1>3 DEF IsCycle

\* A batch of one link holds, while it waits, at most the key share of the very
\* link it waits for; whoever it waits for holds up the janitor there as well.
THEOREM DeadlockNeedsTwoLinksCorrect == Spec => []DeadlockNeedsTwoLinks
<1>1. StoreInv => DeadlockNeedsTwoLinks
  <2> SUFFICES ASSUME StoreInv, NEW w \in Workers, InCycle(w),
                      ~(Cardinality(LinksOf(batch[w])) > 1)
               PROVE  FALSE
    BY DEF DeadlockNeedsTwoLinks
  <2>0. TypeOK /\ LockInv /\ w \in Parties
    BY DEF StoreInv, Parties
  <2> DEFINE l == want[w]
  <2>1. l # None /\ l \in todo[w]
    BY <2>0 DEF InCycle, TypeOK
  <2>2. PICK S \in SUBSET Parties : w \in S /\ IsCycle(S)
    BY DEF InCycle
  <2>3. pc[w] \in {"copy", "update"} /\ l \in LinksOf(batch[w])
    BY <2>0, <2>1 DEF LockInv, TypeOK
  <2>4. LinksOf(batch[w]) = {l}
    BY <2>0, <2>3, TwoLinks DEF TypeOK
  <2>5. counted[w] = {} /\ shared[w] \subseteq {l} /\ (pc[w] = "copy" => shared[w] = {})
    BY <2>0, <2>1, <2>3, <2>4 DEF LockInv
  <2>6. PICK v \in S : v \in Blockers(w, l)
    BY <2>2 DEF IsCycle, Stuck
  <2>7. v # w
    BY StoreNamesAssumption, <2>6 DEF Blockers
  <2>8. ASSUME NEW p \in S, p # w, w \in Blockers(p, want[p])
        PROVE  v \in Blockers(p, want[p])
    <3>1. p = Janitor /\ want[p] \in shared[w]
      BY <2>5, <2>8, StoreNamesAssumption DEF Blockers
    <3>2. pc[w] = "update" /\ want[p] = l /\ l \in shared[w]
      BY <2>3, <2>5, <3>1
    <3>3. l \notin removing
      BY <2>0, <3>2 DEF LockInv
    <3>4. v \in Workers /\ l \in counted[v]
      BY <2>6, <3>3, StoreNamesAssumption DEF Blockers
    <3> QED
      BY <3>1, <3>2, <3>4 DEF Blockers
  <2> QED
    BY <2>1, <2>2, <2>7, <2>8, NotInCycle
<1> QED
  BY <1>1, StoreInvariance, PTL

-----------------------------------------------------------------------------
(* The figures of one answer.                                               *)

\* What is left of the queries of LinkStats after each of them, and of Overview.
AfterSeries == <<"total", "referrers", "countries", "devices">>
AfterTotal == <<"referrers", "countries", "devices">>
AfterReferrers == <<"countries", "devices">>
AfterCountries == <<"devices">>
AfterTotals == <<"top_links">>

\* How far a request is and what it was asked.
PlanInv(r) ==
    /\ plan[r] = None => ask[r] = NotAsked /\ answer[r] = [f \in Figures |-> {}]
    /\ ask[r].link # None =>
          /\ plan[r] \in {LinkFigures, AfterSeries, AfterTotal, AfterReferrers,
                          AfterCountries, <<>>}
          /\ answer[r]["top_links"] = {}
    /\ ask[r].link = None => plan[r] \in {None, OverviewFigures, AfterTotals, <<>>}

\* While its link is there, what a request has counted is still in the table.
LinkFiguresInv(r) ==
    LET a == answer[r] IN
    ask[r].link # None /\ Present(ask[r].link) =>
        /\ plan[r] = AfterSeries => a["series"] \subseteq InWindow(ask[r])
        /\ plan[r] \in {AfterTotal, AfterReferrers, AfterCountries, <<>>} =>
              a["series"] \subseteq a["total"] /\ a["total"] \subseteq InWindow(ask[r])
        /\ plan[r] \in {AfterReferrers, AfterCountries, <<>>} =>
              Covers(a["referrers"], a["total"], LabelOf)
        /\ plan[r] \in {AfterCountries, <<>>} => Covers(a["countries"], a["total"], LabelOf)
        /\ plan[r] = <<>> => Covers(a["devices"], a["total"], LabelOf)

OverviewInv(r) ==
    LET a == answer[r] IN
    (\A l \in Links : Present(l)) =>
        /\ plan[r] = AfterTotals => a["totals"] \subseteq OfTenant(ask[r].tenant)
        /\ plan[r] = <<>> => Covers(a["top_links"], a["totals"], LinkOf)

FiguresInv ==
    \A r \in Readers : PlanInv(r) /\ LinkFiguresInv(r) /\ OverviewInv(r)

\* What the queries leave to do, one after the other.
LEMMA PlanSteps ==
    /\ Head(LinkFigures) = "series" /\ Tail(LinkFigures) = AfterSeries
    /\ Head(AfterSeries) = "total" /\ Tail(AfterSeries) = AfterTotal
    /\ Head(AfterTotal) = "referrers" /\ Tail(AfterTotal) = AfterReferrers
    /\ Head(AfterReferrers) = "countries" /\ Tail(AfterReferrers) = AfterCountries
    /\ Head(AfterCountries) = "devices" /\ Tail(AfterCountries) = <<>>
    /\ Head(OverviewFigures) = "totals" /\ Tail(OverviewFigures) = AfterTotals
    /\ Head(AfterTotals) = "top_links" /\ Tail(AfterTotals) = <<>>
  BY DEF LinkFigures, AfterSeries, AfterTotal, AfterReferrers, AfterCountries, OverviewFigures,
         AfterTotals

\* They are all different, and none is the plan of a request not under way.
LEMMA PlansDiffer ==
    /\ LinkFigures \notin {AfterSeries, AfterTotal, AfterReferrers, AfterCountries, AfterTotals,
                           OverviewFigures, <<>>, None}
    /\ AfterSeries \notin {AfterTotal, AfterReferrers, AfterCountries, AfterTotals,
                           OverviewFigures, <<>>, None}
    /\ AfterTotal \notin {AfterReferrers, AfterCountries, AfterTotals, OverviewFigures, <<>>, None}
    /\ AfterReferrers \notin {AfterCountries, AfterTotals, OverviewFigures, <<>>, None}
    /\ AfterCountries \notin {AfterTotals, OverviewFigures, <<>>, None}
    /\ AfterTotals \notin {OverviewFigures, <<>>, None}
    /\ OverviewFigures \notin {<<>>, None}
    /\ <<>> # None
<1>1. /\ LinkFigures \in Seq(Figures) /\ AfterSeries \in Seq(Figures)
      /\ AfterTotal \in Seq(Figures) /\ AfterReferrers \in Seq(Figures)
      /\ AfterCountries \in Seq(Figures) /\ AfterTotals \in Seq(Figures)
      /\ OverviewFigures \in Seq(Figures) /\ <<>> \in Seq(Figures)
  BY DEF LinkFigures, AfterSeries, AfterTotal, AfterReferrers, AfterCountries, OverviewFigures,
         AfterTotals, Figures
<1>2. ASSUME NEW x \in Seq(Figures) PROVE x # None
  BY NoPlanAssumption
<1>3. LinkFigures \notin {AfterSeries, AfterTotal, AfterReferrers, AfterCountries, AfterTotals,
                          OverviewFigures, <<>>}
  BY DEF LinkFigures, AfterSeries, AfterTotal, AfterReferrers, AfterCountries, OverviewFigures,
         AfterTotals
<1>4. AfterSeries \notin {AfterTotal, AfterReferrers, AfterCountries, AfterTotals,
                          OverviewFigures, <<>>}
  BY DEF LinkFigures, AfterSeries, AfterTotal, AfterReferrers, AfterCountries, OverviewFigures,
         AfterTotals
<1>5. AfterTotal \notin {AfterReferrers, AfterCountries, AfterTotals, OverviewFigures, <<>>}
  BY DEF LinkFigures, AfterSeries, AfterTotal, AfterReferrers, AfterCountries, OverviewFigures,
         AfterTotals
<1>6. /\ AfterReferrers \notin {AfterCountries, AfterTotals, OverviewFigures, <<>>}
      /\ AfterCountries \notin {AfterTotals, OverviewFigures, <<>>}
      /\ AfterTotals \notin {OverviewFigures, <<>>} /\ OverviewFigures # <<>>
  BY DEF LinkFigures, AfterSeries, AfterTotal, AfterReferrers, AfterCountries, OverviewFigures,
         AfterTotals
<1> QED
  BY <1>1, <1>2, <1>3, <1>4, <1>5, <1>6

\* GROUP BY ... LIMIT counts all the rows of the groups it lists, so what was
\* counted earlier of these groups is counted again.
LEMMA TopCovers ==
    ASSUME NEW S, NEW group, NEW K \in Top(S, group), NEW earlier \in SUBSET S
    PROVE  Covers(K, earlier, group)
<1>1. PICK keys : K = {c \in S : group[c] \in keys}
  BY DEF Top
<1> QED
  BY <1>1 DEF Covers

\* Clicks on a link that is still there have only been added.
LEMMA FiguresKept ==
    ASSUME FiguresInv, UNCHANGED readVars, rows \subseteq Clicks,
           \A l \in Links : Present(l)' =>
               Present(l) /\ \A c \in rows : LinkOf[c] = l => c \in rows',
           ask \in [Readers -> AskType]
    PROVE  FiguresInv'
<1> SUFFICES ASSUME NEW r \in Readers
             PROVE  PlanInv(r)' /\ LinkFiguresInv(r)' /\ OverviewInv(r)'
  BY DEF FiguresInv
<1>0. UNCHANGED <<plan, ask, answer>>
  BY DEF readVars
<1>1. PlanInv(r) /\ LinkFiguresInv(r) /\ OverviewInv(r)
  BY DEF FiguresInv
<1>2. PlanInv(r)'
  BY <1>0, <1>1 DEF PlanInv
<1>3. LinkFiguresInv(r)'
  <2>1. ASSUME ask[r].link # None, Present(ask[r].link)'
        PROVE  Present(ask[r].link) /\ InWindow(ask[r]) \subseteq InWindow(ask[r])'
    <3>1. ask[r].link \in Links
      BY <2>1 DEF AskType
    <3> QED
      BY <1>0, <2>1, <3>1 DEF InWindow, OfTenant
  <2> QED
    BY <1>0, <1>1, <2>1 DEF LinkFiguresInv
<1>4. OverviewInv(r)'
  <2>1. ASSUME \A l \in Links : Present(l)'
        PROVE  /\ \A l \in Links : Present(l)
               /\ OfTenant(ask[r].tenant) \subseteq OfTenant(ask[r].tenant)'
    BY <1>0, <2>1, ClicksAssumption DEF OfTenant
  <2> QED
    BY <1>0, <1>1, <2>1 DEF OverviewInv
<1> QED
  BY <1>2, <1>3, <1>4

\* A step that does not concern a request leaves what is known of it.
LEMMA FiguresOfOther ==
    ASSUME NEW o \in Readers, PlanInv(o), LinkFiguresInv(o), OverviewInv(o),
           UNCHANGED <<rows, table>>,
           plan'[o] = plan[o], ask'[o] = ask[o], answer'[o] = answer[o]
    PROVE  PlanInv(o)' /\ LinkFiguresInv(o)' /\ OverviewInv(o)'
<1>1. PlanInv(o)'
  BY DEF PlanInv
<1>2. InWindow(ask[o])' = InWindow(ask[o]) /\ OfTenant(ask[o].tenant)' = OfTenant(ask[o].tenant)
  BY DEF InWindow, OfTenant
<1>3. LinkFiguresInv(o)'
  BY <1>2 DEF LinkFiguresInv, Present
<1>4. OverviewInv(o)'
  BY <1>2 DEF OverviewInv, Present
<1> QED
  BY <1>1, <1>3, <1>4

\* A request begins with no figure, and ends with none.
LEMMA RequestStep ==
    ASSUME StoreInv, FiguresInv, NEW r \in Readers,
           \/ \E q \in Queries, now \in Times : LinkStats(r, q, now)
           \/ \E t \in Tenants : Overview(r, t)
           \/ Respond(r)
    PROVE  PlanInv(r)' /\ LinkFiguresInv(r)' /\ OverviewInv(r)'
<1>0. /\ plan \in [Readers -> Seq(Figures) \cup {None}] /\ ask \in [Readers -> AskType]
      /\ answer \in [Readers -> [Figures -> SUBSET Clicks]]
      /\ PlanInv(r) /\ NotAsked.link = None
  BY DEF StoreInv, TypeOK, AskType, FiguresInv, NotAsked
<1>1. CASE Respond(r)
  <2>1. plan'[r] = None /\ ask'[r] = NotAsked /\ answer'[r] = [f \in Figures |-> {}]
    BY <1>0, <1>1 DEF Respond
  <2> QED
    BY <1>0, <2>1, PlansDiffer DEF PlanInv, LinkFiguresInv, OverviewInv
<1>2. ASSUME ~Respond(r) PROVE plan[r] = None /\ ask[r].link = None
                               /\ answer[r] = [f \in Figures |-> {}] /\ UNCHANGED answer
  BY <1>0, <1>2 DEF LinkStats, Overview, PlanInv
<1>3. ASSUME NEW t \in Tenants, Overview(r, t), ~Respond(r)
      PROVE  PlanInv(r)' /\ LinkFiguresInv(r)' /\ OverviewInv(r)'
  <2>1. plan'[r] = OverviewFigures /\ ask'[r].link = None
    BY <1>0, <1>2, <1>3 DEF Overview, AskType
  <2> QED
    BY <2>1, PlansDiffer DEF PlanInv, LinkFiguresInv, OverviewInv
<1>4. ASSUME NEW q \in Queries, NEW now \in Times, LinkStats(r, q, now), ~Respond(r)
      PROVE  PlanInv(r)' /\ LinkFiguresInv(r)' /\ OverviewInv(r)'
  <2>1. q.link # None
    BY QueriesAssumption, StoreNamesAssumption
  <2>2. \/ plan'[r] = LinkFigures /\ ask'[r].link = q.link
        \/ plan'[r] = <<>> /\ ask'[r].link = None
    BY <1>0, <1>2, <1>4 DEF LinkStats
  <2>3. answer'[r]["top_links"] = {} /\ answer'[r]["totals"] = {}
    BY <1>2, <1>4 DEF Figures
  <2>4. Covers({}, {}, LinkOf)
    BY DEF Covers
  <2> QED
    BY <2>1, <2>2, <2>3, <2>4, PlansDiffer DEF PlanInv, LinkFiguresInv, OverviewInv
<1> QED
  BY <1>1, <1>3, <1>4

\* A query reads what is in the table now, which covers what the queries before
\* it have read.
LEMMA QueryStep ==
    ASSUME StoreInv, FiguresInv, NEW r \in Readers, Query(r)
    PROVE  PlanInv(r)' /\ LinkFiguresInv(r)' /\ OverviewInv(r)'
<1> DEFINE W == InWindow(ask[r])
           T == OfTenant(ask[r].tenant)
           a == answer[r]
<1>0. /\ plan \in [Readers -> Seq(Figures) \cup {None}] /\ ask \in [Readers -> AskType]
      /\ answer \in [Readers -> [Figures -> SUBSET Clicks]]
      /\ PlanInv(r) /\ LinkFiguresInv(r) /\ OverviewInv(r)
  BY DEF StoreInv, TypeOK, AskType, FiguresInv
<1>1. /\ plan[r] \notin {None, <<>>}
      /\ UNCHANGED <<rows, table, ask>>
      /\ plan'[r] = Tail(plan[r])
  BY <1>0 DEF Query
<1>2. PICK S \in Reads(Head(plan[r]), ask[r]) : answer' = [answer EXCEPT ![r][Head(plan[r])] = S]
  BY DEF Query
<1>3. /\ W' = W /\ T' = T /\ (Present(ask[r].link)' <=> Present(ask[r].link))
      /\ (\A l \in Links : Present(l))' <=> (\A l \in Links : Present(l))
  BY <1>1 DEF InWindow, OfTenant, Present
<1>4. ASSUME Head(plan[r]) \in Figures
      PROVE  \A f \in Figures : answer'[r][f] = IF f = Head(plan[r]) THEN S ELSE a[f]
  BY <1>0, <1>2, <1>4
<1>5. ASSUME ask[r].link # None
      PROVE  PlanInv(r)' /\ LinkFiguresInv(r)' /\ OverviewInv(r)'
  <2>0. /\ plan[r] \in {LinkFigures, AfterSeries, AfterTotal, AfterReferrers, AfterCountries}
        /\ a["top_links"] = {}
    BY <1>0, <1>1, <1>5 DEF PlanInv
  <2>1. /\ Head(plan[r]) \in Figures /\ Head(plan[r]) # "top_links"
        /\ plan'[r] \in {AfterSeries, AfterTotal, AfterReferrers, AfterCountries, <<>>}
    BY <1>1, <2>0, PlanSteps DEF Figures
  <2>2. answer'[r]["top_links"] = {}
    BY <1>4, <2>0, <2>1 DEF Figures
  <2>3. PlanInv(r)'
    BY <1>1, <1>5, <2>1, <2>2, PlansDiffer DEF PlanInv
  <2>4. OverviewInv(r)'
    <3>1. Covers({}, answer'[r]["totals"], LinkOf)
      BY DEF Covers
    <3> QED
      BY <2>1, <2>2, <3>1, PlansDiffer DEF OverviewInv
  <2>5. ASSUME Present(ask[r].link)
        PROVE  LinkFiguresInv(r)'
    <3>0. /\ plan[r] = AfterSeries => a["series"] \subseteq W
          /\ plan[r] \in {AfterTotal, AfterReferrers, AfterCountries} =>
                a["series"] \subseteq a["total"] /\ a["total"] \subseteq W
          /\ plan[r] \in {AfterReferrers, AfterCountries} =>
                Covers(a["referrers"], a["total"], LabelOf)
          /\ plan[r] = AfterCountries => Covers(a["countries"], a["total"], LabelOf)
      BY <1>0, <1>5, <2>5 DEF LinkFiguresInv
    <3> DEFINE b == answer'[r]
    <3>1. ASSUME plan'[r] = AfterSeries => b["series"] \subseteq W,
                 plan'[r] \in {AfterTotal, AfterReferrers, AfterCountries, <<>>} =>
                   b["series"] \subseteq b["total"] /\ b["total"] \subseteq W,
                 plan'[r] \in {AfterReferrers, AfterCountries, <<>>} =>
                   Covers(b["referrers"], b["total"], LabelOf),
                 plan'[r] \in {AfterCountries, <<>>} => Covers(b["countries"], b["total"], LabelOf),
                 plan'[r] = <<>> => Covers(b["devices"], b["total"], LabelOf)
          PROVE  LinkFiguresInv(r)'
      BY <1>1, <1>3, <3>1 DEF LinkFiguresInv, Covers
    <3>2. CASE plan[r] = LinkFigures
      <4>1. S = W /\ plan'[r] = AfterSeries /\ b["series"] = S
        BY <1>1, <1>2, <1>4, <3>2, PlanSteps DEF Reads, Figures
      <4> QED
        BY <3>1, <4>1, PlansDiffer
    <3>3. CASE plan[r] = AfterSeries
      <4>1. S = W /\ plan'[r] = AfterTotal /\ b["total"] = S /\ b["series"] = a["series"]
        BY <1>1, <1>2, <1>4, <3>3, PlanSteps DEF Reads, Figures
      <4> QED
        BY <3>0, <3>1, <3>3, <4>1, PlansDiffer
    <3>4. ASSUME NEW f \in {"referrers", "countries", "devices"}, Head(plan[r]) = f,
                 a["total"] \subseteq W
          PROVE  /\ b[f] = S /\ Covers(S, a["total"], LabelOf)
                 /\ \A g \in Figures \ {f} : b[g] = a[g]
      <4>1. S \in Top(W, LabelOf)
        BY <1>2, <3>4 DEF Reads
      <4> QED
        BY <1>4, <3>4, <4>1, TopCovers DEF Figures
    <3>5. CASE plan[r] = AfterTotal
      <4>1. plan'[r] = AfterReferrers /\ Head(plan[r]) = "referrers" /\ a["total"] \subseteq W
        BY <1>1, <3>0, <3>5, PlanSteps
      <4>2. /\ Covers(b["referrers"], a["total"], LabelOf)
            /\ b["total"] = a["total"] /\ b["series"] = a["series"]
        BY <3>4, <4>1 DEF Figures
      <4> QED
        BY <3>0, <3>1, <3>5, <4>1, <4>2, PlansDiffer
    <3>6. CASE plan[r] = AfterReferrers
      <4>1. plan'[r] = AfterCountries /\ Head(plan[r]) = "countries" /\ a["total"] \subseteq W
        BY <1>1, <3>0, <3>6, PlanSteps
      <4>2. /\ Covers(b["countries"], a["total"], LabelOf) /\ b["referrers"] = a["referrers"]
            /\ b["total"] = a["total"] /\ b["series"] = a["series"]
        BY <3>4, <4>1 DEF Figures
      <4> QED
        BY <3>0, <3>1, <3>6, <4>1, <4>2, PlansDiffer
    <3>7. CASE plan[r] = AfterCountries
      <4>1. plan'[r] = <<>> /\ Head(plan[r]) = "devices" /\ a["total"] \subseteq W
        BY <1>1, <3>0, <3>7, PlanSteps
      <4>2. /\ Covers(b["devices"], a["total"], LabelOf) /\ b["referrers"] = a["referrers"]
            /\ b["countries"] = a["countries"]
            /\ b["total"] = a["total"] /\ b["series"] = a["series"]
        BY <3>4, <4>1 DEF Figures
      <4> QED
        BY <3>0, <3>1, <3>7, <4>1, <4>2, PlansDiffer
    <3> QED
      BY <2>0, <3>2, <3>3, <3>5, <3>6, <3>7
  <2>6. ~Present(ask[r].link) => LinkFiguresInv(r)'
    BY <1>1, <1>3 DEF LinkFiguresInv
  <2> QED
    BY <2>3, <2>4, <2>5, <2>6
<1>6. ASSUME ask[r].link = None
      PROVE  PlanInv(r)' /\ LinkFiguresInv(r)' /\ OverviewInv(r)'
  <2>1. plan[r] \in {OverviewFigures, AfterTotals}
    BY <1>0, <1>1, <1>6 DEF PlanInv
  <2>2. Head(plan[r]) \in Figures /\ plan'[r] \in {AfterTotals, <<>>}
    BY <1>1, <2>1, PlanSteps DEF Figures
  <2>3. PlanInv(r)' /\ LinkFiguresInv(r)'
    BY <1>1, <1>6, <2>2, PlansDiffer DEF PlanInv, LinkFiguresInv
  <2>4. CASE plan[r] = OverviewFigures
    <3>1. S = T /\ plan'[r] = AfterTotals /\ answer'[r]["totals"] = S
      BY <1>1, <1>2, <1>4, <2>4, PlanSteps DEF Reads, Figures
    <3> QED
      BY <1>1, <1>3, <2>3, <3>1, PlansDiffer DEF OverviewInv
  <2>5. CASE plan[r] = AfterTotals
    <3>1. /\ S \in Top(T, LinkOf) /\ plan'[r] = <<>> /\ answer'[r]["top_links"] = S
          /\ answer'[r]["totals"] = a["totals"]
      BY <1>1, <1>2, <1>4, <2>5, PlanSteps DEF Reads, Figures
    <3>2. (\A l \in Links : Present(l)) => a["totals"] \subseteq T
      BY <1>0, <2>5 DEF OverviewInv
    <3>3. (\A l \in Links : Present(l)) => Covers(S, a["totals"], LinkOf)
      BY <3>1, <3>2, TopCovers
    <3> QED
      BY <1>3, <2>3, <3>1, <3>3, PlansDiffer DEF OverviewInv, Covers
  <2> QED
    BY <2>1, <2>4, <2>5
<1> QED
  BY <1>5, <1>6

\* Commits only add rows, and a purge takes the rows of the links it purges.
LEMMA RowsGrow ==
    ASSUME StoreInv, [Next]_vars, NEW l \in Links, Present(l)'
    PROVE  Present(l) /\ \A c \in rows : LinkOf[c] = l => c \in rows'
<1>0. TypeOK
  BY DEF StoreInv
<1>1. CASE UNCHANGED <<rows, table>>
  BY <1>1 DEF Present
<1>2. ASSUME NEW w \in Workers, Commit(w)
      PROVE  Present(l) /\ \A c \in rows : LinkOf[c] = l => c \in rows'
  BY <1>2, CommitTable DEF Present, Commit
<1>3. CASE SweepEnd
  BY <1>3 DEF Present, SweepEnd
<1>4. ASSUME NEW m \in Links, SoftDelete(m)
      PROVE  Present(l) /\ \A c \in rows : LinkOf[c] = l => c \in rows'
  BY <1>0, <1>4 DEF Present, SoftDelete, TypeOK
<1>5. ASSUME NEW w \in Workers, WorkerStep(w) \/ BatchFails(w)
      PROVE  Commit(w) \/ UNCHANGED <<rows, table>>
  BY <1>5 DEF WorkerStep, BatchFails, BatchDeadlocks, Abort, Wait, CheckKey, CopyEnds, Increment
<1>6. ASSUME \/ \E w \in Workers, B \in SUBSET input : Begin(w, B)
             \/ \E r \in Readers : \/ \E q \in Queries, now \in Times : LinkStats(r, q, now)
                                   \/ \E t \in Tenants : Overview(r, t)
                                   \/ Query(r) \/ Respond(r)
      PROVE  UNCHANGED <<rows, table>>
  BY <1>6 DEF Begin, LinkStats, Overview, Query, Respond
<1>7. ASSUME SweepStart \/ SweepStep \/ SweepFails PROVE SweepEnd \/ UNCHANGED <<rows, table>>
  BY <1>7 DEF SweepStart, SweepStep, SweepFails, SweepDeadlocks, SweepAborts, Wait, Remove
<1>8. CASE UNCHANGED vars
  BY <1>1, <1>8 DEF vars
<1> QED
  BY <1>1, <1>2, <1>3, <1>4, <1>5, <1>6, <1>7, <1>8 DEF Next

\* Every step preserves what is known of the figures.
LEMMA FiguresStep == StoreInv /\ FiguresInv /\ [Next]_vars => FiguresInv'
<1> SUFFICES ASSUME StoreInv, FiguresInv, [Next]_vars PROVE FiguresInv'
  OBVIOUS
<1>1. /\ rows \subseteq Clicks /\ ask \in [Readers -> AskType]
      /\ plan \in [Readers -> Seq(Figures) \cup {None}]
      /\ answer \in [Readers -> [Figures -> SUBSET Clicks]]
  BY DEF StoreInv, TypeOK, AskType
<1>2. CASE UNCHANGED readVars
  BY <1>1, <1>2, RowsGrow, FiguresKept
<1>3. ASSUME NEW r \in Readers,
             \/ \E q \in Queries, now \in Times : LinkStats(r, q, now)
             \/ \E t \in Tenants : Overview(r, t)
             \/ Query(r) \/ Respond(r)
      PROVE  FiguresInv'
  <2>1. PlanInv(r)' /\ LinkFiguresInv(r)' /\ OverviewInv(r)'
    BY <1>3, RequestStep, QueryStep
  <2>2. UNCHANGED <<rows, table>>
    BY <1>3 DEF LinkStats, Overview, Query, Respond
  <2>3. \A o \in Readers : o # r => /\ plan'[o] = plan[o] /\ ask'[o] = ask[o]
                                    /\ answer'[o] = answer[o]
    BY <1>1, <1>3 DEF LinkStats, Overview, Query, Respond
  <2>4. ASSUME NEW o \in Readers, o # r
        PROVE  PlanInv(o)' /\ LinkFiguresInv(o)' /\ OverviewInv(o)'
    BY <2>2, <2>3, <2>4, FiguresOfOther DEF FiguresInv
  <2> QED
    BY <2>1, <2>4 DEF FiguresInv
<1>4. ASSUME \/ \E w \in Workers : \/ WorkerStep(w) \/ BatchFails(w)
                                   \/ \E B \in SUBSET input : Begin(w, B)
             \/ \E l \in Links : SoftDelete(l)
             \/ SweepStart \/ SweepStep \/ SweepFails
      PROVE  UNCHANGED readVars
  BY <1>4 DEF WorkerStep, BatchFails, BatchDeadlocks, Abort, Wait, CheckKey, CopyEnds, Increment,
     Commit, Begin, SoftDelete, SweepStart, SweepStep, SweepFails, SweepDeadlocks, SweepAborts,
     Remove, SweepEnd
<1>5. CASE UNCHANGED vars
  BY <1>2, <1>5 DEF vars, readVars
<1> QED
  BY <1>2, <1>3, <1>4, <1>5 DEF Next

\* StatsService makes a query for each figure; whatever is flushed between them
\* only adds to the later ones, so the figures of an answer fit together unless
\* the janitor purged a link meanwhile.
THEOREM FiguresGrowCorrect == Spec => []FiguresGrow
<1>1. Init => FiguresInv
  <2> SUFFICES ASSUME Init, NEW r \in Readers
               PROVE  PlanInv(r) /\ LinkFiguresInv(r) /\ OverviewInv(r)
    BY DEF FiguresInv
  <2>1. plan[r] = None /\ ask[r] = NotAsked /\ answer[r] = [f \in Figures |-> {}]
    BY DEF Init
  <2>2. NotAsked.link = None
    BY DEF NotAsked
  <2> QED
    BY <2>1, <2>2, PlansDiffer DEF PlanInv, LinkFiguresInv, OverviewInv
<1>2. FiguresInv => FiguresGrow
  <2> SUFFICES ASSUME FiguresInv, NEW r \in Readers, plan[r] = <<>>
               PROVE  LET a == answer[r] IN
                      /\ ask[r].link # None /\ Present(ask[r].link) =>
                            /\ a["series"] \subseteq a["total"]
                            /\ \A f \in {"referrers", "countries", "devices"} :
                                  Covers(a[f], a["total"], LabelOf)
                      /\ (\A l \in Links : Present(l)) =>
                            Covers(a["top_links"], a["totals"], LinkOf)
    BY DEF FiguresGrow
  <2>1. LinkFiguresInv(r) /\ OverviewInv(r)
    BY DEF FiguresInv
  <2> QED
    BY <2>1 DEF LinkFiguresInv, OverviewInv
<1> QED
  BY <1>1, <1>2, FiguresStep, StoreInvariance, PTL DEF Spec
=============================================================================
