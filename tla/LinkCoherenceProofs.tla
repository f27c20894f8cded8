------------------------ MODULE LinkCoherenceProofs ------------------------
(***************************************************************************)
(* What the links table and the redirect cache owe each other, proved on   *)
(* top of the types and shapes of LinkServiceProofs.                        *)
(***************************************************************************)
EXTENDS LinkServiceProofs

\* What a step may do to the rows that are in the table already: keep id,
\* code, tenant and deletion (or delete now); only the janitor purges them.
RowsKept(S) ==
    \A i \in S :
        /\ links[i] # Absent => links'[i] # Absent
        /\ IsRow(i) => IsRow(i)' \/ PurgeExpired
        /\ IsRow(i)' => /\ IsRow(i)
                        /\ links'[i].code = links[i].code
                        /\ links'[i].tenant = links[i].tenant
                        /\ links[i].deleted # None => links'[i].deleted = links[i].deleted

\* Every step but a successful INSERT keeps the rows; an INSERT keeps the rows
\* of all other ids.
LEMMA TableStep ==
    ASSUME Base, [Next]_vars
    PROVE  \/ RowsKept(Ids)
           \/ \E k \in Calls, c \in Codes, i \in Ids :
                 /\ InsertOk(k, c, i)
                 /\ links'[i] \in Links /\ links'[i].id = i /\ links'[i].code = c
                 /\ links'[i].tenant = held[k].tenant /\ links'[i].deleted = None
                 /\ links'[i].expires = held[k].expires
                 /\ \A j \in Ids \ {i} : links'[j] = links[j]
<1>0. TypeOK /\ ShapeInv
  BY DEF Base
<1>1. ASSUME UNCHANGED links PROVE RowsKept(Ids)
  BY <1>1 DEF RowsKept, IsRow
<1>2. CASE UNCHANGED vars
  BY <1>1, <1>2 DEF vars
<1>3. ASSUME NEW r \in Requests, ResolveStart(r) \/ ResolveStep(r) PROVE RowsKept(Ids)
  BY <1>1, <1>3 DEF ResolveStart, ResolveStep, ResolveHit, ResolveMiss, ReadFound, ReadNotFound,
     ReadError, Backfill, BackfillNegative
<1>4. ASSUME NEW c \in Codes, CacheExpire(c) PROVE RowsKept(Ids)
  BY <1>1, <1>4 DEF CacheExpire
<1>5. ASSUME NEW k \in Calls, CallStart(k) PROVE RowsKept(Ids)
  BY <1>1, <1>5 DEF CallStart, StartCreate, StartUpdate, StartDelete
<1>6. ASSUME NEW k \in Calls, NEW c \in Codes, InsertConflict(k, c) PROVE RowsKept(Ids)
  BY <1>1, <1>6 DEF InsertConflict
<1>7. ASSUME NEW k \in Calls, EmitCreated(k) \/ Invalidate(k) \/ CallError(k) PROVE RowsKept(Ids)
  BY <1>1, <1>7 DEF EmitCreated, Invalidate, CallError
<1>8. ASSUME NEW k \in Calls, NEW c \in Codes, NEW i \in Ids, InsertOk(k, c, i)
      PROVE  /\ links'[i] \in Links /\ links'[i].id = i /\ links'[i].code = c
             /\ links'[i].tenant = held[k].tenant /\ links'[i].deleted = None
             /\ links'[i].expires = held[k].expires
             /\ \A j \in Ids \ {i} : links'[j] = links[j]
  <2>1. held[k] \in Drafts /\ held[k].deleted = None /\ now \in Nat
    BY <1>0, <1>8, BoundsAssumption DEF InsertOk, ShapeInv, TypeOK
  <2> DEFINE l == [held[k] EXCEPT !.id = i, !.code = c, !.created = now]
  <2>2. /\ l \in Links /\ l.id = i /\ l.code = c /\ l.tenant = held[k].tenant
        /\ l.deleted = None /\ l.expires = held[k].expires
    BY <2>1 DEF Links, Drafts
  <2>3. links' = [links EXCEPT ![i] = l]
    BY <1>8 DEF InsertOk
  <2> HIDE DEF l
  <2>4. links'[i] = l /\ \A j \in Ids \ {i} : links'[j] = links[j]
    BY <1>0, <2>3 DEF TypeOK
  <2> QED
    BY <2>2, <2>4
<1>9. ASSUME NEW k \in Calls, CommitUpdate(k) PROVE RowsKept(Ids)
  <2> DEFINE i == held[k].id
  <2>1. HoldsRow(k) /\ i \in Ids /\ held[k] \in Links
    BY <1>0, <1>9 DEF CommitUpdate, ShapeInv, HoldsRow, Links
  <2>2. CASE Owns(held[k].tenant, i)
    <3>1. /\ IsRow(i) /\ links[i] \in Links
          /\ links[i].code = held[k].code /\ links[i].tenant = held[k].tenant
      BY <1>0, <2>1, <2>2, RowIsLink DEF Owns, IsLive, HoldsRow
    <3> DEFINE l == WriteMutable(links[i], held[k])
    <3>2. /\ l \in Links /\ l.code = links[i].code /\ l.tenant = links[i].tenant
          /\ l.deleted = links[i].deleted
      BY <2>1, <3>1 DEF WriteMutable, Links
    <3>3. links' = [links EXCEPT ![i] = l]
      BY <1>9, <2>2 DEF CommitUpdate
    <3> HIDE DEF l
    <3>4. links'[i] = l /\ \A j \in Ids \ {i} : links'[j] = links[j]
      BY <1>0, <2>1, <3>3 DEF TypeOK
    <3> QED
      BY <3>1, <3>2, <3>4, SentinelAssumption DEF RowsKept, IsRow
  <2>3. CASE ~Owns(held[k].tenant, i)
    BY <1>1, <1>9, <2>3 DEF CommitUpdate
  <2> QED
    BY <2>2, <2>3
<1>10. ASSUME NEW k \in Calls, CommitDelete(k) PROVE RowsKept(Ids)
  <2> DEFINE i == held[k].id
  <2>1. i \in Ids
    BY <1>0, <1>10 DEF CommitDelete, ShapeInv, HoldsRow, Links
  <2>2. CASE Owns(who[k], i)
    <3>1. IsRow(i) /\ links[i] \in Links /\ links[i].deleted = None /\ now \in Nat
      BY <1>0, <2>1, <2>2, RowIsLink, BoundsAssumption DEF Owns, IsLive, TypeOK
    <3> DEFINE l == [links[i] EXCEPT !.deleted = now]
    <3>2. l \in Links /\ l.code = links[i].code /\ l.tenant = links[i].tenant
      BY <3>1 DEF Links
    <3>3. links' = [links EXCEPT ![i] = l]
      BY <1>10, <2>2 DEF CommitDelete
    <3> HIDE DEF l
    <3>4. links'[i] = l /\ \A j \in Ids \ {i} : links'[j] = links[j]
      BY <1>0, <2>1, <3>3 DEF TypeOK
    <3> QED
      BY <3>1, <3>2, <3>4, SentinelAssumption DEF RowsKept, IsRow
  <2>3. CASE ~Owns(who[k], i)
    BY <1>1, <1>10, <2>3 DEF CommitDelete
  <2> QED
    BY <2>2, <2>3
<1>11. ASSUME NEW w \in Workers, WorkerStep(w) PROVE RowsKept(Ids)
  <2>1. ASSUME NEW n \in 1..BatchSize, RecordBatch(w, n) PROVE RowsKept(Ids)
    <3>1. CASE UNCHANGED links
      BY <1>1, <3>1
    <3>2. CASE links' = Counted(SubSeq(input, 1, n))
      <4>1. SubSeq(input, 1, n) \in Seq(Ids)
        BY <1>0, <2>1 DEF TypeOK, RecordBatch
      <4>2. ASSUME NEW i \in Ids
            PROVE  \/ links'[i] = links[i]
                   \/ /\ IsRow(i) /\ links[i] \in Links /\ links'[i] \in Links
                      /\ links'[i].code = links[i].code /\ links'[i].tenant = links[i].tenant
                      /\ links'[i].deleted = links[i].deleted
        <5>1. CASE IsRow(i)
          <6>1. links[i] \in Links
            BY <1>0, <5>1, RowIsLink
          <6>2. /\ links'[i] = [links[i] EXCEPT !.clicks = links[i].clicks + ClicksOf(SubSeq(input, 1, n), i)]
                /\ links'[i] \in Links
            BY <3>2, <4>1, <5>1, CountedRows
          <6> QED
            BY <5>1, <6>1, <6>2 DEF Links
        <5>2. CASE ~IsRow(i)
          BY <3>2, <4>1, <5>2, CountedRows
        <5> QED
          BY <5>1, <5>2
      <4> QED
        BY <4>2, SentinelAssumption DEF RowsKept, IsRow
    <3> QED
      BY <2>1, <3>1, <3>2 DEF RecordBatch
  <2>2. ASSUME NEW c \in Codes, EvictExhausted(w, c) PROVE RowsKept(Ids)
    BY <1>1, <2>2 DEF EvictExhausted
  <2> QED
    BY <1>11, <2>1, <2>2 DEF WorkerStep
<1>12. ASSUME PurgeExpired PROVE RowsKept(Ids)
  <2>1. \A i \in Ids : links'[i] = links[i] \/ (IsRow(i) /\ links'[i] = Purged)
    BY <1>0, <1>12 DEF PurgeExpired, TypeOK
  <2> QED
    BY <1>12, <2>1, SentinelAssumption DEF RowsKept, IsRow
<1>13. ASSUME SweepStart \/ Tick PROVE RowsKept(Ids)
  BY <1>1, <1>13 DEF SweepStart, Tick
<1> HIDE DEF RowsKept
<1>14. ASSUME NEW k \in Calls, CallStep(k)
       PROVE  RowsKept(Ids) \/ \E c \in Codes, i \in Ids : InsertOk(k, c, i)
  BY <1>6, <1>7, <1>9, <1>10, <1>14 DEF CallStep
<1> QED
  BY <1>2, <1>3, <1>4, <1>5, <1>8, <1>11, <1>12, <1>13, <1>14 DEF Next

-----------------------------------------------------------------------------
(* One live link per code, and deletion for good.                           *)

\* The step of UniqueLiveCode: only the INSERT adds a live row, and the
\* partial unique index lets it in only when no live row has the code.
LEMMA UniqueStep == Base /\ UniqueLiveCode /\ [Next]_vars => UniqueLiveCode'
<1> SUFFICES ASSUME Base, UniqueLiveCode, [Next]_vars PROVE UniqueLiveCode'
  OBVIOUS
<1>1. CASE RowsKept(Ids)
  <2>1. \A i \in Ids : IsLive(i)' => IsLive(i) /\ links'[i].code = links[i].code
    BY <1>1 DEF RowsKept, IsLive
  <2> QED
    BY <2>1 DEF UniqueLiveCode
<1>2. ASSUME NEW k \in Calls, NEW c \in Codes, NEW i \in Ids, InsertOk(k, c, i),
             links'[i].code = c, \A j \in Ids \ {i} : links'[j] = links[j]
      PROVE  UniqueLiveCode'
  <2>1. LiveIds(c) = {}
    BY <1>2 DEF InsertOk
  <2>2. \A j \in Ids \ {i} : IsLive(j)' => IsLive(j) /\ links'[j].code # c
    BY <1>2, <2>1 DEF LiveIds, IsLive, IsRow
  <2> QED
    BY <1>2, <2>2 DEF UniqueLiveCode
<1> QED
  BY <1>1, <1>2, TableStep

\* GET /:code never has two links to choose from, whatever tenants create,
\* update and delete concurrently.
THEOREM UniqueCorrect == Spec => []UniqueLiveCode
<1>1. Init => UniqueLiveCode
  BY DEF Init, UniqueLiveCode, IsLive, IsRow
<1> QED
  BY <1>1, InitBase, BaseStep, UniqueStep, PTL DEF Spec

\* A soft-deleted link never comes back to life, not even through the
\* write-back of an Update that read it while it was alive.
THEOREM DeleteFinal == Spec => DeleteIsFinal
<1> DEFINE A == \A i \in Ids : IsRow(i) /\ links[i].deleted # None =>
                    links'[i] = Purged \/ links'[i].deleted = links[i].deleted
<1>1. Base /\ [Next]_vars => [A]_vars
  <2> SUFFICES ASSUME Base, [Next]_vars PROVE A
    OBVIOUS
  <2>1. CASE RowsKept(Ids)
    <3> SUFFICES ASSUME NEW i \in Ids, IsRow(i), links[i].deleted # None
                 PROVE  links'[i] = Purged \/ links'[i].deleted = links[i].deleted
      OBVIOUS
    <3>1. links'[i] # Absent
      BY <2>1 DEF RowsKept, IsRow
    <3>2. CASE links'[i] # Purged
      <4>1. IsRow(i)'
        BY <3>1, <3>2 DEF IsRow
      <4> QED
        BY <2>1, <4>1 DEF RowsKept
    <3> QED
      BY <3>2
  <2>2. ASSUME NEW k \in Calls, NEW c \in Codes, NEW i \in Ids, InsertOk(k, c, i),
               \A j \in Ids \ {i} : links'[j] = links[j]
        PROVE  A
    BY <2>2 DEF InsertOk, IsRow
  <2> QED
    BY <2>1, <2>2, TableStep
<1> QED
  BY <1>1, InitBase, BaseStep, PTL DEF Spec, DeleteIsFinal

\* The janitor deletes only links that died longer than the retention ago. Its
\* cutoff is read some time before the DELETE runs, and time passing in between
\* only makes the links it names deader.
THEOREM PurgeSafe == Spec => PurgedWereDead
<1> DEFINE A == \A i \in Ids : IsRow(i) /\ links'[i] = Purged =>
                    \/ links[i].expires # None /\ links[i].expires + Retention < now
                    \/ links[i].deleted # None /\ links[i].deleted + Retention < now
<1>1. Base /\ [Next]_vars => [A]_vars
  <2> SUFFICES ASSUME Base, [Next]_vars PROVE A
    OBVIOUS
  <2>0. TypeOK /\ ShapeInv
    BY DEF Base
  <2>1. CASE PurgeExpired
    <3> SUFFICES ASSUME NEW i \in Ids, IsRow(i), links'[i] = Purged
                 PROVE  \/ links[i].expires # None /\ links[i].expires + Retention < now
                        \/ links[i].deleted # None /\ links[i].deleted + Retention < now
      OBVIOUS
    <3>1. cutoff \in Int /\ cutoff <= now - Retention /\ now \in Nat /\ Retention \in Nat
      BY <2>0, <2>1, BoundsAssumption DEF PurgeExpired, ShapeInv, TypeOK
    <3>2. links[i] # Purged
      BY DEF IsRow
    <3>3. Purgeable(links[i], cutoff)
      BY <2>1, <3>2 DEF PurgeExpired
    <3>4. /\ links[i].expires # None => links[i].expires \in Int
          /\ links[i].deleted # None => links[i].deleted \in Int
      BY <2>0, RowIsLink DEF Links
    <3> QED
      BY <3>1, <3>3, <3>4 DEF Purgeable
  <2>2. CASE RowsKept(Ids) /\ ~PurgeExpired
    BY <2>2 DEF RowsKept, IsRow
  <2>3. ASSUME NEW k \in Calls, NEW c \in Codes, NEW i \in Ids, InsertOk(k, c, i),
               \A j \in Ids \ {i} : links'[j] = links[j]
        PROVE  A
    BY <2>3 DEF InsertOk, IsRow
  <2> QED
    BY <2>1, <2>2, <2>3, TableStep
<1> QED
  BY <1>1, InitBase, BaseStep, PTL DEF Spec, PurgedWereDead

-----------------------------------------------------------------------------
(* Every stale cache entry is explained.                                    *)

Explained(c) == Coherent(c) \/ EvictPending(c) \/ excuse[c] # {}

\* A code whose rows, entry, excuse and pending evictions are left alone.
LEMMA ExplainedFrame ==
    ASSUME NEW c \in Codes, Explained(c), UNCHANGED <<now, cache[c], excuse[c]>>,
           \A i \in Ids : (IsLive(i)' /\ links'[i].code = c) <=> (IsLive(i) /\ links[i].code = c),
           \A i \in LiveIds(c) : links'[i] = links[i],
           EvictPending(c) => EvictPending(c)'
    PROVE  Explained(c)'
<1>1. LiveIds(c)' = LiveIds(c)
  BY DEF LiveIds
<1>2. Coherent(c) => Coherent(c)'
  BY <1>1 DEF Coherent
<1> QED
  BY <1>2 DEF Explained

\* A DEL that goes through empties the entry; a lost one leaves its trace.
LEMMA EvictExplained ==
    ASSUME TypeOK, NEW c \in Codes, Del(c) \/ (RedisFails /\ DelLost(c))
    PROVE  /\ Explained(c)'
           /\ \A d \in Codes \ {c} : cache'[d] = cache[d] /\ excuse'[d] = excuse[d]
<1>1. CASE Del(c)
  <2>1. cache'[c] = Miss /\ \A d \in Codes \ {c} : cache'[d] = cache[d] /\ excuse'[d] = excuse[d]
    BY <1>1 DEF Del, TypeOK
  <2> QED
    BY <2>1 DEF Explained, Coherent
<1>2. CASE DelLost(c) /\ cache[c] = Miss
  <2>1. cache'[c] = Miss /\ \A d \in Codes \ {c} : cache'[d] = cache[d] /\ excuse'[d] = excuse[d]
    BY <1>2 DEF DelLost, TypeOK
  <2> QED
    BY <2>1 DEF Explained, Coherent
<1>3. CASE DelLost(c) /\ cache[c] # Miss
  <2>1. /\ excuse'[c] = excuse[c] \cup {"lost"}
        /\ \A d \in Codes \ {c} : cache'[d] = cache[d] /\ excuse'[d] = excuse[d]
    BY <1>3 DEF DelLost, TypeOK
  <2>2. excuse'[c] # {}
    BY <2>1
  <2> QED
    BY <2>1, <2>2 DEF Explained
<1> QED
  BY <1>1, <1>2, <1>3

\* Redirects: only the two backfills write the cache, and each notes whether
\* what it wrote was already out of date.
LEMMA RequestExplained ==
    ASSUME Base, NEW c \in Codes, Explained(c),
           NEW r \in Requests, ResolveStart(r) \/ ResolveStep(r)
    PROVE  Explained(c)'
<1>0. TypeOK /\ ShapeInv
  BY DEF Base
<1>1. UNCHANGED <<now, links, callVars, evict>>
  BY DEF ResolveStart, ResolveStep, ResolveHit, ResolveMiss, ReadFound, ReadNotFound,
     ReadError, Backfill, BackfillNegative, svcVars, clickVars
<1>2. EvictPending(c)' <=> EvictPending(c)
  BY <1>1 DEF EvictPending, callVars
<1>3. /\ \A i \in Ids : IsLive(i)' <=> IsLive(i)
      /\ \A d : LiveIds(d)' = LiveIds(d)
  BY <1>1 DEF IsLive, IsRow, LiveIds
<1>4. ASSUME UNCHANGED <<cache[c], excuse[c]>> PROVE Explained(c)'
  BY <1>1, <1>2, <1>3, <1>4, ExplainedFrame DEF LiveIds
\* A SET of another code, or of this one with a new entry.
<1>5. ASSUME NEW d \in Codes, NEW e, NEW STATE fresh, CacheWrite(d, e, fresh),
             d = c /\ fresh => Coherent(c)'
      PROVE  Explained(c)'
  <2>1. CASE d # c
    BY <1>0, <1>4, <1>5, <2>1 DEF CacheWrite, TypeOK
  <2>2. CASE d = c /\ fresh
    BY <1>5, <2>2 DEF Explained
  <2>3. CASE d = c /\ ~fresh
    <3>1. excuse' = [excuse EXCEPT ![c] = {"late"}]
      BY <1>5, <2>3 DEF CacheWrite
    <3>2. excuse'[c] # {}
      BY <1>0, <3>1 DEF TypeOK
    <3> QED
      BY <3>2 DEF Explained
  <2> QED
    BY <2>1, <2>2, <2>3
<1>6. ASSUME Backfill(r) PROVE Explained(c)'
  <2>1. rlink[r] \in Links /\ rlink[r].code \in Codes /\ Snapshot(rlink[r]) \in Links
    BY <1>0, <1>6, SnapshotType DEF Backfill, ShapeInv, Links
  <2> DEFINE d == rlink[r].code
             fresh == \E i \in LiveIds(rlink[r].code) : Agrees(rlink[r], links[i])
  <2>2. CASE CacheWrite(d, Snapshot(rlink[r]), fresh)
    <3>1. ASSUME d = c, fresh PROVE Coherent(c)'
      <4>1. cache'[c] = Snapshot(rlink[r])
        BY <1>0, <2>2, <3>1 DEF CacheWrite, TypeOK
      <4>2. PICK i \in LiveIds(c) : Agrees(rlink[r], links[i])
        BY <3>1
      <4>3. links[i] \in Links
        BY <1>0, <4>2, RowIsLink DEF LiveIds, IsLive
      <4>4. i \in LiveIds(c)' /\ Agrees(cache'[c], links'[i])
        BY <1>1, <1>3, <2>1, <4>1, <4>2, <4>3, SnapshotType
      <4>5. cache'[c] \notin {Miss, Neg}
        BY <2>1, <4>1, SentinelAssumption
      <4> QED
        BY <4>4, <4>5 DEF Coherent
    <3> HIDE DEF fresh, d
    <3>2. d \in Codes
      BY <2>1 DEF d
    <3> QED
      BY <1>5, <2>2, <3>1, <3>2
  <2>3. CASE UNCHANGED <<cache, excuse>>
    BY <1>4, <2>3
  <2> QED
    BY <1>6, <2>2, <2>3 DEF Backfill
<1>7. ASSUME BackfillNegative(r) PROVE Explained(c)'
  <2>1. rcode[r] \in Codes
    BY <1>0, <1>7 DEF BackfillNegative, ShapeInv
  <2> DEFINE d == rcode[r]
             fresh == LiveIds(rcode[r]) = {}
  <2>2. CASE CacheWrite(d, Neg, fresh)
    <3>1. ASSUME d = c, fresh PROVE Coherent(c)'
      <4>1. cache'[c] = Neg
        BY <1>0, <2>2, <3>1 DEF CacheWrite, TypeOK
      <4> QED
        BY <1>3, <3>1, <4>1 DEF Coherent
    <3> HIDE DEF fresh, d
    <3>2. d \in Codes
      BY <2>1 DEF d
    <3> QED
      BY <1>5, <2>2, <3>1, <3>2
  <2>3. CASE UNCHANGED <<cache, excuse>>
    BY <1>4, <2>3
  <2> QED
    BY <1>7, <2>2, <2>3 DEF BackfillNegative
<1>8. ASSUME UNCHANGED <<cache, excuse>> PROVE Explained(c)'
  BY <1>4, <1>8
<1> QED
  BY <1>6, <1>7, <1>8 DEF ResolveStart, ResolveStep, ResolveHit, ResolveMiss, ReadFound,
     ReadNotFound, ReadError

\* Management calls: a commit leaves its own eviction pending, and a create
\* over a leftover entry is noted.
LEMMA CallExplained ==
    ASSUME Base, NEW c \in Codes, Explained(c),
           NEW k \in Calls, CallStart(k) \/ CallStep(k)
    PROVE  Explained(c)'
<1>0. TypeOK /\ ShapeInv
  BY DEF Base
<1>1. UNCHANGED <<now, evict>>
  BY DEF CallStart, CallStep, StartCreate, StartUpdate, StartDelete, InsertOk, InsertConflict,
     EmitCreated, CommitUpdate, CommitDelete, Invalidate, CallError, clickVars
\* A step of a call that owes no eviction for c.
<1>2. ASSUME pc[k] # "invalidate" \/ held[k].code # c,
             \A j \in Calls \ {k} : pc'[j] = pc[j] /\ held'[j] = held[j],
             \A i \in Ids : (IsLive(i)' /\ links'[i].code = c) <=> (IsLive(i) /\ links[i].code = c),
             \A i \in LiveIds(c) : links'[i] = links[i],
             UNCHANGED <<cache[c], excuse[c]>>
      PROVE  Explained(c)'
  <2>1. EvictPending(c) => EvictPending(c)'
    BY <1>1, <1>2 DEF EvictPending
  <2> QED
    BY <1>1, <1>2, <2>1, ExplainedFrame
<1>3. ASSUME pc[k] # "invalidate" \/ held[k].code # c,
             \A j \in Calls \ {k} : pc'[j] = pc[j] /\ held'[j] = held[j],
             UNCHANGED <<links, cache[c], excuse[c]>>
      PROVE  Explained(c)'
  BY <1>2, <1>3 DEF IsLive, IsRow
<1>4. ASSUME CallStart(k) PROVE Explained(c)'
  BY <1>0, <1>3, <1>4 DEF CallStart, StartCreate, StartUpdate, StartDelete, Done, TypeOK
<1>5. ASSUME NEW d \in Codes, InsertConflict(k, d) PROVE Explained(c)'
  BY <1>0, <1>3, <1>5 DEF InsertConflict, Done, TypeOK
<1>6. ASSUME EmitCreated(k) \/ CallError(k) PROVE Explained(c)'
  BY <1>0, <1>3, <1>6 DEF EmitCreated, CallError, Done, TypeOK
<1>7. ASSUME NEW d \in Codes, NEW i \in Ids, InsertOk(k, d, i) PROVE Explained(c)'
  <2>1. /\ links'[i].code = d /\ links[i] = Absent
        /\ \A j \in Ids \ {i} : links'[j] = links[j]
    <3> DEFINE l == [held[k] EXCEPT !.id = i, !.code = d, !.created = now]
    <3>1. held[k] \in Drafts
      BY <1>0, <1>7 DEF InsertOk, ShapeInv
    <3>2. l.code = d
      BY <3>1 DEF Drafts
    <3>3. links' = [links EXCEPT ![i] = l] /\ links[i] = Absent
      BY <1>7 DEF InsertOk
    <3> HIDE DEF l
    <3> QED
      BY <1>0, <3>2, <3>3 DEF TypeOK
  <2>2. CASE d # c
    <3>1. \A j \in Ids : (IsLive(j)' /\ links'[j].code = c) <=> (IsLive(j) /\ links[j].code = c)
      BY <2>1, <2>2 DEF IsLive, IsRow
    <3>2. \A j \in LiveIds(c) : links'[j] = links[j]
      BY <2>1 DEF LiveIds, IsLive, IsRow
    <3>3. /\ pc[k] # "invalidate" /\ UNCHANGED <<cache[c], excuse[c]>>
          /\ \A j \in Calls \ {k} : pc'[j] = pc[j] /\ held'[j] = held[j]
      BY <1>0, <1>7, <2>2 DEF InsertOk, TypeOK
    <3> QED
      BY <1>2, <3>1, <3>2, <3>3
  <2>3. CASE d = c /\ cache[c] = Miss
    BY <1>7, <2>3 DEF InsertOk, Explained, Coherent
  <2>4. CASE d = c /\ cache[c] # Miss
    <3>1. excuse'[c] = excuse[c] \cup {"created"}
      BY <1>0, <1>7, <2>4 DEF InsertOk, TypeOK
    <3> QED
      BY <3>1 DEF Explained
  <2> QED
    BY <2>2, <2>3, <2>4
\* A commit on the row the call holds.
<1>8. ASSUME NEW i \in Ids, NEW l \in Links, i = held[k].id, HoldsRow(k), IsRow(i),
             l.code = links[i].code, links' = [links EXCEPT ![i] = l],
             pc[k] # "invalidate", pc' = [pc EXCEPT ![k] = "invalidate"],
             UNCHANGED <<held, cache, excuse>>
      PROVE  Explained(c)'
  <2>1. /\ links'[i] = l /\ pc'[k] = "invalidate"
        /\ \A j \in Ids \ {i} : links'[j] = links[j]
        /\ \A j \in Calls \ {k} : pc'[j] = pc[j]
    BY <1>0, <1>8 DEF TypeOK
  <2>2. links[i].code = held[k].code
    BY <1>8 DEF HoldsRow
  <2>3. CASE held[k].code = c
    BY <1>8, <2>1, <2>3 DEF Explained, EvictPending
  <2>4. CASE held[k].code # c
    <3>1. \A j \in Ids : (IsLive(j)' /\ links'[j].code = c) <=> (IsLive(j) /\ links[j].code = c)
      BY <1>8, <2>1, <2>2, <2>4 DEF IsLive, IsRow
    <3>2. \A j \in LiveIds(c) : links'[j] = links[j]
      BY <2>1, <2>2, <2>4 DEF LiveIds
    <3> QED
      BY <1>2, <1>8, <2>1, <3>1, <3>2
  <2> QED
    BY <2>3, <2>4
<1>9. ASSUME CommitUpdate(k) PROVE Explained(c)'
  <2> DEFINE i == held[k].id
  <2>1. HoldsRow(k) /\ i \in Ids /\ held[k] \in Links
    BY <1>0, <1>9 DEF CommitUpdate, ShapeInv, HoldsRow, Links
  <2>2. CASE Owns(held[k].tenant, i)
    <3>1. IsRow(i) /\ links[i] \in Links /\ links[i].code = held[k].code
      BY <1>0, <2>1, <2>2, RowIsLink DEF Owns, IsLive, HoldsRow
    <3> DEFINE l == WriteMutable(links[i], held[k])
    <3>2. l \in Links /\ l.code = links[i].code
      BY <2>1, <3>1 DEF WriteMutable, Links
    <3>3. links' = [links EXCEPT ![i] = l]
      BY <1>9, <2>2 DEF CommitUpdate
    <3> HIDE DEF l
    <3> QED
      BY <1>8, <1>9, <2>1, <2>2, <3>1, <3>2, <3>3 DEF CommitUpdate
  <2>3. CASE ~Owns(held[k].tenant, i)
    BY <1>0, <1>3, <1>9, <2>3 DEF CommitUpdate, Done, TypeOK
  <2> QED
    BY <2>2, <2>3
<1>10. ASSUME CommitDelete(k) PROVE Explained(c)'
  <2> DEFINE i == held[k].id
  <2>1. HoldsRow(k) /\ i \in Ids /\ held[k] \in Links
    BY <1>0, <1>10 DEF CommitDelete, ShapeInv, HoldsRow, Links
  <2>2. CASE Owns(who[k], i)
    <3>1. IsRow(i) /\ links[i] \in Links /\ now \in Nat
      BY <1>0, <2>1, <2>2, RowIsLink, BoundsAssumption DEF Owns, IsLive, TypeOK
    <3> DEFINE l == [links[i] EXCEPT !.deleted = now]
    <3>2. l \in Links /\ l.code = links[i].code
      BY <3>1 DEF Links
    <3>3. links' = [links EXCEPT ![i] = l]
      BY <1>10, <2>2 DEF CommitDelete
    <3> HIDE DEF l
    <3> QED
      BY <1>8, <1>10, <2>1, <2>2, <3>1, <3>2, <3>3 DEF CommitDelete
  <2>3. CASE ~Owns(who[k], i)
    BY <1>0, <1>3, <1>10, <2>3 DEF CommitDelete, Done, TypeOK
  <2> QED
    BY <2>2, <2>3
<1>11. ASSUME Invalidate(k) PROVE Explained(c)'
  <2>1. PICK d \in Codes : d = held[k].code
    BY <1>0, <1>11 DEF Invalidate, ShapeInv, HoldsRow, Links
  <2>2. /\ Explained(d)'
        /\ \A e \in Codes \ {d} : cache'[e] = cache[e] /\ excuse'[e] = excuse[e]
    BY <1>0, <1>11, <2>1, EvictExplained DEF Invalidate
  <2>3. \A j \in Calls \ {k} : pc'[j] = pc[j] /\ held'[j] = held[j]
    BY <1>0, <1>11 DEF Invalidate, Done, TypeOK
  <2>4. UNCHANGED links
    BY <1>11 DEF Invalidate
  <2> QED
    BY <1>3, <2>1, <2>2, <2>3, <2>4
<1> QED
  BY <1>4, <1>5, <1>6, <1>7, <1>9, <1>10, <1>11 DEF CallStep

\* Workers: a link that a flush exhausts has its code among the codes the
\* flush returns, so its entry is about to be evicted.
LEMMA WorkerExplained ==
    ASSUME Base, NEW c \in Codes, Explained(c), NEW w \in Workers, WorkerStep(w)
    PROVE  Explained(c)'
<1>0. TypeOK /\ ShapeInv
  BY DEF Base
<1>1. ASSUME NEW n \in 1..BatchSize, RecordBatch(w, n) PROVE Explained(c)'
  <2> DEFINE b == SubSeq(input, 1, n)
  <2>1. b \in Seq(Ids)
    BY <1>0, <1>1 DEF TypeOK, RecordBatch
  <2>2. UNCHANGED <<now, cache, excuse, pc, held>> /\ evict[w] = {}
    BY <1>1 DEF RecordBatch, callVars
  <2>3. CASE UNCHANGED <<links, evict>>
    <3>1. EvictPending(c)' <=> EvictPending(c)
      BY <2>2, <2>3 DEF EvictPending
    <3>2. \A i \in Ids : IsLive(i)' <=> IsLive(i)
      BY <2>3 DEF IsLive, IsRow
    <3> QED
      BY <2>2, <2>3, <3>1, <3>2, ExplainedFrame
  <2>4. CASE links' = Counted(b) /\ evict' = [evict EXCEPT ![w] = ExhaustedCodes(b, links')]
    <3>1. EvictPending(c) => EvictPending(c)'
      BY <1>0, <2>2, <2>4 DEF EvictPending, TypeOK
    <3>2. ASSUME NEW i \in Ids
          PROVE  /\ IsLive(i)' <=> IsLive(i)
                 /\ IsLive(i) => /\ links[i] \in Links /\ links'[i] \in Links
                                 /\ links'[i] = [links[i] EXCEPT !.clicks = links[i].clicks + ClicksOf(b, i)]
                                 /\ links'[i].code = links[i].code
      <4>1. CASE IsRow(i)
        <5>1. links[i] \in Links
          BY <1>0, <4>1, RowIsLink
        <5>2. /\ links'[i] = [links[i] EXCEPT !.clicks = links[i].clicks + ClicksOf(b, i)]
              /\ links'[i] \in Links
          BY <2>1, <2>4, <4>1, CountedRows
        <5>3. links'[i].code = links[i].code /\ links'[i].deleted = links[i].deleted
          BY <5>1, <5>2 DEF Links
        <5>4. IsRow(i)'
          BY <5>2, SentinelAssumption DEF IsRow
        <5> QED
          BY <4>1, <5>1, <5>2, <5>3, <5>4 DEF IsLive
      <4>2. CASE ~IsRow(i)
        <5>1. links'[i] = links[i]
          BY <2>1, <2>4, <4>2, CountedRows
        <5> QED
          BY <4>2, <5>1 DEF IsLive, IsRow
      <4> QED
        BY <4>1, <4>2
    <3>3. LiveIds(c)' = LiveIds(c)
      BY <3>2 DEF LiveIds
    <3>4. ASSUME NEW i \in LiveIds(c), cache[c] \in Links, Agrees(cache[c], links[i])
          PROVE  Agrees(cache[c], links'[i]) \/ EvictPending(c)'
      <4>1. /\ i \in Ids /\ links[i] \in Links /\ links'[i] \in Links
            /\ links'[i] = [links[i] EXCEPT !.clicks = links[i].clicks + ClicksOf(b, i)]
            /\ links'[i].code = c
        BY <3>2, <3>4 DEF LiveIds
      <4>2. ClicksOf(b, i) \in Nat
        BY <2>1, <4>1, ClicksOfType
      <4>3. CASE ClicksOf(b, i) = 0
        <5>1. links'[i] = links[i]
          <6> DEFINE q == ClicksOf(b, i)
          <6>1. links'[i] = [links[i] EXCEPT !.clicks = links[i].clicks + q] /\ q = 0
            BY <4>1, <4>3
          <6> HIDE DEF q
          <6>2. links[i].clicks + q = links[i].clicks
            BY <4>1, <6>1 DEF Links
          <6> QED
            BY <4>1, <6>1, <6>2 DEF Links
        <5> QED
          BY <3>4, <5>1
      <4>4. CASE ClicksOf(b, i) > 0 /\ IsExhausted(links'[i])
        <5>1. c \in ExhaustedCodes(b, links')
          BY <4>1, <4>4 DEF ExhaustedCodes
        <5>2. c \in evict'[w]
          BY <1>0, <2>4, <5>1 DEF TypeOK
        <5> QED
          BY <5>2 DEF EvictPending
      <4>5. CASE ~IsExhausted(links'[i])
        <5>1. /\ links'[i].id = links[i].id /\ links'[i].target = links[i].target
              /\ links'[i].expires = links[i].expires /\ links'[i].max = links[i].max
          BY <4>1 DEF Links
        <5> QED
          BY <3>4, <4>5, <5>1 DEF Agrees
      <4> QED
        BY <4>2, <4>3, <4>4, <4>5
    <3>5. Coherent(c) => Coherent(c)' \/ EvictPending(c)'
      <4> SUFFICES ASSUME Coherent(c) PROVE Coherent(c)' \/ EvictPending(c)'
        OBVIOUS
      <4>1. CASE cache[c] = Miss
        BY <2>2, <4>1 DEF Coherent
      <4>2. CASE LiveIds(c) = {}
        BY <2>2, <3>3, <4>2 DEF Coherent
      <4>3. CASE cache[c] \notin {Miss, Neg} /\ \E i \in LiveIds(c) : Agrees(cache[c], links[i])
        <5>1. cache[c] \in Links
          BY <1>0, <4>3 DEF TypeOK
        <5>2. PICK i \in LiveIds(c) : Agrees(cache[c], links[i])
          BY <4>3
        <5>3. CASE EvictPending(c)'
          BY <5>3
        <5>4. CASE Agrees(cache[c], links'[i])
          <6>1. i \in LiveIds(c)' /\ Agrees(cache'[c], links'[i]) /\ cache'[c] \notin {Miss, Neg}
            BY <2>2, <3>3, <4>3, <5>2, <5>4
          <6> QED
            BY <6>1 DEF Coherent
        <5> QED
          BY <3>4, <5>1, <5>2, <5>3, <5>4
      <4> QED
        BY <4>1, <4>2, <4>3 DEF Coherent
    <3> QED
      BY <2>2, <3>1, <3>5 DEF Explained
  <2> QED
    BY <1>1, <2>3, <2>4 DEF RecordBatch
<1>2. ASSUME NEW d \in Codes, EvictExhausted(w, d) PROVE Explained(c)'
  <2>1. /\ Explained(d)'
        /\ \A e \in Codes \ {d} : cache'[e] = cache[e] /\ excuse'[e] = excuse[e]
    BY <1>0, <1>2, EvictExplained DEF EvictExhausted
  <2>2. CASE d # c
    <3>1. EvictPending(c) => EvictPending(c)'
      BY <1>0, <1>2, <2>2 DEF EvictExhausted, EvictPending, callVars, TypeOK
    <3>2. UNCHANGED <<now, links>>
      BY <1>2 DEF EvictExhausted
    <3>3. \A i \in Ids : IsLive(i)' <=> IsLive(i)
      BY <3>2 DEF IsLive, IsRow
    <3> QED
      BY <2>1, <2>2, <3>1, <3>2, <3>3, ExplainedFrame
  <2> QED
    BY <2>1, <2>2
<1> QED
  BY <1>1, <1>2 DEF WorkerStep

\* A link that cannot be served stays so as time passes.
LEMMA InactiveStays ==
    ASSUME NEW l \in Links, NEW t \in Nat, NEW u \in Nat, t <= u, ~IsActive(l, t)
    PROVE  ~IsActive(l, u)
  BY DEF IsActive, IsExpired, Links

\* Background steps.  The janitor never evicts: a live link it removes has
\* expired, so the snapshot that is left behind answers 410 for good, and no
\* second live link of the code is hidden by it.
LEMMA BackgroundExplained ==
    ASSUME Base, UniqueLiveCode, NEW c \in Codes, Explained(c),
           (\E d \in Codes : CacheExpire(d)) \/ SweepStart \/ PurgeExpired \/ Tick
    PROVE  Explained(c)'
<1> USE BoundsAssumption
<1>0. TypeOK /\ ShapeInv
  BY DEF Base
<1>1. UNCHANGED <<pc, held, evict>>
  BY DEF CacheExpire, SweepStart, PurgeExpired, Tick, callVars, clickVars
<1>2. EvictPending(c)' <=> EvictPending(c)
  BY <1>1 DEF EvictPending
<1>3. ASSUME UNCHANGED links PROVE /\ \A i \in Ids : IsLive(i)' <=> IsLive(i)
                                   /\ LiveIds(c)' = LiveIds(c)
  BY <1>3 DEF IsLive, IsRow, LiveIds
<1>4. ASSUME NEW d \in Codes, CacheExpire(d) PROVE Explained(c)'
  <2>1. UNCHANGED <<now, links>> /\ Del(d)
    BY <1>4 DEF CacheExpire
  <2>2. /\ Explained(d)'
        /\ \A e \in Codes \ {d} : cache'[e] = cache[e] /\ excuse'[e] = excuse[e]
    BY <1>0, <2>1, EvictExplained
  <2> QED
    BY <1>2, <1>3, <2>1, <2>2, ExplainedFrame
<1>5. ASSUME SweepStart PROVE Explained(c)'
  <2>1. UNCHANGED <<now, links, cache, excuse>>
    BY <1>5 DEF SweepStart
  <2> QED
    BY <1>2, <1>3, <2>1, ExplainedFrame
<1>6. ASSUME PurgeExpired PROVE Explained(c)'
  <2>1. UNCHANGED <<now, cache, excuse>> /\ now \in Nat
    BY <1>0, <1>6 DEF PurgeExpired, TypeOK
  <2>2. \A i \in Ids : links'[i] = links[i] \/
          (IsRow(i) /\ links'[i] = Purged /\ Purgeable(links[i], cutoff))
    BY <1>0, <1>6 DEF PurgeExpired, TypeOK
  <2>3. \A i \in Ids : IsLive(i)' => IsLive(i) /\ links'[i] = links[i]
    BY <2>2 DEF IsLive, IsRow
  <2>4. LiveIds(c)' \subseteq LiveIds(c)
    BY <2>3 DEF LiveIds
  <2>5. ASSUME NEW i \in LiveIds(c), cache[c] \in Links, Agrees(cache[c], links[i])
        PROVE  \/ i \in LiveIds(c)' /\ links'[i] = links[i]
               \/ LiveIds(c)' = {} /\ ~IsActive(cache[c], now)
    <3>1. i \in Ids /\ IsLive(i) /\ links[i].code = c
      BY DEF LiveIds
    <3>2. CASE links'[i] = links[i]
      BY <3>1, <3>2 DEF LiveIds, IsLive, IsRow
    <3>3. CASE links'[i] = Purged /\ Purgeable(links[i], cutoff)
      <4>1. ~IsLive(i)'
        BY <3>3 DEF IsLive, IsRow
      <4>2. LiveIds(c)' = {}
        <5> SUFFICES ASSUME NEW j \in LiveIds(c)' PROVE FALSE
          OBVIOUS
        <5>1. j \in Ids /\ IsLive(j)' /\ j \in LiveIds(c)
          BY <2>4 DEF LiveIds
        <5>2. IsLive(j) /\ links[j].code = c
          BY <5>1 DEF LiveIds
        <5>3. j = i
          BY <3>1, <5>1, <5>2 DEF UniqueLiveCode
        <5> QED
          BY <4>1, <5>1, <5>3
      <4>3. links[i].expires # None /\ links[i].expires < cutoff /\ links[i] \in Links
        BY <1>0, <3>1, <3>3, RowIsLink DEF Purgeable, IsLive
      <4>4. cutoff \in Int /\ cutoff <= now - Retention
        BY <1>0, <1>6 DEF PurgeExpired, ShapeInv
      <4>5. cache[c].expires = links[i].expires
        BY <2>5 DEF Agrees
      <4>6. links[i].expires \in Int
        BY <4>3 DEF Links
      <4>7. IsExpired(cache[c], now)
        BY <2>1, <4>3, <4>4, <4>5, <4>6 DEF IsExpired
      <4> QED
        BY <4>2, <4>7 DEF IsActive
    <3> QED
      BY <2>2, <3>1, <3>2, <3>3
  <2>6. Coherent(c) => Coherent(c)'
    <3> SUFFICES ASSUME Coherent(c) PROVE Coherent(c)'
      OBVIOUS
    <3>1. CASE cache[c] = Miss
      BY <2>1, <3>1 DEF Coherent
    <3>2. CASE LiveIds(c) = {}
      <4>1. LiveIds(c)' = {}
        BY <2>4, <3>2
      <4> QED
        BY <2>1, <3>2, <4>1 DEF Coherent
    <3>3. CASE cache[c] \notin {Miss, Neg} /\ \E i \in LiveIds(c) : Agrees(cache[c], links[i])
      <4>1. cache[c] \in Links
        BY <1>0, <3>3 DEF TypeOK
      <4>2. PICK i \in LiveIds(c) : Agrees(cache[c], links[i])
        BY <3>3
      <4>3. CASE i \in LiveIds(c)' /\ links'[i] = links[i]
        BY <2>1, <3>3, <4>2, <4>3 DEF Coherent
      <4>4. CASE LiveIds(c)' = {} /\ ~IsActive(cache[c], now)
        BY <2>1, <3>3, <4>4 DEF Coherent
      <4> QED
        BY <2>5, <4>1, <4>2, <4>3, <4>4
    <3> QED
      BY <3>1, <3>2, <3>3 DEF Coherent
  <2> QED
    BY <1>2, <2>1, <2>6 DEF Explained
<1>7. ASSUME Tick PROVE Explained(c)'
  <2>1. UNCHANGED <<links, cache, excuse>> /\ now \in Nat /\ now' \in Nat /\ now <= now'
    BY <1>0, <1>7 DEF Tick, TypeOK
  <2>2. LiveIds(c)' = LiveIds(c)
    BY <1>3, <2>1
  <2>3. cache[c] \notin {Miss, Neg} /\ ~IsActive(cache[c], now) => ~IsActive(cache[c], now')
    BY <1>0, <2>1, InactiveStays DEF TypeOK
  <2>4. Coherent(c) => Coherent(c)'
    BY <2>1, <2>2, <2>3 DEF Coherent
  <2> QED
    BY <1>2, <2>1, <2>4 DEF Explained
<1> QED
  BY <1>4, <1>5, <1>6, <1>7

\* The inductive invariant: types and shapes, one live row per code, and an
\* explanation for every entry.
CoherenceInv == Base /\ UniqueLiveCode /\ StaleIsExplained

LEMMA CoherenceStep == CoherenceInv /\ [Next]_vars => CoherenceInv'
<1> SUFFICES ASSUME CoherenceInv, [Next]_vars PROVE CoherenceInv'
  OBVIOUS
<1>1. Base' /\ UniqueLiveCode'
  BY BaseStep, UniqueStep DEF CoherenceInv
<1>2. ASSUME NEW c \in Codes PROVE Explained(c)'
  <2>1. Base /\ UniqueLiveCode /\ Explained(c)
    BY DEF CoherenceInv, StaleIsExplained, Explained
  <2>2. CASE UNCHANGED vars
    <3>1. EvictPending(c)' <=> EvictPending(c)
      BY <2>2 DEF EvictPending, vars
    <3>2. /\ \A i \in Ids : IsLive(i)' <=> IsLive(i)
          /\ UNCHANGED <<now, links, cache, excuse>>
      BY <2>2 DEF IsLive, IsRow, vars
    <3> QED
      BY <2>1, <3>1, <3>2, ExplainedFrame
  <2>3. CASE Next
    BY <2>1, <2>3, RequestExplained, CallExplained, WorkerExplained, BackgroundExplained DEF Next
  <2> QED
    BY <2>2, <2>3
<1>3. StaleIsExplained'
  BY <1>2 DEF StaleIsExplained, Explained
<1> QED
  BY <1>1, <1>3 DEF CoherenceInv

\* For any number of servers, requests, calls and workers, a cache entry that
\* disagrees with the table is about to be evicted, survived a lost DEL, was
\* stale when it was written, or predates the link: Update, Delete, the click
\* counter and the janitor add no fifth way to serve a stale target.
THEOREM CoherenceCorrect == Spec => []StaleIsExplained
<1>1. Init => CoherenceInv
  <2>1. Init => UniqueLiveCode /\ StaleIsExplained
    BY DEF Init, UniqueLiveCode, IsLive, IsRow, StaleIsExplained, Coherent
  <2> QED
    BY <2>1, InitBase DEF CoherenceInv
<1>2. CoherenceInv => StaleIsExplained
  BY DEF CoherenceInv
<1> QED
  BY <1>1, <1>2, CoherenceStep, PTL DEF Spec

-----------------------------------------------------------------------------
(* No demo link without an expiry in reach.                                 *)

Capped(l, t) ==
    DemoMaxTTL > 0 /\ l.tenant = DemoTenant =>
        l.expires \in Int /\ l.expires <= t + DemoMaxTTL

\* The cap holds for the rows and for what a handler is about to write, which
\* it computed at an earlier time.
DemoInv ==
    /\ \A i \in Ids : IsRow(i) => Capped(links[i], now)
    /\ \A k \in Calls : pc[k] \in {"insert", "write"} => Capped(held[k], now)

\* A cap that holds keeps holding as the clock advances.
LEMMA CappedStays ==
    ASSUME NEW l, NEW m, NEW t \in Nat, NEW u \in Nat, t <= u, Capped(l, t),
           m.tenant = l.tenant, m.expires = l.expires
    PROVE  Capped(m, u)
  BY DemoMaxTTLAssumption DEF Capped

\* Where the expiry of a row comes from: the row itself, or a held link.
LEMMA ExpirySource ==
    ASSUME Base, [Next]_vars, NEW i \in Ids, IsRow(i)'
    PROVE  \/ /\ IsRow(i) /\ links'[i].tenant = links[i].tenant
              /\ links'[i].expires = links[i].expires
           \/ \E k \in Calls : /\ pc[k] \in {"insert", "write"}
                               /\ links'[i].tenant = held[k].tenant
                               /\ links'[i].expires = held[k].expires
<1>0. TypeOK /\ ShapeInv
  BY DEF Base
<1> DEFINE Kept == /\ IsRow(i) /\ links'[i].tenant = links[i].tenant
                   /\ links'[i].expires = links[i].expires
           Written(k) == /\ pc[k] \in {"insert", "write"}
                         /\ links'[i].tenant = held[k].tenant
                         /\ links'[i].expires = held[k].expires
<1>1. CASE links'[i] = links[i]
  BY <1>1 DEF IsRow
<1>2. ASSUME NEW k \in Calls, NEW c \in Codes, NEW j \in Ids, InsertOk(k, c, j)
      PROVE  links'[i] = links[i] \/ Written(k)
  <2> DEFINE l == [held[k] EXCEPT !.id = j, !.code = c, !.created = now]
  <2>1. held[k] \in Drafts /\ pc[k] = "insert"
    BY <1>0, <1>2 DEF InsertOk, ShapeInv
  <2>2. l.tenant = held[k].tenant /\ l.expires = held[k].expires
    BY <2>1 DEF Drafts
  <2>3. links' = [links EXCEPT ![j] = l]
    BY <1>2 DEF InsertOk
  <2> HIDE DEF l
  <2>4. links'[i] = IF i = j THEN l ELSE links[i]
    BY <1>0, <2>3 DEF TypeOK
  <2> QED
    BY <2>1, <2>2, <2>4
<1>3. ASSUME NEW k \in Calls, CommitUpdate(k)
      PROVE  links'[i] = links[i] \/ Written(k)
  <2> DEFINE j == held[k].id
  <2>1. HoldsRow(k) /\ j \in Ids /\ held[k] \in Links /\ pc[k] = "write"
    BY <1>0, <1>3 DEF CommitUpdate, ShapeInv, HoldsRow, Links
  <2>2. CASE Owns(held[k].tenant, j)
    <3>1. links[j] \in Links /\ links[j].tenant = held[k].tenant
      BY <1>0, <2>1, <2>2, RowIsLink DEF Owns, IsLive
    <3> DEFINE l == WriteMutable(links[j], held[k])
    <3>2. l.tenant = held[k].tenant /\ l.expires = held[k].expires
      BY <2>1, <3>1 DEF WriteMutable, Links
    <3>3. links' = [links EXCEPT ![j] = l]
      BY <1>3, <2>2 DEF CommitUpdate
    <3> HIDE DEF l
    <3>4. links'[i] = IF i = j THEN l ELSE links[i]
      BY <1>0, <2>1, <3>3 DEF TypeOK
    <3> QED
      BY <2>1, <3>2, <3>4
  <2>3. CASE ~Owns(held[k].tenant, j)
    BY <1>3, <2>3 DEF CommitUpdate
  <2> QED
    BY <2>2, <2>3
<1>4. ASSUME NEW k \in Calls, CommitDelete(k) PROVE links'[i] = links[i] \/ Kept
  <2> DEFINE j == held[k].id
  <2>1. j \in Ids
    BY <1>0, <1>4 DEF CommitDelete, ShapeInv, HoldsRow, Links
  <2>2. CASE Owns(who[k], j)
    <3>1. IsRow(j) /\ links[j] \in Links
      BY <1>0, <2>1, <2>2, RowIsLink DEF Owns, IsLive
    <3> DEFINE l == [links[j] EXCEPT !.deleted = now]
    <3>2. l.tenant = links[j].tenant /\ l.expires = links[j].expires
      BY <3>1 DEF Links
    <3>3. links' = [links EXCEPT ![j] = l]
      BY <1>4, <2>2 DEF CommitDelete
    <3> HIDE DEF l
    <3>4. links'[i] = IF i = j THEN l ELSE links[i]
      BY <1>0, <2>1, <3>3 DEF TypeOK
    <3> QED
      BY <3>1, <3>2, <3>4
  <2>3. CASE ~Owns(who[k], j)
    BY <1>4, <2>3 DEF CommitDelete
  <2> QED
    BY <2>2, <2>3
<1>5. ASSUME NEW w \in Workers, NEW n \in 1..BatchSize, RecordBatch(w, n)
      PROVE  links'[i] = links[i] \/ Kept
  <2>1. CASE links' = Counted(SubSeq(input, 1, n))
    <3>1. SubSeq(input, 1, n) \in Seq(Ids)
      BY <1>0, <1>5 DEF TypeOK, RecordBatch
    <3>2. CASE IsRow(i)
      <4>1. links[i] \in Links
        BY <1>0, <3>2, RowIsLink
      <4>2. links'[i] = [links[i] EXCEPT !.clicks = links[i].clicks + ClicksOf(SubSeq(input, 1, n), i)]
        BY <2>1, <3>1, <3>2, CountedRows
      <4> QED
        BY <3>2, <4>1, <4>2 DEF Links
    <3>3. CASE ~IsRow(i)
      BY <2>1, <3>1, <3>3, CountedRows
    <3> QED
      BY <3>2, <3>3
  <2> QED
    BY <1>5, <2>1 DEF RecordBatch
<1>6. ASSUME PurgeExpired PROVE links'[i] = links[i]
  <2>1. links'[i] = links[i] \/ links'[i] = Purged
    BY <1>0, <1>6 DEF PurgeExpired, TypeOK
  <2> QED
    BY <2>1 DEF IsRow
<1> HIDE DEF Kept
<1>7. ASSUME NEW k \in Calls, CallStart(k) \/ CallStep(k)
      PROVE  links'[i] = links[i] \/ Kept \/ Written(k)
  BY <1>2, <1>3, <1>4, <1>7 DEF CallStart, CallStep, StartCreate, StartUpdate, StartDelete,
     InsertConflict, EmitCreated, Invalidate, CallError
<1>8. ASSUME NEW w \in Workers, WorkerStep(w) PROVE links'[i] = links[i] \/ Kept
  BY <1>5, <1>8 DEF WorkerStep, EvictExhausted
<1>9. links'[i] = links[i] \/ Kept \/ \E k \in Calls : Written(k)
  <2>1. CASE UNCHANGED vars
    BY <2>1 DEF vars
  <2>2. ASSUME NEW r \in Requests, ResolveStart(r) \/ ResolveStep(r) PROVE links' = links
    BY <2>2 DEF ResolveStart, ResolveStep, ResolveHit, ResolveMiss, ReadFound, ReadNotFound,
       ReadError, Backfill, BackfillNegative
  <2>3. ASSUME (\E c \in Codes : CacheExpire(c)) \/ SweepStart \/ Tick PROVE links' = links
    BY <2>3 DEF CacheExpire, SweepStart, Tick
  <2> HIDE DEF Written
  <2> QED
    BY <1>6, <1>7, <1>8, <2>1, <2>2, <2>3 DEF Next
<1> QED
  BY <1>1, <1>9 DEF Kept

\* Where a link that is about to be written comes from: it was held already,
\* or it has just been clamped.
LEMMA HeldSource ==
    ASSUME Base, [Next]_vars, NEW k \in Calls, pc'[k] \in {"insert", "write"}
    PROVE  \/ pc[k] \in {"insert", "write"} /\ held'[k] = held[k]
           \/ Capped(held'[k], now)
<1>0. TypeOK /\ ShapeInv
  BY DEF Base
<1>1. now \in Nat
  BY <1>0, BoundsAssumption DEF TypeOK
<1>2. ASSUME NEW t \in Tenants, NEW in \in CreateBodies, StartCreate(k, t, in)
      PROVE  Capped(held'[k], now)
  <2>1. held'[k] = NewDraft(t, in, now)
    BY <1>0, <1>2 DEF StartCreate, Done, TypeOK
  <2>2. in \in CreateInputs /\ in.expires \in Int \cup {None}
    BY BodiesAssumption DEF CreateInputs
  <2>3. held'[k].tenant = t /\ held'[k].expires = ClampDemoExpiry(t, in.expires, now)
    BY <1>1, <2>1, <2>2, NewDraftType
  <2> QED
    BY <1>1, <2>2, <2>3, ClampType DEF Capped
<1>3. ASSUME NEW t \in Tenants, NEW i \in Ids, NEW in \in UpdateBodies, StartUpdate(k, t, i, in)
      PROVE  Capped(held'[k], now)
  <2>1. held'[k] = ApplyUpdate(links[i], in, now) /\ Owns(t, i)
    BY <1>0, <1>3 DEF StartUpdate, Done, TypeOK
  <2>2. links[i] \in Links /\ in \in UpdateInputs
    BY <1>0, <2>1, RowIsLink, BodiesAssumption DEF Owns, IsLive
  <2> QED
    BY <1>1, <2>1, <2>2, ApplyUpdateType DEF Capped
<1>4. ASSUME NEW j \in Calls, j # k, CallStart(j) \/ CallStep(j)
      PROVE  pc'[k] = pc[k] /\ held'[k] = held[k]
  <2>1. CASE CallStart(j)
    BY <1>0, <1>4, <2>1 DEF CallStart, StartCreate, StartUpdate, StartDelete, Done, TypeOK
  <2>2. ASSUME NEW c \in Codes, NEW i \in Ids, InsertOk(j, c, i)
        PROVE  pc'[k] = pc[k] /\ held'[k] = held[k]
    BY <1>0, <1>4, <2>2 DEF InsertOk, TypeOK
  <2>3. ASSUME NEW c \in Codes, InsertConflict(j, c)
        PROVE  pc'[k] = pc[k] /\ held'[k] = held[k]
    BY <1>0, <1>4, <2>3 DEF InsertConflict, Done, TypeOK
  <2>4. CASE EmitCreated(j) \/ CommitUpdate(j) \/ CommitDelete(j) \/ Invalidate(j) \/ CallError(j)
    BY <1>0, <1>4, <2>4 DEF EmitCreated, CommitUpdate, CommitDelete, Invalidate, CallError,
       Done, TypeOK
  <2> QED
    BY <1>4, <2>1, <2>2, <2>3, <2>4 DEF CallStep
<1>5. ASSUME CallStep(k) PROVE pc[k] = "insert" /\ held'[k] = held[k]
  BY <1>0, <1>5 DEF CallStep, InsertOk,
     InsertConflict, EmitCreated, CommitUpdate, CommitDelete, Invalidate, CallError, Done, TypeOK
<1>6. ASSUME NEW t \in Tenants, NEW i \in Ids, StartDelete(k, t, i) PROVE FALSE
  BY <1>0, <1>6 DEF StartDelete, Done, TypeOK
<1>7. CASE UNCHANGED <<pc, held>>
  BY <1>7
<1>8. ASSUME NEW r \in Requests, ResolveStart(r) \/ ResolveStep(r) PROVE UNCHANGED <<pc, held>>
  BY <1>8 DEF ResolveStart, ResolveStep, ResolveHit, ResolveMiss, ReadFound, ReadNotFound,
     ReadError, Backfill, BackfillNegative, callVars
<1>9. ASSUME NEW w \in Workers, WorkerStep(w) PROVE UNCHANGED <<pc, held>>
  BY <1>9 DEF WorkerStep, RecordBatch, EvictExhausted, callVars
<1>10. ASSUME (\E c \in Codes : CacheExpire(c)) \/ SweepStart \/ PurgeExpired \/ Tick
       PROVE  UNCHANGED <<pc, held>>
  BY <1>10 DEF CacheExpire, SweepStart, PurgeExpired, Tick, callVars
<1>11. CASE UNCHANGED vars
  BY <1>11 DEF vars
<1>12. CASE CallStart(k)
  BY <1>2, <1>3, <1>6, <1>12 DEF CallStart
<1> QED
  BY <1>4, <1>5, <1>7, <1>8, <1>9, <1>10, <1>11, <1>12 DEF Next

\* Clamping at every write is enough: although a handler clamps before its
\* database call and writes later, no interleaving of creates, updates and
\* sweeps leaves a demo link without an expiry or with one beyond the cap.
THEOREM DemoCapCorrect == Spec => []DemoExpiryCapped
<1>1. Init => Base /\ DemoInv
  <2>1. Init => DemoInv
    BY DEF Init, DemoInv, IsRow
  <2> QED
    BY <2>1, InitBase
<1>2. Base /\ DemoInv /\ [Next]_vars => Base' /\ DemoInv'
  <2> SUFFICES ASSUME Base, DemoInv, [Next]_vars PROVE DemoInv'
    BY BaseStep
  <2>1. now \in Nat /\ now' \in Nat /\ now <= now'
    <3>1. now \in Nat
      BY BoundsAssumption DEF Base, TypeOK
    <3>2. now' = now \/ now' = now + 1
      BY DEF Next, vars, ResolveStart, ResolveStep, ResolveHit, ResolveMiss, ReadFound,
         ReadNotFound, ReadError, Backfill, BackfillNegative, CallStart, CallStep, StartCreate,
         StartUpdate, StartDelete, InsertOk, InsertConflict, EmitCreated, CommitUpdate,
         CommitDelete, Invalidate, CallError, WorkerStep, RecordBatch, EvictExhausted,
         CacheExpire, SweepStart, PurgeExpired, Tick
    <3> QED
      BY <3>1, <3>2
  <2>2. ASSUME NEW i \in Ids, IsRow(i)' PROVE Capped(links'[i], now')
    <3>1. CASE IsRow(i) /\ links'[i].tenant = links[i].tenant /\ links'[i].expires = links[i].expires
      BY <2>1, <3>1, CappedStays DEF DemoInv
    <3>2. ASSUME NEW k \in Calls, pc[k] \in {"insert", "write"},
                 links'[i].tenant = held[k].tenant, links'[i].expires = held[k].expires
          PROVE  Capped(links'[i], now')
      BY <2>1, <3>2, CappedStays DEF DemoInv
    <3> QED
      BY <2>2, <3>1, <3>2, ExpirySource
  <2>3. ASSUME NEW k \in Calls, pc'[k] \in {"insert", "write"} PROVE Capped(held'[k], now')
    BY <2>1, <2>3, HeldSource, CappedStays DEF DemoInv
  <2> QED
    BY <2>2, <2>3 DEF DemoInv
<1>3. Base /\ DemoInv => DemoExpiryCapped
  BY NoneAssumption DEF DemoInv, DemoExpiryCapped, Capped
<1> QED
  BY <1>1, <1>2, <1>3, PTL DEF Spec

-----------------------------------------------------------------------------
(* What a step may do to a row: only its owner's calls change what it is.   *)

\* The call that writes row i: an UPDATE of the link it holds or a soft delete.
WritesRow(k, i) ==
    \/ CommitUpdate(k) /\ pc[k] = "write" /\ held[k].tenant = links[i].tenant
    \/ CommitDelete(k) /\ pc[k] = "soft_delete" /\ who[k] = links[i].tenant

\* A row changes when its clicks are counted, when the janitor purges it, or
\* when a call writes it, which keeps its clicks.
LEMMA RowStep ==
    ASSUME Base, [Next]_vars, NEW i \in Ids, IsRow(i)
    PROVE  \/ links'[i] = links[i]
           \/ links'[i] = Purged /\ UNCHANGED pc
           \/ links'[i].clicks >= links[i].clicks /\ UNCHANGED pc
           \/ \E k \in Calls : /\ WritesRow(k, i) /\ links'[i].clicks = links[i].clicks
                               /\ \A j \in Calls \ {k} : pc'[j] = pc[j]
<1>0. TypeOK /\ ShapeInv /\ links[i] \in Links
  BY RowIsLink DEF Base
<1> DEFINE Grown == links'[i].clicks >= links[i].clicks /\ UNCHANGED pc
           Gone == links'[i] = Purged /\ UNCHANGED pc
           Written(k) == /\ WritesRow(k, i) /\ links'[i].clicks = links[i].clicks
                         /\ \A j \in Calls \ {k} : pc'[j] = pc[j]
<1>1. CASE UNCHANGED links
  BY <1>1
<1>2. ASSUME NEW k \in Calls, NEW c \in Codes, NEW j \in Ids, InsertOk(k, c, j)
      PROVE  links'[i] = links[i]
  <2>1. i # j
    BY <1>2 DEF InsertOk, IsRow
  <2> QED
    BY <1>0, <1>2, <2>1 DEF InsertOk, TypeOK
<1>3. ASSUME NEW k \in Calls, CommitUpdate(k)
      PROVE  links'[i] = links[i] \/ Written(k)
  <2> DEFINE j == held[k].id
  <2>1. HoldsRow(k) /\ j \in Ids /\ held[k] \in Links /\ pc[k] = "write"
    BY <1>0, <1>3 DEF CommitUpdate, ShapeInv, HoldsRow, Links
  <2>2. CASE Owns(held[k].tenant, j) /\ i = j
    <3>1. held[k].tenant = links[i].tenant
      BY <2>2 DEF Owns
    <3> DEFINE l == WriteMutable(links[i], held[k])
    <3>2. l.clicks = links[i].clicks
      BY <1>0 DEF WriteMutable, Links
    <3>3. links' = [links EXCEPT ![i] = l] /\ pc' = [pc EXCEPT ![k] = "invalidate"]
      BY <1>3, <2>2 DEF CommitUpdate
    <3> HIDE DEF l
    <3>4. links'[i] = l /\ \A m \in Calls \ {k} : pc'[m] = pc[m]
      BY <1>0, <3>3 DEF TypeOK
    <3> QED
      BY <1>3, <2>1, <3>1, <3>2, <3>4 DEF WritesRow
  <2>3. CASE ~Owns(held[k].tenant, j) \/ i # j
    BY <1>0, <1>3, <2>1, <2>3 DEF CommitUpdate, TypeOK
  <2> QED
    BY <2>2, <2>3
<1>4. ASSUME NEW k \in Calls, CommitDelete(k)
      PROVE  links'[i] = links[i] \/ Written(k)
  <2> DEFINE j == held[k].id
  <2>1. j \in Ids /\ pc[k] = "soft_delete"
    BY <1>0, <1>4 DEF CommitDelete, ShapeInv, HoldsRow, Links
  <2>2. CASE Owns(who[k], j) /\ i = j
    <3>1. who[k] = links[i].tenant
      BY <2>2 DEF Owns
    <3> DEFINE l == [links[i] EXCEPT !.deleted = now]
    <3>2. l.clicks = links[i].clicks
      BY <1>0 DEF Links
    <3>3. links' = [links EXCEPT ![i] = l] /\ pc' = [pc EXCEPT ![k] = "invalidate"]
      BY <1>4, <2>2 DEF CommitDelete
    <3> HIDE DEF l
    <3>4. links'[i] = l /\ \A m \in Calls \ {k} : pc'[m] = pc[m]
      BY <1>0, <3>3 DEF TypeOK
    <3> QED
      BY <1>4, <2>1, <3>1, <3>2, <3>4 DEF WritesRow
  <2>3. CASE ~Owns(who[k], j) \/ i # j
    BY <1>0, <1>4, <2>1, <2>3 DEF CommitDelete, TypeOK
  <2> QED
    BY <2>2, <2>3
<1>5. ASSUME NEW w \in Workers, NEW n \in 1..BatchSize, RecordBatch(w, n)
      PROVE  links'[i] = links[i] \/ Grown
  <2>1. CASE links' = Counted(SubSeq(input, 1, n))
    <3>1. SubSeq(input, 1, n) \in Seq(Ids)
      BY <1>0, <1>5 DEF TypeOK, RecordBatch
    <3>2. ClicksOf(SubSeq(input, 1, n), i) \in Nat /\ links[i].clicks \in Nat
      BY <1>0, <3>1, ClicksOfType DEF Links
    <3>3. links'[i] = [links[i] EXCEPT !.clicks = links[i].clicks + ClicksOf(SubSeq(input, 1, n), i)]
      BY <2>1, <3>1, CountedRows
    <3>4. links'[i].clicks = links[i].clicks + ClicksOf(SubSeq(input, 1, n), i)
      BY <1>0, <3>3 DEF Links
    <3>5. links'[i].clicks >= links[i].clicks
      BY <3>2, <3>4
    <3>6. UNCHANGED pc
      BY <1>5 DEF RecordBatch, callVars
    <3> QED
      BY <3>5, <3>6
  <2> QED
    BY <1>5, <2>1 DEF RecordBatch
<1>6. ASSUME PurgeExpired PROVE links'[i] = links[i] \/ Gone
  BY <1>0, <1>6 DEF PurgeExpired, TypeOK, callVars
<1> HIDE DEF Grown, Gone
<1>7. ASSUME NEW k \in Calls, CallStart(k) \/ CallStep(k)
      PROVE  links'[i] = links[i] \/ Written(k)
  <2> HIDE DEF Written
  <2> QED
    BY <1>2, <1>3, <1>4, <1>7 DEF CallStart, CallStep, StartCreate, StartUpdate, StartDelete,
       InsertConflict, EmitCreated, Invalidate, CallError
<1>8. ASSUME NEW w \in Workers, WorkerStep(w) PROVE links'[i] = links[i] \/ Grown
  BY <1>5, <1>8 DEF WorkerStep, EvictExhausted
<1>9. ASSUME NEW r \in Requests, ResolveStart(r) \/ ResolveStep(r) PROVE links' = links
  BY <1>9 DEF ResolveStart, ResolveStep, ResolveHit, ResolveMiss, ReadFound, ReadNotFound,
     ReadError, Backfill, BackfillNegative
<1>10. ASSUME (\E c \in Codes : CacheExpire(c)) \/ SweepStart \/ Tick \/ UNCHANGED vars
       PROVE  links' = links
  BY <1>10 DEF CacheExpire, SweepStart, Tick, vars
<1>11. links'[i] = links[i] \/ Gone \/ Grown \/ \E k \in Calls : Written(k)
  <2> HIDE DEF Written
  <2> QED
    BY <1>6, <1>7, <1>8, <1>9, <1>10 DEF Next
<1> QED
  BY <1>11 DEF Gone, Grown

\* A click counted between an Update's read and its write-back is not lost:
\* the UPDATE leaves click_count alone, and no other statement lowers it.
THEOREM CountsCorrect == Spec => CountsNeverFall
<1> DEFINE A == \A i \in Ids : IsRow(i) /\ links'[i] # Purged =>
                    links'[i].clicks >= links[i].clicks
<1>1. Base /\ [Next]_vars => [A]_vars
  <2> SUFFICES ASSUME Base, [Next]_vars PROVE A
    OBVIOUS
  <2> SUFFICES ASSUME NEW i \in Ids, IsRow(i), links'[i] # Purged
               PROVE  links'[i].clicks >= links[i].clicks
    OBVIOUS
  <2>1. links[i].clicks \in Nat
    BY RowIsLink DEF Base, Links
  <2>2. links'[i].clicks = links[i].clicks \/ links'[i].clicks >= links[i].clicks
    BY RowStep
  <2> QED
    BY <2>1, <2>2
<1> QED
  BY <1>1, InitBase, BaseStep, PTL DEF Spec, CountsNeverFall

\* An Update writes back a link of the tenant that called it.
WriterInv == \A k \in Calls : pc[k] = "write" => who[k] = held[k].tenant

LEMMA WriterStep == Base /\ WriterInv /\ [Next]_vars => WriterInv'
<1> SUFFICES ASSUME Base, WriterInv, [Next]_vars, NEW k \in Calls, pc'[k] = "write"
             PROVE  who'[k] = held'[k].tenant
  BY DEF WriterInv
<1>0. TypeOK /\ ShapeInv /\ now \in Nat
  BY BoundsAssumption DEF Base, TypeOK
<1> DEFINE Same == pc'[k] = pc[k] /\ who'[k] = who[k] /\ held'[k] = held[k]
<1>1. CASE Same
  BY <1>1 DEF WriterInv
<1>2. ASSUME NEW t \in Tenants, NEW i \in Ids, NEW in \in UpdateBodies, StartUpdate(k, t, i, in)
      PROVE  who'[k] = held'[k].tenant
  <2>1. held'[k] = ApplyUpdate(links[i], in, now) /\ who'[k] = t /\ Owns(t, i)
    BY <1>0, <1>2 DEF StartUpdate, Done, TypeOK
  <2>2. links[i] \in Links /\ links[i].tenant = t /\ in \in UpdateInputs
    BY <1>0, <2>1, RowIsLink, BodiesAssumption DEF Owns, IsLive
  <2> QED
    BY <1>0, <2>1, <2>2, ApplyUpdateType
<1>3. ASSUME \/ \E t \in Tenants, in \in CreateBodies : StartCreate(k, t, in)
             \/ \E t \in Tenants, i \in Ids : StartDelete(k, t, i)
      PROVE  FALSE
  BY <1>0, <1>3 DEF StartCreate, StartDelete, Done, TypeOK
<1>4. ASSUME CallStep(k) PROVE FALSE
  BY <1>0, <1>4 DEF CallStep, InsertOk,
     InsertConflict, EmitCreated, CommitUpdate, CommitDelete, Invalidate, CallError, Done, TypeOK
<1>5. ASSUME NEW j \in Calls, j # k, CallStart(j) \/ CallStep(j) PROVE Same
  <2>1. CASE CallStart(j)
    BY <1>0, <1>5, <2>1 DEF CallStart, StartCreate, StartUpdate, StartDelete, Done, TypeOK
  <2>2. ASSUME NEW c \in Codes, NEW i \in Ids, InsertOk(j, c, i) PROVE Same
    BY <1>0, <1>5, <2>2 DEF InsertOk, TypeOK
  <2>3. ASSUME NEW c \in Codes, InsertConflict(j, c) PROVE Same
    BY <1>0, <1>5, <2>3 DEF InsertConflict, Done, TypeOK
  <2>4. CASE EmitCreated(j) \/ CommitUpdate(j) \/ CommitDelete(j) \/ Invalidate(j) \/ CallError(j)
    BY <1>0, <1>5, <2>4 DEF EmitCreated, CommitUpdate, CommitDelete, Invalidate, CallError,
       Done, TypeOK
  <2> HIDE DEF Same
  <2> QED
    BY <1>5, <2>1, <2>2, <2>3, <2>4 DEF CallStep
<1>6. ASSUME NEW r \in Requests, ResolveStart(r) \/ ResolveStep(r) PROVE Same
  BY <1>6 DEF ResolveStart, ResolveStep, ResolveHit, ResolveMiss, ReadFound, ReadNotFound,
     ReadError, Backfill, BackfillNegative, callVars
<1>7. ASSUME NEW w \in Workers, WorkerStep(w) PROVE Same
  BY <1>7 DEF WorkerStep, RecordBatch, EvictExhausted, callVars
<1>8. ASSUME \/ \E c \in Codes : CacheExpire(c)
             \/ SweepStart \/ PurgeExpired \/ Tick \/ UNCHANGED vars
      PROVE  Same
  BY <1>8 DEF CacheExpire, SweepStart, PurgeExpired, Tick, callVars, vars
<1> HIDE DEF Same
<1>9. CASE CallStart(k)
  BY <1>2, <1>3, <1>9 DEF CallStart
<1> QED
  BY <1>1, <1>4, <1>5, <1>6, <1>7, <1>8, <1>9 DEF Next

\* No interleaving lets a call of one tenant change the link of another: both
\* the read and the write-back of Update, and the soft delete, ask for the owner.
THEOREM IsolationCorrect == Spec => TenantIsolation
<1> DEFINE A == \A i \in Ids, k \in Calls :
                    IsRow(i) /\ pc[k] # pc'[k] /\ links'[i] # links[i] => who[k] = links[i].tenant
<1>1. Init => Base /\ WriterInv
  BY InitBase DEF Init, WriterInv
<1>2. Base /\ WriterInv /\ [Next]_vars => [A]_vars
  <2> SUFFICES ASSUME Base, WriterInv, [Next]_vars PROVE A
    OBVIOUS
  <2> SUFFICES ASSUME NEW i \in Ids, NEW k \in Calls,
                      IsRow(i), pc[k] # pc'[k], links'[i] # links[i]
               PROVE  who[k] = links[i].tenant
    OBVIOUS
  <2>1. PICK j \in Calls : WritesRow(j, i) /\ \A m \in Calls \ {j} : pc'[m] = pc[m]
    BY RowStep
  <2>2. j = k
    BY <2>1
  <2> QED
    BY <2>1, <2>2 DEF WritesRow, WriterInv
<1> QED
  BY <1>1, <1>2, BaseStep, WriterStep, PTL DEF Spec, TenantIsolation
-----------------------------------------------------------------------------
(* Convergence by TTL.                                                      *)

\* A step after which redirects of c deserve the answers they deserved before:
\* the same rows are live and ask for the same redirect.  Clicks may be counted.
SameAnswer(c) ==
    /\ LiveIds(c)' = LiveIds(c)
    /\ \A i \in LiveIds(c) : Agrees(links[i], links'[i])

\* A redirect is about to write to the cache what c was and is no longer.
OldRead(c) ==
    \E r \in Requests :
        \/ /\ rpc[r] = "set" /\ rlink[r].code = c
           /\ \A i \in LiveIds(c) : ~Agrees(rlink[r], links[i])
        \/ rpc[r] = "set_negative" /\ rcode[r] = c /\ LiveIds(c) # {}

\* An entry changes when a redirect fills it in and when it is deleted, by an
\* eviction or by Redis; and the clock never goes back.
LEMMA EntrySource ==
    ASSUME Base, [Next]_vars, NEW c \in Codes
    PROVE  /\ \/ cache'[c] \in {cache[c], Miss}
              \/ \E r \in Requests : /\ rpc[r] = "set" /\ rlink[r].code = c
                                     /\ cache'[c] = Snapshot(rlink[r])
              \/ \E r \in Requests : /\ rpc[r] = "set_negative" /\ rcode[r] = c
                                     /\ cache'[c] = Neg
           /\ now \in Nat /\ now' \in Nat /\ now <= now'
<1> DEFINE Goal == /\ \/ cache'[c] \in {cache[c], Miss}
                      \/ \E r \in Requests : /\ rpc[r] = "set" /\ rlink[r].code = c
                                             /\ cache'[c] = Snapshot(rlink[r])
                      \/ \E r \in Requests : /\ rpc[r] = "set_negative" /\ rcode[r] = c
                                             /\ cache'[c] = Neg
                   /\ now \in Nat /\ now' \in Nat /\ now <= now'
<1>0. cache \in [Codes -> Links \cup {Miss, Neg}] /\ now \in Nat
  BY BoundsAssumption DEF Base, TypeOK
<1>1. ASSUME UNCHANGED <<now, cache>> PROVE Goal
  BY <1>0, <1>1
<1>2. ASSUME NEW d, UNCHANGED now, Del(d) \/ DelLost(d) PROVE Goal
  BY <1>0, <1>2 DEF Del, DelLost
<1>3. ASSUME NEW r \in Requests, Backfill(r) PROVE Goal
  <2>1. /\ now' = now /\ rpc[r] = "set"
        /\ cache' = [cache EXCEPT ![rlink[r].code] = Snapshot(rlink[r])] \/ cache' = cache
    BY <1>3 DEF Backfill, CacheWrite
  <2> QED
    BY <1>0, <2>1
<1>4. ASSUME NEW r \in Requests, BackfillNegative(r) PROVE Goal
  <2>1. /\ now' = now /\ rpc[r] = "set_negative"
        /\ cache' = [cache EXCEPT ![rcode[r]] = Neg] \/ cache' = cache
    BY <1>4 DEF BackfillNegative, CacheWrite
  <2> QED
    BY <1>0, <2>1
<1>5. ASSUME Tick PROVE Goal
  BY <1>0, <1>5 DEF Tick
<1> HIDE DEF Goal
<1>6. ASSUME NEW r \in Requests, ResolveStart(r) \/ ResolveStep(r) PROVE Goal
  <2>1. \/ UNCHANGED <<now, cache>> \/ Backfill(r) \/ BackfillNegative(r)
    BY <1>6 DEF ResolveStart, ResolveStep, ResolveHit, ResolveMiss, ReadFound, ReadNotFound,
       ReadError
  <2> QED
    BY <1>1, <1>3, <1>4, <2>1
<1>7. ASSUME NEW k \in Calls, CallStart(k) \/ CallStep(k) PROVE Goal
  <2>1. CASE CallStart(k)
    BY <1>1, <2>1 DEF CallStart, StartCreate, StartUpdate, StartDelete
  <2>2. CASE Invalidate(k)
    BY <1>2, <2>2 DEF Invalidate
  <2>3. CASE \E d \in Codes : InsertConflict(k, d) \/ \E i \in Ids : InsertOk(k, d, i)
    BY <1>1, <2>3 DEF InsertConflict, InsertOk
  <2>4. CASE EmitCreated(k) \/ CommitUpdate(k) \/ CommitDelete(k) \/ CallError(k)
    BY <1>1, <2>4 DEF EmitCreated, CommitUpdate, CommitDelete, CallError
  <2> QED
    BY <1>7, <2>1, <2>2, <2>3, <2>4 DEF CallStep
<1>8. ASSUME NEW w \in Workers, WorkerStep(w) PROVE Goal
  BY <1>1, <1>2, <1>8 DEF WorkerStep, RecordBatch, EvictExhausted
<1>9. ASSUME (\E d \in Codes : CacheExpire(d)) \/ SweepStart \/ PurgeExpired \/ UNCHANGED vars
      PROVE  Goal
  BY <1>1, <1>2, <1>9 DEF CacheExpire, SweepStart, PurgeExpired, vars
<1>10. Goal
  BY <1>5, <1>6, <1>7, <1>8, <1>9 DEF Next
<1> QED
  BY <1>10 DEF Goal

\* While the answer of a code rests and no old read of it is in flight, a
\* coherent entry stays coherent: what is filled in is what the table says.
LEMMA CoherentStays ==
    ASSUME Base, [Next]_vars, NEW c \in Codes, SameAnswer(c), ~OldRead(c), Coherent(c)
    PROVE  Coherent(c)'
<1> DEFINE e == cache'[c]
<1>0. TypeOK /\ ShapeInv
  BY DEF Base
<1>1. LiveIds(c)' = LiveIds(c) /\ \A i \in LiveIds(c) : links[i] \in Links
  BY <1>0, RowIsLink DEF SameAnswer, LiveIds, IsLive
<1>2. \A l : \A i \in LiveIds(c) : Agrees(l, links[i]) => Agrees(l, links'[i])
  BY DEF SameAnswer, Agrees
<1>3. CASE e = Miss
  BY <1>3 DEF Coherent
<1>4. CASE e = cache[c]
  <2>1. now \in Nat /\ now' \in Nat /\ now <= now' /\ e \in Links \cup {Miss, Neg}
    BY <1>0, <1>4, EntrySource DEF TypeOK
  <2>2. e \notin {Miss, Neg} /\ ~IsActive(e, now) => ~IsActive(e, now')
    BY <2>1, InactiveStays
  <2> QED
    BY <1>1, <1>2, <1>4, <2>2 DEF Coherent
<1>5. ASSUME NEW r \in Requests, rpc[r] = "set", rlink[r].code = c, e = Snapshot(rlink[r])
      PROVE  Coherent(c)'
  <2>1. PICK i \in LiveIds(c) : Agrees(rlink[r], links[i])
    BY <1>5 DEF OldRead
  <2>2. rlink[r] \in Links
    BY <1>0, <1>5 DEF ShapeInv
  <2>3. Agrees(e, links'[i]) /\ e \notin {Miss, Neg}
    BY <1>1, <1>2, <1>5, <2>1, <2>2, SnapshotType, SentinelAssumption
  <2> QED
    BY <1>1, <2>3 DEF Coherent
<1>6. ASSUME NEW r \in Requests, rpc[r] = "set_negative", rcode[r] = c, e = Neg
      PROVE  Coherent(c)'
  BY <1>1, <1>6 DEF OldRead, Coherent
<1> QED
  BY <1>3, <1>4, <1>5, <1>6, EntrySource

\* The expiry of a key makes its code coherent.
LEMMA ExpiryCures ==
    ASSUME TypeOK, NEW c \in Codes, CacheExpire(c) PROVE Coherent(c)'
  BY DEF TypeOK, CacheExpire, Del, Coherent

\* However many DELs Redis has lost, once the answer of a code rests and the
\* reads that are older than it have been written, the cache agrees with the
\* table for good: the TTL clears what is left, and no redirect brings it back.
\* Clicks may go on being counted.  That a key which is there can expire is
\* the guard of CacheExpire, whose other conjuncts are assignments.
THEOREM ExpiryConverges ==
    ASSUME NEW c \in Codes
    PROVE  /\ Spec /\ WF_vars(CacheExpire(c))
           /\ [](cache[c] # Miss => ENABLED <<CacheExpire(c)>>_vars)
           /\ <>[][SameAnswer(c)]_vars /\ <>[](~OldRead(c))
           => <>[]Coherent(c)
<1> DEFINE Old == OldRead(c)
           Coh == Coherent(c)
           Can == cache[c] # Miss => ENABLED <<CacheExpire(c)>>_vars
<1>1. Spec => []Base
  BY InitBase, BaseStep, PTL DEF Spec
<1>2. Base /\ [Next]_vars /\ [SameAnswer(c)]_vars /\ ~Old /\ Coh => Coh'
  <2>1. ASSUME UNCHANGED vars PROVE SameAnswer(c)
    BY <2>1 DEF SameAnswer, LiveIds, IsLive, IsRow, Agrees, vars
  <2> QED
    BY <2>1, CoherentStays
<1>3. Base /\ <<CacheExpire(c)>>_vars => Coh'
  BY ExpiryCures DEF Base
<1>4. Can /\ ~Coh => ENABLED <<CacheExpire(c)>>_vars
  BY DEF Coherent
<1> HIDE DEF Old, Coh, Can
<1>5. /\ Spec /\ WF_vars(CacheExpire(c)) /\ []Can /\ <>[][SameAnswer(c)]_vars /\ <>[](~Old)
      => <>[]Coh
  BY <1>1, <1>2, <1>3, <1>4, PTL DEF Spec
<1> QED
  BY <1>5, PTL DEF Old, Coh, Can
=============================================================================
