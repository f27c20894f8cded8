------------------------- MODULE LinkServiceProofs -------------------------
(***************************************************************************)
(* Proofs about LinkService for any sets of ids, tenants, codes, targets,  *)
(* requests, calls and workers, any request bodies, and with or without    *)
(* Redis and Postgres faults.                                              *)
(***************************************************************************)
EXTENDS LinkService, FiniteSetTheorems, TLAPS

-----------------------------------------------------------------------------
(* The link operators.                                                      *)

\* A row is a link under construction with its id and code filled in.
LEMMA LinksAreDrafts == Links \subseteq Drafts
  BY DEF Links, Drafts

\* The demo cap yields an expiry, and one within the cap for the demo tenant.
LEMMA ClampType ==
    ASSUME NEW t \in Tenants, NEW e \in Int \cup {None}, NEW n \in Nat
    PROVE  /\ ClampDemoExpiry(t, e, n) \in Int \cup {None}
           /\ DemoMaxTTL > 0 /\ t = DemoTenant =>
                /\ ClampDemoExpiry(t, e, n) \in Int
                /\ ClampDemoExpiry(t, e, n) <= n + DemoMaxTTL
  BY DemoMaxTTLAssumption DEF ClampDemoExpiry

\* What Create builds is a link without id, within the demo cap.
LEMMA NewDraftType ==
    ASSUME NEW t \in Tenants, NEW in \in CreateInputs, NEW n \in Nat
    PROVE  /\ NewDraft(t, in, n) \in Drafts
           /\ NewDraft(t, in, n).tenant = t /\ NewDraft(t, in, n).deleted = None
           /\ NewDraft(t, in, n).expires = ClampDemoExpiry(t, in.expires, n)
<1>1. in.expires \in Int \cup {None} /\ in.max \in Nat \cup {None}
      /\ in.code \in Codes \cup {None} /\ in.target \in Targets
  BY DEF CreateInputs
<1>2. ClampDemoExpiry(t, in.expires, n) \in Int \cup {None}
  BY <1>1, ClampType
<1> QED
  BY <1>1, <1>2 DEF NewDraft, Drafts

\* What Update writes back is a link with the id, tenant and code it read.
LEMMA ApplyUpdateType ==
    ASSUME NEW l \in Links, NEW in \in UpdateInputs, NEW n \in Nat
    PROVE  /\ ApplyUpdate(l, in, n) \in Links
           /\ ApplyUpdate(l, in, n).id = l.id
           /\ ApplyUpdate(l, in, n).tenant = l.tenant
           /\ ApplyUpdate(l, in, n).code = l.code
           /\ DemoMaxTTL > 0 /\ l.tenant = DemoTenant =>
                /\ ApplyUpdate(l, in, n).expires \in Int
                /\ ApplyUpdate(l, in, n).expires <= n + DemoMaxTTL
<1>1. /\ l.expires \in Int \cup {None} /\ l.max \in Nat \cup {None}
      /\ l.target \in Targets /\ l.tenant \in Tenants
  BY DEF Links
<1>2. /\ Patched(in.target, l.target) \in Targets
      /\ Patched(in.expires, l.expires) \in Int \cup {None}
      /\ Patched(in.max, l.max) \in Nat \cup {None}
  BY <1>1 DEF UpdateInputs, Patched
<1> DEFINE e == ClampDemoExpiry(l.tenant, Patched(in.expires, l.expires), n)
<1>3. /\ e \in Int \cup {None}
      /\ DemoMaxTTL > 0 /\ l.tenant = DemoTenant => e \in Int /\ e <= n + DemoMaxTTL
  BY <1>1, <1>2, ClampType
<1>4. ApplyUpdate(l, in, n) = [l EXCEPT !.target = Patched(in.target, l.target),
                                        !.expires = e,
                                        !.max = Patched(in.max, l.max)]
  BY DEF ApplyUpdate, Links
<1> HIDE DEF e
<1> QED
  BY <1>1, <1>2, <1>3, <1>4 DEF Links

\* The cached snapshot of a link is a link.
LEMMA SnapshotType ==
    ASSUME NEW l \in Links
    PROVE  /\ Snapshot(l) \in Links
           /\ \A r \in Links : Agrees(Snapshot(l), r) <=> Agrees(l, r)
  BY NoneAssumption DEF Snapshot, Links, Agrees, IsExhausted

\* The number of clicks a batch holds for a link is a number.
LEMMA ClicksOfType ==
    ASSUME NEW s \in Seq(Ids), NEW i \in Ids
    PROVE  ClicksOf(s, i) \in Nat
<1>1. Len(s) \in Nat /\ DOMAIN s = 1..Len(s)
  OBVIOUS
<1>2. IsFiniteSet(1..Len(s))
  BY <1>1, FS_Interval
<1>3. IsFiniteSet({n \in DOMAIN s : s[n] = i})
  BY <1>1, <1>2, FS_Subset
<1> QED
  BY <1>3, FS_CardinalityType DEF ClicksOf

-----------------------------------------------------------------------------
(* What a handler holds between two of its steps.                           *)

\* The link a call holds after its read or INSERT: it still has the tenant
\* and the code of its row, whoever has written the row since.
HoldsRow(k) ==
    /\ held[k] \in Links
    /\ links[held[k].id] # Absent
    /\ IsRow(held[k].id) => /\ links[held[k].id].code = held[k].code
                            /\ links[held[k].id].tenant = held[k].tenant

ShapeInv ==
    /\ \A r \in Requests : rpc[r] \in {"get_by_code", "set_negative"} => rcode[r] \in Codes
    /\ \A r \in Requests : rpc[r] = "set" => rlink[r] \in Links
    /\ \A k \in Calls : pc[k] = "insert" => held[k] \in Drafts /\ held[k].deleted = None
    /\ \A k \in Calls : pc[k] \in {"emit", "write", "soft_delete", "invalidate"} => HoldsRow(k)
    /\ \A i \in Ids : IsRow(i) => links[i].id = i
    /\ cutoff # None => cutoff \in Int /\ cutoff <= now - Retention

Base == TypeOK /\ ShapeInv

\* Nothing is held before the first request.
LEMMA InitBase == Init => Base
<1> SUFFICES ASSUME Init PROVE Base
  OBVIOUS
<1>1. TypeOK
  BY BoundsAssumption DEF Init, TypeOK
<1>2. ShapeInv
  BY DEF Init, ShapeInv, IsRow
<1> QED
  BY <1>1, <1>2 DEF Base

\* The rows of the table, and what an id that is a row stands for.
LEMMA RowIsLink ==
    ASSUME TypeOK, NEW i \in Ids, IsRow(i)
    PROVE  links[i] \in Links
  BY DEF TypeOK, IsRow

\* HoldsRow survives a step that keeps code and tenant of every row and
\* inserts none under an id somebody holds.
LEMMA HoldsRowStable ==
    ASSUME NEW k \in Calls, HoldsRow(k), held'[k] = held[k],
           \A i \in Ids : links[i] # Absent =>
               /\ links'[i] # Absent
               /\ IsRow(i)' => /\ IsRow(i)
                               /\ links'[i].code = links[i].code
                               /\ links'[i].tenant = links[i].tenant
    PROVE  HoldsRow(k)'
<1>1. held[k].id \in Ids
  BY DEF HoldsRow, Links
<1> QED
  BY <1>1 DEF HoldsRow

\* A SET keeps the types, whatever it stores.
LEMMA CacheWriteType ==
    ASSUME TypeOK, NEW c \in Codes, NEW e \in Links \cup {Miss, Neg},
           NEW STATE fresh, CacheWrite(c, e, fresh)
    PROVE  /\ cache' \in [Codes -> Links \cup {Miss, Neg}]
           /\ excuse' \in [Codes -> SUBSET Excuses]
<1>1. PICK x \in SUBSET Excuses : excuse' = [excuse EXCEPT ![c] = x]
  <2>1. CASE fresh
    BY <2>1 DEF CacheWrite, Excuses
  <2>2. CASE ~fresh
    BY <2>2 DEF CacheWrite, Excuses
  <2> QED
    BY <2>1, <2>2
<1> QED
  BY <1>1 DEF CacheWrite, TypeOK

\* The steps of a redirect.
LEMMA RequestBase ==
    ASSUME Base, NEW r \in Requests, ResolveStart(r) \/ ResolveStep(r)
    PROVE  Base'
<1> USE BoundsAssumption
<1>0. TypeOK /\ ShapeInv
  BY DEF Base
<1>1. UNCHANGED <<now, links, callVars, evict, cutoff>>
  BY DEF ResolveStart, ResolveStep, ResolveHit, ResolveMiss, ReadFound, ReadNotFound,
     ReadError, Backfill, BackfillNegative, svcVars, clickVars
<1>2. \A k \in Calls : HoldsRow(k)' <=> HoldsRow(k)
  BY <1>1 DEF HoldsRow, IsRow, callVars
<1>3. /\ \A l \in Links : ServeOrGone(l) => input' \in Seq(Ids) /\ Len(input') <= BufferSize
  <2> SUFFICES ASSUME NEW l \in Links, ServeOrGone(l)
               PROVE  input' \in Seq(Ids) /\ Len(input') <= BufferSize
    OBVIOUS
  <2>1. l.id \in Ids
    BY DEF Links
  <2>2. input' = input \/ (input' = Append(input, l.id) /\ Len(input) < BufferSize)
    BY DEF ServeOrGone
  <2>3. /\ input \in Seq(Ids) /\ Len(input) <= BufferSize /\ Len(input) \in Nat
        /\ Append(input, l.id) \in Seq(Ids) /\ Len(Append(input, l.id)) = Len(input) + 1
    BY <1>0, <2>1 DEF TypeOK
  <2> QED
    BY <2>2, <2>3
<1>4. /\ \A i \in Ids : IsRow(i)' <=> IsRow(i)
  BY <1>1 DEF IsRow
<1> DEFINE Goal ==
      /\ cache' \in [Codes -> Links \cup {Miss, Neg}]
      /\ excuse' \in [Codes -> SUBSET Excuses]
      /\ rpc' \in [Requests -> {"idle", "get_by_code", "set", "set_negative"}]
      /\ rcode' \in [Requests -> Codes \cup {None}]
      /\ rlink' \in [Requests -> Links \cup {None}]
      /\ input' \in Seq(Ids) /\ Len(input') <= BufferSize
      /\ \A q \in Requests : rpc'[q] \in {"get_by_code", "set_negative"} => rcode'[q] \in Codes
      /\ \A q \in Requests : rpc'[q] = "set" => rlink'[q] \in Links
<1>5. ASSUME Goal PROVE Base'
  <2>1. TypeOK'
    BY <1>0, <1>1, <1>5 DEF TypeOK, callVars
  <2>2. ShapeInv'
    BY <1>0, <1>1, <1>2, <1>4, <1>5 DEF ShapeInv, callVars
  <2> QED
    BY <2>1, <2>2 DEF Base
<1>6. ASSUME NEW c \in Codes, ResolveHit(r, c) PROVE Goal
  <2>1. UNCHANGED <<cache, excuse, rpc, rcode, rlink>>
    BY <1>6 DEF ResolveHit, svcVars
  <2>2. input' \in Seq(Ids) /\ Len(input') <= BufferSize
    <3>1. CASE cache[c] = Neg
      BY <1>0, <1>6, <3>1 DEF ResolveHit, TypeOK
    <3>2. CASE cache[c] # Neg
      BY <1>0, <1>3, <1>6, <3>2 DEF ResolveHit, TypeOK
    <3> QED
      BY <3>1, <3>2
  <2> QED
    BY <1>0, <2>1, <2>2 DEF TypeOK, ShapeInv
<1>7. ASSUME NEW c \in Codes, ResolveMiss(r, c) PROVE Goal
  BY <1>0, <1>7 DEF ResolveMiss, TypeOK, ShapeInv, clickVars
<1>8. ASSUME ReadFound(r) PROVE Goal
  <2>1. PICK i \in LiveIds(rcode[r]) : rlink' = [rlink EXCEPT ![r] = links[i]]
    BY <1>8 DEF ReadFound
  <2>2. links[i] \in Links
    BY <1>0, <2>1, RowIsLink DEF LiveIds, IsLive
  <2> QED
    BY <1>0, <1>8, <2>1, <2>2 DEF ReadFound, TypeOK, ShapeInv, clickVars
<1>9. ASSUME ReadNotFound(r) PROVE Goal
  BY <1>0, <1>9 DEF ReadNotFound, TypeOK, ShapeInv, clickVars
<1>10. ASSUME ReadError(r) PROVE Goal
  BY <1>0, <1>10 DEF ReadError, ResolveIdle, TypeOK, ShapeInv, clickVars
<1>11. ASSUME Backfill(r) PROVE Goal
  <2>1. rlink[r] \in Links /\ rlink[r].code \in Codes /\ Snapshot(rlink[r]) \in Links
    BY <1>0, <1>11, SnapshotType DEF Backfill, ShapeInv, Links
  <2>2. /\ cache' \in [Codes -> Links \cup {Miss, Neg}]
        /\ excuse' \in [Codes -> SUBSET Excuses]
    BY <1>0, <1>11, <2>1, CacheWriteType DEF Backfill, TypeOK
  <2>3. input' \in Seq(Ids) /\ Len(input') <= BufferSize
    BY <1>3, <1>11, <2>1 DEF Backfill
  <2> QED
    BY <1>0, <1>11, <2>2, <2>3 DEF Backfill, ResolveIdle, TypeOK, ShapeInv
<1>12. ASSUME BackfillNegative(r) PROVE Goal
  <2>1. rcode[r] \in Codes
    BY <1>0, <1>12 DEF BackfillNegative, ShapeInv
  <2>2. /\ cache' \in [Codes -> Links \cup {Miss, Neg}]
        /\ excuse' \in [Codes -> SUBSET Excuses]
    BY <1>0, <1>12, <2>1, CacheWriteType DEF BackfillNegative, TypeOK
  <2> QED
    BY <1>0, <1>12, <2>2 DEF BackfillNegative, ResolveIdle, TypeOK, ShapeInv, clickVars
<1> HIDE DEF Goal
<1> QED
  BY <1>5, <1>6, <1>7, <1>8, <1>9, <1>10, <1>11, <1>12 DEF ResolveStart, ResolveStep

\* A DEL, successful or lost, keeps the types.
LEMMA EvictType ==
    ASSUME TypeOK, NEW c \in Codes, Del(c) \/ (RedisFails /\ DelLost(c))
    PROVE  /\ cache' \in [Codes -> Links \cup {Miss, Neg}]
           /\ excuse' \in [Codes -> SUBSET Excuses]
<1>1. CASE Del(c)
  BY <1>1 DEF TypeOK, Del
<1>2. CASE DelLost(c)
  <2>1. PICK x \in SUBSET Excuses : excuse' = [excuse EXCEPT ![c] = x]
    <3>1. excuse[c] \cup {"lost"} \in SUBSET Excuses
      BY DEF TypeOK, Excuses
    <3>2. CASE cache[c] = Miss
      BY <1>2, <3>2 DEF DelLost
    <3>3. CASE cache[c] # Miss
      BY <1>2, <3>1, <3>3 DEF DelLost
    <3> QED
      BY <3>2, <3>3
  <2> QED
    BY <1>2, <2>1 DEF TypeOK, DelLost
<1> QED
  BY <1>1, <1>2

\* The steps of a management call.
LEMMA CallBase ==
    ASSUME Base, NEW k \in Calls, CallStart(k) \/ CallStep(k)
    PROVE  Base'
<1> USE BoundsAssumption
<1>0. TypeOK /\ ShapeInv
  BY DEF Base
<1> DEFINE Goal ==
      /\ UNCHANGED <<now, svcVars, clickVars, cutoff>>
      /\ links' \in [Ids -> Links \cup {Absent, Purged}]
      /\ cache' \in [Codes -> Links \cup {Miss, Neg}]
      /\ excuse' \in [Codes -> SUBSET Excuses]
      /\ pc' \in [Calls -> {"start", "insert", "emit", "write", "soft_delete",
                            "invalidate", "done"}]
      /\ who' \in [Calls -> Tenants \cup {None}]
      /\ held' \in [Calls -> Drafts \cup {None}]
      /\ attempt' \in [Calls -> 0..MaxCollision]
      /\ announced' \subseteq Ids
      /\ \A j \in Calls : pc'[j] = "insert" => held'[j] \in Drafts /\ held'[j].deleted = None
      /\ \A j \in Calls : pc'[j] \in {"emit", "write", "soft_delete", "invalidate"} => HoldsRow(j)'
      /\ \A i \in Ids : IsRow(i)' => links'[i].id = i
<1>1. ASSUME Goal PROVE Base'
  <2>1. TypeOK'
    BY <1>0, <1>1 DEF TypeOK, svcVars, clickVars
  <2>2. ShapeInv'
    BY <1>0, <1>1 DEF ShapeInv, svcVars
  <2> QED
    BY <2>1, <2>2 DEF Base
<1>2. ASSUME Done(k), UNCHANGED <<now, links, svcVars, attempt, clickVars, cutoff>>,
             announced' \subseteq Ids,
             cache' \in [Codes -> Links \cup {Miss, Neg}],
             excuse' \in [Codes -> SUBSET Excuses]
      PROVE  Goal
  <2>1. \A i \in Ids : IsRow(i)' => links'[i].id = i
    BY <1>0, <1>2 DEF ShapeInv, IsRow
  <2>2. pc'[k] = "done" /\ \A j \in Calls \ {k} : pc'[j] = pc[j] /\ held'[j] = held[j]
    BY <1>0, <1>2 DEF Done, TypeOK
  <2>3. \A j \in Calls \ {k} : HoldsRow(j) => HoldsRow(j)'
    BY <1>2, <2>2 DEF HoldsRow, IsRow
  <2>4. \A j \in Calls : pc'[j] \in {"emit", "write", "soft_delete", "invalidate"} => HoldsRow(j)'
    BY <1>0, <2>2, <2>3 DEF ShapeInv
  <2>5. \A j \in Calls : pc'[j] = "insert" => held'[j] \in Drafts /\ held'[j].deleted = None
    BY <1>0, <2>2 DEF ShapeInv
  <2> QED
    BY <1>0, <1>2, <2>1, <2>4, <2>5 DEF Done, TypeOK
\* A call that starts and goes on holding a draft or a row.
<1>3. ASSUME NEW stage \in {"insert", "write", "soft_delete"},
             pc' = [pc EXCEPT ![k] = stage],
             who' \in [Calls -> Tenants \cup {None}],
             NEW l \in Drafts, held' = [held EXCEPT ![k] = l],
             stage = "insert" => l.deleted = None,
             stage # "insert" => /\ l \in Links /\ IsRow(l.id)
                                 /\ links[l.id].code = l.code /\ links[l.id].tenant = l.tenant,
             UNCHANGED <<now, links, cache, excuse, svcVars, attempt, announced, clickVars, cutoff>>
      PROVE  Goal
  <2>1. \A i \in Ids : (IsRow(i)' <=> IsRow(i)) /\ (IsRow(i)' => links'[i].id = i)
    BY <1>0, <1>3 DEF ShapeInv, IsRow
  <2>2. /\ pc'[k] = stage /\ held'[k] = l
        /\ \A j \in Calls \ {k} : pc'[j] = pc[j] /\ held'[j] = held[j]
    BY <1>0, <1>3 DEF TypeOK
  <2>3. \A j \in Calls \ {k} : HoldsRow(j) => HoldsRow(j)'
    BY <1>3, <2>2 DEF HoldsRow, IsRow
  <2>4. stage # "insert" => HoldsRow(k)'
    BY <1>3, <2>2 DEF HoldsRow, IsRow
  <2>5. \A j \in Calls : pc'[j] \in {"emit", "write", "soft_delete", "invalidate"} => HoldsRow(j)'
    BY <1>0, <2>2, <2>3, <2>4 DEF ShapeInv
  <2>6. \A j \in Calls : pc'[j] = "insert" => held'[j] \in Drafts /\ held'[j].deleted = None
    BY <1>0, <1>3, <2>2 DEF ShapeInv
  <2> QED
    BY <1>0, <1>3, <2>1, <2>5, <2>6 DEF TypeOK
<1> HIDE DEF Goal
<1>4. /\ announced \subseteq Ids
      /\ cache \in [Codes -> Links \cup {Miss, Neg}]
      /\ excuse \in [Codes -> SUBSET Excuses] /\ now \in Nat
  BY <1>0 DEF TypeOK
<1>5. ASSUME NEW t \in Tenants, NEW in \in CreateBodies, StartCreate(k, t, in) PROVE Goal
  <2>1. CASE Valid(in) /\ ValidExpiry(in.expires, now)
    <3>1. /\ NewDraft(t, in, now) \in Drafts /\ NewDraft(t, in, now).deleted = None
      BY <1>4, BodiesAssumption, NewDraftType
    <3>2. who' \in [Calls -> Tenants \cup {None}]
      BY <1>0, <1>5, <2>1 DEF StartCreate, TypeOK
    <3> QED
      BY <1>3, <1>5, <2>1, <3>1, <3>2 DEF StartCreate
  <2>2. CASE ~(Valid(in) /\ ValidExpiry(in.expires, now))
    BY <1>2, <1>4, <1>5, <2>2 DEF StartCreate
  <2> QED
    BY <2>1, <2>2
<1>6. ASSUME NEW t \in Tenants, NEW i \in Ids, NEW in \in UpdateBodies, StartUpdate(k, t, i, in)
      PROVE  Goal
  <2>1. CASE Owns(t, i) /\ Valid(in) /\ (in.expires = Keep \/ ValidExpiry(in.expires, now))
    <3>1. IsRow(i) /\ links[i] \in Links /\ links[i].id = i
      BY <1>0, <2>1, RowIsLink DEF Owns, IsLive, ShapeInv
    <3> DEFINE l == ApplyUpdate(links[i], in, now)
    <3>2. l \in Links /\ l.id = i /\ l.code = links[i].code /\ l.tenant = links[i].tenant
      BY <1>4, <3>1, BodiesAssumption, ApplyUpdateType
    <3>3. /\ pc' = [pc EXCEPT ![k] = "write"]
          /\ held' = [held EXCEPT ![k] = l]
          /\ who' \in [Calls -> Tenants \cup {None}]
          /\ UNCHANGED <<now, links, cache, excuse, svcVars, attempt, announced, clickVars, cutoff>>
      BY <1>0, <1>6, <2>1, BodiesAssumption DEF StartUpdate, TypeOK
    <3> HIDE DEF l
    <3>4. l \in Drafts
      BY <3>2, LinksAreDrafts
    <3> QED
      BY <1>3, <3>1, <3>2, <3>3, <3>4
  <2>2. CASE ~(Owns(t, i) /\ Valid(in) /\ (in.expires = Keep \/ ValidExpiry(in.expires, now)))
    BY <1>2, <1>4, <1>6, <2>2 DEF StartUpdate
  <2> QED
    BY <2>1, <2>2
<1>7. ASSUME NEW t \in Tenants, NEW i \in Ids, StartDelete(k, t, i) PROVE Goal
  <2>1. CASE Owns(t, i)
    <3>1. IsRow(i) /\ links[i] \in Links /\ links[i].id = i /\ links[i] \in Drafts
      BY <1>0, <2>1, RowIsLink, LinksAreDrafts DEF Owns, IsLive, ShapeInv
    <3>2. who' \in [Calls -> Tenants \cup {None}]
      BY <1>0, <1>7, <2>1 DEF StartDelete, TypeOK
    <3> QED
      BY <1>3, <1>7, <2>1, <3>1, <3>2 DEF StartDelete
  <2>2. CASE ~Owns(t, i)
    BY <1>2, <1>4, <1>7, <2>2 DEF StartDelete
  <2> QED
    BY <2>1, <2>2
<1>8. ASSUME NEW c \in Codes, NEW i \in Ids, InsertOk(k, c, i) PROVE Goal
  <2> DEFINE l == [held[k] EXCEPT !.id = i, !.code = c, !.created = now]
  <2>1. held[k] \in Drafts /\ held[k].deleted = None
    BY <1>0, <1>8 DEF InsertOk, ShapeInv
  <2>2. l \in Links /\ l.id = i /\ l.code = c /\ l.tenant = held[k].tenant /\ l \in Drafts
    BY <1>4, <2>1 DEF Links, Drafts
  <2>3. /\ links[i] = Absent /\ links' = [links EXCEPT ![i] = l]
        /\ held' = [held EXCEPT ![k] = links'[i]]
        /\ pc' = [pc EXCEPT ![k] = "emit"]
        /\ UNCHANGED <<now, cache, svcVars, who, attempt, announced, clickVars, cutoff>>
    BY <1>8 DEF InsertOk
  <2> HIDE DEF l
  <2>4. /\ links'[i] = l /\ held'[k] = l /\ pc'[k] = "emit"
        /\ \A j \in Ids \ {i} : links'[j] = links[j]
        /\ \A j \in Calls \ {k} : pc'[j] = pc[j] /\ held'[j] = held[j]
    BY <1>0, <2>3 DEF TypeOK
  <2>5. /\ IsRow(i)'
        /\ \A j \in Ids : links[j] # Absent =>
             links'[j] # Absent /\ (IsRow(j)' => IsRow(j) /\ links'[j] = links[j])
    BY <2>2, <2>3, <2>4, SentinelAssumption DEF IsRow
  <2>6. \A j \in Calls \ {k} : HoldsRow(j) => HoldsRow(j)'
    BY <2>4, <2>5, HoldsRowStable
  <2>7. HoldsRow(k)'
    BY <2>2, <2>4, <2>5, SentinelAssumption DEF HoldsRow
  <2>8. \A j \in Calls : pc'[j] \in {"emit", "write", "soft_delete", "invalidate"} => HoldsRow(j)'
    BY <1>0, <2>4, <2>6, <2>7 DEF ShapeInv
  <2>9. \A j \in Calls : pc'[j] = "insert" => held'[j] \in Drafts /\ held'[j].deleted = None
    BY <1>0, <2>4 DEF ShapeInv
  <2>10. \A j \in Ids : IsRow(j)' => links'[j].id = j
    BY <1>0, <2>2, <2>4 DEF ShapeInv, IsRow
  <2>11. links' \in [Ids -> Links \cup {Absent, Purged}] /\ held' \in [Calls -> Drafts \cup {None}]
    BY <1>0, <2>2, <2>3, <2>4 DEF TypeOK
  <2>12. excuse' \in [Codes -> SUBSET Excuses]
    BY <1>0, <1>8 DEF InsertOk, TypeOK, Excuses
  <2> QED
    BY <1>0, <2>3, <2>8, <2>9, <2>10, <2>11, <2>12 DEF Goal, TypeOK
<1>9. ASSUME NEW c \in Codes, InsertConflict(k, c) PROVE Goal
  <2>1. CASE held[k].code = None /\ attempt[k] + 1 < MaxCollision
    <3>1. attempt' \in [Calls -> 0..MaxCollision]
      BY <1>0, <1>9, <2>1 DEF InsertConflict, TypeOK
    <3>2. UNCHANGED <<now, links, cache, excuse, svcVars, pc, who, held, announced, clickVars, cutoff>>
      BY <1>9, <2>1 DEF InsertConflict
    <3>3. \A j \in Calls : HoldsRow(j)' <=> HoldsRow(j)
      BY <3>2 DEF HoldsRow, IsRow
    <3> QED
      BY <1>0, <3>1, <3>2, <3>3 DEF Goal, TypeOK, ShapeInv, IsRow
  <2>2. CASE ~(held[k].code = None /\ attempt[k] + 1 < MaxCollision)
    BY <1>2, <1>4, <1>9, <2>2 DEF InsertConflict
  <2> QED
    BY <2>1, <2>2
<1>10. ASSUME EmitCreated(k) PROVE Goal
  <2>1. held[k].id \in Ids
    BY <1>0, <1>10 DEF EmitCreated, ShapeInv, HoldsRow, Links
  <2>2. announced' \subseteq Ids
    BY <1>4, <1>10, <2>1 DEF EmitCreated
  <2> QED
    BY <1>2, <1>4, <1>10, <2>2 DEF EmitCreated
\* A commit that keeps id, code and tenant of the row it writes.
<1>11. ASSUME NEW i \in Ids, NEW l \in Links, IsRow(i),
              l.id = i, l.code = links[i].code, l.tenant = links[i].tenant,
              links' = [links EXCEPT ![i] = l], HoldsRow(k),
              pc' = [pc EXCEPT ![k] = "invalidate"],
              UNCHANGED <<now, cache, excuse, svcVars, who, held, attempt, announced, clickVars, cutoff>>
       PROVE  Goal
  <2>1. /\ links'[i] = l /\ pc'[k] = "invalidate"
        /\ \A j \in Ids \ {i} : links'[j] = links[j]
        /\ \A j \in Calls \ {k} : pc'[j] = pc[j]
    BY <1>0, <1>11 DEF TypeOK
  <2>2. \A j \in Ids : links[j] # Absent =>
             /\ links'[j] # Absent
             /\ IsRow(j)' => /\ IsRow(j) /\ links'[j].code = links[j].code
                             /\ links'[j].tenant = links[j].tenant
    BY <1>11, <2>1, SentinelAssumption DEF IsRow
  <2>3. \A j \in Calls : HoldsRow(j) => HoldsRow(j)'
    BY <1>11, <2>2, HoldsRowStable
  <2>4. \A j \in Calls : pc'[j] \in {"emit", "write", "soft_delete", "invalidate"} => HoldsRow(j)'
    BY <1>0, <1>11, <2>1, <2>3 DEF ShapeInv
  <2>5. \A j \in Calls : pc'[j] = "insert" => held'[j] \in Drafts /\ held'[j].deleted = None
    BY <1>0, <1>11, <2>1 DEF ShapeInv
  <2>6. \A j \in Ids : IsRow(j)' => links'[j].id = j
    BY <1>0, <1>11, <2>1 DEF ShapeInv, IsRow
  <2> QED
    BY <1>0, <1>11, <2>4, <2>5, <2>6 DEF Goal, TypeOK
<1>12. ASSUME CommitUpdate(k) PROVE Goal
  <2> DEFINE i == held[k].id
  <2>1. HoldsRow(k) /\ i \in Ids /\ held[k] \in Links
    BY <1>0, <1>12 DEF CommitUpdate, ShapeInv, HoldsRow, Links
  <2>2. CASE Owns(held[k].tenant, i)
    <3>1. IsRow(i) /\ links[i] \in Links /\ links[i].id = i
          /\ links[i].code = held[k].code /\ links[i].tenant = held[k].tenant
      BY <1>0, <2>1, <2>2, RowIsLink DEF Owns, IsLive, ShapeInv, HoldsRow
    <3> DEFINE l == WriteMutable(links[i], held[k])
    <3>2. l \in Links /\ l.id = i /\ l.code = links[i].code /\ l.tenant = links[i].tenant
      BY <2>1, <3>1 DEF WriteMutable, Links
    <3>3. links' = [links EXCEPT ![i] = l]
      BY <1>12, <2>2 DEF CommitUpdate
    <3> HIDE DEF l
    <3> QED
      BY <1>11, <1>12, <2>1, <2>2, <3>1, <3>2, <3>3 DEF CommitUpdate
  <2>3. CASE ~Owns(held[k].tenant, i)
    BY <1>2, <1>4, <1>12, <2>3 DEF CommitUpdate
  <2> QED
    BY <2>2, <2>3
<1>13. ASSUME CommitDelete(k) PROVE Goal
  <2> DEFINE i == held[k].id
  <2>1. HoldsRow(k) /\ i \in Ids /\ held[k] \in Links
    BY <1>0, <1>13 DEF CommitDelete, ShapeInv, HoldsRow, Links
  <2>2. CASE Owns(who[k], i)
    <3>1. IsRow(i) /\ links[i] \in Links /\ links[i].id = i
      BY <1>0, <2>1, <2>2, RowIsLink DEF Owns, IsLive, ShapeInv
    <3> DEFINE l == [links[i] EXCEPT !.deleted = now]
    <3>2. l \in Links /\ l.id = i /\ l.code = links[i].code /\ l.tenant = links[i].tenant
      BY <1>4, <3>1 DEF Links
    <3>3. links' = [links EXCEPT ![i] = l]
      BY <1>13, <2>2 DEF CommitDelete
    <3> HIDE DEF l
    <3> QED
      BY <1>11, <1>13, <2>1, <2>2, <3>1, <3>2, <3>3 DEF CommitDelete
  <2>3. CASE ~Owns(who[k], i)
    BY <1>2, <1>4, <1>13, <2>3 DEF CommitDelete
  <2> QED
    BY <2>2, <2>3
<1>14. ASSUME Invalidate(k) PROVE Goal
  <2>1. held[k].code \in Codes
    BY <1>0, <1>14 DEF Invalidate, ShapeInv, HoldsRow, Links
  <2>2. /\ cache' \in [Codes -> Links \cup {Miss, Neg}]
        /\ excuse' \in [Codes -> SUBSET Excuses]
    BY <1>0, <1>14, <2>1, EvictType DEF Invalidate
  <2> QED
    BY <1>2, <1>4, <1>14, <2>2 DEF Invalidate
<1>15. ASSUME CallError(k) PROVE Goal
  BY <1>2, <1>4, <1>15 DEF CallError
<1> QED
  BY <1>1, <1>5, <1>6, <1>7, <1>8, <1>9, <1>10, <1>12, <1>13, <1>14, <1>15
     DEF CallStart, CallStep

\* A flush adds clicks to rows and changes nothing else about them.
LEMMA CountedRows ==
    ASSUME Base, NEW b \in Seq(Ids), NEW i \in Ids
    PROVE  /\ ~IsRow(i) => Counted(b)[i] = links[i]
           /\ IsRow(i) => /\ Counted(b)[i] = [links[i] EXCEPT !.clicks = links[i].clicks + ClicksOf(b, i)]
                          /\ Counted(b)[i] \in Links
<1>1. CASE IsRow(i)
  <2>1. links[i] \in Links /\ ClicksOf(b, i) \in Nat
    BY <1>1, RowIsLink, ClicksOfType DEF Base
  <2>2. Counted(b)[i] = [links[i] EXCEPT !.clicks = links[i].clicks + ClicksOf(b, i)]
    BY <1>1, <2>1 DEF Counted, Links
  <2> QED
    BY <1>1, <2>1, <2>2 DEF Links
<1>2. CASE ~IsRow(i)
  BY <1>2 DEF Counted
<1> QED
  BY <1>1, <1>2

\* The steps of the analytics workers.
LEMMA WorkerBase ==
    ASSUME Base, NEW w \in Workers, WorkerStep(w)
    PROVE  Base'
<1> USE BoundsAssumption
<1>0. TypeOK /\ ShapeInv
  BY DEF Base
<1>1. ASSUME NEW n \in 1..BatchSize, RecordBatch(w, n) PROVE Base'
  <2> DEFINE b == SubSeq(input, 1, n)
  <2>1. input \in Seq(Ids) /\ n \in 1..Len(input) /\ Len(input) \in Nat
    BY <1>0, <1>1 DEF TypeOK, RecordBatch
  <2>2. b \in Seq(Ids)
    BY <2>1
  <2>3. input' \in Seq(Ids) /\ Len(input') <= BufferSize
    <3>1. input' = SubSeq(input, n + 1, Len(input))
      BY <1>1 DEF RecordBatch
    <3>2. \A m \in (n + 1)..Len(input) : input[m] \in Ids
      BY <2>1
    <3>3. /\ SubSeq(input, n + 1, Len(input)) \in Seq(Ids)
          /\ Len(SubSeq(input, n + 1, Len(input))) <= Len(input)
      BY <2>1, <3>2
    <3> QED
      BY <1>0, <2>1, <3>1, <3>3 DEF TypeOK
  <2>4. UNCHANGED <<now, cache, excuse, svcVars, callVars, cutoff>>
    BY <1>1 DEF RecordBatch
  <2>5. CASE UNCHANGED <<links, evict>>
    <3>1. TypeOK'
      BY <1>0, <2>3, <2>4, <2>5 DEF TypeOK, svcVars, callVars
    <3>2. \A k \in Calls : HoldsRow(k)' <=> HoldsRow(k)
      BY <2>4, <2>5 DEF HoldsRow, IsRow, callVars
    <3>3. ShapeInv'
      BY <1>0, <2>4, <2>5, <3>2 DEF ShapeInv, IsRow, svcVars, callVars
    <3> QED
      BY <3>1, <3>3 DEF Base
  <2>6. CASE /\ CopySucceeds(b) /\ links' = Counted(b)
             /\ evict' = [evict EXCEPT ![w] = ExhaustedCodes(b, links')]
    <3>1. /\ links' \in [Ids -> Links \cup {Absent, Purged}]
          /\ \A i \in Ids : /\ ~IsRow(i) => links'[i] = links[i]
                            /\ IsRow(i) => /\ links'[i] \in Links
                                           /\ links'[i].id = links[i].id
                                           /\ links'[i].code = links[i].code
                                           /\ links'[i].tenant = links[i].tenant
      <4>1. \A i \in Ids : /\ ~IsRow(i) => links'[i] = links[i]
                           /\ IsRow(i) => /\ links'[i] \in Links
                                          /\ links'[i].id = links[i].id
                                          /\ links'[i].code = links[i].code
                                          /\ links'[i].tenant = links[i].tenant
        <5> SUFFICES ASSUME NEW i \in Ids
                     PROVE  /\ ~IsRow(i) => links'[i] = links[i]
                            /\ IsRow(i) => /\ links'[i] \in Links
                                           /\ links'[i].id = links[i].id
                                           /\ links'[i].code = links[i].code
                                           /\ links'[i].tenant = links[i].tenant
          OBVIOUS
        <5>1. IsRow(i) => links[i] \in Links
          BY <1>0, RowIsLink
        <5>2. /\ ~IsRow(i) => Counted(b)[i] = links[i]
              /\ IsRow(i) => /\ Counted(b)[i] = [links[i] EXCEPT !.clicks = links[i].clicks + ClicksOf(b, i)]
                             /\ Counted(b)[i] \in Links
          BY <2>2, CountedRows
        <5> QED
          BY <2>6, <5>1, <5>2 DEF Links
      <4>2. DOMAIN links' = Ids /\ links' = [i \in Ids |-> links'[i]]
        BY <2>6 DEF Counted
      <4> QED
        BY <1>0, <4>1, <4>2 DEF TypeOK, IsRow
    <3>2. evict' \in [Workers -> SUBSET Codes]
      <4>1. ExhaustedCodes(b, links') \subseteq Codes
        <5> SUFFICES ASSUME NEW j \in Ids, ClicksOf(b, j) > 0 PROVE links'[j].code \in Codes
          BY DEF ExhaustedCodes
        <5>1. IsRow(j)
          <6>1. PICK m \in DOMAIN b : b[m] = j
            <7>1. ClicksOf(b, j) # 0
              BY <2>2, ClicksOfType
            <7>2. {m \in DOMAIN b : b[m] = j} # {}
              BY <7>1, FS_EmptySet DEF ClicksOf
            <7> QED
              BY <7>2
          <6> QED
            BY <1>1, <6>1, <2>6 DEF RecordBatch, CopySucceeds
        <5> QED
          BY <3>1, <5>1 DEF Links
      <4> QED
        BY <1>0, <2>6, <4>1 DEF TypeOK
    <3>3. \A i \in Ids : IsRow(i)' <=> IsRow(i)
      BY <3>1, SentinelAssumption DEF IsRow
    <3>4. TypeOK'
      BY <1>0, <2>3, <2>4, <3>1, <3>2 DEF TypeOK, svcVars, callVars
    <3>5. \A k \in Calls : HoldsRow(k) => HoldsRow(k)'
      <4> SUFFICES ASSUME NEW k \in Calls, HoldsRow(k) PROVE HoldsRow(k)'
        OBVIOUS
      <4>1. held'[k] = held[k]
        BY <2>4 DEF callVars
      <4> QED
        BY <3>1, <3>3, <4>1, HoldsRowStable, SentinelAssumption
    <3>6. ShapeInv'
      BY <1>0, <2>4, <3>1, <3>3, <3>5 DEF ShapeInv, svcVars, callVars
    <3> QED
      BY <3>4, <3>6 DEF Base
  <2> QED
    BY <1>1, <2>5, <2>6 DEF RecordBatch
<1>2. ASSUME NEW c \in Codes, EvictExhausted(w, c) PROVE Base'
  <2>1. /\ cache' \in [Codes -> Links \cup {Miss, Neg}]
        /\ excuse' \in [Codes -> SUBSET Excuses]
    BY <1>0, <1>2, EvictType DEF EvictExhausted
  <2>2. TypeOK'
    BY <1>0, <1>2, <2>1 DEF EvictExhausted, TypeOK, svcVars, callVars
  <2>3. \A k \in Calls : HoldsRow(k)' <=> HoldsRow(k)
    BY <1>2 DEF EvictExhausted, HoldsRow, IsRow, callVars
  <2>4. ShapeInv'
    BY <1>0, <1>2, <2>3 DEF EvictExhausted, ShapeInv, IsRow, svcVars, callVars
  <2> QED
    BY <2>2, <2>4 DEF Base
<1> QED
  BY <1>1, <1>2 DEF WorkerStep

\* Key expiry, the janitor and the clock.
LEMMA BackgroundBase ==
    ASSUME Base, (\E c \in Codes : CacheExpire(c)) \/ SweepStart \/ PurgeExpired \/ Tick
    PROVE  Base'
<1> USE BoundsAssumption
<1>0. TypeOK /\ ShapeInv
  BY DEF Base
<1>1. ASSUME UNCHANGED <<links, held>> PROVE \A k \in Calls : HoldsRow(k)' <=> HoldsRow(k)
  BY <1>1 DEF HoldsRow, IsRow
<1>2. ASSUME NEW c \in Codes, CacheExpire(c) PROVE Base'
  <2>1. TypeOK'
    BY <1>0, <1>2 DEF CacheExpire, Del, TypeOK, svcVars, callVars, clickVars
  <2>2. ShapeInv'
    BY <1>0, <1>1, <1>2 DEF CacheExpire, ShapeInv, IsRow, svcVars, callVars
  <2> QED
    BY <2>1, <2>2 DEF Base
<1>3. ASSUME SweepStart PROVE Base'
  <2>1. TypeOK'
    BY <1>0, <1>3 DEF SweepStart, TypeOK, svcVars, callVars, clickVars
  <2>2. cutoff' \in Int /\ cutoff' <= now' - Retention
    BY <1>0, <1>3 DEF SweepStart, TypeOK
  <2>3. ShapeInv'
    BY <1>0, <1>1, <1>3, <2>2 DEF SweepStart, ShapeInv, IsRow, svcVars, callVars
  <2> QED
    BY <2>1, <2>3 DEF Base
<1>4. ASSUME PurgeExpired PROVE Base'
  <2>1. UNCHANGED <<now, cache, excuse, svcVars, callVars, clickVars>> /\ cutoff' = None
    BY <1>4 DEF PurgeExpired
  <2>2. /\ links' \in [Ids -> Links \cup {Absent, Purged}]
        /\ \A i \in Ids : links'[i] = links[i] \/ (IsRow(i) /\ links'[i] = Purged)
    BY <1>0, <1>4 DEF PurgeExpired, TypeOK
  <2>3. TypeOK'
    BY <1>0, <2>1, <2>2 DEF TypeOK, svcVars, callVars, clickVars
  <2>4. \A i \in Ids : IsRow(i)' => IsRow(i) /\ links'[i] = links[i]
    BY <2>2 DEF IsRow
  <2>5. \A k \in Calls : HoldsRow(k) => HoldsRow(k)'
    <3>1. \A i \in Ids : links[i] # Absent => links'[i] # Absent
      BY <2>2, SentinelAssumption
    <3> QED
      BY <2>1, <2>4, <3>1, HoldsRowStable DEF callVars
  <2>6. ShapeInv'
    BY <1>0, <2>1, <2>4, <2>5 DEF ShapeInv, svcVars, callVars
  <2> QED
    BY <2>3, <2>6 DEF Base
<1>5. ASSUME Tick PROVE Base'
  <2>1. TypeOK'
    BY <1>0, <1>5 DEF Tick, TypeOK, svcVars, callVars, clickVars
  <2>2. cutoff # None => cutoff' \in Int /\ cutoff' <= now' - Retention
    BY <1>0, <1>5 DEF Tick, TypeOK, ShapeInv
  <2>3. ShapeInv'
    BY <1>0, <1>1, <1>5, <2>2 DEF Tick, ShapeInv, IsRow, svcVars, callVars
  <2> QED
    BY <2>1, <2>3 DEF Base
<1> QED
  BY <1>2, <1>3, <1>4, <1>5

\* Types and shapes survive every step.
LEMMA BaseStep == Base /\ [Next]_vars => Base'
<1> SUFFICES ASSUME Base, [Next]_vars PROVE Base'
  OBVIOUS
<1>1. CASE UNCHANGED vars
  <2>1. \A k \in Calls : HoldsRow(k)' <=> HoldsRow(k)
    BY <1>1 DEF HoldsRow, IsRow, vars
  <2> QED
    BY <1>1, <2>1 DEF Base, TypeOK, ShapeInv, IsRow, vars
<1>2. CASE Next
  BY <1>2, RequestBase, CallBase, WorkerBase, BackgroundBase DEF Next
<1> QED
  BY <1>1, <1>2

\* Every table, cache entry and in-flight link stays well formed whatever the
\* interleaving: a handler that goes on after a read still holds a link with
\* the code and the tenant of its row.
THEOREM TypeCorrect == Spec => []TypeOK
<1>1. Base => TypeOK
  BY DEF Base
<1> QED
  BY InitBase, BaseStep, <1>1, PTL DEF Spec
=============================================================================
