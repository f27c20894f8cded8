----------------------------- MODULE ApiProofs -----------------------------
(***************************************************************************)
(* Proofs about Api and the RateLimiter in it, for any requests, tenants,  *)
(* keys, limit, window, delay and bound on the clock.                       *)
(***************************************************************************)
EXTENDS Api, FiniteSetTheorems, TLAPS

-----------------------------------------------------------------------------
(* The operators of the script.                                             *)

\* The oldest score of a non-empty log exists (ZRANGE key 0 0 WITHSCORES).
LEMMA OldestExists ==
    ASSUME NEW S \in SUBSET Nat, S # {}
    PROVE  Min(S) \in S /\ \A n \in S : Min(S) <= n
<1> DEFINE Before == {ss \in Nat \X Nat : ss[1] < ss[2]}
<1>1. IsWellFoundedOn(Before, Nat)
  BY NatLessThanWellFounded, Zenon DEF OpToRel
<1>2. PICK m \in S : \A n \in S : ~(<<n, m>> \in Before)
  BY <1>1, WFMin
<1>3. ASSUME NEW n \in S PROVE m <= n
  <2>1. <<n, m>> \in Before <=> n < m
    OBVIOUS
  <2> QED
    BY <1>2, <2>1
<1> QED
  BY <1>3 DEF Min

\* What the script keeps of a log is part of it, so it is finite and no larger;
\* if it is as large, nothing was taken away.
LEMMA KeptOfLog ==
    ASSUME NEW t \in Tenants, NEW s \in Nat, IsFiniteSet(zset[t])
    PROVE  /\ Trim(Stored(t), s) \subseteq zset[t]
           /\ IsFiniteSet(Trim(Stored(t), s))
           /\ Cardinality(Trim(Stored(t), s)) \in Nat
           /\ Cardinality(Trim(Stored(t), s)) <= Cardinality(zset[t])
           /\ Cardinality(Trim(Stored(t), s)) = Cardinality(zset[t])
                => Trim(Stored(t), s) = zset[t]
<1>1. Trim(Stored(t), s) \subseteq zset[t]
  BY DEF Trim, Stored
<1> QED
  BY <1>1, FS_Subset, FS_CardinalityType

\* The script's wait ends when the oldest entry leaves the window.
LEMMA RetryAfterOldest ==
    ASSUME NEW S \in SUBSET Entries, S # {}, NEW s \in Nat,
           \A e \in S : e.score > s - Window
    PROVE  RetryAfter(S, s) \in Nat /\ \E e \in S : s + RetryAfter(S, s) = e.score + Window
<1> DEFINE Scores == {e.score : e \in S}
<1>1. Scores \subseteq Nat /\ Scores # {}
  BY DEF Entries
<1>2. Min(Scores) \in Scores
  BY <1>1, OldestExists
<1>3. PICK e \in S : Min(Scores) = e.score
  BY <1>2
<1>4. e.score \in Nat /\ e.score > s - Window
  BY DEF Entries
<1>5. RetryAfter(S, s) = e.score + Window - s
  BY <1>3, <1>4, LimitAssumption DEF RetryAfter
<1> QED
  BY <1>4, <1>5, LimitAssumption

\* The header's whole seconds fall short of the wait by less than one second.
LEMMA RetrySecondsShort ==
    ASSUME NEW wait \in Nat
    PROVE  /\ RetrySeconds(wait) \in Nat
           /\ RetrySeconds(wait) * Second \in Nat
           /\ RetrySeconds(wait) * Second + Second - 1 >= wait
<1> DEFINE secs == wait \div Second
<1>1. Second \in Nat /\ Second > 0
  BY SecondAssumption
<1>2. secs \in Nat /\ wait < Second * secs + Second
  BY <1>1
<1>3. RetrySeconds(wait) = IF secs < 1 THEN 1 ELSE secs
  BY DEF RetrySeconds
<1> HIDE DEF secs
<1>4. CASE secs < 1
  BY <1>1, <1>2, <1>3, <1>4
<1>5. CASE ~(secs < 1)
  <2>1. secs * Second \in Nat /\ secs * Second = Second * secs
    BY <1>1, <1>2
  <2>2. RetrySeconds(wait) = secs
    BY <1>3, <1>5
  <2> DEFINE product == secs * Second
  <2>3. product \in Nat /\ wait < product + Second
    BY <1>2, <2>1
  <2> HIDE DEF product
  <2>4. product + Second - 1 >= wait
    BY <1>1, <2>3
  <2> QED
    BY <1>2, <2>1, <2>2, <2>4 DEF product
<1> QED
  BY <1>4, <1>5

-----------------------------------------------------------------------------
(* The inductive invariant.                                                 *)

Entry(r) == [member |-> r, score |-> stamp[r]]

\* What a request that passed APIKeyAuth has on its context.
AuthInv ==
    \A r \in Requests :
        /\ pc[r] \in {"limit", "eval", "late", "next", "open", "denied"} =>
              token[r] \in Keys /\ r \notin expired /\ tenant[r] = TenantOf[token[r]]
        /\ r \in expired => pc[r] \in {"lookup", "unauthorized"} /\ token[r] \in revoked

\* How the stamp and the admission of a request relate to the clock.
StampInv ==
    \A r \in Requests :
        /\ pc[r] \in {"eval", "late", "next"} => stamp[r] \in Nat /\ stamp[r] <= clock
        /\ pc[r] = "eval" => clock <= stamp[r] + MaxDelay
        /\ passed[r] # None =>
              /\ pc[r] = "next"
              /\ passed[r] <= clock /\ passed[r] <= stamp[r] + MaxDelay

\* Whose requests a log holds.
LogInv ==
    \A t \in Tenants :
        /\ IsFiniteSet(zset[t])
        /\ \A e \in zset[t] : tenant[e.member] = t /\ pc[e.member] \in {"next", "open"}

\* A request admitted recently is still in its tenant's log, and the log has
\* not expired: no delayed script may have trimmed it.
RecordInv ==
    \A r \in Requests :
        passed[r] # None /\ passed[r] > clock - (Window - MaxDelay) =>
            /\ Entry(r) \in zset[tenant[r]]
            /\ expireAt[tenant[r]] # None /\ expireAt[tenant[r]] >= passed[r] + Window

\* While a promise stands the log is full, and one of its entries leaves the
\* window less than a second after the promised moment.
PromiseInv ==
    \A t \in Tenants : promise[t] # None =>
        /\ Cardinality(zset[t]) = Limit
        /\ \E e \in zset[t] : promise[t] + Second - 1 >= e.score + Window

Inv == TypeOK /\ AuthInv /\ StampInv /\ LogInv /\ RecordInv /\ PromiseInv

\* Before the first request no key is revoked and every log is empty.
LEMMA InitInv == Init => Inv
<1> SUFFICES ASSUME Init PROVE Inv
  OBVIOUS
<1> USE LimitAssumption, DelayAssumption, NoneAssumption DEF Init, LimiterInit
<1>1. TypeOK
  BY FS_EmptySet DEF TypeOK, LimiterTypeOK
<1>2. AuthInv /\ StampInv /\ RecordInv /\ PromiseInv
  BY DEF AuthInv, StampInv, RecordInv, PromiseInv
<1>3. LogInv
  BY FS_EmptySet DEF LogInv
<1> QED
  BY <1>1, <1>2, <1>3 DEF Inv

\* A request that is authenticated has a tenant.
LEMMA HasTenant ==
    ASSUME Inv, NEW r \in Requests,
           pc[r] \in {"limit", "eval", "late", "next", "open", "denied"}
    PROVE  tenant[r] \in Tenants
  BY KeysAssumption DEF Inv, AuthInv

\* The middleware before the limiter, a revocation and giving up on Redis leave
\* the logs alone and admit nobody.
LEMMA AuthStep ==
    ASSUME Inv,
           \/ \E r \in Requests, tok \in Keys \cup {None} : bearerToken(r, tok)
           \/ \E r \in Requests : Authenticate(r) \/ ErrUnauthorized(r)
           \/ \E k \in Keys : Revoke(k)
    PROVE  Inv'
<1>0. TypeOK /\ AuthInv /\ StampInv /\ LogInv /\ RecordInv /\ PromiseInv
  BY DEF Inv
<1>1. UNCHANGED <<clock, zset, expireAt, stamp, passed, promise>>
  BY DEF bearerToken, Authenticate, ErrUnauthorized, Revoke
<1>2. TypeOK'
  BY <1>0, <1>1, KeysAssumption
  DEF TypeOK, LimiterTypeOK, bearerToken, Authenticate, setAuth, ErrUnauthorized, Revoke
<1>3. AuthInv'
  <2>1. CASE \E r \in Requests, tok \in Keys \cup {None} : bearerToken(r, tok)
    BY <1>0, <2>1, KeysAssumption DEF AuthInv, TypeOK, LimiterTypeOK, bearerToken
  <2>2. CASE \E r \in Requests : Authenticate(r)
    BY <1>0, <2>2 DEF AuthInv, TypeOK, LimiterTypeOK, Authenticate, setAuth
  <2>3. CASE \E r \in Requests : ErrUnauthorized(r)
    BY <1>0, <2>3 DEF AuthInv, TypeOK, LimiterTypeOK, ErrUnauthorized
  <2>4. CASE \E k \in Keys : Revoke(k)
    BY <1>0, <2>4 DEF AuthInv, Revoke
  <2> QED
    BY <2>1, <2>2, <2>3, <2>4
<1>4. \A r \in Requests :
          /\ pc[r] \in {"eval", "late", "next", "open"} =>
                pc'[r] = pc[r] /\ tenant'[r] = tenant[r]
          /\ pc'[r] \in {"eval", "late", "next", "open"} => pc'[r] = pc[r]
  BY <1>0 DEF TypeOK, LimiterTypeOK, bearerToken, Authenticate, setAuth, ErrUnauthorized, Revoke
<1>5. StampInv'
  BY <1>0, <1>1, <1>4 DEF StampInv
<1>6. LogInv'
  BY <1>0, <1>1, <1>4 DEF LogInv, TypeOK, LimiterTypeOK, Entries
<1>7. RecordInv'
  BY <1>0, <1>1, <1>4 DEF RecordInv, StampInv, Entry
<1>8. PromiseInv'
  BY <1>0, <1>1 DEF PromiseInv
<1> QED
  BY <1>2, <1>3, <1>5, <1>6, <1>7, <1>8 DEF Inv

\* Reading the clock, giving up on Redis and the passing of time leave the
\* logs alone and admit nobody.
LEMMA WaitStep ==
    ASSUME Inv, UNCHANGED authVars,
           Tick \/ \E r \in Requests : ReadClock(r) \/ FailOpen(r)
    PROVE  Inv'
<1>0. TypeOK /\ AuthInv /\ StampInv /\ LogInv /\ RecordInv /\ PromiseInv
  BY DEF Inv
<1>1. UNCHANGED <<zset, expireAt, tenant, passed, promise, revoked, token, expired>>
  BY DEF Tick, ReadClock, FailOpen, authVars
<1>2. TypeOK'
  BY <1>0, <1>1, DelayAssumption DEF TypeOK, LimiterTypeOK, Tick, ReadClock, FailOpen
<1>3. \A r \in Requests :
          /\ pc'[r] \in {"limit", "eval", "late", "next", "open", "denied"} =>
                pc[r] \in {"limit", "eval", "late", "next", "open", "denied"}
          /\ pc[r] \in {"next", "open", "lookup", "unauthorized"} =>
                pc'[r] = pc[r] /\ stamp'[r] = stamp[r]
  BY <1>0 DEF TypeOK, LimiterTypeOK, Tick, ReadClock, FailOpen
<1>4. AuthInv'
  BY <1>0, <1>1, <1>3 DEF AuthInv
<1>5. StampInv'
  <2>1. CASE Tick
    BY <1>0, <1>1, <2>1, DelayAssumption DEF StampInv, Tick, TypeOK, LimiterTypeOK
  <2>2. ASSUME NEW r \in Requests, ReadClock(r) PROVE StampInv'
    BY <1>0, <1>1, <2>2, DelayAssumption DEF StampInv, ReadClock, TypeOK, LimiterTypeOK
  <2>3. ASSUME NEW r \in Requests, FailOpen(r) PROVE StampInv'
    BY <1>0, <1>1, <2>3 DEF StampInv, FailOpen, TypeOK, LimiterTypeOK
  <2> QED
    BY <2>1, <2>2, <2>3
<1>6. LogInv'
  BY <1>0, <1>1, <1>3 DEF LogInv, TypeOK, LimiterTypeOK, Entries
<1>7. RecordInv'
  <2>1. clock \in Nat /\ clock' \in Nat /\ clock <= clock'
    BY <1>0, DelayAssumption DEF Tick, ReadClock, FailOpen, TypeOK, LimiterTypeOK
  <2> QED
    BY <1>0, <1>1, <1>3, <2>1, DelayAssumption, LimitAssumption
    DEF RecordInv, StampInv, Entry, TypeOK, LimiterTypeOK
<1>8. PromiseInv'
  BY <1>0, <1>1 DEF PromiseInv
<1> QED
  BY <1>2, <1>4, <1>5, <1>6, <1>7, <1>8 DEF Inv

\* A script, however late, finds and keeps the entry of every request of its
\* tenant admitted within Window - MaxDelay: the key has not expired, and the
\* entry's stamp is younger than what the script trims.
LEMMA KeepsRecent ==
    ASSUME Inv, NEW r \in Requests, pc[r] \in {"eval", "late"},
           NEW q \in Requests, tenant[q] = tenant[r],
           passed[q] # None, passed[q] > clock - (Window - MaxDelay)
    PROVE  Entry(q) \in Trim(Stored(tenant[r]), stamp[r])
<1>1. /\ clock \in Nat /\ passed[q] \in Nat /\ Window \in Nat /\ MaxDelay \in Nat
      /\ stamp[r] \in Nat /\ stamp[r] <= clock
      /\ stamp[q] \in Nat /\ passed[q] <= stamp[q] + MaxDelay
  BY LimitAssumption, DelayAssumption DEF Inv, TypeOK, LimiterTypeOK, StampInv
<1>2. /\ Entry(q) \in zset[tenant[r]]
      /\ expireAt[tenant[r]] # None /\ expireAt[tenant[r]] >= passed[q] + Window
  BY DEF Inv, RecordInv
<1>3. expireAt[tenant[r]] \in Nat
  BY <1>2, HasTenant DEF Inv, TypeOK, LimiterTypeOK
<1>4. Stored(tenant[r]) = zset[tenant[r]]
  <2>1. passed[q] <= clock
    BY DEF Inv, StampInv
  <2>2. Window # 0
    BY <1>1, <2>1
  <2> QED
    BY <1>1, <1>2, <1>3, <2>2 DEF Stored
<1>5. stamp[q] > stamp[r] - Window
  BY <1>1
<1> QED
  BY <1>2, <1>4, <1>5 DEF Trim, Entry

\* The script records a request.
LEMMA AllowStep ==
    ASSUME Inv, UNCHANGED authVars, NEW r \in Requests, EvalAllows(r)
    PROVE  Inv'
<1> DEFINE t == tenant[r]
           kept == Trim(Stored(t), stamp[r])
<1>0. /\ TypeOK /\ AuthInv /\ StampInv /\ LogInv /\ RecordInv /\ PromiseInv
      /\ LimiterTypeOK
  BY DEF Inv, TypeOK
<1>1. /\ pc[r] \in {"eval", "late"} /\ HasRoom(kept)
      /\ zset' = [zset EXCEPT ![t] = kept \cup {Entry(r)}]
      /\ expireAt' = [expireAt EXCEPT ![t] = clock + Window]
      /\ pc' = [pc EXCEPT ![r] = IF pc[r] = "late" THEN "open" ELSE "next"]
      /\ passed' = [passed EXCEPT ![r] = IF pc[r] = "late" THEN None ELSE clock]
      /\ promise' = [promise EXCEPT ![t] = None]
      /\ UNCHANGED <<clock, tenant, stamp, revoked, token, expired>>
  BY DEF EvalAllows, Entry, Answer, authVars
<1>2. /\ t \in Tenants /\ stamp[r] \in Nat /\ stamp[r] <= clock /\ clock \in Nat
      /\ Window \in Nat /\ MaxDelay \in Nat /\ Limit \in Nat
      /\ passed[r] = None
  BY <1>0, <1>1, HasTenant, LimitAssumption, DelayAssumption DEF StampInv, LimiterTypeOK
<1>3. /\ kept \subseteq zset[t] /\ IsFiniteSet(kept) /\ Cardinality(kept) \in Nat
  BY <1>0, <1>2, KeptOfLog DEF LogInv
<1>4. /\ IsFiniteSet(kept \cup {Entry(r)})
      /\ Cardinality(kept \cup {Entry(r)}) <= Limit
  <2> HIDE DEF kept
  <2>1. /\ IsFiniteSet(kept \cup {Entry(r)})
        /\ Cardinality(kept \cup {Entry(r)})
             = IF Entry(r) \in kept THEN Cardinality(kept) ELSE Cardinality(kept) + 1
    BY <1>3, FS_AddElement
  <2>2. Cardinality(kept) < Limit
    BY <1>1 DEF HasRoom
  <2> QED
    BY <1>2, <1>3, <2>1, <2>2
<1>5. Entry(r) \in Entries
  BY <1>2 DEF Entry, Entries
<1>6. TypeOK'
  <2>1. zset' \in [Tenants -> SUBSET Entries]
    BY <1>0, <1>1, <1>3, <1>5 DEF LimiterTypeOK
  <2>2. \A u \in Tenants : Cardinality(zset'[u]) <= Limit
    BY <1>0, <1>1, <1>4 DEF LimiterTypeOK
  <2>3. pc' \in [Requests -> {"new", "lookup", "unauthorized", "limit",
                              "eval", "late", "next", "denied", "open"}]
    BY <1>0, <1>1 DEF TypeOK
  <2>4. /\ expireAt' \in [Tenants -> Nat \cup {None}]
        /\ passed' \in [Requests -> Nat \cup {None}]
        /\ promise' \in [Tenants -> Int \cup {None}]
    BY <1>0, <1>1, <1>2 DEF LimiterTypeOK
  <2> QED
    BY <1>0, <1>1, <2>1, <2>2, <2>3, <2>4 DEF TypeOK, LimiterTypeOK
<1>7. AuthInv'
  BY <1>0, <1>1 DEF AuthInv, TypeOK
<1>8. StampInv'
  BY <1>0, <1>1, <1>2 DEF StampInv, TypeOK, LimiterTypeOK
<1>9. LogInv'
  <2>1. ASSUME NEW u \in Tenants PROVE IsFiniteSet(zset'[u])
    BY <1>0, <1>1, <1>4 DEF LogInv, LimiterTypeOK
  <2>2. ASSUME NEW u \in Tenants, NEW e \in zset'[u]
        PROVE  tenant'[e.member] = u /\ pc'[e.member] \in {"next", "open"}
    <3>1. CASE e \in zset[u]
      <4>1. e.member \in Requests /\ tenant[e.member] = u /\ pc[e.member] \in {"next", "open"}
        BY <1>0, <3>1 DEF LogInv, LimiterTypeOK, Entries
      <4> QED
        BY <1>0, <1>1, <4>1 DEF TypeOK
    <3>2. CASE e \notin zset[u]
      <4>1. u = t /\ e = Entry(r)
        BY <1>0, <1>1, <1>3, <2>2, <3>2 DEF LimiterTypeOK
      <4> QED
        BY <1>0, <1>1, <4>1 DEF TypeOK, Entry
    <3> QED
      BY <3>1, <3>2
  <2> QED
    BY <2>1, <2>2 DEF LogInv
<1>10. RecordInv'
  <2> SUFFICES ASSUME NEW q \in Requests, passed'[q] # None,
                      passed'[q] > clock - (Window - MaxDelay)
               PROVE  /\ Entry(q) \in zset'[tenant[q]]
                      /\ expireAt'[tenant[q]] # None
                      /\ expireAt'[tenant[q]] >= passed'[q] + Window
    BY <1>1 DEF RecordInv, Entry
  <2>1. CASE q = r
    BY <1>0, <1>1, <1>2, <2>1, NoneAssumption DEF LimiterTypeOK
  <2>2. CASE q # r
    <3>1. passed'[q] = passed[q] /\ passed[q] \in Nat /\ passed[q] <= clock
      BY <1>0, <1>1, <2>2 DEF LimiterTypeOK, StampInv
    <3>2. /\ Entry(q) \in zset[tenant[q]]
          /\ expireAt[tenant[q]] # None /\ expireAt[tenant[q]] >= passed[q] + Window
          /\ tenant[q] \in Tenants
      BY <1>0, <3>1, HasTenant DEF RecordInv, StampInv
    <3>3. CASE tenant[q] = t
      <4>1. Entry(q) \in kept
        BY <1>1, <3>1, <3>3, KeepsRecent
      <4> QED
        BY <1>0, <1>1, <1>2, <3>1, <3>3, <4>1, NoneAssumption DEF LimiterTypeOK
    <3>4. CASE tenant[q] # t
      BY <1>0, <1>1, <3>1, <3>2, <3>4 DEF LimiterTypeOK
    <3> QED
      BY <3>3, <3>4
  <2> QED
    BY <2>1, <2>2
<1>11. PromiseInv'
  BY <1>0, <1>1 DEF PromiseInv, LimiterTypeOK
<1> QED
  BY <1>6, <1>7, <1>8, <1>9, <1>10, <1>11 DEF Inv

\* What holds of the log when the script refuses: it is full, it is what the
\* script found, and a promise that stood before was for later than this stamp.
LEMMA DenialFacts ==
    ASSUME Inv, NEW r \in Requests, EvalDenies(r)
    PROVE  LET t == tenant[r]
               kept == Trim(Stored(t), stamp[r])
           IN  /\ t \in Tenants /\ stamp[r] \in Nat
               /\ kept = zset[t] /\ Cardinality(kept) = Limit
               /\ RetryAfter(kept, stamp[r]) \in Nat
               /\ \E e \in kept : stamp[r] + RetryAfter(kept, stamp[r]) = e.score + Window
               /\ \A e \in kept : e.score \in Nat /\ e.score > stamp[r] - Window
<1> DEFINE t == tenant[r]
           kept == Trim(Stored(t), stamp[r])
<1>1. pc[r] \in {"eval", "late"} /\ ~HasRoom(kept)
  BY DEF EvalDenies
<1>2. t \in Tenants /\ stamp[r] \in Nat
  BY <1>1, HasTenant DEF Inv, StampInv
<1>3. IsFiniteSet(zset[t]) /\ Cardinality(zset[t]) <= Limit
  BY <1>2 DEF Inv, LogInv, TypeOK, LimiterTypeOK
<1>4. kept = zset[t] /\ Cardinality(kept) = Limit
  BY <1>1, <1>2, <1>3, KeptOfLog, FS_CardinalityType, LimitAssumption DEF HasRoom
<1>5. kept # {}
  BY <1>3, <1>4, FS_EmptySet, LimitAssumption
<1>6. kept \in SUBSET Entries
  BY <1>2, <1>4 DEF Inv, TypeOK, LimiterTypeOK
<1>7. \A e \in kept : e.score \in Nat /\ e.score > stamp[r] - Window
  BY <1>6 DEF Trim, Entries
<1>8. /\ RetryAfter(kept, stamp[r]) \in Nat
      /\ \E e \in kept : stamp[r] + RetryAfter(kept, stamp[r]) = e.score + Window
  <2> HIDE DEF kept
  <2> QED
    BY <1>2, <1>5, <1>6, <1>7, RetryAfterOldest
<1> QED
  BY <1>2, <1>4, <1>7, <1>8

\* The script refuses a request.
LEMMA DenyStep ==
    ASSUME Inv, UNCHANGED authVars, NEW r \in Requests, EvalDenies(r)
    PROVE  Inv'
<1> DEFINE t == tenant[r]
           kept == Trim(Stored(t), stamp[r])
           wait == RetryAfter(kept, stamp[r])
           told == RetrySeconds(wait) * Second
<1>0. /\ TypeOK /\ AuthInv /\ StampInv /\ LogInv /\ RecordInv /\ PromiseInv
      /\ LimiterTypeOK
  BY DEF Inv, TypeOK
<1>1. /\ t \in Tenants /\ kept = zset[t] /\ Cardinality(kept) = Limit
      /\ stamp[r] \in Nat /\ wait \in Nat
      /\ \E e \in kept : stamp[r] + wait = e.score + Window
      /\ \A e \in kept : e.score \in Nat
  BY DenialFacts
<1>2. /\ pc[r] \in {"eval", "late"}
      /\ zset' = zset
      /\ pc' = [pc EXCEPT ![r] = IF pc[r] = "late" THEN "open" ELSE "denied"]
      /\ promise' = [promise EXCEPT ![t] = stamp[r] + told]
      /\ UNCHANGED <<clock, expireAt, tenant, stamp, passed, revoked, token, expired>>
  BY <1>0, <1>1 DEF EvalDenies, Answer, authVars, LimiterTypeOK
<1> HIDE DEF kept, wait
<1>3. told \in Nat /\ told + Second - 1 >= wait /\ Second \in Nat
  BY <1>1, RetrySecondsShort, SecondAssumption
<1> HIDE DEF told
<1>4. TypeOK'
  BY <1>0, <1>1, <1>2, <1>3 DEF TypeOK, LimiterTypeOK
<1>5. AuthInv'
  BY <1>0, <1>2 DEF AuthInv, TypeOK
<1>6. StampInv'
  BY <1>0, <1>2 DEF StampInv, TypeOK
<1>7. LogInv'
  BY <1>0, <1>2 DEF LogInv, TypeOK, LimiterTypeOK, Entries
<1>8. RecordInv'
  BY <1>0, <1>2 DEF RecordInv, Entry
<1>9. PromiseInv'
  <2>1. PICK e \in zset[t] : stamp[r] + wait = e.score + Window /\ e.score \in Nat
    BY <1>1
  <2>2. stamp[r] + told + Second - 1 >= e.score + Window
    BY <1>1, <1>3, <2>1, LimitAssumption
  <2>3. ASSUME NEW u \in Tenants, promise'[u] # None
        PROVE  /\ Cardinality(zset'[u]) = Limit
               /\ \E d \in zset'[u] : promise'[u] + Second - 1 >= d.score + Window
    <3>1. CASE u = t
      BY <1>0, <1>1, <1>2, <2>2, <3>1 DEF LimiterTypeOK
    <3>2. CASE u # t
      BY <1>0, <1>2, <2>3, <3>2 DEF PromiseInv, LimiterTypeOK
    <3> QED
      BY <3>1, <3>2
  <2> QED
    BY <2>3 DEF PromiseInv
<1> QED
  BY <1>4, <1>5, <1>6, <1>7, <1>8, <1>9 DEF Inv

\* Every step preserves the invariant.
LEMMA InvStep == Inv /\ [Next]_vars => Inv'
<1> SUFFICES ASSUME Inv, [Next]_vars PROVE Inv'
  OBVIOUS
<1>1. CASE UNCHANGED vars
  BY <1>1 DEF vars, Inv, TypeOK, LimiterTypeOK, AuthInv, StampInv, LogInv, RecordInv, PromiseInv,
              Entry
<1>2. ASSUME NEW r \in Requests, RateLimit(r), UNCHANGED authVars PROVE Inv'
  BY <1>2, WaitStep, AllowStep, DenyStep DEF RateLimit
<1>3. CASE Tick /\ UNCHANGED authVars
  BY <1>3, WaitStep
<1> QED
  BY <1>1, <1>2, <1>3, AuthStep DEF Next

\* Every run satisfies the inductive invariant.
THEOREM Invariance == Spec => []Inv
  BY InitInv, InvStep, PTL DEF Spec

\* Keys, logs and histories keep their types; a log never grows past the limit.
THEOREM TypeCorrect == Spec => []TypeOK
<1>1. Inv => TypeOK
  BY DEF Inv
<1> QED
  BY <1>1, Invariance, PTL

\* APIKeyAuth and RateLimit together: no request reaches its handler or takes
\* room in a log but for the tenant of the key it presented, and none whose key
\* was revoked before it came.
THEOREM OnlyForItsTenantCorrect == Spec => []OnlyForItsTenant
<1>1. Inv => OnlyForItsTenant
  <2> SUFFICES ASSUME Inv, NEW r \in Requests
               PROVE  LET charged == {t \in Tenants : \E e \in zset[t] : e.member = r}
                          good == IF token[r] \in Keys /\ r \notin expired
                                  THEN {TenantOf[token[r]]} ELSE {}
                      IN  /\ charged \subseteq good
                          /\ pc[r] \in {"next", "open", "late"} => tenant[r] \in good
    BY DEF OnlyForItsTenant
  <2>1. pc[r] \in {"next", "open", "late"} =>
            token[r] \in Keys /\ r \notin expired /\ tenant[r] = TenantOf[token[r]]
    BY DEF Inv, AuthInv
  <2>2. ASSUME NEW t \in Tenants, NEW e \in zset[t], e.member = r
        PROVE  tenant[r] = t /\ pc[r] \in {"next", "open"}
    BY <2>2 DEF Inv, LogInv
  <2> QED
    BY <2>1, <2>2
<1> QED
  BY <1>1, Invariance, PTL

-----------------------------------------------------------------------------
(* The limit holds over every stretch of Window - MaxDelay.                 *)

\* The requests admitted in the last Window - MaxDelay are all in the log, each
\* with an entry of its own, and the log is no larger than the limit.
LEMMA RecentWithinLimit ==
    Inv => \A t \in Tenants :
              Cardinality(PassedDuring(t, clock - (Window - MaxDelay), clock)) <= Limit
<1> SUFFICES ASSUME Inv, NEW t \in Tenants
             PROVE  Cardinality(PassedDuring(t, clock - (Window - MaxDelay), clock)) <= Limit
  OBVIOUS
<1> DEFINE Recent == PassedDuring(t, clock - (Window - MaxDelay), clock)
           f == [q \in Recent |-> Entry(q)]
<1>1. \A q \in Recent : Entry(q) \in zset[t]
  BY DEF Inv, RecordInv, PassedDuring
<1>2. f \in Injection(Recent, zset[t])
  <2>1. f \in [Recent -> zset[t]]
    BY <1>1
  <2>2. ASSUME NEW p \in Recent, NEW q \in Recent, f[p] = f[q] PROVE p = q
    BY <2>2 DEF Entry
  <2> QED
    BY <2>1, <2>2 DEF Injection, IsInjective
<1>3. IsFiniteSet(zset[t]) /\ Cardinality(zset[t]) <= Limit
  BY DEF Inv, LogInv, TypeOK, LimiterTypeOK
<1> HIDE DEF Recent, f
<1>4. IsFiniteSet(Recent) /\ Cardinality(Recent) <= Cardinality(zset[t])
  BY <1>2, <1>3, FS_Injection
<1>5. Cardinality(Recent) \in Nat /\ Cardinality(zset[t]) \in Nat
  BY <1>3, <1>4, FS_CardinalityType
<1> QED
  BY <1>3, <1>4, <1>5, LimitAssumption DEF Recent

\* A step leaves the admissions of the past as they are: it admits at the
\* present moment only.
LEMMA PastStands ==
    ASSUME Inv, [Next]_vars, NEW t \in Tenants, NEW now \in 0..clock', now # clock',
           NEW from \in Int
    PROVE  PassedDuring(t, from, now)' = PassedDuring(t, from, now)
<1>0. TypeOK /\ LimiterTypeOK /\ StampInv
  BY DEF Inv, TypeOK
<1>1. clock \in Nat /\ now \in Nat /\ clock' \in Nat /\ now < clock' /\ clock' \in {clock, clock + 1}
  BY <1>0, DelayAssumption DEF LimiterTypeOK, vars, Next, bearerToken, Authenticate,
     ErrUnauthorized, Revoke, RateLimit, ReadClock, EvalAllows, EvalDenies, FailOpen, Tick
<1>2. \A q \in Requests : passed[q] # None => passed'[q] = passed[q] /\ tenant'[q] = tenant[q]
  BY <1>0 DEF LimiterTypeOK, TypeOK, StampInv, vars, Next, bearerToken, Authenticate, setAuth,
     ErrUnauthorized, Revoke, RateLimit, ReadClock, EvalAllows, EvalDenies, FailOpen, Tick
<1>3. \A q \in Requests : passed[q] = None => passed'[q] = None \/ passed'[q] = clock'
  BY <1>0 DEF LimiterTypeOK, vars, Next, bearerToken, Authenticate,
     ErrUnauthorized, Revoke, RateLimit, ReadClock, EvalAllows, EvalDenies, FailOpen, Tick
<1> QED
  BY <1>1, <1>2, <1>3 DEF PassedDuring

\* The sliding-window log never admits more than Limit requests of a tenant in
\* any stretch of Window - MaxDelay, however its scripts are delayed and
\* reordered (ratelimit.go, the Lua script).
THEOREM EffectiveWindowCorrect == Spec => []EffectiveWindow
<1>1. Init => EffectiveWindow
  <2> SUFFICES ASSUME Init, NEW t \in Tenants, NEW now \in 0..clock
               PROVE  Cardinality(PassedDuring(t, now - (Window - MaxDelay), now)) <= Limit
    BY DEF EffectiveWindow
  <2>1. PassedDuring(t, now - (Window - MaxDelay), now) = {}
    BY DEF PassedDuring, Init, LimiterInit
  <2> QED
    BY <2>1, FS_EmptySet, LimitAssumption
<1>2. Inv' => (\A t \in Tenants :
          Cardinality(PassedDuring(t, clock - (Window - MaxDelay), clock)) <= Limit)'
  BY RecentWithinLimit, PTL
<1>3. Inv /\ Inv' /\ EffectiveWindow /\ [Next]_vars => EffectiveWindow'
  <2> SUFFICES ASSUME Inv, Inv', EffectiveWindow, [Next]_vars,
                      NEW t \in Tenants, NEW now \in 0..clock'
               PROVE  Cardinality(PassedDuring(t, now - (Window - MaxDelay), now)') <= Limit
    BY DEF EffectiveWindow
  <2>0. now \in Nat /\ clock \in Nat /\ clock' \in Nat /\ now - (Window - MaxDelay) \in Int
    BY DelayAssumption, LimitAssumption DEF Inv, TypeOK, LimiterTypeOK
  <2>1. CASE now = clock'
    BY <1>2, <2>1 DEF PassedDuring
  <2>2. CASE now # clock'
    <3>1. PassedDuring(t, now - (Window - MaxDelay), now)'
            = PassedDuring(t, now - (Window - MaxDelay), now)
      BY <2>0, <2>2, PastStands
    <3>2. now \in 0..clock
      BY <2>0, <2>2 DEF vars, Next, bearerToken, Authenticate, ErrUnauthorized, Revoke,
         RateLimit, ReadClock, EvalAllows, EvalDenies, FailOpen, Tick
    <3> QED
      BY <3>1, <3>2 DEF EffectiveWindow
  <2> QED
    BY <2>1, <2>2
<1> QED
  BY <1>1, <1>3, Invariance, PTL DEF Spec

\* The whole seconds that a 429 reports fall short of the room by less than a
\* second: a request stamped that much later and Second - 1 milliseconds more is
\* refused only after another admission, which withdraws the promise (retryAfter
\* of the script, cut by the middleware's int(retryAfter.Seconds())).
THEOREM RetryIsNearlyEnoughCorrect == Spec => RetryIsNearlyEnough
<1>1. ASSUME Inv, [Next]_vars, NEW r \in Requests, pc[r] # "denied", pc'[r] = "denied",
             promise[tenant[r]] # None
      PROVE  stamp[r] < promise[tenant[r]] + Second - 1
  <2>1. EvalDenies(r)
    BY <1>1 DEF Inv, TypeOK, vars, Next, bearerToken, Authenticate, ErrUnauthorized, Revoke,
       RateLimit, ReadClock, EvalAllows, FailOpen, Tick, Answer, EvalDenies
  <2>2. /\ tenant[r] \in Tenants /\ stamp[r] \in Nat
        /\ \A e \in zset[tenant[r]] : e.score \in Nat /\ e.score > stamp[r] - Window
    BY <1>1, <2>1, DenialFacts
  <2>3. PICK e \in zset[tenant[r]] : promise[tenant[r]] + Second - 1 >= e.score + Window
    BY <1>1, <2>2 DEF Inv, PromiseInv
  <2>4. promise[tenant[r]] \in Int
    BY <1>1, <2>2 DEF Inv, TypeOK, LimiterTypeOK
  <2> QED
    BY <2>2, <2>3, <2>4, LimitAssumption, SecondAssumption
<1>2. Inv /\ [Next]_vars =>
        [\A r \in Requests :
            /\ pc[r] # "denied" /\ pc'[r] = "denied"
            /\ promise[tenant[r]] # None
            => stamp[r] < promise[tenant[r]] + Second - 1]_limiterVars
  BY <1>1
<1> QED
  BY <1>2, Invariance, PTL DEF Spec, RetryIsNearlyEnough
=============================================================================
