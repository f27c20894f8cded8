-------------------------- MODULE DispatcherProofs --------------------------
(***************************************************************************)
(* Proofs about Dispatcher for any events, hooks, tenants and bodies, any  *)
(* pool of senders and any queue size, retry and failure limit.             *)
(***************************************************************************)
EXTENDS Dispatcher, FiniteSetTheorems, TLAPS

-----------------------------------------------------------------------------
(* Where a delivery can be, from the Dispatch call to its outcome.          *)

Waiting == {events[n] : n \in DOMAIN events}
Queued == {jobs[n] : n \in DOMAIN jobs}
Busy(s) == job[s] # None

ToSend == {d \in Deliveries : emitter[d[1]] \in {"idle", "check", "send"}}
ToResolve == {d \in Deliveries : d[1] \in Waiting}
ToFanOut == {d \in Deliveries : d[1] = current /\ d[2] \in fanout}
Offered == {d \in Deliveries : offering # None /\ d = Of(offering)}
InTimer == {d \in Deliveries : \E j \in timers : d = Of(j)}
Timed == {d \in Deliveries : \E j \in timed : d = Of(j)}
InQueue == {d \in Deliveries : \E j \in Queued : d = Of(j)}
WithSender == {d \in Deliveries : \E s \in Senders : Busy(s) /\ d = Of(job[s])}

Where == <<ToSend, ToResolve, ToFanOut, Offered, InTimer, Timed, InQueue,
           WithSender, delivered, gaveUp, overflowed, discarded>>

\* The jobs whose next step is a POST, a channel or a timer away.
Ready ==
    {j \in Jobs : \/ offering # None /\ j = offering
                  \/ j \in timers \/ j \in timed \/ j \in Queued
                  \/ \E s \in Senders : sender[s][2] = "post" /\ j = job[s]}

-----------------------------------------------------------------------------
(* The inductive invariant.                                                 *)

\* A delivery is in one place at a time: no goroutine works on what another
\* one, a channel or a timer holds, nor on what has its outcome.
OnePlaceInv == \A p, q \in 1..12 : p # q => Where[p] \cap Where[q] = {}

\* The channels hold nothing twice, and only events whose Dispatch call has
\* returned; between two events the resolver holds nothing.
QueueInv ==
    /\ \A m, n \in DOMAIN events : events[m] = events[n] => m = n
    /\ \A e \in Waiting : emitter[e] = "queued"
    /\ \A m, n \in DOMAIN jobs : jobs[m] = jobs[n] => m = n
    /\ current = None => fanout = {} /\ offering = None

\* A sender has a job exactly while it delivers, and no two have the same.
SenderInv ==
    /\ \A s \in Senders : sender[s][2] = "wait" <=> ~Busy(s)
    /\ \A s \in Senders : sender[s][1] = "exit" => sender[s][2] = "wait"
    /\ \A s, r \in Senders : Busy(s) /\ Busy(r) /\ Of(job[s]) = Of(job[r]) => s = r

\* The attempt number of a job counts the POSTs made for its delivery.
PostInv ==
    /\ \A d \in ToSend \cup ToResolve \cup ToFanOut : posts[d] = 0
    /\ \A j \in Ready : posts[Of(j)] = j.attempt
    /\ \A s \in Senders : sender[s][2] \in {"succeed", "fail"} =>
          posts[Of(job[s])] = job[s].attempt + 1

\* From the lookup on, a delivery goes to a subscriber of its event.
Subscribed(d) ==
    /\ hooks[d[2]].state # "absent" /\ hooks[d[2]].tenant = TenantOf[d[1]]
    /\ TypeOf[d[1]] \in hooks[d[2]].events
SubscriberInv ==
    \A d \in Deliveries :
        \/ posts[d] > 0 \/ d \in ToFanOut \/ d \in Offered \/ d \in InTimer
        \/ d \in Timed \/ d \in InQueue \/ d \in WithSender
        => Subscribed(d)

\* What Shutdown owes is in the channel, with a sender, or posted; it has left
\* the channel before the first sender exits.
ShutdownInv ==
    /\ quit <=> down # "no"
    /\ ~quit => earlyJobs = {} /\ \A s \in Senders : sender[s][1] = "select"
    /\ \A j \in earlyJobs : \/ posts[Of(j)] > j.attempt \/ j \in Queued
                            \/ \E s \in Senders : sender[s][2] = "post" /\ j = job[s]
    /\ \A s \in Senders : sender[s][1] = "exit" => earlyJobs \cap Queued = {}

Inv == /\ TypeOK /\ OnePlaceInv /\ QueueInv /\ SenderInv /\ PostInv
       /\ SubscriberInv /\ ShutdownInv /\ DeadLetterConsistent

-----------------------------------------------------------------------------
(* Lemmas about channels, jobs and places.                                  *)

\* A send that finds room puts a new element at the end of a channel without
\* repetitions (dispatcher.go:115, 176).
LEMMA Sent ==
    ASSUME NEW S, NEW q \in Seq(S), NEW x \in S
    PROVE  /\ Append(q, x) \in Seq(S) /\ Len(Append(q, x)) = Len(q) + 1
           /\ {Append(q, x)[n] : n \in DOMAIN Append(q, x)} = {q[n] : n \in DOMAIN q} \cup {x}
           /\ /\ \A m, n \in DOMAIN q : q[m] = q[n] => m = n
              /\ x \notin {q[n] : n \in DOMAIN q}
              => \A m, n \in DOMAIN Append(q, x) :
                    Append(q, x)[m] = Append(q, x)[n] => m = n
<1> DEFINE r == Append(q, x)
           k == Len(q)
<1>1. k \in Nat /\ r \in Seq(S) /\ Len(r) = k + 1
  OBVIOUS
<1>2. DOMAIN q = 1..k /\ DOMAIN r = 1..(k + 1)
  BY <1>1
<1>3. r[k + 1] = x /\ \A n \in 1..k : r[n] = q[n]
  OBVIOUS
<1>4. \A n : n \in 1..(k + 1) <=> n \in 1..k \/ n = k + 1
  BY <1>1
<1> HIDE DEF r, k
<1>5. {r[n] : n \in DOMAIN r} = {q[n] : n \in DOMAIN q} \cup {x}
  BY <1>2, <1>3, <1>4
<1>6. ASSUME \A m, n \in DOMAIN q : q[m] = q[n] => m = n,
             x \notin {q[n] : n \in DOMAIN q}
      PROVE  \A m, n \in DOMAIN r : r[m] = r[n] => m = n
  BY <1>2, <1>3, <1>4, <1>6
<1> QED
  BY <1>1, <1>5, <1>6 DEF r, k

\* A receive takes the first element out of such a channel and leaves the others
\* (dispatcher.go:129, 188).
LEMMA Received ==
    ASSUME NEW S, NEW q \in Seq(S), q # <<>>,
           \A m, n \in DOMAIN q : q[m] = q[n] => m = n
    PROVE  /\ Head(q) \in S /\ Tail(q) \in Seq(S) /\ Len(Tail(q)) = Len(q) - 1
           /\ Head(q) \in {q[n] : n \in DOMAIN q}
           /\ {Tail(q)[n] : n \in DOMAIN Tail(q)} = {q[n] : n \in DOMAIN q} \ {Head(q)}
           /\ \A m, n \in DOMAIN Tail(q) : Tail(q)[m] = Tail(q)[n] => m = n
<1> DEFINE r == Tail(q)
           k == Len(q)
<1>1. k \in Nat \ {0} /\ r \in Seq(S) /\ Len(r) = k - 1
  OBVIOUS
<1>2. DOMAIN q = 1..k /\ DOMAIN r = 1..(k - 1)
  BY <1>1
<1>3. Head(q) = q[1] /\ \A n \in 1..(k - 1) : r[n] = q[n + 1]
  OBVIOUS
<1>4. 1 \in 1..k /\ \A n \in 1..(k - 1) : n + 1 \in 1..k /\ n + 1 # 1
  BY <1>1
<1>5. \A n \in 1..k : n # 1 => n - 1 \in 1..(k - 1) /\ (n - 1) + 1 = n
  BY <1>1
<1>6. q[1] \in S
  BY <1>2, <1>4
<1> HIDE DEF r, k
<1>7. {r[n] : n \in DOMAIN r} = {q[n] : n \in DOMAIN q} \ {q[1]}
  <2>1. ASSUME NEW n \in DOMAIN r PROVE r[n] \in {q[m] : m \in DOMAIN q} \ {q[1]}
    BY <1>2, <1>3, <1>4
  <2>2. ASSUME NEW n \in DOMAIN q, q[n] # q[1] PROVE q[n] \in {r[m] : m \in DOMAIN r}
    <3>1. n - 1 \in DOMAIN r /\ r[n - 1] = q[n]
      BY <1>2, <1>3, <1>5, <2>2
    <3> QED
      BY <3>1
  <2> QED
    BY <2>1, <2>2
<1>8. \A m, n \in DOMAIN r : r[m] = r[n] => m = n
  <2> SUFFICES ASSUME NEW m \in 1..(k - 1), NEW n \in 1..(k - 1), r[m] = r[n]
               PROVE  m = n
    BY <1>2
  <2>1. m + 1 = n + 1
    BY <1>2, <1>3, <1>4
  <2> QED
    BY <1>1, <2>1
<1> QED
  BY <1>1, <1>2, <1>3, <1>4, <1>6, <1>7, <1>8 DEF r, k

\* A job is an event, a hook and an attempt, and is not None.
LEMMA JobFacts ==
    /\ \A j \in Jobs : /\ Of(j) \in Deliveries /\ j # None
                       /\ j.event \in Events /\ j.hook \in Hooks
                       /\ Of(j)[1] = j.event /\ Of(j)[2] = j.hook
                       /\ j.attempt \in Nat /\ j.attempt <= MaxRetries
    /\ \A i, j \in Jobs : Of(i) = Of(j) /\ i.attempt = j.attempt => i = j
<1>1. \A j \in Jobs : j.event \in Events /\ j.hook \in Hooks /\ j.attempt \in 0..MaxRetries
  BY DEF Jobs
<1>2. \A j \in Jobs : j # None
  BY NoneAssumption
<1>3. \A i, j \in Jobs : i.event = j.event /\ i.hook = j.hook /\ i.attempt = j.attempt => i = j
  BY DEF Jobs
<1> QED
  BY <1>1, <1>2, <1>3, SizesAssumption DEF Of, Deliveries

\* Moving some deliveries from one place to another, or letting some go, keeps
\* the places apart.
LEMMA Moves ==
    ASSUME OnePlaceInv, NEW a \in 1..12, NEW b \in 1..12, a # b,
           Where'[a] \subseteq Where[a],
           Where'[b] \subseteq Where[b] \cup (Where[a] \ Where'[a]),
           \A p \in 1..12 : p # a /\ p # b => Where'[p] \subseteq Where[p]
    PROVE  OnePlaceInv'
<1> DEFINE N == 1..12
<1> SUFFICES ASSUME NEW p \in N, NEW q \in N, p # q, NEW x \in Where'[p], x \in Where'[q]
             PROVE  FALSE
  BY DEF OnePlaceInv
<1>0. a \in N /\ b \in N
  OBVIOUS
<1>1. \A i \in N : x \in Where'[i] => x \in Where[i] \/ (i = b /\ x \in Where[a] \ Where'[a])
  OBVIOUS
<1>2. \A i, j \in N : x \in Where[i] /\ x \in Where[j] => i = j
  BY DEF OnePlaceInv
<1> HIDE DEF N
<1> QED
  BY <1>0, <1>1, <1>2

\* A place whose variables do not change holds what it held.
LEMMA SamePlace ==
    /\ emitter' = emitter => ToSend' = ToSend
    /\ events' = events => Waiting' = Waiting /\ ToResolve' = ToResolve
    /\ current' = current /\ fanout' = fanout => ToFanOut' = ToFanOut
    /\ offering' = offering => Offered' = Offered
    /\ timers' = timers => InTimer' = InTimer
    /\ timed' = timed => Timed' = Timed
    /\ jobs' = jobs => Queued' = Queued /\ InQueue' = InQueue
    /\ job' = job => WithSender' = WithSender
<1>1. events' = events => Waiting' = Waiting
  BY DEF Waiting
<1>2. jobs' = jobs => Queued' = Queued
  BY DEF Queued
<1> QED
  BY <1>1, <1>2 DEF ToSend, ToResolve, ToFanOut, Offered, InTimer, Timed, InQueue,
                    WithSender, Busy

\* What a sender's change of stage, or of loop, leaves alone.
LEMMA StageFacts ==
    ASSUME TypeOK, NEW s \in Senders, NEW x \in {"wait", "post", "succeed", "fail"},
           Stage(s, x)
    PROVE  /\ sender' \in [Senders -> {"select", "drain", "exit"}
                                      \X {"wait", "post", "succeed", "fail"}]
           /\ sender'[s][1] = sender[s][1] /\ sender'[s][2] = x
           /\ \A r \in Senders : r # s => sender'[r] = sender[r]
<1>1. sender[s] \in {"select", "drain", "exit"} \X {"wait", "post", "succeed", "fail"}
  BY DEF TypeOK
<1>2. sender' = [sender EXCEPT ![s] = [sender[s] EXCEPT ![2] = x]]
  BY DEF Stage
<1>3. [sender[s] EXCEPT ![2] = x] = <<sender[s][1], x>>
  BY <1>1
<1> QED
  BY <1>1, <1>2, <1>3 DEF TypeOK
LEMMA LoopFacts ==
    ASSUME TypeOK, NEW s \in Senders, NEW x \in {"select", "drain", "exit"},
           sender' = [sender EXCEPT ![s][1] = x]
    PROVE  /\ sender' \in [Senders -> {"select", "drain", "exit"}
                                      \X {"wait", "post", "succeed", "fail"}]
           /\ sender'[s][1] = x /\ sender'[s][2] = sender[s][2]
           /\ \A r \in Senders : r # s => sender'[r] = sender[r]
<1>1. sender[s] \in {"select", "drain", "exit"} \X {"wait", "post", "succeed", "fail"}
  BY DEF TypeOK
<1>2. sender' = [sender EXCEPT ![s] = [sender[s] EXCEPT ![1] = x]]
  OBVIOUS
<1>3. [sender[s] EXCEPT ![1] = x] = <<x, sender[s][2]>>
  BY <1>1
<1> QED
  BY <1>1, <1>2, <1>3 DEF TypeOK

\* A busy sender has a job.
LEMMA BusyFacts ==
    ASSUME TypeOK, SenderInv, NEW s \in Senders
    PROVE  /\ sender[s][1] \in {"select", "drain", "exit"}
           /\ sender[s][2] \in {"wait", "post", "succeed", "fail"}
           /\ sender[s][2] # "wait" => Busy(s) /\ job[s] \in Jobs /\ Of(job[s]) \in WithSender
<1>1. sender[s] \in {"select", "drain", "exit"} \X {"wait", "post", "succeed", "fail"}
      /\ job[s] \in Jobs \cup {None}
  BY DEF TypeOK
<1>2. sender[s][2] # "wait" => Busy(s)
  BY DEF SenderInv
<1>3. Busy(s) => job[s] \in Jobs
  BY <1>1 DEF Busy
<1>4. Busy(s) => Of(job[s]) \in WithSender
  BY <1>3, JobFacts DEF WithSender
<1> QED
  BY <1>1, <1>2, <1>3, <1>4

-----------------------------------------------------------------------------
(* The initial state and the types.                                         *)

\* After NewDispatcher nothing is under way: the invariant holds.
LEMMA InitInv == Init => Inv
<1> SUFFICES ASSUME Init PROVE Inv
  OBVIOUS
<1>1. TypeOK
  <2>1. \A h \in Hooks : hooks[h] \in HookRows
    BY DEF Init, HookRows
  <2>2. hooks \in [Hooks -> HookRows]
    BY <2>1 DEF Init
  <2>3. posts \in [Deliveries -> 0..MaxRetries + 1]
    BY SizesAssumption DEF Init
  <2>4. sender \in [Senders -> {"select", "drain", "exit"}
                              \X {"wait", "post", "succeed", "fail"}]
    BY DEF Init
  <2>5. quit \in BOOLEAN /\ current \in Events \cup {None} /\ offering \in Jobs \cup {None}
    BY DEF Init
  <2>6. events \in Seq(Events) /\ Len(events) = 0 /\ jobs \in Seq(Jobs) /\ Len(jobs) = 0
    BY DEF Init
  <2>7. /\ emitter \in [Events -> {"idle", "check", "send", "queued", "dropped", "refused"}]
        /\ job \in [Senders -> Jobs \cup {None}]
    BY DEF Init
  <2>8. /\ dropped \in Nat /\ resolver \in {"select", "drain", "exit"}
        /\ fanout \subseteq Hooks /\ timed \subseteq Jobs /\ timers \subseteq Jobs
        /\ delivered \subseteq Deliveries /\ gaveUp \subseteq Deliveries
        /\ overflowed \subseteq Deliveries /\ discarded \subseteq Deliveries
        /\ down \in {"no", "waiting", "drained", "deadline"}
        /\ earlyJobs \subseteq Jobs /\ earlyEvents \subseteq Events
    BY DEF Init
  <2> QED
    BY <2>2, <2>3, <2>4, <2>5, <2>6, <2>7, <2>8, SizesAssumption DEF TypeOK
<1>2. /\ Waiting = {} /\ Queued = {} /\ ToResolve = {} /\ ToFanOut = {} /\ Offered = {}
      /\ InTimer = {} /\ Timed = {} /\ InQueue = {} /\ WithSender = {}
      /\ \A s \in Senders : ~Busy(s)
  <2>1. Waiting = {} /\ Queued = {} /\ \A s \in Senders : ~Busy(s)
    BY DEF Init, Waiting, Queued, Busy
  <2> QED
    BY <2>1 DEF Init, ToResolve, ToFanOut, Offered, InTimer, Timed, InQueue, WithSender
<1>3. OnePlaceInv
  <2>1. \A p \in 1..12 : p # 1 => Where[p] = {}
    BY <1>2 DEF Where, Init
  <2> QED
    BY <2>1 DEF OnePlaceInv
<1>4. QueueInv
  BY <1>2 DEF Init, QueueInv
<1>5. SenderInv
  BY <1>2 DEF Init, SenderInv
<1>6. PostInv
  BY <1>2 DEF Init, PostInv, Ready, ToSend
<1>7. SubscriberInv
  BY <1>2 DEF Init, SubscriberInv
<1>8. ShutdownInv
  BY DEF Init, ShutdownInv
<1>9. DeadLetterConsistent
  BY SizesAssumption DEF Init, DeadLetterConsistent
<1> QED
  BY <1>1, <1>3, <1>4, <1>5, <1>6, <1>7, <1>8, <1>9 DEF Inv

\* The rows the repository writes are rows; a success or a failure leaves a
\* row's tenant and subscription alone.
LEMMA RowFacts ==
    ASSUME TypeOK, NEW h \in Hooks
    PROVE  /\ RecordSuccess(h) \/ RecordFailure(h) \/ UNCHANGED hooks =>
                /\ hooks' \in [Hooks -> HookRows]
                /\ \A g \in Hooks : /\ hooks'[g].state = hooks[g].state
                                    /\ hooks'[g].tenant = hooks[g].tenant
                                    /\ hooks'[g].events = hooks[g].events
           /\ \A t \in Tenants : DeleteForTenant(h, t) =>
                /\ hooks' \in [Hooks -> HookRows]
                /\ \A g \in Hooks : /\ hooks'[g].tenant = hooks[g].tenant
                                    /\ hooks'[g].events = hooks[g].events
                                    /\ hooks[g].state # "absent" => hooks'[g].state # "absent"
           /\ \A t \in Tenants, body \in Bodies : Create(h, t, body) =>
                /\ hooks' \in [Hooks -> HookRows]
                /\ \A g \in Hooks : hooks[g].state # "absent" => hooks'[g] = hooks[g]
<1>1. hooks \in [Hooks -> HookRows] /\ hooks[h] \in HookRows
  BY DEF TypeOK
<1>2. ASSUME RecordSuccess(h), Present(h)
      PROVE  /\ hooks' \in [Hooks -> HookRows]
             /\ \A g \in Hooks : /\ hooks'[g].state = hooks[g].state
                                 /\ hooks'[g].tenant = hooks[g].tenant
                                 /\ hooks'[g].events = hooks[g].events
  <2>1. hooks' = [hooks EXCEPT ![h] = [hooks[h] EXCEPT !.failures = 0]]
    BY <1>2 DEF RecordSuccess
  <2>2. [hooks[h] EXCEPT !.failures = 0] \in HookRows
    BY <1>1 DEF HookRows
  <2>3. /\ [hooks[h] EXCEPT !.failures = 0].state = hooks[h].state
        /\ [hooks[h] EXCEPT !.failures = 0].tenant = hooks[h].tenant
        /\ [hooks[h] EXCEPT !.failures = 0].events = hooks[h].events
    BY <1>1 DEF HookRows
  <2> QED
    BY <1>1, <2>1, <2>2, <2>3
<1>3. ASSUME RecordFailure(h), Present(h)
      PROVE  /\ hooks' \in [Hooks -> HookRows]
             /\ \A g \in Hooks : /\ hooks'[g].state = hooks[g].state
                                 /\ hooks'[g].tenant = hooks[g].tenant
                                 /\ hooks'[g].events = hooks[g].events
  <2>1. hooks' = [hooks EXCEPT ![h] = AfterFailure(hooks[h])]
    BY <1>3 DEF RecordFailure
  <2>2. AfterFailure(hooks[h]) \in HookRows
    <3> DEFINE row == hooks[h]
               a == row.failures + 1 < DisableAfter
               b == row.disabled \/ row.failures + 1 >= DisableAfter
    <3>1. a \in BOOLEAN /\ b \in BOOLEAN
      BY <1>1, SizesAssumption DEF HookRows
    <3>2. row.failures + 1 \in Nat
      BY <1>1 DEF HookRows
    <3>3. AfterFailure(row) = [row EXCEPT !.failures = row.failures + 1,
                                          !.active = a, !.disabled = b]
      BY DEF AfterFailure
    <3> HIDE DEF a, b
    <3> QED
      BY <1>1, <3>1, <3>2, <3>3 DEF HookRows
  <2>3. /\ AfterFailure(hooks[h]).state = hooks[h].state
        /\ AfterFailure(hooks[h]).tenant = hooks[h].tenant
        /\ AfterFailure(hooks[h]).events = hooks[h].events
    BY <1>1 DEF HookRows, AfterFailure
  <2> QED
    BY <1>1, <2>1, <2>2, <2>3
<1>4. ASSUME NEW t \in Tenants, DeleteForTenant(h, t)
      PROVE  /\ hooks' \in [Hooks -> HookRows]
             /\ \A g \in Hooks : /\ hooks'[g].tenant = hooks[g].tenant
                                 /\ hooks'[g].events = hooks[g].events
                                 /\ hooks[g].state # "absent" => hooks'[g].state # "absent"
  <2>1. hooks' = [hooks EXCEPT ![h] = [hooks[h] EXCEPT !.state = "gone"]]
    BY <1>4 DEF DeleteForTenant
  <2>2. [hooks[h] EXCEPT !.state = "gone"] \in HookRows
    BY <1>1 DEF HookRows
  <2>3. /\ [hooks[h] EXCEPT !.state = "gone"].state = "gone"
        /\ [hooks[h] EXCEPT !.state = "gone"].tenant = hooks[h].tenant
        /\ [hooks[h] EXCEPT !.state = "gone"].events = hooks[h].events
    BY <1>1 DEF HookRows
  <2> QED
    BY <1>1, <2>1, <2>2, <2>3
<1>5. ASSUME NEW t \in Tenants, NEW body \in Bodies, Create(h, t, body)
      PROVE  /\ hooks' \in [Hooks -> HookRows]
             /\ \A g \in Hooks : hooks[g].state # "absent" => hooks'[g] = hooks[g]
  <2>1. dedupeEvents(body.events) \in SUBSET EventTypes
    BY <1>5 DEF Create, validateEvents, dedupeEvents
  <2>2. Inserted(t, dedupeEvents(body.events)) \in HookRows
    BY <2>1 DEF Inserted, HookRows
  <2> QED
    BY <1>1, <1>5, <2>2 DEF Create
<1>6. RecordSuccess(h) /\ ~Present(h) => hooks' = hooks
  BY DEF RecordSuccess
<1>7. RecordFailure(h) /\ ~Present(h) => hooks' = hooks
  BY DEF RecordFailure
<1> QED
  BY <1>1, <1>2, <1>3, <1>4, <1>5, <1>6, <1>7

\* Every handler keeps the types, the queues within their capacity and the POSTs
\* of a delivery within 1 + MaxRetries.
LEMMA TypeKept == Inv /\ [Next]_vars => TypeOK'
<1> SUFFICES ASSUME Inv, [Next]_vars PROVE TypeOK'
  OBVIOUS
<1>0. TypeOK /\ QueueInv /\ SenderInv /\ PostInv
  BY DEF Inv
<1>1. ASSUME NEW h \in Hooks, NEW t \in Tenants,
             DeleteForTenant(h, t) \/ \E body \in Bodies : Create(h, t, body)
      PROVE  TypeOK'
  <2>1. hooks' \in [Hooks -> HookRows]
    BY <1>0, <1>1, RowFacts
  <2> QED
    BY <1>0, <1>1, <2>1 DEF DeleteForTenant, Create, TypeOK, resolverVars, senderVars,
                            shutdownVars
<1>2. ASSUME NEW e \in Events, Emit(e) \/ DispatchCheck(e) PROVE TypeOK'
  BY <1>0, <1>2 DEF Emit, DispatchCheck, TypeOK, tableVars, resolverVars, senderVars,
                    shutdownVars
<1>3. ASSUME NEW e \in Events, DispatchSend(e) PROVE TypeOK'
  <2>1. events' \in Seq(Events) /\ Len(events') <= QueueSize
    <3>1. CASE Len(events) < QueueSize /\ events' = Append(events, e)
      BY <1>0, <3>1, Sent, SizesAssumption DEF TypeOK
    <3>2. CASE events' = events
      BY <1>0, <3>2 DEF TypeOK
    <3> QED
      BY <1>3, <3>1, <3>2 DEF DispatchSend
  <2>2. /\ emitter' \in [Events -> {"idle", "check", "send", "queued", "dropped", "refused"}]
        /\ dropped' \in Nat
    BY <1>0, <1>3 DEF DispatchSend, TypeOK
  <2> QED
    BY <1>0, <1>3, <2>1, <2>2 DEF DispatchSend, TypeOK, tableVars, resolverVars,
                                  senderVars, shutdownVars
<1>4. ASSUME ResolveEvent PROVE TypeOK'
  <2>1. Head(events) \in Events /\ Tail(events) \in Seq(Events) /\ Len(Tail(events)) <= QueueSize
    BY <1>0, <1>4, SizesAssumption DEF ResolveEvent, TypeOK
  <2>2. fanout' \subseteq Hooks
    BY <1>4 DEF ResolveEvent, ListActiveForEvent
  <2> QED
    BY <1>0, <1>4, <2>1, <2>2 DEF ResolveEvent, TypeOK, tableVars, senderVars,
                                  shutdownVars
<1>5. ASSUME NEW h \in Hooks, FanOut(h) PROVE TypeOK'
  <2>1. current \in Events /\ <<current, h>> \in Deliveries
    BY <1>0, <1>5 DEF FanOut, TypeOK, Deliveries
  <2>2. [event |-> current, hook |-> h, attempt |-> 0] \in Jobs
    BY <2>1, SizesAssumption DEF Jobs
  <2>3. discarded' \subseteq Deliveries /\ offering' \in Jobs \cup {None}
    BY <1>0, <1>5, <2>1, <2>2 DEF FanOut, TypeOK
  <2> QED
    BY <1>0, <1>5, <2>3 DEF FanOut, TypeOK, tableVars, senderVars, shutdownVars
<1>6. ASSUME NEW j \in Jobs, Offer(j)
      PROVE  /\ jobs' \in Seq(Jobs) /\ Len(jobs') <= QueueSize /\ dropped' \in Nat
             /\ overflowed' \subseteq Deliveries
  <2>1. CASE Len(jobs) < QueueSize /\ jobs' = Append(jobs, j) /\ UNCHANGED <<dropped, overflowed>>
    <3>1. jobs' \in Seq(Jobs) /\ Len(jobs') = Len(jobs) + 1
      BY <1>0, <2>1, Sent DEF TypeOK
    <3>2. Len(jobs') <= QueueSize
      BY <1>0, <2>1, <3>1, SizesAssumption DEF TypeOK
    <3> QED
      BY <1>0, <2>1, <3>1, <3>2 DEF TypeOK
  <2>2. CASE /\ dropped' = dropped + 1 /\ overflowed' = overflowed \cup {Of(j)}
             /\ UNCHANGED jobs
    BY <1>0, <2>2, JobFacts DEF TypeOK
  <2> QED
    BY <1>6, <2>1, <2>2 DEF Offer
<1>7. ASSUME OfferFanOut PROVE TypeOK'
  <2>1. offering \in Jobs /\ Offer(offering)
    BY <1>0, <1>7 DEF OfferFanOut, TypeOK
  <2> QED
    BY <1>0, <1>6, <1>7, <2>1 DEF OfferFanOut, TypeOK, tableVars, senderVars, shutdownVars
<1>8. ASSUME ResolveEnd \/ ResolveQuit PROVE TypeOK'
  BY <1>0, <1>8 DEF ResolveEnd, ResolveQuit, TypeOK, tableVars, senderVars, shutdownVars
<1>9. ASSUME NEW s \in Senders, ReceiveJob(s) PROVE TypeOK'
  <2>1. Head(jobs) \in Jobs /\ Tail(jobs) \in Seq(Jobs) /\ Len(Tail(jobs)) <= QueueSize
    BY <1>0, <1>9, SizesAssumption DEF ReceiveJob, TypeOK
  <2>2. sender' \in [Senders -> {"select", "drain", "exit"}
                                \X {"wait", "post", "succeed", "fail"}]
    BY <1>0, <1>9, StageFacts DEF ReceiveJob
  <2> QED
    BY <1>0, <1>9, <2>1, <2>2 DEF ReceiveJob, TypeOK, tableVars, resolverVars,
                                  shutdownVars
<1>10. ASSUME NEW s \in Senders, PostOk(s) \/ PostFails(s) PROVE TypeOK'
  <2>1. sender[s][2] = "post"
    BY <1>10 DEF PostOk, PostFails
  <2>2. job[s] \in Jobs /\ job[s] \in Ready
    BY <1>0, <2>1, BusyFacts DEF Ready
  <2>3. posts[Of(job[s])] = job[s].attempt
    BY <1>0, <2>2 DEF PostInv
  <2>4. posts' = [posts EXCEPT ![Of(job[s])] = @ + 1]
    BY <1>10 DEF PostOk, PostFails
  <2>5. posts[Of(job[s])] + 1 \in 0..MaxRetries + 1
    BY <2>2, <2>3, JobFacts, SizesAssumption
  <2>6. posts' \in [Deliveries -> 0..MaxRetries + 1]
    BY <1>0, <2>4, <2>5 DEF TypeOK
  <2>7. sender' \in [Senders -> {"select", "drain", "exit"}
                                \X {"wait", "post", "succeed", "fail"}]
    <3>1. Stage(s, "succeed") \/ Stage(s, "wait") \/ Stage(s, "fail")
      BY <1>10 DEF PostOk, PostFails
    <3> QED
      BY <1>0, <3>1, StageFacts
  <2>8. MayRetry(job[s]) => [job[s] EXCEPT !.attempt = @ + 1] \in Jobs
    BY <2>2, SizesAssumption DEF MayRetry, Jobs
  <2>9. timers' \subseteq Jobs /\ job' \in [Senders -> Jobs \cup {None}]
    <3>1. CASE /\ MayRetry(job[s]) /\ job' = [job EXCEPT ![s] = None]
               /\ timers' = timers \cup {[job[s] EXCEPT !.attempt = @ + 1]}
      BY <1>0, <2>8, <3>1 DEF TypeOK
    <3>2. CASE UNCHANGED <<timers, job>>
      BY <1>0, <3>2 DEF TypeOK
    <3> QED
      BY <1>10, <3>1, <3>2 DEF PostOk, PostFails
  <2>10. UNCHANGED <<emitter, events, dropped, hooks, resolver, current, fanout, offering,
                     timed, jobs, delivered, gaveUp, overflowed, discarded, quit, down,
                     earlyJobs, earlyEvents>>
    BY <1>10 DEF PostOk, PostFails, tableVars, resolverVars, shutdownVars
  <2> QED
    BY <1>0, <2>6, <2>7, <2>9, <2>10 DEF TypeOK
<1>11. ASSUME NEW s \in Senders, Bookkeep(s) PROVE TypeOK'
  <2>1. job[s] \in Jobs
    BY <1>0, <1>11, BusyFacts DEF Bookkeep
  <2>2. hooks' \in [Hooks -> HookRows]
    BY <1>0, <1>11, <2>1, RowFacts, JobFacts DEF Bookkeep
  <2>3. delivered' \subseteq Deliveries /\ gaveUp' \subseteq Deliveries
    BY <1>0, <1>11, <2>1, JobFacts DEF Bookkeep, TypeOK
  <2>4. sender' \in [Senders -> {"select", "drain", "exit"}
                                \X {"wait", "post", "succeed", "fail"}]
    BY <1>0, <1>11, StageFacts DEF Bookkeep
  <2> QED
    BY <1>0, <1>11, <2>2, <2>3, <2>4 DEF Bookkeep, TypeOK, resolverVars, shutdownVars
<1>12. ASSUME NEW s \in Senders, SendQuit(s) PROVE TypeOK'
  <2>1. sender' \in [Senders -> {"select", "drain", "exit"}
                                \X {"wait", "post", "succeed", "fail"}]
    BY <1>0, <1>12, LoopFacts DEF SendQuit
  <2> QED
    BY <1>0, <1>12, <2>1 DEF SendQuit, TypeOK, tableVars, resolverVars, shutdownVars
<1>13. ASSUME NEW j \in Jobs, TimerFires(j) PROVE TypeOK'
  <2>1. /\ timers' \subseteq Jobs /\ timed' \subseteq Jobs /\ discarded' \subseteq Deliveries
    BY <1>0, <1>13, JobFacts DEF TimerFires, TypeOK
  <2> QED
    BY <1>0, <1>13, <2>1 DEF TimerFires, TypeOK, tableVars, resolverVars, senderVars,
                             shutdownVars
<1>14. ASSUME NEW j \in Jobs, OfferTimed(j) PROVE TypeOK'
  BY <1>0, <1>6, <1>14 DEF OfferTimed, TypeOK, tableVars, resolverVars, senderVars,
                           shutdownVars
<1>15. ASSUME CloseQuit PROVE TypeOK'
  <2>1. {jobs[n] : n \in DOMAIN jobs} \subseteq Jobs
        /\ {events[n] : n \in DOMAIN events} \subseteq Events
    BY <1>0 DEF TypeOK
  <2>2. {job[s] : s \in {r \in Senders : sender[r][2] = "post"}} \subseteq Jobs
    BY <1>0, BusyFacts
  <2> QED
    BY <1>0, <1>15, <2>1, <2>2 DEF CloseQuit, TypeOK, tableVars, resolverVars, senderVars
<1>16. ASSUME Drained \/ DeadlineExceeded PROVE TypeOK'
  BY <1>0, <1>16 DEF Drained, DeadlineExceeded, TypeOK, tableVars, resolverVars, senderVars
<1>17. ASSUME UNCHANGED vars PROVE TypeOK'
  BY <1>0, <1>17 DEF vars, TypeOK
<1> QED
  BY <1>1, <1>2, <1>3, <1>4, <1>5, <1>7, <1>8, <1>9, <1>10, <1>11, <1>12, <1>13, <1>14,
     <1>15, <1>16, <1>17 DEF Next, EmitterStep, ResolverStep, SenderStep, TimerStep

-----------------------------------------------------------------------------
(* Where each handler moves a delivery.                                     *)

\* The variables that no POST, timer, channel or dispatch call is about.
LEMMA StillPlaces ==
    ASSUME OnePlaceInv, ToSend' \subseteq ToSend, ToFanOut' \subseteq ToFanOut,
           UNCHANGED <<events, offering, timers, timed, jobs, job, delivered, gaveUp,
                       overflowed, discarded>>
    PROVE  OnePlaceInv'
<1>1. \A p \in 1..12 : Where'[p] \subseteq Where[p]
  BY SamePlace DEF Where
<1> QED
  BY <1>1 DEF OnePlaceInv

\* Dispatch hands the event, with all its deliveries, to the events channel, or
\* drops it.
LEMMA SendMoves ==
    ASSUME Inv, NEW e \in Events, DispatchSend(e)
    PROVE  /\ OnePlaceInv'
           /\ ToSend' = {d \in ToSend : d[1] # e}
           /\ ToResolve' \subseteq ToResolve \cup {d \in ToSend : d[1] = e}
           /\ Waiting' \in {Waiting, Waiting \cup {e}}
<1> DEFINE X == {d \in Deliveries : d[1] = e}
<1>0. TypeOK /\ OnePlaceInv /\ QueueInv /\ emitter[e] = "send"
  BY DEF Inv, DispatchSend
<1>1. UNCHANGED <<current, fanout, offering, timers, timed, jobs, job, delivered, gaveUp,
                  overflowed, discarded>>
  BY DEF DispatchSend, resolverVars, senderVars
<1>2. ToSend' = ToSend \ X /\ X \subseteq ToSend
  <2>1. emitter'[e] \in {"queued", "dropped"} /\ \A f \in Events : f # e => emitter'[f] = emitter[f]
    BY <1>0 DEF DispatchSend, TypeOK
  <2>2. \A d \in Deliveries : d[1] \in Events
    BY DEF Deliveries
  <2> QED
    BY <1>0, <2>1, <2>2 DEF ToSend
<1>3. Waiting' \in {Waiting, Waiting \cup {e}}
  <2>1. CASE events' = Append(events, e)
    <3>1. events \in Seq(Events)
      BY <1>0 DEF TypeOK
    <3>2. Waiting' = Waiting \cup {e}
      BY <2>1, <3>1, Sent DEF Waiting
    <3> QED
      BY <3>2
  <2>2. CASE events' = events
    BY <2>2 DEF Waiting
  <2> QED
    BY <2>1, <2>2 DEF DispatchSend
<1>4. ToResolve' \subseteq ToResolve \cup X
  BY <1>3 DEF ToResolve
<1> HIDE DEF X
<1>5. OnePlaceInv'
  <2>1. Where'[1] \subseteq Where[1] /\ Where'[2] \subseteq Where[2] \cup (Where[1] \ Where'[1])
    BY <1>2, <1>4 DEF Where
  <2>2. \A p \in 1..12 : p # 1 /\ p # 2 => Where'[p] \subseteq Where[p]
    BY <1>1, SamePlace DEF Where
  <2>3. 1 \in 1..12 /\ 2 \in 1..12 /\ 1 # 2
    OBVIOUS
  <2> QED
    BY <1>0, <2>1, <2>2, <2>3, Moves
<1> QED
  BY <1>2, <1>3, <1>4, <1>5 DEF X, ToSend

\* The resolver takes one event out of the channel; what it fans out are the
\* deliveries to the subscribers it looked up.
LEMMA ResolveMoves ==
    ASSUME Inv, ResolveEvent
    PROVE  /\ OnePlaceInv'
           /\ Head(events) \in Waiting /\ Waiting' = Waiting \ {Head(events)}
           /\ ToResolve' \subseteq ToResolve
           /\ ToFanOut' \subseteq ToResolve
           /\ \A d \in ToFanOut' : Subscribed(d)
<1> DEFINE e == Head(events)
           X == {d \in Deliveries : d[1] = e}
<1>0. TypeOK /\ OnePlaceInv /\ QueueInv
  BY DEF Inv
<1>1. /\ UNCHANGED <<emitter, offering, timers, timed, jobs, job, delivered, gaveUp,
                     overflowed, discarded>>
      /\ events # <<>> /\ current' = e /\ events' = Tail(events)
      /\ fanout' \subseteq ListActiveForEvent(e)
  BY DEF ResolveEvent, senderVars
<1>2. e \in Waiting /\ Waiting' = Waiting \ {e}
  <2>1. events \in Seq(Events) /\ \A m, n \in DOMAIN events : events[m] = events[n] => m = n
    BY <1>0 DEF TypeOK, QueueInv
  <2>2. /\ Head(events) \in {events[n] : n \in DOMAIN events}
        /\ {Tail(events)[n] : n \in DOMAIN Tail(events)}
             = {events[n] : n \in DOMAIN events} \ {Head(events)}
    BY <1>1, <2>1, Received
  <2> QED
    BY <1>1, <2>2 DEF Waiting
<1>3. X \subseteq ToResolve /\ ToResolve' = ToResolve \ X
  BY <1>2 DEF ToResolve
<1>4. ToFanOut' \subseteq X
  BY <1>1 DEF ToFanOut
<1>5. \A d \in ToFanOut' : Subscribed(d)
  BY <1>1 DEF ToFanOut, Subscribed, ListActiveForEvent, Present
<1> HIDE DEF X
<1>6. OnePlaceInv'
  <2>1. Where'[2] \subseteq Where[2] /\ Where'[3] \subseteq Where[3] \cup (Where[2] \ Where'[2])
    BY <1>3, <1>4 DEF Where
  <2>2. \A p \in 1..12 : p # 2 /\ p # 3 => Where'[p] \subseteq Where[p]
    BY <1>1, SamePlace DEF Where
  <2>3. 2 \in 1..12 /\ 3 \in 1..12 /\ 2 # 3
    OBVIOUS
  <2> QED
    BY <1>0, <2>1, <2>2, <2>3, Moves
<1> QED
  BY <1>2, <1>3, <1>4, <1>5, <1>6

\* The resolver takes one subscriber and makes its job, or lets it go once quit
\* is closed.
LEMMA FanOutMoves ==
    ASSUME Inv, NEW h \in Hooks, FanOut(h)
    PROVE  /\ OnePlaceInv'
           /\ <<current, h>> \in ToFanOut /\ ToFanOut' \subseteq ToFanOut
           /\ \/ offering' = None
              \/ offering' \in Jobs /\ Of(offering') = <<current, h>> /\ offering'.attempt = 0
<1> DEFINE d == <<current, h>>
           j == [event |-> current, hook |-> h, attempt |-> 0]
<1>0. TypeOK /\ OnePlaceInv /\ QueueInv
  BY DEF Inv
<1>1. /\ UNCHANGED <<emitter, events, current, timers, timed, jobs, job, delivered, gaveUp,
                     overflowed>>
      /\ current # None /\ offering = None /\ h \in fanout /\ fanout' = fanout \ {h}
  BY DEF FanOut, senderVars
<1>2. d \in Deliveries /\ d[1] = current /\ d[2] = h /\ j \in Jobs /\ Of(j) = d /\ j.attempt = 0
  <2>1. current \in Events
    BY <1>0, <1>1 DEF TypeOK
  <2> QED
    BY <2>1, SizesAssumption DEF Deliveries, Jobs, Of
<1>3. d \in ToFanOut /\ ToFanOut' \subseteq ToFanOut \ {d}
  BY <1>1, <1>2 DEF ToFanOut
<1>4. \/ offering' = None /\ discarded' = discarded \cup {d}
      \/ offering' = j /\ discarded' = discarded
  BY <1>1 DEF FanOut
<1> HIDE DEF d, j
<1>5. OnePlaceInv'
  <2>1. Where'[3] \subseteq Where[3] /\ d \in Where[3] \ Where'[3]
    BY <1>3 DEF Where
  <2>2. ASSUME offering' = None, discarded' = discarded \cup {d} PROVE OnePlaceInv'
    <3>1. Where'[12] \subseteq Where[12] \cup {d}
      BY <2>2 DEF Where
    <3>2. \A p \in 1..12 : p # 3 /\ p # 12 => Where'[p] \subseteq Where[p]
      BY <1>1, <2>2, SamePlace DEF Where
    <3>3. 3 \in 1..12 /\ 12 \in 1..12 /\ 3 # 12
      OBVIOUS
    <3> QED
      BY <1>0, <2>1, <3>1, <3>2, <3>3, Moves
  <2>3. ASSUME offering' = j, discarded' = discarded PROVE OnePlaceInv'
    <3>1. Offered' \subseteq {d}
      BY <1>2, <2>3 DEF Offered
    <3>2. Where'[4] \subseteq Where[4] \cup {d}
      BY <3>1 DEF Where
    <3>3. \A p \in 1..12 : p # 3 /\ p # 4 => Where'[p] \subseteq Where[p]
      BY <1>1, <2>3, SamePlace DEF Where
    <3>4. 3 \in 1..12 /\ 4 \in 1..12 /\ 3 # 4
      OBVIOUS
    <3> QED
      BY <1>0, <2>1, <3>2, <3>3, <3>4, Moves
  <2> QED
    BY <1>4, <2>2, <2>3
<1> QED
  BY <1>2, <1>3, <1>4, <1>5 DEF d

\* enqueueJob puts a job into the jobs channel, or drops it.
LEMMA OfferPuts ==
    ASSUME Inv, NEW j \in Jobs, Offer(j), Of(j) \notin InQueue
    PROVE  /\ \A m, n \in DOMAIN jobs' : jobs'[m] = jobs'[n] => m = n
           /\ \/ /\ Queued' = Queued \cup {j} /\ InQueue' = InQueue \cup {Of(j)}
                 /\ overflowed' = overflowed
              \/ /\ Queued' = Queued /\ InQueue' = InQueue
                 /\ overflowed' = overflowed \cup {Of(j)}
<1>1. jobs \in Seq(Jobs) /\ \A m, n \in DOMAIN jobs : jobs[m] = jobs[n] => m = n
  BY DEF Inv, TypeOK, QueueInv
<1>2. j \notin Queued /\ Of(j) \in Deliveries
  BY JobFacts DEF InQueue
<1>3. CASE jobs' = Append(jobs, j) /\ overflowed' = overflowed
  <2>1. Queued' = Queued \cup {j}
    BY <1>1, <1>3, Sent DEF Queued
  <2>2. InQueue' = InQueue \cup {Of(j)}
    BY <1>2, <2>1 DEF InQueue
  <2>3. \A m, n \in DOMAIN jobs' : jobs'[m] = jobs'[n] => m = n
    BY <1>1, <1>2, <1>3, Sent DEF Queued
  <2> QED
    BY <1>3, <2>1, <2>2, <2>3
<1>4. CASE jobs' = jobs /\ overflowed' = overflowed \cup {Of(j)}
  BY <1>1, <1>4, SamePlace
<1> QED
  BY <1>3, <1>4 DEF Offer

\* A retry may overtake nothing: its delivery is in no other place.
LEMMA Apart ==
    ASSUME OnePlaceInv
    PROVE  /\ \A d \in Offered : /\ d \notin InQueue /\ d \notin WithSender /\ d \notin InTimer
                                 /\ d \notin Timed
                                 /\ d \notin overflowed /\ d \notin discarded
           /\ \A d \in Timed : /\ d \notin InQueue /\ d \notin WithSender /\ d \notin InTimer
                               /\ d \notin overflowed /\ d \notin discarded
           /\ \A d \in InTimer : /\ d \notin InQueue /\ d \notin WithSender
                                 /\ d \notin overflowed /\ d \notin discarded
           /\ \A d \in InQueue : /\ d \notin WithSender
                                 /\ d \notin overflowed /\ d \notin discarded
           /\ \A d \in WithSender : /\ d \notin overflowed /\ d \notin discarded
                                    /\ d \notin ToSend /\ d \notin ToResolve /\ d \notin ToFanOut
                                    /\ d \notin Offered
           /\ \A d \in ToFanOut : /\ d \notin InQueue /\ d \notin WithSender
                                  /\ d \notin overflowed /\ d \notin discarded
<1>1. \A p \in 1..12, q \in 1..12 : p # q => Where[p] \cap Where[q] = {}
  BY DEF OnePlaceInv
<1>2. /\ Where[4] \cap Where[7] = {} /\ Where[4] \cap Where[8] = {}
      /\ Where[4] \cap Where[5] = {} /\ Where[4] \cap Where[6] = {}
      /\ Where[4] \cap Where[11] = {} /\ Where[4] \cap Where[12] = {}
  BY <1>1
<1>3. /\ Where[6] \cap Where[7] = {} /\ Where[6] \cap Where[8] = {}
      /\ Where[6] \cap Where[5] = {}
      /\ Where[6] \cap Where[11] = {} /\ Where[6] \cap Where[12] = {}
  BY <1>1
<1>4. /\ Where[5] \cap Where[7] = {} /\ Where[5] \cap Where[8] = {}
      /\ Where[5] \cap Where[11] = {} /\ Where[5] \cap Where[12] = {}
  BY <1>1
<1>5. /\ Where[7] \cap Where[8] = {} /\ Where[7] \cap Where[11] = {}
      /\ Where[7] \cap Where[12] = {}
  BY <1>1
<1>6. /\ Where[8] \cap Where[1] = {} /\ Where[8] \cap Where[2] = {}
      /\ Where[8] \cap Where[3] = {} /\ Where[8] \cap Where[4] = {}
      /\ Where[8] \cap Where[11] = {} /\ Where[8] \cap Where[12] = {}
  BY <1>1
<1>7. /\ Where[3] \cap Where[7] = {} /\ Where[3] \cap Where[8] = {}
      /\ Where[3] \cap Where[11] = {} /\ Where[3] \cap Where[12] = {}
  BY <1>1
<1>8. /\ Where[1] = ToSend /\ Where[2] = ToResolve /\ Where[3] = ToFanOut
      /\ Where[4] = Offered /\ Where[5] = InTimer /\ Where[6] = Timed
      /\ Where[7] = InQueue /\ Where[8] = WithSender
      /\ Where[11] = overflowed /\ Where[12] = discarded
  BY DEF Where
<1> QED
  BY <1>2, <1>3, <1>4, <1>5, <1>6, <1>7, <1>8

\* The job that enqueueJob holds for the resolver goes to the channel, or is
\* dropped.
LEMMA OfferFanOutMoves ==
    ASSUME Inv, OfferFanOut
    PROVE  /\ OnePlaceInv'
           /\ offering \in Jobs /\ Of(offering) \in Offered /\ Of(offering) \notin InQueue
           /\ Offer(offering) /\ Offered' = {}
<1> DEFINE d == Of(offering)
<1>0. TypeOK /\ OnePlaceInv /\ offering # None /\ Offer(offering) /\ offering' = None
  BY DEF Inv, OfferFanOut
<1>1. UNCHANGED <<emitter, events, current, fanout, timers, timed, job, delivered, gaveUp,
                  discarded>>
  BY DEF OfferFanOut, senderVars
<1>2. offering \in Jobs /\ d \in Deliveries
  BY <1>0, JobFacts DEF TypeOK
<1>3. d \in Offered /\ Offered' = {}
  BY <1>0, <1>2 DEF Offered
<1>4. d \notin InQueue
  BY <1>0, <1>3, Apart
<1>5. \/ InQueue' = InQueue \cup {d} /\ overflowed' = overflowed
      \/ InQueue' = InQueue /\ overflowed' = overflowed \cup {d}
  BY <1>0, <1>2, <1>4, OfferPuts
<1> HIDE DEF d
<1>6. Where'[4] \subseteq Where[4] /\ d \in Where[4] \ Where'[4]
  BY <1>3 DEF Where
<1>7. ASSUME InQueue' = InQueue \cup {d}, overflowed' = overflowed PROVE OnePlaceInv'
  <2>1. Where'[7] \subseteq Where[7] \cup {d}
    BY <1>7 DEF Where
  <2>2. \A p \in 1..12 : p # 4 /\ p # 7 => Where'[p] \subseteq Where[p]
    BY <1>1, <1>7, SamePlace DEF Where
  <2>3. 4 \in 1..12 /\ 7 \in 1..12 /\ 4 # 7
    OBVIOUS
  <2> QED
    BY <1>0, <1>6, <2>1, <2>2, <2>3, Moves
<1>8. ASSUME InQueue' = InQueue, overflowed' = overflowed \cup {d} PROVE OnePlaceInv'
  <2>1. Where'[11] \subseteq Where[11] \cup {d}
    BY <1>8 DEF Where
  <2>2. \A p \in 1..12 : p # 4 /\ p # 11 => Where'[p] \subseteq Where[p]
    BY <1>1, <1>8, SamePlace DEF Where
  <2>3. 4 \in 1..12 /\ 11 \in 1..12 /\ 4 # 11
    OBVIOUS
  <2> QED
    BY <1>0, <1>6, <2>1, <2>2, <2>3, Moves
<1> QED
  BY <1>0, <1>2, <1>3, <1>4, <1>5, <1>7, <1>8 DEF d

\* Two jobs of the same delivery that are still to be posted are the same job.
LEMMA ReadyOnce ==
    ASSUME Inv, NEW i \in Ready, NEW j \in Ready, Of(i) = Of(j)
    PROVE  i = j
<1>1. posts[Of(i)] = i.attempt /\ posts[Of(j)] = j.attempt
  BY DEF Inv, PostInv
<1>2. i \in Jobs /\ j \in Jobs
  BY DEF Ready
<1> QED
  BY <1>1, <1>2, JobFacts

\* A timer goroutine's job goes to the channel, or is dropped.
LEMMA OfferTimedMoves ==
    ASSUME Inv, NEW j \in Jobs, OfferTimed(j)
    PROVE  /\ OnePlaceInv'
           /\ Of(j) \in Timed /\ Of(j) \notin InQueue
           /\ Offer(j) /\ Timed' = Timed \ {Of(j)}
<1> DEFINE d == Of(j)
<1>0. TypeOK /\ OnePlaceInv /\ j \in timed /\ Offer(j) /\ timed' = timed \ {j}
  BY DEF Inv, OfferTimed
<1>1. UNCHANGED <<emitter, events, current, fanout, offering, timers, job, delivered, gaveUp,
                  discarded>>
  BY DEF OfferTimed, senderVars, resolverVars
<1>2. d \in Deliveries /\ timed \subseteq Ready
  BY <1>0, JobFacts DEF TypeOK, Ready
<1>3. d \in Timed /\ Timed' = Timed \ {d}
  BY <1>0, <1>2, ReadyOnce DEF Timed
<1>4. d \notin InQueue
  BY <1>0, <1>3, Apart
<1>5. \/ InQueue' = InQueue \cup {d} /\ overflowed' = overflowed
      \/ InQueue' = InQueue /\ overflowed' = overflowed \cup {d}
  BY <1>0, <1>4, OfferPuts
<1> HIDE DEF d
<1>6. Where'[6] \subseteq Where[6] /\ d \in Where[6] \ Where'[6]
  BY <1>3 DEF Where
<1>7. ASSUME InQueue' = InQueue \cup {d}, overflowed' = overflowed PROVE OnePlaceInv'
  <2>1. Where'[7] \subseteq Where[7] \cup {d}
    BY <1>7 DEF Where
  <2>2. \A p \in 1..12 : p # 6 /\ p # 7 => Where'[p] \subseteq Where[p]
    BY <1>1, <1>7, SamePlace DEF Where
  <2>3. 6 \in 1..12 /\ 7 \in 1..12 /\ 6 # 7
    OBVIOUS
  <2> QED
    BY <1>0, <1>6, <2>1, <2>2, <2>3, Moves
<1>8. ASSUME InQueue' = InQueue, overflowed' = overflowed \cup {d} PROVE OnePlaceInv'
  <2>1. Where'[11] \subseteq Where[11] \cup {d}
    BY <1>8 DEF Where
  <2>2. \A p \in 1..12 : p # 6 /\ p # 11 => Where'[p] \subseteq Where[p]
    BY <1>1, <1>8, SamePlace DEF Where
  <2>3. 6 \in 1..12 /\ 11 \in 1..12 /\ 6 # 11
    OBVIOUS
  <2> QED
    BY <1>0, <1>6, <2>1, <2>2, <2>3, Moves
<1> QED
  BY <1>0, <1>3, <1>4, <1>5, <1>7, <1>8 DEF d

\* A timer that fires hands its job to a goroutine of its own, or lets it go
\* once quit is closed.
LEMMA TimerMoves ==
    ASSUME Inv, NEW j \in Jobs, TimerFires(j)
    PROVE  OnePlaceInv' /\ Of(j) \in InTimer /\ Timed' \subseteq Timed \cup {Of(j)}
<1> DEFINE d == Of(j)
<1>0. TypeOK /\ OnePlaceInv /\ j \in timers /\ timers' = timers \ {j}
  BY DEF Inv, TimerFires
<1>1. UNCHANGED <<emitter, events, current, fanout, offering, jobs, job, delivered, gaveUp,
                  overflowed>>
  BY DEF TimerFires, senderVars, resolverVars
<1>2. d \in Deliveries /\ timers \subseteq Ready
  BY <1>0, JobFacts DEF TypeOK, Ready
<1>3. d \in InTimer /\ InTimer' = InTimer \ {d}
  BY <1>0, <1>2, ReadyOnce DEF InTimer
<1>4. \/ timed' = timed \cup {j} /\ discarded' = discarded
      \/ timed' = timed /\ discarded' = discarded \cup {d}
  BY DEF TimerFires
<1>5. timed' = timed \cup {j} => Timed' \subseteq Timed \cup {d}
  BY DEF Timed
<1> HIDE DEF d
<1>6. Where'[5] \subseteq Where[5] /\ d \in Where[5] \ Where'[5]
  BY <1>3 DEF Where
<1>7. ASSUME timed' = timed \cup {j}, discarded' = discarded PROVE OnePlaceInv'
  <2>1. Where'[6] \subseteq Where[6] \cup {d}
    BY <1>5, <1>7 DEF Where
  <2>2. \A p \in 1..12 : p # 5 /\ p # 6 => Where'[p] \subseteq Where[p]
    BY <1>1, <1>7, SamePlace DEF Where
  <2>3. 5 \in 1..12 /\ 6 \in 1..12 /\ 5 # 6
    OBVIOUS
  <2> QED
    BY <1>0, <1>6, <2>1, <2>2, <2>3, Moves
<1>8. ASSUME timed' = timed, discarded' = discarded \cup {d} PROVE OnePlaceInv'
  <2>1. Where'[12] \subseteq Where[12] \cup {d}
    BY <1>8 DEF Where
  <2>2. \A p \in 1..12 : p # 5 /\ p # 12 => Where'[p] \subseteq Where[p]
    BY <1>1, <1>8, SamePlace DEF Where
  <2>3. 5 \in 1..12 /\ 12 \in 1..12 /\ 5 # 12
    OBVIOUS
  <2> QED
    BY <1>0, <1>6, <2>1, <2>2, <2>3, Moves
<1> QED
  BY <1>3, <1>4, <1>5, <1>7, <1>8, SamePlace DEF d

\* A sender takes the first job out of the channel.
LEMMA ReceiveMoves ==
    ASSUME Inv, NEW s \in Senders, ReceiveJob(s)
    PROVE  /\ OnePlaceInv'
           /\ Head(jobs) \in Queued /\ Head(jobs) \in Jobs /\ Of(Head(jobs)) \in InQueue
           /\ Queued' = Queued \ {Head(jobs)} /\ InQueue' \subseteq InQueue
           /\ WithSender' \subseteq WithSender \cup {Of(Head(jobs))}
           /\ \A m, n \in DOMAIN jobs' : jobs'[m] = jobs'[n] => m = n
<1> DEFINE j == Head(jobs)
           d == Of(j)
<1>0. TypeOK /\ OnePlaceInv /\ QueueInv /\ SenderInv
  BY DEF Inv
<1>1. /\ UNCHANGED <<emitter, events, current, fanout, offering, timers, timed, delivered,
                     gaveUp, overflowed, discarded>>
      /\ jobs # <<>> /\ jobs' = Tail(jobs) /\ job' = [job EXCEPT ![s] = j]
  BY DEF ReceiveJob, resolverVars
<1>2. jobs \in Seq(Jobs) /\ \A m, n \in DOMAIN jobs : jobs[m] = jobs[n] => m = n
  BY <1>0 DEF TypeOK, QueueInv
<1>3. /\ j \in Jobs /\ j \in {jobs[n] : n \in DOMAIN jobs}
      /\ {Tail(jobs)[n] : n \in DOMAIN Tail(jobs)} = {jobs[n] : n \in DOMAIN jobs} \ {j}
      /\ \A m, n \in DOMAIN jobs' : jobs'[m] = jobs'[n] => m = n
  BY <1>1, <1>2, Received
<1>4. j \in Queued /\ Queued' = Queued \ {j} /\ d \in Deliveries
  <2>1. j \in Queued /\ Queued' = Queued \ {j}
    BY <1>1, <1>3 DEF Queued
  <2>2. d \in Deliveries
    BY <1>3, JobFacts
  <2> QED
    BY <2>1, <2>2
<1>5. d \in InQueue /\ InQueue' = InQueue \ {d}
  <2>1. Queued \subseteq Ready
    BY <1>2 DEF Queued, Ready
  <2> QED
    BY <1>4, <2>1, ReadyOnce DEF InQueue
<1>6. WithSender' \subseteq WithSender \cup {d}
  <2>1. \A r \in Senders : job'[r] = IF r = s THEN j ELSE job[r]
    BY <1>0, <1>1 DEF TypeOK
  <2> QED
    BY <2>1 DEF WithSender, Busy
<1> HIDE DEF d, j
<1>7. OnePlaceInv'
  <2>1. Where'[7] \subseteq Where[7] /\ d \in Where[7] \ Where'[7]
    BY <1>5 DEF Where
  <2>2. Where'[8] \subseteq Where[8] \cup {d}
    BY <1>6 DEF Where
  <2>3. \A p \in 1..12 : p # 7 /\ p # 8 => Where'[p] \subseteq Where[p]
    BY <1>1, SamePlace DEF Where
  <2>4. 7 \in 1..12 /\ 8 \in 1..12 /\ 7 # 8
    OBVIOUS
  <2> QED
    BY <1>0, <2>1, <2>2, <2>3, <2>4, Moves
<1> QED
  BY <1>3, <1>4, <1>5, <1>6, <1>7 DEF d, j

\* A sender that is done with its job holds nothing.
LEMMA SenderLets ==
    ASSUME Inv, NEW s \in Senders, Busy(s), job' = [job EXCEPT ![s] = None]
    PROVE  /\ job[s] \in Jobs /\ Of(job[s]) \in WithSender
           /\ WithSender' = WithSender \ {Of(job[s])}
           /\ ~Busy(s)' /\ \A r \in Senders : r # s => job'[r] = job[r]
<1>0. TypeOK /\ SenderInv
  BY DEF Inv
<1>1. job[s] \in Jobs
  BY <1>0 DEF TypeOK, Busy
<1>2. Of(job[s]) \in WithSender
  BY <1>1, JobFacts DEF WithSender
<1>3. job'[s] = None /\ \A r \in Senders : r # s => job'[r] = job[r]
  BY <1>0 DEF TypeOK
<1>4. \A r \in Senders : r # s /\ Busy(r) => Of(job[r]) # Of(job[s])
  BY <1>0 DEF SenderInv
<1>5. WithSender' = WithSender \ {Of(job[s])}
  BY <1>3, <1>4 DEF WithSender, Busy
<1> QED
  BY <1>1, <1>2, <1>3, <1>5 DEF Busy

\* A failed POST that may be retried arms a timer with the next attempt.
LEMMA RetryMoves ==
    ASSUME Inv, NEW s \in Senders, PostFails(s), MayRetry(job[s])
    PROVE  LET r == [job[s] EXCEPT !.attempt = @ + 1] IN
           /\ OnePlaceInv'
           /\ Busy(s) /\ job[s] \in Jobs /\ Of(job[s]) \in WithSender
           /\ r \in Jobs /\ Of(r) = Of(job[s]) /\ r.attempt = job[s].attempt + 1
           /\ timers' = timers \cup {r} /\ job' = [job EXCEPT ![s] = None]
           /\ InTimer' \subseteq InTimer \cup {Of(job[s])}
<1> DEFINE r == [job[s] EXCEPT !.attempt = @ + 1]
           d == Of(job[s])
<1>0. TypeOK /\ OnePlaceInv /\ SenderInv
  BY DEF Inv
<1>1. /\ UNCHANGED <<emitter, events, current, fanout, offering, timed, jobs, delivered,
                     gaveUp, overflowed, discarded>>
      /\ timers' = timers \cup {r} /\ job' = [job EXCEPT ![s] = None]
      /\ sender[s][2] = "post"
  BY DEF PostFails, resolverVars
<1>2. Busy(s) /\ job[s] \in Jobs /\ d \in WithSender /\ WithSender' = WithSender \ {d}
  BY <1>0, <1>1, BusyFacts, SenderLets
<1>3. r \in Jobs /\ r.event = job[s].event /\ r.hook = job[s].hook
      /\ r.attempt = job[s].attempt + 1
  BY <1>2, SizesAssumption DEF MayRetry, Jobs
<1>4. Of(r) = d
  BY <1>3 DEF Of
<1>5. InTimer' \subseteq InTimer \cup {d}
  BY <1>1, <1>4 DEF InTimer
<1> HIDE DEF d, r
<1>6. OnePlaceInv'
  <2>1. Where'[8] \subseteq Where[8] /\ d \in Where[8] \ Where'[8]
    BY <1>2 DEF Where
  <2>2. Where'[5] \subseteq Where[5] \cup {d}
    BY <1>5 DEF Where
  <2>3. \A p \in 1..12 : p # 8 /\ p # 5 => Where'[p] \subseteq Where[p]
    BY <1>1, SamePlace DEF Where
  <2>4. 8 \in 1..12 /\ 5 \in 1..12 /\ 8 # 5
    OBVIOUS
  <2> QED
    BY <1>0, <2>1, <2>2, <2>3, <2>4, Moves
<1> QED
  BY <1>1, <1>2, <1>3, <1>4, <1>5, <1>6 DEF d, r

\* Bookkeeping settles the sender's delivery.
LEMMA BookkeepMoves ==
    ASSUME Inv, NEW s \in Senders, Bookkeep(s)
    PROVE  /\ OnePlaceInv' /\ Busy(s) /\ job[s] \in Jobs
           /\ job' = [job EXCEPT ![s] = None]
<1> DEFINE d == Of(job[s])
<1>0. TypeOK /\ OnePlaceInv /\ SenderInv
  BY DEF Inv
<1>1. /\ UNCHANGED <<emitter, events, current, fanout, offering, timers, timed, jobs,
                     overflowed, discarded>>
      /\ job' = [job EXCEPT ![s] = None] /\ sender[s][2] \in {"succeed", "fail"}
      /\ \/ delivered' = delivered \cup {d} /\ gaveUp' = gaveUp
         \/ delivered' = delivered /\ gaveUp' = gaveUp \cup {d}
  BY DEF Bookkeep, resolverVars
<1>2. Busy(s) /\ job[s] \in Jobs /\ d \in WithSender /\ WithSender' = WithSender \ {d}
  BY <1>0, <1>1, BusyFacts, SenderLets
<1> HIDE DEF d
<1>3. Where'[8] \subseteq Where[8] /\ d \in Where[8] \ Where'[8]
  BY <1>2 DEF Where
<1>4. ASSUME delivered' = delivered \cup {d}, gaveUp' = gaveUp PROVE OnePlaceInv'
  <2>1. Where'[9] \subseteq Where[9] \cup {d}
    BY <1>4 DEF Where
  <2>2. \A p \in 1..12 : p # 8 /\ p # 9 => Where'[p] \subseteq Where[p]
    BY <1>1, <1>4, SamePlace DEF Where
  <2>3. 8 \in 1..12 /\ 9 \in 1..12 /\ 8 # 9
    OBVIOUS
  <2> QED
    BY <1>0, <1>3, <2>1, <2>2, <2>3, Moves
<1>5. ASSUME delivered' = delivered, gaveUp' = gaveUp \cup {d} PROVE OnePlaceInv'
  <2>1. Where'[10] \subseteq Where[10] \cup {d}
    BY <1>5 DEF Where
  <2>2. \A p \in 1..12 : p # 8 /\ p # 10 => Where'[p] \subseteq Where[p]
    BY <1>1, <1>5, SamePlace DEF Where
  <2>3. 8 \in 1..12 /\ 10 \in 1..12 /\ 8 # 10
    OBVIOUS
  <2> QED
    BY <1>0, <1>3, <2>1, <2>2, <2>3, Moves
<1> QED
  BY <1>1, <1>2, <1>4, <1>5

-----------------------------------------------------------------------------
(* Every step keeps the invariant.                                          *)

\* The tables, the shutdown and the loops' own steps move no delivery.
Aside ==
    \/ \E h \in Hooks, t \in Tenants :
          DeleteForTenant(h, t) \/ \E body \in Bodies : Create(h, t, body)
    \/ ResolveQuit \/ CloseQuit \/ Drained \/ DeadlineExceeded \/ UNCHANGED vars
    \/ \E s \in Senders : SendQuit(s)
LEMMA AsideFacts ==
    Aside => UNCHANGED <<emitter, events, dropped, current, fanout, offering, timed, jobs,
                         timers, job, posts, delivered, gaveUp, overflowed, discarded>>
  BY DEF Aside, DeleteForTenant, Create, ResolveQuit, CloseQuit, Drained, DeadlineExceeded,
         SendQuit, vars, resolverVars, senderVars

\* No step puts a delivery into two places.
LEMMA PlaceKept == Inv /\ [Next]_vars => OnePlaceInv'
<1> SUFFICES ASSUME Inv, [Next]_vars PROVE OnePlaceInv'
  OBVIOUS
<1>0. TypeOK /\ OnePlaceInv
  BY DEF Inv
<1>1. ASSUME Aside PROVE OnePlaceInv'
  BY <1>0, <1>1, AsideFacts, StillPlaces, SamePlace
<1>2. ASSUME NEW e \in Events, Emit(e) \/ DispatchCheck(e) PROVE OnePlaceInv'
  <2>1. UNCHANGED <<events, current, fanout, offering, timers, timed, jobs, job, delivered,
                    gaveUp, overflowed, discarded>>
    BY <1>2 DEF Emit, DispatchCheck, resolverVars, senderVars
  <2>2. /\ emitter[e] \in {"idle", "check", "send"}
        /\ \A f \in Events : f # e => emitter'[f] = emitter[f]
    BY <1>0, <1>2 DEF Emit, DispatchCheck, TypeOK
  <2>3. ToSend' \subseteq ToSend
    <3>1. \A d \in Deliveries : d[1] \in Events
      BY DEF Deliveries
    <3> QED
      BY <2>2, <3>1 DEF ToSend
  <2> QED
    BY <1>0, <2>1, <2>3, StillPlaces, SamePlace
<1>3. ASSUME ResolveEnd PROVE OnePlaceInv'
  <2>1. /\ UNCHANGED <<emitter, events, offering, timers, timed, jobs, job, delivered,
                       gaveUp, overflowed, discarded>>
        /\ fanout' = {}
    BY <1>3 DEF ResolveEnd, senderVars
  <2>2. ToFanOut' \subseteq ToFanOut
    BY <2>1 DEF ToFanOut
  <2> QED
    BY <1>0, <2>1, <2>2, StillPlaces, SamePlace
<1>4. ASSUME NEW s \in Senders, PostOk(s) \/ (PostFails(s) /\ ~MayRetry(job[s]))
      PROVE  OnePlaceInv'
  <2>1. UNCHANGED <<emitter, events, current, fanout, offering, timers, timed, jobs, job,
                    delivered, gaveUp, overflowed, discarded>>
    BY <1>4 DEF PostOk, PostFails, resolverVars
  <2> QED
    BY <1>0, <2>1, StillPlaces, SamePlace
<1> QED
  BY <1>1, <1>2, <1>3, <1>4, SendMoves, ResolveMoves, FanOutMoves, OfferFanOutMoves,
     OfferTimedMoves, TimerMoves, ReceiveMoves, RetryMoves, BookkeepMoves
  DEF Next, EmitterStep, ResolverStep, SenderStep, TimerStep, Aside

\* Channels stay free of repetitions and the resolver holds nothing in between.
LEMMA QueueKept == Inv /\ [Next]_vars => QueueInv'
<1> SUFFICES ASSUME Inv, [Next]_vars PROVE QueueInv'
  OBVIOUS
<1>0. TypeOK /\ QueueInv
  BY DEF Inv
<1>1. ASSUME UNCHANGED <<emitter, events, current, fanout, offering, jobs>> PROVE QueueInv'
  BY <1>0, <1>1 DEF QueueInv, Waiting
<1>2. ASSUME NEW e \in Events, Emit(e) \/ DispatchCheck(e) PROVE QueueInv'
  <2>1. UNCHANGED <<events, current, fanout, offering, jobs>> /\ emitter[e] # "queued"
    BY <1>2 DEF Emit, DispatchCheck, resolverVars
  <2>2. \A f \in Events : f # e => emitter'[f] = emitter[f]
    BY <1>0, <1>2 DEF Emit, DispatchCheck, TypeOK
  <2>3. Waiting \subseteq Events /\ Waiting' = Waiting
    BY <1>0, <2>1, SamePlace DEF TypeOK, Waiting
  <2>4. \A f \in Waiting' : emitter'[f] = "queued"
    BY <1>0, <2>1, <2>2, <2>3 DEF QueueInv
  <2> QED
    BY <1>0, <2>1, <2>4 DEF QueueInv
<1>3. ASSUME NEW e \in Events, DispatchSend(e) PROVE QueueInv'
  <2>1. UNCHANGED <<current, fanout, offering, jobs>> /\ emitter[e] = "send"
    BY <1>3 DEF DispatchSend, resolverVars
  <2>2. e \notin Waiting /\ Waiting \subseteq Events
    BY <1>0, <2>1 DEF QueueInv, TypeOK, Waiting
  <2>3. \A f \in Events : f # e => emitter'[f] = emitter[f]
    BY <1>0, <1>3 DEF DispatchSend, TypeOK
  <2>4. CASE events' = Append(events, e) /\ emitter' = [emitter EXCEPT ![e] = "queued"]
    <3>1. /\ events \in Seq(Events)
          /\ \A m, n \in DOMAIN events : events[m] = events[n] => m = n
          /\ e \notin {events[n] : n \in DOMAIN events}
      BY <1>0, <2>2 DEF TypeOK, QueueInv, Waiting
    <3>2. \A m, n \in DOMAIN events' : events'[m] = events'[n] => m = n
      BY <2>4, <3>1, Sent
    <3>3. Waiting' = Waiting \cup {e}
      BY <2>4, <3>1, Sent DEF Waiting
    <3>4. emitter'[e] = "queued"
      BY <1>0, <2>4 DEF TypeOK
    <3>5. \A f \in Waiting' : emitter'[f] = "queued"
      BY <1>0, <2>2, <2>3, <3>3, <3>4 DEF QueueInv
    <3> QED
      BY <1>0, <2>1, <3>2, <3>5 DEF QueueInv
  <2>5. CASE events' = events
    <3>1. Waiting' = Waiting
      BY <2>5, SamePlace
    <3>2. \A f \in Waiting' : emitter'[f] = "queued"
      BY <1>0, <2>2, <2>3, <3>1 DEF QueueInv
    <3> QED
      BY <1>0, <2>1, <2>5, <3>2 DEF QueueInv
  <2> QED
    BY <1>3, <2>4, <2>5 DEF DispatchSend
<1>4. ASSUME ResolveEvent PROVE QueueInv'
  <2>1. /\ UNCHANGED <<emitter, jobs, offering>> /\ current = None /\ current' = Head(events)
        /\ events # <<>> /\ events' = Tail(events)
    BY <1>4 DEF ResolveEvent
  <2>2. events \in Seq(Events) /\ \A m, n \in DOMAIN events : events[m] = events[n] => m = n
    BY <1>0 DEF TypeOK, QueueInv
  <2>3. /\ Head(events) \in Events
        /\ \A m, n \in DOMAIN events' : events'[m] = events'[n] => m = n
    BY <2>1, <2>2, Received
  <2>4. \A f \in Waiting' : emitter'[f] = "queued"
    BY <1>0, <1>4, <2>1, ResolveMoves DEF QueueInv
  <2>5. current' # None
    BY <2>1, <2>3, NoneAssumption
  <2> QED
    BY <1>0, <2>1, <2>3, <2>4, <2>5 DEF QueueInv
<1>5. ASSUME \/ \E h \in Hooks : FanOut(h)
             \/ OfferFanOut \/ ResolveEnd
      PROVE  QueueInv'
  <2>1. UNCHANGED <<emitter, events>>
    BY <1>5 DEF FanOut, OfferFanOut, ResolveEnd
  <2>2. current' = None => fanout' = {} /\ offering' = None
    BY <1>0, <1>5 DEF FanOut, OfferFanOut, ResolveEnd, QueueInv
  <2>3. \A m, n \in DOMAIN jobs' : jobs'[m] = jobs'[n] => m = n
    <3>1. CASE OfferFanOut
      BY <3>1, OfferFanOutMoves, OfferPuts
    <3>2. CASE jobs' = jobs
      BY <1>0, <3>2 DEF QueueInv
    <3> QED
      BY <1>5, <3>1, <3>2 DEF FanOut, ResolveEnd
  <2>4. \A f \in Waiting' : emitter'[f] = "queued"
    BY <1>0, <2>1, SamePlace DEF QueueInv
  <2> QED
    BY <1>0, <2>1, <2>2, <2>3, <2>4 DEF QueueInv
<1>6. ASSUME \/ \E s \in Senders : ReceiveJob(s)
             \/ \E j \in Jobs : OfferTimed(j)
      PROVE  QueueInv'
  <2>1. UNCHANGED <<emitter, events, current, fanout, offering>>
    BY <1>6 DEF ReceiveJob, OfferTimed, resolverVars
  <2>2. \A m, n \in DOMAIN jobs' : jobs'[m] = jobs'[n] => m = n
    BY <1>6, ReceiveMoves, OfferTimedMoves, OfferPuts
  <2>3. \A f \in Waiting' : emitter'[f] = "queued"
    BY <1>0, <2>1, SamePlace DEF QueueInv
  <2> QED
    BY <1>0, <2>1, <2>2, <2>3 DEF QueueInv
<1>7. ASSUME \/ \E s \in Senders : PostOk(s) \/ PostFails(s) \/ Bookkeep(s)
             \/ \E j \in Jobs : TimerFires(j)
      PROVE  QueueInv'
  BY <1>1, <1>7 DEF PostOk, PostFails, Bookkeep, TimerFires, resolverVars
<1>8. ASSUME Aside PROVE QueueInv'
  BY <1>1, <1>8, AsideFacts
<1> QED
  BY <1>2, <1>3, <1>4, <1>5, <1>6, <1>7, <1>8
  DEF Next, EmitterStep, ResolverStep, SenderStep, TimerStep, Aside

\* A sender takes a job only when it has none, and none that another one has.
LEMMA SenderKept == Inv /\ [Next]_vars => SenderInv'
<1> SUFFICES ASSUME Inv, [Next]_vars PROVE SenderInv'
  OBVIOUS
<1>0. TypeOK /\ SenderInv /\ OnePlaceInv
  BY DEF Inv
<1>1. ASSUME UNCHANGED <<sender, job>> PROVE SenderInv'
  BY <1>0, <1>1 DEF SenderInv, Busy
<1>2. ASSUME NEW s \in Senders, ReceiveJob(s) PROVE SenderInv'
  <2>1. /\ sender[s][1] # "exit" /\ job' = [job EXCEPT ![s] = Head(jobs)] /\ Stage(s, "post")
    BY <1>2 DEF ReceiveJob
  <2>2. /\ sender'[s][1] # "exit" /\ sender'[s][2] = "post"
        /\ \A r \in Senders : r # s => sender'[r] = sender[r]
    BY <1>0, <2>1, StageFacts
  <2>3. /\ job'[s] = Head(jobs) /\ Head(jobs) \in Jobs /\ Of(Head(jobs)) \in InQueue
        /\ \A r \in Senders : r # s => job'[r] = job[r]
    BY <1>0, <1>2, <2>1, ReceiveMoves DEF TypeOK
  <2>4. job'[s] # None /\ Of(Head(jobs)) \in Deliveries
    BY <2>3, JobFacts
  <2>5. \A r \in Senders : Busy(r) => Of(job[r]) # Of(Head(jobs))
    BY <1>0, <2>3, <2>4, Apart DEF WithSender
  <2> QED
    BY <1>0, <2>2, <2>3, <2>4, <2>5 DEF SenderInv, Busy
<1>3. ASSUME NEW s \in Senders, NEW x \in {"succeed", "fail"}, Stage(s, x),
             sender[s][2] = "post", job' = job
      PROVE  SenderInv'
  <2>1. /\ sender'[s][1] = sender[s][1] /\ sender'[s][2] = x
        /\ \A r \in Senders : r # s => sender'[r] = sender[r]
    BY <1>0, <1>3, StageFacts
  <2> QED
    BY <1>0, <1>3, <2>1 DEF SenderInv, Busy
<1>4. ASSUME NEW s \in Senders, Stage(s, "wait"), Busy(s), job' = [job EXCEPT ![s] = None]
      PROVE  SenderInv'
  <2>1. /\ sender'[s][2] = "wait"
        /\ \A r \in Senders : r # s => sender'[r] = sender[r]
    BY <1>0, <1>4, StageFacts
  <2>2. ~Busy(s)' /\ \A r \in Senders : r # s => job'[r] = job[r]
    BY <1>4, SenderLets
  <2> QED
    BY <1>0, <2>1, <2>2 DEF SenderInv, Busy
<1>5. ASSUME NEW s \in Senders, PostOk(s) \/ PostFails(s) PROVE SenderInv'
  <2>1. CASE PostFails(s) /\ MayRetry(job[s])
    BY <1>4, <2>1, RetryMoves DEF PostFails
  <2>2. CASE PostOk(s) \/ ~MayRetry(job[s])
    <3>1. /\ Stage(s, "succeed") \/ Stage(s, "fail")
          /\ sender[s][2] = "post" /\ job' = job
      BY <1>5, <2>2 DEF PostOk, PostFails
    <3> QED
      BY <1>3, <3>1
  <2> QED
    BY <1>5, <2>1, <2>2
<1>6. ASSUME NEW s \in Senders, Bookkeep(s) PROVE SenderInv'
  BY <1>4, <1>6, BookkeepMoves DEF Bookkeep
<1>7. ASSUME NEW s \in Senders, SendQuit(s) PROVE SenderInv'
  <2>1. /\ sender'[s][2] = sender[s][2] /\ sender[s][2] = "wait"
        /\ \A r \in Senders : r # s => sender'[r] = sender[r]
    BY <1>0, <1>7, LoopFacts DEF SendQuit
  <2>2. job' = job
    BY <1>7 DEF SendQuit
  <2> QED
    BY <1>0, <2>1, <2>2 DEF SenderInv, Busy
<1>8. ASSUME \/ \E h \in Hooks, t \in Tenants :
                   DeleteForTenant(h, t) \/ \E body \in Bodies : Create(h, t, body)
             \/ \E e \in Events : Emit(e) \/ EmitterStep(e)
             \/ ResolverStep \/ \E j \in Jobs : TimerStep(j)
             \/ CloseQuit \/ Drained \/ DeadlineExceeded \/ UNCHANGED vars
      PROVE  UNCHANGED <<sender, job>>
  BY <1>8 DEF DeleteForTenant, Create, Emit, EmitterStep, DispatchCheck, DispatchSend,
              ResolverStep, ResolveEvent, FanOut, OfferFanOut, ResolveEnd, ResolveQuit,
              TimerStep, TimerFires, OfferTimed, CloseQuit, Drained, DeadlineExceeded, vars,
              senderVars
<1> QED
  BY <1>1, <1>2, <1>5, <1>6, <1>7, <1>8 DEF Next, SenderStep

\* A POST counts for the delivery of the one job that is being posted.
LEMMA PostCounts ==
    ASSUME Inv, NEW s \in Senders, PostOk(s) \/ PostFails(s)
    PROVE  /\ job[s] \in Jobs /\ job[s] \in Ready /\ Of(job[s]) \in WithSender
           /\ posts'[Of(job[s])] = job[s].attempt + 1
           /\ \A d \in Deliveries : d # Of(job[s]) => posts'[d] = posts[d]
           /\ \A j \in Ready : j # job[s] => Of(j) # Of(job[s])
           /\ \A r \in Senders : r # s /\ Busy(r) => Of(job[r]) # Of(job[s])
           /\ \A r \in Senders : r # s => sender'[r] = sender[r] /\ job'[r] = job[r]
<1>0. TypeOK /\ SenderInv /\ PostInv
  BY DEF Inv
<1>1. sender[s][2] = "post" /\ posts' = [posts EXCEPT ![Of(job[s])] = @ + 1]
  BY DEF PostOk, PostFails
<1>2. Busy(s) /\ job[s] \in Jobs /\ job[s] \in Ready /\ Of(job[s]) \in WithSender
  BY <1>0, <1>1, BusyFacts DEF Ready
<1>3. posts[Of(job[s])] = job[s].attempt /\ Of(job[s]) \in Deliveries
  BY <1>0, <1>2, JobFacts DEF PostInv
<1>4. /\ posts'[Of(job[s])] = job[s].attempt + 1
      /\ \A d \in Deliveries : d # Of(job[s]) => posts'[d] = posts[d]
  BY <1>0, <1>1, <1>3 DEF TypeOK
<1>5. \A j \in Ready : j # job[s] => Of(j) # Of(job[s])
  BY <1>2, ReadyOnce
<1>6. \A r \in Senders : r # s /\ Busy(r) => Of(job[r]) # Of(job[s])
  BY <1>0, <1>2 DEF SenderInv
<1>7. \A r \in Senders : r # s => sender'[r] = sender[r] /\ job'[r] = job[r]
  <2>1. Stage(s, "succeed") \/ Stage(s, "wait") \/ Stage(s, "fail")
    BY DEF PostOk, PostFails
  <2>2. job' = job \/ job' = [job EXCEPT ![s] = None]
    BY DEF PostOk, PostFails
  <2> QED
    BY <1>0, <2>1, <2>2, StageFacts DEF TypeOK
<1> QED
  BY <1>2, <1>4, <1>5, <1>6, <1>7

\* What a step that posts nothing and makes no new job keeps.
LEMMA NoPost ==
    ASSUME PostInv, posts' = posts, Ready' \subseteq Ready,
           (ToSend \cup ToResolve \cup ToFanOut)' \subseteq ToSend \cup ToResolve \cup ToFanOut,
           \A s \in Senders : sender'[s][2] \in {"succeed", "fail"} =>
               sender[s][2] = sender'[s][2] /\ job'[s] = job[s]
    PROVE  PostInv'
  BY DEF PostInv

\* The attempt numbers keep counting the POSTs.
LEMMA PostKept == Inv /\ [Next]_vars => PostInv'
<1> SUFFICES ASSUME Inv, [Next]_vars PROVE PostInv'
  OBVIOUS
<1>0. TypeOK /\ OnePlaceInv /\ QueueInv /\ SenderInv /\ PostInv
  BY DEF Inv
<1>1. ASSUME NEW e \in Events, Emit(e) \/ DispatchCheck(e) \/ DispatchSend(e) PROVE PostInv'
  <2>1. UNCHANGED <<current, fanout, offering, timers, timed, jobs, sender, job, posts>>
    BY <1>1 DEF Emit, DispatchCheck, DispatchSend, resolverVars, senderVars
  <2>2. Ready' = Ready
    BY <2>1, SamePlace DEF Ready
  <2>3. (ToSend \cup ToResolve \cup ToFanOut)' \subseteq ToSend \cup ToResolve \cup ToFanOut
    <3>1. CASE DispatchSend(e)
      BY <2>1, <3>1, SendMoves, SamePlace
    <3>2. CASE Emit(e) \/ DispatchCheck(e)
      <4>1. /\ emitter[e] \in {"idle", "check", "send"} /\ events' = events
            /\ \A f \in Events : f # e => emitter'[f] = emitter[f]
        BY <1>0, <3>2 DEF Emit, DispatchCheck, TypeOK
      <4>2. \A d \in Deliveries : d[1] \in Events
        BY DEF Deliveries
      <4>3. ToSend' \subseteq ToSend
        BY <4>1, <4>2 DEF ToSend
      <4> QED
        BY <2>1, <4>1, <4>3, SamePlace
    <3> QED
      BY <1>1, <3>1, <3>2
  <2> QED
    BY <1>0, <2>1, <2>2, <2>3, NoPost
<1>2. ASSUME ResolveEvent \/ ResolveEnd PROVE PostInv'
  <2>1. UNCHANGED <<emitter, offering, timers, timed, jobs, sender, job, posts>>
    BY <1>2 DEF ResolveEvent, ResolveEnd, senderVars
  <2>2. Ready' = Ready
    BY <2>1, SamePlace DEF Ready
  <2>3. (ToSend \cup ToResolve \cup ToFanOut)' \subseteq ToSend \cup ToResolve \cup ToFanOut
    <3>1. CASE ResolveEvent
      BY <2>1, <3>1, ResolveMoves, SamePlace
    <3>2. CASE ResolveEnd
      <4>1. ToFanOut' = {} /\ events' = events
        BY <3>2 DEF ResolveEnd, ToFanOut
      <4> QED
        BY <2>1, <4>1, SamePlace
    <3> QED
      BY <1>2, <3>1, <3>2
  <2> QED
    BY <1>0, <2>1, <2>2, <2>3, NoPost
<1>3. ASSUME NEW h \in Hooks, FanOut(h) PROVE PostInv'
  <2>1. UNCHANGED <<emitter, events, timers, timed, jobs, sender, job, posts>> /\ offering = None
    BY <1>3 DEF FanOut, senderVars
  <2>2. (ToSend \cup ToResolve \cup ToFanOut)' \subseteq ToSend \cup ToResolve \cup ToFanOut
    BY <1>3, <2>1, FanOutMoves, SamePlace
  <2>3. posts[<<current, h>>] = 0
    BY <1>0, <1>3, FanOutMoves DEF PostInv
  <2>4. \A j \in Ready' : j \in Ready \/ (offering' # None /\ j = offering')
    BY <2>1, SamePlace DEF Ready
  <2>5. \A j \in Ready' : posts'[Of(j)] = j.attempt
    BY <1>0, <1>3, <2>1, <2>3, <2>4, FanOutMoves DEF PostInv
  <2> QED
    BY <1>0, <2>1, <2>2, <2>5 DEF PostInv
<1>4. ASSUME NEW j \in Jobs, Offer(j), j \in Ready, Of(j) \notin InQueue
      PROVE  Queued' \subseteq Ready
  <2>1. Queued' = Queued \cup {j} \/ Queued' = Queued
    BY <1>4, OfferPuts
  <2>2. Queued \subseteq Ready
    BY <1>0 DEF Queued, Ready, TypeOK
  <2> QED
    BY <1>4, <2>1, <2>2
<1>5. ASSUME OfferFanOut PROVE PostInv'
  <2>1. /\ UNCHANGED <<emitter, events, current, fanout, timers, timed, sender, job, posts>>
        /\ offering # None /\ offering' = None
    BY <1>5 DEF OfferFanOut, senderVars
  <2>2. offering \in Jobs /\ offering \in Ready
    BY <1>5, <2>1, OfferFanOutMoves DEF Ready
  <2>3. Queued' \subseteq Ready
    BY <1>4, <1>5, <2>2, OfferFanOutMoves
  <2>4. Ready' \subseteq Ready
    BY <2>1, <2>3 DEF Ready
  <2> QED
    BY <1>0, <2>1, <2>4, NoPost, SamePlace
<1>6. ASSUME NEW j \in Jobs, OfferTimed(j) PROVE PostInv'
  <2>1. /\ UNCHANGED <<emitter, events, current, fanout, offering, timers, sender, job, posts>>
        /\ j \in timed /\ timed' = timed \ {j}
    BY <1>6 DEF OfferTimed, senderVars, resolverVars
  <2>2. j \in Ready
    BY <2>1 DEF Ready
  <2>3. Queued' \subseteq Ready
    BY <1>4, <1>6, <2>2, OfferTimedMoves
  <2>4. Ready' \subseteq Ready
    BY <2>1, <2>3 DEF Ready
  <2> QED
    BY <1>0, <2>1, <2>4, NoPost, SamePlace
<1>7. ASSUME NEW j \in Jobs, TimerFires(j) PROVE PostInv'
  <2>1. /\ UNCHANGED <<emitter, events, current, fanout, offering, jobs, sender, job, posts>>
        /\ j \in timers /\ timers' \subseteq timers /\ timed' \subseteq timed \cup {j}
    BY <1>7 DEF TimerFires, senderVars, resolverVars
  <2>2. Ready' \subseteq Ready
    BY <2>1, SamePlace DEF Ready
  <2> QED
    BY <1>0, <2>1, <2>2, NoPost, SamePlace
<1>8. ASSUME NEW s \in Senders, ReceiveJob(s) PROVE PostInv'
  <2>1. /\ UNCHANGED <<emitter, events, current, fanout, offering, timers, timed, posts>>
        /\ job' = [job EXCEPT ![s] = Head(jobs)] /\ Stage(s, "post")
    BY <1>8 DEF ReceiveJob, resolverVars
  <2>2. /\ sender'[s][2] = "post" /\ \A r \in Senders : r # s => sender'[r] = sender[r]
    BY <1>0, <2>1, StageFacts
  <2>3. /\ job'[s] = Head(jobs) /\ \A r \in Senders : r # s => job'[r] = job[r]
        /\ Head(jobs) \in Queued /\ Queued' \subseteq Queued
    BY <1>0, <1>8, <2>1, ReceiveMoves DEF TypeOK
  <2>4. Ready' \subseteq Ready
    BY <2>1, <2>2, <2>3 DEF Ready
  <2> QED
    BY <1>0, <2>1, <2>2, <2>3, <2>4, NoPost, SamePlace
<1>9. ASSUME NEW s \in Senders, Bookkeep(s) PROVE PostInv'
  <2>1. /\ UNCHANGED <<emitter, events, current, fanout, offering, timers, timed, jobs, posts>>
        /\ Stage(s, "wait")
    BY <1>9 DEF Bookkeep, resolverVars
  <2>2. /\ sender'[s][2] = "wait" /\ \A r \in Senders : r # s => sender'[r] = sender[r]
    BY <1>0, <2>1, StageFacts
  <2>3. \A r \in Senders : r # s => job'[r] = job[r]
    BY <1>9, BookkeepMoves, SenderLets
  <2>4. Ready' \subseteq Ready
    BY <2>1, <2>2, <2>3, SamePlace DEF Ready
  <2> QED
    BY <1>0, <2>1, <2>2, <2>3, <2>4, NoPost, SamePlace
<1>10. ASSUME NEW s \in Senders, PostOk(s) \/ PostFails(s) PROVE PostInv'
  <2> DEFINE c == Of(job[s])
  <2>1. UNCHANGED <<emitter, events, current, fanout, offering, timed, jobs>>
    BY <1>10 DEF PostOk, PostFails, resolverVars
  <2>2. /\ c \in WithSender /\ posts'[c] = job[s].attempt + 1
        /\ \A d \in Deliveries : d # c => posts'[d] = posts[d]
        /\ \A j \in Ready : j # job[s] => Of(j) # c
        /\ \A r \in Senders : r # s /\ Busy(r) => Of(job[r]) # c
        /\ \A r \in Senders : r # s => sender'[r] = sender[r] /\ job'[r] = job[r]
    BY <1>10, PostCounts
  <2>3. sender'[s][2] # "post" /\ (sender'[s][2] # "wait" => job'[s] = job[s])
    <3>1. \/ (Stage(s, "succeed") \/ Stage(s, "fail")) /\ job' = job
          \/ Stage(s, "wait")
      BY <1>10 DEF PostOk, PostFails
    <3> QED
      BY <1>0, <3>1, StageFacts
  <2>4. \A d \in (ToSend \cup ToResolve \cup ToFanOut)' : posts'[d] = 0
    <3>1. /\ ToSend' = ToSend /\ ToResolve' = ToResolve /\ ToFanOut' = ToFanOut
      BY <2>1, SamePlace
    <3>2. c \notin ToSend \cup ToResolve \cup ToFanOut
      BY <1>0, <2>2, Apart
    <3>3. ToSend \cup ToResolve \cup ToFanOut \subseteq Deliveries
      BY DEF ToSend, ToResolve, ToFanOut
    <3> QED
      BY <1>0, <2>2, <3>1, <3>2, <3>3 DEF PostInv
  <2>5. \A j \in Ready' : posts'[Of(j)] = j.attempt
    <3> SUFFICES ASSUME NEW j \in Ready' PROVE posts'[Of(j)] = j.attempt
      OBVIOUS
    <3>1. j \in Jobs /\ Of(j) \in Deliveries
      BY JobFacts DEF Ready
    <3>2. CASE j \in timers' \ timers
      <4>1. PostFails(s) /\ MayRetry(job[s])
        BY <1>10, <3>2 DEF PostOk, PostFails
      <4>2. j = [job[s] EXCEPT !.attempt = @ + 1]
        BY <3>2, <4>1, RetryMoves
      <4> QED
        BY <2>2, <4>1, <4>2, RetryMoves
    <3>3. CASE j \notin timers' \ timers
      <4>1. CASE \E r \in Senders : sender'[r][2] = "post" /\ j = job'[r]
        <5>1. PICK r \in Senders : sender'[r][2] = "post" /\ j = job'[r]
          BY <4>1
        <5>2. r # s /\ j = job[r] /\ sender[r][2] = "post"
          BY <2>2, <2>3, <5>1
        <5>3. j \in Ready /\ Of(j) # c
          BY <1>0, <2>2, <3>1, <5>2, BusyFacts DEF Ready
        <5> QED
          BY <1>0, <2>2, <3>1, <5>3 DEF PostInv
      <4>2. CASE ~\E r \in Senders : sender'[r][2] = "post" /\ j = job'[r]
        <5>1. (offering # None /\ j = offering) \/ j \in timers \/ j \in timed \/ j \in Queued
          BY <2>1, <3>3, <4>2, SamePlace DEF Ready
        <5>2. j \in Ready /\ (Of(j) \in Offered \/ Of(j) \in InTimer \/ Of(j) \in Timed
                              \/ Of(j) \in InQueue)
          BY <3>1, <5>1 DEF Ready, Offered, InTimer, Timed, InQueue
        <5>3. Of(j) # c
          BY <1>0, <2>2, <5>2, Apart
        <5> QED
          BY <1>0, <2>2, <3>1, <5>2, <5>3 DEF PostInv
      <4> QED
        BY <4>1, <4>2
    <3> QED
      BY <3>2, <3>3
  <2>6. \A r \in Senders : sender'[r][2] \in {"succeed", "fail"} =>
            posts'[Of(job'[r])] = job'[r].attempt + 1
    <3> SUFFICES ASSUME NEW r \in Senders, sender'[r][2] \in {"succeed", "fail"}
                 PROVE  posts'[Of(job'[r])] = job'[r].attempt + 1
      OBVIOUS
    <3>1. CASE r = s
      BY <2>2, <2>3, <3>1
    <3>2. CASE r # s
      <4>1. sender[r][2] \in {"succeed", "fail"} /\ job'[r] = job[r]
        BY <2>2, <3>2
      <4>2. Of(job[r]) # c /\ Of(job[r]) \in Deliveries
        BY <1>0, <2>2, <3>2, <4>1, BusyFacts, JobFacts
      <4> QED
        BY <1>0, <2>2, <4>1, <4>2 DEF PostInv
    <3> QED
      BY <3>1, <3>2
  <2> QED
    BY <2>4, <2>5, <2>6 DEF PostInv
<1>11. ASSUME Aside PROVE PostInv'
  <2>1. UNCHANGED <<emitter, events, current, fanout, offering, timed, jobs, timers, job, posts>>
    BY <1>11, AsideFacts
  <2>2. \A s \in Senders : sender'[s][2] = sender[s][2]
    <3>1. CASE \E s \in Senders : SendQuit(s)
      BY <1>0, <3>1, LoopFacts DEF SendQuit
    <3>2. CASE sender' = sender
      BY <3>2
    <3> QED
      BY <1>11, <3>1, <3>2 DEF Aside, DeleteForTenant, Create, ResolveQuit, CloseQuit,
                               Drained, DeadlineExceeded, vars, senderVars
  <2>3. Ready' \subseteq Ready
    BY <2>1, <2>2, SamePlace DEF Ready
  <2> QED
    BY <1>0, <2>1, <2>2, <2>3, NoPost, SamePlace
<1> QED
  BY <1>1, <1>2, <1>3, <1>5, <1>6, <1>7, <1>8, <1>9, <1>10, <1>11
  DEF Next, EmitterStep, ResolverStep, SenderStep, TimerStep, Aside

\* The deliveries from the lookup on.
LookedUp ==
    {d \in Deliveries : \/ posts[d] > 0 \/ d \in ToFanOut \/ d \in Offered \/ d \in InTimer
                        \/ d \in Timed \/ d \in InQueue \/ d \in WithSender}

\* A hook that subscribes to an event goes on doing so: a row's tenant and event
\* types never change, and a deleted row does not come back.
LEMMA SubscribedKept ==
    ASSUME TypeOK, SenderInv, [Next]_vars, NEW d \in Deliveries, Subscribed(d)
    PROVE  Subscribed(d)'
<1>0. d[2] \in Hooks
  BY DEF Deliveries
<1>1. ASSUME hooks' = hooks PROVE Subscribed(d)'
  BY <1>1 DEF Subscribed
<1>2. ASSUME NEW h \in Hooks, NEW t \in Tenants,
             DeleteForTenant(h, t) \/ \E body \in Bodies : Create(h, t, body)
      PROVE  Subscribed(d)'
  BY <1>0, <1>2, RowFacts DEF Subscribed
<1>3. ASSUME NEW s \in Senders, Bookkeep(s) PROVE Subscribed(d)'
  <2>1. job[s].hook \in Hooks
    BY <1>3, BusyFacts, JobFacts DEF Bookkeep
  <2>2. RecordSuccess(job[s].hook) \/ RecordFailure(job[s].hook) \/ UNCHANGED hooks
    BY <1>3 DEF Bookkeep
  <2> QED
    BY <1>0, <2>1, <2>2, RowFacts DEF Subscribed
<1>4. ASSUME \/ \E e \in Events : Emit(e) \/ EmitterStep(e)
             \/ ResolverStep \/ \E j \in Jobs : TimerStep(j)
             \/ \E s \in Senders : ReceiveJob(s) \/ PostOk(s) \/ PostFails(s) \/ SendQuit(s)
             \/ CloseQuit \/ Drained \/ DeadlineExceeded \/ UNCHANGED vars
      PROVE  hooks' = hooks
  BY <1>4 DEF Emit, EmitterStep, DispatchCheck, DispatchSend, ResolverStep, ResolveEvent,
              FanOut, OfferFanOut, ResolveEnd, ResolveQuit, TimerStep, TimerFires, OfferTimed,
              ReceiveJob, PostOk, PostFails, SendQuit, CloseQuit, Drained, DeadlineExceeded,
              vars, tableVars
<1> QED
  BY <1>1, <1>2, <1>3, <1>4 DEF Next, SenderStep

\* Only the lookup adds deliveries, and it adds subscribers.
LEMMA SubscriberKept == Inv /\ [Next]_vars => SubscriberInv'
<1> SUFFICES ASSUME Inv, [Next]_vars PROVE SubscriberInv'
  OBVIOUS
<1>0. TypeOK /\ OnePlaceInv /\ QueueInv /\ SenderInv /\ PostInv /\ SubscriberInv
  BY DEF Inv
<1>1. \A d \in LookedUp : Subscribed(d)
  BY <1>0 DEF SubscriberInv, LookedUp
<1>2. SUFFICES ASSUME NEW d \in LookedUp' PROVE d \in LookedUp \/ Subscribed(d)
  <2>1. \A d \in LookedUp' : d \in Deliveries
    BY DEF LookedUp
  <2>2. \A d \in LookedUp' : Subscribed(d)'
    BY <1>0, <1>1, <1>2, <2>1, SubscribedKept
  <2> QED
    BY <2>2 DEF SubscriberInv, LookedUp
<1>3. d \in Deliveries
  BY DEF LookedUp
<1>4. ASSUME NEW e \in Events, Emit(e) \/ DispatchCheck(e) \/ DispatchSend(e)
      PROVE  d \in LookedUp
  <2>1. UNCHANGED <<current, fanout, offering, timers, timed, jobs, job, posts>>
    BY <1>4 DEF Emit, DispatchCheck, DispatchSend, resolverVars, senderVars
  <2> QED
    BY <1>3, <2>1, SamePlace DEF LookedUp
<1>5. ASSUME ResolveEvent PROVE d \in LookedUp \/ Subscribed(d)
  <2>1. UNCHANGED <<offering, timers, timed, jobs, job, posts>>
    BY <1>5 DEF ResolveEvent, senderVars
  <2> QED
    BY <1>3, <1>5, <2>1, ResolveMoves, SamePlace DEF LookedUp
<1>6. ASSUME ResolveEnd PROVE d \in LookedUp
  <2>1. UNCHANGED <<offering, timers, timed, jobs, job, posts>> /\ ToFanOut' = {}
    BY <1>6 DEF ResolveEnd, senderVars, ToFanOut
  <2> QED
    BY <1>3, <2>1, SamePlace DEF LookedUp
<1>7. ASSUME NEW h \in Hooks, FanOut(h) PROVE d \in LookedUp
  <2>1. UNCHANGED <<timers, timed, jobs, job, posts>>
    BY <1>7 DEF FanOut, senderVars
  <2>2. Offered' \subseteq {<<current, h>>}
    BY <1>7, FanOutMoves DEF Offered
  <2> QED
    BY <1>3, <1>7, <2>1, <2>2, FanOutMoves, SamePlace DEF LookedUp
<1>8. ASSUME OfferFanOut PROVE d \in LookedUp
  <2>1. UNCHANGED <<current, fanout, timers, timed, job, posts>>
    BY <1>8 DEF OfferFanOut, senderVars
  <2>2. InQueue' \subseteq InQueue \cup {Of(offering)}
    BY <1>8, OfferFanOutMoves, OfferPuts
  <2> QED
    BY <1>3, <1>8, <2>1, <2>2, OfferFanOutMoves, SamePlace DEF LookedUp
<1>9. ASSUME NEW j \in Jobs, OfferTimed(j) PROVE d \in LookedUp
  <2>1. UNCHANGED <<current, fanout, offering, timers, job, posts>>
    BY <1>9 DEF OfferTimed, senderVars, resolverVars
  <2>2. InQueue' \subseteq InQueue \cup {Of(j)}
    BY <1>9, OfferTimedMoves, OfferPuts
  <2> QED
    BY <1>3, <1>9, <2>1, <2>2, OfferTimedMoves, SamePlace DEF LookedUp
<1>10. ASSUME NEW j \in Jobs, TimerFires(j) PROVE d \in LookedUp
  <2>1. UNCHANGED <<current, fanout, offering, jobs, job, posts>> /\ timers' \subseteq timers
    BY <1>10 DEF TimerFires, senderVars, resolverVars
  <2>2. InTimer' \subseteq InTimer
    BY <2>1 DEF InTimer
  <2> QED
    BY <1>3, <1>10, <2>1, <2>2, TimerMoves, SamePlace DEF LookedUp
<1>11. ASSUME NEW s \in Senders, ReceiveJob(s) PROVE d \in LookedUp
  <2>1. UNCHANGED <<current, fanout, offering, timers, timed, posts>>
    BY <1>11 DEF ReceiveJob, resolverVars
  <2> QED
    BY <1>3, <1>11, <2>1, ReceiveMoves, SamePlace DEF LookedUp
<1>12. ASSUME NEW s \in Senders, PostOk(s) \/ PostFails(s) PROVE d \in LookedUp
  <2>1. UNCHANGED <<current, fanout, offering, timed, jobs>>
    BY <1>12 DEF PostOk, PostFails, resolverVars
  <2>2. Of(job[s]) \in WithSender /\ \A c \in Deliveries : c # Of(job[s]) => posts'[c] = posts[c]
    BY <1>12, PostCounts
  <2>3. InTimer' \subseteq InTimer \cup {Of(job[s])} /\ WithSender' \subseteq WithSender
    <3>1. CASE PostFails(s) /\ MayRetry(job[s])
      BY <3>1, RetryMoves, SenderLets
    <3>2. CASE UNCHANGED <<timers, job>>
      BY <3>2, SamePlace
    <3> QED
      BY <1>12, <3>1, <3>2 DEF PostOk, PostFails
  <2> QED
    BY <1>3, <2>1, <2>2, <2>3, SamePlace DEF LookedUp
<1>13. ASSUME NEW s \in Senders, Bookkeep(s) PROVE d \in LookedUp
  <2>1. UNCHANGED <<current, fanout, offering, timers, timed, jobs, posts>>
    BY <1>13 DEF Bookkeep, resolverVars
  <2>2. WithSender' \subseteq WithSender
    BY <1>13, BookkeepMoves, SenderLets
  <2> QED
    BY <1>3, <2>1, <2>2, SamePlace DEF LookedUp
<1>14. ASSUME Aside PROVE d \in LookedUp
  BY <1>3, <1>14, AsideFacts, SamePlace DEF LookedUp
<1> QED
  BY <1>4, <1>5, <1>6, <1>7, <1>8, <1>9, <1>10, <1>11, <1>12, <1>13, <1>14
  DEF Next, EmitterStep, ResolverStep, SenderStep, TimerStep, Aside

\* The counter and the active flag move together.
LEMMA DeadLetterKept == Inv /\ [Next]_vars => DeadLetterConsistent'
<1> SUFFICES ASSUME Inv, [Next]_vars, NEW g \in Hooks
             PROVE  /\ hooks'[g].active => hooks'[g].failures < DisableAfter
                    /\ ~hooks'[g].active => hooks'[g].disabled
  BY DEF DeadLetterConsistent
<1>0. TypeOK /\ SenderInv /\ DeadLetterConsistent /\ hooks[g] \in HookRows
  BY DEF Inv, TypeOK
<1>1. ASSUME hooks'[g] = hooks[g]
      PROVE  /\ hooks'[g].active => hooks'[g].failures < DisableAfter
             /\ ~hooks'[g].active => hooks'[g].disabled
  BY <1>0, <1>1 DEF DeadLetterConsistent
<1>2. ASSUME \/ hooks'[g] = [hooks[g] EXCEPT !.state = "gone"]
             \/ hooks'[g] = [hooks[g] EXCEPT !.failures = 0]
             \/ hooks'[g] = AfterFailure(hooks[g])
             \/ \E t, types : hooks'[g] = Inserted(t, types)
      PROVE  /\ hooks'[g].active => hooks'[g].failures < DisableAfter
             /\ ~hooks'[g].active => hooks'[g].disabled
  <2>1. CASE hooks'[g] = [hooks[g] EXCEPT !.state = "gone"]
    BY <1>0, <2>1 DEF DeadLetterConsistent, HookRows
  <2>2. CASE hooks'[g] = [hooks[g] EXCEPT !.failures = 0]
    BY <1>0, <2>2, SizesAssumption DEF DeadLetterConsistent, HookRows
  <2>3. CASE hooks'[g] = AfterFailure(hooks[g])
    <3> DEFINE row == hooks[g]
               low == row.failures + 1 < DisableAfter
               high == row.disabled \/ row.failures + 1 >= DisableAfter
    <3>1. hooks'[g] = [row EXCEPT !.failures = row.failures + 1,
                                  !.active = low, !.disabled = high]
      BY <2>3 DEF AfterFailure
    <3>2. row.failures \in Nat
      BY <1>0 DEF HookRows
    <3>3. low \/ high
      BY <3>2, SizesAssumption
    <3>4. low => row.failures + 1 < DisableAfter
      OBVIOUS
    <3> HIDE DEF low, high
    <3>5. /\ hooks'[g].failures = row.failures + 1
          /\ hooks'[g].active = low /\ hooks'[g].disabled = high
      BY <1>0, <3>1 DEF HookRows
    <3> QED
      BY <3>3, <3>4, <3>5
  <2>4. CASE \E t, types : hooks'[g] = Inserted(t, types)
    BY <2>4, SizesAssumption DEF Inserted
  <2> QED
    BY <1>2, <2>1, <2>2, <2>3, <2>4
<1>3. ASSUME NEW h \in Hooks, NEW t \in Tenants,
             DeleteForTenant(h, t) \/ \E body \in Bodies : Create(h, t, body)
      PROVE  /\ hooks'[g].active => hooks'[g].failures < DisableAfter
             /\ ~hooks'[g].active => hooks'[g].disabled
  BY <1>0, <1>1, <1>2, <1>3 DEF DeleteForTenant, Create, TypeOK
<1>4. ASSUME NEW s \in Senders, Bookkeep(s)
      PROVE  /\ hooks'[g].active => hooks'[g].failures < DisableAfter
             /\ ~hooks'[g].active => hooks'[g].disabled
  <2>1. job[s].hook \in Hooks
    BY <1>0, <1>4, BusyFacts, JobFacts DEF Bookkeep
  <2>2. RecordSuccess(job[s].hook) \/ RecordFailure(job[s].hook) \/ UNCHANGED hooks
    BY <1>4 DEF Bookkeep
  <2>3. \/ hooks'[g] = hooks[g] \/ hooks'[g] = [hooks[g] EXCEPT !.failures = 0]
        \/ hooks'[g] = AfterFailure(hooks[g])
    BY <1>0, <2>1, <2>2 DEF RecordSuccess, RecordFailure, TypeOK
  <2> QED
    BY <1>1, <1>2, <2>3
<1>5. ASSUME \/ \E e \in Events : Emit(e) \/ EmitterStep(e)
             \/ ResolverStep \/ \E j \in Jobs : TimerStep(j)
             \/ \E s \in Senders : ReceiveJob(s) \/ PostOk(s) \/ PostFails(s) \/ SendQuit(s)
             \/ CloseQuit \/ Drained \/ DeadlineExceeded \/ UNCHANGED vars
      PROVE  hooks' = hooks
  BY <1>5 DEF Emit, EmitterStep, DispatchCheck, DispatchSend, ResolverStep, ResolveEvent,
              FanOut, OfferFanOut, ResolveEnd, ResolveQuit, TimerStep, TimerFires, OfferTimed,
              ReceiveJob, PostOk, PostFails, SendQuit, CloseQuit, Drained, DeadlineExceeded,
              vars, tableVars
<1> QED
  BY <1>1, <1>3, <1>4, <1>5 DEF Next, SenderStep

\* Nothing that Shutdown owes is lost, and nothing it owes enters the channel.
LEMMA ShutdownKept == Inv /\ [Next]_vars => ShutdownInv'
<1> SUFFICES ASSUME Inv, [Next]_vars PROVE ShutdownInv'
  OBVIOUS
<1>0. TypeOK /\ OnePlaceInv /\ SenderInv /\ PostInv /\ ShutdownInv
  BY DEF Inv
<1>1. ASSUME UNCHANGED <<quit, earlyJobs, sender, job, jobs, posts>>,
             down' = down \/ (down # "no" /\ down' # "no")
      PROVE  ShutdownInv'
  <2>1. Queued' = Queued
    BY <1>1, SamePlace
  <2> QED
    BY <1>0, <1>1, <2>1 DEF ShutdownInv
<1>2. ASSUME NEW j \in Jobs, Offer(j), Of(j) \notin InQueue, Of(j) \notin WithSender, j \in Ready,
             UNCHANGED <<quit, down, earlyJobs, sender, job, posts>>
      PROVE  ShutdownInv'
  <2>1. Queued' = Queued \cup {j} \/ Queued' = Queued
    BY <1>2, OfferPuts
  <2>2. posts[Of(j)] = j.attempt /\ j.attempt \in Nat /\ Of(j) \in Deliveries
    BY <1>0, <1>2, JobFacts DEF PostInv
  <2>3. j \notin Queued /\ \A s \in Senders : sender[s][2] = "post" => j # job[s]
    BY <1>0, <1>2, <2>2, BusyFacts DEF InQueue
  <2>4. ~(posts[Of(j)] > j.attempt)
    BY <2>2
  <2>5. j \notin earlyJobs
    BY <1>0, <2>3, <2>4 DEF ShutdownInv
  <2>6. earlyJobs' = earlyJobs /\ Queued \subseteq Queued'
        /\ (earlyJobs \cap Queued = {} => earlyJobs' \cap Queued' = {})
    BY <1>2, <2>1, <2>5
  <2> QED
    BY <1>0, <1>2, <2>6 DEF ShutdownInv
<1>3. ASSUME OfferFanOut PROVE ShutdownInv'
  <2>1. UNCHANGED <<quit, down, earlyJobs, sender, job, posts>> /\ offering # None
    BY <1>3 DEF OfferFanOut, senderVars, shutdownVars
  <2>2. offering \in Ready /\ Of(offering) \notin WithSender
    BY <1>0, <1>3, <2>1, OfferFanOutMoves, Apart DEF Ready
  <2> QED
    BY <1>2, <1>3, <2>1, <2>2, OfferFanOutMoves
<1>4. ASSUME NEW j \in Jobs, OfferTimed(j) PROVE ShutdownInv'
  <2>1. UNCHANGED <<quit, down, earlyJobs, sender, job, posts>> /\ j \in timed
    BY <1>4 DEF OfferTimed, senderVars, shutdownVars
  <2>2. j \in Ready /\ Of(j) \notin WithSender
    BY <1>0, <1>4, <2>1, OfferTimedMoves, Apart DEF Ready
  <2> QED
    BY <1>2, <1>4, <2>1, <2>2, OfferTimedMoves
<1>5. ASSUME NEW s \in Senders, ReceiveJob(s) PROVE ShutdownInv'
  <2>1. /\ UNCHANGED <<quit, down, earlyJobs, posts>> /\ sender[s][2] = "wait"
        /\ job' = [job EXCEPT ![s] = Head(jobs)] /\ Stage(s, "post")
    BY <1>5 DEF ReceiveJob, shutdownVars
  <2>2. /\ sender'[s][2] = "post" /\ sender'[s][1] = sender[s][1]
        /\ \A r \in Senders : r # s => sender'[r] = sender[r]
    BY <1>0, <2>1, StageFacts
  <2>3. /\ job'[s] = Head(jobs) /\ \A r \in Senders : r # s => job'[r] = job[r]
        /\ Queued' = Queued \ {Head(jobs)}
    BY <1>0, <1>5, <2>1, ReceiveMoves DEF TypeOK
  <2>4. ASSUME NEW j \in earlyJobs
        PROVE  \/ posts'[Of(j)] > j.attempt \/ j \in Queued'
               \/ \E r \in Senders : sender'[r][2] = "post" /\ j = job'[r]
    <3>1. CASE j = Head(jobs)
      BY <2>2, <2>3, <3>1
    <3>2. CASE j # Head(jobs)
      BY <1>0, <2>1, <2>2, <2>3, <3>2 DEF ShutdownInv
    <3> QED
      BY <3>1, <3>2
  <2>5. \A r \in Senders : sender'[r][1] = sender[r][1]
    BY <2>2
  <2> QED
    BY <1>0, <2>1, <2>3, <2>4, <2>5 DEF ShutdownInv
<1>6. ASSUME NEW s \in Senders, PostOk(s) \/ PostFails(s) PROVE ShutdownInv'
  <2>1. UNCHANGED <<quit, down, earlyJobs, jobs>>
    BY <1>6 DEF PostOk, PostFails, shutdownVars
  <2>2. /\ job[s] \in Jobs /\ job[s] \in Ready /\ posts'[Of(job[s])] = job[s].attempt + 1
        /\ \A d \in Deliveries : d # Of(job[s]) => posts'[d] = posts[d]
        /\ \A r \in Senders : r # s => sender'[r] = sender[r] /\ job'[r] = job[r]
    BY <1>6, PostCounts
  <2>3. Queued' = Queued
    BY <2>1, SamePlace
  <2>4. ASSUME NEW j \in earlyJobs
        PROVE  \/ posts'[Of(j)] > j.attempt \/ j \in Queued'
               \/ \E r \in Senders : sender'[r][2] = "post" /\ j = job'[r]
    <3>1. j \in Jobs /\ Of(j) \in Deliveries /\ j.attempt \in Nat /\ job[s].attempt \in Nat
      BY <1>0, <2>2, JobFacts DEF TypeOK
    <3>2. CASE posts[Of(j)] > j.attempt
      <4>1. posts[Of(job[s])] = job[s].attempt
        BY <1>0, <2>2 DEF PostInv
      <4>2. CASE Of(j) = Of(job[s])
        BY <2>2, <3>1, <3>2, <4>1, <4>2
      <4>3. CASE Of(j) # Of(job[s])
        BY <2>2, <3>1, <3>2, <4>3
      <4> QED
        BY <4>2, <4>3
    <3>3. CASE j = job[s]
      BY <2>2, <3>1, <3>3
    <3>4. CASE j # job[s] /\ ~(posts[Of(j)] > j.attempt)
      BY <1>0, <2>2, <2>3, <3>4 DEF ShutdownInv
    <3> QED
      BY <3>2, <3>3, <3>4
  <2>5. \A r \in Senders : sender'[r][1] = sender[r][1]
    <3>1. Stage(s, "succeed") \/ Stage(s, "wait") \/ Stage(s, "fail")
      BY <1>6 DEF PostOk, PostFails
    <3> QED
      BY <1>0, <3>1, StageFacts
  <2> QED
    BY <1>0, <2>1, <2>3, <2>4, <2>5 DEF ShutdownInv
<1>7. ASSUME NEW s \in Senders, Bookkeep(s) PROVE ShutdownInv'
  <2>1. /\ UNCHANGED <<quit, down, earlyJobs, jobs, posts>> /\ Stage(s, "wait")
        /\ sender[s][2] # "post"
    BY <1>7 DEF Bookkeep, shutdownVars
  <2>2. /\ sender'[s][1] = sender[s][1]
        /\ \A r \in Senders : r # s => sender'[r] = sender[r] /\ job'[r] = job[r]
    BY <1>0, <1>7, <2>1, StageFacts, BookkeepMoves, SenderLets
  <2>3. Queued' = Queued
    BY <2>1, SamePlace
  <2>4. \A r \in Senders : sender'[r][1] = sender[r][1]
    BY <2>2
  <2>5. \A r \in Senders : sender[r][2] = "post" => sender'[r][2] = "post" /\ job'[r] = job[r]
    BY <2>1, <2>2
  <2> QED
    BY <1>0, <2>1, <2>3, <2>4, <2>5 DEF ShutdownInv
<1>8. ASSUME NEW s \in Senders, SendQuit(s) PROVE ShutdownInv'
  <2>1. UNCHANGED <<quit, down, earlyJobs, jobs, posts, job>>
    BY <1>8 DEF SendQuit, shutdownVars
  <2>2. /\ \A r \in Senders : r # s => sender'[r] = sender[r]
        /\ sender'[s][2] = sender[s][2]
    BY <1>0, <1>8, LoopFacts DEF SendQuit
  <2>3. Queued' = Queued
    BY <2>1, SamePlace
  <2>4. quit
    BY <1>0, <1>8 DEF SendQuit, ShutdownInv
  <2>5. sender'[s][1] = "exit" => Queued = {}
    <3>1. \/ sender' = [sender EXCEPT ![s][1] = "drain"]
          \/ jobs = <<>>
      BY <1>8 DEF SendQuit
    <3>2. sender' = [sender EXCEPT ![s][1] = "drain"] => sender'[s][1] = "drain"
      BY <1>0, LoopFacts
    <3>3. jobs = <<>> => Queued = {}
      BY DEF Queued
    <3> QED
      BY <3>1, <3>2, <3>3
  <2>6. \A r \in Senders : sender[r][2] = "post" => sender'[r][2] = "post"
    BY <2>2
  <2> QED
    BY <1>0, <2>1, <2>2, <2>3, <2>4, <2>5, <2>6 DEF ShutdownInv
<1>9. ASSUME CloseQuit PROVE ShutdownInv'
  <2>1. /\ UNCHANGED <<jobs, posts, sender, job>> /\ down = "no"
        /\ quit' = TRUE /\ down' = "waiting"
        /\ earlyJobs' = Queued \cup {job[s] : s \in {r \in Senders : sender[r][2] = "post"}}
    BY <1>9 DEF CloseQuit, senderVars, Queued
  <2>2. \A s \in Senders : sender'[s][1] # "exit"
    BY <1>0, <2>1 DEF ShutdownInv
  <2>3. Queued' = Queued
    BY <2>1, SamePlace
  <2> QED
    BY <2>1, <2>2, <2>3 DEF ShutdownInv
<1>10. ASSUME Drained \/ DeadlineExceeded PROVE ShutdownInv'
  BY <1>1, <1>10 DEF Drained, DeadlineExceeded, senderVars
<1>11. ASSUME \/ \E h \in Hooks, t \in Tenants :
                    DeleteForTenant(h, t) \/ \E body \in Bodies : Create(h, t, body)
              \/ \E e \in Events : Emit(e) \/ EmitterStep(e)
              \/ ResolveEvent \/ (\E h \in Hooks : FanOut(h)) \/ ResolveEnd \/ ResolveQuit
              \/ \E j \in Jobs : TimerFires(j)
              \/ UNCHANGED vars
       PROVE  ShutdownInv'
  <2>1. UNCHANGED <<quit, down, earlyJobs, sender, job, jobs, posts>>
    BY <1>11 DEF DeleteForTenant, Create, Emit, EmitterStep, DispatchCheck, DispatchSend,
                 ResolveEvent, FanOut, ResolveEnd, ResolveQuit, TimerFires, vars, senderVars,
                 shutdownVars
  <2> QED
    BY <1>1, <2>1
<1> QED
  BY <1>3, <1>4, <1>5, <1>6, <1>7, <1>8, <1>9, <1>10, <1>11
  DEF Next, ResolverStep, SenderStep, TimerStep

-----------------------------------------------------------------------------
(* The theorems.                                                            *)

\* The invariant holds for ever: the dispatcher's goroutines, timers and channels
\* never share or repeat a delivery, and the attempt numbers count its POSTs.
THEOREM Invariance == Spec => []Inv
<1>1. Inv /\ [Next]_vars => Inv'
  BY TypeKept, PlaceKept, QueueKept, SenderKept, PostKept, SubscriberKept, ShutdownKept,
     DeadLetterKept DEF Inv
<1> QED
  BY InitInv, <1>1, PTL DEF Spec

\* The dispatcher keeps its types: the two channels stay within their capacity
\* and a delivery is posted at most 1 + MaxRetries times (dispatcher.go:217).
THEOREM TypeCorrect == Spec => []TypeOK
<1>1. Inv => TypeOK
  BY DEF Inv
<1> QED
  BY Invariance, <1>1, PTL

\* Every POST goes to a webhook its event's tenant registered for its type,
\* whatever is registered and deleted in between (webhook.go, ListActiveForEvent).
THEOREM SubscribersCorrect == Spec => []OnlyToSubscribers
<1>1. Inv => OnlyToSubscribers
  BY DEF Inv, SubscriberInv, Subscribed, OnlyToSubscribers
<1> QED
  BY Invariance, <1>1, PTL

\* A delivery has at most one outcome, and none while a retry of it is pending
\* (deliver, enqueueJob and the backoff timers).
THEOREM OneOutcomeCorrect == Spec => []OneOutcome
<1>1. Inv => OneOutcome
  <2> SUFFICES ASSUME Inv PROVE OneOutcome
    OBVIOUS
  <2>0. TypeOK /\ OnePlaceInv
    BY DEF Inv
  <2>1. \A n \in 1..4 : n + 8 \in 1..12 /\ Settled[n] = Where[n + 8]
    BY DEF Settled, Where
  <2>2. \A m, n \in 1..4 : m # n => Settled[m] \cap Settled[n] = {}
    BY <2>0, <2>1 DEF OnePlaceInv
  <2>3. \A n \in 1..4 : Where[5] \cap Where[n + 8] = {} /\ Where[6] \cap Where[n + 8] = {}
    BY <2>0 DEF OnePlaceInv
  <2>4. \A j \in timers \cup timed : Of(j) \in Where[5] \/ Of(j) \in Where[6]
    <3>1. \A j \in timers \cup timed : Of(j) \in Deliveries
      BY <2>0, JobFacts DEF TypeOK
    <3>2. \A j \in timers \cup timed : Of(j) \in InTimer \/ Of(j) \in Timed
      BY <3>1 DEF InTimer, Timed
    <3> QED
      BY <3>2 DEF Where
  <2> QED
    BY <2>1, <2>2, <2>3, <2>4 DEF OneOutcome
<1> QED
  BY Invariance, <1>1, PTL

\* A webhook the resolver looks up has failures left, and one it no longer looks
\* up is marked dead (webhook.go, RecordFailure).
THEOREM DeadLetterCorrect == Spec => []DeadLetterConsistent
<1>1. Inv => DeadLetterConsistent
  BY DEF Inv
<1> QED
  BY Invariance, <1>1, PTL

-----------------------------------------------------------------------------
(* The jobs channel and its senders implement the hand-off.                 *)

Held(j) == j \in Queued \/ \E s \in Senders : sender[s][2] = "post" /\ j = job[s]
TurnedAway == overflowed \cup discarded

\* Where a job stands: its POST is made, it is in the channel or with a sender,
\* its delivery was turned away at this attempt, or nothing has happened yet.
\* The cases exclude each other.
StandingInv ==
    \A j \in Jobs :
        /\ posts[Of(j)] > j.attempt => Standing(j) = "settled"
        /\ ~(posts[Of(j)] > j.attempt) /\ Held(j) => Standing(j) = "taken"
        /\ /\ ~(posts[Of(j)] > j.attempt) /\ ~Held(j)
           /\ posts[Of(j)] = j.attempt /\ Of(j) \in TurnedAway
           => Standing(j) = "refused"
        /\ /\ ~(posts[Of(j)] > j.attempt) /\ ~Held(j)
           /\ ~(posts[Of(j)] = j.attempt /\ Of(j) \in TurnedAway)
           => Standing(j) = "new"
        /\ Held(j) => /\ j \in Ready /\ posts[Of(j)] = j.attempt
                      /\ Of(j) \notin TurnedAway
LEMMA StandingFacts == Inv => StandingInv
<1> SUFFICES ASSUME Inv, NEW j \in Jobs
             PROVE  /\ posts[Of(j)] > j.attempt => Standing(j) = "settled"
                    /\ ~(posts[Of(j)] > j.attempt) /\ Held(j) => Standing(j) = "taken"
                    /\ /\ ~(posts[Of(j)] > j.attempt) /\ ~Held(j)
                       /\ posts[Of(j)] = j.attempt /\ Of(j) \in TurnedAway
                       => Standing(j) = "refused"
                    /\ /\ ~(posts[Of(j)] > j.attempt) /\ ~Held(j)
                       /\ ~(posts[Of(j)] = j.attempt /\ Of(j) \in TurnedAway)
                       => Standing(j) = "new"
                    /\ Held(j) => /\ j \in Ready /\ posts[Of(j)] = j.attempt
                                  /\ Of(j) \notin TurnedAway
  BY DEF StandingInv
<1> DEFINE in == \/ \E n \in DOMAIN jobs : jobs[n] = j
                 \/ \E s \in Senders : job[s] = j
           past == posts[Of(j)] > j.attempt
<1>0. TypeOK /\ OnePlaceInv /\ SenderInv /\ PostInv
  BY DEF Inv
<1>1. posts[Of(j)] \in Nat /\ j.attempt \in Nat /\ j # None
  BY <1>0, JobFacts, SizesAssumption DEF TypeOK
<1>2. past \/ posts[Of(j)] <= j.attempt
  BY <1>1
<1>3. ~(past /\ posts[Of(j)] <= j.attempt) /\ ~(past /\ posts[Of(j)] = j.attempt)
  BY <1>1
<1>4. ~past => (in <=> Held(j))
  <2>1. ASSUME NEW s \in Senders, job[s] = j, sender[s][2] # "post" PROVE past
    <3>1. sender[s][2] \in {"succeed", "fail"}
      BY <1>0, <1>1, <2>1, BusyFacts DEF SenderInv, Busy
    <3>2. posts[Of(j)] = j.attempt + 1
      BY <1>0, <2>1, <3>1 DEF PostInv
    <3> QED
      BY <1>1, <3>2
  <2> QED
    BY <2>1 DEF Held, Queued
<1>5. Held(j) => j \in Ready
  BY DEF Held, Ready
<1>6. j \in Ready => posts[Of(j)] = j.attempt
  BY <1>0 DEF PostInv
<1>7. Held(j) => Of(j) \notin TurnedAway
  <2>1. Held(j) => Of(j) \in InQueue \/ Of(j) \in WithSender
    BY <1>0, JobFacts, BusyFacts DEF Held, InQueue
  <2> QED
    BY <1>0, <2>1, Apart DEF TurnedAway
<1> QED
  <2>1. Standing(j) =
          CASE past -> "settled"
            [] posts[Of(j)] <= j.attempt /\ in -> "taken"
            [] posts[Of(j)] = j.attempt /\ Of(j) \in TurnedAway -> "refused"
            [] OTHER -> "new"
    BY DEF Standing, TurnedAway
  <2>2. past => Standing(j) = "settled"
    BY <1>3, <2>1
  <2>3. ~past /\ in => Standing(j) = "taken"
    BY <1>2, <1>4, <1>7, <2>1
  <2>4. ~past /\ ~in /\ posts[Of(j)] = j.attempt /\ Of(j) \in TurnedAway
        => Standing(j) = "refused"
    BY <2>1
  <2>5. ~past /\ ~in /\ ~(posts[Of(j)] = j.attempt /\ Of(j) \in TurnedAway)
        => Standing(j) = "new"
    BY <2>1
  <2> QED
    BY <1>4, <1>5, <1>6, <1>7, <2>2, <2>3, <2>4, <2>5

\* Nothing is queued at the start: every attempt is new.
LEMMA HandoffInit == Init => Contract!Init
<1> SUFFICES ASSUME Init PROVE Contract!Init
  OBVIOUS
<1>1. Inv
  BY InitInv
<1>2. \A j \in Jobs : Standing(j) = "new"
  <2>1. \A j \in Jobs : ~Held(j) /\ Of(j) \notin TurnedAway
    BY DEF Init, Held, Queued, TurnedAway
  <2>2. \A j \in Jobs : ~(posts[Of(j)] > j.attempt)
    BY JobFacts DEF Init
  <2> QED
    BY <1>1, <2>1, <2>2, StandingFacts DEF StandingInv
<1>3. quit = FALSE /\ earlyJobs = {} /\ down = "no"
  BY DEF Init
<1> QED
  BY <1>2, <1>3 DEF Contract!Init

\* A step that posts nothing, turns nothing away and leaves the channel and the
\* posting senders together with the same jobs changes no standing.
LEMMA SameStanding ==
    ASSUME Inv, Inv', posts' = posts, TurnedAway' = TurnedAway,
           \A j \in Jobs : Held(j)' <=> Held(j)
    PROVE  \A j \in Jobs : Standing(j)' = Standing(j)
<1> SUFFICES ASSUME NEW j \in Jobs PROVE Standing(j)' = Standing(j)
  OBVIOUS
<1>1. (Inv => StandingInv)'
  BY StandingFacts, PTL
<1> QED
  BY <1>1, StandingFacts DEF StandingInv

\* A job that enqueueJob puts into the channel, or turns away, was new before and
\* is answered once; no other job is touched.
LEMMA Answered ==
    ASSUME Inv, Inv', NEW j \in Jobs, posts' = posts,
           posts[Of(j)] = j.attempt, ~Held(j), Of(j) \notin TurnedAway,
           \A i \in Jobs : i # j => (Held(i)' <=> Held(i)),
           \/ Held(j)' /\ TurnedAway' = TurnedAway
           \/ ~Held(j)' /\ TurnedAway' = TurnedAway \cup {Of(j)}
    PROVE  /\ Standing(j) = "new" /\ Standing(j)' \in {"taken", "refused"}
           /\ \A i \in Jobs : i # j => Standing(i)' = Standing(i)
<1>1. (Inv => StandingInv)'
  BY StandingFacts, PTL
<1>2. StandingInv /\ StandingInv'
  BY <1>1, StandingFacts
<1>3. posts[Of(j)] = j.attempt /\ j.attempt \in Nat
  BY JobFacts
<1>4. ~(posts[Of(j)] > j.attempt)
  BY <1>3
<1>5. Standing(j) = "new"
  BY <1>2, <1>4 DEF StandingInv
<1>6. Standing(j)' \in {"taken", "refused"}
  BY <1>2, <1>3, <1>4 DEF StandingInv
<1>7. ASSUME NEW i \in Jobs, i # j PROVE Standing(i)' = Standing(i)
  <2>1. posts[Of(i)] = i.attempt => (Of(i) \in TurnedAway' <=> Of(i) \in TurnedAway)
    BY <1>3, <1>7, JobFacts
  <2> QED
    BY <1>2, <1>7, <2>1 DEF StandingInv
<1> QED
  BY <1>5, <1>6, <1>7

\* A POST settles the job that is posted and no other one.
LEMMA Posted ==
    ASSUME Inv, Inv', NEW s \in Senders, PostOk(s) \/ PostFails(s), NEW j \in Jobs, j = job[s]
    PROVE  /\ Standing(j) = "taken" /\ Standing(j)' = "settled"
           /\ \A i \in Jobs : i # j => Standing(i)' = Standing(i)
<1> DEFINE c == Of(j)
<1>0. TypeOK /\ OnePlaceInv /\ SenderInv /\ PostInv
  BY DEF Inv
<1>1. (Inv => StandingInv)'
  BY StandingFacts, PTL
<1>2. StandingInv /\ StandingInv'
  BY <1>1, StandingFacts
<1>3. /\ j \in Ready /\ c \in WithSender /\ posts'[c] = j.attempt + 1
      /\ \A d \in Deliveries : d # c => posts'[d] = posts[d]
      /\ \A r \in Senders : r # s => sender'[r] = sender[r] /\ job'[r] = job[r]
  BY PostCounts
<1>4. sender[s][2] = "post" /\ UNCHANGED <<jobs, overflowed, discarded>>
  BY DEF PostOk, PostFails
<1>5. posts[c] = j.attempt /\ j.attempt \in Nat /\ c \notin TurnedAway /\ c \in Deliveries
  BY <1>0, <1>3, JobFacts, Apart DEF PostInv, TurnedAway
<1>6. sender'[s][2] # "post"
  <2>1. Stage(s, "succeed") \/ Stage(s, "wait") \/ Stage(s, "fail")
    BY DEF PostOk, PostFails
  <2> QED
    BY <1>0, <2>1, StageFacts
<1>7. Queued' = Queued /\ TurnedAway' = TurnedAway
  BY <1>4, SamePlace DEF TurnedAway
<1>8. Standing(j) = "taken"
  <2>1. Held(j) /\ ~(posts[c] > j.attempt)
    BY <1>4, <1>5 DEF Held
  <2> QED
    BY <1>2, <2>1 DEF StandingInv
<1>9. Standing(j)' = "settled"
  <2>1. posts'[c] > j.attempt
    BY <1>3, <1>5
  <2> QED
    BY <1>2, <2>1 DEF StandingInv
<1>10. ASSUME NEW i \in Jobs, i # j PROVE Standing(i)' = Standing(i)
  <2>1. Of(i) \in Deliveries /\ i.attempt \in Nat /\ posts[Of(i)] \in Nat
    BY <1>0, JobFacts, SizesAssumption DEF TypeOK
  <2>2. Of(i) = c => i.attempt # j.attempt
    BY <1>10, JobFacts
  <2>3. posts'[Of(i)] > i.attempt <=> posts[Of(i)] > i.attempt
    BY <1>3, <1>5, <2>1, <2>2
  <2>4. Held(i)' <=> Held(i)
    <3>1. \A r \in Senders : sender'[r][2] = "post" /\ i = job'[r]
                               <=> sender[r][2] = "post" /\ i = job[r]
      BY <1>3, <1>4, <1>6, <1>10
    <3> QED
      BY <1>7, <3>1 DEF Held
  <2>5. posts'[Of(i)] = i.attempt /\ Of(i) \in TurnedAway'
          <=> posts[Of(i)] = i.attempt /\ Of(i) \in TurnedAway
    BY <1>3, <1>5, <1>7, <2>1
  <2> QED
    BY <1>2, <2>3, <2>4, <2>5 DEF StandingInv
<1> QED
  BY <1>8, <1>9, <1>10

\* Every step of a dispatcher with senders is a step of the hand-off, or none.
LEMMA HandoffStep ==
    Senders # {} /\ Inv /\ Inv' /\ [Next]_vars => [Contract!Next]_(Contract!vars)
<1> SUFFICES ASSUME Senders # {}, Inv, Inv', [Next]_vars
             PROVE  [Contract!Next]_(Contract!vars)
  OBVIOUS
<1> DEFINE status == [j \in Jobs |-> Standing(j)]
<1>0. TypeOK /\ OnePlaceInv /\ QueueInv /\ SenderInv /\ PostInv /\ ShutdownInv
  BY DEF Inv
<1>1. ASSUME UNCHANGED <<quit, down, earlyJobs>>, posts' = posts, TurnedAway' = TurnedAway,
             \A j \in Jobs : Held(j)' <=> Held(j)
      PROVE  [Contract!Next]_(Contract!vars)
  <2>1. status' = status
    BY <1>1, SameStanding
  <2> QED
    BY <1>1, <2>1 DEF Contract!vars
<1>2. ASSUME UNCHANGED <<quit, down, earlyJobs>>, posts' = posts,
             NEW j \in Jobs, posts[Of(j)] = j.attempt, ~Held(j), Of(j) \notin TurnedAway,
             \A i \in Jobs : i # j => (Held(i)' <=> Held(i)),
             \/ Held(j)' /\ TurnedAway' = TurnedAway
             \/ ~Held(j)' /\ TurnedAway' = TurnedAway \cup {Of(j)}
      PROVE  [Contract!Next]_(Contract!vars)
  <2>1. /\ Standing(j) = "new" /\ Standing(j)' \in {"taken", "refused"}
        /\ \A i \in Jobs : i # j => Standing(i)' = Standing(i)
    BY <1>2, Answered
  <2>2. status' = [status EXCEPT ![j] = Standing(j)'] /\ status[j] = "new"
    BY <2>1
  <2>3. Contract!Answer(j, Standing(j)')
    BY <1>2, <2>1, <2>2 DEF Contract!Answer
  <2> QED
    BY <2>1, <2>3 DEF Contract!Next
<1>3. ASSUME NEW s \in Senders, PostOk(s) \/ PostFails(s)
      PROVE  [Contract!Next]_(Contract!vars)
  <2>1. PICK j \in Jobs : j = job[s]
    BY <1>3, PostCounts
  <2>2. UNCHANGED <<quit, down, earlyJobs>>
    BY <1>3 DEF PostOk, PostFails, shutdownVars
  <2>3. /\ Standing(j) = "taken" /\ Standing(j)' = "settled"
        /\ \A i \in Jobs : i # j => Standing(i)' = Standing(i)
    BY <1>3, <2>1, Posted
  <2>4. status' = [i \in Jobs |-> IF i \in {j} THEN "settled" ELSE status[i]]
    BY <2>3
  <2>5. {j} \subseteq Contract!In("taken")
    BY <2>3 DEF Contract!In
  <2>6. Contract!Settle({j})
    BY <2>2, <2>4, <2>5 DEF Contract!Settle
  <2> QED
    BY <2>1, <2>6 DEF Contract!Next
<1>4. ASSUME NEW j \in Jobs, j \in Ready, Offer(j), Of(j) \notin InQueue, Of(j) \notin WithSender,
             Of(j) \notin TurnedAway,
             UNCHANGED <<quit, down, earlyJobs, posts, sender, job, discarded>>
      PROVE  [Contract!Next]_(Contract!vars)
  <2>1. ~Held(j)
    BY <1>0, <1>4, JobFacts, BusyFacts DEF Held, InQueue
  <2>2. \/ Queued' = Queued \cup {j} /\ overflowed' = overflowed
        \/ Queued' = Queued /\ overflowed' = overflowed \cup {Of(j)}
    BY <1>4, OfferPuts
  <2>3. \A i \in Jobs : i # j => (Held(i)' <=> Held(i))
    BY <1>4, <2>2 DEF Held
  <2>4. \/ Held(j)' /\ TurnedAway' = TurnedAway
        \/ ~Held(j)' /\ TurnedAway' = TurnedAway \cup {Of(j)}
    BY <1>4, <2>1, <2>2 DEF Held, TurnedAway
  <2>5. posts[Of(j)] = j.attempt
    BY <1>0, <1>4 DEF PostInv
  <2> QED
    BY <1>2, <1>4, <2>1, <2>3, <2>4, <2>5
<1>5. ASSUME OfferFanOut PROVE [Contract!Next]_(Contract!vars)
  <2>1. /\ UNCHANGED <<quit, down, earlyJobs, posts, sender, job, discarded>> /\ offering # None
    BY <1>5 DEF OfferFanOut, senderVars, shutdownVars
  <2>2. offering \in Ready /\ Of(offering) \notin WithSender /\ Of(offering) \notin TurnedAway
    BY <1>0, <1>5, <2>1, OfferFanOutMoves, Apart DEF Ready, TurnedAway
  <2> QED
    BY <1>4, <1>5, <2>1, <2>2, OfferFanOutMoves
<1>6. ASSUME NEW j \in Jobs, OfferTimed(j) PROVE [Contract!Next]_(Contract!vars)
  <2>1. UNCHANGED <<quit, down, earlyJobs, posts, sender, job, discarded>> /\ j \in timed
    BY <1>6 DEF OfferTimed, senderVars, shutdownVars
  <2>2. j \in Ready /\ Of(j) \notin WithSender /\ Of(j) \notin TurnedAway
    BY <1>0, <1>6, <2>1, OfferTimedMoves, Apart DEF Ready, TurnedAway
  <2> QED
    BY <1>4, <1>6, <2>1, <2>2, OfferTimedMoves
<1>7. ASSUME NEW j \in Jobs, TimerFires(j) PROVE [Contract!Next]_(Contract!vars)
  <2>1. UNCHANGED <<quit, down, earlyJobs, posts, sender, job, jobs, overflowed>> /\ j \in timers
    BY <1>7 DEF TimerFires, senderVars, shutdownVars
  <2>2. \A i \in Jobs : Held(i)' <=> Held(i)
    BY <2>1, SamePlace DEF Held
  <2>3. CASE discarded' = discarded
    BY <1>1, <2>1, <2>2, <2>3 DEF TurnedAway
  <2>4. CASE discarded' = discarded \cup {Of(j)}
    <3>1. /\ j \in Ready /\ Of(j) \notin InQueue /\ Of(j) \notin WithSender
          /\ Of(j) \notin TurnedAway
      BY <1>0, <1>7, <2>1, TimerMoves, Apart DEF Ready, TurnedAway
    <3>2. ~Held(j)
      BY <1>0, <3>1, JobFacts, BusyFacts DEF Held, InQueue
    <3>3. ~Held(j)' /\ TurnedAway' = TurnedAway \cup {Of(j)}
      BY <2>1, <2>2, <2>4, <3>2 DEF TurnedAway
    <3>4. posts[Of(j)] = j.attempt
      BY <1>0, <3>1 DEF PostInv
    <3> QED
      BY <1>2, <2>1, <2>2, <3>1, <3>2, <3>3, <3>4
  <2> QED
    BY <1>7, <2>3, <2>4 DEF TimerFires
<1>8. ASSUME NEW h \in Hooks, FanOut(h) PROVE [Contract!Next]_(Contract!vars)
  <2> DEFINE d == <<current, h>>
  <2>1. UNCHANGED <<quit, down, earlyJobs, posts, sender, job, jobs, overflowed>>
    BY <1>8 DEF FanOut, senderVars, shutdownVars
  <2>2. \A i \in Jobs : Held(i)' <=> Held(i)
    BY <2>1, SamePlace DEF Held
  <2>3. CASE discarded' = discarded
    BY <1>1, <2>1, <2>2, <2>3 DEF TurnedAway
  <2>4. CASE discarded' = discarded \cup {d}
    <3>1. d \in ToFanOut /\ d \notin InQueue /\ d \notin WithSender /\ d \notin TurnedAway
      BY <1>0, <1>8, FanOutMoves, Apart DEF TurnedAway
    <3>2. posts[d] = 0 /\ current \in Events
      BY <1>0, <1>8, <3>1 DEF PostInv, FanOut, TypeOK
    <3>3. PICK j \in Jobs : j = [event |-> current, hook |-> h, attempt |-> 0]
      <4>1. [event |-> current, hook |-> h, attempt |-> 0] \in Jobs
        BY <3>2, SizesAssumption DEF Jobs
      <4> QED
        BY <4>1
    <3>4. Of(j) = d /\ j.attempt = 0
      BY <3>3 DEF Of
    <3>5. ~Held(j)
      BY <1>0, <3>1, <3>4, JobFacts, BusyFacts DEF Held, InQueue
    <3>6. ~Held(j)' /\ TurnedAway' = TurnedAway \cup {Of(j)}
      BY <2>1, <2>2, <2>4, <3>4, <3>5 DEF TurnedAway
    <3> QED
      BY <1>2, <2>1, <2>2, <3>1, <3>2, <3>4, <3>5, <3>6
  <2> QED
    BY <1>8, <2>3, <2>4 DEF FanOut
<1>9. ASSUME NEW s \in Senders, ReceiveJob(s) PROVE [Contract!Next]_(Contract!vars)
  <2>1. /\ UNCHANGED <<quit, down, earlyJobs, posts, overflowed, discarded>>
        /\ job' = [job EXCEPT ![s] = Head(jobs)] /\ Stage(s, "post") /\ sender[s][2] = "wait"
    BY <1>9 DEF ReceiveJob, shutdownVars
  <2>2. /\ sender'[s][2] = "post" /\ \A r \in Senders : r # s => sender'[r] = sender[r]
    BY <1>0, <2>1, StageFacts
  <2>3. /\ job'[s] = Head(jobs) /\ \A r \in Senders : r # s => job'[r] = job[r]
        /\ Head(jobs) \in Queued /\ Queued' = Queued \ {Head(jobs)}
    BY <1>0, <1>9, <2>1, ReceiveMoves DEF TypeOK
  <2>4. \A i \in Jobs : Held(i)' <=> Held(i)
    <3> SUFFICES ASSUME NEW i \in Jobs PROVE Held(i)' <=> Held(i)
      OBVIOUS
    <3>1. CASE i = Head(jobs)
      BY <2>2, <2>3, <3>1 DEF Held
    <3>2. CASE i # Head(jobs)
      BY <2>1, <2>2, <2>3, <3>2 DEF Held
    <3> QED
      BY <3>1, <3>2
  <2> QED
    BY <1>1, <2>1, <2>4 DEF TurnedAway
<1>10. ASSUME NEW s \in Senders, Bookkeep(s) PROVE [Contract!Next]_(Contract!vars)
  <2>1. /\ UNCHANGED <<quit, down, earlyJobs, posts, overflowed, discarded, jobs>>
        /\ Stage(s, "wait") /\ sender[s][2] # "post"
    BY <1>10 DEF Bookkeep, shutdownVars
  <2>2. /\ sender'[s][2] = "wait"
        /\ \A r \in Senders : r # s => sender'[r] = sender[r] /\ job'[r] = job[r]
    BY <1>0, <1>10, <2>1, StageFacts, BookkeepMoves, SenderLets
  <2>3. \A i \in Jobs : Held(i)' <=> Held(i)
    BY <2>1, <2>2, SamePlace DEF Held
  <2> QED
    BY <1>1, <2>1, <2>3 DEF TurnedAway
<1>11. ASSUME NEW s \in Senders, SendQuit(s) PROVE [Contract!Next]_(Contract!vars)
  <2>1. UNCHANGED <<quit, down, earlyJobs, posts, overflowed, discarded, jobs, job>>
    BY <1>11 DEF SendQuit, shutdownVars
  <2>2. \A r \in Senders : sender'[r][2] = sender[r][2]
    BY <1>0, <1>11, LoopFacts DEF SendQuit
  <2>3. \A i \in Jobs : Held(i)' <=> Held(i)
    BY <2>1, <2>2, SamePlace DEF Held
  <2> QED
    BY <1>1, <2>1, <2>3 DEF TurnedAway
<1>12. ASSUME \/ \E h \in Hooks, t \in Tenants :
                    DeleteForTenant(h, t) \/ \E body \in Bodies : Create(h, t, body)
              \/ \E e \in Events : Emit(e) \/ EmitterStep(e)
              \/ ResolveEvent \/ ResolveEnd \/ ResolveQuit
              \/ UNCHANGED vars
       PROVE  [Contract!Next]_(Contract!vars)
  <2>1. UNCHANGED <<quit, down, earlyJobs, posts, overflowed, discarded, sender, job, jobs>>
    BY <1>12 DEF DeleteForTenant, Create, Emit, EmitterStep, DispatchCheck, DispatchSend,
                 ResolveEvent, ResolveEnd, ResolveQuit, vars, senderVars, shutdownVars
  <2>2. \A i \in Jobs : Held(i)' <=> Held(i)
    BY <2>1, SamePlace DEF Held
  <2> QED
    BY <1>1, <2>1, <2>2 DEF TurnedAway
<1>13. ASSUME UNCHANGED <<posts, overflowed, discarded, sender, job, jobs>>
       PROVE  status' = status
  <2>1. \A i \in Jobs : Held(i)' <=> Held(i)
    BY <1>13, SamePlace DEF Held
  <2> QED
    BY <1>13, <2>1, SameStanding DEF TurnedAway
<1>14. ASSUME CloseQuit PROVE [Contract!Next]_(Contract!vars)
  <2>1. /\ UNCHANGED <<posts, overflowed, discarded, sender, job, jobs>>
        /\ down = "no" /\ down' = "waiting" /\ quit' = TRUE
        /\ earlyJobs' = Queued \cup {job[s] : s \in {r \in Senders : sender[r][2] = "post"}}
    BY <1>14 DEF CloseQuit, senderVars, Queued
  <2>2. ~quit
    BY <1>0, <2>1 DEF ShutdownInv
  <2>3. \A j \in Jobs : j \in earlyJobs' <=> Held(j)
    BY <2>1 DEF Held
  <2>4. earlyJobs' \subseteq Jobs
    BY DEF Inv, TypeOK
  <2>5. \A j \in Jobs : Held(j) <=> Standing(j) = "taken"
    <3>1. StandingInv
      BY StandingFacts
    <3>2. \A j \in Jobs : posts[Of(j)] = j.attempt => ~(posts[Of(j)] > j.attempt)
      BY JobFacts
    <3> QED
      BY <3>1, <3>2 DEF StandingInv
  <2>6. earlyJobs' = Contract!In("taken")
    BY <2>3, <2>4, <2>5 DEF Contract!In
  <2>7. status' = status
    BY <1>13, <2>1
  <2>8. Contract!Close
    BY <2>1, <2>2, <2>6, <2>7 DEF Contract!Close
  <2> QED
    BY <2>8 DEF Contract!Next
<1>15. ASSUME Drained \/ DeadlineExceeded PROVE [Contract!Next]_(Contract!vars)
  <2>1. /\ UNCHANGED <<quit, earlyJobs, posts, overflowed, discarded, sender, job, jobs>>
        /\ down = "waiting" /\ down' \in {"drained", "deadline"}
    BY <1>15 DEF Drained, DeadlineExceeded, senderVars
  <2>2. quit
    BY <1>0, <2>1 DEF ShutdownInv
  <2>3. status' = status
    BY <1>13, <2>1
  <2>4. down' = "drained" => earlyJobs \subseteq Contract!In("settled")
    <3> SUFFICES ASSUME down' = "drained", NEW j \in earlyJobs
                 PROVE  j \in Contract!In("settled")
      OBVIOUS
    <3>1. \A s \in Senders : sender[s][1] = "exit"
      BY <1>15 DEF Drained, DeadlineExceeded
    <3>2. \A s \in Senders : sender[s][2] # "post"
      BY <1>0, <3>1 DEF SenderInv
    <3>3. j \notin Queued
      BY <1>0, <3>1 DEF ShutdownInv
    <3>4. j \in Jobs /\ posts[Of(j)] > j.attempt
      BY <1>0, <3>2, <3>3 DEF ShutdownInv, TypeOK
    <3>5. Standing(j) = "settled"
      BY <3>4, StandingFacts DEF StandingInv
    <3> QED
      BY <3>4, <3>5 DEF Contract!In
  <2>5. Contract!Report(down')
    BY <2>1, <2>2, <2>3, <2>4 DEF Contract!Report
  <2> QED
    BY <2>1, <2>5 DEF Contract!Next
<1> QED
  BY <1>3, <1>5, <1>6, <1>7, <1>8, <1>9, <1>10, <1>11, <1>12, <1>14, <1>15
  DEF Next, ResolverStep, SenderStep, TimerStep

\* A dispatcher with at least one sender keeps the hand-off: each attempt of a
\* delivery is taken or turned away once, posted once, and a Shutdown that
\* reports success has posted every job it found queued or with a sender.
\* (Config.Validate does not ask for WEBHOOK_WORKERS >= 1: without senders
\* Shutdown reports success over a channel full of jobs.)
THEOREM HandoffCorrect ==
    ASSUME Senders # {}
    PROVE  Spec => IsHandoff
<1>1. Inv /\ Inv' /\ [Next]_vars => [Contract!Next]_(Contract!vars)
  BY HandoffStep
<1> QED
  BY HandoffInit, <1>1, Invariance, PTL DEF Spec, IsHandoff, Contract!Safety
-----------------------------------------------------------------------------
(* Losses are counted, and the drain looks up every event.                  *)

\* Events that met a full channel (overflowed are the jobs that did), and events
\* that came too late.
Turned == {e \in Events : emitter[e] = "dropped"}
Refused == {e \in Events : emitter[e] = "refused"}

\* The drop counter is the number of events and jobs that met a full channel,
\* and while the dispatcher runs neither Dispatch nor enqueueJob turns anything
\* else away.
LossesCounted ==
    /\ dropped = Cardinality(Turned) + Cardinality(overflowed)
    /\ ~quit => Refused = {} /\ discarded = {}

\* When Shutdown reports success, no event it found in the channel is there any
\* more, nor is one in the middle of its fan-out.  (That their deliveries are
\* made is what QueuedEventsDelivered refutes: quit is closed when they are
\* fanned out.)
DrainLooksUp == down = "drained" => earlyEvents \cap Waiting = {} /\ current = None

LossInv ==
    /\ IsFiniteSet(Turned) /\ IsFiniteSet(overflowed)
    /\ LossesCounted
DrainInv ==
    /\ ~quit => earlyEvents = {} /\ resolver = "select"
    /\ \A e \in earlyEvents : emitter[e] = "queued"
    /\ resolver = "exit" => earlyEvents \cap Waiting = {} /\ current = None
    /\ down = "drained" => resolver = "exit"

\* A step that touches no counter, no outcome and no Dispatch call's end.
LEMMA SameLosses ==
    ASSUME LossInv, UNCHANGED <<dropped, overflowed, discarded>>, quit => quit',
           Turned' = Turned, quit \/ Refused' = Refused
    PROVE  LossInv'
  BY DEF LossInv, LossesCounted

\* A job that meets a full channel adds one to the counter and to the losses.
LEMMA OfferCounts ==
    ASSUME LossInv, NEW j \in Jobs, Offer(j), Of(j) \notin overflowed,
           UNCHANGED <<emitter, discarded, quit>>
    PROVE  LossInv'
<1>1. Turned' = Turned /\ Refused' = Refused
  BY DEF Turned, Refused
<1>2. CASE UNCHANGED <<dropped, overflowed>>
  BY <1>1, <1>2, SameLosses
<1>3. CASE dropped' = dropped + 1 /\ overflowed' = overflowed \cup {Of(j)}
  <2>1. /\ IsFiniteSet(overflowed') /\ Cardinality(overflowed') = Cardinality(overflowed) + 1
    BY <1>3, FS_AddElement DEF LossInv
  <2>2. Cardinality(Turned) \in Nat /\ Cardinality(overflowed) \in Nat
    BY FS_CardinalityType DEF LossInv
  <2> QED
    BY <1>1, <1>3, <2>1, <2>2 DEF LossInv, LossesCounted
<1> QED
  BY <1>2, <1>3 DEF Offer

\* An event that meets a full channel adds one to the counter and to the losses.
LEMMA SendCounts ==
    ASSUME TypeOK, LossInv, NEW e \in Events, DispatchSend(e)
    PROVE  LossInv'
<1>0. /\ emitter \in [Events -> {"idle", "check", "send", "queued", "dropped", "refused"}]
      /\ emitter[e] = "send" /\ UNCHANGED <<overflowed, discarded, quit>>
  BY DEF TypeOK, DispatchSend, shutdownVars
<1>1. CASE UNCHANGED dropped /\ emitter' = [emitter EXCEPT ![e] = "queued"]
  <2>1. Turned' = Turned /\ Refused' = Refused
    BY <1>0, <1>1 DEF Turned, Refused
  <2> QED
    BY <1>0, <1>1, <2>1, SameLosses
<1>2. CASE dropped' = dropped + 1 /\ emitter' = [emitter EXCEPT ![e] = "dropped"]
  <2>1. Turned' = Turned \cup {e} /\ e \notin Turned /\ Refused' = Refused
    BY <1>0, <1>2 DEF Turned, Refused
  <2>2. /\ IsFiniteSet(Turned') /\ Cardinality(Turned') = Cardinality(Turned) + 1
    BY <2>1, FS_AddElement DEF LossInv
  <2>3. Cardinality(Turned) \in Nat /\ Cardinality(overflowed) \in Nat
    BY FS_CardinalityType DEF LossInv
  <2> QED
    BY <1>0, <1>2, <2>1, <2>2, <2>3 DEF LossInv, LossesCounted
<1> QED
  BY <1>1, <1>2 DEF DispatchSend

\* Every step keeps the counter and the losses in line.
LEMMA LossKept == Inv /\ LossInv /\ [Next]_vars => LossInv'
<1> SUFFICES ASSUME Inv, LossInv, [Next]_vars PROVE LossInv'
  OBVIOUS
<1>0. TypeOK /\ OnePlaceInv /\ LossesCounted
  BY DEF Inv, LossInv
<1>1. ASSUME UNCHANGED <<emitter, dropped, overflowed, discarded, quit>> PROVE LossInv'
  BY <1>1, SameLosses DEF Turned, Refused
<1>2. ASSUME NEW e \in Events, Emit(e) \/ DispatchCheck(e) PROVE LossInv'
  <2>1. /\ emitter[e] \in {"idle", "check"} /\ UNCHANGED <<dropped, overflowed, discarded, quit>>
        /\ \E x \in {"check", "refused", "send"} :
              emitter' = [emitter EXCEPT ![e] = x] /\ (x = "refused" => quit)
    BY <1>2 DEF Emit, DispatchCheck, shutdownVars
  <2>2. Turned' = Turned /\ (quit \/ Refused' = Refused)
    BY <1>0, <2>1 DEF Turned, Refused, TypeOK
  <2> QED
    BY <2>1, <2>2, SameLosses
<1>3. ASSUME NEW e \in Events, DispatchSend(e) PROVE LossInv'
  BY <1>0, <1>3, SendCounts
<1>4. ASSUME OfferFanOut PROVE LossInv'
  <2>1. offering \in Jobs /\ Offer(offering) /\ Of(offering) \notin overflowed
    BY <1>0, <1>4, OfferFanOutMoves, Apart
  <2>2. UNCHANGED <<emitter, discarded, quit>>
    BY <1>4 DEF OfferFanOut, shutdownVars
  <2> QED
    BY <2>1, <2>2, OfferCounts
<1>5. ASSUME NEW j \in Jobs, OfferTimed(j) PROVE LossInv'
  <2>1. Of(j) \in Timed
    BY <1>5, JobFacts DEF OfferTimed, Timed
  <2>2. Offer(j) /\ UNCHANGED <<emitter, discarded, quit>>
    BY <1>5 DEF OfferTimed, shutdownVars
  <2> QED
    BY <1>0, <2>1, <2>2, Apart, OfferCounts
<1>6. ASSUME (\E h \in Hooks : FanOut(h)) \/ \E j \in Jobs : TimerFires(j) PROVE LossInv'
  <2>1. UNCHANGED <<emitter, dropped, overflowed, quit>> /\ (quit \/ discarded' = discarded)
    BY <1>6 DEF FanOut, TimerFires, shutdownVars
  <2> QED
    BY <2>1 DEF LossInv, LossesCounted, Turned, Refused
<1>7. ASSUME CloseQuit PROVE LossInv'
  BY <1>7, SameLosses DEF CloseQuit, Turned, Refused
<1>8. ASSUME NEW s \in Senders, SenderStep(s) PROVE LossInv'
  BY <1>1, <1>8 DEF SenderStep, ReceiveJob, PostOk, PostFails, Bookkeep, SendQuit, shutdownVars
<1>9. ASSUME ResolveEvent \/ ResolveEnd \/ ResolveQuit \/ Drained \/ DeadlineExceeded
             \/ UNCHANGED vars
      PROVE  LossInv'
  BY <1>1, <1>9 DEF ResolveEvent, ResolveEnd, ResolveQuit, Drained, DeadlineExceeded, vars,
     shutdownVars
<1>10. ASSUME NEW h \in Hooks, NEW t \in Tenants,
              DeleteForTenant(h, t) \/ \E body \in Bodies : Create(h, t, body)
       PROVE  LossInv'
  BY <1>1, <1>10 DEF DeleteForTenant, Create, shutdownVars
<1> QED
  BY <1>2, <1>3, <1>4, <1>5, <1>6, <1>7, <1>8, <1>9, <1>10
  DEF Next, EmitterStep, ResolverStep, TimerStep

\* Dropped reports the events and jobs that met a full channel, each once, and
\* before quit neither Dispatch nor enqueueJob turns anything away that it does
\* not report (dispatcher.go).  An event whose lookup of subscribers fails is
\* lost as well, and no counter says so (dispatcher.go:150-152).
THEOREM LossesCountedCorrect == Spec => []LossesCounted
<1>1. Init => LossInv
  <2> SUFFICES ASSUME Init PROVE LossInv
    OBVIOUS
  <2>1. Turned = {} /\ Refused = {} /\ overflowed = {} /\ dropped = 0 /\ discarded = {}
    BY DEF Init, Turned, Refused
  <2> QED
    BY <2>1, FS_EmptySet DEF LossInv, LossesCounted
<1>2. LossInv => LossesCounted
  BY DEF LossInv
<1> QED
  BY <1>1, <1>2, LossKept, Invariance, PTL DEF Spec

\* Every step keeps what the drain of the resolver rests on: what was in the
\* channel when quit closed is not put there again, and the resolver leaves only
\* when the channel is empty and its last event fanned out.
LEMMA DrainKept == Inv /\ DrainInv /\ [Next]_vars => DrainInv'
<1> SUFFICES ASSUME Inv, DrainInv, [Next]_vars PROVE DrainInv'
  OBVIOUS
<1>0. /\ TypeOK /\ events \in Seq(Events) /\ \A e \in Waiting : emitter[e] = "queued"
      /\ quit <=> down # "no"
  BY DEF Inv, TypeOK, QueueInv, ShutdownInv
<1>1. ASSUME UNCHANGED <<emitter, events, resolver, current, quit, down, earlyEvents>>
      PROVE  DrainInv'
  BY <1>1, SamePlace DEF DrainInv
<1>2. ASSUME NEW e \in Events, Emit(e) \/ DispatchCheck(e) PROVE DrainInv'
  <2>1. /\ emitter[e] \in {"idle", "check"}
        /\ \E x : emitter' = [emitter EXCEPT ![e] = x]
        /\ UNCHANGED <<events, resolver, current, quit, down, earlyEvents>>
    BY <1>2 DEF Emit, DispatchCheck, shutdownVars, resolverVars
  <2>2. \A f \in earlyEvents : emitter'[f] = "queued"
    BY <1>0, <2>1 DEF DrainInv, TypeOK
  <2> QED
    BY <2>1, <2>2, SamePlace DEF DrainInv
<1>3. ASSUME NEW e \in Events, DispatchSend(e) PROVE DrainInv'
  <2>1. /\ emitter[e] = "send" /\ events' \in {Append(events, e), events}
        /\ \E x : emitter' = [emitter EXCEPT ![e] = x]
        /\ UNCHANGED <<resolver, current, quit, down, earlyEvents>>
    BY <1>3 DEF DispatchSend, shutdownVars, resolverVars
  <2>2. Waiting' \subseteq Waiting \cup {e}
    BY <1>0, <2>1, Sent, SamePlace DEF Waiting
  <2>3. e \notin earlyEvents /\ \A f \in earlyEvents : emitter'[f] = "queued"
    BY <1>0, <2>1 DEF DrainInv, TypeOK
  <2> QED
    BY <2>1, <2>2, <2>3 DEF DrainInv
<1>4. ASSUME ResolveEvent PROVE DrainInv'
  <2>1. resolver # "exit" /\ UNCHANGED <<emitter, resolver, quit, down, earlyEvents>>
    BY <1>4 DEF ResolveEvent, shutdownVars
  <2> QED
    BY <2>1 DEF DrainInv
<1>5. ASSUME ResolveEnd PROVE DrainInv'
  BY <1>5, SamePlace DEF ResolveEnd, DrainInv, shutdownVars
<1>6. ASSUME ResolveQuit PROVE DrainInv'
  <2>1. /\ UNCHANGED <<emitter, events, current, quit, down, earlyEvents>> /\ current = None
        /\ \/ resolver = "select" /\ quit /\ resolver' = "drain"
           \/ resolver = "drain" /\ events = <<>> /\ resolver' = "exit"
    BY <1>6 DEF ResolveQuit, shutdownVars
  <2>2. events = <<>> => Waiting = {}
    BY DEF Waiting
  <2> QED
    BY <2>1, <2>2, SamePlace DEF DrainInv
<1>7. ASSUME CloseQuit PROVE DrainInv'
  <2>1. /\ down = "no" /\ quit' /\ down' = "waiting" /\ earlyEvents' = Waiting
        /\ UNCHANGED <<emitter, events, resolver, current>>
    BY <1>7 DEF CloseQuit, Waiting, resolverVars
  <2> QED
    BY <1>0, <2>1 DEF DrainInv
<1>8. ASSUME Drained \/ DeadlineExceeded PROVE DrainInv'
  BY <1>8, SamePlace DEF Drained, DeadlineExceeded, DrainInv, resolverVars
<1>9. ASSUME \/ \E h \in Hooks : FanOut(h)
             \/ OfferFanOut
             \/ \E j \in Jobs : TimerFires(j) \/ OfferTimed(j)
             \/ UNCHANGED vars
      PROVE  DrainInv'
  BY <1>1, <1>9 DEF FanOut, OfferFanOut, TimerFires, OfferTimed, vars, resolverVars, shutdownVars
<1>10. ASSUME NEW s \in Senders, SenderStep(s) PROVE DrainInv'
  BY <1>1, <1>10 DEF SenderStep, ReceiveJob, PostOk, PostFails, Bookkeep, SendQuit,
     resolverVars, shutdownVars
<1>11. ASSUME NEW h \in Hooks, NEW t \in Tenants,
              DeleteForTenant(h, t) \/ \E body \in Bodies : Create(h, t, body)
       PROVE  DrainInv'
  BY <1>1, <1>11 DEF DeleteForTenant, Create, resolverVars, shutdownVars
<1> QED
  BY <1>2, <1>3, <1>4, <1>5, <1>6, <1>7, <1>8, <1>9, <1>10, <1>11
  DEF Next, EmitterStep, ResolverStep, TimerStep

\* resolveLoop drains its channel before it returns (dispatcher.go:132): what it
\* keeps of that promise is that no queued event is left unresolved.
THEOREM DrainLooksUpCorrect == Spec => []DrainLooksUp
<1>1. Init => DrainInv
  BY DEF Init, DrainInv
<1>2. DrainInv => DrainLooksUp
  BY DEF DrainInv, DrainLooksUp
<1> QED
  BY <1>1, <1>2, DrainKept, Invariance, PTL DEF Spec
=============================================================================
