----------------------------- MODULE Dispatcher -----------------------------
(***************************************************************************)
(* The webhook dispatcher (internal/webhook/dispatcher.go) over the        *)
(* webhooks table (internal/repository/webhook.go): events are queued, one *)
(* resolver fans each out to the active subscribers, a pool of senders     *)
(* posts the jobs, failed posts come back through timers, and repeated     *)
(* failures dead-letter a webhook.  Tenants register and delete webhooks   *)
(* (internal/handler/webhook.go, internal/service/webhook.go) meanwhile.   *)
(* Channel operations, database calls and POSTs are separate steps.         *)
(***************************************************************************)
EXTENDS Integers, Sequences, FiniteSets

CONSTANTS
    Events, Hooks, Tenants,
    TenantOf, TypeOf,
                   \* the tenant and the type of each event
    Bodies,        \* decoded bodies a tenant may POST to /webhooks
    Senders,       \* WEBHOOK_WORKERS goroutines
    QueueSize,     \* capacity of the events and of the jobs channel
    MaxRetries,    \* retries after the first attempt
    DisableAfter,  \* consecutive failed deliveries that dead-letter a hook
    None

EventTypes == {"link.created", "link.clicked"}

ASSUME SizesAssumption ==
    /\ QueueSize \in Nat \ {0} /\ MaxRetries \in Nat /\ DisableAfter \in Nat \ {0}
ASSUME EventsAssumption ==
    TenantOf \in [Events -> Tenants] /\ TypeOf \in [Events -> EventTypes]
\* url says whether validateWebhookURL accepts the URL.
ASSUME BodiesAssumption ==
    Bodies \subseteq [url: BOOLEAN, events: Seq(EventTypes \cup {"unknown"})]

Jobs == [event: Events, hook: Hooks, attempt: 0..MaxRetries]
Deliveries == Events \X Hooks
Of(j) == <<j.event, j.hook>>

ASSUME NoneAssumption == None \notin Jobs \cup Events \cup Tenants

VARIABLES
    quit,
    emitter,     \* where the Dispatch call of each event stands
    events,      \* the events channel
    dropped,     \* the drop counter, for events and for jobs
    hooks,       \* the webhooks table
    resolver,    \* where resolveLoop stands
    current,     \* the event being fanned out
    fanout,      \* its subscribers still to be enqueued
    offering,    \* the resolver's job between the quit check and the send
    timed,       \* timer jobs between the quit check and the send
    jobs,        \* the jobs channel
    timers,      \* retries waiting for their backoff
    sender, job, \* where each sender stands, and the job it works on
    posts,       \* POSTs made so far, per delivery
    delivered, gaveUp, overflowed, discarded,
                 \* deliveries that succeeded, failed for good, met a full
                 \* queue, or were let go because quit was closed
    down,        \* where the Shutdown call stands
    earlyJobs, earlyEvents
                 \* history: the jobs in the channel or about to be posted, and
                 \* the events in their channel, when quit was closed

tableVars == <<hooks>>
resolverVars == <<resolver, current, fanout, offering>>
senderVars == <<sender, job, posts, delivered, gaveUp>>
shutdownVars == <<quit, down, earlyJobs, earlyEvents>>
vars == <<quit, emitter, events, dropped, hooks, resolver, current, fanout,
          offering, timed, jobs, timers, sender, job, posts, delivered, gaveUp,
          overflowed, discarded, down, earlyJobs, earlyEvents>>

\* A row that is gone keeps its columns: nothing reads them but properties.
HookRows == [state: {"absent", "present", "gone"}, tenant: Tenants \cup {None},
             events: SUBSET EventTypes, active: BOOLEAN, failures: Nat,
             disabled: BOOLEAN]

\* Includes the capacity of the queues, and that a delivery is posted at most
\* 1 + MaxRetries times.
TypeOK ==
    /\ quit \in BOOLEAN
    /\ emitter \in [Events -> {"idle", "check", "send", "queued", "dropped", "refused"}]
    /\ events \in Seq(Events) /\ Len(events) <= QueueSize
    /\ dropped \in Nat
    /\ hooks \in [Hooks -> HookRows]
    /\ resolver \in {"select", "drain", "exit"}
    /\ current \in Events \cup {None}
    /\ fanout \subseteq Hooks
    /\ offering \in Jobs \cup {None}
    /\ timed \subseteq Jobs
    /\ jobs \in Seq(Jobs) /\ Len(jobs) <= QueueSize
    /\ timers \subseteq Jobs
    /\ sender \in [Senders -> {"select", "drain", "exit"}
                              \X {"wait", "post", "succeed", "fail"}]
    /\ job \in [Senders -> Jobs \cup {None}]
    /\ posts \in [Deliveries -> 0..MaxRetries + 1]
    /\ delivered \subseteq Deliveries /\ gaveUp \subseteq Deliveries
    /\ overflowed \subseteq Deliveries /\ discarded \subseteq Deliveries
    /\ down \in {"no", "waiting", "drained", "deadline"}
    /\ earlyJobs \subseteq Jobs /\ earlyEvents \subseteq Events

Init ==
    /\ quit = FALSE
    /\ emitter = [e \in Events |-> "idle"]
    /\ events = <<>> /\ dropped = 0
    /\ hooks = [h \in Hooks |-> [state |-> "absent", tenant |-> None, events |-> {},
                                 active |-> TRUE, failures |-> 0, disabled |-> FALSE]]
    /\ resolver = "select" /\ current = None /\ fanout = {} /\ offering = None
    /\ timed = {} /\ jobs = <<>> /\ timers = {}
    /\ sender = [s \in Senders |-> <<"select", "wait">>]
    /\ job = [s \in Senders |-> None]
    /\ posts = [d \in Deliveries |-> 0]
    /\ delivered = {} /\ gaveUp = {} /\ overflowed = {} /\ discarded = {}
    /\ down = "no" /\ earlyJobs = {} /\ earlyEvents = {}

-----------------------------------------------------------------------------
(* WebhookHandler, WebhookService and WebhookRepository.                    *)

Present(h) == hooks[h].state = "present"

\* At least one event type, and none that is unknown.
validateEvents(types) == types # <<>> /\ \A n \in DOMAIN types : types[n] \in EventTypes
dedupeEvents(types) == {types[n] : n \in DOMAIN types}

\* The row INSERT INTO webhooks makes: active, and without failures.
Inserted(t, types) ==
    [state |-> "present", tenant |-> t, events |-> types,
     active |-> TRUE, failures |-> 0, disabled |-> FALSE]

\* POST /webhooks inserts a row; a body that is not valid changes nothing.
Create(h, t, body) ==
    /\ hooks[h].state = "absent"
    /\ body.url /\ validateEvents(body.events)
    /\ hooks' = [hooks EXCEPT ![h] = Inserted(t, dedupeEvents(body.events))]
    /\ UNCHANGED <<emitter, events, dropped, resolverVars, timed, jobs, timers,
                   senderVars, overflowed, discarded, shutdownVars>>

\* DELETE /webhooks/:id by tenant t: somebody else's webhook is not found.
DeleteForTenant(h, t) ==
    /\ Present(h) /\ hooks[h].tenant = t
    /\ hooks' = [hooks EXCEPT ![h].state = "gone"]
    /\ UNCHANGED <<emitter, events, dropped, resolverVars, timed, jobs, timers,
                   senderVars, overflowed, discarded, shutdownVars>>

\* The mistake of a lookup without the tenant.
ListActiveForType(e) ==
    {h \in Hooks : Present(h) /\ hooks[h].active /\ TypeOf[e] \in hooks[h].events}
ListActiveForEvent(e) ==
    {h \in Hooks : /\ Present(h) /\ hooks[h].active
                   /\ hooks[h].tenant = TenantOf[e] /\ TypeOf[e] \in hooks[h].events}

\* UPDATE ... SET failure_count = 0: no row, no effect.
RecordSuccess(h) ==
    hooks' = IF Present(h) THEN [hooks EXCEPT ![h].failures = 0] ELSE hooks

\* The mistake of disabling one failure late.
AfterFailureLate(row) ==
    [row EXCEPT !.failures = @ + 1,
                !.active = row.failures + 1 <= DisableAfter,
                !.disabled = @ \/ row.failures + 1 >= DisableAfter]
\* The row RecordFailure writes: active is recomputed from the counter.
AfterFailure(row) ==
    [row EXCEPT !.failures = @ + 1,
                !.active = row.failures + 1 < DisableAfter,
                !.disabled = @ \/ row.failures + 1 >= DisableAfter]
RecordFailure(h) ==
    hooks' = IF Present(h) THEN [hooks EXCEPT ![h] = AfterFailure(@)] ELSE hooks

-----------------------------------------------------------------------------
(* Dispatch: look at quit, then offer the event without blocking.           *)

Emit(e) ==
    /\ emitter[e] = "idle"
    /\ emitter' = [emitter EXCEPT ![e] = "check"]
    /\ UNCHANGED <<events, dropped, tableVars, resolverVars, timed, jobs, timers,
                   senderVars, overflowed, discarded, shutdownVars>>

DispatchCheck(e) ==
    /\ emitter[e] = "check"
    /\ emitter' = [emitter EXCEPT ![e] = IF quit THEN "refused" ELSE "send"]
    /\ UNCHANGED <<events, dropped, tableVars, resolverVars, timed, jobs, timers,
                   senderVars, overflowed, discarded, shutdownVars>>

DispatchSend(e) ==
    /\ emitter[e] = "send"
    /\ \/ /\ Len(events) < QueueSize
          /\ events' = Append(events, e)
          /\ emitter' = [emitter EXCEPT ![e] = "queued"]
          /\ UNCHANGED dropped
       \/ /\ Len(events) = QueueSize
          /\ dropped' = dropped + 1
          /\ emitter' = [emitter EXCEPT ![e] = "dropped"]
          /\ UNCHANGED events
    /\ UNCHANGED <<tableVars, resolverVars, timed, jobs, timers, senderVars,
                   overflowed, discarded, shutdownVars>>

-----------------------------------------------------------------------------
(* resolveLoop and resolve.                                                 *)

\* Receive an event and look up its subscribers; a failed lookup drops it.
ResolveEvent ==
    /\ resolver # "exit" /\ current = None /\ events # <<>>
    /\ current' = Head(events)
    /\ events' = Tail(events)
    /\ fanout' \in {ListActiveForEvent(Head(events)), {}}
    /\ UNCHANGED <<emitter, dropped, tableVars, resolver, offering, timed, jobs,
                   timers, senderVars, overflowed, discarded, shutdownVars>>

\* enqueueJob, first half: with quit closed the job is let go.
FanOut(h) ==
    /\ current # None /\ offering = None /\ h \in fanout
    /\ fanout' = fanout \ {h}
    /\ IF quit
       THEN discarded' = discarded \cup {<<current, h>>} /\ UNCHANGED offering
       ELSE /\ offering' = [event |-> current, hook |-> h, attempt |-> 0]
            /\ UNCHANGED discarded
    /\ UNCHANGED <<emitter, events, dropped, tableVars, resolver, current, timed,
                   jobs, timers, senderVars, overflowed, shutdownVars>>

\* enqueueJob, second half: into the channel, or dropped and counted.
Offer(j) ==
    \/ /\ Len(jobs) < QueueSize
       /\ jobs' = Append(jobs, j)
       /\ UNCHANGED <<dropped, overflowed>>
    \/ /\ Len(jobs) = QueueSize
       /\ dropped' = dropped + 1
       /\ overflowed' = overflowed \cup {Of(j)}
       /\ UNCHANGED jobs

OfferFanOut ==
    /\ offering # None
    /\ Offer(offering)
    /\ offering' = None
    /\ UNCHANGED <<emitter, events, tableVars, resolver, current, fanout, timed,
                   timers, senderVars, discarded, shutdownVars>>

ResolveEnd ==
    /\ current # None /\ fanout = {} /\ offering = None
    /\ current' = None
    /\ UNCHANGED <<emitter, events, dropped, tableVars, resolver, fanout,
                   offering, timed, jobs, timers, senderVars, overflowed,
                   discarded, shutdownVars>>

\* The mistake of looking at quit only when there is an event.
ResolveQuitOnEvent ==
    /\ current = None
    /\ \/ resolver = "select" /\ quit /\ events # <<>> /\ resolver' = "drain"
       \/ resolver = "drain" /\ events = <<>> /\ resolver' = "exit"
    /\ UNCHANGED <<emitter, events, dropped, tableVars, current, fanout,
                   offering, timed, jobs, timers, senderVars, overflowed,
                   discarded, shutdownVars>>
\* quit wakes the idle loop up; it exits when the events channel is empty.
ResolveQuit ==
    /\ current = None
    /\ \/ resolver = "select" /\ quit /\ resolver' = "drain"
       \/ resolver = "drain" /\ events = <<>> /\ resolver' = "exit"
    /\ UNCHANGED <<emitter, events, dropped, tableVars, current, fanout,
                   offering, timed, jobs, timers, senderVars, overflowed,
                   discarded, shutdownVars>>

-----------------------------------------------------------------------------
(* sendLoop and deliver.                                                    *)

Stage(s, stage) == sender' = [sender EXCEPT ![s][2] = stage]

ReceiveJob(s) ==
    /\ sender[s][1] # "exit" /\ sender[s][2] = "wait" /\ jobs # <<>>
    /\ job' = [job EXCEPT ![s] = Head(jobs)]
    /\ jobs' = Tail(jobs)
    /\ Stage(s, "post")
    /\ UNCHANGED <<emitter, events, dropped, tableVars, resolverVars, timed,
                   timers, posts, delivered, gaveUp, overflowed, discarded,
                   shutdownVars>>

\* The endpoint answers 2xx ...
PostOk(s) ==
    /\ sender[s][2] = "post"
    /\ posts' = [posts EXCEPT ![Of(job[s])] = @ + 1]
    /\ Stage(s, "succeed")
    /\ UNCHANGED <<emitter, events, dropped, tableVars, resolverVars, timed,
                   jobs, timers, job, delivered, gaveUp, overflowed, discarded,
                   shutdownVars>>

MayRetry(j) == j.attempt < MaxRetries

\* The mistake of scheduling the retry with the same attempt number.
PostFailsUncounted(s) ==
    /\ sender[s][2] = "post"
    /\ posts' = [posts EXCEPT ![Of(job[s])] = @ + 1]
    /\ IF MayRetry(job[s])
       THEN /\ timers' = timers \cup {job[s]}
            /\ Stage(s, "wait")
            /\ job' = [job EXCEPT ![s] = None]
       ELSE Stage(s, "fail") /\ UNCHANGED <<timers, job>>
    /\ UNCHANGED <<emitter, events, dropped, tableVars, resolverVars, timed,
                   jobs, delivered, gaveUp, overflowed, discarded, shutdownVars>>
\* The mistake of not returning after the retry is scheduled.
PostFailsFallsThrough(s) ==
    /\ sender[s][2] = "post"
    /\ posts' = [posts EXCEPT ![Of(job[s])] = @ + 1]
    /\ IF MayRetry(job[s])
       THEN /\ timers' = timers \cup {[job[s] EXCEPT !.attempt = @ + 1]}
            /\ Stage(s, "fail") /\ UNCHANGED job
       ELSE Stage(s, "fail") /\ UNCHANGED <<timers, job>>
    /\ UNCHANGED <<emitter, events, dropped, tableVars, resolverVars, timed,
                   jobs, delivered, gaveUp, overflowed, discarded, shutdownVars>>
\* The mistake of returning without arming the timer.
PostFailsForgets(s) ==
    /\ sender[s][2] = "post"
    /\ posts' = [posts EXCEPT ![Of(job[s])] = @ + 1]
    /\ IF MayRetry(job[s])
       THEN /\ UNCHANGED timers
            /\ Stage(s, "wait")
            /\ job' = [job EXCEPT ![s] = None]
       ELSE Stage(s, "fail") /\ UNCHANGED <<timers, job>>
    /\ UNCHANGED <<emitter, events, dropped, tableVars, resolverVars, timed,
                   jobs, delivered, gaveUp, overflowed, discarded, shutdownVars>>
\* ... or fails: schedule a retry, or go on to RecordFailure.
PostFails(s) ==
    /\ sender[s][2] = "post"
    /\ posts' = [posts EXCEPT ![Of(job[s])] = @ + 1]
    /\ IF MayRetry(job[s])
       THEN /\ timers' = timers \cup {[job[s] EXCEPT !.attempt = @ + 1]}
            /\ Stage(s, "wait")
            /\ job' = [job EXCEPT ![s] = None]
       ELSE Stage(s, "fail") /\ UNCHANGED <<timers, job>>
    /\ UNCHANGED <<emitter, events, dropped, tableVars, resolverVars, timed,
                   jobs, delivered, gaveUp, overflowed, discarded, shutdownVars>>

\* Bookkeeping, whose failure is only logged.
Bookkeep(s) ==
    /\ sender[s][2] \in {"succeed", "fail"}
    /\ IF sender[s][2] = "succeed"
       THEN /\ RecordSuccess(job[s].hook) \/ UNCHANGED hooks
            /\ delivered' = delivered \cup {Of(job[s])}
            /\ UNCHANGED gaveUp
       ELSE /\ RecordFailure(job[s].hook) \/ UNCHANGED hooks
            /\ gaveUp' = gaveUp \cup {Of(job[s])}
            /\ UNCHANGED delivered
    /\ Stage(s, "wait")
    /\ job' = [job EXCEPT ![s] = None]
    /\ UNCHANGED <<emitter, events, dropped, resolverVars, timed, jobs, timers,
                   posts, overflowed, discarded, shutdownVars>>

\* The mistake of leaving the loop without draining the channel.
SendQuitEarly(s) ==
    /\ sender[s][2] = "wait"
    /\ \/ sender[s][1] = "select" /\ quit /\ sender' = [sender EXCEPT ![s][1] = "drain"]
       \/ sender[s][1] = "drain" /\ sender' = [sender EXCEPT ![s][1] = "exit"]
    /\ UNCHANGED <<emitter, events, dropped, tableVars, resolverVars, timed,
                   jobs, timers, job, posts, delivered, gaveUp, overflowed,
                   discarded, shutdownVars>>
SendQuit(s) ==
    /\ sender[s][2] = "wait"
    /\ \/ sender[s][1] = "select" /\ quit /\ sender' = [sender EXCEPT ![s][1] = "drain"]
       \/ /\ sender[s][1] = "drain" /\ jobs = <<>>
          /\ sender' = [sender EXCEPT ![s][1] = "exit"]
    /\ UNCHANGED <<emitter, events, dropped, tableVars, resolverVars, timed,
                   jobs, timers, job, posts, delivered, gaveUp, overflowed,
                   discarded, shutdownVars>>

\* A backoff timer fires and calls enqueueJob on a goroutine of its own.
TimerFires(j) ==
    /\ j \in timers
    /\ timers' = timers \ {j}
    /\ IF quit
       THEN discarded' = discarded \cup {Of(j)} /\ UNCHANGED timed
       ELSE timed' = timed \cup {j} /\ UNCHANGED discarded
    /\ UNCHANGED <<emitter, events, dropped, tableVars, resolverVars, jobs,
                   senderVars, overflowed, shutdownVars>>

OfferTimed(j) ==
    /\ j \in timed
    /\ Offer(j)
    /\ timed' = timed \ {j}
    /\ UNCHANGED <<emitter, events, tableVars, resolverVars, timers, senderVars,
                   discarded, shutdownVars>>

-----------------------------------------------------------------------------
(* Shutdown.                                                                *)

CloseQuit ==
    /\ down = "no"
    /\ quit' = TRUE /\ down' = "waiting"
    /\ earlyJobs' = {jobs[n] : n \in DOMAIN jobs}
                    \cup {job[s] : s \in {r \in Senders : sender[r][2] = "post"}}
    /\ earlyEvents' = {events[n] : n \in DOMAIN events}
    /\ UNCHANGED <<emitter, events, dropped, tableVars, resolverVars, timed,
                   jobs, timers, senderVars, overflowed, discarded>>

Drained ==
    /\ down = "waiting"
    /\ resolver = "exit" /\ \A s \in Senders : sender[s][1] = "exit"
    /\ down' = "drained"
    /\ UNCHANGED <<quit, emitter, events, dropped, tableVars, resolverVars,
                   timed, jobs, timers, senderVars, overflowed, discarded,
                   earlyJobs, earlyEvents>>

DeadlineExceeded ==
    /\ down = "waiting"
    /\ down' = "deadline"
    /\ UNCHANGED <<quit, emitter, events, dropped, tableVars, resolverVars,
                   timed, jobs, timers, senderVars, overflowed, discarded,
                   earlyJobs, earlyEvents>>

-----------------------------------------------------------------------------

EmitterStep(e) == DispatchCheck(e) \/ DispatchSend(e)
ResolverStep ==
    \/ ResolveEvent \/ (\E h \in Hooks : FanOut(h)) \/ OfferFanOut
    \/ ResolveEnd \/ ResolveQuit
SenderStep(s) ==
    ReceiveJob(s) \/ PostOk(s) \/ PostFails(s) \/ Bookkeep(s) \/ SendQuit(s)
TimerStep(j) == TimerFires(j) \/ OfferTimed(j)

Next ==
    \/ \E h \in Hooks, t \in Tenants :
          DeleteForTenant(h, t) \/ \E body \in Bodies : Create(h, t, body)
    \/ \E e \in Events : Emit(e) \/ EmitterStep(e)
    \/ ResolverStep
    \/ \E s \in Senders : SenderStep(s)
    \/ \E j \in Jobs : TimerStep(j)
    \/ CloseQuit \/ Drained \/ DeadlineExceeded

Spec == Init /\ [][Next]_vars

\* Goroutines run, POSTs and database calls time out, timers fire.
Fairness ==
    /\ \A e \in Events : WF_vars(EmitterStep(e))
    /\ WF_vars(ResolverStep)
    /\ \A s \in Senders : WF_vars(SenderStep(s))
    /\ \A j \in Jobs : WF_vars(TimerStep(j))
FairSpec == Spec /\ Fairness

-----------------------------------------------------------------------------
(* Properties.                                                              *)

\* What an event says about a tenant's links is posted only to webhooks that
\* this tenant registered for this type of event, whoever registers and
\* deletes what while the event, its jobs and its retries are under way.
OnlyToSubscribers ==
    \A d \in Deliveries : posts[d] > 0 =>
        LET row == hooks[d[2]] IN row.tenant = TenantOf[d[1]] /\ TypeOf[d[1]] \in row.events

\* A delivery has one outcome: what succeeded is never also given up, dropped
\* or retried.
Settled == <<delivered, gaveUp, overflowed, discarded>>
OneOutcome ==
    /\ \A m, n \in 1..4 : m # n => Settled[m] \cap Settled[n] = {}
    /\ \A j \in timers \cup timed : \A n \in 1..4 : Of(j) \notin Settled[n]

\* A hook that is looked up has not used up its failures, and one that is not
\* looked up carries the dead-letter mark.
DeadLetterConsistent ==
    \A h \in Hooks : /\ hooks[h].active => hooks[h].failures < DisableAfter
                     /\ ~hooks[h].active => hooks[h].disabled

\* Queued events are drained before the resolver exits (dispatcher.go:132,
\* docs/DESIGN.md:91-93): none of their deliveries is discarded.
QueuedEventsDelivered ==
    down = "drained" => \A d \in discarded : d[1] \notin earlyEvents

\* A dead-lettered hook stays disabled; a success resets the counter but does
\* not re-enable it (webhook_integration_test.go:85).
DeadLetterIsFinal ==
    [][\A h \in Hooks : hooks[h].disabled => ~hooks'[h].active \/ hooks[h].active]_vars

\* No job stays in a channel, in a timer or with a sender for ever: as long as
\* the dispatcher runs, each delivery settles.
InFlight(d) ==
    \/ \E n \in DOMAIN jobs : Of(jobs[n]) = d
    \/ \E j \in timers \cup timed : Of(j) = d
    \/ \E s \in Senders : job[s] # None /\ Of(job[s]) = d
EventuallySettled ==
    \A d \in Deliveries : InFlight(d) ~> quit \/ \E n \in 1..4 : d \in Settled[n]

\* The jobs channel and its senders keep the contract of a hand-off: an item is
\* one attempt of a delivery, taken when its job is queued and settled by its
\* POST; so a Shutdown that reports success has posted every job it found in
\* the channel or with a sender.  EventuallySettled is the progress.
Standing(j) ==
    CASE posts[Of(j)] > j.attempt -> "settled"
      [] posts[Of(j)] <= j.attempt /\ (\/ \E n \in DOMAIN jobs : jobs[n] = j
                                       \/ \E s \in Senders : job[s] = j) -> "taken"
      [] posts[Of(j)] = j.attempt /\ Of(j) \in overflowed \cup discarded -> "refused"
      [] OTHER -> "new"
Contract == INSTANCE Handoff WITH
    Items <- Jobs, status <- [j \in Jobs |-> Standing(j)],
    closed <- quit, promised <- earlyJobs,
    report <- IF down \in {"no", "waiting"} THEN "none" ELSE down
IsHandoff == Contract!Safety

\* Shutdown comes to an end: after quit the resolver and every sender exit,
\* retries waiting in timers notwithstanding.
LoopsExit == quit ~> resolver = "exit" /\ \A s \in Senders : sender[s][1] = "exit"
=============================================================================
