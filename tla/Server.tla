------------------------------- MODULE Server -------------------------------
(***************************************************************************)
(* The life of one server process (cmd/server/main.go, run) around its     *)
(* analytics pipeline: requests are served until a signal arrives, then    *)
(* HTTP, the pipeline and the webhook dispatcher are shut down one after   *)
(* the other under one shared deadline.  When run returns, its deferred    *)
(* pool.Close waits, without a deadline, for every connection that a       *)
(* goroutine holds; then the process ends and every goroutine with it.      *)
(*                                                                         *)
(* The dispatcher is seen from outside: whether its quit channel is closed *)
(* decides whether Dispatch looks at an event at all.  What becomes of the *)
(* event then is the subject of module Dispatcher.                          *)
(***************************************************************************)
EXTENDS Pipeline

CONSTANTS
    Queries,   \* requests that query the database, in their own context: no deadline
    Loops      \* goroutines whose database calls carry a timeout (the dispatcher's
               \* loops, auth's touch) or end with the signal (the janitor)

ASSUME HoldersAssumption ==
    Workers \cap Queries = {} /\ Workers \cap Loops = {} /\ Queries \cap Loops = {}

VARIABLES
    stage,     \* where the main goroutine stands
    expired,   \* whether shutdownCtx is past its deadline
    stopped,   \* whether the dispatcher's quit channel is closed
    heard,     \* clicks whose batch event was offered to a running dispatcher
    held       \* who holds a connection of the pool

serverVars == <<stage, expired, stopped, heard, held>>
allVars == <<vars, serverVars>>

\* The dispatcher and the pipeline are started before the listener.
ServerInit ==
    /\ Init
    /\ stage = "serving" /\ expired = FALSE /\ stopped = FALSE /\ heard = {} /\ held = {}

-----------------------------------------------------------------------------
(* The goroutines that run beside main, until the process ends.             *)

Running == stage # "exit"

\* A redirect reaches its handler.  Connections accepted before the listener
\* closed are still served while srv.Shutdown waits, and after it gave up.
Request(c) ==
    /\ stage \in {"serving", "http"} \/ (stage = "closing" /\ down = "no")
    /\ Click(c)
    /\ UNCHANGED serverVars

Enqueue(c) == Running /\ HandlerStep(c) /\ UNCHANGED serverVars

\* A flush has committed and calls the notifier, whose Dispatch is refused
\* once the dispatcher is stopping.
NotifyBatch(w) ==
    /\ Running /\ Hook(w)
    /\ heard' = IF stopped THEN heard ELSE heard \cup batch[w]
    /\ UNCHANGED <<stage, expired, stopped, held>>

Work(w) ==
    /\ Running
    /\ \/ SelectInput(w) \/ SelectTick(w) \/ SelectQuit(w)
       \/ DrainInput(w) \/ DrainEmpty(w)
    /\ UNCHANGED serverVars

\* RecordBatch returns: it needs a connection to commit, and gives it back.
Flush(w) ==
    /\ Running
    /\ (FlushOk(w) /\ w \in held) \/ FlushFails(w)
    /\ held' = held \ {w}
    /\ UNCHANGED <<stage, expired, stopped, heard>>

\* A goroutine takes a connection, which the pool refuses once it is closed: a
\* worker for its flush, a request while HTTP is served.
Acquire(h) ==
    /\ stage \notin {"closing", "exit"} /\ h \notin held
    /\ h \in Workers => worker[h] \in {"flush", "drain_flush", "last_flush"}
    /\ h \in Queries => stage \in {"serving", "http"}
    /\ held' = held \cup {h}
    /\ UNCHANGED <<vars, stage, expired, stopped, heard>>

\* A query or a transaction ends.
Release(h) ==
    /\ Running /\ h \in held
    /\ held' = held \ {h}
    /\ UNCHANGED <<vars, stage, expired, stopped, heard>>

-----------------------------------------------------------------------------
(* The main goroutine.                                                      *)

\* SIGINT or SIGTERM; the deadline starts to run.
Signal ==
    /\ stage = "serving"
    /\ stage' = "http"
    /\ UNCHANGED <<vars, expired, stopped, heard, held>>

\* ListenAndServe fails: run returns without shutting anything down.
ListenFails ==
    /\ stage = "serving"
    /\ stage' = "closing"
    /\ UNCHANGED <<vars, expired, stopped, heard, held>>

Expire ==
    /\ stage \in {"http", "pipeline", "dispatcher"} /\ ~expired
    /\ expired' = TRUE
    /\ UNCHANGED <<vars, stage, stopped, heard, held>>

\* No connection has a request in progress.
NoRequests ==
    /\ \A c \in Clicks : handler[c] \notin {"check", "send"}
    /\ held \cap Queries = {}

\* The mistake of closing the listener without waiting for its requests.
HttpDrainedAtOnce ==
    /\ stage = "http"
    /\ stage' = "pipeline"
    /\ UNCHANGED <<vars, expired, stopped, heard, held>>
\* The mistake of stopping the dispatcher before the pipeline.
HttpDrainedStopsDispatcher ==
    /\ stage = "http" /\ NoRequests
    /\ stage' = "pipeline" /\ stopped' = TRUE
    /\ UNCHANGED <<vars, expired, heard, held>>
\* srv.Shutdown returns nil: no connection is active any more.
HttpDrained ==
    /\ stage = "http" /\ NoRequests
    /\ stage' = "pipeline"
    /\ UNCHANGED <<vars, expired, stopped, heard, held>>

\* The mistake of shutting HTTP down in a context without a deadline.
HttpDeadlineIgnored ==
    /\ stage = "http" /\ expired /\ NoRequests
    /\ stage' = "closing"
    /\ UNCHANGED <<vars, expired, stopped, heard, held>>
\* srv.Shutdown returns the deadline's error, and run with it: nothing is
\* drained.
HttpDeadline ==
    /\ stage = "http" /\ expired
    /\ stage' = "closing"
    /\ UNCHANGED <<vars, expired, stopped, heard, held>>

StopPipeline ==
    /\ stage = "pipeline"
    /\ CloseQuit
    /\ UNCHANGED serverVars

\* pipeline.Shutdown returns; running into the deadline is only logged.
PipelineReturns ==
    /\ stage = "pipeline"
    /\ Drained \/ (expired /\ DeadlineExceeded)
    /\ stage' = "dispatcher"
    /\ UNCHANGED <<expired, stopped, heard, held>>

StopDispatcher ==
    /\ stage = "dispatcher" /\ ~stopped
    /\ stopped' = TRUE
    /\ UNCHANGED <<vars, stage, expired, heard, held>>

\* dispatcher.Shutdown returns, its loops drained or the deadline past, and so
\* does run.
DispatcherReturns(drained) ==
    /\ stage = "dispatcher" /\ stopped
    /\ drained \/ expired
    /\ stage' = "closing"
    /\ UNCHANGED <<vars, expired, stopped, heard, held>>

\* The deferred pool.Close returns when every connection is back, and main ends
\* the process.
PoolCloses ==
    /\ stage = "closing" /\ held = {}
    /\ stage' = "exit"
    /\ UNCHANGED <<vars, expired, stopped, heard, held>>

MainStep ==
    \/ HttpDrained \/ HttpDeadline \/ StopPipeline \/ PipelineReturns
    \/ StopDispatcher \/ DispatcherReturns(FALSE) \/ PoolCloses

ServerNext ==
    \/ \E c \in Clicks : Request(c) \/ Enqueue(c)
    \/ \E w \in Workers : Work(w) \/ Flush(w) \/ NotifyBatch(w)
    \/ \E h \in Workers \cup Queries \cup Loops : Acquire(h)
    \/ \E h \in Queries \cup Loops : Release(h)
    \/ Signal \/ ListenFails \/ Expire
    \/ MainStep \/ DispatcherReturns(TRUE)

ServerSpec == ServerInit /\ [][ServerNext]_allVars

\* The main goroutine runs and context.WithTimeout fires.
MainFairness == WF_allVars(MainStep) /\ WF_allVars(Expire)

\* flushTimeout, the dispatcher's and auth's timeouts and the signal's context
\* end the database calls made under them.  Nothing is assumed of requests: a
\* handler, or its query, may hang.
Timeouts ==
    /\ \A w \in Workers : WF_allVars(Flush(w))
    /\ \A l \in Loops : WF_allVars(Release(l))

FairServerSpec == ServerSpec /\ MainFairness /\ Timeouts

-----------------------------------------------------------------------------
(* Properties.                                                              *)

\* HTTP is stopped "first so no new clicks are produced" (main.go:171): when
\* the pipeline reports itself drained, no accepted click is left in it.  The
\* pipeline alone does not give this, its quit check and its send being two
\* steps.
NothingLeftBehind == down = "drained" => Accepted \subseteq written \cup failed

\* The pipeline is drained before the dispatcher stops, as it "may emit final
\* webhooks" (main.go:176): after a drained shutdown the event of every
\* committed batch has been offered to a dispatcher that was still running.
FinalWebhooksHeard == down = "drained" => written \subseteq heard

\* A signal ends the process ("within a deadline before closing pools",
\* DESIGN.md:91-93), whatever hangs, with one exception: srv.Shutdown gives up at
\* the deadline, and then pool.Close waits for as long as a request that is still
\* in its query.  Once HTTP is drained, nothing keeps the process from ending.
ShutdownEnds ==
    /\ stage = "http" ~>
          (stage = "exit" \/ [](stage = "closing" /\ held \cap Queries # {}))
    /\ stage = "pipeline" ~> stage = "exit"
=============================================================================
