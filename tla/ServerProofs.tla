---------------------------- MODULE ServerProofs ----------------------------
(***************************************************************************)
(* Proofs about Server: what the order HTTP, pipeline, dispatcher in which *)
(* main shuts down gives on top of what the pipeline promises alone.       *)
(***************************************************************************)
EXTENDS Server, PipelineProofs

\* Every step of the process is a step of its pipeline or leaves the pipeline
\* alone: main drives Enqueue, the workers and Shutdown and adds nothing.
LEMMA ServerStepIsStep == [ServerNext]_allVars => [Next]_vars
<1> SUFFICES ASSUME [ServerNext]_allVars PROVE [Next]_vars
  OBVIOUS
<1>1. ASSUME NEW c \in Clicks, Request(c) \/ Enqueue(c) PROVE Next
  BY <1>1 DEF Request, Enqueue, Next
<1>2. ASSUME NEW w \in Workers, Work(w) \/ Flush(w) \/ NotifyBatch(w) PROVE Next
  BY <1>2 DEF Work, Flush, NotifyBatch, Next, WorkerStep
<1>3. CASE Signal \/ ListenFails \/ Expire
  BY <1>3 DEF Signal, ListenFails, Expire
<1>4. CASE MainStep
  BY <1>4 DEF MainStep, HttpDrained, HttpDeadline, StopPipeline, PipelineReturns,
              StopDispatcher, DispatcherReturns, PoolCloses, Next
<1>5. CASE DispatcherReturns(TRUE)
  BY <1>5 DEF DispatcherReturns
<1>6. CASE UNCHANGED allVars
  BY <1>6 DEF allVars
<1>7. ASSUME NEW h, Acquire(h) \/ Release(h) PROVE UNCHANGED vars
  BY <1>7 DEF Acquire, Release
<1> QED
  BY <1>1, <1>2, <1>3, <1>4, <1>5, <1>6, <1>7 DEF ServerNext

\* The pipeline inside the server behaves as the pipeline does alone.
THEOREM ServerRunsPipeline == ServerSpec => Spec
<1>1. ServerInit => Init
  BY DEF ServerInit
<1> QED
  BY <1>1, ServerStepIsStep, PTL DEF ServerSpec, Spec

-----------------------------------------------------------------------------
(* The inductive invariant: what main has reached tells what the handlers,  *)
(* the pipeline and the dispatcher can still do.                            *)

OrderInv ==
    /\ stage \in {"serving", "http", "pipeline", "dispatcher", "closing", "exit"}
    /\ down # "no" => stage \in {"pipeline", "dispatcher", "closing", "exit"}
    /\ stage \in {"pipeline", "dispatcher"} \/ down # "no" => NoRequests
    /\ stopped => stage \in {"dispatcher", "closing", "exit"}
    /\ stage = "pipeline" => down \in {"no", "waiting"}

HearingInv ==
    /\ quit => early = Accepted
    /\ ~stopped => hooked \subseteq heard
    /\ down = "drained" => written \subseteq heard

ServerInv == Inv /\ HookFollowsCommit /\ OrderInv /\ HearingInv

\* When the listener opens, nothing has been clicked and nothing is stopped.
LEMMA ServerInitInv == ServerInit => ServerInv
<1> SUFFICES ASSUME ServerInit PROVE ServerInv
  OBVIOUS
<1>1. Inv
  BY InitInv DEF ServerInit
<1>2. HookFollowsCommit
  BY DEF ServerInit, Init, HookFollowsCommit
<1>3. OrderInv
  BY DEF ServerInit, Init, OrderInv, NoRequests
<1>4. HearingInv
  BY DEF ServerInit, Init, HearingInv
<1> QED
  BY <1>1, <1>2, <1>3, <1>4 DEF ServerInv

\* No step of a handler, a worker or main breaks the order of the shutdown or
\* hides a committed batch from a dispatcher that still runs.
LEMMA ServerStep == ServerInv /\ [ServerNext]_allVars => ServerInv'
<1> SUFFICES ASSUME ServerInv, [ServerNext]_allVars PROVE ServerInv'
  OBVIOUS
<1>0. Inv /\ TypeOK /\ ShutdownInv /\ StageInv /\ HookFollowsCommit /\ OrderInv /\ HearingInv
  BY DEF ServerInv, Inv
<1>1. Inv' /\ HookFollowsCommit'
  BY <1>0, ServerStepIsStep, InvStep, HookStep
<1>2. ASSUME NEW c \in Clicks, Request(c) PROVE OrderInv' /\ HearingInv'
  <2>1. /\ stage \in {"serving", "http"} \/ (stage = "closing" /\ down = "no")
        /\ handler[c] = "idle"
        /\ handler' = [handler EXCEPT ![c] = "check"]
        /\ UNCHANGED <<quit, written, hooked, down, early, stage, stopped, heard, held>>
    BY <1>2 DEF Request, Click, serverVars
  <2>2. down = "no" /\ ~quit
    BY <1>0, <2>1 DEF OrderInv, ShutdownInv
  <2> QED
    BY <1>0, <2>1, <2>2 DEF OrderInv, HearingInv, NoRequests
<1>3. ASSUME NEW c \in Clicks, Enqueue(c) PROVE OrderInv' /\ HearingInv'
  <2>1. /\ handler[c] \in {"check", "send"}
        /\ UNCHANGED <<quit, written, hooked, down, early, stage, stopped, heard, held>>
    BY <1>3 DEF Enqueue, HandlerStep, CheckQuit, Send, serverVars
  <2>2. down = "no" /\ ~quit /\ stage \notin {"pipeline", "dispatcher"}
    BY <1>0, <2>1 DEF OrderInv, ShutdownInv, NoRequests
  <2> QED
    BY <1>0, <2>1, <2>2 DEF OrderInv, HearingInv, NoRequests
<1>4. ASSUME NEW w \in Workers, NotifyBatch(w) PROVE OrderInv' /\ HearingInv'
  <2>1. /\ worker[w] \in Hooks /\ hooked' = hooked \cup batch[w]
        /\ heard' = IF stopped THEN heard ELSE heard \cup batch[w]
        /\ UNCHANGED <<quit, handler, written, down, early, stage, stopped, held>>
    BY <1>4 DEF NotifyBatch, Hook, Hooks
  <2>2. down # "drained"
    BY <1>0, <2>1 DEF ShutdownInv, Hooks
  <2> QED
    BY <1>0, <2>1, <2>2 DEF OrderInv, HearingInv, NoRequests, Accepted
<1>5. ASSUME NEW w \in Workers, Work(w) \/ Flush(w) PROVE OrderInv' /\ HearingInv'
  <2>1. /\ worker[w] # "exit"
        /\ UNCHANGED <<quit, handler, hooked, down, early, stage, stopped, heard>>
        /\ held' \subseteq held
    BY <1>5 DEF Work, Flush, SelectInput, DrainInput, Receive, SelectTick, SelectQuit,
                DrainEmpty, FlushOk, FlushFails, serverVars
  <2>2. down # "drained"
    BY <1>0, <2>1 DEF ShutdownInv
  <2> QED
    BY <1>0, <2>1, <2>2 DEF OrderInv, HearingInv, NoRequests, Accepted
<1>6. ASSUME Signal \/ ListenFails \/ Expire \/ UNCHANGED allVars
      PROVE  OrderInv' /\ HearingInv'
  BY <1>0, <1>6 DEF Signal, ListenFails, Expire, allVars, vars, serverVars, OrderInv,
                    HearingInv, NoRequests, Accepted
<1>7. ASSUME HttpDrained \/ HttpDeadline PROVE OrderInv' /\ HearingInv'
  BY <1>0, <1>7 DEF HttpDrained, HttpDeadline, vars, OrderInv, HearingInv, NoRequests, Accepted
<1>8. ASSUME StopPipeline PROVE OrderInv' /\ HearingInv'
  BY <1>0, <1>8 DEF StopPipeline, CloseQuit, serverVars, OrderInv, HearingInv, NoRequests, Accepted
<1>9. ASSUME PipelineReturns PROVE OrderInv' /\ HearingInv'
  <2>1. /\ stage = "pipeline" /\ stage' = "dispatcher"
        /\ down' = "deadline" \/ (down' = "drained" /\ \A w \in Workers : worker[w] = "exit")
        /\ UNCHANGED <<quit, handler, written, hooked, early, stopped, heard, held>>
    BY <1>9 DEF PipelineReturns, Drained, DeadlineExceeded
  <2>2. ~stopped /\ NoRequests
    BY <1>0, <2>1 DEF OrderInv
  <2>3. down' = "drained" => written \subseteq hooked
    BY <1>0, <2>1 DEF HookFollowsCommit, Hooks
  <2> QED
    BY <1>0, <2>1, <2>2, <2>3 DEF OrderInv, HearingInv, NoRequests, Accepted
<1>10. ASSUME StopDispatcher \/ DispatcherReturns(TRUE) \/ DispatcherReturns(FALSE) \/ PoolCloses
       PROVE  OrderInv' /\ HearingInv'
  BY <1>0, <1>10 DEF StopDispatcher, DispatcherReturns, PoolCloses, vars, OrderInv, HearingInv, NoRequests,
                     Accepted
<1>11. ASSUME NEW h, Acquire(h) \/ Release(h) PROVE OrderInv' /\ HearingInv'
  <2>1. UNCHANGED <<quit, handler, written, hooked, down, early, stage, stopped, heard>>
    BY <1>11 DEF Acquire, Release, vars
  <2>2. NoRequests /\ (stage \in {"pipeline", "dispatcher"} \/ down # "no") => NoRequests'
    BY <1>0, <1>11, <2>1 DEF Acquire, Release, OrderInv, NoRequests
  <2> QED
    BY <1>0, <2>1, <2>2 DEF OrderInv, HearingInv, Accepted
<1> QED
  BY <1>1, <1>2, <1>3, <1>4, <1>5, <1>6, <1>7, <1>8, <1>9, <1>10, <1>11
  DEF ServerNext, MainStep, ServerInv

\* Every run of the process satisfies the inductive invariant.
THEOREM ServerInvariance == ServerSpec => []ServerInv
  BY ServerInitInv, ServerStep, PTL DEF ServerSpec

\* main stops HTTP before the pipeline, so a pipeline that reports itself
\* drained has handed every accepted click to RecordBatch, late ones included.
THEOREM NothingLeftBehindCorrect == ServerSpec => []NothingLeftBehind
<1>1. ServerInv => NothingLeftBehind
  BY DrainInv DEF ServerInv, HearingInv, NothingLeftBehind, DrainKeepsPromise, Inv, ShutdownInv
<1> QED
  BY <1>1, ServerInvariance, PTL

\* main stops the pipeline before the dispatcher, so after a drained shutdown
\* no committed batch's event was refused by a stopping dispatcher.
THEOREM FinalWebhooksCorrect == ServerSpec => []FinalWebhooksHeard
<1>1. ServerInv => FinalWebhooksHeard
  BY DEF ServerInv, HearingInv, FinalWebhooksHeard
<1> QED
  BY <1>1, ServerInvariance, PTL

-----------------------------------------------------------------------------
(* Progress.                                                                *)

\* The stations of a shutdown: before the deadline, past it one for each step
\* main has to take, and pool.Close, with connections out or without.
InTime == stage \in {"http", "pipeline", "dispatcher"} /\ ~expired
AtHttp == stage = "http" /\ expired
AtStop == stage = "pipeline" /\ down = "no" /\ expired
AtWait == stage = "pipeline" /\ down = "waiting" /\ expired
AtDispatcher == stage = "dispatcher" /\ ~stopped /\ expired
AtEnd == stage = "dispatcher" /\ stopped /\ expired
Blocked == stage = "closing" /\ held # {}
Closable == stage = "closing" /\ held = {}
Ended == stage = "exit"

\* At each station the guard of Expire or of one disjunct of MainStep holds (in
\* order HttpDeadline, StopPipeline, PipelineReturns, StopDispatcher,
\* DispatcherReturns and PoolCloses), and the rest of that action assigns every
\* variable a new value.  So this is true of any state, but ENABLED is opaque to
\* the provers.
GuardsEnable ==
    /\ InTime => ENABLED <<Expire>>_allVars
    /\ AtHttp \/ AtStop \/ AtWait \/ AtDispatcher \/ AtEnd \/ Closable
          => ENABLED <<MainStep>>_allVars

\* Handlers, workers and queries move none of what the stations are about, and
\* once the pool is being closed connections only come back.
LEMMA OnlyMainMoves ==
    [ServerNext]_allVars =>
        \/ /\ UNCHANGED <<stage, expired, stopped, down>>
           /\ stage = "closing" => held' \subseteq held
           /\ stage \notin {"serving", "http"} /\ held \cap Queries = {} =>
                 held' \cap Queries = {}
        \/ Signal \/ ListenFails \/ Expire \/ MainStep \/ DispatcherReturns(TRUE)
<1> DEFINE Aside ==
        /\ UNCHANGED <<stage, expired, stopped, down>>
        /\ stage = "closing" => held' \subseteq held
        /\ stage \notin {"serving", "http"} /\ held \cap Queries = {} =>
              held' \cap Queries = {}
<1> SUFFICES ASSUME [ServerNext]_allVars
             PROVE  Aside \/ Signal \/ ListenFails \/ Expire \/ MainStep \/ DispatcherReturns(TRUE)
  OBVIOUS
<1>1. ASSUME NEW c \in Clicks, Request(c) \/ Enqueue(c) PROVE Aside
  BY <1>1 DEF Request, Click, Enqueue, HandlerStep, CheckQuit, Send, serverVars
<1>2. ASSUME NEW w \in Workers, Work(w) \/ Flush(w) \/ NotifyBatch(w) PROVE Aside
  BY <1>2 DEF Work, Flush, SelectInput, DrainInput, Receive, SelectTick, SelectQuit, DrainEmpty,
              FlushOk, FlushFails, NotifyBatch, Hook, serverVars
<1>3. ASSUME NEW h, Acquire(h) \/ Release(h) PROVE Aside
  BY <1>3 DEF Acquire, Release, vars
<1>4. CASE UNCHANGED allVars
  BY <1>4 DEF allVars, vars, serverVars
<1> QED
  BY <1>1, <1>2, <1>3, <1>4 DEF ServerNext

\* Before the deadline a shutdown goes on, gets to the pool, or is overtaken.
LEMMA InTimeStep ==
    ServerInv /\ InTime /\ [ServerNext]_allVars =>
        \/ InTime' \/ AtHttp' \/ AtStop' \/ AtWait' \/ AtDispatcher' \/ AtEnd'
        \/ Blocked' \/ Closable'
  BY OnlyMainMoves
  DEF ServerInv, OrderInv, InTime, AtHttp, AtStop, AtWait, AtDispatcher, AtEnd, Blocked,
      Closable, vars, serverVars, CloseQuit, Drained, DeadlineExceeded, Signal, ListenFails,
      Expire, MainStep, HttpDrained, HttpDeadline, StopPipeline, PipelineReturns,
      StopDispatcher, DispatcherReturns, PoolCloses

\* Past the deadline main stays at a station until it takes a step, and a step
\* takes it to a later one: srv.Shutdown, close of quit, the wait for the
\* workers, the dispatcher, the return, the pool.
LEMMA LateStep ==
    ASSUME ServerInv, [ServerNext]_allVars
    PROVE  /\ AtHttp => AtHttp' \/ AtStop' \/ Blocked' \/ Closable'
           /\ AtStop => AtStop' \/ AtWait'
           /\ AtWait => AtWait' \/ AtDispatcher'
           /\ AtDispatcher => AtDispatcher' \/ AtEnd'
           /\ AtEnd => AtEnd' \/ Blocked' \/ Closable'
           /\ Blocked => Blocked' \/ Closable'
           /\ Closable => Closable' \/ Ended'
  BY OnlyMainMoves
  DEF ServerInv, OrderInv, AtHttp, AtStop, AtWait, AtDispatcher, AtEnd, Blocked, Closable,
      Ended, vars, serverVars, CloseQuit, Drained, DeadlineExceeded, Signal, ListenFails,
      Expire, MainStep, HttpDrained, HttpDeadline, StopPipeline, PipelineReturns,
      StopDispatcher, DispatcherReturns, PoolCloses

\* A step of main past the deadline leaves its station.
LEMMA MainLeaves ==
    ASSUME ServerInv, MainStep
    PROVE  /\ AtHttp => AtStop' \/ Blocked' \/ Closable'
           /\ AtStop => AtWait'
           /\ AtWait => AtDispatcher'
           /\ AtDispatcher => AtEnd'
           /\ AtEnd => Blocked' \/ Closable'
           /\ Closable => Ended'
  BY DEF ServerInv, OrderInv, AtHttp, AtStop, AtWait, AtDispatcher, AtEnd, Blocked, Closable,
      Ended, vars, serverVars, CloseQuit, Drained, DeadlineExceeded,
      MainStep, HttpDrained, HttpDeadline, StopPipeline, PipelineReturns, StopDispatcher,
      DispatcherReturns, PoolCloses

\* The deadline's timer takes a shutdown to a station past the deadline.
LEMMA ExpireLeaves ==
    ServerInv /\ InTime /\ Expire =>
        AtHttp' \/ AtStop' \/ AtWait' \/ AtDispatcher' \/ AtEnd'
  BY DEF ServerInv, OrderInv, InTime, AtHttp, AtStop, AtWait, AtDispatcher, AtEnd,
      vars, Expire

\* HTTP is drained, and no request has a connection.
Unasked ==
    stage \in {"pipeline", "dispatcher", "closing", "exit"} /\ held \cap Queries = {}

\* It stays so: no request comes any more.
LEMMA UnaskedStep == Unasked /\ [ServerNext]_allVars => Unasked'
<1> SUFFICES ASSUME Unasked, [ServerNext]_allVars PROVE Unasked'
  OBVIOUS
<1>1. CASE Signal \/ ListenFails \/ Expire \/ MainStep \/ DispatcherReturns(TRUE)
  BY <1>1 DEF Unasked, serverVars, Signal, ListenFails, Expire, MainStep, HttpDrained,
     HttpDeadline, StopPipeline, PipelineReturns, StopDispatcher, DispatcherReturns, PoolCloses
<1> QED
  BY <1>1, OnlyMainMoves DEF Unasked

\* The shared deadline bounds the three shutdowns: given only that main and the
\* timer run whenever they can, a signal ends the process, whichever handler,
\* flush or delivery hangs, unless some goroutine never gives a connection of
\* the pool back to pool.Close; and once HTTP is drained that is no request, so a
\* worker or a loop, whose database calls carry timeouts.
THEOREM HeldUpByPoolOnly ==
    ServerSpec /\ MainFairness /\ []GuardsEnable =>
        /\ stage = "http" ~> (stage = "exit" \/ [](stage = "closing" /\ held # {}))
        /\ stage = "pipeline" ~>
              (stage = "exit" \/ [](stage = "closing" /\ held # {} /\ held \cap Queries = {}))
<1> DEFINE Premise == ServerSpec /\ MainFairness /\ []GuardsEnable
           Late == AtHttp \/ AtStop \/ AtWait \/ AtDispatcher \/ AtEnd
<1>1. /\ GuardsEnable /\ InTime => ENABLED <<Expire>>_allVars
      /\ GuardsEnable /\ (Late \/ Closable) => ENABLED <<MainStep>>_allVars
  BY DEF GuardsEnable, InTime, AtHttp, AtStop, AtWait, AtDispatcher, AtEnd, Closable
<1>2. /\ stage = "http" => InTime \/ AtHttp
      /\ ServerInv /\ stage = "pipeline" => Unasked /\ (InTime \/ AtStop \/ AtWait)
  BY DEF InTime, AtHttp, AtStop, AtWait, Unasked, ServerInv, OrderInv, NoRequests
<1>3. ServerInv /\ [ServerNext]_allVars =>
         /\ AtHttp => AtHttp' \/ AtStop' \/ Blocked' \/ Closable'
         /\ AtStop => AtStop' \/ AtWait'
         /\ AtWait => AtWait' \/ AtDispatcher'
         /\ AtDispatcher => AtDispatcher' \/ AtEnd'
         /\ AtEnd => AtEnd' \/ Blocked' \/ Closable'
         /\ Blocked => Blocked' \/ Closable'
         /\ Closable => Closable' \/ Ended'
  BY LateStep
<1>4. ServerInv /\ <<MainStep>>_allVars =>
         /\ AtHttp => AtStop' \/ Blocked' \/ Closable'
         /\ AtStop => AtWait'
         /\ AtWait => AtDispatcher'
         /\ AtDispatcher => AtEnd'
         /\ AtEnd => Blocked' \/ Closable'
         /\ Closable => Ended'
  BY MainLeaves
<1>5. ServerInv /\ InTime /\ <<Expire>>_allVars => Late'
  BY ExpireLeaves
<1>6. ServerSpec => []ServerInv
  BY ServerInvariance
<1>7. ServerSpec => [][ServerNext]_allVars
  BY DEF ServerSpec
<1>8. MainFairness => WF_allVars(MainStep) /\ WF_allVars(Expire)
  BY PTL DEF MainFairness
<1>9. Premise => (Closable ~> Ended)
  BY <1>1, <1>3, <1>4, <1>6, <1>7, <1>8, PTL
<1>10. Premise => (Blocked ~> (Ended \/ []Blocked))
  BY <1>3, <1>6, <1>7, <1>9, PTL
<1>11. Premise => (AtEnd ~> (Blocked \/ Closable))
  BY <1>1, <1>3, <1>4, <1>6, <1>7, <1>8, PTL
<1>12. Premise => (AtDispatcher ~> AtEnd)
  BY <1>1, <1>3, <1>4, <1>6, <1>7, <1>8, PTL
<1>13. Premise => (AtWait ~> AtDispatcher)
  BY <1>1, <1>3, <1>4, <1>6, <1>7, <1>8, PTL
<1>14. Premise => (AtStop ~> AtWait)
  BY <1>1, <1>3, <1>4, <1>6, <1>7, <1>8, PTL
<1>15. Premise => (AtHttp ~> (AtStop \/ Blocked \/ Closable))
  BY <1>1, <1>3, <1>4, <1>6, <1>7, <1>8, PTL
<1>16. Premise => (InTime ~> (Late \/ Blocked \/ Closable))
  BY <1>1, <1>5, <1>6, <1>7, <1>8, InTimeStep, PTL
<1>17. Premise => ((InTime \/ Late) ~> (Ended \/ []Blocked))
  BY <1>9, <1>10, <1>11, <1>12, <1>13, <1>14, <1>15, <1>16, PTL
<1>18. Premise => [](Unasked => []Unasked)
  BY <1>7, UnaskedStep, PTL
<1>19. /\ Ended <=> stage = "exit"
       /\ Blocked <=> stage = "closing" /\ held # {}
       /\ Blocked /\ Unasked => stage = "closing" /\ held # {} /\ held \cap Queries = {}
  BY DEF Ended, Blocked, Unasked
<1> QED
  BY <1>2, <1>6, <1>17, <1>18, <1>19, PTL
=============================================================================
