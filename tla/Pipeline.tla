------------------------------ MODULE Pipeline ------------------------------
(***************************************************************************)
(* The analytics pipeline (internal/analytics/pipeline.go): a bounded      *)
(* channel, a pool of workers that batch what they receive and write the   *)
(* batches, and a shutdown that drains.  Request handlers call Enqueue at  *)
(* any time, also while Shutdown runs; every channel operation and every   *)
(* RecordBatch is a step of its own.                                        *)
(*                                                                         *)
(* A click is an element of Clicks; a batch is a set of clicks.  The       *)
(* counters enqueued and flushed are the sizes of Accepted and written.    *)
(***************************************************************************)
EXTENDS Integers, Sequences, FiniteSets

CONSTANTS
    Clicks,
    Workers,      \* ANALYTICS_WORKERS goroutines
    BufferSize,   \* ANALYTICS_BUFFER_SIZE
    BatchSize     \* ANALYTICS_BATCH_SIZE

ASSUME SizesAssumption == BufferSize \in Nat \ {0} /\ BatchSize \in Nat \ {0}
ASSUME PoolAssumption == Workers # {}
ASSUME FiniteAssumption == IsFiniteSet(Clicks)

VARIABLES
    quit,      \* whether the quit channel is closed
    input,     \* the buffered channel
    handler,   \* where the Enqueue call of each click stands
    dropped,   \* the drop counter
    worker,    \* where each worker stands
    batch,     \* each worker's local batch
    written,   \* clicks durably recorded
    failed,    \* clicks of batches whose RecordBatch returned an error
    hooked,    \* clicks reported to the batch hook
    down,      \* where the Shutdown call stands
    early      \* history: clicks accepted before quit was closed

vars == <<quit, input, handler, dropped, worker, batch, written, failed,
          hooked, down, early>>

Accepted == {c \in Clicks : handler[c] = "accepted"}
Buffered == {input[n] : n \in DOMAIN input}

TypeOK ==
    /\ quit \in BOOLEAN
    /\ input \in Seq(Clicks) /\ Len(input) <= BufferSize
    /\ handler \in [Clicks -> {"idle", "check", "send", "accepted", "dropped",
                               "refused"}]
    /\ dropped \in Nat
    /\ worker \in [Workers -> {"select", "flush", "hook", "drain", "drain_flush",
                               "drain_hook", "last_flush", "last_hook", "exit"}]
    /\ batch \in [Workers -> SUBSET Clicks]
    /\ written \subseteq Clicks /\ failed \subseteq Clicks
    /\ hooked \subseteq Clicks
    /\ down \in {"no", "waiting", "drained", "deadline"}
    /\ early \subseteq Clicks

\* After Start: the workers run, nothing has been clicked yet.
Init ==
    /\ quit = FALSE /\ input = <<>> /\ dropped = 0
    /\ handler = [c \in Clicks |-> "idle"]
    /\ worker = [w \in Workers |-> "select"]
    /\ batch = [w \in Workers |-> {}]
    /\ written = {} /\ failed = {} /\ hooked = {}
    /\ down = "no" /\ early = {}

-----------------------------------------------------------------------------
(* Enqueue: first look at quit, then offer the click without blocking.      *)

Click(c) ==
    /\ handler[c] = "idle"
    /\ handler' = [handler EXCEPT ![c] = "check"]
    /\ UNCHANGED <<quit, input, dropped, worker, batch, written, failed, hooked,
                   down, early>>

CheckQuit(c) ==
    /\ handler[c] = "check"
    /\ handler' = [handler EXCEPT ![c] = IF quit THEN "refused" ELSE "send"]
    /\ UNCHANGED <<quit, input, dropped, worker, batch, written, failed, hooked,
                   down, early>>

\* The mistake of blocking on a full channel instead of dropping.
SendBlocking(c) ==
    /\ handler[c] = "send" /\ Len(input) < BufferSize
    /\ input' = Append(input, c)
    /\ handler' = [handler EXCEPT ![c] = "accepted"]
    /\ UNCHANGED <<quit, dropped, worker, batch, written, failed, hooked, down,
                   early>>
\* The mistake of a queue that ignores its capacity.
SendUnbounded(c) ==
    /\ handler[c] = "send"
    /\ input' = Append(input, c)
    /\ handler' = [handler EXCEPT ![c] = "accepted"]
    /\ UNCHANGED <<quit, dropped, worker, batch, written, failed, hooked, down,
                   early>>
Send(c) ==
    /\ handler[c] = "send"
    /\ \/ /\ Len(input) < BufferSize
          /\ input' = Append(input, c)
          /\ handler' = [handler EXCEPT ![c] = "accepted"]
          /\ UNCHANGED dropped
       \/ /\ Len(input) = BufferSize
          /\ dropped' = dropped + 1
          /\ handler' = [handler EXCEPT ![c] = "dropped"]
          /\ UNCHANGED input
    /\ UNCHANGED <<quit, worker, batch, written, failed, hooked, down, early>>

-----------------------------------------------------------------------------
(* The worker loop.  While running it selects among the channel, the ticker *)
(* and quit; once it has seen quit it drains the channel, flushes and exits.*)

\* Where a worker goes after appending a click: to a flush if the batch is
\* full, else back to where it received the click.
Receive(w, from, toFlush) ==
    /\ worker[w] = from
    /\ input # <<>>
    /\ input' = Tail(input)
    /\ batch' = [batch EXCEPT ![w] = @ \cup {Head(input)}]
    /\ worker' = [worker EXCEPT
         ![w] = IF Cardinality(batch'[w]) >= BatchSize THEN toFlush ELSE from]
    /\ UNCHANGED <<quit, handler, dropped, written, failed, hooked, down, early>>

SelectInput(w) == Receive(w, "select", "flush")
DrainInput(w) == Receive(w, "drain", "drain_flush")

\* The mistake of a ticker that flushes full batches only.
SelectTickFull(w) ==
    /\ worker[w] = "select" /\ Cardinality(batch[w]) >= BatchSize
    /\ worker' = [worker EXCEPT ![w] = "flush"]
    /\ UNCHANGED <<quit, input, handler, dropped, batch, written, failed, hooked,
                   down, early>>
\* The ticker: an empty batch makes flush a no-op.
SelectTick(w) ==
    /\ worker[w] = "select" /\ batch[w] # {}
    /\ worker' = [worker EXCEPT ![w] = "flush"]
    /\ UNCHANGED <<quit, input, handler, dropped, batch, written, failed, hooked,
                   down, early>>

\* The mistake of returning as soon as quit is seen.
SelectQuitReturns(w) ==
    /\ worker[w] = "select" /\ quit
    /\ worker' = [worker EXCEPT ![w] = IF batch[w] = {} THEN "exit" ELSE "last_flush"]
    /\ UNCHANGED <<quit, input, handler, dropped, batch, written, failed, hooked,
                   down, early>>
SelectQuit(w) ==
    /\ worker[w] = "select" /\ quit
    /\ worker' = [worker EXCEPT ![w] = "drain"]
    /\ UNCHANGED <<quit, input, handler, dropped, batch, written, failed, hooked,
                   down, early>>

\* The mistake of a drain that waits for its partial batch to fill up.
DrainWaits(w) ==
    /\ worker[w] = "drain" /\ input = <<>> /\ batch[w] = {}
    /\ worker' = [worker EXCEPT ![w] = "exit"]
    /\ UNCHANGED <<quit, input, handler, dropped, batch, written, failed, hooked,
                   down, early>>
\* The channel is empty: one last flush, then the goroutine ends.
DrainEmpty(w) ==
    /\ worker[w] = "drain" /\ input = <<>>
    /\ worker' = [worker EXCEPT ![w] = IF batch[w] = {} THEN "exit" ELSE "last_flush"]
    /\ UNCHANGED <<quit, input, handler, dropped, batch, written, failed, hooked,
                   down, early>>

\* The step that follows each stage of a flush.
Hooking(s) == CASE s = "flush" -> "hook"
                [] s = "drain_flush" -> "drain_hook"
                [] s = "last_flush" -> "last_hook"
Resuming(s) == CASE s \in {"flush", "hook"} -> "select"
                 [] s \in {"drain_flush", "drain_hook"} -> "drain"
                 [] s \in {"last_flush", "last_hook"} -> "exit"

\* flush: RecordBatch commits the batch ...
FlushOk(w) ==
    /\ worker[w] \in {"flush", "drain_flush", "last_flush"}
    /\ written' = written \cup batch[w]
    /\ worker' = [worker EXCEPT ![w] = Hooking(@)]
    /\ UNCHANGED <<quit, input, handler, dropped, batch, failed, hooked, down,
                   early>>

\* The mistake of going on to the hook after a failed write.
FlushFailsGoesOn(w) ==
    /\ worker[w] \in {"flush", "drain_flush", "last_flush"}
    /\ failed' = failed \cup batch[w]
    /\ worker' = [worker EXCEPT ![w] = Hooking(@)]
    /\ UNCHANGED <<quit, input, handler, dropped, batch, written, hooked, down,
                   early>>
\* ... or fails, which is logged and forgets the batch ...
FlushFails(w) ==
    /\ worker[w] \in {"flush", "drain_flush", "last_flush"}
    /\ failed' = failed \cup batch[w]
    /\ batch' = [batch EXCEPT ![w] = {}]
    /\ worker' = [worker EXCEPT ![w] = Resuming(@)]
    /\ UNCHANGED <<quit, input, handler, dropped, written, hooked, down, early>>

\* The mistake of not truncating the batch after a flush.
HookKeepsBatch(w) ==
    /\ worker[w] \in {"hook", "drain_hook", "last_hook"}
    /\ hooked' = hooked \cup batch[w]
    /\ worker' = [worker EXCEPT ![w] = Resuming(@)]
    /\ UNCHANGED <<quit, input, handler, dropped, batch, written, failed, down,
                   early>>
\* ... and after a commit the hook is told, exhausted links are evicted (see
\* LinkService) and the batch starts over.
Hook(w) ==
    /\ worker[w] \in {"hook", "drain_hook", "last_hook"}
    /\ hooked' = hooked \cup batch[w]
    /\ batch' = [batch EXCEPT ![w] = {}]
    /\ worker' = [worker EXCEPT ![w] = Resuming(@)]
    /\ UNCHANGED <<quit, input, handler, dropped, written, failed, down, early>>

-----------------------------------------------------------------------------
(* Shutdown: close quit, then wait for the workers or the deadline.         *)

CloseQuit ==
    /\ down = "no"
    /\ quit' = TRUE /\ down' = "waiting"
    /\ early' = Accepted
    /\ UNCHANGED <<input, handler, dropped, worker, batch, written, failed, hooked>>

\* The mistake of a WaitGroup that counts one worker for the whole pool.
DrainedByFirst ==
    /\ down = "waiting"
    /\ \E w \in Workers : worker[w] = "exit"
    /\ down' = "drained"
    /\ UNCHANGED <<quit, input, handler, dropped, worker, batch, written, failed,
                   hooked, early>>
Drained ==
    /\ down = "waiting"
    /\ \A w \in Workers : worker[w] = "exit"
    /\ down' = "drained"
    /\ UNCHANGED <<quit, input, handler, dropped, worker, batch, written, failed,
                   hooked, early>>

DeadlineExceeded ==
    /\ down = "waiting"
    /\ down' = "deadline"
    /\ UNCHANGED <<quit, input, handler, dropped, worker, batch, written, failed,
                   hooked, early>>

-----------------------------------------------------------------------------

HandlerStep(c) == CheckQuit(c) \/ Send(c)
WorkerStep(w) ==
    \/ SelectInput(w) \/ SelectTick(w) \/ SelectQuit(w)
    \/ DrainInput(w) \/ DrainEmpty(w)
    \/ FlushOk(w) \/ FlushFails(w) \/ Hook(w)

Next ==
    \/ \E c \in Clicks : Click(c) \/ HandlerStep(c)
    \/ \E w \in Workers : WorkerStep(w)
    \/ CloseQuit \/ Drained \/ DeadlineExceeded

Spec == Init /\ [][Next]_vars

\* The Go scheduler runs every runnable goroutine; RecordBatch is bounded by
\* flushTimeout.  Nothing forces a click or a shutdown to happen.
Fairness ==
    /\ \A c \in Clicks : WF_vars(HandlerStep(c))
    /\ \A w \in Workers : WF_vars(WorkerStep(w))
FairSpec == Spec /\ Fairness

-----------------------------------------------------------------------------
(* Properties.                                                              *)

\* Enqueue returned true: the click is in exactly one place - the channel, one
\* worker's unwritten batch, the table, or a batch that failed.  Nothing is
\* written twice and nothing vanishes, whoever shuts down when.
Hooks == {"hook", "drain_hook", "last_hook"}
Holding(w) == IF worker[w] \in Hooks THEN {} ELSE batch[w]
Accounting ==
    /\ \A c \in Clicks : c \in Accepted <=>
          \/ c \in Buffered \/ c \in written \/ c \in failed
          \/ \E w \in Workers : c \in Holding(w)
    /\ \A m, n \in DOMAIN input : input[m] = input[n] => m = n
    /\ Buffered \cap written = {} /\ Buffered \cap failed = {}
    /\ written \cap failed = {}
    /\ \A w \in Workers : /\ Holding(w) \cap Buffered = {}
                          /\ Holding(w) \cap written = {}
                          /\ Holding(w) \cap failed = {}
    /\ \A v, w \in Workers : v # w => Holding(v) \cap Holding(w) = {}

\* When Shutdown reports a drained pipeline, every click accepted before it
\* was called has been handed to the database.
DrainKeepsPromise == down = "drained" => early \subseteq written \cup failed

\* The batch hook hears of a click after its commit and only then, and a
\* committed click is reported before its worker does anything else.
HookFollowsCommit ==
    /\ hooked \subseteq written
    /\ \A c \in written \ hooked : \E w \in Workers :
          c \in batch[w] /\ worker[w] \in Hooks

\* A click accepted before shutdown reaches the database, or its batch fails:
\* the ticker gets partial batches out and the drain gets the rest.
EventuallyFlushed ==
    \A c \in Clicks : (handler[c] = "accepted" /\ ~quit) ~> (c \in written \cup failed)

\* The pipeline keeps the contract of a hand-off, a click being settled when
\* its batch has been given to the database, with success or not.
Standing(c) ==
    CASE c \in written \cup failed -> "settled"
      [] c \in Accepted \ (written \cup failed) -> "taken"
      [] handler[c] \in {"dropped", "refused"} -> "refused"
      [] OTHER -> "new"
Contract == INSTANCE Handoff WITH
    Items <- Clicks, status <- [c \in Clicks |-> Standing(c)], closed <- quit,
    promised <- early,
    report <- IF down \in {"no", "waiting"} THEN "none" ELSE down
IsHandoff == Contract!Spec

\* Enqueue never blocks: every call returns, however full the channel is.
EnqueueReturns ==
    \A c \in Clicks : handler[c] = "check" ~> handler[c] \in {"accepted", "dropped", "refused"}

\* After quit every worker ends, so an undisturbed Shutdown can report success.
WorkersExit == quit ~> \A w \in Workers : worker[w] = "exit"
=============================================================================
