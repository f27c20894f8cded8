--------------------------- MODULE PipelineProofs ---------------------------
(***************************************************************************)
(* Proofs about Pipeline for any set of clicks, any non-empty worker pool  *)
(* and any buffer and batch size.                                          *)
(***************************************************************************)
EXTENDS Pipeline, FiniteSetTheorems, TLAPS

-----------------------------------------------------------------------------
(* What Append and Tail do to the clicks a channel holds.                   *)

\* Sending puts exactly the sent click into the channel (pipeline.go:117).
LEMMA AppendBuffered ==
    ASSUME NEW S, NEW s \in Seq(S), NEW e \in S
    PROVE  /\ Append(s, e) \in Seq(S)
           /\ Len(Append(s, e)) = Len(s) + 1
           /\ {Append(s, e)[n] : n \in DOMAIN Append(s, e)}
                = {s[n] : n \in DOMAIN s} \cup {e}
<1>1. /\ Append(s, e) \in Seq(S) /\ Len(Append(s, e)) = Len(s) + 1
      /\ DOMAIN Append(s, e) = 1..(Len(s) + 1) /\ DOMAIN s = 1..Len(s)
      /\ Len(s) \in Nat
  OBVIOUS
<1>2. /\ \A n \in 1..Len(s) : Append(s, e)[n] = s[n]
      /\ Append(s, e)[Len(s) + 1] = e
  OBVIOUS
<1>3. \A n \in 1..(Len(s) + 1) : n \in 1..Len(s) \/ n = Len(s) + 1
  BY <1>1
<1>4. 1..Len(s) \subseteq 1..(Len(s) + 1) /\ Len(s) + 1 \in 1..(Len(s) + 1)
  BY <1>1
<1> QED
  BY <1>1, <1>2, <1>3, <1>4

\* Sending a click that is not in the channel keeps its elements distinct.
LEMMA AppendDistinct ==
    ASSUME NEW S, NEW s \in Seq(S), NEW e \in S,
           \A m, n \in DOMAIN s : s[m] = s[n] => m = n,
           e \notin {s[n] : n \in DOMAIN s}
    PROVE  \A m, n \in DOMAIN Append(s, e) :
               Append(s, e)[m] = Append(s, e)[n] => m = n
<1>1. /\ DOMAIN Append(s, e) = 1..(Len(s) + 1) /\ DOMAIN s = 1..Len(s)
      /\ Len(s) \in Nat
  OBVIOUS
<1>2. /\ \A n \in 1..Len(s) : Append(s, e)[n] = s[n] /\ s[n] # e
      /\ Append(s, e)[Len(s) + 1] = e
  OBVIOUS
<1>3. \A n \in 1..(Len(s) + 1) : n \in 1..Len(s) \/ n = Len(s) + 1
  BY <1>1
<1> QED
  BY <1>1, <1>2, <1>3

\* Receiving takes the head out and leaves the rest (pipeline.go:151, 162).
LEMMA TailBuffered ==
    ASSUME NEW S, NEW s \in Seq(S), s # <<>>,
           \A m, n \in DOMAIN s : s[m] = s[n] => m = n
    PROVE  /\ Head(s) \in S /\ Tail(s) \in Seq(S) /\ Len(Tail(s)) = Len(s) - 1
           /\ Head(s) \in {s[n] : n \in DOMAIN s}
           /\ {Tail(s)[n] : n \in DOMAIN Tail(s)}
                = {s[n] : n \in DOMAIN s} \ {Head(s)}
           /\ \A m, n \in DOMAIN Tail(s) : Tail(s)[m] = Tail(s)[n] => m = n
<1>1. /\ Len(s) \in Nat /\ Len(s) >= 1 /\ DOMAIN s = 1..Len(s)
      /\ Head(s) = s[1] /\ Tail(s) \in Seq(S) /\ Len(Tail(s)) = Len(s) - 1
      /\ DOMAIN Tail(s) = 1..(Len(s) - 1)
  OBVIOUS
<1>2. \A n \in 1..(Len(s) - 1) : Tail(s)[n] = s[n + 1]
  OBVIOUS
<1>3. \A n \in 1..Len(s) : n = 1 \/ (n - 1 \in 1..(Len(s) - 1) /\ s[n] = Tail(s)[n - 1])
  BY <1>1, <1>2
<1>4. \A n \in 1..(Len(s) - 1) : n + 1 \in 1..Len(s) /\ n + 1 # 1
  BY <1>1
<1>5. 1 \in 1..Len(s) /\ s[1] \in S
  BY <1>1
<1>6. {Tail(s)[n] : n \in DOMAIN Tail(s)} = {s[n] : n \in DOMAIN s} \ {Head(s)}
  <2>1. ASSUME NEW n \in DOMAIN Tail(s)
        PROVE  Tail(s)[n] \in {s[k] : k \in DOMAIN s} /\ Tail(s)[n] # Head(s)
    BY <1>1, <1>2, <1>4, <1>5
  <2>2. ASSUME NEW n \in DOMAIN s, s[n] # Head(s)
        PROVE  s[n] \in {Tail(s)[k] : k \in DOMAIN Tail(s)}
    BY <1>1, <1>3, <2>2
  <2> QED
    BY <2>1, <2>2
<1>7. \A m, n \in DOMAIN Tail(s) : Tail(s)[m] = Tail(s)[n] => m = n
  BY <1>1, <1>2, <1>4
<1> QED
  BY <1>1, <1>5, <1>6, <1>7

-----------------------------------------------------------------------------
(* The inductive invariant.                                                 *)

\* What the stages of a worker mean for its batch and for the channel.
StageInv ==
    /\ \A w \in Workers : worker[w] \in Hooks => batch[w] \subseteq written
    /\ \A w \in Workers : worker[w] = "exit" => batch[w] = {}
    /\ \A w \in Workers : worker[w] \in {"last_flush", "last_hook", "exit"} =>
          quit /\ early \cap Buffered = {}

\* What Shutdown has seen.
ShutdownInv ==
    /\ ~quit => early = {} /\ \A w \in Workers : worker[w] \in {"select", "flush", "hook"}
    /\ quit => down # "no"
    /\ down # "no" => quit
    /\ early \subseteq Accepted
    /\ down = "drained" => \A w \in Workers : worker[w] = "exit"

Inv == TypeOK /\ Accounting /\ StageInv /\ ShutdownInv

\* After Start nothing has been clicked: the invariant holds.
LEMMA InitInv == Init => Inv
<1> SUFFICES ASSUME Init PROVE Inv
  OBVIOUS
<1>1. /\ Accepted = {} /\ Buffered = {} /\ \A w \in Workers : Holding(w) = {}
  BY DEF Init, Accepted, Buffered, Holding, Hooks
<1>2. TypeOK
  <2>1. input \in Seq(Clicks) /\ Len(input) <= BufferSize
    BY SizesAssumption DEF Init
  <2>2. quit \in BOOLEAN
    BY Zenon DEF Init
  <2> QED
    BY <2>1, <2>2 DEF Init, TypeOK
<1>3. Accounting
  BY <1>1 DEF Init, Accounting
<1>4. StageInv
  BY DEF Init, StageInv, Hooks
<1>5. ShutdownInv
  BY <1>1 DEF Init, ShutdownInv
<1> QED
  BY <1>2, <1>3, <1>4, <1>5 DEF Inv

\* Every step of the pipeline preserves the types.
LEMMA TypeStep == TypeOK /\ [Next]_vars => TypeOK'
<1> SUFFICES ASSUME TypeOK, [Next]_vars PROVE TypeOK'
  OBVIOUS
<1> USE SizesAssumption DEF TypeOK
<1>1. ASSUME NEW c \in Clicks, Click(c) PROVE TypeOK'
  BY <1>1 DEF Click
<1>2. ASSUME NEW c \in Clicks, CheckQuit(c) PROVE TypeOK'
  BY <1>2 DEF CheckQuit
<1>3. ASSUME NEW c \in Clicks, Send(c) PROVE TypeOK'
  <2>1. input' \in Seq(Clicks) /\ Len(input') <= BufferSize
    <3>1. Append(input, c) \in Seq(Clicks) /\ Len(Append(input, c)) = Len(input) + 1
      BY AppendBuffered
    <3>2. input' = input \/ (input' = Append(input, c) /\ Len(input) < BufferSize)
      BY <1>3 DEF Send
    <3> QED
      BY <3>1, <3>2
  <2>2. handler' \in [Clicks -> {"idle", "check", "send", "accepted", "dropped", "refused"}]
    BY <1>3 DEF Send
  <2>3. dropped' \in Nat
    BY <1>3 DEF Send
  <2> QED
    BY <1>3, <2>1, <2>2, <2>3 DEF Send
<1>4. ASSUME NEW w \in Workers, SelectInput(w) \/ DrainInput(w) PROVE TypeOK'
  <2>1. PICK from \in {"select", "drain"}, to \in {"flush", "drain_flush"} : Receive(w, from, to)
    BY <1>4 DEF SelectInput, DrainInput
  <2>2. Head(input) \in Clicks /\ Tail(input) \in Seq(Clicks) /\ Len(Tail(input)) <= BufferSize
    BY <2>1 DEF Receive
  <2>3. batch' \in [Workers -> SUBSET Clicks]
    BY <2>1, <2>2 DEF Receive
  <2> QED
    BY <2>1, <2>2, <2>3 DEF Receive
<1>5. ASSUME NEW w \in Workers, SelectTick(w) \/ SelectQuit(w) \/ DrainEmpty(w) PROVE TypeOK'
  BY <1>5 DEF SelectTick, SelectQuit, DrainEmpty
<1>6. ASSUME NEW w \in Workers, FlushOk(w) PROVE TypeOK'
  BY <1>6 DEF FlushOk, Hooking
<1>7. ASSUME NEW w \in Workers, FlushFails(w) PROVE TypeOK'
  BY <1>7 DEF FlushFails, Resuming
<1>8. ASSUME NEW w \in Workers, Hook(w) PROVE TypeOK'
  BY <1>8 DEF Hook, Resuming
<1>9. ASSUME CloseQuit \/ Drained \/ DeadlineExceeded PROVE TypeOK'
  BY <1>9 DEF CloseQuit, Drained, DeadlineExceeded, Accepted
<1>10. CASE UNCHANGED vars
  BY <1>10 DEF vars
<1> QED
  BY <1>1, <1>2, <1>3, <1>4, <1>5, <1>6, <1>7, <1>8, <1>9, <1>10
     DEF Next, HandlerStep, WorkerStep

\* Every step keeps each accepted click in exactly one place, and keeps what
\* the stages and the shutdown say about the early clicks.
LEMMA InvStep == Inv /\ [Next]_vars => Inv'
<1> SUFFICES ASSUME Inv, [Next]_vars PROVE Inv'
  OBVIOUS
<1>0. TypeOK /\ Accounting /\ StageInv /\ ShutdownInv /\ TypeOK'
  BY TypeStep DEF Inv
<1> SUFFICES Accounting' /\ StageInv' /\ ShutdownInv'
  BY <1>0 DEF Inv
<1>1. ASSUME NEW c \in Clicks, Click(c) \/ CheckQuit(c)
      PROVE  Accounting' /\ StageInv' /\ ShutdownInv'
  <2>1. UNCHANGED <<quit, input, worker, batch, written, failed, down, early>>
    BY <1>1 DEF Click, CheckQuit
  <2>2. Accepted' = Accepted
    BY <1>0, <1>1 DEF Click, CheckQuit, Accepted, TypeOK
  <2>3. Buffered' = Buffered /\ \A w \in Workers : Holding(w)' = Holding(w)
    BY <2>1 DEF Buffered, Holding
  <2>4. Accounting'
    BY <1>0, <2>1, <2>2, <2>3 DEF Accounting
  <2>5. StageInv' /\ ShutdownInv'
    BY <1>0, <2>1, <2>2, <2>3 DEF StageInv, ShutdownInv
  <2> QED
    BY <2>4, <2>5
<1>2. ASSUME NEW c \in Clicks, Send(c)
      PROVE  Accounting' /\ StageInv' /\ ShutdownInv'
  <2>1. UNCHANGED <<quit, worker, batch, written, failed, down, early>>
    BY <1>2 DEF Send
  <2>2. \A w \in Workers : Holding(w)' = Holding(w)
    BY <2>1 DEF Holding
  <2>3. c \notin Accepted
    BY <1>2 DEF Send, Accepted
  <2>4. CASE Len(input) < BufferSize
    <3>1. input' = Append(input, c) /\ handler' = [handler EXCEPT ![c] = "accepted"]
      BY <1>0, <1>2, <2>4 DEF Send, TypeOK
    <3>2. Accepted' = Accepted \cup {c}
      BY <1>0, <3>1 DEF Accepted, TypeOK
    <3>3. Buffered' = Buffered \cup {c}
      <4>1. input \in Seq(Clicks)
        BY <1>0 DEF TypeOK
      <4>2. {Append(input, c)[n] : n \in DOMAIN Append(input, c)}
              = {input[n] : n \in DOMAIN input} \cup {c}
        BY <4>1, AppendBuffered
      <4> QED
        BY <3>1, <4>2, Zenon DEF Buffered
    <3>4. c \notin Buffered /\ c \notin written /\ c \notin failed
          /\ \A w \in Workers : c \notin Holding(w)
      BY <1>0, <2>3 DEF Accounting
    <3>5. \A m, n \in DOMAIN input' : input'[m] = input'[n] => m = n
      BY <1>0, <3>1, <3>4, AppendDistinct DEF Accounting, TypeOK, Buffered
    <3>6. Accounting'
      BY <1>0, <2>1, <2>2, <3>2, <3>3, <3>4, <3>5 DEF Accounting
    <3>7. c \notin early
      BY <1>0, <2>3 DEF ShutdownInv
    <3>8. StageInv' /\ ShutdownInv'
      BY <1>0, <2>1, <3>2, <3>3, <3>7 DEF StageInv, ShutdownInv
    <3> QED
      BY <3>6, <3>8
  <2>5. CASE ~(Len(input) < BufferSize)
    <3>1. input' = input /\ handler' = [handler EXCEPT ![c] = "dropped"]
      BY <1>2, <2>5 DEF Send
    <3>2. Accepted' = Accepted /\ Buffered' = Buffered
      BY <1>0, <2>3, <3>1 DEF Accepted, Buffered, TypeOK
    <3>3. Accounting'
      BY <1>0, <2>1, <2>2, <3>1, <3>2 DEF Accounting
    <3>4. StageInv' /\ ShutdownInv'
      BY <1>0, <2>1, <3>2 DEF StageInv, ShutdownInv
    <3> QED
      BY <3>3, <3>4
  <2> QED
    BY <2>4, <2>5
<1>3. ASSUME NEW w \in Workers, SelectInput(w) \/ DrainInput(w)
      PROVE  Accounting' /\ StageInv' /\ ShutdownInv'
  <2>1. PICK from \in {"select", "drain"} :
          \/ from = "select" /\ Receive(w, from, "flush")
          \/ from = "drain" /\ Receive(w, from, "drain_flush")
    BY <1>3 DEF SelectInput, DrainInput
  <2> DEFINE h == Head(input)
  <2>2. /\ worker[w] = from /\ input # <<>> /\ input' = Tail(input)
        /\ batch' = [batch EXCEPT ![w] = @ \cup {h}]
        /\ UNCHANGED <<quit, handler, written, failed, down, early>>
    BY <2>1 DEF Receive
  <2>3. /\ \A v \in Workers : v # w => worker'[v] = worker[v]
        /\ from = "select" => worker'[w] \in {"select", "flush"}
        /\ from = "drain" => worker'[w] \in {"drain", "drain_flush"}
    BY <1>0, <2>1 DEF Receive, TypeOK
  <2>4. /\ h \in Clicks /\ h \in Buffered /\ Buffered' = Buffered \ {h}
        /\ \A m, n \in DOMAIN input' : input'[m] = input'[n] => m = n
    <3>1. input \in Seq(Clicks) /\ \A m, n \in DOMAIN input : input[m] = input[n] => m = n
      BY <1>0 DEF TypeOK, Accounting
    <3>2. /\ h \in Clicks /\ h \in {input[n] : n \in DOMAIN input}
          /\ {Tail(input)[n] : n \in DOMAIN Tail(input)} = {input[n] : n \in DOMAIN input} \ {h}
          /\ \A m, n \in DOMAIN Tail(input) : Tail(input)[m] = Tail(input)[n] => m = n
      BY <2>2, <3>1, TailBuffered, Zenon
    <3> QED
      BY <2>2, <3>2, Zenon DEF Buffered
  <2>5. Accepted' = Accepted
    BY <2>2 DEF Accepted
  <2>6. /\ Holding(w)' = Holding(w) \cup {h}
        /\ \A v \in Workers : v # w => Holding(v)' = Holding(v)
    BY <1>0, <2>2, <2>3 DEF Holding, Hooks, TypeOK
  <2>7. Accounting'
    BY <1>0, <2>2, <2>4, <2>5, <2>6 DEF Accounting
  <2>8. StageInv'
    BY <1>0, <2>2, <2>3, <2>4 DEF StageInv, Hooks, TypeOK
  <2>9. ShutdownInv'
    BY <1>0, <2>2, <2>3, <2>5 DEF ShutdownInv
  <2> QED
    BY <2>7, <2>8, <2>9
<1>4. ASSUME NEW w \in Workers, SelectTick(w) \/ SelectQuit(w) \/ DrainEmpty(w)
      PROVE  Accounting' /\ StageInv' /\ ShutdownInv'
  <2>1. UNCHANGED <<quit, input, handler, batch, written, failed, down, early>>
    BY <1>4 DEF SelectTick, SelectQuit, DrainEmpty
  <2>2. /\ \A v \in Workers : v # w => worker'[v] = worker[v]
        /\ worker[w] \in {"select", "drain"}
        /\ \/ worker'[w] = "flush" /\ worker[w] = "select"
           \/ worker'[w] = "drain" /\ quit
           \/ /\ worker'[w] \in {"last_flush", "exit"} /\ worker[w] = "drain" /\ input = <<>>
              /\ worker'[w] = "exit" => batch[w] = {}
    BY <1>0, <1>4 DEF SelectTick, SelectQuit, DrainEmpty, TypeOK
  <2>3. /\ Accepted' = Accepted /\ Buffered' = Buffered
        /\ \A v \in Workers : Holding(v)' = Holding(v)
    BY <2>1, <2>2 DEF Accepted, Buffered, Holding, Hooks
  <2>4. Accounting'
    BY <1>0, <2>1, <2>3 DEF Accounting
  <2>5. input = <<>> => Buffered = {}
    BY DEF Buffered
  <2>6. worker[w] = "drain" => quit
    BY <1>0 DEF ShutdownInv
  <2>7. StageInv'
    BY <1>0, <2>1, <2>2, <2>3, <2>5, <2>6 DEF StageInv, Hooks
  <2>8. ShutdownInv'
    BY <1>0, <2>1, <2>2, <2>3, <2>6 DEF ShutdownInv
  <2> QED
    BY <2>4, <2>7, <2>8
<1>5. ASSUME NEW w \in Workers, FlushOk(w)
      PROVE  Accounting' /\ StageInv' /\ ShutdownInv'
  <2>1. /\ UNCHANGED <<quit, input, handler, batch, failed, down, early>>
        /\ written' = written \cup batch[w]
    BY <1>5 DEF FlushOk
  <2>2. /\ \A v \in Workers : v # w => worker'[v] = worker[v]
        /\ \/ worker[w] = "flush" /\ worker'[w] = "hook"
           \/ worker[w] = "drain_flush" /\ worker'[w] = "drain_hook"
           \/ worker[w] = "last_flush" /\ worker'[w] = "last_hook"
    BY <1>0, <1>5 DEF FlushOk, Hooking, TypeOK
  <2>3. /\ Accepted' = Accepted /\ Buffered' = Buffered
        /\ Holding(w) = batch[w] /\ Holding(w)' = {}
        /\ \A v \in Workers : v # w => Holding(v)' = Holding(v)
    BY <2>1, <2>2 DEF Accepted, Buffered, Holding, Hooks
  <2>4. Accounting'
    BY <1>0, <2>1, <2>3 DEF Accounting
  <2>5. StageInv'
    BY <1>0, <2>1, <2>2, <2>3 DEF StageInv, Hooks
  <2>6. ShutdownInv'
    BY <1>0, <2>1, <2>2, <2>3 DEF ShutdownInv
  <2> QED
    BY <2>4, <2>5, <2>6
<1>6. ASSUME NEW w \in Workers, FlushFails(w)
      PROVE  Accounting' /\ StageInv' /\ ShutdownInv'
  <2>1. /\ UNCHANGED <<quit, input, handler, written, down, early>>
        /\ failed' = failed \cup batch[w]
        /\ batch' = [batch EXCEPT ![w] = {}]
    BY <1>6 DEF FlushFails
  <2>2. /\ \A v \in Workers : v # w => worker'[v] = worker[v]
        /\ \/ worker[w] = "flush" /\ worker'[w] = "select"
           \/ worker[w] = "drain_flush" /\ worker'[w] = "drain"
           \/ worker[w] = "last_flush" /\ worker'[w] = "exit"
    BY <1>0, <1>6 DEF FlushFails, Resuming, TypeOK
  <2>3. /\ Accepted' = Accepted /\ Buffered' = Buffered
        /\ Holding(w) = batch[w] /\ Holding(w)' = {}
        /\ \A v \in Workers : v # w => Holding(v)' = Holding(v)
    BY <1>0, <2>1, <2>2 DEF Accepted, Buffered, Holding, Hooks, TypeOK
  <2>4. Accounting'
    BY <1>0, <2>1, <2>3 DEF Accounting
  <2>5. StageInv'
    BY <1>0, <2>1, <2>2, <2>3 DEF StageInv, Hooks, TypeOK
  <2>6. ShutdownInv'
    BY <1>0, <2>1, <2>2, <2>3 DEF ShutdownInv
  <2> QED
    BY <2>4, <2>5, <2>6
<1>7. ASSUME NEW w \in Workers, Hook(w)
      PROVE  Accounting' /\ StageInv' /\ ShutdownInv'
  <2>1. /\ UNCHANGED <<quit, input, handler, written, failed, down, early>>
        /\ batch' = [batch EXCEPT ![w] = {}]
    BY <1>7 DEF Hook
  <2>2. /\ \A v \in Workers : v # w => worker'[v] = worker[v]
        /\ \/ worker[w] = "hook" /\ worker'[w] = "select"
           \/ worker[w] = "drain_hook" /\ worker'[w] = "drain"
           \/ worker[w] = "last_hook" /\ worker'[w] = "exit"
    BY <1>0, <1>7 DEF Hook, Resuming, TypeOK
  <2>3. /\ Accepted' = Accepted /\ Buffered' = Buffered
        /\ \A v \in Workers : Holding(v)' = Holding(v)
    BY <1>0, <2>1, <2>2 DEF Accepted, Buffered, Holding, Hooks, TypeOK
  <2>4. Accounting'
    BY <1>0, <2>1, <2>3 DEF Accounting
  <2>5. StageInv'
    BY <1>0, <2>1, <2>2, <2>3 DEF StageInv, Hooks, TypeOK
  <2>6. ShutdownInv'
    BY <1>0, <2>1, <2>2, <2>3 DEF ShutdownInv
  <2> QED
    BY <2>4, <2>5, <2>6
<1>8. ASSUME CloseQuit
      PROVE  Accounting' /\ StageInv' /\ ShutdownInv'
  <2>1. /\ UNCHANGED <<input, handler, worker, batch, written, failed>>
        /\ down = "no" /\ down' = "waiting" /\ quit' /\ early' = Accepted
    BY <1>8 DEF CloseQuit
  <2>2. /\ Accepted' = Accepted /\ Buffered' = Buffered
        /\ \A v \in Workers : Holding(v)' = Holding(v)
    BY <2>1 DEF Accepted, Buffered, Holding
  <2>3. \A v \in Workers : worker[v] \in {"select", "flush", "hook"}
    BY <1>0, <2>1 DEF ShutdownInv
  <2>4. Accounting'
    BY <1>0, <2>1, <2>2 DEF Accounting
  <2>5. StageInv' /\ ShutdownInv'
    BY <1>0, <2>1, <2>2, <2>3 DEF StageInv, ShutdownInv
  <2> QED
    BY <2>4, <2>5
<1>9. ASSUME Drained \/ DeadlineExceeded \/ UNCHANGED vars
      PROVE  Accounting' /\ StageInv' /\ ShutdownInv'
  <2>1. /\ UNCHANGED <<quit, input, handler, worker, batch, written, failed, early>>
        /\ \/ down' = down
           \/ down = "waiting" /\ down' = "deadline"
           \/ /\ down = "waiting" /\ down' = "drained"
              /\ \A v \in Workers : worker[v] = "exit"
    BY <1>9 DEF Drained, DeadlineExceeded, vars
  <2>2. /\ Accepted' = Accepted /\ Buffered' = Buffered
        /\ \A v \in Workers : Holding(v)' = Holding(v)
    BY <2>1 DEF Accepted, Buffered, Holding
  <2>3. Accounting'
    BY <1>0, <2>1, <2>2 DEF Accounting
  <2>4. StageInv' /\ ShutdownInv'
    BY <1>0, <2>1, <2>2 DEF StageInv, ShutdownInv
  <2> QED
    BY <2>3, <2>4
<1> QED
  BY <1>1, <1>2, <1>3, <1>4, <1>5, <1>6, <1>7, <1>8, <1>9
     DEF Next, HandlerStep, WorkerStep

\* The channel, the batches, the counters and the shutdown state keep their
\* types in every run of the pipeline.
THEOREM TypeCorrect == Spec => []TypeOK
<1>1. Init => TypeOK
  BY InitInv DEF Inv
<1> QED
  BY <1>1, TypeStep, PTL DEF Spec

\* Every run of the pipeline satisfies the inductive invariant.
THEOREM Invariance == Spec => []Inv
  BY InitInv, InvStep, PTL DEF Spec

\* No accepted click is lost, duplicated or written twice by Enqueue, the
\* workers and Shutdown, however they interleave.
THEOREM AccountingCorrect == Spec => []Accounting
<1>1. Inv => Accounting
  BY DEF Inv
<1> QED
  BY <1>1, Invariance, PTL

\* With every worker gone, no early click can be in the channel or in a batch.
LEMMA DrainInv == Inv => DrainKeepsPromise
<1> SUFFICES ASSUME Inv, down = "drained", NEW c \in early
             PROVE  c \in written \cup failed
  BY DEF DrainKeepsPromise
<1>1. \A w \in Workers : worker[w] = "exit" /\ batch[w] = {}
  BY DEF Inv, ShutdownInv, StageInv
<1>2. c \notin Buffered
  BY <1>1, PoolAssumption DEF Inv, StageInv
<1>3. c \in Accepted /\ c \in Clicks
  BY DEF Inv, ShutdownInv, TypeOK
<1>4. \A w \in Workers : Holding(w) = {}
  BY <1>1 DEF Holding
<1> QED
  BY <1>2, <1>3, <1>4 DEF Inv, Accounting

\* A Shutdown that reports success has handed every click accepted before it
\* to RecordBatch.
THEOREM DrainCorrect == Spec => []DrainKeepsPromise
  BY DrainInv, Invariance, PTL

-----------------------------------------------------------------------------
(* The batch hook.                                                          *)

\* A worker step other than a flush or a hook leaves the hook alone.
LEMMA HookStep == Inv /\ HookFollowsCommit /\ [Next]_vars => HookFollowsCommit'
<1> SUFFICES ASSUME Inv, HookFollowsCommit, [Next]_vars PROVE HookFollowsCommit'
  OBVIOUS
<1>0. TypeOK /\ StageInv
  BY DEF Inv
<1>1. ASSUME NEW w \in Workers, FlushOk(w) PROVE HookFollowsCommit'
  <2>1. /\ written' = written \cup batch[w] /\ UNCHANGED <<batch, hooked>>
        /\ worker'[w] \in Hooks
        /\ \A v \in Workers : v # w => worker'[v] = worker[v]
    BY <1>0, <1>1 DEF FlushOk, Hooking, Hooks, TypeOK
  <2> QED
    BY <2>1 DEF HookFollowsCommit, Hooks
<1>2. ASSUME NEW w \in Workers, Hook(w) PROVE HookFollowsCommit'
  <2>1. /\ hooked' = hooked \cup batch[w] /\ UNCHANGED written
        /\ \A v \in Workers : v # w => worker'[v] = worker[v] /\ batch'[v] = batch[v]
    BY <1>0, <1>2 DEF Hook, TypeOK
  <2>2. batch[w] \subseteq written
    BY <1>0, <1>2 DEF Hook, StageInv, Hooks
  <2> QED
    BY <2>1, <2>2 DEF HookFollowsCommit
<1>3. ASSUME NEW w \in Workers, SelectInput(w) \/ DrainInput(w) \/ FlushFails(w)
      PROVE  HookFollowsCommit'
  <2>1. /\ UNCHANGED <<written, hooked>>
        /\ worker[w] \notin Hooks
        /\ \A v \in Workers : v # w => worker'[v] = worker[v] /\ batch'[v] = batch[v]
    BY <1>0, <1>3 DEF SelectInput, DrainInput, Receive, FlushFails, Hooks, TypeOK
  <2> QED
    BY <2>1 DEF HookFollowsCommit
<1>4. ASSUME NEW w \in Workers, SelectTick(w) \/ SelectQuit(w) \/ DrainEmpty(w)
      PROVE  HookFollowsCommit'
  <2>1. /\ UNCHANGED <<written, hooked, batch>>
        /\ worker[w] \notin Hooks
        /\ \A v \in Workers : v # w => worker'[v] = worker[v]
    BY <1>0, <1>4 DEF SelectTick, SelectQuit, DrainEmpty, Hooks, TypeOK
  <2> QED
    BY <2>1 DEF HookFollowsCommit
<1>5. ASSUME NEW c \in Clicks, Click(c) \/ CheckQuit(c) \/ Send(c)
      PROVE  HookFollowsCommit'
  BY <1>5 DEF Click, CheckQuit, Send, HookFollowsCommit
<1>6. ASSUME CloseQuit \/ Drained \/ DeadlineExceeded \/ UNCHANGED vars
      PROVE  HookFollowsCommit'
  BY <1>6 DEF CloseQuit, Drained, DeadlineExceeded, vars, HookFollowsCommit
<1> QED
  BY <1>1, <1>2, <1>3, <1>4, <1>5, <1>6 DEF Next, HandlerStep, WorkerStep

\* The notifier hears of committed clicks only, and of all of them before the
\* worker that wrote them goes on.
THEOREM HookCorrect == Spec => []HookFollowsCommit
<1>1. Init => HookFollowsCommit
  BY DEF Init, HookFollowsCommit
<1> QED
  BY <1>1, HookStep, Invariance, PTL DEF Spec

-----------------------------------------------------------------------------
(* The pipeline implements the hand-off.                                    *)

\* What has been given to the database had been accepted.
LEMMA SettledAccepted == Inv => written \cup failed \subseteq Accepted
  BY DEF Inv, Accounting, TypeOK

\* A click whose Enqueue call and batch do not move stands where it stood.
LEMMA SameStanding ==
    ASSUME NEW c \in Clicks, handler'[c] = handler[c],
           c \in written' \cup failed' <=> c \in written \cup failed
    PROVE  Standing(c)' = Standing(c)
<1>1. c \in Accepted' <=> c \in Accepted
  BY DEF Accepted
<1> QED
  BY <1>1 DEF Standing

\* Before anything was clicked, every item is new.
LEMMA HandoffInit == Init => Contract!Init
<1> SUFFICES ASSUME Init PROVE Contract!Init
  OBVIOUS
<1>1. \A c \in Clicks : Standing(c) = "new"
  BY DEF Init, Standing, Accepted
<1> QED
  BY <1>1 DEF Init, Contract!Init

\* Every step of the pipeline is a step of the hand-off, or none.
LEMMA HandoffStep == Inv /\ Inv' /\ [Next]_vars => [Contract!Next]_(Contract!vars)
<1> SUFFICES ASSUME Inv, Inv', [Next]_vars PROVE [Contract!Next]_(Contract!vars)
  OBVIOUS
<1> DEFINE status == [c \in Clicks |-> Standing(c)]
<1>0. TypeOK /\ Accounting /\ StageInv /\ ShutdownInv
  BY DEF Inv
<1>1. ASSUME NEW c \in Clicks, Click(c) \/ CheckQuit(c) \/ Send(c)
      PROVE  [Contract!Next]_(Contract!vars)
  <2>1. UNCHANGED <<quit, written, failed, down, early>>
    BY <1>1 DEF Click, CheckQuit, Send
  <2>2. \A d \in Clicks : d # c => Standing(d)' = Standing(d)
    <3>1. \A d \in Clicks : d # c => handler'[d] = handler[d]
      BY <1>0, <1>1 DEF Click, CheckQuit, Send, TypeOK
    <3> QED
      BY <2>1, <3>1, SameStanding
  <2>3. c \notin Accepted /\ c \notin written \cup failed
    BY <1>0, <1>1, SettledAccepted DEF Click, CheckQuit, Send, Accepted
  <2>4. Standing(c) = "new"
    BY <1>1, <2>3 DEF Click, CheckQuit, Send, Standing
  <2>5. Standing(c)' \in {"new", "taken", "refused"}
    BY <2>1, <2>3 DEF Standing
  <2>6. CASE Standing(c)' = "new"
    <3>1. status' = status
      BY <2>2, <2>4, <2>6
    <3> QED
      BY <2>1, <3>1 DEF Contract!vars
  <2>7. CASE Standing(c)' \in {"taken", "refused"}
    <3>1. status' = [status EXCEPT ![c] = Standing(c)'] /\ status[c] = "new"
      BY <2>2, <2>4
    <3>2. Contract!Answer(c, Standing(c)')
      BY <2>1, <2>7, <3>1 DEF Contract!Answer
    <3> QED
      BY <2>7, <3>2 DEF Contract!Next
  <2> QED
    BY <2>5, <2>6, <2>7
<1>2. ASSUME NEW w \in Workers, FlushOk(w) \/ FlushFails(w)
      PROVE  [Contract!Next]_(Contract!vars)
  <2>1. /\ UNCHANGED <<quit, handler, down, early>>
        /\ written' \cup failed' = written \cup failed \cup batch[w]
        /\ worker[w] \notin Hooks
    BY <1>2 DEF FlushOk, FlushFails, Hooks
  <2>2. \A c \in Clicks : c \notin batch[w] => Standing(c)' = Standing(c)
    BY <2>1, SameStanding
  <2>3. \A c \in batch[w] : c \in Clicks /\ Standing(c) = "taken" /\ Standing(c)' = "settled"
    <3> SUFFICES ASSUME NEW c \in batch[w]
                 PROVE  c \in Clicks /\ Standing(c) = "taken" /\ Standing(c)' = "settled"
      OBVIOUS
    <3>1. c \in Clicks /\ c \in Accepted \ (written \cup failed)
      BY <1>0, <2>1 DEF Accounting, Holding, TypeOK
    <3>2. c \in written' \cup failed'
      BY <2>1
    <3>3. Standing(c) = "taken"
      BY <3>1 DEF Standing, Accepted
    <3>4. Standing(c)' = "settled"
      BY <2>1, <3>1, <3>2 DEF Standing, Accepted
    <3> QED
      BY <3>1, <3>3, <3>4
  <2>4. CASE batch[w] = {}
    <3>1. status' = status
      BY <2>2, <2>4
    <3> QED
      BY <2>1, <3>1 DEF Contract!vars
  <2>5. CASE batch[w] # {}
    <3>1. batch[w] \in SUBSET Clicks
      BY <1>0 DEF TypeOK
    <3>2. status' = [c \in Clicks |-> IF c \in batch[w] THEN "settled" ELSE status[c]]
      BY <2>2, <2>3
    <3>3. batch[w] \subseteq Contract!In("taken")
      BY <2>3 DEF Contract!In
    <3>4. Contract!Settle(batch[w])
      BY <2>1, <2>5, <3>2, <3>3 DEF Contract!Settle
    <3> QED
      BY <3>1, <3>4 DEF Contract!Next
  <2> QED
    BY <2>4, <2>5
<1>3. ASSUME \/ \E w \in Workers : \/ SelectInput(w) \/ DrainInput(w) \/ SelectTick(w)
                                   \/ SelectQuit(w) \/ DrainEmpty(w) \/ Hook(w)
             \/ UNCHANGED vars
      PROVE  [Contract!Next]_(Contract!vars)
  <2>1. UNCHANGED <<quit, handler, written, failed, down, early>>
    BY <1>3 DEF SelectInput, DrainInput, Receive, SelectTick, SelectQuit, DrainEmpty,
                Hook, vars
  <2>2. status' = status
    BY <2>1, SameStanding
  <2> QED
    BY <2>1, <2>2 DEF Contract!vars
<1>4. ASSUME CloseQuit PROVE [Contract!Next]_(Contract!vars)
  <2>1. /\ UNCHANGED <<handler, written, failed>>
        /\ down = "no" /\ down' = "waiting" /\ quit' = TRUE /\ early' = Accepted
    BY <1>4 DEF CloseQuit
  <2>2. ~quit
    BY <1>0, <2>1 DEF ShutdownInv
  <2>3. status' = status
    BY <2>1, SameStanding
  <2>4. /\ Contract!In("taken") \subseteq Accepted
        /\ Accepted \subseteq Contract!In("taken") \cup Contract!In("settled")
    BY SettledAccepted DEF Contract!In, Standing, Accepted
  <2>5. Contract!Close
    BY <2>1, <2>2, <2>3, <2>4 DEF Contract!Close
  <2> QED
    BY <2>5 DEF Contract!Next
<1>5. ASSUME Drained \/ DeadlineExceeded PROVE [Contract!Next]_(Contract!vars)
  <2>1. /\ UNCHANGED <<quit, handler, written, failed, early>>
        /\ down = "waiting" /\ down' \in {"drained", "deadline"}
    BY <1>5 DEF Drained, DeadlineExceeded
  <2>2. quit
    BY <1>0, <2>1 DEF ShutdownInv
  <2>3. status' = status
    BY <2>1, SameStanding
  <2>4. down' = "drained" => early \subseteq Contract!In("settled")
    <3>1. DrainKeepsPromise'
      BY DrainInv, PTL
    <3>2. early \subseteq Clicks
      BY <1>0 DEF TypeOK
    <3>3. down' = "drained" => early \subseteq written \cup failed
      BY <2>1, <3>1 DEF DrainKeepsPromise
    <3>4. \A c \in written \cup failed : Standing(c) = "settled"
      BY SettledAccepted DEF Standing, Accepted
    <3> QED
      BY <3>2, <3>3, <3>4 DEF Contract!In
  <2>5. Contract!Report(down')
    BY <2>1, <2>2, <2>3, <2>4 DEF Contract!Report
  <2> QED
    BY <2>1, <2>5 DEF Contract!Next
<1> QED
  BY <1>1, <1>2, <1>3, <1>4, <1>5 DEF Next, HandlerStep, WorkerStep

\* Enqueue, the workers and Shutdown together keep the safety of the hand-off:
\* a click is taken or refused once, settled once, and a drained shutdown owes
\* nothing.
THEOREM HandoffSafe == Spec => Contract!Safety
  BY HandoffInit, HandoffStep, Invariance, PTL DEF Spec, Contract!Safety

\* The progress of the hand-off is no more than EventuallyFlushed, so a pipeline
\* whose accepted clicks get flushed keeps the whole contract.
THEOREM HandoffCorrect == Spec /\ EventuallyFlushed => IsHandoff
<1> DEFINE Flushes(c) == (handler[c] = "accepted" /\ ~quit) ~> (c \in written \cup failed)
           Settles(i) == ([c \in Clicks |-> Standing(c)][i] = "taken")
                            ~> ([c \in Clicks |-> Standing(c)][i] = "settled" \/ quit)
<1>1. ASSUME NEW i \in Clicks PROVE []Inv /\ Flushes(i) => Settles(i)
  <2>1. Inv /\ [c \in Clicks |-> Standing(c)][i] = "taken" => handler[i] = "accepted"
    BY DEF Standing, Accepted
  <2>2. Inv /\ i \in written \cup failed => [c \in Clicks |-> Standing(c)][i] = "settled"
    BY SettledAccepted DEF Standing, Accepted
  <2> QED
    BY <2>1, <2>2, PTL
<1>2. EventuallyFlushed <=> \A c \in Clicks : Flushes(c)
  BY DEF EventuallyFlushed
<1>3. Contract!Progress <=> \A i \in Clicks : Settles(i)
  BY DEF Contract!Progress
<1> HIDE DEF Flushes, Settles
<1>4. []Inv /\ (\A c \in Clicks : Flushes(c)) => \A i \in Clicks : Settles(i)
  BY <1>1
<1> QED
  BY <1>2, <1>3, <1>4, HandoffSafe, Invariance, PTL DEF IsHandoff, Contract!Spec
-----------------------------------------------------------------------------
(* Enqueue does not block.                                                  *)

\* In a call of Enqueue the guard of CheckQuit or of one branch of Send holds as
\* long as the channel is within its capacity, and the rest of the action is
\* assignments.  So this is true of any state, but ENABLED is opaque to the
\* provers.
CallGuardEnables(c) ==
    handler[c] = "check" \/ (handler[c] = "send" /\ Len(input) <= BufferSize)
        => ENABLED <<HandlerStep(c)>>_vars

\* Only the call itself moves on in Enqueue.
LEMMA HandlerMoves ==
    ASSUME TypeOK, NEW c \in Clicks, [Next]_vars
    PROVE  /\ handler[c] = "check" => handler'[c] \in {"check", "send", "refused"}
           /\ handler[c] = "send" => handler'[c] \in {"send", "accepted", "dropped"}
<1> USE DEF TypeOK
<1>1. ASSUME NEW d \in Clicks, Click(d) \/ HandlerStep(d)
      PROVE  /\ handler[c] = "check" => handler'[c] \in {"check", "send", "refused"}
             /\ handler[c] = "send" => handler'[c] \in {"send", "accepted", "dropped"}
  BY <1>1 DEF Click, HandlerStep, CheckQuit, Send
<1>2. ASSUME NEW w \in Workers, WorkerStep(w) PROVE UNCHANGED handler
  BY <1>2 DEF WorkerStep, SelectInput, DrainInput, Receive, SelectTick, SelectQuit, DrainEmpty,
              FlushOk, FlushFails, Hook
<1>3. CASE CloseQuit \/ Drained \/ DeadlineExceeded \/ UNCHANGED vars
  BY <1>3 DEF CloseQuit, Drained, DeadlineExceeded, vars
<1> QED
  BY <1>1, <1>2, <1>3 DEF Next

\* A step of the call takes it from the check to the send or out, and from the
\* send out.
LEMMA HandlerLeaves ==
    ASSUME TypeOK, NEW c \in Clicks, HandlerStep(c)
    PROVE  /\ handler[c] = "check" => handler'[c] \in {"send", "refused"}
           /\ handler[c] = "send" => handler'[c] \in {"accepted", "dropped"}
  BY DEF TypeOK, HandlerStep, CheckQuit, Send

\* Given that a handler runs whenever it can, every call of Enqueue returns,
\* however full the channel is and whatever the workers and Shutdown do: their
\* fairness is not used.
THEOREM EnqueueReturnsCorrect ==
    FairSpec /\ (\A c \in Clicks : []CallGuardEnables(c)) => EnqueueReturns
<1> DEFINE Fair(c) == WF_vars(HandlerStep(c))
           Free(c) == []CallGuardEnables(c)
           Returns(c) == handler[c] = "check" ~> handler[c] \in {"accepted", "dropped", "refused"}
<1>1. ASSUME NEW c \in Clicks PROVE Spec /\ Fair(c) /\ Free(c) => Returns(c)
  <2> DEFINE Check == handler[c] = "check"
             Sends == handler[c] = "send"
             Over == handler[c] \in {"accepted", "dropped", "refused"}
  <2>1. TypeOK /\ [Next]_vars => (Check => Check' \/ Sends' \/ Over') /\ (Sends => Sends' \/ Over')
    BY HandlerMoves
  <2>2. TypeOK /\ <<HandlerStep(c)>>_vars => (Check => Sends' \/ Over') /\ (Sends => Over')
    BY HandlerLeaves
  <2>3. TypeOK /\ CallGuardEnables(c) /\ (Check \/ Sends) => ENABLED <<HandlerStep(c)>>_vars
    BY DEF TypeOK, CallGuardEnables
  <2> HIDE DEF Check, Sends, Over
  <2>4. Spec /\ WF_vars(HandlerStep(c)) /\ []CallGuardEnables(c) => (Check ~> Over)
    BY <2>1, <2>2, <2>3, TypeCorrect, PTL DEF Spec
  <2> QED
    BY <2>4, PTL DEF Check, Over
<1>2. FairSpec => Spec /\ \A c \in Clicks : Fair(c)
  BY PTL DEF FairSpec, Fairness
<1>3. EnqueueReturns <=> \A c \in Clicks : Returns(c)
  BY DEF EnqueueReturns
<1> HIDE DEF Fair, Free, Returns
<1>4. Spec /\ (\A c \in Clicks : Fair(c)) /\ (\A c \in Clicks : Free(c))
      => \A c \in Clicks : Returns(c)
  BY <1>1
<1>5. (\A c \in Clicks : []CallGuardEnables(c)) => \A c \in Clicks : Free(c)
  BY DEF Free
<1> QED
  BY <1>2, <1>3, <1>4, <1>5, PTL
-----------------------------------------------------------------------------
(* Losses are counted.                                                      *)

\* Clicks that met a full channel.
Turned == {c \in Clicks : handler[c] = "dropped"}

\* The drop counter is the number of clicks that met a full channel, and no
\* click is refused uncounted before quit (after it, refusals are not
\* counted, against the comment at pipeline.go:106-108).
DropsCounted ==
    /\ dropped = Cardinality(Turned)
    /\ ~quit => \A c \in Clicks : handler[c] # "refused"

\* Every step keeps the counter and the dropped clicks in line.
LEMMA DropsStep == TypeOK /\ DropsCounted /\ [Next]_vars => DropsCounted'
<1> SUFFICES ASSUME TypeOK, DropsCounted, [Next]_vars PROVE DropsCounted'
  OBVIOUS
<1>0. DOMAIN handler = Clicks /\ IsFiniteSet(Turned)
  BY FiniteAssumption, FS_Subset DEF TypeOK, Turned
<1>1. ASSUME UNCHANGED <<handler, dropped>>, quit => quit' PROVE DropsCounted'
  BY <1>1 DEF DropsCounted, Turned
<1>2. ASSUME NEW c \in Clicks, Click(c) \/ CheckQuit(c) PROVE DropsCounted'
  <2>1. /\ handler[c] \in {"idle", "check"} /\ UNCHANGED <<dropped, quit>>
        /\ \E x : /\ x # "dropped" /\ (x = "refused" => quit)
                  /\ handler' = [handler EXCEPT ![c] = x]
    BY <1>2 DEF Click, CheckQuit
  <2>2. Turned' = Turned
    BY <1>0, <2>1 DEF Turned
  <2> QED
    BY <1>0, <2>1, <2>2 DEF DropsCounted
<1>3. ASSUME NEW c \in Clicks, Send(c) PROVE DropsCounted'
  <2>0. handler[c] = "send" /\ UNCHANGED quit
    BY <1>3 DEF Send
  <2>1. CASE UNCHANGED dropped /\ handler' = [handler EXCEPT ![c] = "accepted"]
    <3>1. Turned' = Turned
      BY <1>0, <2>0, <2>1 DEF Turned
    <3> QED
      BY <1>0, <2>0, <2>1, <3>1 DEF DropsCounted
  <2>2. CASE dropped' = dropped + 1 /\ handler' = [handler EXCEPT ![c] = "dropped"]
    <3>1. Turned' = Turned \cup {c} /\ c \notin Turned
      BY <1>0, <2>0, <2>2 DEF Turned
    <3>2. Cardinality(Turned') = Cardinality(Turned) + 1
      BY <1>0, <3>1, FS_AddElement
    <3> QED
      BY <1>0, <2>0, <2>2, <3>2 DEF DropsCounted
  <2> QED
    BY <1>3, <2>1, <2>2 DEF Send
<1>4. ASSUME NEW w \in Workers, WorkerStep(w) PROVE DropsCounted'
  BY <1>1, <1>4 DEF WorkerStep, SelectInput, DrainInput, Receive, SelectTick, SelectQuit,
     DrainEmpty, FlushOk, FlushFails, Hook
<1>5. CASE CloseQuit \/ Drained \/ DeadlineExceeded \/ UNCHANGED vars
  BY <1>1, <1>5 DEF CloseQuit, Drained, DeadlineExceeded, vars
<1> QED
  BY <1>2, <1>3, <1>4, <1>5 DEF Next, HandlerStep

\* What Dropped reports is what the full channel cost, each click once, and
\* before Shutdown that is all that Enqueue turns away (pipeline.go:109-130).
THEOREM DropsCountedCorrect == Spec => []DropsCounted
<1>1. Init => DropsCounted
  <2> SUFFICES ASSUME Init PROVE DropsCounted
    OBVIOUS
  <2>1. Turned = {} /\ dropped = 0 /\ \A c \in Clicks : handler[c] # "refused"
    BY DEF Init, Turned
  <2> QED
    BY <2>1, FS_EmptySet DEF DropsCounted
<1> QED
  BY <1>1, DropsStep, TypeCorrect, PTL DEF Spec
=============================================================================
