----------------------------- MODULE LoggerProofs -----------------------------
(***************************************************************************)
(* Proofs about Logger for every set of writers, levels and backends.      *)
(* What they need of the message queue is only that its steps change       *)
(* nothing of the logger itself.                                           *)
(***************************************************************************)
EXTENDS Logger, TLAPS

\* The destructor gets past its join only when io_process has returned.
JoinInv == exit \in {"lock", "clear", "done"} => io = "ended"

\* m_backend_mutex belongs to the one that is between its lock and unlock.
BackendMutexInv ==
  /\ io = "write" <=> m_backend_mutex = IO
  /\ exit = "clear" <=> m_backend_mutex = Exit
  /\ m_backend_mutex = Main => registering # NoBackend

LoggerInv == JoinInv /\ BackendMutexInv

\* The io thread, the destructor and main are different owners.
LEMMA Owners ==
  /\ IO # Exit /\ IO # NoThread /\ Exit # NoThread
  /\ Main \notin {IO, Exit, NoThread}
  BY LoggerAssumption

\* What a step can do to the logger's own state, the queue's steps included.
LoggerStep ==
  \/ UNCHANGED <<m_backend_mutex, backends, registering, io, output, exit>>
  \/ exit = "none" /\ exit' = "wakeup"
     /\ UNCHANGED <<m_backend_mutex, backends, registering, io, output>>
  \/ exit = "wakeup" /\ exit' = "waking"
     /\ UNCHANGED <<m_backend_mutex, backends, registering, io, output>>
  \/ \E b \in Backends : RegisterBackend(b)
  \/ RegisterLock
  \/ RegisterBody
  \/ io = "pop" /\ io' = "popping"
     /\ UNCHANGED <<m_backend_mutex, backends, registering, output, exit>>
  \/ IoWoken
  \/ IoLock
  \/ IoWrite
  \/ ExitJoin
  \/ ExitJoinSelf
  \/ ExitLock
  \/ ExitClear

\* Every step of the specification is one of these.
LEMMA NextIsLoggerStep == [Next]_vars => LoggerStep
  <1> SUFFICES ASSUME [Next]_vars PROVE LoggerStep
    OBVIOUS
  <1> USE DEF LoggerStep
  <1>1. CASE \E w \in Writers, l \in Levels, x \in Texts : Log(w, l, x)
    BY <1>1 DEF Log
  <1>2. CASE \E b \in Backends : RegisterBackend(b)
    BY <1>2
  <1>3. CASE \E w \in Writers : WriterStep(w)
    BY <1>3 DEF WriterStep, lvars
  <1>4. CASE IoStep
    BY <1>4 DEF IoStep, IoPop, lvars
  <1>5. CASE IoSpuriousWakeup
    BY <1>5 DEF IoSpuriousWakeup, lvars
  <1>6. CASE ReturnFromMain \/ \E t \in SignalTargets : Signal(t)
    BY <1>6 DEF ReturnFromMain, Signal, BeginExit
  <1>7. CASE ExitStep
    BY <1>7 DEF ExitStep, ExitWakeup, lvars
  <1>8. CASE UNCHANGED vars
    BY <1>8 DEF vars, lvars
  <1> QED
    BY <1>1, <1>2, <1>3, <1>4, <1>5, <1>6, <1>7, <1>8 DEF Next

\* The invariant is inductive.
LEMMA NextLoggerInv ==
  ASSUME LoggerInv, LoggerStep
  PROVE  LoggerInv'
  <1> USE Owners DEF LoggerInv, JoinInv, BackendMutexInv
  <1>1. CASE UNCHANGED <<m_backend_mutex, backends, registering, io, output, exit>>
    BY <1>1
  <1>2. CASE /\ exit = "none" /\ exit' = "wakeup"
             /\ UNCHANGED <<m_backend_mutex, backends, registering, io, output>>
    BY <1>2
  <1>3. CASE /\ exit = "wakeup" /\ exit' = "waking"
             /\ UNCHANGED <<m_backend_mutex, backends, registering, io, output>>
    BY <1>3
  <1>4. CASE \E b \in Backends : RegisterBackend(b)
    <2>1. NoBackend \notin Backends
      BY LoggerAssumption
    <2> QED
      BY <1>4, <2>1 DEF RegisterBackend
  <1>5. CASE RegisterLock \/ RegisterBody
    BY <1>5 DEF RegisterLock, RegisterBody
  <1>6. CASE /\ io = "pop" /\ io' = "popping"
             /\ UNCHANGED <<m_backend_mutex, backends, registering, output, exit>>
    BY <1>6
  <1>7. CASE IoWoken \/ IoLock \/ IoWrite
    BY <1>7 DEF IoWoken, IoLock, IoWrite, IoReturned
  <1>8. CASE ExitJoin \/ ExitJoinSelf \/ ExitLock \/ ExitClear
    BY <1>8 DEF ExitJoin, ExitJoinSelf, ExitLock, ExitClear, ExitGoes
  <1> QED
    BY <1>1, <1>2, <1>3, <1>4, <1>5, <1>6, <1>7, <1>8 DEF LoggerStep

\* Mutual exclusion on the backends, and the order of join and clear, hold
\* throughout.
THEOREM LoggerInvariance == Spec => []LoggerInv
  <1>1. Init => LoggerInv
    BY Owners DEF Init, LoggerInv, JoinInv, BackendMutexInv
  <1>2. LoggerInv /\ [Next]_vars => LoggerInv'
    BY NextIsLoggerStep, NextLoggerInv
  <1> QED
    BY <1>1, <1>2, PTL DEF Spec

\* Nothing is written to the backends once the io thread has been joined.
THEOREM WritesEndBeforeClear == Spec => NoWriteAfterJoin
  <1>1. LoggerInv /\ LoggerStep /\ exit \in {"lock", "clear", "done"}
          => UNCHANGED output
    BY DEF LoggerInv, JoinInv, LoggerStep, RegisterBackend, RegisterLock,
           RegisterBody, IoWoken, IoLock, IoWrite, IoReturned, ExitJoin,
           ExitJoinSelf, ExitLock, ExitClear, ExitGoes
  <1>2. LoggerInv /\ [Next]_vars
          => [(exit \in {"lock", "clear", "done"}) => UNCHANGED output]_vars
    BY <1>1, NextIsLoggerStep
  <1> QED
    BY <1>2, LoggerInvariance, PTL DEF Spec, NoWriteAfterJoin

\* The backends stay as they are while the io thread goes through them.
THEOREM BackendsStable == Spec => BackendsStableWhileWriting
  <1>1. LoggerInv /\ LoggerStep /\ io = "write" => UNCHANGED backends
    BY Owners
       DEF LoggerInv, BackendMutexInv, JoinInv, LoggerStep, RegisterBackend,
           RegisterLock, RegisterBody, IoWoken, IoLock, IoWrite, IoReturned,
           ExitJoin, ExitJoinSelf, ExitLock, ExitClear, ExitGoes
  <1>2. LoggerInv /\ [Next]_vars
          => [(io = "write") => UNCHANGED backends]_vars
    BY <1>1, NextIsLoggerStep
  <1> QED
    BY <1>2, LoggerInvariance, PTL DEF Spec, BackendsStableWhileWriting

-----------------------------------------------------------------------------
(* The logger with its queue.  What ThreadsafeQueueProofs shows of every   *)
(* queue is used of m_message_queue; what is added is how the logger uses  *)
(* it: who makes which calls, and where the io thread is in them.          *)

QP == INSTANCE ThreadsafeQueueProofs WITH
  Producers <- Writers \cup {Exit}, Consumers <- {IO}, Values <- Messages,
  MaxSizes <- {0}, Thresholds <- {}, Prebufferings <- {1}

CallsInv ==
  /\ \A w \in Writers : call[w].op \in {"none", "push"}
  /\ \A w \in Writers : call[w].op = "push" => call[w].val.level # "discard"
  /\ call[Exit].op \in {"none", "trigger_wakeup"}
  /\ call[IO].op \in {"none", "wait_and_pop"}

PopInv ==
  /\ io # "popping" => pc[IO] = "idle"
  /\ pc[IO] \in {"lock", "locked", "rx_wait"} => ret[IO].kind = "nothing"
  /\ io = "write" => ret[IO].kind = "value"

IInv == TypeOK /\ QP!IInv /\ LoggerInv /\ CallsInv /\ PopInv

\* The arguments that the logger calls its queue with are those it may take.
LEMMA QueueFits == QP!QueueAssumption
  <1>1. NoThread \notin (Writers \cup {Exit}) \cup {IO} /\ NoValue \notin Messages
    BY LoggerAssumption
  <1>2. {0} \subseteq Nat /\ {1} \subseteq Nat \ {0} /\ {} \subseteq Nat \ {0}
    OBVIOUS
  <1> QED
    BY <1>1, <1>2 DEF QP!QueueAssumption, QP!Threads

\* The queue of the specification and that of the proofs are the same one.
LEMMA SameQueue == (Q!Init <=> QP!Init) /\ (Q!Next <=> QP!Next)
  <1>1. Q!Init <=> QP!Init
    BY DEF Q!Init, QP!Init, Q!Threads, QP!Threads, Q!NoCall, QP!NoCall, Q!Nothing,
       QP!Nothing
  <1>2. Q!Next <=> QP!Next
    BY DEF Q!Next, QP!Next, Q!ProducerCall, QP!ProducerCall, Q!ConsumerCall,
       QP!ConsumerCall, Q!Push, QP!Push, Q!PushWaitIfFull, QP!PushWaitIfFull,
       Q!TriggerWakeup, QP!TriggerWakeup, Q!Notify, QP!Notify, Q!Size, QP!Size,
       Q!TryPop, QP!TryPop, Q!WaitAndPop, QP!WaitAndPop, Q!Call, QP!Call, Q!Nothing,
       QP!Nothing, Q!Threads, QP!Threads, Q!Step, QP!Step, Q!SpuriousWakeup,
       QP!SpuriousWakeup, Q!Lock, QP!Lock, Q!PushBody, QP!PushBody, Q!PushWaitBlock,
       QP!PushWaitBlock, Q!PushWaitBody, QP!PushWaitBody, Q!TriggerWakeupBody,
       QP!TriggerWakeupBody, Q!SizeBody, QP!SizeBody, Q!TryPopEmpty, QP!TryPopEmpty,
       Q!TryPopBody, QP!TryPopBody, Q!WaitAndPopBlock, QP!WaitAndPopBlock,
       Q!WaitAndPopThrow, QP!WaitAndPopThrow, Q!WaitAndPopBody, QP!WaitAndPopBody,
       Q!NotifyRx, QP!NotifyRx, Q!NotifyTx, QP!NotifyTx, Q!NotifyOne, QP!NotifyOne,
       Q!Holds, QP!Holds, Q!Unlock, QP!Unlock, Q!HasRoom, QP!HasRoom, Q!HasEnough,
       QP!HasEnough, Q!TakeFront, QP!TakeFront, Q!Accepts, QP!Accepts
  <1> QED
    BY <1>1, <1>2

\* ... with the same types, before and after a step.
LEMMA SameTypes == (QP!TypeOK <=> Q!TypeOK) /\ (QP!TypeOK' <=> Q!TypeOK')
  BY DEF QP!TypeOK, Q!TypeOK, QP!Threads, Q!Threads, QP!PCs, Q!PCs, QP!Calls, Q!Calls,
     QP!Returns, Q!Returns

\* What QP!IInv says of the queue's variables.
LEMMA QueueTypes ==
  ASSUME QP!IInv
  PROVE  /\ Q!TypeOK
         /\ the_queue \in Seq(Messages)
         /\ pc \in [Q!Threads -> Q!PCs]
         /\ call \in [Q!Threads -> Q!Calls]
         /\ ret \in [Q!Threads -> Q!Returns]
         /\ \A t \in Q!Threads : pc[t] = "rx_wait" => call[t].op = "wait_and_pop"
         /\ \A t \in Q!Threads : pc[t] = "tx_wait" => call[t].op = "push_wait_if_full"
  <1>2. Q!TypeOK /\ QP!CallInv
    BY SameTypes DEF QP!IInv
  <1>3. QP!Threads = Q!Threads
    BY DEF QP!Threads, Q!Threads
  <1> QED
    BY <1>2, <1>3 DEF Q!TypeOK, QP!CallInv

-----------------------------------------------------------------------------
(* What a step inside of the queue means to the logger.                    *)

\* Nothing that it can see.
Quiet == UNCHANGED <<the_queue, ret>>

\* A writer's message joins the queue.
Pushed(t) ==
  /\ t \in Writers /\ call[t].op = "push"
  /\ the_queue' = Append(the_queue, call[t].val)
  /\ ret'[IO] = ret[IO]

\* The io thread is told to end.
Woken ==
  /\ pc[IO] = "locked" /\ pc'[IO] = "idle"
  /\ ret'[IO] = [kind |-> "wakeup"]
  /\ UNCHANGED the_queue

\* The io thread takes the oldest message.
Popped ==
  /\ pc[IO] = "locked" /\ pc'[IO] = "notify_tx"
  /\ the_queue # <<>> /\ the_queue' = Tail(the_queue)
  /\ ret'[IO] = [kind |-> "value", value |-> Head(the_queue)]

LEMMA QueueEffect ==
  ASSUME QP!IInv, CallsInv, NEW t \in Q!Threads, Q!Step(t) \/ Q!SpuriousWakeup(t)
  PROVE  /\ call' = call
         /\ pc[IO] = "idle" => pc'[IO] = "idle"
         /\ pc'[IO] \in {"lock", "locked", "rx_wait"} =>
              pc[IO] \in {"lock", "locked", "rx_wait"}
         /\ Quiet \/ Pushed(t) \/ Woken \/ Popped
  <1>1. /\ pc \in [Q!Threads -> Q!PCs] /\ ret \in [Q!Threads -> Q!Returns]
        /\ call \in [Q!Threads -> Q!Calls]
        /\ IO \in Q!Threads /\ t \in Writers \cup {Exit, IO}
        /\ \A u \in Q!Threads : pc[u] = "tx_wait" => call[u].op = "push_wait_if_full"
    BY QueueTypes DEF Q!Threads
  <1>2. /\ t # IO => call[t].op \in {"none", "push", "trigger_wakeup"}
        /\ t = IO => call[t].op \in {"none", "wait_and_pop"}
        /\ t \notin Writers => call[t].op # "push"
    BY <1>1, Owners, LoggerAssumption DEF CallsInv
  <1>3. /\ pc[t] # "tx_wait" /\ pc[IO] # "tx_wait"
        /\ call[t].op \notin {"push_wait_if_full", "size", "try_pop"}
    BY <1>1, <1>2 DEF CallsInv
  <1>4. CASE Q!Lock(t)
    BY <1>1, <1>4 DEF Q!Lock, Quiet
  <1>5. CASE Q!PushBody(t)
    <2>1. call[t].bound = 0
      <3>1. call[t] \in Q!Calls /\ call[t].op = "push"
        BY <1>1, <1>5 DEF Q!PushBody, Q!Holds
      <3>2. call[t] \in [op : {"push"}, val : Messages, bound : {0}]
        BY <3>1 DEF Q!Calls
      <3> QED
        BY <3>2
    <2>2. t \in Writers /\ t # IO
      BY <1>2, <1>5 DEF Q!PushBody, Q!Holds
    <2> QED
      BY <1>1, <1>5, <2>1, <2>2 DEF Q!PushBody, Q!Holds, Q!Unlock, Q!Accepts, Pushed
  <1>6. CASE Q!TriggerWakeupBody(t)
    BY <1>1, <1>2, <1>6 DEF Q!TriggerWakeupBody, Q!Holds, Q!Unlock, Quiet
  <1>7. CASE Q!WaitAndPopBlock(t)
    BY <1>1, <1>7 DEF Q!WaitAndPopBlock, Q!Holds, Q!Unlock, Quiet
  <1>8. CASE Q!WaitAndPopThrow(t)
    BY <1>1, <1>2, <1>8 DEF Q!WaitAndPopThrow, Q!Holds, Q!Unlock, Woken
  <1>9. CASE Q!WaitAndPopBody(t)
    <2>1. t = IO
      BY <1>2, <1>9 DEF Q!WaitAndPopBody, Q!Holds
    <2>2. call[IO].bound = 1
      <3>1. call[IO] \in Q!Calls /\ call[IO].op = "wait_and_pop"
        BY <1>1, <1>9, <2>1 DEF Q!WaitAndPopBody, Q!Holds
      <3>2. call[IO] \in [op : {"wait_and_pop"}, val : {NoValue}, bound : {1}]
        BY <3>1 DEF Q!Calls
      <3> QED
        BY <3>2
    <2>3. the_queue # <<>>
      BY <1>9, <2>1, <2>2, Len(<<>>) = 0 DEF Q!WaitAndPopBody, Q!HasEnough
    <2> QED
      BY <1>1, <1>9, <2>1, <2>3 DEF Q!WaitAndPopBody, Q!Holds, Q!TakeFront, Q!Unlock, Popped
  <1>10. CASE Q!NotifyRx(t)
    BY <1>1, <1>10 DEF Q!NotifyRx, Q!NotifyOne, Quiet
  <1>11. CASE Q!NotifyTx(t)
    BY <1>1, <1>3, <1>11 DEF Q!NotifyTx, Q!NotifyOne, Quiet
  <1>12. CASE Q!SpuriousWakeup(t)
    BY <1>1, <1>3, <1>12 DEF Q!SpuriousWakeup, Quiet
  <1>13. CASE \/ Q!PushWaitBlock(t) \/ Q!PushWaitBody(t) \/ Q!SizeBody(t)
              \/ Q!TryPopEmpty(t) \/ Q!TryPopBody(t)
    BY <1>3, <1>13 DEF Q!PushWaitBlock, Q!PushWaitBody, Q!SizeBody, Q!TryPopEmpty,
       Q!TryPopBody, Q!Holds
  <1> QED
    BY <1>4, <1>5, <1>6, <1>7, <1>8, <1>9, <1>10, <1>11, <1>12, <1>13 DEF Q!Step

-----------------------------------------------------------------------------
(* The invariant.                                                          *)

\* A message of writer w is one.
LEMMA MessageOfLog ==
  ASSUME TypeOK, NEW w \in Writers, NEW l \in Levels, NEW x \in Texts,
         count[w] < MaxLogs, count' = [count EXCEPT ![w] = @ + 1]
  PROVE  /\ [by |-> w, n |-> count'[w], level |-> l, text |-> x] \in Messages
         /\ count' \in [Writers -> 0..MaxLogs]
  <1>1. count \in [Writers -> 0..MaxLogs] /\ MaxLogs \in Nat
    BY LoggerAssumption DEF TypeOK
  <1>2. count'[w] \in 1..MaxLogs
    BY <1>1
  <1> QED
    BY <1>1, <1>2 DEF Messages

\* What the logger does to its queue are steps of the queue.
LEMMA QueueNext ==
  ASSUME IInv, [Next]_vars
  PROVE  QP!IInv'
  <1> USE DEF Q!Next, Q!Threads
  <1>1. CASE \E w \in Writers, l \in Levels, x \in Texts : Log(w, l, x)
    <2>1. PICK w \in Writers, l \in Levels, x \in Texts : Log(w, l, x)
      BY <1>1
    <2> DEFINE m == [by |-> w, n |-> count'[w], level |-> l, text |-> x]
    <2>2. m \in Messages
      BY <2>1, MessageOfLog DEF Log, IInv
    <2>3. Q!Push(w, m, 0)
      BY <2>1 DEF Log
    <2>4. Q!ProducerCall(w)
      BY <2>2, <2>3 DEF Q!ProducerCall
    <2>5. Q!Next
      BY <2>4
    <2> QED
      BY <2>5, SameQueue, QueueFits, QP!NextIInv DEF IInv
  <1>2. CASE IoStep /\ IoPop
    <2>1. Q!ConsumerCall(IO)
      BY <1>2 DEF IoPop, Q!ConsumerCall
    <2>2. Q!Next
      BY <2>1
    <2> QED
      BY <2>2, SameQueue, QueueFits, QP!NextIInv DEF IInv
  <1>3. CASE ExitWakeup
    <2>1. Q!ProducerCall(Exit)
      BY <1>3 DEF ExitWakeup, Q!ProducerCall
    <2>2. Q!Next
      BY <2>1
    <2> QED
      BY <2>2, SameQueue, QueueFits, QP!NextIInv DEF IInv
  <1>4. CASE \E t \in Q!Threads : Q!Step(t) \/ Q!SpuriousWakeup(t)
    <2>1. Q!Next
      BY <1>4
    <2> QED
      BY <2>1, SameQueue, QueueFits, QP!NextIInv DEF IInv
  <1>5. CASE UNCHANGED qvars
    BY <1>5, QueueFits, QP!NextIInv DEF IInv, qvars, QP!vars
  <1>6. CASE (\E w \in Writers : WriterStep(w)) \/ IoStep \/ ExitStep \/ IoSpuriousWakeup
    BY <1>2, <1>3, <1>4, <1>5, <1>6
       DEF WriterStep, IoStep, ExitStep, IoSpuriousWakeup, RegisterLock, RegisterBody,
           IoWoken, IoLock, IoWrite, ExitJoin, ExitJoinSelf, ExitLock, ExitClear, ExitGoes
  <1>7. CASE \/ \E b \in Backends : RegisterBackend(b)
             \/ ReturnFromMain \/ \E t \in SignalTargets : Signal(t)
             \/ UNCHANGED vars
    BY <1>5, <1>7 DEF RegisterBackend, ReturnFromMain, Signal, BeginExit, vars
  <1> QED
    BY <1>1, <1>6, <1>7 DEF Next

\* Nothing has been logged when the constructor returns.
LEMMA InitIInv == Init => IInv
  <1> SUFFICES ASSUME Init PROVE IInv
    OBVIOUS
  <1>1. QP!IInv
    BY SameQueue, QueueFits, QP!InitIInv DEF Init
  <1>2. LoggerInv
    BY Owners DEF Init, LoggerInv, JoinInv, BackendMutexInv
  <1>3. /\ IO \in Q!Threads /\ Exit \in Q!Threads /\ Writers \subseteq Q!Threads
    BY DEF Q!Threads
  <1>4. CallsInv /\ PopInv
    BY <1>3 DEF Init, Q!Init, Q!NoCall, CallsInv, PopInv
  <1>5. TypeOK
    <2>1. Q!TypeOK
      BY <1>1, QueueTypes
    <2>2. output \in [Sinks -> Seq({Line(m) : m \in Messages})]
      BY DEF Init
    <2>3. count \in [Writers -> 0..MaxLogs]
      <3>1. MaxLogs \in Nat
        BY LoggerAssumption
      <3>2. 0 \in 0..MaxLogs
        BY <3>1
      <3> QED
        BY <3>2 DEF Init
    <2> QED
      BY <2>1, <2>2, <2>3 DEF Init, TypeOK
  <1> QED
    BY <1>1, <1>2, <1>4, <1>5 DEF IInv

\* A step inside of the queue.
LEMMA QueueStepInv ==
  ASSUME IInv, QP!IInv', NEW t \in Q!Threads, Q!Step(t) \/ Q!SpuriousWakeup(t),
         UNCHANGED lvars
  PROVE  IInv'
  <1>1. /\ call' = call
        /\ pc[IO] = "idle" => pc'[IO] = "idle"
        /\ pc'[IO] \in {"lock", "locked", "rx_wait"} =>
             pc[IO] \in {"lock", "locked", "rx_wait"}
        /\ Quiet \/ Pushed(t) \/ Woken \/ Popped
    BY QueueEffect DEF IInv
  <1>2. TypeOK'
    BY SameTypes DEF IInv, QP!IInv, TypeOK, lvars
  <1>3. LoggerInv'
    BY DEF IInv, LoggerInv, JoinInv, BackendMutexInv, lvars
  <1>4. CallsInv'
    BY <1>1 DEF IInv, CallsInv
  <1>5. PopInv'
    BY <1>1 DEF IInv, PopInv, lvars, Quiet, Pushed, Woken, Popped
  <1> QED
    BY <1>2, <1>3, <1>4, <1>5 DEF IInv

\* A step of the logger that leaves the queue alone.
LEMMA OwnStepInv ==
  ASSUME IInv, LoggerInv', QP!IInv', UNCHANGED qvars,
         \/ \E b \in Backends : RegisterBackend(b)
         \/ RegisterLock \/ RegisterBody
         \/ IoWoken \/ IoLock \/ IoWrite
         \/ ReturnFromMain \/ \E t \in SignalTargets : Signal(t)
         \/ ExitJoin \/ ExitJoinSelf \/ ExitLock \/ ExitClear
  PROVE  IInv'
  <1>1. CallsInv'
    BY DEF IInv, CallsInv, qvars
  <1>2. PopInv'
    BY DEF IInv, PopInv, qvars, RegisterBackend, RegisterLock, RegisterBody, IoWoken,
       IoLock, IoWrite, IoReturned, ReturnFromMain, Signal, BeginExit, ExitJoin,
       ExitJoinSelf, ExitLock, ExitClear, ExitGoes
  <1>3. Q!TypeOK'
    BY SameTypes DEF QP!IInv
  <1>4. /\ m_backend_mutex' \in {Main, IO, Exit, NoThread}
        /\ io' \in {"pop", "popping", "write", "ended"}
        /\ exit' \in {"none", "wakeup", "waking", "lock", "clear", "done", "aborted"}
        /\ count' \in [Writers -> 0..MaxLogs]
    BY DEF IInv, TypeOK, RegisterBackend, RegisterLock, RegisterBody, IoWoken,
       IoLock, IoWrite, ReturnFromMain, Signal, BeginExit, ExitJoin, ExitJoinSelf,
       ExitLock, ExitClear, ExitGoes
  <1>5. backends' \subseteq Backends /\ registering' \in Backends \cup {NoBackend}
    BY DEF IInv, TypeOK, LoggerInv, BackendMutexInv, RegisterBackend, RegisterLock,
       RegisterBody, IoWoken, IoLock, IoWrite, ReturnFromMain, Signal, BeginExit,
       ExitJoin, ExitJoinSelf, ExitLock, ExitClear, ExitGoes
  <1>6. host' \in Writers \cup {IO, Bystander, NoThread}
    BY LoggerAssumption
       DEF IInv, TypeOK, RegisterBackend, RegisterLock, RegisterBody, IoWoken, IoLock,
           IoWrite, ReturnFromMain, Signal, BeginExit, ExitJoin, ExitJoinSelf,
           ExitLock, ExitClear, ExitGoes
  <1>7. output' \in [Sinks -> Seq({Line(m) : m \in Messages})]
    <2>1. CASE IoWrite
      <3>1. ret[IO] \in Q!Returns /\ ret[IO].kind = "value"
        BY <2>1, QueueTypes DEF IInv, PopInv, IoWrite, Q!Threads
      <3>2. ret[IO].value \in Messages
        BY <3>1 DEF Q!Returns
      <3>3. Line(ret[IO].value) \in {Line(m) : m \in Messages}
        BY <3>2
      <3> QED
        BY <2>1, <3>3 DEF IoWrite, IInv, TypeOK
    <2>2. CASE output' = output
      BY <2>2 DEF IInv, TypeOK
    <2> QED
      BY <2>1, <2>2 DEF RegisterBackend, RegisterLock, RegisterBody, IoWoken, IoLock,
         ReturnFromMain, Signal, BeginExit, ExitJoin, ExitJoinSelf, ExitLock, ExitClear,
         ExitGoes
  <1>8. TypeOK'
    BY <1>3, <1>4, <1>5, <1>6, <1>7 DEF TypeOK
  <1> QED
    BY <1>1, <1>2, <1>8 DEF IInv

\* The calls of the queue's methods.
LEMMA CallStepInv ==
  ASSUME IInv, LoggerInv', QP!IInv',
         \/ \E w \in Writers, l \in Levels, x \in Texts : Log(w, l, x)
         \/ IoPop
         \/ ExitWakeup
  PROVE  IInv'
  <1> USE DEF Q!Call, Q!Threads
  <1>1. /\ pc \in [Q!Threads -> Q!PCs] /\ ret \in [Q!Threads -> Q!Returns]
        /\ call \in [Q!Threads -> Q!Calls]
    BY QueueTypes DEF IInv
  <1>2. IO \notin Writers /\ Exit \notin Writers /\ IO # Exit
    BY LoggerAssumption
  <1>3. Q!TypeOK'
    BY SameTypes DEF QP!IInv
  <1>4. CASE \E w \in Writers, l \in Levels, x \in Texts : Log(w, l, x)
    <2>1. PICK w \in Writers, l \in Levels, x \in Texts : Log(w, l, x)
      BY <1>4
    <2> DEFINE m == [by |-> w, n |-> count'[w], level |-> l, text |-> x]
    <2>2. /\ l # "discard" /\ m.level = l
          /\ call' = [call EXCEPT ![w] = [op |-> "push", val |-> m, bound |-> 0]]
          /\ pc' = [pc EXCEPT ![w] = "lock"]
          /\ ret' = [ret EXCEPT ![w] = Q!Nothing]
          /\ UNCHANGED <<m_backend_mutex, backends, registering, io, output, exit, host>>
      BY <2>1 DEF Log, Q!Push
    <2>3. count' \in [Writers -> 0..MaxLogs]
      BY <2>1, MessageOfLog DEF IInv, Log
    <2>4. TypeOK'
      BY <1>3, <2>2, <2>3 DEF IInv, TypeOK
    <2> HIDE DEF m
    <2>5. CallsInv' /\ PopInv'
      BY <1>1, <1>2, <2>2 DEF IInv, CallsInv, PopInv
    <2> QED
      BY <2>4, <2>5 DEF IInv
  <1>5. CASE IoPop
    <2>1. TypeOK'
      BY <1>3, <1>5 DEF IoPop, IInv, TypeOK
    <2>2. CallsInv' /\ PopInv'
      BY <1>1, <1>2, <1>5
         DEF IoPop, Q!WaitAndPop, Q!Nothing, IInv, CallsInv, PopInv
    <2> QED
      BY <2>1, <2>2 DEF IInv
  <1>6. CASE ExitWakeup
    <2>1. TypeOK'
      BY <1>3, <1>6 DEF ExitWakeup, IInv, TypeOK
    <2>2. CallsInv' /\ PopInv'
      BY <1>1, <1>2, <1>6 DEF ExitWakeup, Q!TriggerWakeup, IInv, CallsInv, PopInv
    <2> QED
      BY <2>1, <2>2 DEF IInv
  <1> QED
    BY <1>4, <1>5, <1>6

\* The invariant is inductive.
LEMMA NextIInv == IInv /\ [Next]_vars => IInv'
  <1> SUFFICES ASSUME IInv, [Next]_vars PROVE IInv'
    OBVIOUS
  <1>1. LoggerInv' /\ QP!IInv'
    BY NextIsLoggerStep, NextLoggerInv, QueueNext DEF IInv
  <1>2. CASE UNCHANGED vars
    <2>1. UNCHANGED qvars /\ UNCHANGED lvars
      BY <1>2 DEF vars
    <2>2. TypeOK'
      BY <1>1, <2>1, SameTypes DEF IInv, QP!IInv, TypeOK, lvars
    <2>3. CallsInv' /\ PopInv'
      BY <2>1 DEF IInv, CallsInv, PopInv, qvars, lvars
    <2> QED
      BY <1>1, <2>2, <2>3 DEF IInv
  <1>3. CASE \E t \in Q!Threads : (Q!Step(t) \/ Q!SpuriousWakeup(t)) /\ UNCHANGED lvars
    BY <1>1, <1>3, QueueStepInv
  <1>4. CASE \E w \in Writers : WriterStep(w)
    <2>1. PICK w \in Writers : WriterStep(w)
      BY <1>4
    <2>2. CASE Q!Step(w) /\ UNCHANGED lvars
      BY <1>3, <2>2 DEF Q!Threads
    <2>3. CASE RegisterLock \/ RegisterBody
      BY <1>1, <2>3, OwnStepInv DEF RegisterLock, RegisterBody
    <2> QED
      BY <2>1, <2>2, <2>3 DEF WriterStep
  <1>5. CASE IoStep \/ IoSpuriousWakeup
    <2>1. CASE (Q!Step(IO) \/ Q!SpuriousWakeup(IO)) /\ UNCHANGED lvars
      BY <1>3, <2>1 DEF Q!Threads
    <2>2. CASE IoPop
      BY <1>1, <2>2, CallStepInv
    <2>3. CASE IoWoken \/ IoLock \/ IoWrite
      BY <1>1, <2>3, OwnStepInv DEF IoWoken, IoLock, IoWrite
    <2> QED
      BY <1>5, <2>1, <2>2, <2>3 DEF IoStep, IoSpuriousWakeup
  <1>6. CASE ExitStep
    <2>1. CASE Q!Step(Exit) /\ UNCHANGED lvars
      BY <1>3, <2>1 DEF Q!Threads
    <2>2. CASE ExitWakeup
      BY <1>1, <2>2, CallStepInv
    <2>3. CASE ExitJoin \/ ExitJoinSelf \/ ExitLock \/ ExitClear
      BY <1>1, <2>3, OwnStepInv DEF ExitJoin, ExitJoinSelf, ExitLock, ExitClear, ExitGoes
    <2> QED
      BY <1>6, <2>1, <2>2, <2>3 DEF ExitStep
  <1>7. CASE \E w \in Writers, l \in Levels, x \in Texts : Log(w, l, x)
    BY <1>1, <1>7, CallStepInv
  <1>8. CASE \/ \E b \in Backends : RegisterBackend(b)
             \/ ReturnFromMain \/ \E t \in SignalTargets : Signal(t)
    BY <1>1, <1>8, OwnStepInv DEF RegisterBackend, ReturnFromMain, Signal, BeginExit
  <1> QED
    BY <1>2, <1>4, <1>5, <1>6, <1>7, <1>8 DEF Next

LEMMA Invariance == Spec => []IInv
  <1>1. Init => IInv
    BY InitIInv
  <1>2. IInv /\ [Next]_vars => IInv'
    BY NextIInv
  <1> QED
    BY <1>1, <1>2, PTL DEF Spec

\* Every variable of the logger and of its queue keeps its type.
THEOREM LoggerTypes == Spec => []TypeOK
  <1>1. IInv => TypeOK
    BY DEF IInv
  <1> QED
    BY <1>1, Invariance, PTL

-----------------------------------------------------------------------------
(* The logger implements LogStream: what has been pushed, or popped and    *)
(* not yet written, is what the stream has still to do.                    *)

Todo == InHand \o the_queue

\* The message in the hand of the io thread, if there is one.
LEMMA InHandType ==
  ASSUME IInv
  PROVE  /\ InHand \in Seq(Messages) /\ the_queue \in Seq(Messages)
         /\ io = "write" => InHand = <<ret[IO].value>> /\ ret[IO].value \in Messages
         /\ io \notin {"popping", "write"} => InHand = <<>>
         /\ pc[IO] = "locked" => InHand = <<>> /\ io = "popping"
  <1>1. ret[IO] \in Q!Returns /\ the_queue \in Seq(Messages)
    BY QueueTypes DEF IInv, Q!Threads
  <1>2. ret[IO].kind = "value" => ret[IO].value \in Messages
    BY <1>1 DEF Q!Returns
  <1>3. InHand \in Seq(Messages)
    BY <1>2 DEF InHand
  <1>4. io = "write" => ret[IO].kind = "value"
    BY DEF IInv, PopInv
  <1>5. pc[IO] = "locked" => ret[IO].kind = "nothing" /\ io = "popping"
    BY DEF IInv, PopInv
  <1> QED
    BY <1>1, <1>2, <1>3, <1>4, <1>5 DEF InHand

\* Inside of the queue only a push can be seen: the pop takes the message from
\* the queue into the hand.
LEMMA TodoOfQueue ==
  ASSUME IInv, NEW t \in Q!Threads, Q!Step(t) \/ Q!SpuriousWakeup(t), io' = io
  PROVE  \/ Todo' = Todo
         \/ Pushed(t) /\ Todo' = Append(Todo, call[t].val)
  <1>1. InHand \in Seq(Messages) /\ the_queue \in Seq(Messages)
    BY InHandType
  <1>2. CASE Quiet
    BY <1>2 DEF Quiet, Todo, InHand
  <1>3. CASE Pushed(t)
    <2>1. InHand' = InHand
      BY <1>3 DEF Pushed, InHand
    <2>2. call[t].val \in Messages
      <3>1. call[t] \in Q!Calls /\ call[t].op = "push"
        BY <1>3, QueueTypes DEF Pushed, IInv, Q!Threads
      <3>2. call[t] \in [op : {"push"}, val : Messages, bound : {0}]
        BY <3>1 DEF Q!Calls
      <3> QED
        BY <3>2
    <2>3. InHand \o Append(the_queue, call[t].val) = Append(InHand \o the_queue, call[t].val)
      BY <1>1, <2>2
    <2>4. Todo' = InHand' \o the_queue'
      BY DEF Todo
    <2> QED
      BY <1>3, <2>1, <2>3, <2>4 DEF Pushed, Todo
  <1>4. CASE Woken
    <2>1. InHand = <<>> /\ InHand' = <<>>
      BY <1>4, InHandType DEF Woken, InHand
    <2> QED
      BY <1>4, <2>1 DEF Woken, Todo
  <1>5. CASE Popped
    <2>1. InHand = <<>> /\ io = "popping"
      BY <1>5, InHandType DEF Popped
    <2>2. InHand' = <<Head(the_queue)>>
      BY <1>5, <2>1 DEF Popped, InHand
    <2>3. <<Head(the_queue)>> \o Tail(the_queue) = <<>> \o the_queue
      BY <1>1, <1>5 DEF Popped
    <2>4. Todo' = InHand' \o the_queue'
      BY DEF Todo
    <2> QED
      BY <1>5, <2>1, <2>2, <2>3, <2>4 DEF Popped, Todo
  <1> QED
    BY <1>2, <1>3, <1>4, <1>5, QueueEffect DEF IInv

\* A queue step of a thread that runs is a message accepted, or nothing.
LEMMA QueueStream ==
  ASSUME IInv, NEW t \in Q!Threads, Q!Step(t) \/ Q!SpuriousWakeup(t),
         exit \notin {"done", "aborted"}, UNCHANGED lvars
  PROVE  [Stream!Next]_Stream!vars
  <1>1. UNCHANGED <<backends, io, output, exit>>
    BY DEF lvars
  <1>2. CASE Todo' = Todo
    BY <1>1, <1>2 DEF Stream!vars, Todo
  <1>3. CASE Pushed(t) /\ Todo' = Append(Todo, call[t].val)
    <2>1. call[t].val \in Messages
      <3>1. call[t] \in Q!Calls /\ call[t].op = "push"
        BY <1>3, QueueTypes DEF Pushed, IInv, Q!Threads
      <3>2. call[t] \in [op : {"push"}, val : Messages, bound : {0}]
        BY <3>1 DEF Q!Calls
      <3> QED
        BY <3>2
    <2>2. call[t].val.level # "discard"
      BY <1>3 DEF Pushed, IInv, CallsInv
    <2>3. Stream!Accepts(call[t].val)
      BY <1>1, <1>3, <2>2 DEF Stream!Accepts, Todo
    <2> QED
      BY <2>1, <2>3 DEF Stream!Next, Stream!Accept
  <1> QED
    BY <1>1, <1>2, <1>3, TodoOfQueue

LEMMA InitStream == Init => Stream!Init
  <1> SUFFICES ASSUME Init PROVE Stream!Init
    OBVIOUS
  <1>1. InHand \o the_queue = <<>>
    BY DEF Init, Q!Init, InHand
  <1>2. /\ backends \cup {Console} \in SUBSET Sinks
        /\ output = [s \in Sinks |-> <<>>] /\ exit = "none"
    BY DEF Init, Sinks
  <1> QED
    BY <1>1, <1>2 DEF Stream!Init

\* The message that is written is the oldest.
LEMMA WriteStream ==
  ASSUME IInv, IoWrite, exit \notin {"done", "aborted"}
  PROVE  Stream!Deliver
  <1>1. /\ InHand = <<ret[IO].value>> /\ ret[IO].value \in Messages
        /\ the_queue \in Seq(Messages)
    BY InHandType DEF IoWrite
  <1>2. /\ Todo # <<>> /\ Head(Todo) = ret[IO].value /\ Tail(Todo) = the_queue
    BY <1>1 DEF Todo
  <1>3. Todo' = the_queue
    <2>1. InHand' = <<>> /\ the_queue' = the_queue
      BY DEF IoWrite, InHand, qvars
    <2>2. Todo' = InHand' \o the_queue'
      BY DEF Todo
    <2> QED
      BY <1>1, <2>1, <2>2
  <1>4. /\ output' = [s \in Sinks |->
                        IF s \in backends \cup {Console} /\ Takes(s, Head(Todo).level)
                        THEN Append(output[s], Line(Head(Todo))) ELSE output[s]]
        /\ UNCHANGED <<backends, exit>>
    BY <1>2 DEF IoWrite
  <1> QED
    BY <1>2, <1>3, <1>4 DEF Stream!Deliver, Todo

\* A registered backend, the beginning of exit() and the end of the destructor
\* are steps of the stream; the rest of what the logger does by itself is not
\* seen.
LEMMA OwnStepStream ==
  ASSUME IInv, UNCHANGED qvars,
         \/ \E b \in Backends : RegisterBackend(b)
         \/ exit \notin {"done", "aborted"} /\ (RegisterLock \/ RegisterBody)
         \/ IoWoken \/ IoLock
         \/ ReturnFromMain \/ \E t \in SignalTargets : Signal(t)
         \/ ExitJoin \/ ExitJoinSelf \/ ExitLock \/ ExitClear
  PROVE  [Stream!Next]_Stream!vars
  <1>1. the_queue' = the_queue /\ ret' = ret
    BY DEF qvars
  <1>2. Todo' = Todo
    BY <1>1 DEF Todo, InHand, RegisterBackend, RegisterLock, RegisterBody, IoWoken,
       IoLock, IoReturned, ReturnFromMain, Signal, BeginExit, ExitJoin, ExitJoinSelf,
       ExitLock, ExitClear, ExitGoes
  <1>3. CASE (\E b \in Backends : RegisterBackend(b)) \/ RegisterLock \/ IoWoken \/ IoLock
    BY <1>2, <1>3
       DEF RegisterBackend, RegisterLock, IoWoken, IoLock, Stream!vars, Todo
  <1>4. CASE exit \notin {"done", "aborted"} /\ RegisterBody
    <2>1. registering \in Backends
      BY <1>4 DEF IInv, TypeOK, LoggerInv, BackendMutexInv, RegisterBody
    <2>2. /\ backends' \cup {Console} = (backends \cup {Console}) \cup {registering}
          /\ UNCHANGED <<output, exit>> /\ registering \in Sinks
      BY <1>4, <2>1 DEF RegisterBody, Sinks
    <2>3. CASE registering \in backends \cup {Console}
      <3>1. backends' \cup {Console} = backends \cup {Console}
        BY <2>2, <2>3
      <3> QED
        BY <1>2, <2>2, <3>1 DEF Stream!vars, Todo
    <2>4. CASE registering \notin backends \cup {Console}
      BY <1>2, <1>4, <2>2, <2>4 DEF Stream!Next, Stream!Activate, Todo
    <2> QED
      BY <2>3, <2>4
  <1>5. CASE ReturnFromMain \/ \E t \in SignalTargets : Signal(t)
    <2>1. exit = "none" /\ exit' = "wakeup" /\ UNCHANGED <<backends, output>>
      BY <1>5 DEF ReturnFromMain, Signal, BeginExit
    <2> QED
      BY <1>2, <2>1 DEF Stream!Next, Stream!BeginClose, Todo
  <1>6. CASE ExitJoin \/ ExitJoinSelf \/ ExitLock
    <2>1. /\ exit \notin {"none", "done"} /\ exit' \notin {"none", "done"}
          /\ UNCHANGED <<backends, output>>
      BY <1>6 DEF ExitJoin, ExitJoinSelf, ExitLock, ExitGoes
    <2> QED
      BY <1>2, <2>1 DEF Stream!vars, Todo
  <1>7. CASE ExitClear
    <2>1. /\ exit = "clear" /\ exit' = "done" /\ output' = output /\ backends' = {}
      BY <1>7 DEF ExitClear
    <2>2. backends' \cup {Console} \in SUBSET (backends \cup {Console})
      BY <2>1
    <2> QED
      BY <1>2, <2>1, <2>2 DEF Stream!Next, Stream!Close, Todo
  <1> QED
    BY <1>3, <1>4, <1>5, <1>6, <1>7

\* A call of a method is not seen.
LEMMA CallStepStream ==
  ASSUME IInv, IInv',
         \/ \E w \in Writers, l \in Levels, x \in Texts : Log(w, l, x)
         \/ IoPop
         \/ ExitWakeup
  PROVE  UNCHANGED Stream!vars
  <1>1. ret \in [Q!Threads -> Q!Returns] /\ IO \in Q!Threads /\ IO \notin Writers \cup {Exit}
    BY QueueTypes, LoggerAssumption DEF IInv, Q!Threads
  <1>2. the_queue' = the_queue /\ UNCHANGED <<backends, output>>
    BY DEF Log, IoPop, ExitWakeup, Q!Push, Q!WaitAndPop, Q!TriggerWakeup, Q!Call
  <1>3. InHand' = InHand
    <2>1. CASE (\E w \in Writers, l \in Levels, x \in Texts : Log(w, l, x)) \/ ExitWakeup
      <3>1. ret'[IO] = ret[IO] /\ io' = io
        BY <1>1, <2>1 DEF Log, ExitWakeup, Q!Push, Q!TriggerWakeup, Q!Call
      <3> QED
        BY <3>1 DEF InHand
    <2>2. CASE IoPop
      <3>1. ret'[IO].kind = "nothing" /\ io = "pop"
        BY <1>1, <2>2 DEF IoPop, Q!WaitAndPop, Q!Call, Q!Nothing
      <3> QED
        BY <3>1 DEF InHand
    <2> QED
      BY <2>1, <2>2
  <1>4. exit' = exit \/ (exit = "wakeup" /\ exit' = "waking")
    BY DEF Log, IoPop, ExitWakeup
  <1> QED
    BY <1>2, <1>3, <1>4 DEF Stream!vars

LEMMA NextStream ==
  ASSUME IInv, IInv', [Next]_vars
  PROVE  [Stream!Next]_Stream!vars
  <1>1. CASE UNCHANGED vars
    BY <1>1 DEF vars, qvars, lvars, Stream!vars, InHand
  <1>2. CASE \E t \in Q!Threads :
               /\ Q!Step(t) \/ Q!SpuriousWakeup(t)
               /\ Runs(t) /\ UNCHANGED lvars
    BY <1>2, QueueStream DEF Runs
  <1>3. CASE \E w \in Writers : WriterStep(w)
    <2>1. PICK w \in Writers : WriterStep(w)
      BY <1>3
    <2>2. CASE Q!Step(w) /\ UNCHANGED lvars
      BY <1>2, <2>1, <2>2 DEF WriterStep, Q!Threads
    <2>3. CASE RegisterLock \/ RegisterBody
      BY <2>1, <2>3, OwnStepStream DEF WriterStep, Runs, RegisterLock, RegisterBody
    <2> QED
      BY <2>1, <2>2, <2>3 DEF WriterStep
  <1>4. CASE IoStep \/ IoSpuriousWakeup
    <2>1. Runs(IO)
      BY <1>4 DEF IoStep, IoSpuriousWakeup
    <2>2. CASE (Q!Step(IO) \/ Q!SpuriousWakeup(IO)) /\ UNCHANGED lvars
      BY <1>2, <2>1, <2>2 DEF Q!Threads
    <2>3. CASE IoPop
      BY <2>3, CallStepStream
    <2>4. CASE IoWoken \/ IoLock
      BY <2>4, OwnStepStream DEF IoWoken, IoLock
    <2>5. CASE IoWrite
      BY <2>1, <2>5, WriteStream DEF Runs, Stream!Next
    <2> QED
      BY <1>4, <2>2, <2>3, <2>4, <2>5 DEF IoStep, IoSpuriousWakeup
  <1>5. CASE ExitStep
    <2>1. CASE Q!Step(Exit) /\ UNCHANGED lvars
      BY <1>2, <1>5, <2>1 DEF ExitStep, Q!Threads
    <2>2. CASE ExitWakeup
      BY <2>2, CallStepStream
    <2>3. CASE ExitJoin \/ ExitJoinSelf \/ ExitLock \/ ExitClear
      BY <2>3, OwnStepStream DEF ExitJoin, ExitJoinSelf, ExitLock, ExitClear, ExitGoes
    <2> QED
      BY <1>5, <2>1, <2>2, <2>3 DEF ExitStep
  <1>6. CASE \E w \in Writers, l \in Levels, x \in Texts : Log(w, l, x)
    BY <1>6, CallStepStream
  <1>7. CASE \/ \E b \in Backends : RegisterBackend(b)
             \/ ReturnFromMain \/ \E t \in SignalTargets : Signal(t)
    BY <1>7, OwnStepStream DEF RegisterBackend, ReturnFromMain, Signal, BeginExit
  <1> QED
    BY <1>1, <1>3, <1>4, <1>5, <1>6, <1>7 DEF Next

\* The logger writes each message once, in the order of the pushes, to every
\* backend that is registered by then and takes its level: with any number of
\* threads, messages and backends, and signals wherever they come.
THEOREM LoggerImplementsStream == Spec => ImplementsLogStream
  <1>1. Init => Stream!Init
    BY InitStream
  <1>2. IInv /\ IInv' /\ [Next]_vars => [Stream!Next]_Stream!vars
    BY NextStream
  <1> QED
    BY <1>1, <1>2, Invariance, PTL DEF Spec, ImplementsLogStream, Stream!Spec
=============================================================================
