--------------------------- MODULE ThreadsafeQueue ---------------------------
(***************************************************************************)
(* lib/ThreadsafeQueue.h: a std::queue guarded by one std::mutex, with two *)
(* condition variables, the_rx_notification for the consumer and           *)
(* the_tx_notification for producers that wait for room.                   *)
(*                                                                         *)
(* A method runs in up to four steps, because other threads can come in    *)
(* between them: the call, the acquisition of the_mutex, the body up to    *)
(* the unlock (one step: the mutex keeps everyone else out of the data),   *)
(* and the notify_one that the code issues after it has unlocked.          *)
(* condition_variable::wait unlocks and blocks in one step, and a thread   *)
(* that is woken acquires the mutex again and re-evaluates its loop        *)
(* condition, so it goes back to where a caller that has just come in is.  *)
(***************************************************************************)
EXTENDS Integers, Sequences

CONSTANTS
  Producers,      \* the threads that push, wake the consumer up and notify
  Consumers,      \* the threads that pop; lib/ThreadsafeQueue.h means one
  Values,         \* the elements
  MaxSizes,       \* the max_size arguments of push, 0 for no limit
  Thresholds,     \* the threshold arguments of push_wait_if_full
  Prebufferings,  \* the prebuffering arguments of wait_and_pop
  NoThread,       \* the owner of an unlocked mutex
  NoValue         \* the val field of a call that takes no element

Threads == Producers \cup Consumers

(***************************************************************************)
(* A threshold of 0 could never be met (push_wait_if_full would block for  *)
(* ever), and wait_and_pop(v, 0) would take front() of a queue that may be *)
(* empty, which std::queue leaves undefined.                               *)
(***************************************************************************)
ASSUME QueueAssumption ==
  /\ NoThread \notin Threads
  /\ NoValue \notin Values
  /\ MaxSizes \subseteq Nat
  /\ Thresholds \subseteq Nat \ {0}
  /\ Prebufferings \subseteq Nat \ {0}

VARIABLES
  the_queue,         \* the elements, front first
  the_mutex,         \* the thread that holds the_mutex, or NoThread
  wakeup_requested,  \* set by trigger_wakeup, cleared by the pop that throws
  pc,                \* where each thread is in its method
  call,              \* the method and arguments of a thread's latest call
  ret                \* what a thread's latest call returned or threw

vars == <<the_queue, the_mutex, wakeup_requested, pc, call, ret>>

Calls ==
  [op : {"push"}, val : Values, bound : MaxSizes]
    \cup [op : {"push_wait_if_full"}, val : Values, bound : Thresholds]
    \cup [op : {"wait_and_pop"}, val : {NoValue}, bound : Prebufferings]
    \cup [op : {"trigger_wakeup", "size", "try_pop", "none"},
          val : {NoValue}, bound : {0}]

NoCall == [op |-> "none", val |-> NoValue, bound |-> 0]

Nothing == [kind |-> "nothing"]
Returns ==
  [kind : {"nothing", "empty", "wakeup"}]
    \cup [kind : {"size"}, size : Nat]
    \cup [kind : {"value"}, value : Values]

PCs == {"idle", "lock", "locked", "rx_wait", "tx_wait",
        "notify_rx", "notify_tx"}

TypeOK ==
  /\ the_queue \in Seq(Values)
  /\ the_mutex \in Threads \cup {NoThread}
  /\ wakeup_requested \in BOOLEAN
  /\ pc \in [Threads -> PCs]
  /\ call \in [Threads -> Calls]
  /\ ret \in [Threads -> Returns]

Init ==
  /\ the_queue = <<>>
  /\ the_mutex = NoThread
  /\ wakeup_requested = FALSE
  /\ pc = [t \in Threads |-> "idle"]
  /\ call = [t \in Threads |-> NoCall]
  /\ ret = [t \in Threads |-> Nothing]

-----------------------------------------------------------------------------
(* Calls: each method but notify begins by constructing its unique_lock.   *)

Call(t, o, v, b) ==
  /\ pc[t] = "idle"
  /\ pc' = [pc EXCEPT ![t] = "lock"]
  /\ call' = [call EXCEPT ![t] = [op |-> o, val |-> v, bound |-> b]]
  /\ ret' = [ret EXCEPT ![t] = Nothing]
  /\ UNCHANGED <<the_queue, the_mutex, wakeup_requested>>

Push(t, val, max_size) == Call(t, "push", val, max_size)
PushWaitIfFull(t, val, threshold) ==
  Call(t, "push_wait_if_full", val, threshold)
TriggerWakeup(t) == Call(t, "trigger_wakeup", NoValue, 0)
Size(t) == Call(t, "size", NoValue, 0)
TryPop(t) == Call(t, "try_pop", NoValue, 0)
WaitAndPop(t, prebuffering) == Call(t, "wait_and_pop", NoValue, prebuffering)

\* notify takes no lock: it goes straight to the notification.
Notify(t) ==
  /\ pc[t] = "idle"
  /\ pc' = [pc EXCEPT ![t] = "notify_rx"]
  /\ UNCHANGED <<the_queue, the_mutex, wakeup_requested, call, ret>>

-----------------------------------------------------------------------------
(* The mutex and the condition variables.                                  *)

Lock(t) ==
  /\ pc[t] = "lock"
  /\ the_mutex = NoThread
  /\ the_mutex' = t
  /\ pc' = [pc EXCEPT ![t] = "locked"]
  /\ UNCHANGED <<the_queue, wakeup_requested, call, ret>>

Holds(t, o) == pc[t] = "locked" /\ the_mutex = t /\ call[t].op = o

\* The end of a body: thread t gives the mutex up and goes on at label.
Unlock(t, label) ==
  /\ the_mutex' = NoThread
  /\ pc' = [pc EXCEPT ![t] = label]

\* notify_one on the condition variable whose waiters are at label: one of
\* them, if there is one, goes for the mutex; the caller's method returns.
NotifyOne(t, label) ==
  LET waiting == {u \in Threads : pc[u] = label} IN
  /\ IF waiting = {}
     THEN pc' = [pc EXCEPT ![t] = "idle"]
     ELSE \E u \in waiting : pc' = [pc EXCEPT ![t] = "idle", ![u] = "lock"]
  /\ UNCHANGED <<the_queue, the_mutex, wakeup_requested, call, ret>>

\* Mutant of NotifyRx: the notification goes to the other condition variable.
NotifyRxCrossed(t) == pc[t] = "notify_rx" /\ NotifyOne(t, "tx_wait")

NotifyRx(t) == pc[t] = "notify_rx" /\ NotifyOne(t, "rx_wait")
NotifyTx(t) == pc[t] = "notify_tx" /\ NotifyOne(t, "tx_wait")

\* condition_variable::wait may return although nobody notified.
SpuriousWakeup(t) ==
  /\ pc[t] \in {"rx_wait", "tx_wait"}
  /\ pc' = [pc EXCEPT ![t] = "lock"]
  /\ UNCHANGED <<the_queue, the_mutex, wakeup_requested, call, ret>>

-----------------------------------------------------------------------------
(* The bodies.                                                             *)

\* Mutant of Accepts: off by one.
AcceptsOneMore(max_size, size) == max_size = 0 \/ size <= max_size

\* push drops the element when max_size is set and already reached.
Accepts(max_size, size) == max_size = 0 \/ size < max_size

\* Both overloads of push: they differ in how the element is moved.
PushBody(t) ==
  /\ Holds(t, "push")
  /\ the_queue' = IF Accepts(call[t].bound, Len(the_queue))
                  THEN Append(the_queue, call[t].val)
                  ELSE the_queue
  /\ ret' = [ret EXCEPT ![t] = [kind |-> "size", size |-> Len(the_queue')]]
  /\ Unlock(t, "notify_rx")
  /\ UNCHANGED <<wakeup_requested, call>>

\* Mutant of HasRoom: off by one.
HasRoomToSpare(t) == Len(the_queue) + 1 < call[t].bound

HasRoom(t) == Len(the_queue) < call[t].bound

PushWaitBlock(t) ==
  /\ Holds(t, "push_wait_if_full")
  /\ ~HasRoom(t)
  /\ Unlock(t, "tx_wait")
  /\ UNCHANGED <<the_queue, wakeup_requested, call, ret>>

PushWaitBody(t) ==
  /\ Holds(t, "push_wait_if_full")
  /\ HasRoom(t)
  /\ the_queue' = Append(the_queue, call[t].val)
  /\ ret' = [ret EXCEPT ![t] = [kind |-> "size", size |-> Len(the_queue')]]
  /\ Unlock(t, "notify_rx")
  /\ UNCHANGED <<wakeup_requested, call>>

\* Mutant of TriggerWakeupBody: the consumer is not notified.
TriggerWakeupSilently(t) ==
  /\ Holds(t, "trigger_wakeup")
  /\ wakeup_requested' = TRUE
  /\ Unlock(t, "idle")
  /\ UNCHANGED <<the_queue, call, ret>>

TriggerWakeupBody(t) ==
  /\ Holds(t, "trigger_wakeup")
  /\ wakeup_requested' = TRUE
  /\ Unlock(t, "notify_rx")
  /\ UNCHANGED <<the_queue, call, ret>>

\* size, and empty, which tells whether the size is 0.
SizeBody(t) ==
  /\ Holds(t, "size")
  /\ ret' = [ret EXCEPT ![t] = [kind |-> "size", size |-> Len(the_queue)]]
  /\ Unlock(t, "idle")
  /\ UNCHANGED <<the_queue, wakeup_requested, call>>

\* Mutant of TakeFront: the producers are not notified.
TakeFrontSilently(t) ==
  /\ the_queue' = Tail(the_queue)
  /\ ret' = [ret EXCEPT ![t] = [kind |-> "value", value |-> Head(the_queue)]]
  /\ Unlock(t, "idle")
  /\ UNCHANGED <<wakeup_requested, call>>

TakeFront(t) ==
  /\ the_queue' = Tail(the_queue)
  /\ ret' = [ret EXCEPT ![t] = [kind |-> "value", value |-> Head(the_queue)]]
  /\ Unlock(t, "notify_tx")
  /\ UNCHANGED <<wakeup_requested, call>>

\* Mutant of TryPopEmpty: an empty queue answers with an element.
TryPopOfEmpty(t) ==
  /\ Holds(t, "try_pop")
  /\ the_queue = <<>>
  /\ ret' = [ret EXCEPT ![t] = [kind |-> "value", value |-> NoValue]]
  /\ Unlock(t, "idle")
  /\ UNCHANGED <<the_queue, wakeup_requested, call>>

TryPopEmpty(t) ==
  /\ Holds(t, "try_pop")
  /\ the_queue = <<>>
  /\ ret' = [ret EXCEPT ![t] = [kind |-> "empty"]]
  /\ Unlock(t, "idle")
  /\ UNCHANGED <<the_queue, wakeup_requested, call>>

TryPopBody(t) ==
  /\ Holds(t, "try_pop")
  /\ the_queue # <<>>
  /\ TakeFront(t)

HasEnough(t) == Len(the_queue) >= call[t].bound

WaitAndPopBlock(t) ==
  /\ Holds(t, "wait_and_pop")
  /\ ~HasEnough(t)
  /\ ~wakeup_requested
  /\ Unlock(t, "rx_wait")
  /\ UNCHANGED <<the_queue, wakeup_requested, call, ret>>

\* A requested wakeup comes first, whatever the queue holds.
WaitAndPopThrow(t) ==
  /\ Holds(t, "wait_and_pop")
  /\ wakeup_requested
  /\ wakeup_requested' = FALSE
  /\ ret' = [ret EXCEPT ![t] = [kind |-> "wakeup"]]
  /\ Unlock(t, "idle")
  /\ UNCHANGED <<the_queue, call>>

WaitAndPopBody(t) ==
  /\ Holds(t, "wait_and_pop")
  /\ ~wakeup_requested
  /\ HasEnough(t)
  /\ TakeFront(t)

-----------------------------------------------------------------------------
ProducerCall(t) ==
  \/ \E v \in Values, m \in MaxSizes : Push(t, v, m)
  \/ \E v \in Values, th \in Thresholds : PushWaitIfFull(t, v, th)
  \/ TriggerWakeup(t)
  \/ Notify(t)
  \/ Size(t)

ConsumerCall(t) ==
  \/ TryPop(t)
  \/ \E n \in Prebufferings : WaitAndPop(t, n)
  \/ Size(t)

\* What a thread inside a method does next, if the mutex lets it.
Step(t) ==
  \/ Lock(t)
  \/ PushBody(t)
  \/ PushWaitBlock(t)
  \/ PushWaitBody(t)
  \/ TriggerWakeupBody(t)
  \/ SizeBody(t)
  \/ TryPopEmpty(t)
  \/ TryPopBody(t)
  \/ WaitAndPopBlock(t)
  \/ WaitAndPopThrow(t)
  \/ WaitAndPopBody(t)
  \/ NotifyRx(t)
  \/ NotifyTx(t)

Next ==
  \/ \E t \in Producers : ProducerCall(t)
  \/ \E t \in Consumers : ConsumerCall(t)
  \/ \E t \in Threads : Step(t) \/ SpuriousWakeup(t)

Spec == Init /\ [][Next]_vars

(***************************************************************************)
(* The scheduler runs every thread that can run: a thread inside a method  *)
(* goes on when it can.  Nothing is assumed about who gets the mutex when  *)
(* several threads want it, about calls ever being made, or about spurious *)
(* wakeups.                                                                *)
(***************************************************************************)
Fairness == \A t \in Threads : WF_vars(Step(t))

FairSpec == Spec /\ Fairness

-----------------------------------------------------------------------------
(* Properties.                                                             *)

\* A consumer that sleeps in wait_and_pop although it could go on (enough
\* elements, or a wakeup requested) has a notification on its way: the
\* notify_one issued after the unlock is never lost.
ConsumerNotStranded ==
  \A c \in Consumers :
    pc[c] = "rx_wait" /\ (HasEnough(c) \/ wakeup_requested)
      => \E t \in Threads : pc[t] = "notify_rx"

\* The same for a producer that sleeps in push_wait_if_full although there
\* is room: a notification is on its way, or another producer was woken in
\* its stead and has not looked at the queue yet.
ProducerNotStranded ==
  \A p \in Producers :
    pc[p] = "tx_wait" /\ HasRoom(p)
      => \E t \in Threads \ {p} :
           \/ pc[t] = "notify_tx"
           \/ pc[t] \in {"lock", "locked"} /\ call[t].op = "push_wait_if_full"

\* The two ends of the queue never wait for each other: when a producer
\* waits for room and a consumer for elements, some thread is on its way.
NoStandoff ==
  (\E p \in Producers, c \in Consumers :
      pc[p] = "tx_wait" /\ pc[c] = "rx_wait")
    => \E t \in Threads : pc[t] \notin {"idle", "rx_wait", "tx_wait"}

\* NoStandoff needs a producer's limit never to be below the number of
\* elements that a consumer wants to see.
ThresholdsCoverPrebuffering ==
  \A th \in Thresholds, n \in Prebufferings : n <= th

\* "When creating a ThreadsafeQueue, one can specify the minimal number of
\* elements it must contain before it is possible to take one element out":
\* no element leaves a queue that holds fewer than any minimum in use.
MinimumBeforeTaking ==
  [][\A n \in Prebufferings :
       Len(the_queue') < Len(the_queue) => Len(the_queue) >= n]_the_queue

-----------------------------------------------------------------------------
(* Refinement: a call is pending from its invocation to the end of its     *)
(* body; the notification that follows the body is invisible.              *)

Pending(t) == pc[t] \in {"lock", "locked", "rx_wait", "tx_wait"}

Fifo == INSTANCE BlockingFifo WITH
  queue <- the_queue,
  wakeup <- wakeup_requested,
  pending <- [t \in Threads |-> IF Pending(t) THEN call[t] ELSE NoCall]

\* The queue behaves like a FIFO whose calls are atomic.
ImplementsFifo == Fifo!Spec

\* ... and whose blocking calls return when they can.
ImplementsFairFifo == Fifo!FairSpec
=============================================================================
