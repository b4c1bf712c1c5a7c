------------------------ MODULE ThreadsafeQueueProofs ------------------------
(***************************************************************************)
(* Proofs about ThreadsafeQueue for every set of threads, of elements and  *)
(* of arguments.                                                           *)
(***************************************************************************)
EXTENDS ThreadsafeQueue, FiniteSets, FiniteSetTheorems, SequenceTheorems, TLAPS

\* Exactly the thread between Lock and Unlock owns the mutex.
MutexInv == \A t \in Threads : pc[t] = "locked" <=> the_mutex = t

\* A thread waits only where its method waits, is inside a method only after
\* a call, and only producers push and only consumers pop.
CallInv ==
  \A t \in Threads :
    /\ pc[t] = "rx_wait" => call[t].op = "wait_and_pop"
    /\ pc[t] = "tx_wait" => call[t].op = "push_wait_if_full"
    /\ Pending(t) => call[t].op # "none"
    /\ call[t].op \in {"try_pop", "wait_and_pop"} => t \in Consumers
    /\ call[t].op \in {"push", "push_wait_if_full", "trigger_wakeup"}
         => t \in Producers

IInv == TypeOK /\ MutexInv /\ CallInv

-----------------------------------------------------------------------------
(* Lemmas about the calls and the answers.                                 *)

\* A call record has one of the seven methods and the arguments of that method.
LEMMA CallFields ==
  ASSUME NEW c \in Calls
  PROVE  /\ c.op \in {"push", "push_wait_if_full", "wait_and_pop",
                      "trigger_wakeup", "size", "try_pop", "none"}
         /\ c.op \in {"push", "push_wait_if_full"} => c.val \in Values
         /\ c.bound \in Nat
  <1>1. CASE c \in [op : {"push"}, val : Values, bound : MaxSizes]
    BY <1>1, QueueAssumption
  <1>2. CASE c \in [op : {"push_wait_if_full"}, val : Values, bound : Thresholds]
    BY <1>2, QueueAssumption
  <1>3. CASE c \in [op : {"wait_and_pop"}, val : {NoValue}, bound : Prebufferings]
    BY <1>3, QueueAssumption
  <1>4. CASE c \in [op : {"trigger_wakeup", "size", "try_pop", "none"},
                    val : {NoValue}, bound : {0}]
    BY <1>4
  <1> QED
    BY <1>1, <1>2, <1>3, <1>4 DEF Calls

\* The idle call, and those the methods make, are calls.
LEMMA CallsOfMethods ==
  /\ NoCall \in Calls
  /\ \A v \in Values, m \in MaxSizes :
       [op |-> "push", val |-> v, bound |-> m] \in Calls
  /\ \A v \in Values, th \in Thresholds :
       [op |-> "push_wait_if_full", val |-> v, bound |-> th] \in Calls
  /\ \A n \in Prebufferings :
       [op |-> "wait_and_pop", val |-> NoValue, bound |-> n] \in Calls
  /\ \A o \in {"trigger_wakeup", "size", "try_pop"} :
       [op |-> o, val |-> NoValue, bound |-> 0] \in Calls
  BY DEF Calls, NoCall

\* A wait_and_pop that finds enough elements finds at least one.
LEMMA EnoughIsNotEmpty ==
  ASSUME NEW c \in Calls, c.op = "wait_and_pop", Len(the_queue) >= c.bound
  PROVE  the_queue # <<>>
  <1>1. c.bound \in Nat \ {0}
    <2>1. c \in [op : {"wait_and_pop"}, val : {NoValue}, bound : Prebufferings]
      BY DEF Calls
    <2> QED
      BY <2>1, QueueAssumption
  <1> QED
    BY <1>1, Len(<<>>) = 0

\* The answers of the methods are answers.
LEMMA ReturnsOfMethods ==
  /\ Nothing \in Returns
  /\ [kind |-> "empty"] \in Returns
  /\ [kind |-> "wakeup"] \in Returns
  /\ \A n \in Nat : [kind |-> "size", size |-> n] \in Returns
  /\ \A v \in Values : [kind |-> "value", value |-> v] \in Returns
  BY DEF Returns, Nothing

-----------------------------------------------------------------------------
(* The inductive invariant.                                                *)

\* Nobody is inside a method at first.
LEMMA InitIInv == Init => IInv
  <1> SUFFICES ASSUME Init PROVE IInv
    OBVIOUS
  <1>1. TypeOK
    BY CallsOfMethods, ReturnsOfMethods, EmptySeq DEF Init, TypeOK, PCs
  <1>2. MutexInv
    BY QueueAssumption DEF Init, MutexInv
  <1>3. CallInv
    BY DEF Init, CallInv, Pending, NoCall
  <1> QED
    BY <1>1, <1>2, <1>3 DEF IInv

\* A call leaves the queue alone and puts its thread before the mutex.
LEMMA CallIInv ==
  ASSUME IInv, NEW t \in Threads, NEW o, NEW v, NEW b,
         [op |-> o, val |-> v, bound |-> b] \in Calls,
         o \in {"push", "push_wait_if_full", "trigger_wakeup"} => t \in Producers,
         o \in {"try_pop", "wait_and_pop"} => t \in Consumers,
         o # "none",
         Call(t, o, v, b)
  PROVE  IInv'
  <1> USE DEF IInv
  <1>1. TypeOK'
    BY ReturnsOfMethods DEF TypeOK, Call, PCs
  <1>2. MutexInv'
    BY DEF MutexInv, TypeOK, Call
  <1>3. CallInv'
    BY DEF CallInv, TypeOK, Call, Pending
  <1> QED
    BY <1>1, <1>2, <1>3

\* The calls a producer or a consumer makes.
LEMMA CallsIInv ==
  ASSUME IInv, NEW t \in Threads,
         \/ t \in Producers /\ ProducerCall(t)
         \/ t \in Consumers /\ ConsumerCall(t)
  PROVE  IInv'
  <1>1. CASE \E v \in Values, m \in MaxSizes : t \in Producers /\ Push(t, v, m)
    BY <1>1, CallIInv, CallsOfMethods DEF Push
  <1>2. CASE \E v \in Values, th \in Thresholds :
               t \in Producers /\ PushWaitIfFull(t, v, th)
    BY <1>2, CallIInv, CallsOfMethods DEF PushWaitIfFull
  <1>3. CASE t \in Producers /\ TriggerWakeup(t)
    BY <1>3, CallIInv, CallsOfMethods DEF TriggerWakeup
  <1>4. CASE Notify(t)
    BY <1>4 DEF Notify, IInv, TypeOK, PCs, MutexInv, CallInv, Pending
  <1>5. CASE Size(t)
    BY <1>5, CallIInv, CallsOfMethods DEF Size
  <1>6. CASE t \in Consumers /\ TryPop(t)
    BY <1>6, CallIInv, CallsOfMethods DEF TryPop
  <1>7. CASE \E n \in Prebufferings : t \in Consumers /\ WaitAndPop(t, n)
    BY <1>7, CallIInv, CallsOfMethods DEF WaitAndPop
  <1> QED
    BY <1>1, <1>2, <1>3, <1>4, <1>5, <1>6, <1>7 DEF ProducerCall, ConsumerCall

\* One step of a method.
LEMMA StepIInv ==
  ASSUME IInv, NEW t \in Threads, Step(t)
  PROVE  IInv'
  <1> USE QueueAssumption DEF IInv
  <1> DEFINE c == call[t]
  <1>0. /\ c \in Calls
        /\ c.op \in {"push", "push_wait_if_full"} => c.val \in Values
        /\ c.bound \in Nat
        /\ Len(the_queue) \in Nat
    BY CallFields DEF TypeOK
  <1>1. CASE Lock(t)
    BY <1>1 DEF Lock, TypeOK, PCs, MutexInv, CallInv, Pending
  <1>2. CASE PushBody(t)
    <2>1. the_queue' \in Seq(Values) /\ Len(the_queue') \in Nat
      BY <1>0, <1>2 DEF PushBody, Holds, TypeOK
    <2>2. TypeOK'
      BY <1>2, <2>1, ReturnsOfMethods DEF PushBody, Unlock, TypeOK, PCs
    <2>3. MutexInv' /\ CallInv'
      BY <1>2 DEF PushBody, Holds, Unlock, TypeOK, MutexInv, CallInv, Pending
    <2> QED
      BY <2>2, <2>3
  <1>3. CASE PushWaitBlock(t)
    BY <1>3 DEF PushWaitBlock, Holds, Unlock, TypeOK, PCs, MutexInv, CallInv, Pending
  <1>4. CASE PushWaitBody(t)
    <2>1. the_queue' \in Seq(Values) /\ Len(the_queue') \in Nat
      BY <1>0, <1>4 DEF PushWaitBody, Holds, TypeOK
    <2>2. TypeOK'
      BY <1>4, <2>1, ReturnsOfMethods DEF PushWaitBody, Unlock, TypeOK, PCs
    <2>3. MutexInv' /\ CallInv'
      BY <1>4 DEF PushWaitBody, Holds, Unlock, TypeOK, MutexInv, CallInv, Pending
    <2> QED
      BY <2>2, <2>3
  <1>5. CASE TriggerWakeupBody(t)
    BY <1>5 DEF TriggerWakeupBody, Holds, Unlock, TypeOK, PCs, MutexInv, CallInv, Pending
  <1>6. CASE SizeBody(t)
    <2>1. TypeOK'
      BY <1>0, <1>6, ReturnsOfMethods DEF SizeBody, Unlock, TypeOK, PCs
    <2>2. MutexInv' /\ CallInv'
      BY <1>6 DEF SizeBody, Holds, Unlock, TypeOK, MutexInv, CallInv, Pending
    <2> QED
      BY <2>1, <2>2
  <1>7. CASE TryPopEmpty(t)
    <2>1. TypeOK'
      BY <1>7, ReturnsOfMethods DEF TryPopEmpty, Unlock, TypeOK, PCs
    <2>2. MutexInv' /\ CallInv'
      BY <1>7 DEF TryPopEmpty, Holds, Unlock, TypeOK, MutexInv, CallInv, Pending
    <2> QED
      BY <2>1, <2>2
  <1>8. ASSUME the_queue # <<>>, pc[t] = "locked", the_mutex = t, TakeFront(t)
        PROVE  IInv'
    <2>1. Head(the_queue) \in Values /\ Tail(the_queue) \in Seq(Values)
      BY <1>8, HeadTailProperties DEF TypeOK
    <2>2. TypeOK'
      BY <1>8, <2>1, ReturnsOfMethods DEF TakeFront, Unlock, TypeOK, PCs
    <2>3. MutexInv' /\ CallInv'
      BY <1>8 DEF TakeFront, Unlock, TypeOK, MutexInv, CallInv, Pending
    <2> QED
      BY <2>2, <2>3
  <1>9. CASE TryPopBody(t)
    BY <1>8, <1>9 DEF TryPopBody, Holds
  <1>10. CASE WaitAndPopBlock(t)
    BY <1>10 DEF WaitAndPopBlock, Holds, Unlock, TypeOK, PCs, MutexInv, CallInv, Pending
  <1>11. CASE WaitAndPopThrow(t)
    <2>1. TypeOK'
      BY <1>11, ReturnsOfMethods DEF WaitAndPopThrow, Unlock, TypeOK, PCs
    <2>2. MutexInv' /\ CallInv'
      BY <1>11 DEF WaitAndPopThrow, Holds, Unlock, TypeOK, MutexInv, CallInv, Pending
    <2> QED
      BY <2>1, <2>2
  <1>12. CASE WaitAndPopBody(t)
    <2>1. the_queue # <<>>
      BY <1>0, <1>12, EnoughIsNotEmpty DEF WaitAndPopBody, Holds, HasEnough, TypeOK
    <2> QED
      BY <1>8, <1>12, <2>1 DEF WaitAndPopBody, Holds
  <1>13. ASSUME NEW label \in {"rx_wait", "tx_wait"},
                pc[t] \in {"notify_rx", "notify_tx"}, NotifyOne(t, label)
         PROVE  IInv'
    BY <1>13 DEF NotifyOne, TypeOK, PCs, MutexInv, CallInv, Pending
  <1>14. CASE NotifyRx(t)
    BY <1>13, <1>14 DEF NotifyRx
  <1>15. CASE NotifyTx(t)
    BY <1>13, <1>15 DEF NotifyTx
  <1> QED
    BY <1>1, <1>2, <1>3, <1>4, <1>5, <1>6, <1>7, <1>9, <1>10, <1>11, <1>12,
       <1>14, <1>15, Step(t) DEF Step

\* A thread that wakes up unasked goes for the mutex like any other.
LEMMA SpuriousIInv ==
  ASSUME IInv, NEW t \in Threads, SpuriousWakeup(t)
  PROVE  IInv'
  BY DEF IInv, SpuriousWakeup, TypeOK, PCs, MutexInv, CallInv, Pending

\* Every step of the queue preserves the inductive invariant.
LEMMA NextIInv == IInv /\ [Next]_vars => IInv'
  <1> SUFFICES ASSUME IInv, [Next]_vars PROVE IInv'
    OBVIOUS
  <1>1. CASE \E t \in Producers : ProducerCall(t)
    BY <1>1, CallsIInv DEF Threads
  <1>2. CASE \E t \in Consumers : ConsumerCall(t)
    BY <1>2, CallsIInv DEF Threads
  <1>3. CASE \E t \in Threads : Step(t)
    BY <1>3, StepIInv
  <1>4. CASE \E t \in Threads : SpuriousWakeup(t)
    BY <1>4, SpuriousIInv
  <1>5. CASE UNCHANGED vars
    BY <1>5 DEF vars, IInv, TypeOK, MutexInv, CallInv, Pending
  <1> QED
    BY <1>1, <1>2, <1>3, <1>4, <1>5 DEF Next

\* The inductive invariant holds of every behaviour.
THEOREM Invariance == Spec => []IInv
  BY InitIInv, NextIInv, PTL DEF Spec

\* Every variable keeps its type, whatever the callers do.
THEOREM TypeCorrect == Spec => []TypeOK
  <1>1. IInv => TypeOK
    BY DEF IInv
  <1> QED
    BY <1>1, Invariance, PTL

-----------------------------------------------------------------------------
(* The consumer's side: with one consumer, as lib/ThreadsafeQueue.h asks   *)
(* for, the only thread that a notify_one on the_rx_notification can wake  *)
(* is the one that needs it.                                               *)

\* Whoever waits for elements is a consumer, and only consumers pop.
LEMMA OnlyConsumersWait ==
  ASSUME IInv, NEW t \in Threads
  PROVE  /\ pc[t] = "rx_wait" => t \in Consumers
         /\ call[t].op \in {"try_pop", "wait_and_pop"} => t \in Consumers
  BY DEF IInv, CallInv

\* No step strands the only consumer: whatever makes its condition true ends
\* in notify_rx, and it is awake once that notification has been issued.
LEMMA NextConsumerNotStranded ==
  ASSUME NEW c, Consumers = {c}, IInv, ConsumerNotStranded, [Next]_vars
  PROVE  ConsumerNotStranded'
  <1> USE DEF IInv, TypeOK, ConsumerNotStranded, HasEnough
  <1>0. c \in Threads
    BY DEF Threads
  <1>1. ASSUME NEW t \in Threads, NEW o, NEW v, NEW b, Call(t, o, v, b)
        PROVE  ConsumerNotStranded'
    BY <1>0, <1>1 DEF Call
  <1>2. ASSUME NEW t \in Threads, Notify(t)
        PROVE  ConsumerNotStranded'
    BY <1>0, <1>2 DEF Notify
  <1>3. ASSUME NEW t \in Threads, ProducerCall(t) \/ ConsumerCall(t)
        PROVE  ConsumerNotStranded'
    BY <1>1, <1>2, <1>3
       DEF ProducerCall, ConsumerCall, Push, PushWaitIfFull, TriggerWakeup,
           Size, TryPop, WaitAndPop
  <1>4. ASSUME NEW t \in Threads, Step(t)
        PROVE  ConsumerNotStranded'
    <2>1. CASE Lock(t)
      BY <1>0, <2>1 DEF Lock
    <2>2. CASE PushBody(t) \/ PushWaitBody(t) \/ TriggerWakeupBody(t)
      <3>1. pc'[t] = "notify_rx"
        BY <2>2 DEF PushBody, PushWaitBody, TriggerWakeupBody, Unlock
      <3> QED
        BY <3>1
    <2>3. CASE PushWaitBlock(t) \/ SizeBody(t) \/ TryPopEmpty(t)
      BY <1>0, <2>3 DEF PushWaitBlock, SizeBody, TryPopEmpty, Holds, Unlock
    <2>4. CASE TryPopBody(t) \/ WaitAndPopThrow(t) \/ WaitAndPopBody(t)
      <3>1. t = c
        BY <2>4, OnlyConsumersWait
           DEF TryPopBody, WaitAndPopThrow, WaitAndPopBody, Holds
      <3>2. pc'[c] # "rx_wait"
        BY <2>4, <3>1
           DEF TryPopBody, WaitAndPopThrow, WaitAndPopBody, TakeFront, Unlock
      <3> QED
        BY <3>2
    <2>5. CASE WaitAndPopBlock(t)
      <3>1. t = c
        BY <2>5, OnlyConsumersWait DEF WaitAndPopBlock, Holds
      <3> QED
        BY <2>5, <3>1 DEF WaitAndPopBlock
    <2>6. CASE NotifyRx(t)
      <3>1. \A u \in Threads : pc[u] = "rx_wait" => u = c
        BY OnlyConsumersWait
      <3>2. pc'[c] # "rx_wait"
        BY <1>0, <2>6, <3>1 DEF NotifyRx, NotifyOne
      <3> QED
        BY <3>2
    <2>7. CASE NotifyTx(t)
      BY <1>0, <2>7 DEF NotifyTx, NotifyOne
    <2> QED
      BY <1>4, <2>1, <2>2, <2>3, <2>4, <2>5, <2>6, <2>7 DEF Step
  <1>5. ASSUME NEW t \in Threads, SpuriousWakeup(t)
        PROVE  ConsumerNotStranded'
    BY <1>0, <1>5 DEF SpuriousWakeup
  <1>6. CASE UNCHANGED vars
    BY <1>6 DEF vars
  <1> QED
    BY <1>3, <1>4, <1>5, <1>6 DEF Next, Threads

\* With one consumer no notification to it is ever lost, whatever the number
\* of producers, and whatever they push, wake up and notify.
THEOREM OneConsumerNotStranded ==
  ASSUME NEW c, Consumers = {c}
  PROVE  Spec => []ConsumerNotStranded
  <1>1. Init => ConsumerNotStranded
    BY DEF Init, ConsumerNotStranded, Threads
  <1>2. IInv /\ ConsumerNotStranded /\ [Next]_vars => ConsumerNotStranded'
    BY NextConsumerNotStranded
  <1> QED
    BY <1>1, <1>2, Invariance, PTL DEF Spec

-----------------------------------------------------------------------------
(* The producers' side.  notify_one wakes just one of the threads that     *)
(* wait for room, so one thread on its way is not enough when there are    *)
(* several free places: the invariant counts them.                         *)

\* The threads that are about to notify a waiting producer, or that have
\* come for a place and have not looked at the queue yet.
Comers ==
  {t \in Threads :
     \/ pc[t] = "notify_tx"
     \/ pc[t] \in {"lock", "locked"} /\ call[t].op = "push_wait_if_full"}

\* While somebody waits for room below th, every free place has its comer.
RoomInv(th) ==
  (\E p \in Threads : pc[p] = "tx_wait")
     => Len(the_queue) + Cardinality(Comers) >= th

\* Its argument is the threshold of a call of push_wait_if_full.
LEMMA ThresholdOfCall ==
  ASSUME NEW c \in Calls, c.op = "push_wait_if_full"
  PROVE  c.bound \in Thresholds
  BY DEF Calls

\* There are finitely many comers, and how their number changes with one.
LEMMA ComersFinite ==
  ASSUME IsFiniteSet(Threads), NEW S \in SUBSET Threads, NEW t \in Threads
  PROVE  /\ IsFiniteSet(S) /\ Cardinality(S) \in Nat
         /\ t \notin S => Cardinality(S \cup {t}) = Cardinality(S) + 1
         /\ t \in S => Cardinality(S \ {t}) = Cardinality(S) - 1
  <1>1. IsFiniteSet(S) /\ Cardinality(S) \in Nat
    BY FS_Subset, FS_CardinalityType
  <1> QED
    BY <1>1, FS_AddElement, FS_RemoveElement

\* No step leaves a free place without its comer while somebody waits.
LEMMA NextRoomInv ==
  ASSUME NEW th, Thresholds = {th}, IsFiniteSet(Threads),
         IInv, RoomInv(th), [Next]_vars
  PROVE  RoomInv(th)'
  <1> USE DEF IInv, TypeOK
  <1>0. /\ th \in Nat
        /\ Comers \in SUBSET Threads
        /\ Comers' \in SUBSET Threads
        /\ Cardinality(Comers) \in Nat
        /\ Cardinality(Comers') \in Nat
        /\ Len(the_queue) \in Nat
    <2>1. Comers \in SUBSET Threads /\ Comers' \in SUBSET Threads
      BY DEF Comers
    <2> QED
      BY <2>1, QueueAssumption, FS_Subset, FS_CardinalityType
  <1>1. ASSUME the_queue' = the_queue, Comers \subseteq Comers',
               \A t \in Threads : pc'[t] = "tx_wait" => pc[t] = "tx_wait"
        PROVE  RoomInv(th)'
    <2>1. Cardinality(Comers) <= Cardinality(Comers')
      BY <1>0, <1>1, FS_Subset
    <2> QED
      BY <1>0, <1>1, <2>1 DEF RoomInv
  <1>2. ASSUME NEW t \in Threads, NEW o, NEW v, NEW b, Call(t, o, v, b)
        PROVE  RoomInv(th)'
    BY <1>1, <1>2 DEF Call, Comers
  <1>3. ASSUME NEW t \in Threads, Notify(t)
        PROVE  RoomInv(th)'
    BY <1>1, <1>3 DEF Notify, Comers
  <1>4. ASSUME NEW t \in Threads, ProducerCall(t) \/ ConsumerCall(t)
        PROVE  RoomInv(th)'
    BY <1>2, <1>3, <1>4
       DEF ProducerCall, ConsumerCall, Push, PushWaitIfFull, TriggerWakeup,
           Size, TryPop, WaitAndPop
  <1>5. ASSUME NEW t \in Threads, Step(t)
        PROVE  RoomInv(th)'
    <2>1. CASE Lock(t)
      BY <1>1, <2>1 DEF Lock, Comers
    <2>2. CASE PushBody(t)
      <3>1. Comers' = Comers
        BY <2>2 DEF PushBody, Holds, Unlock, Comers
      <3>2. Len(the_queue') >= Len(the_queue)
        <4>1. call[t].val \in Values
          BY <2>2, CallFields DEF PushBody, Holds
        <4> QED
          BY <1>0, <2>2, <4>1 DEF PushBody
      <3>3. \A u \in Threads : pc'[u] = "tx_wait" => pc[u] = "tx_wait"
        BY <2>2 DEF PushBody, Unlock
      <3> QED
        <4>1. Len(the_queue') \in Nat
          BY <2>2, CallFields DEF PushBody, Holds
        <4> QED
          BY <1>0, <3>1, <3>2, <3>3, <4>1 DEF RoomInv
    <2>3. CASE PushWaitBlock(t)
      <3>1. call[t].bound = th
        BY <2>3, ThresholdOfCall DEF PushWaitBlock, Holds
      <3>2. the_queue' = the_queue /\ ~(Len(the_queue) < th)
        BY <2>3, <3>1 DEF PushWaitBlock, HasRoom
      <3> QED
        BY <1>0, <3>2 DEF RoomInv
    <2>4. CASE PushWaitBody(t)
      <3>1. t \in Comers /\ Comers' = Comers \ {t}
        BY <2>4 DEF PushWaitBody, Holds, Unlock, Comers
      <3>2. Len(the_queue') = Len(the_queue) + 1
        BY <2>4, CallFields DEF PushWaitBody, Holds
      <3>3. \A u \in Threads : pc'[u] = "tx_wait" => pc[u] = "tx_wait"
        BY <2>4 DEF PushWaitBody, Unlock
      <3>4. Cardinality(Comers') = Cardinality(Comers) - 1
        BY <1>0, <3>1, ComersFinite
      <3> QED
        BY <1>0, <3>2, <3>3, <3>4 DEF RoomInv
    <2>5. CASE TriggerWakeupBody(t) \/ SizeBody(t) \/ TryPopEmpty(t)
               \/ WaitAndPopBlock(t) \/ WaitAndPopThrow(t)
      BY <1>1, <2>5
         DEF TriggerWakeupBody, SizeBody, TryPopEmpty, WaitAndPopBlock,
             WaitAndPopThrow, Holds, Unlock, Comers
    <2>6. CASE TryPopBody(t) \/ WaitAndPopBody(t)
      <3>1. t \notin Comers /\ Comers' = Comers \cup {t}
        BY <2>6 DEF TryPopBody, WaitAndPopBody, Holds, TakeFront, Unlock, Comers
      <3>2. the_queue # <<>> /\ the_queue' = Tail(the_queue)
        BY <2>6, EnoughIsNotEmpty
           DEF TryPopBody, WaitAndPopBody, Holds, HasEnough, TakeFront
      <3>3. Len(the_queue') = Len(the_queue) - 1
        BY <3>2, HeadTailProperties
      <3>4. \A u \in Threads : pc'[u] = "tx_wait" => pc[u] = "tx_wait"
        BY <2>6 DEF TryPopBody, WaitAndPopBody, TakeFront, Unlock
      <3>5. Cardinality(Comers') = Cardinality(Comers) + 1
        BY <1>0, <3>1, ComersFinite
      <3> QED
        BY <1>0, <3>3, <3>4, <3>5 DEF RoomInv
    <2>7. CASE NotifyRx(t)
      BY <1>1, <2>7 DEF NotifyRx, NotifyOne, Comers
    <2>8. CASE NotifyTx(t)
      <3>1. CASE \A u \in Threads : pc[u] # "tx_wait"
        BY <2>8, <3>1 DEF NotifyTx, NotifyOne, RoomInv
      <3>2. CASE \E u \in Threads : pc[u] = "tx_wait"
        <4>1. PICK u \in Threads :
                pc[u] = "tx_wait" /\ pc' = [pc EXCEPT ![t] = "idle", ![u] = "lock"]
          BY <2>8, <3>2 DEF NotifyTx, NotifyOne
        <4>2. t \in Comers /\ u \notin Comers /\ t # u
          BY <2>8, <4>1 DEF NotifyTx, Comers
        <4>3. Comers' = (Comers \ {t}) \cup {u}
          BY <2>8, <4>1 DEF NotifyTx, NotifyOne, Comers, CallInv
        <4>4. /\ Comers \ {t} \in SUBSET Threads
              /\ u \notin Comers \ {t}
          BY <1>0, <4>2
        <4>5. Cardinality(Comers') = Cardinality(Comers \ {t}) + 1
          BY <4>3, <4>4, ComersFinite
        <4>6. Cardinality(Comers \ {t}) = Cardinality(Comers) - 1
          BY <1>0, <4>2, ComersFinite
        <4> QED
          BY <1>0, <2>8, <3>2, <4>5, <4>6 DEF NotifyTx, NotifyOne, RoomInv
      <3> QED
        BY <3>1, <3>2
    <2> QED
      BY <1>5, <2>1, <2>2, <2>3, <2>4, <2>5, <2>6, <2>7, <2>8 DEF Step
  <1>6. ASSUME NEW t \in Threads, SpuriousWakeup(t)
        PROVE  RoomInv(th)'
    BY <1>1, <1>6 DEF SpuriousWakeup, Comers, CallInv
  <1>7. CASE UNCHANGED vars
    BY <1>1, <1>7 DEF vars, Comers
  <1> QED
    BY <1>4, <1>5, <1>6, <1>7 DEF Next, Threads

\* A free place has a comer, so a producer that could go on has one.
LEMMA RoomInvNotStranded ==
  ASSUME NEW th, Thresholds = {th}, IsFiniteSet(Threads), IInv, RoomInv(th)
  PROVE  ProducerNotStranded
  <1> SUFFICES ASSUME NEW p \in Producers, pc[p] = "tx_wait", HasRoom(p)
               PROVE  \E t \in Threads \ {p} : t \in Comers
    BY DEF ProducerNotStranded, Comers
  <1>0. p \in Threads
    BY DEF Threads
  <1>1. call[p].bound = th
    BY <1>0, ThresholdOfCall DEF IInv, TypeOK, CallInv
  <1>2. th \in Nat /\ Len(the_queue) \in Nat
    BY QueueAssumption DEF IInv, TypeOK
  <1>3. Comers \in SUBSET Threads
    BY DEF Comers
  <1>4. IsFiniteSet(Comers) /\ Cardinality(Comers) \in Nat
    BY <1>3, FS_Subset, FS_CardinalityType
  <1>5. Cardinality(Comers) # 0
    BY <1>0, <1>1, <1>2, <1>4 DEF RoomInv, HasRoom
  <1>6. Comers # {}
    BY <1>5, FS_EmptySet
  <1>7. p \notin Comers
    BY DEF Comers
  <1> QED
    BY <1>3, <1>6, <1>7

\* With one threshold, no producer sleeps on while there is room for it and
\* nobody is on the way, whatever the numbers of producers and of consumers.
THEOREM OneThresholdNotStranded ==
  ASSUME NEW th, Thresholds = {th}, IsFiniteSet(Threads)
  PROVE  Spec => []ProducerNotStranded
  <1>1. Init => RoomInv(th)
    BY DEF Init, RoomInv
  <1>2. IInv /\ RoomInv(th) /\ [Next]_vars => RoomInv(th)'
    BY NextRoomInv
  <1>3. IInv /\ RoomInv(th) => ProducerNotStranded
    BY RoomInvNotStranded
  <1> QED
    BY <1>1, <1>2, <1>3, Invariance, PTL DEF Spec

\* The two sides together: a waiting producer sees a full queue, and a full
\* queue holds all that the waiting consumer asked for.
LEMMA SidesNoStandoff ==
  ASSUME IInv, ThresholdsCoverPrebuffering,
         ConsumerNotStranded, ProducerNotStranded
  PROVE  NoStandoff
  <1> SUFFICES ASSUME NEW p \in Producers, NEW c \in Consumers,
                      pc[p] = "tx_wait", pc[c] = "rx_wait",
                      \A t \in Threads : pc[t] \in {"idle", "rx_wait", "tx_wait"}
               PROVE  FALSE
    BY DEF NoStandoff
  <1>0. p \in Threads /\ c \in Threads
    BY DEF Threads
  <1>1. ~HasRoom(p)
    BY DEF ProducerNotStranded
  <1>2. call[p].bound \in Thresholds
    BY <1>0, ThresholdOfCall DEF IInv, TypeOK, CallInv
  <1>3. call[c].bound \in Prebufferings
    <2>1. call[c] \in Calls /\ call[c].op = "wait_and_pop"
      BY <1>0 DEF IInv, TypeOK, CallInv
    <2> QED
      BY <2>1 DEF Calls
  <1>4. HasEnough(c)
    <2>1. /\ call[p].bound \in Nat /\ call[c].bound \in Nat
          /\ Len(the_queue) \in Nat
      <3>1. Len(the_queue) \in Nat
        BY LenProperties DEF IInv, TypeOK
      <3> QED
        BY <1>2, <1>3, <3>1, QueueAssumption
    <2>2. call[c].bound <= call[p].bound
      BY <1>2, <1>3 DEF ThresholdsCoverPrebuffering
    <2> QED
      BY <1>1, <2>1, <2>2 DEF HasRoom, HasEnough
  <1> QED
    BY <1>4 DEF ConsumerNotStranded

\* With one consumer, and one threshold that is not below what the consumer
\* wants to see, the two ends of the queue never wait for each other.
THEOREM TwoEndsNoStandoff ==
  ASSUME NEW c, Consumers = {c}, NEW th, Thresholds = {th},
         IsFiniteSet(Threads), ThresholdsCoverPrebuffering
  PROVE  Spec => []NoStandoff
  <1>1. Spec => []ConsumerNotStranded
    BY OneConsumerNotStranded
  <1>2. Spec => []ProducerNotStranded
    BY OneThresholdNotStranded
  <1>3. IInv /\ ConsumerNotStranded /\ ProducerNotStranded => NoStandoff
    BY SidesNoStandoff
  <1> QED
    BY <1>1, <1>2, <1>3, Invariance, PTL

-----------------------------------------------------------------------------
(* Refinement: the queue implements the FIFO of BlockingFifo.  A call takes *)
(* effect in the step that ends its body.                                  *)

\* The calls that BlockingFifo sees as pending.
FifoPending == [t \in Threads |-> IF Pending(t) THEN call[t] ELSE NoCall]

\* The queue starts as an empty FIFO without pending calls.
LEMMA InitFifo == Init => Fifo!Init
  <1> SUFFICES ASSUME Init PROVE Fifo!Init
    OBVIOUS
  <1>1. FifoPending = [t \in Threads |-> NoCall]
    BY DEF Init, Pending, FifoPending
  <1> QED
    BY <1>1 DEF Init, Fifo!Init, FifoPending, Nothing

\* A method's call is an invocation.
LEMMA CallFifo ==
  ASSUME IInv, NEW t \in Threads, NEW o, NEW v, NEW b,
         [op |-> o, val |-> v, bound |-> b] \in Calls, o # "none",
         Call(t, o, v, b)
  PROVE  Fifo!Invoke(t)
  <1> DEFINE r == [op |-> o, val |-> v, bound |-> b]
  <1>1. r \in Calls \ {NoCall}
    BY DEF NoCall
  <1>2. FifoPending[t] = NoCall
    BY DEF Call, Pending, FifoPending
  <1>3. FifoPending' = [FifoPending EXCEPT ![t] = r]
    BY DEF IInv, TypeOK, Call, Pending, FifoPending
  <1> HIDE DEF r
  <1> QED
    BY <1>1, <1>2, <1>3
       DEF Fifo!Invoke, Fifo!Answer, Call, FifoPending, Nothing

\* A step that changes neither the data nor what is pending is invisible.
LEMMA StutterFifo ==
  ASSUME IInv, UNCHANGED <<the_queue, wakeup_requested, call, ret>>,
         \A t \in Threads : Pending(t)' <=> Pending(t)
  PROVE  UNCHANGED Fifo!vars
  BY DEF Fifo!vars, Pending

\* A body that ends by unlocking takes its thread's call off the pending ones.
LEMMA BodyPending ==
  ASSUME IInv, NEW t \in Threads, pc[t] = "locked",
         NEW label \in {"idle", "notify_rx", "notify_tx"}, Unlock(t, label),
         UNCHANGED call
  PROVE  /\ FifoPending[t] = call[t]
         /\ call[t] # NoCall
         /\ FifoPending' = [FifoPending EXCEPT ![t] = NoCall]
  <1>1. Pending(t) /\ ~Pending(t)'
    BY DEF IInv, TypeOK, Unlock, Pending
  <1>2. \A u \in Threads \ {t} : Pending(u)' <=> Pending(u)
    BY DEF IInv, TypeOK, Unlock, Pending
  <1>3. call[t] # NoCall
    BY <1>1 DEF IInv, CallInv, NoCall
  <1>4. FifoPending' = [FifoPending EXCEPT ![t] = NoCall]
    BY <1>1, <1>2 DEF FifoPending
  <1> QED
    BY <1>1, <1>3, <1>4 DEF FifoPending

\* A step of a method is its taking effect, or invisible.
LEMMA StepFifo ==
  ASSUME IInv, NEW t \in Threads, Step(t)
  PROVE  Fifo!TakeEffect(t) \/ UNCHANGED Fifo!vars
  <1>0. call[t] \in Calls
    BY DEF IInv, TypeOK
  <1>1. CASE Lock(t) \/ PushWaitBlock(t) \/ WaitAndPopBlock(t)
    BY <1>1, StutterFifo
       DEF Lock, PushWaitBlock, WaitAndPopBlock, Holds, Unlock, IInv, TypeOK, Pending
  <1>2. CASE NotifyRx(t) \/ NotifyTx(t)
    BY <1>2, StutterFifo
       DEF NotifyRx, NotifyTx, NotifyOne, IInv, TypeOK, Pending
  <1>3. CASE PushBody(t)
    <2>1. Fifo!DoPush(t, call[t])
      BY <1>0, <1>3, CallFields
         DEF PushBody, Holds, Accepts, Fifo!DoPush, Fifo!Answer, Fifo!SizeOf,
             IInv, TypeOK
    <2> QED
      BY <1>3, <2>1, BodyPending DEF PushBody, Holds, Fifo!TakeEffect, FifoPending
  <1>4. CASE PushWaitBody(t)
    <2>1. Fifo!DoPushWaitIfFull(t, call[t])
      BY <1>4 DEF PushWaitBody, Holds, HasRoom, Fifo!DoPushWaitIfFull,
                  Fifo!Answer, Fifo!SizeOf
    <2> QED
      BY <1>4, <2>1, BodyPending DEF PushWaitBody, Holds, Fifo!TakeEffect, FifoPending
  <1>5. CASE TriggerWakeupBody(t)
    <2>1. Fifo!DoTriggerWakeup(t, call[t])
      BY <1>5 DEF TriggerWakeupBody, Holds, Fifo!DoTriggerWakeup
    <2> QED
      BY <1>5, <2>1, BodyPending
         DEF TriggerWakeupBody, Holds, Fifo!TakeEffect, FifoPending
  <1>6. CASE SizeBody(t)
    <2>1. Fifo!DoSize(t, call[t])
      BY <1>6 DEF SizeBody, Holds, Fifo!DoSize, Fifo!Answer, Fifo!SizeOf
    <2> QED
      BY <1>6, <2>1, BodyPending DEF SizeBody, Holds, Fifo!TakeEffect, FifoPending
  <1>7. CASE TryPopEmpty(t) \/ TryPopBody(t)
    <2>1. Fifo!DoTryPop(t, call[t])
      BY <1>7 DEF TryPopEmpty, TryPopBody, Holds, TakeFront, Fifo!DoTryPop,
                  Fifo!Answer
    <2> QED
      BY <1>7, <2>1, BodyPending
         DEF TryPopEmpty, TryPopBody, Holds, TakeFront, Fifo!TakeEffect, FifoPending
  <1>8. CASE WaitAndPopThrow(t) \/ WaitAndPopBody(t)
    <2>1. Fifo!DoWaitAndPop(t, call[t])
      BY <1>8 DEF WaitAndPopThrow, WaitAndPopBody, Holds, HasEnough, TakeFront,
                  Fifo!DoWaitAndPop, Fifo!Answer, IInv, TypeOK
    <2> QED
      BY <1>8, <2>1, BodyPending
         DEF WaitAndPopThrow, WaitAndPopBody, Holds, TakeFront, Fifo!TakeEffect,
             FifoPending
  <1> QED
    BY <1>1, <1>2, <1>3, <1>4, <1>5, <1>6, <1>7, <1>8, Step(t) DEF Step

\* Every step of the queue is a step of the FIFO, or invisible.
LEMMA NextFifo ==
  ASSUME IInv, [Next]_vars
  PROVE  [Fifo!Next]_(Fifo!vars)
  <1>1. ASSUME NEW t \in Threads, Notify(t) \/ SpuriousWakeup(t)
        PROVE  UNCHANGED Fifo!vars
    BY <1>1, StutterFifo DEF Notify, SpuriousWakeup, IInv, TypeOK, Pending
  <1>2. ASSUME NEW t \in Threads, ProducerCall(t) \/ ConsumerCall(t)
        PROVE  Fifo!Invoke(t) \/ UNCHANGED Fifo!vars
    BY <1>1, <1>2, CallFifo, CallsOfMethods
       DEF ProducerCall, ConsumerCall, Push, PushWaitIfFull, TriggerWakeup,
           Size, TryPop, WaitAndPop
  <1>3. CASE UNCHANGED vars
    BY <1>3 DEF vars, Fifo!vars, Pending
  <1> QED
    BY <1>1, <1>2, <1>3, StepFifo DEF Next, Fifo!Next, Threads

\* The queue, with its mutex, its condition variables and its spurious
\* wakeups, implements the FIFO whose calls are atomic.
THEOREM Refinement == Spec => ImplementsFifo
  BY InitFifo, NextFifo, Invariance, PTL DEF Spec, ImplementsFifo, Fifo!Spec
=============================================================================
