---------------------------- MODULE BlockingFifo ----------------------------
(***************************************************************************)
(* What the comments of lib/ThreadsafeQueue.h promise, with no mutex and   *)
(* no condition variable: a FIFO queue on which every call takes effect at *)
(* one instant between its invocation and its return, and a blocking call  *)
(* waits exactly until its own condition holds.  It is the abstract        *)
(* specification that ThreadsafeQueue is shown to implement.               *)
(***************************************************************************)
EXTENDS Integers, Sequences

CONSTANTS
  Threads,   \* the users of the queue
  Calls,     \* the calls they may make: records of op, val and bound
  NoCall     \* marks a thread that has no call pending

VARIABLES
  queue,     \* the elements, front first
  wakeup,    \* a wakeup has been requested and not yet delivered
  pending,   \* the call of each thread that has not taken effect
  ret        \* the answer to a thread's latest call

vars == <<queue, wakeup, pending, ret>>

Answer(t, r) == ret' = [ret EXCEPT ![t] = r]
SizeOf(q) == [kind |-> "size", size |-> Len(q)]

Init ==
  /\ queue = <<>>
  /\ wakeup = FALSE
  /\ pending = [t \in Threads |-> NoCall]
  /\ ret = [t \in Threads |-> [kind |-> "nothing"]]

\* A thread with no call pending makes one.
Invoke(t) ==
  /\ pending[t] = NoCall
  /\ \E c \in Calls \ {NoCall} : pending' = [pending EXCEPT ![t] = c]
  /\ Answer(t, [kind |-> "nothing"])
  /\ UNCHANGED <<queue, wakeup>>

\* "if max_size > 0 and the queue already contains at least max_size
\* elements, the element gets discarded" - a discarded element is not an
\* error: the caller is told the size either way.
DoPush(t, c) ==
  /\ c.op = "push"
  /\ \/ /\ c.bound > 0 /\ Len(queue) >= c.bound
        /\ UNCHANGED queue
     \/ /\ ~(c.bound > 0 /\ Len(queue) >= c.bound)
        /\ queue' = Append(queue, c.val)
  /\ Answer(t, SizeOf(queue'))
  /\ UNCHANGED wakeup

\* "wait until the queue size goes below the threshold".
DoPushWaitIfFull(t, c) ==
  /\ c.op = "push_wait_if_full"
  /\ Len(queue) < c.bound
  /\ queue' = Append(queue, c.val)
  /\ Answer(t, SizeOf(queue'))
  /\ UNCHANGED wakeup

DoTriggerWakeup(t, c) ==
  /\ c.op = "trigger_wakeup"
  /\ wakeup' = TRUE
  /\ UNCHANGED <<queue, ret>>

DoSize(t, c) ==
  /\ c.op = "size"
  /\ Answer(t, SizeOf(queue))
  /\ UNCHANGED <<queue, wakeup>>

DoTryPop(t, c) ==
  /\ c.op = "try_pop"
  /\ \/ /\ queue = <<>>
        /\ Answer(t, [kind |-> "empty"])
        /\ UNCHANGED queue
     \/ /\ queue # <<>>
        /\ Answer(t, [kind |-> "value", value |-> Head(queue)])
        /\ queue' = Tail(queue)
  /\ UNCHANGED wakeup

\* A blocking pop answers a requested wakeup, or takes the front of a queue
\* that holds the number of elements it asked for.
DoWaitAndPop(t, c) ==
  /\ c.op = "wait_and_pop"
  /\ \/ /\ wakeup
        /\ wakeup' = FALSE
        /\ Answer(t, [kind |-> "wakeup"])
        /\ UNCHANGED queue
     \/ /\ ~wakeup /\ Len(queue) >= c.bound
        /\ Answer(t, [kind |-> "value", value |-> Head(queue)])
        /\ queue' = Tail(queue)
        /\ UNCHANGED wakeup

TakeEffect(t) ==
  /\ pending[t] # NoCall
  /\ \/ DoPush(t, pending[t])
     \/ DoPushWaitIfFull(t, pending[t])
     \/ DoTriggerWakeup(t, pending[t])
     \/ DoSize(t, pending[t])
     \/ DoTryPop(t, pending[t])
     \/ DoWaitAndPop(t, pending[t])
  /\ pending' = [pending EXCEPT ![t] = NoCall]

Next == \E t \in Threads : Invoke(t) \/ TakeEffect(t)

Spec == Init /\ [][Next]_vars

\* A call that can take effect and stays able to does take effect.
FairSpec == Spec /\ \A t \in Threads : WF_vars(TakeEffect(t))
=============================================================================
