-------------------------- MODULE MCThreadsafeQueue --------------------------
(***************************************************************************)
(* ThreadsafeQueue with finitely many calls, for TLC.                      *)
(***************************************************************************)
EXTENDS ThreadsafeQueue, TLC

CONSTANTS
  MaxCalls      \* the calls and spurious wakeups each thread may have

VARIABLE budget \* what is left of them

mcvars == <<vars, budget>>

Spend(t) == budget[t] > 0 /\ budget' = [budget EXCEPT ![t] = @ - 1]

MCInit == Init /\ budget = [t \in Threads |-> MaxCalls]

MCNext ==
  \/ \E t \in Producers : ProducerCall(t) /\ Spend(t)
  \/ \E t \in Consumers : ConsumerCall(t) /\ Spend(t)
  \/ \E t \in Threads : Step(t) /\ UNCHANGED budget
  \/ \E t \in Threads : SpuriousWakeup(t) /\ Spend(t)

MCSpec == MCInit /\ [][MCNext]_mcvars

MCFairSpec == MCSpec /\ Fairness

\* No action or property tells the producers apart, or the elements.
Symmetry == Permutations(Producers) \cup Permutations(Values)
=============================================================================
