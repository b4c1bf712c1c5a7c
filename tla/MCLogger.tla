------------------------------- MODULE MCLogger -------------------------------
(***************************************************************************)
(* Logger with finitely many messages and spurious wakeups, for TLC.       *)
(***************************************************************************)
EXTENDS Logger, FiniteSets

CONSTANTS
  MaxTotal,       \* the messages of all writers together
  MaxSpurious     \* the spurious wakeups of the io thread

VARIABLE spurious \* what is left of them

Logged == Cardinality({wn \in Writers \X (1..MaxLogs) : wn[2] <= count[wn[1]]})

mcvars == <<vars, spurious>>

MCInit == Init /\ spurious = MaxSpurious

MCNext ==
  \/ /\ \/ \E w \in Writers, l \in Levels, x \in Texts :
             Logged < MaxTotal /\ Log(w, l, x)
        \/ \E b \in Backends : RegisterBackend(b)
        \/ \E w \in Writers : WriterStep(w)
        \/ IoStep
        \/ ReturnFromMain
        \/ \E t \in SignalTargets : Signal(t)
        \/ ExitStep
     /\ UNCHANGED spurious
  \/ /\ spurious > 0
     /\ IoSpuriousWakeup
     /\ spurious' = spurious - 1

MCSpec == MCInit /\ [][MCNext]_mcvars

MCFairSpec == MCSpec /\ Fairness
=============================================================================
