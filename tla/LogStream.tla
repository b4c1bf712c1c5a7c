------------------------------ MODULE LogStream ------------------------------
(***************************************************************************)
(* What lib/Log.h promises of the logger, with no queue and no threads:    *)
(* the messages are written one by one, in the order in which they were    *)
(* accepted, each to all the sinks that are there and take its level.      *)
(***************************************************************************)
EXTENDS Sequences

CONSTANTS
  Messages,        \* the messages, records with a level and a text
  Sinks,           \* where a message may be written
  Takes(_, _),     \* does a sink take the messages of a level
  Line(_)          \* what is written of a message

VARIABLES
  todo,            \* accepted and not yet written, oldest first
  active,          \* the sinks that are there
  output,          \* what each sink has been given
  state            \* "open", then "closing", then "closed"

vars == <<todo, active, output, state>>

Init ==
  /\ todo = <<>>
  /\ active \in SUBSET Sinks
  /\ output = [s \in Sinks |-> <<>>]
  /\ state = "open"

Accepts(m) ==
  /\ state # "closed"
  /\ m.level # "discard"
  /\ todo' = Append(todo, m)
  /\ UNCHANGED <<active, output, state>>

Accept == \E m \in Messages : Accepts(m)

Activate ==
  /\ state # "closed"
  /\ \E s \in Sinks \ active : active' = active \cup {s}
  /\ UNCHANGED <<todo, output, state>>

Deliver ==
  /\ state # "closed"
  /\ todo # <<>>
  /\ output' = [s \in Sinks |->
                  IF s \in active /\ Takes(s, Head(todo).level)
                  THEN Append(output[s], Line(Head(todo)))
                  ELSE output[s]]
  /\ todo' = Tail(todo)
  /\ UNCHANGED <<active, state>>

BeginClose == state = "open" /\ state' = "closing" /\ UNCHANGED <<todo, active, output>>

\* Nothing is written after this, and what is left in todo is lost.
Close ==
  /\ state = "closing"
  /\ state' = "closed"
  /\ active' \in SUBSET active
  /\ UNCHANGED <<todo, output>>

Next == Accept \/ Activate \/ Deliver \/ BeginClose \/ Close

Spec == Init /\ [][Next]_vars

\* As long as nobody closes the stream, what it has accepted gets written.
FairSpec == Spec /\ WF_vars(state = "open" /\ Deliver)
=============================================================================
