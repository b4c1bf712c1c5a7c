------------------------------- MODULE DabTime -------------------------------
(***************************************************************************)
(* src/utils.cpp: the time of the DAB ensemble, which update_dab_time      *)
(* advances once for each ETI frame, by 24 ms, from the system time of the *)
(* first call on.                                                          *)
(***************************************************************************)
EXTENDS Integers

CONSTANTS
  Boots,     \* what time() may return at the first call
  MaxFrames  \* bound: the calls

ASSUME DabTimeAssumption == Boots \subseteq Nat \ {0} /\ MaxFrames \in Nat

VARIABLES
  dab_time_seconds, dab_time_millis,
  frames,    \* the calls so far
  boot       \* what time() returned, 0 before the first call

vars == <<dab_time_seconds, dab_time_millis, frames, boot>>

TypeOK ==
  /\ dab_time_seconds \in Nat
  /\ dab_time_millis \in 0..999
  /\ frames \in 0..MaxFrames
  /\ boot \in Boots \cup {0}

Init == dab_time_seconds = 0 /\ dab_time_millis = 0 /\ frames = 0 /\ boot = 0

Start ==
  /\ dab_time_seconds = 0
  /\ dab_time_seconds' \in Boots
  /\ boot' = dab_time_seconds'
  /\ UNCHANGED dab_time_millis

\* Mutant of Advance: the wrap is looked for before the addition.
AdvanceLate ==
  /\ dab_time_seconds # 0
  /\ IF dab_time_millis >= 1000
     THEN /\ dab_time_millis' = dab_time_millis + 24 - 1000
          /\ dab_time_seconds' = dab_time_seconds + 1
     ELSE /\ dab_time_millis' = dab_time_millis + 24
          /\ UNCHANGED dab_time_seconds
  /\ UNCHANGED boot

\* Mutant of Advance: a new second begins at 0 ms.
AdvanceReset ==
  /\ dab_time_seconds # 0
  /\ IF dab_time_millis + 24 >= 1000
     THEN /\ dab_time_millis' = 0
          /\ dab_time_seconds' = dab_time_seconds + 1
     ELSE /\ dab_time_millis' = dab_time_millis + 24
          /\ UNCHANGED dab_time_seconds
  /\ UNCHANGED boot

Advance ==
  /\ dab_time_seconds # 0
  /\ IF dab_time_millis + 24 >= 1000
     THEN /\ dab_time_millis' = dab_time_millis + 24 - 1000
          /\ dab_time_seconds' = dab_time_seconds + 1
     ELSE /\ dab_time_millis' = dab_time_millis + 24
          /\ UNCHANGED dab_time_seconds
  /\ UNCHANGED boot

update_dab_time ==
  /\ frames < MaxFrames
  /\ frames' = frames + 1
  /\ Start \/ Advance

Spec == Init /\ [][update_dab_time]_vars

-----------------------------------------------------------------------------
\* "Must be called once per ETI frame to update the time": the DAB time is the
\* time of the first call and 24 ms for each call since, and never drifts from
\* that over the carries.
TimeIsFrames ==
  dab_time_seconds # 0 =>
    dab_time_seconds * 1000 + dab_time_millis = boot * 1000 + 24 * (frames - 1)

=============================================================================
