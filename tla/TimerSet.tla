------------------------------ MODULE TimerSet -------------------------------
(***************************************************************************)
(* What a container of timers promises its user, whatever its structure: a *)
(* set of timers, each with the time it has left, and a tick() that calls  *)
(* the callback of exactly those that have none left and forgets them.     *)
(***************************************************************************)
EXTENDS Integers

CONSTANTS
  Timers,
  MaxLeft    \* the longest time a timer is given

VARIABLES
  left,     \* the time each timer has left, or Unset
  fired     \* the timers whose callbacks the last operation called

timerVars == <<left, fired>>

Unset == -1

Pending == {t \in Timers : left[t] # Unset}

Due == {t \in Timers : left[t] = 0}

Init ==
  /\ left = [t \in Timers |-> Unset]
  /\ fired = {}

Add(t, d) ==
  /\ t \notin Pending
  /\ left' = [left EXCEPT ![t] = d]
  /\ fired' = {}

(* A timer is only ever moved to a later time. *)
Postpone(t, d) ==
  /\ t \in Pending /\ left[t] <= d
  /\ left' = [left EXCEPT ![t] = d]
  /\ fired' = {}

Cancel(t) ==
  /\ t \in Pending
  /\ left' = [left EXCEPT ![t] = Unset]
  /\ fired' = {}

Tick ==
  /\ fired' = Due
  /\ left' = [t \in Timers |-> IF t \in Due THEN Unset ELSE left[t]]

Elapse ==
  /\ left' = [t \in Timers |-> IF left[t] > 0 THEN left[t] - 1 ELSE left[t]]
  /\ fired' = {}

Next ==
  \/ \E t \in Timers, d \in 0..MaxLeft : Add(t, d) \/ Postpone(t, d)
  \/ \E t \in Timers : Cancel(t)
  \/ Tick
  \/ Elapse

Spec == Init /\ [][Next]_timerVars
-----------------------------------------------------------------------------
(* A container whose clock is its tick: a tick calls those that have no     *)
(* ticks left and takes one from the others.                                *)
TickAndElapse ==
  /\ fired' = Due
  /\ left' = [t \in Timers |-> IF left[t] > 0 THEN left[t] - 1 ELSE Unset]

NextByTicks ==
  \/ \E t \in Timers, d \in 0..MaxLeft : Add(t, d)
  \/ \E t \in Timers : Cancel(t)
  \/ TickAndElapse

SpecByTicks == Init /\ [][NextByTicks]_timerVars
-----------------------------------------------------------------------------
(* A container that may be made with timers in it and that postpones none.  *)
(* A call may find nothing to do.                                           *)
InitFilled ==
  /\ left \in [Timers -> 0..MaxLeft \cup {Unset}]
  /\ fired = {}

NothingToDo == left' = left /\ fired' = {}

NextNoPostpone ==
  \/ \E t \in Timers, d \in 0..MaxLeft : Add(t, d)
  \/ \E t \in Timers : Cancel(t)
  \/ Tick
  \/ Elapse
  \/ NothingToDo

SpecFilled == InitFilled /\ [][NextNoPostpone]_timerVars
=============================================================================
