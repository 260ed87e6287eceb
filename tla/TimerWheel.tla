----------------------------- MODULE TimerWheel -----------------------------
(***************************************************************************)
(* The timing wheel of 11-5tw_timer.h, pointer by pointer: N slots, each a *)
(* doubly linked list of timers, and a hand that moves on by one slot with *)
(* every tick.  Its user deletes a timer only while the wheel has it, and  *)
(* the callbacks leave the wheel alone.                                    *)
(*                                                                         *)
(* A definition marked Variant is no part of the specification: it is what *)
(* the definition after it would be with a defect, kept to see the         *)
(* properties fail.                                                        *)
(***************************************************************************)
EXTENDS Integers, FiniteSets

CONSTANTS
  Timers,     \* the addresses tw_timer objects may have
  NULL,
  N,          \* the number of slots
  TI,         \* the time between two ticks
  MaxTimeout  \* bound: the longest timeout asked for

TimerWheelAssumption ==
  /\ IsFiniteSet(Timers) /\ NULL \notin Timers
  /\ N \in Nat \ {0} /\ TI \in Nat \ {0} /\ MaxTimeout \in Nat

VARIABLES
  slots, cur_slot,
  next, prev, rotation, time_slot,   \* the members of every tw_timer
  allocated,    \* the timers that have been created and not deleted
  fired,        \* the timers whose cb_func the last operation called
  due           \* what the callers asked for: the ticks left, or -1

wheelVars == <<slots, cur_slot>>
linkVars == <<next, prev>>
vars == <<wheelVars, linkVars, rotation, time_slot, allocated, fired, due>>

Slot == 0..N-1

Init ==
  /\ slots = [s \in Slot |-> NULL] /\ cur_slot = 0
  /\ next = [t \in Timers |-> NULL] /\ prev = [t \in Timers |-> NULL]
  /\ rotation = [t \in Timers |-> 0] /\ time_slot = [t \in Timers |-> 0]
  /\ allocated = {} /\ fired = {}
  /\ due = [t \in Timers |-> -1]

(* A timeout in ticks: rounded down, but one at least. *)
Ticks(timeout) == IF timeout < TI THEN 1 ELSE timeout \div TI

(* Variant: a timer for the current slot is taken to be due on this turn. *)
RotationOfFullTurns(ticks) == (ticks - 1) \div N

(* The full turns of the wheel before the timer is due. *)
Rotation(ticks) == ticks \div N

(* p's prev becomes t, where p is a timer. *)
WithPrev(v, p, t) == [x \in Timers |-> IF x = p THEN t ELSE v[x]]

(* What is left of a member f when the timers ts are deleted: the value v,  *)
(* for it means nothing any more.                                           *)
Forget(f, ts, v) == [t \in Timers |-> IF t \in ts THEN v ELSE f[t]]

(* add_timer: a new timer in front of the list of its slot. *)
AddTimer(t, timeout) ==
  LET ticks == Ticks(timeout)
      ts == (cur_slot + (ticks % N)) % N
  IN  /\ t \notin allocated
      /\ allocated' = allocated \cup {t}
      /\ rotation' = [rotation EXCEPT ![t] = Rotation(ticks)]
      /\ time_slot' = [time_slot EXCEPT ![t] = ts]
      /\ next' = [next EXCEPT ![t] = slots[ts]]
      /\ prev' = WithPrev([prev EXCEPT ![t] = NULL], slots[ts], t)
      /\ slots' = [slots EXCEPT ![ts] = t]
      /\ due' = [due EXCEPT ![t] = ticks]
      /\ fired' = {}
      /\ UNCHANGED cur_slot

(* del_timer, of the first timer of its slot or another. *)
DelTimer(t) ==
  LET ts == time_slot[t]
  IN  /\ t \in allocated
      /\ allocated' = allocated \ {t}
      /\ due' = [due EXCEPT ![t] = -1]
      /\ fired' = {}
      /\ rotation' = Forget(rotation, {t}, 0)
      /\ time_slot' = Forget(time_slot, {t}, 0)
      /\ cur_slot' = cur_slot
      /\ \/ /\ t = slots[ts]
            /\ slots' = [slots EXCEPT ![ts] = next[t]]
            /\ prev' = Forget(WithPrev(prev, next[t], NULL), {t}, NULL)
            /\ next' = Forget(next, {t}, NULL)
         \/ /\ t # slots[ts]
            /\ next' = Forget([next EXCEPT ![prev[t]] = next[t]], {t}, NULL)
            /\ prev' = Forget(WithPrev(prev, next[t], prev[t]), {t}, NULL)
            /\ slots' = slots

(* One turn of tick's loop, at the timer tmp.  first is slots[cur_slot].    *)
TickOne(w) ==
  LET t == w.tmp
  IN  IF w.rotation[t] > 0
      THEN [w EXCEPT !.rotation[t] = @ - 1, !.tmp = w.next[t]]
      ELSE IF t = w.first
      THEN [w EXCEPT !.called = @ \cup {t}, !.first = w.next[t], !.tmp = w.next[t],
                     !.prev = WithPrev(@, w.next[t], NULL)]
      ELSE [w EXCEPT !.called = @ \cup {t}, !.tmp = w.next[t],
                     !.next[w.prev[t]] = w.next[t],
                     !.prev = WithPrev(@, w.next[t], w.prev[t])]

(* tick: through the list of the current slot, then on to the next slot. *)
Tick ==
  LET walk[k \in 0..Cardinality(Timers)] ==
        IF k = 0
        THEN [tmp |-> slots[cur_slot], first |-> slots[cur_slot], next |-> next,
              prev |-> prev, rotation |-> rotation, called |-> {}]
        ELSE IF walk[k - 1].tmp = NULL THEN walk[k - 1] ELSE TickOne(walk[k - 1])
      end == walk[Cardinality(Timers)]
  IN  /\ slots' = [slots EXCEPT ![cur_slot] = end.first]
      /\ fired' = end.called
      /\ next' = Forget(end.next, fired', NULL)
      /\ prev' = Forget(end.prev, fired', NULL)
      /\ rotation' = Forget(end.rotation, fired', 0)
      /\ time_slot' = Forget(time_slot, fired', 0)
      /\ allocated' = allocated \ fired'
      /\ cur_slot' = (cur_slot + 1) % N
      /\ due' = [t \in Timers |-> IF due[t] = -1 THEN -1 ELSE due[t] - 1]
-----------------------------------------------------------------------------
Next ==
  \/ \E t \in Timers :
       \/ \E timeout \in 0..MaxTimeout : AddTimer(t, timeout)
       \/ DelTimer(t)
  \/ Tick

Spec == Init /\ [][Next]_vars
-----------------------------------------------------------------------------
(* The wheel is a set of timers that count ticks: every tick calls exactly  *)
(* those whose ticks have run out, neither a turn early nor a turn late,    *)
(* whatever shares their slot and whichever timers were deleted from it.    *)
Abstract == INSTANCE TimerSet WITH MaxLeft <- Ticks(MaxTimeout), left <- due

ImplementsTimerSet ==
  Abstract!SpecByTicks /\ [][Tick => Abstract!TickAndElapse]_vars
=============================================================================
