------------------------------ MODULE MCTimers -------------------------------
(* The three containers of timers, one of them at a time: which says whose  *)
(* turn this behaviour is, and the others stay as they were made.           *)
(* Four timers: a first, a last and two in between in a list, three levels  *)
(* in a heap, and an array that grows twice.  The wheel has three slots and *)
(* timeouts of up to two turns.                                             *)
EXTENDS Integers, TLC

CONSTANTS t1, t2, t3, t4, NULL, Timers,
  MaxTime,              \* of the list and the heap
  N, TI, MaxTimeout,    \* of the wheel
  Cap                   \* of the heap

VARIABLES
  which,
  head, tail, l_next, l_prev, l_expire, l_allocated, l_now, l_fired,
  slots, cur_slot, w_next, w_prev, rotation, time_slot, w_allocated, w_fired, due,
  array, cur_size, h_expire, cb_func, h_allocated, h_now, h_fired

listVars == <<head, tail, l_next, l_prev, l_expire, l_allocated, l_now, l_fired>>
wheelVars == <<slots, cur_slot, w_next, w_prev, rotation, time_slot, w_allocated,
               w_fired, due>>
heapVars == <<array, cur_size, h_expire, cb_func, h_allocated, h_now, h_fired>>

L == INSTANCE TimerList WITH
  next <- l_next, prev <- l_prev, expire <- l_expire, allocated <- l_allocated,
  now <- l_now, fired <- l_fired

W == INSTANCE TimerWheel WITH
  next <- w_next, prev <- w_prev, allocated <- w_allocated, fired <- w_fired

H == INSTANCE TimeHeap WITH
  expire <- h_expire, allocated <- h_allocated, now <- h_now, fired <- h_fired

ASSUME MCTimersAssumption ==
  L!TimerListAssumption /\ W!TimerWheelAssumption /\ H!TimeHeapAssumption

Init ==
  /\ which \in {"list", "wheel", "heap"}
  /\ L!Init
  /\ W!Init
  /\ H!Init
  /\ which # "heap" => H!MadeEmpty(1)

Next ==
  \/ /\ which = "list" /\ L!Next
     /\ UNCHANGED <<which, wheelVars, heapVars>>
  \/ /\ which = "wheel" /\ W!Next
     /\ UNCHANGED <<which, listVars, heapVars>>
  \/ /\ which = "heap" /\ H!Next
     /\ UNCHANGED <<which, listVars, wheelVars>>

Spec == Init /\ [][Next]_<<which, listVars, wheelVars, heapVars>>

(* The sorted list of 11-2lst_timer.h is a set of timers whose tick calls   *)
(* exactly those that are due, after any sequence of its operations.        *)
ListImplementsTimerSet == L!ImplementsTimerSet

(* The same of the wheel of 11-5tw_timer.h, which counts its own ticks.     *)
WheelImplementsTimerSet == W!ImplementsTimerSet

(* The same of the heap of 11-6time_heap.h, with lazy deletion and growth.  *)
HeapImplementsTimerSet == H!ImplementsTimerSet

MCSymmetry == Permutations(Timers)
=============================================================================
