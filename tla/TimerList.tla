------------------------------ MODULE TimerList ------------------------------
(***************************************************************************)
(* The sorted, doubly linked list of timers of 11-2lst_timer.h, pointer by *)
(* pointer.  Its user postpones timers and never brings one forward, as    *)
(* 11-3nonactive_conn.cpp does.                                            *)
(*                                                                         *)
(* A definition marked Variant is no part of the specification: it is what *)
(* the definition after it would be with a defect, kept to see the         *)
(* properties fail.                                                        *)
(***************************************************************************)
EXTENDS Integers, FiniteSets, Sequences

CONSTANTS
  Timers,    \* the addresses util_timer objects may have
  NULL,
  MaxTime    \* bound: the clock, and every expire, stay up to it

TimerListAssumption == IsFiniteSet(Timers) /\ NULL \notin Timers /\ MaxTime \in Nat

VARIABLES
  head, tail,
  next, prev,    \* the members of every util_timer
  expire,        \* likewise
  allocated,     \* the timers that have been created and not deleted
  now,           \* time(NULL)
  fired          \* the timers whose cb_func the last operation called

linkVars == <<head, tail, next, prev>>
vars == <<linkVars, expire, allocated, now, fired>>

Pointer == Timers \cup {NULL}

Init ==
  /\ head = NULL /\ tail = NULL
  /\ next = [t \in Timers |-> NULL] /\ prev = [t \in Timers |-> NULL]
  /\ expire = [t \in Timers |-> 0]
  /\ allocated = {}
  /\ now = 0
  /\ fired = {}

(* The timers met from p on along next; one more than there are shows a     *)
(* cycle.                                                                   *)
Chain(p) ==
  LET at[k \in 0..Cardinality(Timers)] ==
        IF k = 0 THEN p
        ELSE IF at[k - 1] = NULL THEN NULL ELSE next[at[k - 1]]
  IN  [k \in {j \in 1..(Cardinality(Timers) + 1) : at[j - 1] # NULL} |-> at[k - 1]]

First(S) == CHOOSE i \in S : \A j \in S : i <= j

(* Variant: the comparison is the wrong way round. *)
PlaceTooEarly(p, e) ==
  LET chain == Chain(p)
      later == {i \in 2..Len(chain) : e > expire[chain[i]]}
  IN  IF later = {} THEN [before |-> chain[Len(chain)], after |-> NULL]
      ELSE [before |-> chain[First(later) - 1], after |-> chain[First(later)]]

(* The place for a timer that expires at e, in the list from p on, which is *)
(* never before p itself: the timer before it and the one after it.         *)
Place(p, e) ==
  LET chain == Chain(p)
      later == {i \in 2..Len(chain) : e < expire[chain[i]]}
  IN  IF later = {} THEN [before |-> chain[Len(chain)], after |-> NULL]
      ELSE [before |-> chain[First(later) - 1], after |-> chain[First(later)]]

(* add_timer(timer, lst_head): puts t into the list of which p is a node.    *)
(* n and v are next and prev as the caller has left them.                   *)
InsertFrom(p, t, n, v) ==
  LET place == Place(p, expire'[t])
  IN  /\ next' = [n EXCEPT ![place.before] = t, ![t] = place.after]
      /\ prev' = [x \in Timers |-> IF x = place.after THEN t
                                   ELSE IF x = t THEN place.before ELSE v[x]]
      /\ tail' = IF place.after = NULL THEN t ELSE tail

(* add_timer of a new timer: the first, one before all others, or another. *)
AddTimer(t, e) ==
  /\ t \notin allocated
  /\ allocated' = allocated \cup {t}
  /\ expire' = [expire EXCEPT ![t] = e]
  /\ fired' = {}
  /\ now' = now
  /\ LET n == [next EXCEPT ![t] = NULL]
         v == [prev EXCEPT ![t] = NULL]
     IN  \/ /\ head = NULL
            /\ head' = t /\ tail' = t /\ next' = n /\ prev' = v
         \/ /\ head # NULL /\ e < expire[head]
            /\ head' = t /\ tail' = tail
            /\ next' = [n EXCEPT ![t] = head]
            /\ prev' = [v EXCEPT ![head] = t]
         \/ /\ head # NULL /\ e >= expire[head]
            /\ head' = head
            /\ InsertFrom(head, t, n, v)

(* Whether t may keep its place with the later time e. *)
Stays(t, e) == next[t] # NULL => e < expire[next[t]]

(* adjust_timer after expire has been set to e.  A timer that is the last,  *)
(* or still before its successor, stays where it is; another is taken out   *)
(* and inserted again, behind the node that followed it or further on.      *)
AdjustTimer(t, e) ==
  /\ t \in allocated /\ e >= expire[t]
  /\ expire' = [expire EXCEPT ![t] = e]
  /\ fired' = {}
  /\ UNCHANGED <<allocated, now>>
  /\ \/ /\ Stays(t, e)
        /\ UNCHANGED linkVars
     \/ /\ ~Stays(t, e) /\ t = head
        /\ head' = next[head]
        /\ InsertFrom(head', t, [next EXCEPT ![t] = NULL],
                      [prev EXCEPT ![head'] = NULL])
     \/ /\ ~Stays(t, e) /\ t # head
        /\ head' = head
        /\ InsertFrom(next[t], t, [next EXCEPT ![prev[t]] = next[t]],
                      [prev EXCEPT ![next[t]] = prev[t]])

(* What is left of a member f when the timers ts are deleted: the value v,  *)
(* for it means nothing any more.                                           *)
Forget(f, ts, v) == [t \in Timers |-> IF t \in ts THEN v ELSE f[t]]

(* del_timer: the only timer, the first, the last, or one in between.       *)
DelTimer(t) ==
  /\ t \in allocated
  /\ allocated' = allocated \ {t}
  /\ expire' = Forget(expire, {t}, 0)
  /\ fired' = {}
  /\ now' = now
  /\ \/ /\ t = head /\ t = tail
        /\ head' = NULL /\ tail' = NULL
        /\ UNCHANGED <<next, prev>>
     \/ /\ t = head /\ t # tail
        /\ head' = next[t]
        /\ prev' = [prev EXCEPT ![next[t]] = NULL]
        /\ next' = Forget(next, {t}, NULL)
        /\ tail' = tail
     \/ /\ t # head /\ t = tail
        /\ tail' = prev[t]
        /\ next' = [next EXCEPT ![prev[t]] = NULL]
        /\ prev' = Forget(prev, {t}, NULL)
        /\ head' = head
     \/ /\ t # head /\ t # tail
        /\ next' = Forget([next EXCEPT ![prev[t]] = next[t]], {t}, NULL)
        /\ prev' = Forget([prev EXCEPT ![next[t]] = prev[t]], {t}, NULL)
        /\ UNCHANGED <<head, tail>>

(* tick: from head on, call back and delete, up to the first timer that has *)
(* not expired.  tail is left alone, also when nothing remains.             *)
Tick ==
  LET chain == Chain(head)
      waiting == {i \in 1..Len(chain) : now < expire[chain[i]]}
      due == IF waiting = {} THEN Len(chain) ELSE First(waiting) - 1
  IN  /\ fired' = {chain[i] : i \in 1..due}
      /\ allocated' = allocated \ fired'
      /\ head' = IF waiting = {} THEN NULL ELSE chain[due + 1]
      /\ prev' = [t \in Timers |-> IF t \in fired' \cup {head'} THEN NULL ELSE prev[t]]
      /\ next' = Forget(next, fired', NULL)
      /\ expire' = Forget(expire, fired', 0)
      /\ UNCHANGED <<tail, now>>

(* The clock. *)
Advance ==
  /\ now < MaxTime
  /\ now' = now + 1
  /\ fired' = {}
  /\ UNCHANGED <<linkVars, expire, allocated>>
-----------------------------------------------------------------------------
Next ==
  \/ \E t \in Timers :
       \/ \E e \in now..MaxTime : AddTimer(t, e) \/ AdjustTimer(t, e)
       \/ DelTimer(t)
  \/ Tick
  \/ Advance

Spec == Init /\ [][Next]_vars
-----------------------------------------------------------------------------
(* The list is a set of timers: tick calls exactly the ones that are due,   *)
(* none is hidden behind one that is not, and postponing or deleting one    *)
(* leaves the others alone.                                                 *)
Abstract == INSTANCE TimerSet WITH
  MaxLeft <- MaxTime,
  left <- [t \in Timers |-> IF t \notin allocated THEN -1
                            ELSE IF expire[t] > now THEN expire[t] - now ELSE 0]

ImplementsTimerSet == Abstract!Spec /\ [][Tick => Abstract!Tick]_vars
=============================================================================
