------------------------------ MODULE TimeHeap -------------------------------
(***************************************************************************)
(* The time heap of 11-6time_heap.h: a binary heap of pointers to timers,  *)
(* in an array that grows.  A deleted timer stays in the heap without a    *)
(* callback until its time has come.                                       *)
(*                                                                         *)
(* A definition marked Variant is no part of the specification: it is what *)
(* the definition after it would be with a defect, kept to see the         *)
(* properties fail.                                                        *)
(***************************************************************************)
EXTENDS Integers, FiniteSets, Functions

CONSTANTS
  Timers,    \* the addresses heap_timer objects may have
  NULL,
  Cap,       \* the capacities a heap may be made with
  MaxTime    \* bound: the clock, and every expire, stay up to it

(* A capacity of 0 is never grown, because resize doubles it. *)
TimeHeapAssumption ==
  /\ IsFiniteSet(Timers) /\ NULL \notin Timers
  /\ Cap \subseteq Nat \ {0} /\ MaxTime \in Nat

VARIABLES
  array,       \* the cells 0..capacity-1, each a pointer
  cur_size,
  expire,      \* the member of every heap_timer
  cb_func,     \* whether the member is set
  allocated,   \* the timers that have been created and not deleted
  now,         \* time(NULL)
  fired        \* the timers whose cb_func the last operation called

heapVars == <<array, cur_size>>
vars == <<heapVars, expire, cb_func, allocated, now, fired>>

capacity == Cardinality(DOMAIN array)

Parent(i) == (i - 1) \div 2

(* Variant: the right child is never looked at. *)
LeftOnly(a, n, e, i) == 2 * i + 1

(* The child of cell i, of a heap of n timers, that percolate_down compares. *)
Child(a, n, e, i) ==
  IF 2 * i + 2 < n /\ e[a[2 * i + 2]] < e[a[2 * i + 1]]
  THEN 2 * i + 2 ELSE 2 * i + 1

(* percolate_down(hole): the children that expire before the timer in hole  *)
(* move up, and the timer takes the place of the last of them.  The hole    *)
(* moves at most once for every cell.                                       *)
PercolateDown(a, n, e, hole) ==
  LET at[k \in 0..n] ==
        IF k = 0 THEN [hole |-> hole, array |-> a]
        ELSE LET h == at[k - 1].hole
                 b == at[k - 1].array
                 c == Child(b, n, e, h)
             IN  IF 2 * h + 1 < n /\ e[b[c]] < e[a[hole]]
                 THEN [hole |-> c, array |-> [b EXCEPT ![h] = b[c]]]
                 ELSE at[k - 1]
  IN  [at[n].array EXCEPT ![at[n].hole] = a[hole]]

(* resize: twice as many cells, when none is free. *)
Grown == IF cur_size < capacity THEN array
         ELSE [i \in 0..2 * capacity - 1 |-> IF i < cur_size THEN array[i] ELSE NULL]

(* The way up for a new timer: from the first free cell to the place below  *)
(* the first timer that does not expire after it.                           *)
HoleFor(e) ==
  LET at[k \in 0..cur_size] ==
        IF k = 0 THEN cur_size
        ELSE IF at[k - 1] = 0 \/ expire[array[Parent(at[k - 1])]] <= e
        THEN at[k - 1] ELSE Parent(at[k - 1])
  IN  [hole |-> at[cur_size], moved |-> {at[k] : k \in 0..cur_size} \ {at[cur_size]}]
-----------------------------------------------------------------------------
(* time_heap(cap): an empty heap. *)
MadeEmpty(cap) ==
  /\ array = [i \in 0..cap - 1 |-> NULL] /\ cur_size = 0
  /\ expire = [t \in Timers |-> 0] /\ allocated = {}

(* From the last cell with a child to the first, every timer sinks. *)
Heapified(n, e, cells) ==
  LET last == (n - 1) \div 2
      made[i \in 0..last + 1] ==
        IF i = 0 THEN cells ELSE PercolateDown(made[i - 1], n, e, last - (i - 1))
  IN  made[last + 1]

(* time_heap(init_array, size, capacity): the timers in an array.           *)
MadeFrom(cap, n, init_array, e) ==
  /\ expire = e
  /\ allocated = {init_array[i] : i \in 0..n - 1}
  /\ cur_size = n
  /\ array = Heapified(n, e, [i \in 0..cap - 1 |-> IF i < n THEN init_array[i] ELSE NULL])

Init ==
  /\ now = 0 /\ fired = {}
  /\ cb_func = [t \in Timers |-> TRUE]
  /\ \E cap \in Cap :
       \/ MadeEmpty(cap)
       \/ \E n \in 1..cap :
          \E init_array \in Injection(0..n - 1, Timers) :
          \E e \in {f \in [Timers -> 0..MaxTime] :
                     \A t \in Timers \ Range(init_array) : f[t] = 0} :
            MadeFrom(cap, n, init_array, e)

(* add_timer of a new timer. *)
AddTimer(t, e) ==
  LET up == HoleFor(e)
  IN  /\ t \notin allocated
      /\ allocated' = allocated \cup {t}
      /\ expire' = [expire EXCEPT ![t] = e]
      /\ cb_func' = [cb_func EXCEPT ![t] = TRUE]
      /\ array' = [i \in DOMAIN Grown |-> IF i = up.hole THEN t
                                         ELSE IF i \in up.moved THEN array[Parent(i)]
                                         ELSE Grown[i]]
      /\ cur_size' = cur_size + 1
      /\ fired' = {}
      /\ now' = now

(* del_timer: only the callback is taken away; the heap keeps the timer. *)
DelTimer(t) ==
  /\ t \in allocated
  /\ cb_func' = [cb_func EXCEPT ![t] = FALSE]
  /\ fired' = {}
  /\ UNCHANGED <<heapVars, expire, allocated, now>>

(* pop_timer, from a heap of n timers in a: the last takes the place of the *)
(* first and sinks.  Its old cell keeps the pointer.                        *)
Pop(a, n) == PercolateDown([a EXCEPT ![0] = a[n - 1]], n - 1, expire, 0)

(* delete: the members of timers that are gone mean nothing any more. *)
Delete(ts) ==
  /\ allocated' = allocated \ ts
  /\ expire' = [t \in Timers |-> IF t \in ts THEN 0 ELSE expire[t]]
  /\ cb_func' = [t \in Timers |-> t \in ts \/ cb_func[t]]

(* A caller's pop_timer deletes the first timer without calling it back. *)
PopTimer ==
  /\ cur_size > 0
  /\ array' = Pop(array, cur_size)
  /\ cur_size' = cur_size - 1
  /\ Delete({array[0]})
  /\ fired' = {}
  /\ now' = now

(* tick: the first timer is popped as long as it has expired, and called    *)
(* back if it has not been deleted.                                         *)
Tick ==
  LET at[k \in 0..cur_size] ==
        IF k = 0 THEN [array |-> array, n |-> cur_size, popped |-> {}]
        ELSE LET w == at[k - 1]
             IN  IF w.n = 0 \/ expire[w.array[0]] > now THEN w
                 ELSE [array |-> Pop(w.array, w.n), n |-> w.n - 1,
                       popped |-> w.popped \cup {w.array[0]}]
      end == at[cur_size]
  IN  /\ array' = end.array /\ cur_size' = end.n
      /\ Delete(end.popped)
      /\ fired' = {t \in end.popped : cb_func[t]}
      /\ now' = now

(* The clock. *)
Advance ==
  /\ now < MaxTime
  /\ now' = now + 1
  /\ fired' = {}
  /\ UNCHANGED <<heapVars, expire, cb_func, allocated>>
-----------------------------------------------------------------------------
Next ==
  \/ \E t \in Timers :
       \/ \E e \in now..MaxTime : AddTimer(t, e)
       \/ DelTimer(t)
  \/ PopTimer
  \/ Tick
  \/ Advance

Spec == Init /\ [][Next]_vars
-----------------------------------------------------------------------------
(* The heap is a set of timers: tick calls exactly those that are due and   *)
(* have not been deleted, after any sequence of calls, however often the    *)
(* array grew and whatever order the timers were given in; a pop takes away *)
(* one timer, or none when its callback is gone.                            *)
Pending == {t \in allocated : cb_func[t]}

Abstract == INSTANCE TimerSet WITH
  MaxLeft <- MaxTime,
  left <- [t \in Timers |-> IF t \notin Pending THEN -1
                            ELSE IF expire[t] > now THEN expire[t] - now ELSE 0]

ImplementsTimerSet == Abstract!SpecFilled /\ [][Tick => Abstract!Tick]_vars
=============================================================================
