---------------------------- MODULE Timers_proofs -----------------------------
(***************************************************************************)
(* Proofs that the containers of timers (TimerList, TimerWheel, TimeHeap)  *)
(* implement the set of timers of TimerSet, for any number of timers, any  *)
(* times, any number of slots and any capacity.                            *)
(***************************************************************************)
EXTENDS MCTimers, FiniteSets, Sequences, FunctionTheorems, FiniteSetTheorems,
  SequenceTheorems, WellFoundedInduction, TLAPS

(* Every set of natural numbers that has members has a least one. *)
LEMMA Least ==
  ASSUME NEW Q \in SUBSET Nat, Q # {}
  PROVE  \E x \in Q : \A y \in Q : x <= y
<1> DEFINE R == {ss \in Nat \X Nat : ss[1] < ss[2]}
<1>1. IsWellFoundedOn(R, Nat)
  BY NatLessThanWellFounded DEF OpToRel
<1>2. PICK x \in Q : \A y \in Q : ~(<<y, x>> \in R)
  <2> HIDE DEF R
  <2> QED
    BY <1>1, WFMin
<1>3. \A y \in Q : ~(y < x)
  BY <1>2
<1> HIDE DEF R
<1> QED
  BY <1>3

(* The values g that n turns go through from z on, by f[k] from S[k - 1] to *)
(* S[k].                                                                    *)
LoopGoes(n, S, z, f, g) ==
  /\ g = [k \in 0..n |-> g[k]] /\ g[0] = z
  /\ \A k \in 0..n : g[k] \in S[k]
  /\ \A k \in 1..n : g[k] = f[k][g[k - 1]]

(* There are such values. *)
LEMMA LoopValues ==
  ASSUME NEW n \in Nat, NEW S, NEW z, z \in S[0], NEW f,
         \A k \in 1..n : \A s \in S[k - 1] : f[k][s] \in S[k]
  PROVE  \E g : LoopGoes(n, S, z, f, g)
<1> DEFINE Values(m, g) == /\ g = [k \in 0..m |-> g[k]] /\ g[0] = z
                           /\ \A k \in 0..m : g[k] \in S[k]
                           /\ \A k \in 1..m : g[k] = f[k][g[k - 1]]
           Missing == {m \in 0..n : ~ \E g : Values(m, g)}
<1>1. Missing = {}
  <2> SUFFICES ASSUME Missing # {} PROVE FALSE
    OBVIOUS
  <2>1. PICK m \in Missing : \A y \in Missing : m <= y
    <3>1. Missing \in SUBSET Nat
      OBVIOUS
    <3> HIDE DEF Missing
    <3> QED
      BY <3>1, Least
  <2>2. m \in 0..n /\ ~ \E g : Values(m, g)
    BY <2>1
  <2>3. CASE m = 0
    <3> DEFINE g == [k \in 0..0 |-> z]
    <3>1. Values(0, g)
      OBVIOUS
    <3> QED
      BY <3>1, <2>2, <2>3
  <2>4. CASE m # 0
    <3>1. m - 1 \in 0..n /\ ~(m <= m - 1) /\ m \in 1..n /\ m - 1 \in 0..m - 1
      BY <2>2, <2>4
    <3>2. PICK g : Values(m - 1, g)
      BY <3>1, <2>1
    <3> DEFINE h == [k \in 0..m |-> IF k = m THEN f[m][g[m - 1]] ELSE g[k]]
    <3>3. f[m][g[m - 1]] \in S[m]
      BY <3>1, <3>2
    <3>4. h = [k \in 0..m |-> h[k]] /\ h[0] = z
      BY <3>1, <3>2
    <3>5. ASSUME NEW k \in 0..m PROVE h[k] \in S[k]
      <4>1. CASE k = m
        BY <4>1, <3>3
      <4>2. CASE k # m
        <5>1. k \in 0..m - 1 /\ h[k] = g[k]
          BY <3>1, <4>2
        <5> QED
          BY <5>1, <3>2
      <4> QED
        BY <4>1, <4>2
    <3>6. ASSUME NEW k \in 1..m PROVE h[k] = f[k][h[k - 1]]
      <4>1. h[k - 1] = g[k - 1]
        BY <3>1
      <4>2. CASE k = m
        BY <4>1, <4>2, <3>1
      <4>3. CASE k # m
        <5>1. k \in 1..m - 1 /\ h[k] = g[k]
          BY <3>1, <4>3
        <5> QED
          BY <4>1, <5>1, <3>2
      <4> QED
        BY <4>2, <4>3
    <3> HIDE DEF h
    <3>7. Values(m, h)
      BY <3>4, <3>5, <3>6
    <3> QED
      BY <3>7, <2>2
  <2> QED
    BY <2>3, <2>4
<1>2. n \in 0..n
  OBVIOUS
<1>3. \E g : Values(n, g)
  BY <1>1, <1>2
<1> QED
  BY <1>3 DEF LoopGoes

(* Numbers that begin with 0 and go on up to n are all the numbers up to n. *)
LEMMA LoopInduction ==
  ASSUME NEW n \in Nat, NEW Q, 0 \in Q, \A k \in 1..n : k - 1 \in Q => k \in Q
  PROVE  \A k \in 0..n : k \in Q
<1> DEFINE Missing == {m \in 0..n : m \notin Q}
<1>1. Missing = {}
  <2> SUFFICES ASSUME Missing # {} PROVE FALSE
    OBVIOUS
  <2>1. PICK m \in Missing : \A y \in Missing : m <= y
    <3>1. Missing \in SUBSET Nat
      OBVIOUS
    <3> HIDE DEF Missing
    <3> QED
      BY <3>1, Least
  <2>2. m \in 1..n /\ m - 1 \in 0..n /\ ~(m <= m - 1)
    BY <2>1
  <2> QED
    BY <2>1, <2>2
<1> QED
  BY <1>1
-----------------------------------------------------------------------------
(* 11-6time_heap.h: the heap.                                               *)

(* What a cell of the array holds. *)
HeapPointer == Timers \cup {NULL}

(* The first n cells of the array a are the timers A, each once. *)
HeapHolds(a, cap, n, A) ==
  /\ a \in [0..cap - 1 -> HeapPointer] /\ n \in 0..cap
  /\ \A i \in 0..n - 1 : a[i] \in A
  /\ \A i, j \in 0..n - 1 : i # j => a[i] # a[j]
  /\ \A t \in A : \E i \in 0..n - 1 : a[i] = t

(* From cell lo on no timer expires before the one above it. *)
HeapOrdered(a, n, e, lo) ==
  \A i \in 1..n - 1 : H!Parent(i) >= lo => e[a[H!Parent(i)]] <= e[a[i]]

(* The same, but for the children of cell h, which are in order with what   *)
(* is above h.                                                              *)
OrderedBelow(a, n, e, lo, h) ==
  /\ \A i \in 1..n - 1 : H!Parent(i) >= lo /\ H!Parent(i) # h => e[a[H!Parent(i)]] <= e[a[i]]
  /\ h # lo => H!Parent(h) >= lo /\ \A i \in 1..n - 1 : H!Parent(i) = h => e[a[H!Parent(h)]] <= e[a[i]]

(* Above a cell. *)
(* A cell is one of the two children of its parent... *)
LEMMA ParentIs ==
  ASSUME NEW i \in Nat \ {0}
  PROVE  H!Parent(i) \in Nat /\ (i = 2 * H!Parent(i) + 1 \/ i = 2 * H!Parent(i) + 2)
BY DEF H!Parent

(* ...which comes before it. *)
LEMMA ParentBelow ==
  ASSUME NEW i \in Nat \ {0}
  PROVE  H!Parent(i) \in 0..i - 1 /\ H!Parent(i) < i /\ H!Parent(i) \in Nat
BY DEF H!Parent

(* b is a with two cells exchanged. *)
Exchanged(a, b, h, c) ==
  /\ DOMAIN b = DOMAIN a
  /\ \A i \in DOMAIN a : b[i] = IF i = h THEN a[c] ELSE IF i = c THEN a[h] ELSE a[i]

(* Two cells that change places hold the same timers. *)
LEMMA HoldsExchanged ==
  ASSUME NEW a, NEW b, NEW cap \in Nat, NEW n, NEW A \in SUBSET Timers, HeapHolds(a, cap, n, A),
         NEW h \in 0..n - 1, NEW c \in 0..n - 1, b = [i \in DOMAIN b |-> b[i]], Exchanged(a, b, h, c)
  PROVE  HeapHolds(b, cap, n, A)
<1>1. n \in 0..cap /\ a \in [0..cap - 1 -> HeapPointer] /\ DOMAIN b = 0..cap - 1 /\ h \in 0..cap - 1
      /\ c \in 0..cap - 1
  BY DEF HeapHolds, Exchanged
<1>2. \A i \in 0..cap - 1 : b[i] = IF i = h THEN a[c] ELSE IF i = c THEN a[h] ELSE a[i]
  BY <1>1 DEF Exchanged
<1>3. b \in [0..cap - 1 -> HeapPointer]
  BY <1>1, <1>2
<1>4. \A i \in 0..n - 1 : i \in 0..cap - 1
  BY <1>1
<1>5. \A i \in 0..n - 1 : b[i] \in A
  BY <1>2, <1>4 DEF HeapHolds
<1>6. \A i, j \in 0..n - 1 : i # j => b[i] # b[j]
  BY <1>2, <1>4 DEF HeapHolds
<1>7. ASSUME NEW t \in A PROVE \E i \in 0..n - 1 : b[i] = t
  <2>1. PICK i \in 0..n - 1 : a[i] = t
    BY DEF HeapHolds
  <2>2. CASE i = h
    BY <2>1, <2>2, <1>2, <1>4
  <2>3. CASE i = c
    BY <2>1, <2>3, <1>2, <1>4
  <2>4. CASE i # h /\ i # c
    BY <2>1, <2>4, <1>2, <1>4
  <2> QED
    BY <2>2, <2>3, <2>4
<1> QED
  BY <1>1, <1>3, <1>5, <1>6, <1>7 DEF HeapHolds

(* The timer in cell h changes places with its earlier child c. *)
LEMMA SinksOne ==
  ASSUME NEW a, NEW b, NEW cap \in Nat, NEW n, NEW A \in SUBSET Timers, HeapHolds(a, cap, n, A),
         NEW e \in [Timers -> Nat], NEW lo \in Nat,
         NEW h \in 0..n - 1, NEW c \in 0..n - 1, Exchanged(a, b, h, c),
         lo <= h, OrderedBelow(a, n, e, lo, h),
         c \in {2 * h + 1, 2 * h + 2}, e[a[c]] < e[a[h]],
         \A i \in 1..n - 1 : H!Parent(i) = h => e[a[c]] <= e[a[i]]
  PROVE  OrderedBelow(b, n, e, lo, c)
<1> DEFINE E(i) == e[a[i]]
<1>1. n \in 0..cap /\ \A i \in 0..n - 1 : a[i] \in Timers /\ E(i) \in Nat
  BY DEF HeapHolds
<1>2. \A i \in 0..n - 1 : e[b[i]] = IF i = h THEN E(c) ELSE IF i = c THEN E(h) ELSE E(i)
  <2>1. \A i \in 0..n - 1 : i \in DOMAIN a
    BY <1>1 DEF HeapHolds
  <2>2. \A i \in 0..n - 1 : b[i] = IF i = h THEN a[c] ELSE IF i = c THEN a[h] ELSE a[i]
    BY <2>1 DEF Exchanged
  <2> QED
    BY <2>2
<1>3. \A i \in 1..n - 1 : H!Parent(i) \in 0..n - 1 /\ (i = 2 * H!Parent(i) + 1 \/ i = 2 * H!Parent(i) + 2)
  BY ParentIs, <1>1
<1>4. c \in 1..n - 1 /\ H!Parent(c) = h /\ h # c
  <2>1. n \in Nat /\ h \in Nat /\ c \in 1..n - 1 /\ h # c
    BY <1>1
  <2>2. H!Parent(c) \in Nat /\ (c = 2 * H!Parent(c) + 1 \/ c = 2 * H!Parent(c) + 2)
    BY <2>1, ParentIs
  <2> QED
    BY <2>1, <2>2
<1>5. /\ \A i \in 1..n - 1 : H!Parent(i) >= lo /\ H!Parent(i) # h => E(H!Parent(i)) <= E(i)
      /\ h # lo => H!Parent(h) >= lo /\ \A i \in 1..n - 1 : H!Parent(i) = h => E(H!Parent(h)) <= E(i)
  BY DEF OrderedBelow
<1>6. E(c) < E(h) /\ \A i \in 1..n - 1 : H!Parent(i) = h => E(c) <= E(i)
  OBVIOUS
<1> HIDE DEF E
<1>7. ASSUME NEW i \in 1..n - 1, H!Parent(i) >= lo, H!Parent(i) # c PROVE e[b[H!Parent(i)]] <= e[b[i]]
  <2>1. i \in 0..n - 1 /\ H!Parent(i) \in 0..n - 1
    BY <1>1, <1>3
  <2>2. CASE i = c
    BY <2>1, <2>2, <1>1, <1>2, <1>4, <1>6
  <2>3. CASE i # c /\ H!Parent(i) = h
    BY <2>1, <2>3, <1>1, <1>2, <1>3, <1>4, <1>6
  <2>4. CASE i = h
    BY <2>1, <2>4, <1>1, <1>2, <1>3, <1>4, <1>5, <1>7
  <2>5. CASE i # c /\ H!Parent(i) # h /\ i # h
    BY <2>1, <2>5, <1>1, <1>2, <1>3, <1>4, <1>5, <1>7
  <2> QED
    BY <2>2, <2>3, <2>4, <2>5
<1>8. ASSUME NEW i \in 1..n - 1, H!Parent(i) = c PROVE e[b[H!Parent(c)]] <= e[b[i]]
  <2>1. i \in 0..n - 1 /\ i # c /\ i # h
    BY <1>3, <1>4, <1>8
  <2>2. E(c) <= E(i)
    BY <1>3, <1>4, <1>5, <1>8
  <2> QED
    BY <2>1, <2>2, <1>2, <1>4
<1> QED
  BY <1>4, <1>7, <1>8 DEF OrderedBelow

(* One turn of percolate_down, for the timer t. *)
SinkOne(n, e, t, w) ==
  LET c == H!Child(w.array, n, e, w.hole)
  IN  IF 2 * w.hole + 1 < n /\ e[w.array[c]] < e[t]
      THEN [hole |-> c, array |-> [w.array EXCEPT ![w.hole] = w.array[c]]]
      ELSE w

(* No child of the hole expires before t. *)
Rests(n, e, t, w) ==
  ~(2 * w.hole + 1 < n /\ e[w.array[H!Child(w.array, n, e, w.hole)]] < e[t])

Filled(w, t) == [w.array EXCEPT ![w.hole] = t]

Holes(cap, lo, n) == [hole : lo..n - 1, array : [0..cap - 1 -> HeapPointer]]

Sinking(cap, n, e, A, lo, t, w) ==
  /\ w \in Holes(cap, lo, n)
  /\ HeapHolds(Filled(w, t), cap, n, A)
  /\ OrderedBelow(Filled(w, t), n, e, lo, w.hole)

(* One turn of percolate_down keeps this; the hole moves down, or the timer  *)
(* has found its place and nothing moves any more.                           *)
LEMMA SinkOneStep ==
  ASSUME NEW cap \in Nat, NEW n, NEW e \in [Timers -> Nat], NEW A \in SUBSET Timers,
         NEW lo \in Nat, NEW t \in Timers, NEW w, Sinking(cap, n, e, A, lo, t, w)
  PROVE  /\ Sinking(cap, n, e, A, lo, t, SinkOne(n, e, t, w))
         /\ \/ SinkOne(n, e, t, w).hole > w.hole
            \/ Rests(n, e, t, w) /\ SinkOne(n, e, t, w) = w
<1> DEFINE h == w.hole
           b == w.array
           a == Filled(w, t)
           c == H!Child(b, n, e, h)
           u == SinkOne(n, e, t, w)
<1>1. n \in Nat /\ n <= cap /\ h \in lo..n - 1 /\ b \in [0..cap - 1 -> HeapPointer] /\ h \in Nat /\ h \in 0..cap - 1
  BY DEF Sinking, HeapHolds, Holes
<1>2. HeapHolds(a, cap, n, A) /\ OrderedBelow(a, n, e, lo, h)
  BY DEF Sinking
<1>3. a[h] = t /\ DOMAIN a = 0..cap - 1 /\ \A i \in 0..cap - 1 : i # h => a[i] = b[i]
  BY <1>1 DEF Filled
<1>4. CASE Rests(n, e, t, w)
  BY <1>4 DEF Rests, SinkOne
<1>5. CASE ~Rests(n, e, t, w)
  <2>1. 2 * h + 1 < n /\ e[b[c]] < e[t] /\ u = [hole |-> c, array |-> [b EXCEPT ![h] = b[c]]]
    BY <1>5 DEF Rests, SinkOne
  <2>2. c \in {2 * h + 1, 2 * h + 2} /\ c < n
    BY <2>1, <1>1 DEF H!Child
  <2>2a. c \in lo..n - 1 /\ c \in 0..n - 1 /\ c \in 0..cap - 1 /\ h \in 0..n - 1 /\ c # h /\ c > h
    BY <2>2, <1>1
  <2>3. \A i \in 1..n - 1 : i \in 0..cap - 1 /\ a[i] \in Timers
    BY <1>1, <1>2 DEF HeapHolds
  <2>4. ASSUME NEW i \in 1..n - 1, H!Parent(i) = h PROVE e[a[c]] <= e[a[i]]
    <3>1. i \in {2 * h + 1, 2 * h + 2} /\ i # h
      BY <2>4, <1>1, ParentIs
    <3>2. a[i] = b[i] /\ a[c] = b[c] /\ e[a[i]] \in Nat /\ e[a[c]] \in Nat
      BY <3>1, <1>3, <2>2, <2>2a, <2>3
    <3>3. 2 * h + 1 \in 1..n - 1 /\ 2 * h + 1 # h /\ a[2 * h + 1] = b[2 * h + 1] /\ e[b[2 * h + 1]] \in Nat
      <4>1. PICK j : j = 2 * h + 1
        OBVIOUS
      <4>2. j \in 1..n - 1 /\ j # h
        BY <4>1, <1>1, <2>1
      <4>3. j \in 0..cap - 1 /\ a[j] \in Timers
        BY <4>2, <2>3
      <4>4. a[j] = b[j]
        BY <4>2, <4>3, <1>3
      <4>5. e[b[j]] \in Nat
        BY <4>3, <4>4
      <4> QED
        BY <4>1, <4>2, <4>4, <4>5
    <3>4. CASE i = c
      BY <3>2, <3>4
    <3>5. CASE i # c /\ i = 2 * h + 2
      <4>1. c = 2 * h + 1 /\ 2 * h + 2 < n
        BY <2>2, <3>5, <1>1
      <4>2. ~(e[b[2 * h + 2]] < e[b[2 * h + 1]])
        BY <4>1, <1>1 DEF H!Child
      <4> QED
        BY <4>1, <4>2, <3>2, <3>3, <3>5
    <3>6. CASE i # c /\ i = 2 * h + 1
      <4>1. c = 2 * h + 2
        BY <2>2, <3>6, <1>1
      <4>2. e[b[2 * h + 2]] < e[b[2 * h + 1]]
        BY <4>1, <1>1 DEF H!Child
      <4> QED
        BY <4>1, <4>2, <3>2, <3>3, <3>6
    <3> QED
      BY <3>1, <3>4, <3>5, <3>6
  <2>5. u.hole = c /\ u.array = [b EXCEPT ![h] = b[c]]
    BY <2>1
  <2> HIDE DEF c, u
  <2>6. u \in Holes(cap, lo, n)
    BY <2>1, <2>2a, <1>1 DEF Holes
  <2>7. Exchanged(a, Filled(u, t), h, c) /\ Filled(u, t) = [i \in DOMAIN Filled(u, t) |-> Filled(u, t)[i]]
    BY <2>5, <1>1, <1>3, <2>2a DEF Filled, Exchanged
  <2>8. lo <= h /\ e[a[c]] < e[a[h]]
    BY <1>1, <1>3, <2>1, <2>2a
  <2> HIDE DEF a, h
  <2>9. HeapHolds(Filled(u, t), cap, n, A)
    BY <1>2, <2>2a, <2>7, HoldsExchanged
  <2>10. OrderedBelow(Filled(u, t), n, e, lo, c)
    BY <1>2, <2>2, <2>2a, <2>4, <2>7, <2>8, SinksOne
  <2> QED
    BY <2>2a, <2>5, <2>6, <2>9, <2>10 DEF Sinking, u, h
<1> QED
  BY <1>4, <1>5

(* Once it rests the timer is in order with what is below it. *)
LEMMA Settled ==
  ASSUME NEW cap \in Nat, NEW n, NEW e \in [Timers -> Nat], NEW A \in SUBSET Timers,
         NEW lo \in Nat, NEW t \in Timers, NEW w, Sinking(cap, n, e, A, lo, t, w), Rests(n, e, t, w)
  PROVE  HeapHolds(Filled(w, t), cap, n, A) /\ HeapOrdered(Filled(w, t), n, e, lo)
<1> DEFINE h == w.hole
           b == w.array
           a == Filled(w, t)
           c == H!Child(b, n, e, h)
<1>1. n \in Nat /\ n <= cap /\ h \in lo..n - 1 /\ b \in [0..cap - 1 -> HeapPointer] /\ h \in Nat /\ h \in 0..cap - 1
  BY DEF Sinking, HeapHolds, Holes
<1>2. HeapHolds(a, cap, n, A) /\ OrderedBelow(a, n, e, lo, h)
  BY DEF Sinking
<1>3. a[h] = t /\ DOMAIN a = 0..cap - 1 /\ \A i \in 0..cap - 1 : i # h => a[i] = b[i]
  BY <1>1 DEF Filled
<1>4. \A i \in 1..n - 1 : i \in 0..cap - 1 /\ a[i] \in Timers /\ e[a[i]] \in Nat
  BY <1>1, <1>2 DEF HeapHolds
<1>5. e[t] \in Nat
  OBVIOUS
<1>6. ~(2 * h + 1 < n /\ e[b[c]] < e[t])
  BY DEF Rests
<1>7. ASSUME NEW i \in 1..n - 1, H!Parent(i) = h PROVE e[a[h]] <= e[a[i]]
  <2>1. i \in {2 * h + 1, 2 * h + 2} /\ i # h /\ a[i] = b[i]
    <3>1. i \in {2 * h + 1, 2 * h + 2} /\ i # h
      BY <1>7, <1>1, ParentIs
    <3> QED
      BY <3>1, <1>3, <1>4
  <2>2. 2 * h + 1 < n /\ ~(e[b[c]] < e[t])
    BY <2>1, <1>1, <1>6
  <2>3. 2 * h + 1 \in 1..n - 1 /\ 2 * h + 1 # h /\ a[2 * h + 1] = b[2 * h + 1] /\ e[b[2 * h + 1]] \in Nat
    <3>1. PICK j : j = 2 * h + 1
      OBVIOUS
    <3>2. j \in 1..n - 1 /\ j # h
      BY <3>1, <1>1, <2>2
    <3>3. j \in 0..cap - 1 /\ e[a[j]] \in Nat
      BY <3>2, <1>4
    <3>4. a[j] = b[j]
      BY <3>2, <3>3, <1>3
    <3> QED
      BY <3>1, <3>2, <3>3, <3>4
  <2>4. e[b[i]] \in Nat
    BY <2>1, <1>4
  <2>5. CASE 2 * h + 2 < n /\ e[b[2 * h + 2]] < e[b[2 * h + 1]]
    <3>1. c = 2 * h + 2
      BY <2>5 DEF H!Child
    <3>2. 2 * h + 2 \in 1..n - 1 /\ 2 * h + 2 # h
      BY <2>5, <1>1
    <3>3. e[b[2 * h + 2]] \in Nat
      BY <3>2, <1>3, <1>4
    <3> HIDE DEF c
    <3>4. e[t] <= e[b[i]]
      BY <3>1, <3>3, <2>1, <2>2, <2>3, <2>5, <1>5
    <3> QED
      BY <3>4, <2>1, <1>3
  <2>6. CASE ~(2 * h + 2 < n /\ e[b[2 * h + 2]] < e[b[2 * h + 1]])
    <3>1. c = 2 * h + 1
      BY <2>6 DEF H!Child
    <3> HIDE DEF c
    <3>2. i = 2 * h + 2 => 2 * h + 2 < n
      BY <1>1
    <3>3. e[t] <= e[b[i]]
      BY <3>1, <3>2, <2>1, <2>2, <2>3, <2>4, <2>6, <1>5
    <3> QED
      BY <3>3, <2>1, <1>3
  <2> QED
    BY <2>5, <2>6
<1> QED
  BY <1>2, <1>7 DEF HeapOrdered, OrderedBelow

(* percolate_down in n turns puts the timer of cell lo in order with what   *)
(* is below it, and keeps the timers.                                       *)
LEMMA Percolates ==
  ASSUME NEW cap \in Nat, NEW n, NEW e \in [Timers -> Nat], NEW A \in SUBSET Timers, NEW a,
         NEW lo \in 0..n - 1, HeapHolds(a, cap, n, A), HeapOrdered(a, n, e, lo + 1)
  PROVE  HeapHolds(H!PercolateDown(a, n, e, lo), cap, n, A) /\ HeapOrdered(H!PercolateDown(a, n, e, lo), n, e, lo)
<1> DEFINE t == a[lo]
           z == [hole |-> lo, array |-> a]
           V(k) == {w \in Holes(cap, lo, n) : Sinking(cap, n, e, A, lo, t, w)
                      /\ (w.hole >= lo + k \/ Rests(n, e, t, w))}
           S == [k \in 0..n |-> V(k)]
           f == [k \in 1..n |-> [w \in S[k - 1] |-> SinkOne(n, e, t, w)]]
           F(g) == [k \in 0..n |-> IF k = 0 THEN z ELSE SinkOne(n, e, t, g[k - 1])]
<1>1. n \in Nat /\ n <= cap /\ lo \in Nat /\ lo \in 0..cap - 1 /\ a \in [0..cap - 1 -> HeapPointer] /\ t \in Timers
  BY DEF HeapHolds
<1>2. z \in V(0)
  <2>1. Filled(z, t) = a
    BY <1>1 DEF Filled
  <2>2. z \in Holes(cap, lo, n)
    BY <1>1 DEF Holes
  <2>3. OrderedBelow(a, n, e, lo, lo)
    <3>1. \A i \in 1..n - 1 : H!Parent(i) >= lo /\ H!Parent(i) # lo => H!Parent(i) >= lo + 1
      BY <1>1, ParentIs
    <3> QED
      BY <3>1 DEF OrderedBelow, HeapOrdered
  <2>4. z.hole >= lo + 0
    BY <1>1
  <2> QED
    BY <2>1, <2>2, <2>3, <2>4 DEF Sinking
<1>3. ASSUME NEW k \in 1..n, NEW w \in V(k - 1)
      PROVE  SinkOne(n, e, t, w) \in V(k)
  <2> DEFINE u == SinkOne(n, e, t, w)
  <2>1. Sinking(cap, n, e, A, lo, t, w) /\ (w.hole >= lo + (k - 1) \/ Rests(n, e, t, w)) /\ w.hole \in Nat
    BY <1>1, <1>3 DEF Holes
  <2> HIDE DEF t
  <2>2. Sinking(cap, n, e, A, lo, t, u) /\ (u.hole > w.hole \/ (Rests(n, e, t, w) /\ u = w))
    BY <1>1, <2>1, SinkOneStep
  <2>2a. u \in Holes(cap, lo, n) /\ u.hole \in Nat
    BY <2>2, <1>1 DEF Sinking, Holes
  <2> HIDE DEF u
  <2>3. u.hole >= lo + k \/ Rests(n, e, t, u)
    <3>1. CASE Rests(n, e, t, w) /\ u = w
      BY <3>1
    <3>2. CASE u.hole > w.hole /\ w.hole >= lo + (k - 1)
      BY <3>2, <2>1, <2>2a, <1>1
    <3>3. CASE u.hole > w.hole /\ Rests(n, e, t, w)
      <4>1. u = w
        BY <3>3 DEF u, Rests, SinkOne
      <4> QED
        BY <4>1, <3>3
    <3> QED
      BY <3>1, <3>2, <3>3, <2>1, <2>2
  <2> QED
    BY <2>2, <2>2a, <2>3 DEF u
<1> HIDE DEF V
<1>4. \A k \in 1..n : \A w \in S[k - 1] : f[k][w] \in S[k] /\ f[k][w] = SinkOne(n, e, t, w)
  <2> SUFFICES ASSUME NEW k \in 1..n, NEW w \in S[k - 1]
               PROVE  f[k][w] \in S[k] /\ f[k][w] = SinkOne(n, e, t, w)
    OBVIOUS
  <2>1. k - 1 \in 0..n /\ k \in 0..n
    BY <1>1
  <2>2. S[k - 1] = V(k - 1) /\ S[k] = V(k)
    BY <2>1
  <2>3. f[k] = [v \in S[k - 1] |-> SinkOne(n, e, t, v)]
    OBVIOUS
  <2> HIDE DEF S, f
  <2>4. f[k][w] = SinkOne(n, e, t, w)
    BY <2>3
  <2> QED
    BY <2>2, <2>4, <1>3
<1>4a. z \in S[0]
  BY <1>1, <1>2
<1> HIDE DEF z, f
<1>5. \E g : g = F(g)
  <2>1a. PICK g : LoopGoes(n, S, z, f, g)
    <3> HIDE DEF S
    <3>1. \A k \in 1..n : \A w \in S[k - 1] : f[k][w] \in S[k]
      BY <1>4
    <3>2. n \in Nat
      BY <1>1
    <3> QED
      BY <1>4a, <3>1, <3>2, LoopValues
  <2>1. /\ g = [k \in 0..n |-> g[k]] /\ g[0] = z
        /\ \A k \in 0..n : g[k] \in S[k]
        /\ \A k \in 1..n : g[k] = f[k][g[k - 1]]
    <3> HIDE DEF S
    <3> QED
      BY <2>1a DEF LoopGoes
  <2>2. ASSUME NEW k \in 0..n PROVE g[k] = IF k = 0 THEN z ELSE SinkOne(n, e, t, g[k - 1])
    <3>1. CASE k = 0
      BY <2>1, <3>1
    <3>2. CASE k # 0
      <4>1. k \in 1..n /\ k - 1 \in 0..n
        BY <1>1, <3>2
      <4>2. g[k - 1] \in S[k - 1]
        BY <2>1, <4>1
      <4> HIDE DEF S
      <4> QED
        BY <2>1, <4>1, <4>2, <1>4, <3>2
    <3> QED
      BY <3>1, <3>2
  <2>3. g = F(g)
    BY <2>1, <2>2
  <2> QED
    BY <2>3
<1> DEFINE at == CHOOSE g : g = F(g)
<1>6. at = F(at)
  <2> HIDE DEF F
  <2> QED
    BY <1>5
<1>7. H!PercolateDown(a, n, e, lo) = Filled(at[n], t)
  BY DEF H!PercolateDown, Filled, SinkOne, z
<1> HIDE DEF at
<1>8. at[n] \in V(n)
  <2> DEFINE Q == {k \in 0..n : at[k] \in V(k)}
  <2>2. 0 \in Q
    <3>1. at[0] = z
      BY <1>6, <1>1
    <3>2. z \in V(0) /\ 0 \in 0..n
      BY <1>1, <1>4a
    <3> QED
      BY <3>1, <3>2
  <2>3. ASSUME NEW k \in 1..n, k - 1 \in Q PROVE k \in Q
    <3>1. k \in 0..n /\ k - 1 \in 0..n /\ k # 0
      BY <1>1
    <3>2. at[k] = SinkOne(n, e, t, at[k - 1])
      BY <1>6, <3>1
    <3>3. at[k - 1] \in V(k - 1)
      BY <2>3
    <3>4. at[k] \in V(k)
      BY <3>2, <3>3, <1>3
    <3> QED
      BY <3>1, <3>4
  <2> HIDE DEF Q
  <2>4. \A k \in 0..n : k \in Q
    BY <1>1, <2>2, <2>3, LoopInduction
  <2>5. n \in Q
    BY <2>4, <1>1
  <2> QED
    BY <2>5 DEF Q
<1>9. Sinking(cap, n, e, A, lo, t, at[n]) /\ Rests(n, e, t, at[n])
  BY <1>1, <1>8 DEF V, Holes
<1> HIDE DEF t
<1> QED
  BY <1>1, <1>7, <1>9, Settled

(* Without cells there is nothing to sink. *)
LEMMA PercolatesNone ==
  ASSUME NEW a, NEW e
  PROVE  H!PercolateDown(a, 0, e, 0) = [a EXCEPT ![0] = a[0]]
<1> DEFINE z == [hole |-> 0, array |-> a]
           F(g) == [k \in 0..0 |-> IF k = 0 THEN z ELSE SinkOne(0, e, a[0], g[k - 1])]
<1>1. \E g : g = F(g)
  <2> DEFINE g == [k \in 0..0 |-> z]
  <2> HIDE DEF z
  <2>1. \A k \in 0..0 : g[k] = z /\ k = 0
    OBVIOUS
  <2>2. g = F(g)
    BY <2>1
  <2> QED
    BY <2>2
<1> DEFINE at == CHOOSE g : g = F(g)
<1>2. at = F(at)
  <2> HIDE DEF F
  <2> QED
    BY <1>1
<1>3. H!PercolateDown(a, 0, e, 0) = [at[0].array EXCEPT ![at[0].hole] = a[0]]
  BY DEF H!PercolateDown, SinkOne
<1> HIDE DEF at
<1>4. at[0] = z
  BY <1>2
<1> QED
  BY <1>3, <1>4

(* The last timer on top, and down from there. *)
LEMMA Pops ==
  ASSUME NEW cap \in Nat, NEW n \in Nat \ {0}, h_expire \in [Timers -> Nat], NEW A \in SUBSET Timers, NEW a,
         HeapHolds(a, cap, n, A), HeapOrdered(a, n, h_expire, 0)
  PROVE  /\ a[0] \in A
         /\ HeapHolds(H!Pop(a, n), cap, n - 1, A \ {a[0]}) /\ HeapOrdered(H!Pop(a, n), n - 1, h_expire, 0)
<1> DEFINE b == [a EXCEPT ![0] = a[n - 1]]
<1>1. n <= cap /\ a \in [0..cap - 1 -> HeapPointer] /\ 0 \in 0..n - 1 /\ 0 \in 0..cap - 1 /\ n - 1 \in 0..n - 1
      /\ a[0] \in A /\ a[n - 1] \in A
  BY DEF HeapHolds
<1>2. b \in [0..cap - 1 -> HeapPointer] /\ \A i \in 0..cap - 1 : b[i] = IF i = 0 THEN a[n - 1] ELSE a[i]
  BY <1>1 DEF HeapPointer
<1>3. H!Pop(a, n) = H!PercolateDown(b, n - 1, h_expire, 0)
  BY DEF H!Pop
<1> HIDE DEF b
<1>4. ASSUME NEW i \in 0..n - 1 PROVE i \in 0..cap - 1 /\ a[i] \in A
  BY <1>1 DEF HeapHolds
<1>5. CASE n = 1
  <2>1. H!Pop(a, n) = [b EXCEPT ![0] = b[0]]
    BY <1>3, <1>5, PercolatesNone
  <2>2. H!Pop(a, n) \in [0..cap - 1 -> HeapPointer]
    BY <2>1, <1>1, <1>2
  <2>3. A \ {a[0]} = {}
    BY <1>5, <1>4 DEF HeapHolds
  <2> QED
    BY <1>1, <1>5, <2>2, <2>3 DEF HeapHolds, HeapOrdered
<1>6. CASE n # 1
  <2>1. n - 1 \in 0..cap /\ 0 \in 0..(n - 1) - 1 /\ n - 1 \in Nat
    BY <1>1, <1>6
  <2>2. ASSUME NEW i \in 0..(n - 1) - 1
        PROVE i \in 0..n - 1 /\ i # n - 1 /\ i \in 0..cap - 1 /\ b[i] = IF i = 0 THEN a[n - 1] ELSE a[i]
    BY <1>1, <1>2
  <2>3. \A i, j \in 0..n - 1 : i # j => a[i] # a[j]
    BY DEF HeapHolds
  <2>4. \A i \in 0..(n - 1) - 1 : b[i] \in A \ {a[0]}
    BY <1>1, <1>4, <2>2, <2>3, <1>6
  <2>5. \A i, j \in 0..(n - 1) - 1 : i # j => b[i] # b[j]
    BY <1>1, <2>2, <2>3
  <2>6. ASSUME NEW t \in A \ {a[0]} PROVE \E i \in 0..(n - 1) - 1 : b[i] = t
    <3>1. PICK i \in 0..n - 1 : a[i] = t
      BY DEF HeapHolds
    <3>2. i # 0
      BY <3>1
    <3>3. CASE i = n - 1
      BY <3>1, <3>3, <2>1, <2>2
    <3>4. CASE i # n - 1
      <4>1. i \in 0..(n - 1) - 1
        BY <3>4
      <4> QED
        BY <4>1, <3>1, <3>2, <2>2
    <3> QED
      BY <3>3, <3>4
  <2>7. HeapHolds(b, cap, n - 1, A \ {a[0]})
    BY <1>2, <2>1, <2>4, <2>5, <2>6 DEF HeapHolds
  <2>8. HeapOrdered(b, n - 1, h_expire, 0 + 1)
    <3> SUFFICES ASSUME NEW i \in 1..(n - 1) - 1, H!Parent(i) >= 0 + 1
                 PROVE  h_expire[b[H!Parent(i)]] <= h_expire[b[i]]
      BY DEF HeapOrdered
    <3>1. H!Parent(i) \in 0..(n - 1) - 1 /\ H!Parent(i) # 0 /\ i \in 0..(n - 1) - 1 /\ i # 0
      BY <2>1, ParentIs
    <3>2. b[H!Parent(i)] = a[H!Parent(i)] /\ b[i] = a[i]
      BY <3>1, <2>2
    <3>3. i \in 1..n - 1 /\ H!Parent(i) >= 0
      BY <3>1, <2>1
    <3> QED
      BY <3>2, <3>3 DEF HeapOrdered
  <2>9. A \ {a[0]} \in SUBSET Timers
    OBVIOUS
  <2>10. HeapHolds(H!PercolateDown(b, n - 1, h_expire, 0), cap, n - 1, A \ {a[0]})
         /\ HeapOrdered(H!PercolateDown(b, n - 1, h_expire, 0), n - 1, h_expire, 0)
    <3>1. PICK lo : lo = 0
      OBVIOUS
    <3>2. lo \in 0..(n - 1) - 1 /\ HeapOrdered(b, n - 1, h_expire, lo + 1)
      BY <3>1, <2>1, <2>8
    <3>3. HeapHolds(H!PercolateDown(b, n - 1, h_expire, lo), cap, n - 1, A \ {a[0]})
          /\ HeapOrdered(H!PercolateDown(b, n - 1, h_expire, lo), n - 1, h_expire, lo)
      BY <3>2, <2>7, <2>9, Percolates
    <3> QED
      BY <3>1, <3>3
  <2> QED
    BY <1>1, <1>3, <2>10
<1> QED
  BY <1>5, <1>6

(* No timer expires before the one in the first cell. *)
LEMMA FirstExpires ==
  ASSUME NEW cap \in Nat, NEW n \in Nat, NEW e \in [Timers -> Nat], NEW A \in SUBSET Timers, NEW a,
         HeapHolds(a, cap, n, A), HeapOrdered(a, n, e, 0)
  PROVE  \A i \in 0..n - 1 : e[a[0]] <= e[a[i]]
<1> DEFINE Missing == {i \in 0..n - 1 : ~(e[a[0]] <= e[a[i]])}
<1>1. Missing = {}
  <2> SUFFICES ASSUME Missing # {} PROVE FALSE
    OBVIOUS
  <2>1. PICK m \in Missing : \A y \in Missing : m <= y
    <3>1. Missing \in SUBSET Nat
      OBVIOUS
    <3> HIDE DEF Missing
    <3> QED
      BY <3>1, Least
  <2>2. \A i \in 0..n - 1 : a[i] \in Timers /\ e[a[i]] \in Nat
    BY DEF HeapHolds
  <2>3. m \in 0..n - 1 /\ 0 \in 0..n - 1 /\ m # 0
    BY <2>1, <2>2
  <2>4. H!Parent(m) \in 0..n - 1 /\ H!Parent(m) < m /\ H!Parent(m) >= 0 /\ m \in 1..n - 1
    BY <2>3, ParentIs
  <2>5. e[a[H!Parent(m)]] <= e[a[m]]
    BY <2>4 DEF HeapOrdered
  <2>6. e[a[0]] <= e[a[H!Parent(m)]]
    BY <2>1, <2>4
  <2>7. ~(e[a[0]] <= e[a[m]])
    BY <2>1
  <2> QED
    BY <2>2, <2>3, <2>4, <2>5, <2>6, <2>7
<1> QED
  BY <1>1

(* The constructor from an array. *)
LEMMA Heapifies ==
  ASSUME NEW cap \in Nat, NEW n \in Nat \ {0}, NEW e \in [Timers -> Nat], NEW A \in SUBSET Timers,
         NEW cells, HeapHolds(cells, cap, n, A)
  PROVE  HeapHolds(H!Heapified(n, e, cells), cap, n, A) /\ HeapOrdered(H!Heapified(n, e, cells), n, e, 0)
<1> DEFINE last == (n - 1) \div 2
           m == last + 1
           V(k) == {a \in [0..cap - 1 -> HeapPointer] : HeapHolds(a, cap, n, A) /\ HeapOrdered(a, n, e, m - k)}
           Sink(k, a) == H!PercolateDown(a, n, e, last - (k - 1))
           S == [k \in 0..m |-> V(k)]
           f == [k \in 1..m |-> [a \in S[k - 1] |-> Sink(k, a)]]
           F(g) == [k \in 0..m |-> IF k = 0 THEN cells ELSE Sink(k, g[k - 1])]
<1>1. last \in 0..n - 1 /\ m \in Nat \ {0} /\ n - 1 <= 2 * last + 1
  OBVIOUS
<1>2. cells \in V(0)
  <2>1. HeapOrdered(cells, n, e, m - 0)
    <3>1. \A i \in 1..n - 1 : ~(H!Parent(i) >= m - 0)
      <4> SUFFICES ASSUME NEW i \in 1..n - 1 PROVE ~(H!Parent(i) >= m - 0)
        OBVIOUS
      <4>1. i \in Nat \ {0} /\ last \in Nat /\ i <= 2 * last + 1
        BY <1>1
      <4> HIDE DEF last
      <4> QED
        BY <4>1, ParentIs
    <3> QED
      BY <3>1 DEF HeapOrdered
  <2> QED
    BY <2>1 DEF HeapHolds
<1> HIDE DEF last
<1>3. ASSUME NEW k \in 1..m, NEW a \in V(k - 1) PROVE Sink(k, a) \in V(k)
  <2> DEFINE lo == last - (k - 1)
  <2>1. lo \in 0..n - 1 /\ lo + 1 = m - (k - 1) /\ lo = m - k
    BY <1>1
  <2>2. HeapHolds(a, cap, n, A) /\ HeapOrdered(a, n, e, lo + 1)
    BY <1>3, <2>1
  <2> HIDE DEF lo
  <2>3. HeapHolds(H!PercolateDown(a, n, e, lo), cap, n, A) /\ HeapOrdered(H!PercolateDown(a, n, e, lo), n, e, lo)
    BY <2>1, <2>2, Percolates
  <2>4. H!PercolateDown(a, n, e, lo) \in [0..cap - 1 -> HeapPointer]
    BY <2>3 DEF HeapHolds
  <2>5. Sink(k, a) = H!PercolateDown(a, n, e, lo)
    BY DEF lo
  <2> QED
    BY <2>1, <2>3, <2>4, <2>5
<1> HIDE DEF V, Sink
<1>4. \A k \in 1..m : \A a \in S[k - 1] : f[k][a] \in S[k] /\ f[k][a] = Sink(k, a)
  <2> SUFFICES ASSUME NEW k \in 1..m, NEW a \in S[k - 1]
               PROVE  f[k][a] \in S[k] /\ f[k][a] = Sink(k, a)
    OBVIOUS
  <2>1. k - 1 \in 0..m /\ k \in 0..m
    BY <1>1
  <2>2. S[k - 1] = V(k - 1) /\ S[k] = V(k)
    BY <2>1
  <2>3. f[k] = [v \in S[k - 1] |-> Sink(k, v)]
    OBVIOUS
  <2> HIDE DEF S, f
  <2>4. f[k][a] = Sink(k, a)
    BY <2>3
  <2> QED
    BY <2>2, <2>4, <1>3
<1>4a. cells \in S[0]
  BY <1>1, <1>2
<1> HIDE DEF f
<1>5. \E g : g = F(g)
  <2>1a. PICK g : LoopGoes(m, S, cells, f, g)
    <3> HIDE DEF S, m
    <3>1. \A k \in 1..m : \A w \in S[k - 1] : f[k][w] \in S[k]
      BY <1>4
    <3>2. m \in Nat
      BY <1>1
    <3> QED
      BY <1>4a, <3>1, <3>2, LoopValues
  <2>1. /\ g = [k \in 0..m |-> g[k]] /\ g[0] = cells
        /\ \A k \in 0..m : g[k] \in S[k]
        /\ \A k \in 1..m : g[k] = f[k][g[k - 1]]
    <3> HIDE DEF S, m
    <3> QED
      BY <2>1a DEF LoopGoes
  <2>2. ASSUME NEW k \in 0..m PROVE g[k] = IF k = 0 THEN cells ELSE Sink(k, g[k - 1])
    <3>1. CASE k = 0
      BY <2>1, <3>1
    <3>2. CASE k # 0
      <4>1. k \in 1..m /\ k - 1 \in 0..m
        BY <1>1, <3>2
      <4>2. g[k - 1] \in S[k - 1]
        BY <2>1, <4>1
      <4> HIDE DEF S
      <4> QED
        BY <2>1, <4>1, <4>2, <1>4, <3>2
    <3> QED
      BY <3>1, <3>2
  <2>3. g = F(g)
    BY <2>1, <2>2
  <2> QED
    BY <2>3
<1> DEFINE made == CHOOSE g : g = F(g)
<1>6. made = F(made)
  <2> HIDE DEF F
  <2> QED
    BY <1>5
<1>7. H!Heapified(n, e, cells) = made[m]
  BY DEF H!Heapified, Sink, last
<1> HIDE DEF made
<1>8. made[m] \in V(m)
  <2> DEFINE Q == {k \in 0..m : made[k] \in V(k)}
  <2>2. 0 \in Q
    <3>1. made[0] = cells
      BY <1>6, <1>1
    <3>2. cells \in V(0) /\ 0 \in 0..m
      BY <1>1, <1>4a
    <3> QED
      BY <3>1, <3>2
  <2>3. ASSUME NEW k \in 1..m, k - 1 \in Q PROVE k \in Q
    <3>1. k \in 0..m /\ k - 1 \in 0..m /\ k # 0
      BY <1>1
    <3>2. made[k] = Sink(k, made[k - 1])
      BY <1>6, <3>1
    <3>3. made[k - 1] \in V(k - 1)
      BY <2>3
    <3>4. made[k] \in V(k)
      BY <3>2, <3>3, <1>3
    <3> QED
      BY <3>1, <3>4
  <2> HIDE DEF Q, m
  <2>4. \A k \in 0..m : k \in Q
    BY <1>1, <2>2, <2>3, LoopInduction
  <2>5. m \in Q
    BY <2>4, <1>1
  <2> QED
    BY <2>5 DEF Q
<1>9. m - m = 0
  BY <1>1
<1> QED
  BY <1>7, <1>8, <1>9 DEF V
-----------------------------------------------------------------------------
(* The same, but for the timer in cell h and the one above it. *)
OrderedAbove(a, n, e, h) ==
  /\ \A i \in 1..n - 1 : i # h => e[a[H!Parent(i)]] <= e[a[i]]
  /\ h # 0 => \A i \in 1..n - 1 : H!Parent(i) = h => e[a[H!Parent(h)]] <= e[a[i]]

(* The timer in cell h changes places with the later one above it. *)
LEMMA RisesOne ==
  ASSUME NEW a, NEW b, NEW cap \in Nat, NEW n, NEW A \in SUBSET Timers, HeapHolds(a, cap, n, A),
         NEW e \in [Timers -> Nat], NEW h \in 1..n - 1, Exchanged(a, b, h, H!Parent(h)),
         OrderedAbove(a, n, e, h), e[a[h]] < e[a[H!Parent(h)]]
  PROVE  OrderedAbove(b, n, e, H!Parent(h))
<1> DEFINE E(i) == e[a[i]]
<1>1. n \in 0..cap /\ \A i \in 0..n - 1 : a[i] \in Timers /\ E(i) \in Nat
  BY DEF HeapHolds
<1>1a. PICK p : p = H!Parent(h)
  OBVIOUS
<1>2. \A i \in 0..n - 1 : e[b[i]] = IF i = h THEN E(p) ELSE IF i = p THEN E(h) ELSE E(i)
  <2>1. \A i \in 0..n - 1 : i \in DOMAIN a
    BY <1>1 DEF HeapHolds
  <2>2. \A i \in 0..n - 1 : b[i] = IF i = h THEN a[p] ELSE IF i = p THEN a[h] ELSE a[i]
    BY <2>1, <1>1a DEF Exchanged
  <2> QED
    BY <2>2
<1>3. \A i \in 1..n - 1 : H!Parent(i) \in 0..n - 1 /\ H!Parent(i) < i
  BY ParentIs, <1>1
<1>4. p \in 0..n - 1 /\ p < h /\ h \in 0..n - 1 /\ h # 0
  BY <1>1, <1>1a, <1>3
<1>5. /\ \A i \in 1..n - 1 : i # h => E(H!Parent(i)) <= E(i)
      /\ \A i \in 1..n - 1 : H!Parent(i) = h => E(p) <= E(i)
  BY <1>1a, <1>4 DEF OrderedAbove
<1>6. E(h) < E(p)
  BY <1>1a
<1> HIDE DEF E
<1>7. ASSUME NEW i \in 1..n - 1, i # p PROVE e[b[H!Parent(i)]] <= e[b[i]]
  <2>1. i \in 0..n - 1 /\ H!Parent(i) \in 0..n - 1 /\ H!Parent(i) < i
    BY <1>1, <1>3
  <2>2. CASE i = h
    BY <2>1, <2>2, <1>1, <1>1a, <1>2, <1>4, <1>6
  <2>3. CASE i # h /\ H!Parent(i) = p
    BY <2>1, <2>3, <1>1, <1>2, <1>4, <1>5, <1>6, <1>7
  <2>4. CASE i # h /\ H!Parent(i) = h
    BY <2>1, <2>4, <1>1, <1>2, <1>4, <1>5, <1>7
  <2>5. CASE i # h /\ H!Parent(i) # h /\ H!Parent(i) # p
    BY <2>1, <2>5, <1>1, <1>2, <1>4, <1>5, <1>7
  <2> QED
    BY <2>2, <2>3, <2>4, <2>5
<1>8. ASSUME NEW i \in 1..n - 1, p # 0, H!Parent(i) = p PROVE e[b[H!Parent(p)]] <= e[b[i]]
  <2>1. p \in 1..n - 1 /\ H!Parent(p) \in 0..n - 1 /\ H!Parent(p) < p
    BY <1>1, <1>3, <1>4, <1>8
  <2>2. i \in 0..n - 1 /\ i # p
    BY <1>1, <1>3, <1>8
  <2>3. E(H!Parent(p)) <= E(p)
    BY <2>1, <1>4, <1>5
  <2>4. CASE i = h
    BY <2>1, <2>2, <2>3, <2>4, <1>1, <1>2, <1>4
  <2>5. CASE i # h
    <3>1. E(p) <= E(i)
      BY <2>5, <1>5, <1>8
    <3> QED
      BY <2>1, <2>2, <2>3, <2>5, <3>1, <1>1, <1>2, <1>4
  <2> QED
    BY <2>4, <2>5
<1> QED
  BY <1>1a, <1>7, <1>8 DEF OrderedAbove

(* The inductive invariant: the array holds the timers that are allocated,  *)
(* as a heap.                                                               *)
HeapTypes ==
  /\ h_now \in 0..MaxTime /\ h_expire \in [Timers -> 0..MaxTime] /\ cb_func \in [Timers -> BOOLEAN]
  /\ h_allocated \in SUBSET Timers /\ cur_size \in Nat

HeapInv ==
  /\ HeapTypes
  /\ \E cap \in Nat \ {0} : HeapHolds(array, cap, cur_size, h_allocated)
  /\ HeapOrdered(array, cur_size, h_expire, 0)

(* What an array is. *)
LEMMA CapacityIs ==
  ASSUME NEW cap \in Nat, array \in [0..cap - 1 -> HeapPointer]
  PROVE  H!capacity = cap
<1>1. DOMAIN array = 0..cap - 1
  OBVIOUS
<1>2. Cardinality(0..cap - 1) = cap
  <2>1. 0 \in Int /\ cap - 1 \in Int
    OBVIOUS
  <2>2. Cardinality(0..cap - 1) = IF 0 > cap - 1 THEN 0 ELSE (cap - 1) - 0 + 1
    BY <2>1, FS_Interval
  <2> QED
    BY <2>2
<1> QED
  BY <1>1, <1>2 DEF H!capacity, H!Cardinality, Cardinality

(* resize makes room for one more. *)
LEMMA GrownIs ==
  ASSUME NEW cap \in Nat \ {0}, NEW A \in SUBSET Timers, HeapHolds(array, cap, cur_size, A), H!TimeHeapAssumption
  PROVE  \E c \in Nat \ {0} : /\ H!Grown \in [0..c - 1 -> HeapPointer] /\ cur_size < c
                              /\ \A i \in 0..cur_size - 1 : H!Grown[i] = array[i]
<1>1. H!capacity = cap /\ array \in [0..cap - 1 -> HeapPointer] /\ cur_size \in 0..cap
  BY CapacityIs DEF HeapHolds
<1>2. CASE cur_size < H!capacity
  BY <1>1, <1>2 DEF H!Grown
<1>3. CASE ~(cur_size < H!capacity)
  <2> DEFINE c == 2 * cap
             G == [i \in 0..c - 1 |-> IF i < cur_size THEN array[i] ELSE NULL]
  <2>1. H!Grown = G
    BY <1>1, <1>3 DEF H!Grown
  <2>2. c \in Nat \ {0} /\ cur_size < c /\ cur_size <= c
    BY <1>1
  <2>3. \A i \in 0..c - 1 : i < cur_size => i \in 0..cap - 1
    BY <1>1
  <2>4. G \in [0..c - 1 -> HeapPointer]
    BY <1>1, <2>3 DEF HeapPointer
  <2>5. \A i \in 0..cur_size - 1 : G[i] = array[i]
    BY <1>1, <2>2
  <2> HIDE DEF c, G
  <2> QED
    BY <2>1, <2>2, <2>4, <2>5
<1> QED
  BY <1>2, <1>3

(* The way up at[0], at[1], ... of a new timer, from the first free cell. *)
WayUp(e, at) ==
  /\ H!HoleFor(e) = [hole |-> at[cur_size], moved |-> {at[k] : k \in 0..cur_size} \ {at[cur_size]}]
  /\ at[0] = cur_size
  /\ \A k \in 1..cur_size : at[k] = IF at[k - 1] = 0 \/ h_expire[array[H!Parent(at[k - 1])]] <= e
                                    THEN at[k - 1] ELSE H!Parent(at[k - 1])

(* There is a way up. *)
LEMMA WayUpIs ==
  ASSUME NEW e, cur_size \in Nat
  PROVE  \E at : WayUp(e, at)
<1> DEFINE n == cur_size
           Up(h) == IF h = 0 \/ h_expire[array[H!Parent(h)]] <= e THEN h ELSE H!Parent(h)
           S == [k \in 0..n |-> Nat]
           f == [k \in 1..n |-> [h \in Nat |-> Up(h)]]
           F(g) == [k \in 0..n |-> IF k = 0 THEN n ELSE Up(g[k - 1])]
<1>1. \A h \in Nat : Up(h) \in Nat
  BY ParentIs
<1> HIDE DEF Up
<1>4. \A k \in 1..n : \A h \in S[k - 1] : f[k][h] \in S[k] /\ f[k][h] = Up(h)
  <2> SUFFICES ASSUME NEW k \in 1..n, NEW h \in S[k - 1]
               PROVE  f[k][h] \in S[k] /\ f[k][h] = Up(h)
    OBVIOUS
  <2>1. k - 1 \in 0..n /\ k \in 0..n
    OBVIOUS
  <2>2. S[k - 1] = Nat /\ S[k] = Nat
    BY <2>1
  <2>3. f[k] = [v \in Nat |-> Up(v)]
    OBVIOUS
  <2> HIDE DEF S, f
  <2>4. f[k][h] = Up(h)
    BY <2>2, <2>3
  <2> QED
    BY <2>2, <2>4, <1>1
<1>4a. n \in S[0]
  OBVIOUS
<1> HIDE DEF f
<1>5. \E g : g = F(g)
  <2>1a. PICK g : LoopGoes(n, S, n, f, g)
    <3> HIDE DEF S
    <3>1. \A k \in 1..n : \A w \in S[k - 1] : f[k][w] \in S[k]
      BY <1>4
    <3>2. n \in Nat
      OBVIOUS
    <3> HIDE DEF n
    <3> QED
      BY <1>4a, <3>1, <3>2, LoopValues
  <2>1. /\ g = [k \in 0..n |-> g[k]] /\ g[0] = n
        /\ \A k \in 0..n : g[k] \in S[k]
        /\ \A k \in 1..n : g[k] = f[k][g[k - 1]]
    <3> HIDE DEF S
    <3> QED
      BY <2>1a DEF LoopGoes
  <2>2. ASSUME NEW k \in 0..n PROVE g[k] = IF k = 0 THEN n ELSE Up(g[k - 1])
    <3>1. CASE k = 0
      BY <2>1, <3>1
    <3>2. CASE k # 0
      <4>1. k \in 1..n /\ k - 1 \in 0..n
        BY <3>2
      <4>2. g[k - 1] \in S[k - 1]
        BY <2>1, <4>1
      <4> HIDE DEF S
      <4> QED
        BY <2>1, <4>1, <4>2, <1>4, <3>2
    <3> QED
      BY <3>1, <3>2
  <2>3. g = F(g)
    BY <2>1, <2>2
  <2> QED
    BY <2>3
<1> DEFINE at == CHOOSE g : g = F(g)
<1>6. at = F(at)
  <2> HIDE DEF F
  <2> QED
    BY <1>5
<1>7. H!HoleFor(e) = [hole |-> at[n], moved |-> {at[k] : k \in 0..n} \ {at[n]}]
  BY DEF H!HoleFor, Up
<1> HIDE DEF at
<1>8. at[0] = n
  BY <1>6
<1>9. \A k \in 1..n : at[k] = Up(at[k - 1])
  <2> SUFFICES ASSUME NEW k \in 1..n PROVE at[k] = Up(at[k - 1])
    OBVIOUS
  <2>1. k \in 0..n /\ k # 0
    OBVIOUS
  <2> QED
    BY <2>1, <1>6
<1>10. WayUp(e, at)
  BY <1>7, <1>8, <1>9 DEF WayUp, Up
<1> QED
  BY <1>10

(* The array after k turns on the way up, with t in cell at[k]. *)
Risen(c, t, at, k) ==
  [i \in 0..c - 1 |-> IF i = at[k] THEN t
                      ELSE IF \E j \in 0..k : i = at[j] THEN array[H!Parent(i)] ELSE H!Grown[i]]

Rising(c, t, e, e2, at, k) ==
  /\ at[k] \in 0..cur_size /\ \A j \in 0..k : at[j] \in Nat /\ at[j] >= at[k]
  /\ at[k] <= cur_size - k \/ at[k] = 0 \/ h_expire[array[H!Parent(at[k])]] <= e
  /\ HeapHolds(Risen(c, t, at, k), c, cur_size + 1, h_allocated \cup {t})
  /\ OrderedAbove(Risen(c, t, at, k), cur_size + 1, e2, at[k])

(* A new timer starts in the first free cell ... *)
LEMMA RisesFrom ==
  ASSUME HeapInv, NEW t \in Timers \ h_allocated, NEW e \in Nat, NEW e2 \in [Timers -> Nat],
         e2 = [h_expire EXCEPT ![t] = e], NEW at, WayUp(e, at), NEW c \in Nat \ {0},
         H!Grown \in [0..c - 1 -> HeapPointer], cur_size < c,
         \A i \in 0..cur_size - 1 : H!Grown[i] = array[i]
  PROVE  Rising(c, t, e, e2, at, 0)
<1> DEFINE n == cur_size
           a == Risen(c, t, at, 0)
<1>1. n \in Nat /\ at[0] = n /\ n \in 0..c - 1 /\ h_allocated \in SUBSET Timers /\ h_expire \in [Timers -> Nat]
  BY DEF HeapInv, HeapTypes, WayUp
<1>2. PICK cap \in Nat \ {0} : HeapHolds(array, cap, n, h_allocated)
  BY DEF HeapInv
<1>3. \A i \in 0..n - 1 : i \in 0..c - 1 /\ i # n /\ array[i] \in h_allocated
  BY <1>1, <1>2 DEF HeapHolds
<1>4. a = [i \in 0..c - 1 |-> IF i = n THEN t ELSE H!Grown[i]]
  <2>1. \A i : (\E j \in 0..0 : i = at[j]) <=> i = n
    BY <1>1
  <2> QED
    BY <1>1, <2>1 DEF Risen
<1>5. a \in [0..c - 1 -> HeapPointer] /\ a[n] = t /\ \A i \in 0..n - 1 : a[i] = array[i]
  BY <1>1, <1>3, <1>4 DEF HeapPointer
<1> HIDE DEF a
<1>6. \A i \in 0..(n + 1) - 1 : i = n \/ i \in 0..n - 1
  BY <1>1
<1>7. HeapHolds(a, c, n + 1, h_allocated \cup {t})
  <2>1. \A i \in 0..(n + 1) - 1 : a[i] \in h_allocated \cup {t}
    BY <1>3, <1>5, <1>6
  <2>2. \A i, j \in 0..(n + 1) - 1 : i # j => a[i] # a[j]
    <3>1. \A i, j \in 0..n - 1 : i # j => array[i] # array[j]
      BY <1>2 DEF HeapHolds
    <3> QED
      BY <3>1, <1>3, <1>5, <1>6
  <2>3. ASSUME NEW x \in h_allocated \cup {t} PROVE \E i \in 0..(n + 1) - 1 : a[i] = x
    <3>1. CASE x = t
      <4>1. n \in 0..(n + 1) - 1
        BY <1>1
      <4> QED
        BY <4>1, <3>1, <1>5
    <3>2. CASE x \in h_allocated
      <4>1. PICK i \in 0..n - 1 : array[i] = x
        BY <3>2, <1>2 DEF HeapHolds
      <4>2. i \in 0..(n + 1) - 1
        BY <1>1
      <4> QED
        BY <4>1, <4>2, <1>5
    <3> QED
      BY <3>1, <3>2
  <2>4. n + 1 \in 0..c
    BY <1>1
  <2> QED
    BY <1>5, <2>1, <2>2, <2>3, <2>4 DEF HeapHolds
<1>8. OrderedAbove(a, n + 1, e2, n)
  <2>1. ASSUME NEW i \in 1..(n + 1) - 1 PROVE H!Parent(i) \in 0..n - 1
    <3>1. i \in Nat \ {0} /\ i <= n
      BY <1>1
    <3> QED
      BY <3>1, <1>1, ParentBelow
  <2>2. \A x \in h_allocated : e2[x] = h_expire[x]
    BY <1>1
  <2>3. ASSUME NEW i \in 1..(n + 1) - 1, i # n PROVE e2[a[H!Parent(i)]] <= e2[a[i]]
    <3>1. i \in 1..n - 1 /\ i \in 0..n - 1 /\ H!Parent(i) \in 0..n - 1 /\ H!Parent(i) >= 0
      BY <1>1, <2>1, <2>3
    <3>2. h_expire[array[H!Parent(i)]] <= h_expire[array[i]]
      BY <3>1 DEF HeapInv, HeapOrdered
    <3> QED
      BY <3>1, <3>2, <2>2, <1>3, <1>5
  <2>4. \A i \in 1..(n + 1) - 1 : H!Parent(i) # n
    BY <1>1, <2>1
  <2> QED
    BY <2>3, <2>4 DEF OrderedAbove
<1>9. \A j \in 0..0 : at[j] \in Nat /\ at[j] >= n
  BY <1>1
<1> QED
  BY <1>1, <1>7, <1>8, <1>9 DEF Rising, a

(* ... takes one turn ... *)
LEMMA RisesOn ==
  ASSUME HeapInv, NEW t \in Timers \ h_allocated, NEW e \in Nat, NEW e2 \in [Timers -> Nat],
         e2 = [h_expire EXCEPT ![t] = e], NEW at, WayUp(e, at), NEW c \in Nat \ {0},
         H!Grown \in [0..c - 1 -> HeapPointer], cur_size < c,
         \A i \in 0..cur_size - 1 : H!Grown[i] = array[i],
         NEW k \in 1..cur_size, Rising(c, t, e, e2, at, k - 1)
  PROVE  Rising(c, t, e, e2, at, k)
<1> DEFINE n == cur_size
           a == Risen(c, t, at, k - 1)
           b == Risen(c, t, at, k)
           h == at[k - 1]
           p == H!Parent(h)
           A == h_allocated \cup {t}
<1>1. n \in Nat /\ h_allocated \in SUBSET Timers /\ h_expire \in [Timers -> Nat] /\ A \in SUBSET Timers
  BY DEF HeapInv, HeapTypes
<1>2. PICK cap \in Nat \ {0} : HeapHolds(array, cap, n, h_allocated)
  BY DEF HeapInv
<1>3. \A i \in 0..n - 1 : array[i] \in h_allocated /\ array[i] # t
  BY <1>2 DEF HeapHolds
<1>4. /\ h \in 0..n /\ \A j \in 0..k - 1 : at[j] \in Nat /\ at[j] >= h
      /\ h <= n - (k - 1) \/ h = 0 \/ h_expire[array[H!Parent(h)]] <= e
      /\ HeapHolds(a, c, n + 1, A) /\ OrderedAbove(a, n + 1, e2, h)
  BY DEF Rising
<1>5. at[k] = IF h = 0 \/ h_expire[array[H!Parent(h)]] <= e THEN h ELSE H!Parent(h)
  BY DEF WayUp
<1>6. \A i : (\E j \in 0..k : i = at[j]) <=> (i = at[k] \/ \E j \in 0..k - 1 : i = at[j])
  <2>1. \A j \in 0..k : j = k \/ j \in 0..k - 1
    BY <1>1
  <2>2. k \in 0..k /\ \A j \in 0..k - 1 : j \in 0..k
    BY <1>1
  <2> QED
    BY <2>1, <2>2
<1>6a. \E j \in 0..k - 1 : h = at[j]
  <2>1. k - 1 \in 0..k - 1
    BY <1>1
  <2> QED
    BY <2>1
<1>7. CASE h = 0 \/ h_expire[array[H!Parent(h)]] <= e
  <2>1. at[k] = h
    BY <1>5, <1>7
  <2>2. b = a
    BY <1>6, <1>6a, <2>1 DEF Risen
  <2>3. \A j \in 0..k : at[j] \in Nat /\ at[j] >= h
    <3>1. \A j \in 0..k : j = k \/ j \in 0..k - 1
      BY <1>1
    <3> QED
      BY <3>1, <2>1, <1>4
  <2> HIDE DEF a, b, A, h
  <2>4. at[k] = 0 \/ h_expire[array[H!Parent(at[k])]] <= e
    BY <1>7, <2>1
  <2>5. HeapHolds(b, c, n + 1, A) /\ OrderedAbove(b, n + 1, e2, at[k])
    BY <1>4, <2>1, <2>2
  <2>6. at[k] \in 0..n /\ \A j \in 0..k : at[j] \in Nat /\ at[j] >= at[k]
    BY <1>4, <2>1, <2>3
  <2> QED
    BY <2>4, <2>5, <2>6 DEF Rising, b, A
<1>8. CASE ~(h = 0 \/ h_expire[array[H!Parent(h)]] <= e)
  <2>1. at[k] = p /\ h \in 1..n /\ ~(h_expire[array[p]] <= e)
    BY <1>4, <1>5, <1>8
  <2>2. p \in 0..n - 1 /\ p < h /\ p \in 0..c - 1 /\ h \in 0..c - 1 /\ h \in Nat /\ h # p
    <3>1. PICK g : g = h
      OBVIOUS
    <3>2. g \in Nat \ {0} /\ g <= n
      BY <3>1, <2>1, <1>1
    <3>3. H!Parent(g) \in 0..g - 1
      BY <3>2, ParentBelow
    <3>4. p = H!Parent(g)
      BY <3>1
    <3> HIDE DEF p, h
    <3> QED
      BY <3>1, <3>2, <3>3, <3>4, <1>1
  <2> HIDE DEF p
  <2>3. \A j \in 0..k - 1 : at[j] # p
    BY <1>4, <2>2
  <2>4. a[p] = array[p] /\ a[h] = t
    BY <2>2, <2>3 DEF Risen
  <2>5. ASSUME NEW i \in 0..c - 1 PROVE b[i] = IF i = h THEN a[p] ELSE IF i = p THEN a[h] ELSE a[i]
    <3>1. b[i] = IF i = p THEN t ELSE IF \E j \in 0..k : i = at[j] THEN array[H!Parent(i)] ELSE H!Grown[i]
      BY <2>1 DEF Risen
    <3>2. a[i] = IF i = h THEN t ELSE IF \E j \in 0..k - 1 : i = at[j] THEN array[H!Parent(i)] ELSE H!Grown[i]
      BY DEF Risen
    <3>3. CASE i = h
      <4>1. b[i] = array[p]
        BY <3>1, <3>3, <1>6, <1>6a, <2>2 DEF p
      <4> QED
        BY <4>1, <3>3, <2>4
    <3>4. CASE i # h
      BY <3>1, <3>2, <3>4, <1>6, <2>1, <2>4
    <3> QED
      BY <3>3, <3>4
  <2>6. Exchanged(a, b, h, p) /\ b = [i \in DOMAIN b |-> b[i]]
    <3>1. DOMAIN a = 0..c - 1 /\ DOMAIN b = 0..c - 1 /\ b = [i \in DOMAIN b |-> b[i]]
      BY DEF Risen
    <3> HIDE DEF a, b
    <3> QED
      BY <3>1, <2>5 DEF Exchanged
  <2>7. e2[a[h]] < e2[a[p]]
    <3>1. e2[t] = e /\ e2[array[p]] = h_expire[array[p]] /\ h_expire[array[p]] \in Nat
      BY <1>1, <1>3, <2>2
    <3> QED
      BY <3>1, <2>1, <2>4
  <2>8. h \in 1..(n + 1) - 1 /\ h \in 0..(n + 1) - 1 /\ p \in 0..(n + 1) - 1
    BY <2>1, <2>2, <1>1
  <2> HIDE DEF a, b, A, h
  <2>9. HeapHolds(b, c, n + 1, A)
    BY <1>1, <1>4, <2>6, <2>8, HoldsExchanged
  <2>10. OrderedAbove(b, n + 1, e2, p)
    BY <1>1, <1>4, <2>6, <2>7, <2>8, RisesOne DEF p
  <2>11. \A j \in 0..k : at[j] \in Nat /\ at[j] >= p
    <3>1. \A j \in 0..k : j = k \/ j \in 0..k - 1
      BY <1>1
    <3> QED
      BY <3>1, <2>1, <2>2, <1>4
  <2>12. p <= n - k \/ p = 0 \/ h_expire[array[H!Parent(p)]] <= e
    BY <1>1, <1>4, <1>8, <2>2
  <2>13. p \in 0..n
    BY <2>2, <1>1
  <2> QED
    BY <2>1, <2>9, <2>10, <2>11, <2>12, <2>13 DEF Rising, b, A
<1> QED
  BY <1>7, <1>8

(* ... and ends below the first timer that does not expire after it. *)
LEMMA AddedHeap ==
  ASSUME H!TimeHeapAssumption, HeapInv, NEW t \in Timers, NEW e \in Nat, H!AddTimer(t, e)
  PROVE  /\ \E c \in Nat \ {0} : HeapHolds(array', c, cur_size + 1, h_allocated \cup {t})
         /\ HeapOrdered(array', cur_size + 1, h_expire', 0)
<1> DEFINE n == cur_size
           e2 == h_expire'
<1>1. n \in Nat /\ h_allocated \in SUBSET Timers /\ h_expire \in [Timers -> Nat] /\ t \in Timers \ h_allocated
  BY DEF HeapInv, HeapTypes, H!AddTimer, H!TimeHeapAssumption
<1>2. e2 = [h_expire EXCEPT ![t] = e] /\ e2 \in [Timers -> Nat]
  BY <1>1 DEF H!AddTimer
<1>3. PICK cap \in Nat \ {0} : HeapHolds(array, cap, n, h_allocated)
  BY DEF HeapInv
<1>4. PICK c \in Nat \ {0} : /\ H!Grown \in [0..c - 1 -> HeapPointer] /\ n < c
                             /\ \A i \in 0..n - 1 : H!Grown[i] = array[i]
  BY <1>1, <1>3, GrownIs
<1>5. PICK at : WayUp(e, at)
  BY <1>1, WayUpIs
<1> HIDE DEF e2
<1> DEFINE Q == {k \in 0..n : Rising(c, t, e, e2, at, k)}
<1>6. n \in Q
  <2>1. 0 \in Q
    <3>1. Rising(c, t, e, e2, at, 0)
      BY <1>1, <1>2, <1>4, <1>5, RisesFrom
    <3> QED
      BY <3>1, <1>1
  <2>2. ASSUME NEW k \in 1..n, k - 1 \in Q PROVE k \in Q
    <3>1. Rising(c, t, e, e2, at, k - 1)
      BY <2>2
    <3>2. Rising(c, t, e, e2, at, k)
      BY <3>1, <1>1, <1>2, <1>4, <1>5, RisesOn
    <3> QED
      BY <3>2, <1>1
  <2> HIDE DEF Q
  <2>3. \A k \in 0..n : k \in Q
    BY <1>1, <2>1, <2>2, LoopInduction
  <2> QED
    BY <2>3, <1>1
<1>7. Rising(c, t, e, e2, at, n)
  BY <1>6
<1> DEFINE b == Risen(c, t, at, n)
           h == at[n]
<1>8. array' = b
  <2>1. H!HoleFor(e).hole = h /\ H!HoleFor(e).moved = {at[k] : k \in 0..n} \ {h}
    BY <1>5 DEF WayUp
  <2>2. DOMAIN H!Grown = 0..c - 1
    BY <1>4
  <2>3. array' = [i \in DOMAIN H!Grown |-> IF i = H!HoleFor(e).hole THEN t
                                        ELSE IF i \in H!HoleFor(e).moved THEN array[H!Parent(i)]
                                        ELSE H!Grown[i]]
    BY DEF H!AddTimer
  <2> QED
    BY <2>1, <2>2, <2>3 DEF Risen
<1> HIDE DEF b
<1>9. /\ h \in 0..n /\ (h <= n - n \/ h = 0 \/ h_expire[array[H!Parent(h)]] <= e)
      /\ HeapHolds(b, c, n + 1, h_allocated \cup {t}) /\ OrderedAbove(b, n + 1, e2, h)
      /\ \A j \in 0..n : at[j] >= h /\ at[j] \in Nat
  BY <1>7 DEF Rising, b
<1>10. ASSUME NEW i \in 1..(n + 1) - 1, i = h PROVE e2[b[H!Parent(i)]] <= e2[b[i]]
  <2>1. h_expire[array[H!Parent(h)]] <= e /\ H!Parent(h) \in 0..n - 1 /\ H!Parent(h) < h /\ h \in 0..c - 1
    <3>1. PICK g : g = h
      OBVIOUS
    <3>2. g \in Nat \ {0} /\ g <= n
      BY <3>1, <1>1, <1>10
    <3>3. H!Parent(g) \in 0..g - 1
      BY <3>2, ParentBelow
    <3>4. h_expire[array[H!Parent(g)]] <= e
      BY <3>1, <3>2, <1>1, <1>9
    <3> HIDE DEF h
    <3> QED
      BY <3>1, <3>2, <3>3, <3>4, <1>1, <1>4
  <2>2. b[h] = t
    BY <2>1 DEF b, Risen
  <2>3. b[H!Parent(h)] = array[H!Parent(h)]
    <3>1. PICK p : p = H!Parent(h)
      OBVIOUS
    <3>2. p \in 0..c - 1 /\ p # h /\ \A j \in 0..n : at[j] # p
      BY <3>1, <2>1, <1>1, <1>4, <1>9
    <3>3. b[p] = H!Grown[p]
      BY <3>2 DEF b, Risen
    <3> QED
      BY <3>1, <3>3, <2>1, <1>4
  <2>4. array[H!Parent(h)] \in h_allocated
    BY <2>1, <1>3 DEF HeapHolds
  <2>5. e2[t] = e /\ e2[array[H!Parent(h)]] = h_expire[array[H!Parent(h)]]
    BY <2>4, <1>1, <1>2
  <2> QED
    BY <2>1, <2>2, <2>3, <2>5, <1>10
<1>11. HeapOrdered(b, n + 1, e2, 0)
  BY <1>9, <1>10 DEF HeapOrdered, OrderedAbove
<1> QED
  BY <1>8, <1>9, <1>11 DEF e2
-----------------------------------------------------------------------------
(* The time a timer has left, as the set of timers knows it. *)
LeftOf(t) ==
  IF t \notin H!Pending THEN -1 ELSE IF h_expire[t] > h_now THEN h_expire[t] - h_now ELSE 0

(* What it is. *)
LEMMA LeftIs ==
  ASSUME HeapTypes, NEW t \in Timers
  PROVE  /\ LeftOf(t) \in 0..MaxTime \cup {-1} \/ MaxTime \notin Nat
         /\ LeftOf(t) = -1 <=> t \notin H!Pending
         /\ LeftOf(t) = 0 <=> t \in H!Pending /\ h_expire[t] <= h_now
         /\ LeftOf(t) > 0 => LeftOf(t) = h_expire[t] - h_now /\ t \in H!Pending
BY DEF HeapTypes, LeftOf

(* An array that is given is made a heap. *)
LEMMA HeapInvInit ==
  ASSUME H!TimeHeapAssumption, H!Init
  PROVE  HeapInv /\ H!Abstract!InitFilled
<1>1. MaxTime \in Nat /\ Cap \subseteq Nat \ {0}
  BY DEF H!TimeHeapAssumption
<1>2. HeapInv
  <2>1. PICK cap \in Cap :
          \/ H!MadeEmpty(cap)
          \/ \E n \in 1..cap :
             \E init_array \in H!Injection(0..n - 1, Timers) :
             \E e \in {f \in [Timers -> 0..MaxTime] :
                        \A t \in Timers \ H!Range(init_array) : f[t] = 0} :
               H!MadeFrom(cap, n, init_array, e)
    BY DEF H!Init
  <2>2. cap \in Nat \ {0}
    BY <1>1
  <2>3. h_now \in 0..MaxTime /\ cb_func \in [Timers -> BOOLEAN]
    BY <1>1 DEF H!Init
  <2>4. CASE H!MadeEmpty(cap)
    <3>1. h_expire \in [Timers -> 0..MaxTime] /\ h_allocated = {} /\ cur_size = 0
      BY <2>4, <1>1 DEF H!MadeEmpty
    <3>2. HeapHolds(array, cap, 0, {})
      BY <2>2, <2>4 DEF H!MadeEmpty, HeapHolds, HeapPointer
    <3>3. HeapOrdered(array, 0, h_expire, 0)
      BY DEF HeapOrdered
    <3> QED
      BY <2>2, <2>3, <3>1, <3>2, <3>3 DEF HeapInv, HeapTypes
  <2>5. ASSUME NEW n \in 1..cap, NEW init_array \in H!Injection(0..n - 1, Timers),
               NEW e \in [Timers -> 0..MaxTime], H!MadeFrom(cap, n, init_array, e)
        PROVE  HeapInv
    <3> DEFINE A == {init_array[i] : i \in 0..n - 1}
               cells == [i \in 0..cap - 1 |-> IF i < n THEN init_array[i] ELSE NULL]
    <3>1. init_array \in [0..n - 1 -> Timers] /\ \A i, j \in 0..n - 1 : init_array[i] = init_array[j] => i = j
      BY DEF H!Injection, H!IsInjective
    <3>2. n \in Nat \ {0} /\ n \in 0..cap /\ e \in [Timers -> Nat] /\ A \in SUBSET Timers
      BY <1>1, <2>2, <3>1
    <3>3. HeapHolds(cells, cap, n, A)
      <4>1. \A i \in 0..n - 1 : i \in 0..cap - 1 /\ i < n
        BY <2>2, <3>2
      <4>2. \A i \in 0..cap - 1 : i < n => i \in 0..n - 1
        BY <2>2, <3>2
      <4>3. cells \in [0..cap - 1 -> HeapPointer]
        BY <4>2, <3>1 DEF HeapPointer
      <4>4. \A i \in 0..n - 1 : cells[i] = init_array[i]
        BY <4>1
      <4> HIDE DEF cells
      <4> QED
        BY <4>3, <4>4, <3>1, <3>2 DEF HeapHolds
    <3> HIDE DEF cells, A
    <3>4. HeapHolds(H!Heapified(n, e, cells), cap, n, A) /\ HeapOrdered(H!Heapified(n, e, cells), n, e, 0)
      BY <2>2, <3>2, <3>3, Heapifies
    <3>5. h_expire = e /\ h_allocated = A /\ cur_size = n /\ array = H!Heapified(n, e, cells)
      BY <2>5 DEF H!MadeFrom, A, cells
    <3> QED
      BY <2>2, <2>3, <3>2, <3>4, <3>5 DEF HeapInv, HeapTypes
  <2> QED
    BY <2>1, <2>4, <2>5
<1>3. H!Abstract!InitFilled
  <2>1. \A t \in Timers : LeftOf(t) \in 0..MaxTime \cup {-1}
    BY <1>1, <1>2, LeftIs DEF HeapInv
  <2>2. [t \in Timers |-> LeftOf(t)] \in [Timers -> 0..MaxTime \cup {-1}]
    BY <2>1
  <2>3. h_fired = {}
    BY DEF H!Init
  <2> QED
    BY <2>2, <2>3 DEF H!Abstract!InitFilled, H!Abstract!Unset, LeftOf
<1> QED
  BY <1>2, <1>3

(* add_timer *)
LEMMA HeapInvAdd ==
  ASSUME H!TimeHeapAssumption, HeapInv, NEW t \in Timers, NEW e \in h_now..MaxTime, H!AddTimer(t, e)
  PROVE  HeapInv' /\ e - h_now \in 0..MaxTime /\ H!Abstract!Add(t, e - h_now)
<1>1. MaxTime \in Nat /\ h_now \in 0..MaxTime /\ h_expire \in [Timers -> 0..MaxTime] /\ cb_func \in [Timers -> BOOLEAN]
      /\ h_allocated \in SUBSET Timers /\ cur_size \in Nat /\ e \in Nat /\ e \in 0..MaxTime
  BY DEF HeapInv, HeapTypes, H!TimeHeapAssumption
<1>2. /\ t \notin h_allocated /\ h_allocated' = h_allocated \cup {t} /\ h_expire' = [h_expire EXCEPT ![t] = e]
      /\ cb_func' = [cb_func EXCEPT ![t] = TRUE] /\ cur_size' = cur_size + 1 /\ h_fired' = {} /\ h_now' = h_now
  BY DEF H!AddTimer
<1>3. HeapTypes'
  BY <1>1, <1>2 DEF HeapTypes
<1>4. HeapInv'
  BY <1>1, <1>2, <1>3, AddedHeap DEF HeapInv
<1>5. H!Pending' = H!Pending \cup {t} /\ t \notin H!Pending
  BY <1>1, <1>2 DEF H!Pending
<1>6. ASSUME NEW x \in Timers PROVE LeftOf(x)' = IF x = t THEN e - h_now ELSE LeftOf(x)
  BY <1>1, <1>2, <1>5 DEF LeftOf
<1>7. H!Abstract!Add(t, e - h_now)
  <2>1. LeftOf(t) = -1
    BY <1>5 DEF LeftOf
  <2>2. [x \in Timers |-> LeftOf(x)]' = [[x \in Timers |-> LeftOf(x)] EXCEPT ![t] = e - h_now]
    BY <1>6
  <2> QED
    BY <1>2, <2>1, <2>2 DEF H!Abstract!Add, H!Abstract!Pending, H!Abstract!Unset, LeftOf
<1> QED
  BY <1>1, <1>4, <1>7

(* del_timer: the first of a timer takes it from the set, and a second has  *)
(* nothing to do.                                                           *)
LEMMA HeapInvDel ==
  ASSUME H!TimeHeapAssumption, HeapInv, NEW t \in Timers, H!DelTimer(t)
  PROVE  HeapInv' /\ (H!Abstract!Cancel(t) \/ H!Abstract!NothingToDo)
<1>1. MaxTime \in Nat /\ h_now \in 0..MaxTime /\ h_expire \in [Timers -> 0..MaxTime] /\ cb_func \in [Timers -> BOOLEAN]
      /\ h_allocated \in SUBSET Timers /\ cur_size \in Nat
  BY DEF HeapInv, HeapTypes, H!TimeHeapAssumption
<1>2. /\ t \in h_allocated /\ cb_func' = [cb_func EXCEPT ![t] = FALSE] /\ h_fired' = {}
      /\ array' = array /\ cur_size' = cur_size /\ h_expire' = h_expire /\ h_allocated' = h_allocated /\ h_now' = h_now
  BY DEF H!DelTimer, H!heapVars
<1>3. HeapTypes'
  BY <1>1, <1>2 DEF HeapTypes
<1>4. HeapInv'
  BY <1>2, <1>3 DEF HeapInv
<1>5. H!Pending' = H!Pending \ {t}
  BY <1>1, <1>2 DEF H!Pending
<1>6. ASSUME NEW x \in Timers PROVE LeftOf(x)' = IF x = t THEN -1 ELSE LeftOf(x)
  BY <1>1, <1>2, <1>5 DEF LeftOf
<1>7. CASE t \in H!Pending
  <2>1. LeftOf(t) # -1
    BY <1>1, <1>7 DEF LeftOf
  <2>2. [x \in Timers |-> LeftOf(x)]' = [[x \in Timers |-> LeftOf(x)] EXCEPT ![t] = -1]
    BY <1>6
  <2>3. H!Abstract!Cancel(t)
    BY <1>2, <2>1, <2>2 DEF H!Abstract!Cancel, H!Abstract!Pending, H!Abstract!Unset, LeftOf
  <2> QED
    BY <1>4, <2>3
<1>8. CASE t \notin H!Pending
  <2>1. LeftOf(t) = -1
    BY <1>8 DEF LeftOf
  <2>2. [x \in Timers |-> LeftOf(x)]' = [x \in Timers |-> LeftOf(x)]
    BY <1>6, <2>1
  <2>3. H!Abstract!NothingToDo
    BY <1>2, <2>2 DEF H!Abstract!NothingToDo, LeftOf
  <2> QED
    BY <1>4, <2>3
<1> QED
  BY <1>7, <1>8

(* The order is that of the timers in the array. *)
LEMMA OrderedSame ==
  ASSUME NEW cap \in Nat, NEW n \in Nat, NEW A, NEW a, HeapHolds(a, cap, n, A),
         NEW e, NEW e2, \A x \in A : e2[x] = e[x], HeapOrdered(a, n, e, 0)
  PROVE  HeapOrdered(a, n, e2, 0)
<1> SUFFICES ASSUME NEW i \in 1..n - 1, H!Parent(i) >= 0 PROVE e2[a[H!Parent(i)]] <= e2[a[i]]
  BY DEF HeapOrdered
<1>1. H!Parent(i) \in 0..n - 1 /\ i \in 0..n - 1
  <2>1. i \in Nat \ {0}
    OBVIOUS
  <2> QED
    BY <2>1, ParentBelow
<1>2. a[H!Parent(i)] \in A /\ a[i] \in A
  BY <1>1 DEF HeapHolds
<1>3. e[a[H!Parent(i)]] <= e[a[i]]
  BY DEF HeapOrdered
<1> QED
  BY <1>2, <1>3

(* delete *)
LEMMA Deleted ==
  ASSUME H!TimeHeapAssumption, HeapTypes, NEW ts \in SUBSET h_allocated, H!Delete(ts), h_now' = h_now, cur_size' \in Nat
  PROVE  /\ HeapTypes' /\ h_allocated' = h_allocated \ ts
         /\ \A x \in Timers \ ts : h_expire'[x] = h_expire[x]
         /\ \A x \in Timers : LeftOf(x)' = IF x \in ts THEN -1 ELSE LeftOf(x)
<1>1. MaxTime \in Nat /\ h_now \in 0..MaxTime /\ h_expire \in [Timers -> 0..MaxTime] /\ cb_func \in [Timers -> BOOLEAN]
      /\ h_allocated \in SUBSET Timers
  BY DEF HeapTypes, H!TimeHeapAssumption
<1>2. /\ h_allocated' = h_allocated \ ts
      /\ h_expire' = [t \in Timers |-> IF t \in ts THEN 0 ELSE h_expire[t]]
      /\ cb_func' = [t \in Timers |-> t \in ts \/ cb_func[t]]
  BY DEF H!Delete
<1>3. \A x \in Timers : h_expire'[x] = IF x \in ts THEN 0 ELSE h_expire[x]
  BY <1>2
<1>4. \A x \in Timers : x \notin ts => cb_func'[x] = cb_func[x]
  BY <1>1, <1>2
<1>5. HeapTypes'
  <2>1. h_expire' \in [Timers -> 0..MaxTime]
    BY <1>1, <1>2
  <2>2. cb_func' \in [Timers -> BOOLEAN]
    BY <1>2
  <2> QED
    BY <1>1, <1>2, <2>1, <2>2 DEF HeapTypes
<1>6. H!Pending' = H!Pending \ ts
  BY <1>1, <1>2, <1>4 DEF H!Pending
<1>7. ASSUME NEW x \in Timers PROVE LeftOf(x)' = IF x \in ts THEN -1 ELSE LeftOf(x)
  BY <1>3, <1>6 DEF LeftOf
<1> QED
  BY <1>2, <1>3, <1>5, <1>7

(* pop_timer *)
LEMMA HeapInvPop ==
  ASSUME H!TimeHeapAssumption, HeapInv, H!PopTimer
  PROVE  HeapInv' /\ ((\E t \in Timers : H!Abstract!Cancel(t)) \/ H!Abstract!NothingToDo)
<1>1. HeapTypes /\ h_expire \in [Timers -> Nat] /\ h_allocated \in SUBSET Timers /\ cur_size \in Nat \ {0}
  BY DEF HeapInv, HeapTypes, H!TimeHeapAssumption, H!PopTimer
<1>2. PICK cap \in Nat \ {0} : HeapHolds(array, cap, cur_size, h_allocated) /\ HeapOrdered(array, cur_size, h_expire, 0)
  BY DEF HeapInv
<1>3. PICK t : t = array[0]
  OBVIOUS
<1>4. /\ array' = H!Pop(array, cur_size) /\ cur_size' = cur_size - 1 /\ H!Delete({t}) /\ h_fired' = {} /\ h_now' = h_now
  BY <1>3 DEF H!PopTimer
<1>5. /\ t \in h_allocated /\ t \in Timers
      /\ HeapHolds(array', cap, cur_size - 1, h_allocated \ {t}) /\ HeapOrdered(array', cur_size - 1, h_expire, 0)
  BY <1>1, <1>2, <1>3, <1>4, Pops
<1>6. {t} \in SUBSET h_allocated /\ cur_size' \in Nat
  BY <1>1, <1>4, <1>5
<1>7. /\ HeapTypes' /\ h_allocated' = h_allocated \ {t}
      /\ \A x \in Timers \ {t} : h_expire'[x] = h_expire[x]
      /\ \A x \in Timers : LeftOf(x)' = IF x \in {t} THEN -1 ELSE LeftOf(x)
  BY <1>1, <1>4, <1>6, Deleted
<1>8. HeapOrdered(array', cur_size', h_expire', 0)
  <2>1. \A x \in h_allocated \ {t} : h_expire'[x] = h_expire[x]
    BY <1>1, <1>7
  <2> QED
    BY <1>4, <1>5, <1>6, <2>1, OrderedSame
<1>9. HeapInv'
  BY <1>4, <1>5, <1>7, <1>8 DEF HeapInv
<1>10. ASSUME NEW x \in Timers PROVE LeftOf(x)' = IF x = t THEN -1 ELSE LeftOf(x)
  BY <1>7
<1>11. CASE t \in H!Pending
  <2>1. LeftOf(t) # -1
    BY <1>1, <1>5, <1>11, LeftIs
  <2>2. [x \in Timers |-> LeftOf(x)]' = [[x \in Timers |-> LeftOf(x)] EXCEPT ![t] = -1]
    BY <1>10
  <2>3. H!Abstract!Cancel(t)
    BY <1>4, <1>5, <2>1, <2>2 DEF H!Abstract!Cancel, H!Abstract!Pending, H!Abstract!Unset, LeftOf
  <2> QED
    BY <1>5, <1>9, <2>3
<1>12. CASE t \notin H!Pending
  <2>1. LeftOf(t) = -1
    BY <1>12 DEF LeftOf
  <2>2. [x \in Timers |-> LeftOf(x)]' = [x \in Timers |-> LeftOf(x)]
    BY <1>10, <2>1
  <2>3. H!Abstract!NothingToDo
    BY <1>4, <2>2 DEF H!Abstract!NothingToDo, LeftOf
  <2> QED
    BY <1>9, <2>3
<1> QED
  BY <1>11, <1>12

(* One turn of tick's loop. *)
PopOne(w) ==
  IF w.n = 0 \/ h_expire[w.array[0]] > h_now THEN w
  ELSE [array |-> H!Pop(w.array, w.n), n |-> w.n - 1, popped |-> w.popped \cup {w.array[0]}]

(* What was popped had expired; the rest is a heap. *)
Popping(cap, w) ==
  /\ w \in [array : [0..cap - 1 -> HeapPointer], n : 0..cur_size, popped : SUBSET h_allocated]
  /\ HeapHolds(w.array, cap, w.n, h_allocated \ w.popped) /\ HeapOrdered(w.array, w.n, h_expire, 0)
  /\ \A t \in w.popped : h_expire[t] <= h_now

(* One turn of tick keeps this, and pops a timer or stops. *)
LEMMA PopOneStep ==
  ASSUME H!TimeHeapAssumption, HeapInv, NEW cap \in Nat \ {0}, NEW w, Popping(cap, w)
  PROVE  /\ Popping(cap, PopOne(w))
         /\ \/ PopOne(w).n < w.n
            \/ (w.n = 0 \/ h_expire[w.array[0]] > h_now) /\ PopOne(w) = w
<1>1. h_expire \in [Timers -> Nat] /\ h_allocated \in SUBSET Timers /\ h_now \in Nat /\ cur_size \in Nat
  BY DEF HeapInv, HeapTypes, H!TimeHeapAssumption
<1>2. /\ w.array \in [0..cap - 1 -> HeapPointer] /\ w.n \in 0..cur_size /\ w.popped \in SUBSET h_allocated
      /\ HeapHolds(w.array, cap, w.n, h_allocated \ w.popped) /\ HeapOrdered(w.array, w.n, h_expire, 0)
      /\ \A t \in w.popped : h_expire[t] <= h_now
  BY DEF Popping
<1>3. CASE w.n = 0 \/ h_expire[w.array[0]] > h_now
  BY <1>3 DEF PopOne
<1>4. CASE ~(w.n = 0 \/ h_expire[w.array[0]] > h_now)
  <2> DEFINE u == PopOne(w)
             t == w.array[0]
  <2>1. u = [array |-> H!Pop(w.array, w.n), n |-> w.n - 1, popped |-> w.popped \cup {t}]
    BY <1>4 DEF PopOne
  <2>2. u.array = H!Pop(w.array, w.n) /\ u.n = w.n - 1 /\ u.popped = w.popped \cup {t}
    BY <2>1
  <2>3. w.n \in Nat \ {0} /\ h_allocated \ w.popped \in SUBSET Timers
    BY <1>1, <1>2, <1>4
  <2>4. /\ t \in h_allocated \ w.popped
        /\ HeapHolds(H!Pop(w.array, w.n), cap, w.n - 1, (h_allocated \ w.popped) \ {t})
        /\ HeapOrdered(H!Pop(w.array, w.n), w.n - 1, h_expire, 0)
    BY <1>1, <1>2, <2>3, Pops
  <2>5. (h_allocated \ w.popped) \ {t} = h_allocated \ (w.popped \cup {t})
    OBVIOUS
  <2>6. h_expire[t] <= h_now
    BY <1>1, <1>4, <2>4
  <2>7. H!Pop(w.array, w.n) \in [0..cap - 1 -> HeapPointer] /\ w.n - 1 \in 0..cur_size
        /\ w.popped \cup {t} \in SUBSET h_allocated
    BY <1>1, <1>2, <2>3, <2>4 DEF HeapHolds
  <2> HIDE DEF t
  <2>8. u \in [array : [0..cap - 1 -> HeapPointer], n : 0..cur_size, popped : SUBSET h_allocated]
    BY <2>1, <2>7
  <2> HIDE DEF u
  <2>9. Popping(cap, u)
    BY <1>2, <2>2, <2>4, <2>5, <2>6, <2>8 DEF Popping
  <2>10. u.n < w.n
    BY <2>2, <2>3
  <2> QED
    BY <2>9, <2>10 DEF u
<1> QED
  BY <1>3, <1>4

(* tick's loop ends with all that has expired. *)
LEMMA Ticked ==
  ASSUME H!TimeHeapAssumption, HeapInv, H!Tick
  PROVE  \E cap \in Nat \ {0}, ts \in SUBSET h_allocated :
           /\ HeapHolds(array', cap, cur_size', h_allocated \ ts) /\ HeapOrdered(array', cur_size', h_expire, 0)
           /\ cur_size' \in Nat
           /\ H!Delete(ts) /\ h_fired' = {t \in ts : cb_func[t]} /\ h_now' = h_now
           /\ \A t \in h_allocated : t \in ts <=> h_expire[t] <= h_now
<1> DEFINE n == cur_size
           z == [array |-> array, n |-> n, popped |-> {}]
<1>1. h_expire \in [Timers -> Nat] /\ h_allocated \in SUBSET Timers /\ h_now \in Nat /\ n \in Nat
  BY DEF HeapInv, HeapTypes, H!TimeHeapAssumption
<1>2. PICK cap \in Nat \ {0} : HeapHolds(array, cap, n, h_allocated) /\ HeapOrdered(array, n, h_expire, 0)
  BY DEF HeapInv
<1> DEFINE V(k) == {w \in [array : [0..cap - 1 -> HeapPointer], n : 0..n, popped : SUBSET h_allocated] :
                      Popping(cap, w) /\ (w.n <= n - k \/ w.n = 0 \/ h_expire[w.array[0]] > h_now)}
           S == [k \in 0..n |-> V(k)]
           f == [k \in 1..n |-> [w \in S[k - 1] |-> PopOne(w)]]
           F(g) == [k \in 0..n |-> IF k = 0 THEN z ELSE PopOne(g[k - 1])]
<1>2a. z \in V(0)
  <2>1. z \in [array : [0..cap - 1 -> HeapPointer], n : 0..n, popped : SUBSET h_allocated]
    BY <1>1, <1>2 DEF HeapHolds
  <2>2. h_allocated \ {} = h_allocated /\ n <= n - 0
    BY <1>1
  <2> QED
    BY <2>1, <2>2, <1>2 DEF Popping
<1>3. ASSUME NEW k \in 1..n, NEW w \in V(k - 1) PROVE PopOne(w) \in V(k)
  <2>1. Popping(cap, w) /\ (w.n <= n - (k - 1) \/ w.n = 0 \/ h_expire[w.array[0]] > h_now) /\ w.n \in Nat
    BY <1>3, <1>1
  <2> DEFINE u == PopOne(w)
  <2>2. Popping(cap, u) /\ (u.n < w.n \/ ((w.n = 0 \/ h_expire[w.array[0]] > h_now) /\ u = w))
    BY <2>1, PopOneStep
  <2>3. u \in [array : [0..cap - 1 -> HeapPointer], n : 0..n, popped : SUBSET h_allocated]
    BY <2>2 DEF Popping
  <2>4. u.n \in Nat
    BY <2>3, <1>1
  <2>5. u = w \/ ~(w.n = 0 \/ h_expire[w.array[0]] > h_now)
    BY DEF PopOne
  <2> HIDE DEF u
  <2>6. u.n <= n - k \/ u.n = 0 \/ h_expire[u.array[0]] > h_now
    BY <1>1, <2>1, <2>2, <2>4, <2>5
  <2> QED
    BY <2>2, <2>3, <2>6 DEF u
<1> HIDE DEF V
<1>4. \A k \in 1..n : \A w \in S[k - 1] : f[k][w] \in S[k] /\ f[k][w] = PopOne(w)
  <2> SUFFICES ASSUME NEW k \in 1..n, NEW w \in S[k - 1]
               PROVE  f[k][w] \in S[k] /\ f[k][w] = PopOne(w)
    OBVIOUS
  <2>1. k - 1 \in 0..n /\ k \in 0..n
    BY <1>1
  <2>2. S[k - 1] = V(k - 1) /\ S[k] = V(k)
    BY <2>1
  <2>3. f[k] = [v \in S[k - 1] |-> PopOne(v)]
    OBVIOUS
  <2> HIDE DEF S, f
  <2>4. f[k][w] = PopOne(w)
    BY <2>3
  <2> QED
    BY <2>2, <2>4, <1>3
<1>4a. z \in S[0]
  BY <1>1, <1>2a
<1> HIDE DEF z, f
<1>5. \E g : g = F(g)
  <2>1a. PICK g : LoopGoes(n, S, z, f, g)
    <3> HIDE DEF S, n
    <3>1. \A k \in 1..n : \A w \in S[k - 1] : f[k][w] \in S[k]
      BY <1>4
    <3>2. n \in Nat
      BY <1>1
    <3> QED
      BY <1>4a, <3>1, <3>2, LoopValues
  <2>1. /\ g = [k \in 0..n |-> g[k]] /\ g[0] = z
        /\ \A k \in 0..n : g[k] \in S[k]
        /\ \A k \in 1..n : g[k] = f[k][g[k - 1]]
    <3> HIDE DEF S, n
    <3> QED
      BY <2>1a DEF LoopGoes
  <2>2. ASSUME NEW k \in 0..n PROVE g[k] = IF k = 0 THEN z ELSE PopOne(g[k - 1])
    <3>1. CASE k = 0
      BY <2>1, <3>1
    <3>2. CASE k # 0
      <4>1. k \in 1..n /\ k - 1 \in 0..n
        BY <1>1, <3>2
      <4>2. g[k - 1] \in S[k - 1]
        BY <2>1, <4>1
      <4> HIDE DEF S
      <4> QED
        BY <2>1, <4>1, <4>2, <1>4, <3>2
    <3> QED
      BY <3>1, <3>2
  <2>3. g = F(g)
    BY <2>1, <2>2
  <2> QED
    BY <2>3
<1> DEFINE at == CHOOSE g : g = F(g)
<1>6. at = F(at)
  <2> HIDE DEF F
  <2> QED
    BY <1>5
<1>7. /\ array' = at[n].array /\ cur_size' = at[n].n /\ H!Delete(at[n].popped)
      /\ h_fired' = {t \in at[n].popped : cb_func[t]} /\ h_now' = h_now
  BY DEF H!Tick, PopOne, z
<1> HIDE DEF at
<1>8. at[n] \in V(n)
  <2> DEFINE Q == {k \in 0..n : at[k] \in V(k)}
  <2>2. 0 \in Q
    <3>1. at[0] = z
      BY <1>6, <1>1
    <3>2. z \in V(0) /\ 0 \in 0..n
      BY <1>1, <1>4a
    <3> QED
      BY <3>1, <3>2
  <2>3. ASSUME NEW k \in 1..n, k - 1 \in Q PROVE k \in Q
    <3>1. k \in 0..n /\ k - 1 \in 0..n /\ k # 0
      BY <1>1
    <3>2. at[k] = PopOne(at[k - 1])
      BY <1>6, <3>1
    <3>3. at[k - 1] \in V(k - 1)
      BY <2>3
    <3>4. at[k] \in V(k)
      BY <3>2, <3>3, <1>3
    <3> QED
      BY <3>1, <3>4
  <2> HIDE DEF Q, n
  <2>4. \A k \in 0..n : k \in Q
    BY <1>1, <2>2, <2>3, LoopInduction
  <2>5. n \in Q
    BY <2>4, <1>1
  <2> QED
    BY <2>5 DEF Q
<1>9. PICK w : w = at[n]
  OBVIOUS
<1>10. /\ w.array \in [0..cap - 1 -> HeapPointer] /\ w.n \in 0..n /\ w.popped \in SUBSET h_allocated
       /\ HeapHolds(w.array, cap, w.n, h_allocated \ w.popped) /\ HeapOrdered(w.array, w.n, h_expire, 0)
       /\ \A t \in w.popped : h_expire[t] <= h_now
       /\ w.n = 0 \/ h_expire[w.array[0]] > h_now
  <2>1. w \in V(n)
    BY <1>8, <1>9
  <2>2. Popping(cap, w) /\ (w.n <= n - n \/ w.n = 0 \/ h_expire[w.array[0]] > h_now) /\ w.n \in 0..n
    BY <2>1 DEF V
  <2> QED
    BY <2>2, <1>1 DEF Popping
<1>11. ASSUME NEW t \in h_allocated, t \notin w.popped PROVE ~(h_expire[t] <= h_now)
  <2>1. PICK i \in 0..w.n - 1 : w.array[i] = t
    BY <1>10, <1>11 DEF HeapHolds
  <2>2. w.n # 0 /\ w.n \in Nat /\ h_allocated \ w.popped \in SUBSET Timers
    BY <1>1, <1>10, <2>1
  <2>3. h_expire[w.array[0]] <= h_expire[w.array[i]]
    BY <1>1, <1>10, <2>2, FirstExpires
  <2>4. w.array[0] \in Timers
    BY <1>10, <2>2 DEF HeapHolds
  <2> QED
    BY <1>1, <1>10, <2>1, <2>2, <2>3, <2>4
<1>12. w.n \in Nat
  BY <1>1, <1>10
<1> HIDE DEF n
<1> QED
  BY <1>7, <1>9, <1>10, <1>11, <1>12

(* tick *)
LEMMA HeapInvTick ==
  ASSUME H!TimeHeapAssumption, HeapInv, H!Tick
  PROVE  HeapInv' /\ H!Abstract!Tick
<1>1. HeapTypes /\ h_allocated \in SUBSET Timers /\ h_expire \in [Timers -> Nat] /\ h_now \in Nat
  BY DEF HeapInv, HeapTypes, H!TimeHeapAssumption
<1>2. PICK cap \in Nat \ {0}, ts \in SUBSET h_allocated :
        /\ HeapHolds(array', cap, cur_size', h_allocated \ ts) /\ HeapOrdered(array', cur_size', h_expire, 0)
        /\ cur_size' \in Nat
        /\ H!Delete(ts) /\ h_fired' = {t \in ts : cb_func[t]} /\ h_now' = h_now
        /\ \A t \in h_allocated : t \in ts <=> h_expire[t] <= h_now
  BY Ticked
<1>3. /\ HeapTypes' /\ h_allocated' = h_allocated \ ts
      /\ \A x \in Timers \ ts : h_expire'[x] = h_expire[x]
      /\ \A x \in Timers : LeftOf(x)' = IF x \in ts THEN -1 ELSE LeftOf(x)
  BY <1>1, <1>2, Deleted
<1>4. HeapInv'
  <2>1. \A x \in h_allocated \ ts : h_expire'[x] = h_expire[x]
    BY <1>1, <1>3
  <2>2. HeapOrdered(array', cur_size', h_expire', 0)
    BY <1>2, <2>1, OrderedSame
  <2> QED
    BY <1>2, <1>3, <2>2 DEF HeapInv
<1>5. ASSUME NEW x \in Timers PROVE LeftOf(x) = 0 <=> x \in ts /\ cb_func[x]
  BY <1>1, <1>2, LeftIs DEF H!Pending
<1>6. ASSUME NEW x \in Timers PROVE LeftOf(x)' = IF LeftOf(x) = 0 THEN -1 ELSE LeftOf(x)
  <2>1. CASE x \in ts /\ ~cb_func[x]
    <3>1. LeftOf(x) = -1
      BY <2>1 DEF LeftOf, H!Pending
    <3> QED
      BY <3>1, <2>1, <1>3
  <2>2. CASE ~(x \in ts /\ ~cb_func[x])
    BY <2>2, <1>3, <1>5
  <2> QED
    BY <2>1, <2>2
<1> DEFINE D == {t \in Timers : LeftOf(t) = 0}
<1>7. h_fired' = D
  BY <1>1, <1>2, <1>5
<1>8. [x \in Timers |-> LeftOf(x)]' = [x \in Timers |-> IF x \in D THEN -1 ELSE LeftOf(x)]
  BY <1>6
<1>9. D = H!Abstract!Due
  BY DEF H!Abstract!Due, LeftOf
<1> HIDE DEF D
<1>10. H!Abstract!Tick
  <2>1. \A x \in Timers : [t \in Timers |-> LeftOf(t)][x] = LeftOf(x)
    OBVIOUS
  <2>2. [x \in Timers |-> LeftOf(x)]'
          = [x \in Timers |-> IF x \in D THEN -1 ELSE [t \in Timers |-> LeftOf(t)][x]]
    BY <1>8, <2>1
  <2> QED
    BY <1>7, <1>9, <2>2 DEF H!Abstract!Tick, H!Abstract!Unset, LeftOf
<1> QED
  BY <1>4, <1>10

(* The clock. *)
LEMMA HeapInvAdvance ==
  ASSUME H!TimeHeapAssumption, HeapInv, H!Advance
  PROVE  HeapInv' /\ H!Abstract!Elapse
<1>1. MaxTime \in Nat /\ h_now \in 0..MaxTime /\ h_expire \in [Timers -> 0..MaxTime] /\ cb_func \in [Timers -> BOOLEAN]
      /\ h_allocated \in SUBSET Timers /\ cur_size \in Nat
  BY DEF HeapInv, HeapTypes, H!TimeHeapAssumption
<1>2. /\ h_now < MaxTime /\ h_now' = h_now + 1 /\ h_fired' = {}
      /\ array' = array /\ cur_size' = cur_size /\ h_expire' = h_expire /\ cb_func' = cb_func /\ h_allocated' = h_allocated
  BY DEF H!Advance, H!heapVars
<1>3. HeapTypes'
  BY <1>1, <1>2 DEF HeapTypes
<1>4. HeapInv'
  BY <1>2, <1>3 DEF HeapInv
<1>5. H!Pending' = H!Pending
  BY <1>2 DEF H!Pending
<1>6. ASSUME NEW x \in Timers PROVE LeftOf(x)' = IF LeftOf(x) > 0 THEN LeftOf(x) - 1 ELSE LeftOf(x)
  BY <1>1, <1>2, <1>5 DEF LeftOf
<1>7. H!Abstract!Elapse
  <2>1. \A x \in Timers : [t \in Timers |-> LeftOf(t)][x] = LeftOf(x)
    OBVIOUS
  <2>2. [x \in Timers |-> LeftOf(x)]'
          = [x \in Timers |-> IF [t \in Timers |-> LeftOf(t)][x] > 0 THEN [t \in Timers |-> LeftOf(t)][x] - 1
                              ELSE [t \in Timers |-> LeftOf(t)][x]]
    BY <1>6, <2>1
  <2> QED
    BY <1>2, <2>2 DEF H!Abstract!Elapse, LeftOf
<1> QED
  BY <1>4, <1>7

(* Every step of the heap is one of the set of timers. *)
LEMMA HeapInvNext ==
  ASSUME H!TimeHeapAssumption, HeapInv, [H!Next]_(H!vars)
  PROVE  HeapInv' /\ [H!Abstract!NextNoPostpone]_(H!Abstract!timerVars)
<1>1. CASE UNCHANGED H!vars
  <2>1. /\ array' = array /\ cur_size' = cur_size /\ h_expire' = h_expire /\ cb_func' = cb_func
        /\ h_allocated' = h_allocated /\ h_now' = h_now /\ h_fired' = h_fired
    BY <1>1 DEF H!vars, H!heapVars
  <2>2. HeapInv'
    BY <2>1 DEF HeapInv, HeapTypes
  <2>3. H!Pending' = H!Pending
    BY <2>1 DEF H!Pending
  <2>4. UNCHANGED H!Abstract!timerVars
    BY <2>1, <2>3 DEF H!Abstract!timerVars
  <2> QED
    BY <2>2, <2>4
<1>2. ASSUME NEW t \in Timers, NEW e \in h_now..MaxTime, H!AddTimer(t, e)
      PROVE  HeapInv' /\ H!Abstract!NextNoPostpone
  <2>1. HeapInv' /\ e - h_now \in 0..MaxTime /\ H!Abstract!Add(t, e - h_now)
    BY <1>2, HeapInvAdd
  <2>2. PICK d \in 0..MaxTime : d = e - h_now
    BY <2>1
  <2>3. H!Abstract!Add(t, d)
    BY <2>1, <2>2 DEF H!Abstract!Add
  <2> QED
    BY <2>1, <2>3 DEF H!Abstract!NextNoPostpone
<1>3. ASSUME NEW t \in Timers, H!DelTimer(t)
      PROVE  HeapInv' /\ H!Abstract!NextNoPostpone
  BY <1>3, HeapInvDel DEF H!Abstract!NextNoPostpone
<1>4. CASE H!PopTimer
  BY <1>4, HeapInvPop DEF H!Abstract!NextNoPostpone
<1>5. CASE H!Tick
  BY <1>5, HeapInvTick DEF H!Abstract!NextNoPostpone
<1>6. CASE H!Advance
  BY <1>6, HeapInvAdvance DEF H!Abstract!NextNoPostpone
<1> QED
  BY <1>1, <1>2, <1>3, <1>4, <1>5, <1>6 DEF H!Next

(* So the heap alone is a set of timers. *)
LEMMA HeapImplements ==
  ASSUME H!TimeHeapAssumption
  PROVE  H!Spec => H!ImplementsTimerSet
<1>1. H!Init => HeapInv /\ H!Abstract!InitFilled
  BY HeapInvInit
<1>2. HeapInv /\ [H!Next]_(H!vars) => HeapInv'
  BY HeapInvNext
<1>3. HeapInv /\ [H!Next]_(H!vars) => [H!Abstract!NextNoPostpone]_(H!Abstract!timerVars)
  BY HeapInvNext
<1>4. HeapInv /\ [H!Next]_(H!vars) => [H!Tick => H!Abstract!Tick]_(H!vars)
  BY HeapInvTick
<1> QED
  BY <1>1, <1>2, <1>3, <1>4, PTL DEF H!Spec, H!ImplementsTimerSet, H!Abstract!SpecFilled

(* The heap of 11-6time_heap.h implements a set of timers: whatever is added, *)
(* deleted, popped and ticked in whatever order, and however the array grows, *)
(* tick calls exactly the timers that are due and have not been deleted.      *)
THEOREM HeapIsTimerSet == Spec => HeapImplementsTimerSet
<1>1. H!TimeHeapAssumption
  BY MCTimersAssumption
<1>2. Init => H!Init
  BY DEF Init
<1>3. [Next]_<<which, listVars, wheelVars, heapVars>> => [H!Next]_(H!vars)
  <2>1. UNCHANGED heapVars => UNCHANGED H!vars
    BY DEF heapVars, H!vars, H!heapVars
  <2> QED
    BY <2>1 DEF Next
<1>4. H!Spec => H!ImplementsTimerSet
  BY <1>1, HeapImplements
<1> QED
  BY <1>2, <1>3, <1>4, PTL DEF Spec, H!Spec, HeapImplementsTimerSet
-----------------------------------------------------------------------------
(* 11-2lst_timer.h: the list.                                               *)

(* The timers A are linked in the order q, of m timers. *)
Linked(q, m, A, n, v) ==
  /\ m \in Nat /\ q \in [1..m -> Timers]
  /\ n \in [Timers -> L!Pointer] /\ v \in [Timers -> L!Pointer]
  /\ \A i, j \in 1..m : q[i] = q[j] => i = j
  /\ \A i \in 1..m : q[i] \in A
  /\ \A t \in A : \E i \in 1..m : q[i] = t
  /\ \A i \in 1..m : n[q[i]] = IF i = m THEN NULL ELSE q[i + 1]
  /\ \A i \in 1..m : v[q[i]] = IF i = 1 THEN NULL ELSE q[i - 1]

(* The order is that of the times e. *)
InOrder(q, m, e) == \A i, j \in 1..m : i <= j => e[q[i]] <= e[q[j]]

(* The first and the last of them.  tail means nothing when there is none. *)
Ends(q, m, h, l) ==
  /\ h = IF m = 0 THEN NULL ELSE q[1]
  /\ m > 0 => l = q[m]
  /\ l \in L!Pointer

ListTypes ==
  /\ l_expire \in [Timers -> 0..MaxTime] /\ l_allocated \in SUBSET Timers
  /\ l_now \in 0..MaxTime

(* The inductive invariant. *)
ListInv ==
  /\ ListTypes
  /\ \E m \in Nat : \E q \in [1..m -> Timers] :
       Linked(q, m, l_allocated, l_next, l_prev) /\ InOrder(q, m, l_expire) /\ Ends(q, m, head, tail)

(* There are no more places than timers. *)
LEMMA FewTimers ==
  ASSUME L!TimerListAssumption, NEW m, NEW q, NEW A, NEW n, NEW v, Linked(q, m, A, n, v)
  PROVE  m <= Cardinality(Timers) /\ Cardinality(Timers) \in Nat
<1>1. m \in Nat /\ q \in Injection(1..m, Timers)
  BY DEF Linked, Injection, IsInjective
<1>2. IsFiniteSet(1..m) /\ Cardinality(1..m) = m
  BY <1>1, FS_Interval
<1> QED
  BY <1>1, <1>2, FS_Injection, FS_CardinalityType
     DEF L!TimerListAssumption, L!IsFiniteSet, IsFiniteSet

(* The node of place i, or nothing behind the last. *)
Node(q, m, i) == IF i <= m THEN q[i] ELSE NULL

(* Chain meets the nodes from a place on. *)
LEMMA ChainIs ==
  ASSUME L!TimerListAssumption, NEW m \in Nat, NEW q \in [1..m -> Timers], NEW A, NEW v,
         Linked(q, m, A, l_next, v), NEW i \in 1..m + 1, NEW l \in Nat, l = m - i + 1
  PROVE  L!Chain(Node(q, m, i)) = [k \in 1..l |-> q[i + k - 1]]
<1> DEFINE C == Cardinality(Timers)
           p == Node(q, m, i)
           F(f) == [k \in 0..C |-> IF k = 0 THEN p
                                   ELSE IF f[k - 1] = NULL THEN NULL ELSE l_next[f[k - 1]]]
           g == [k \in 0..C |-> Node(q, m, i + k)]
           at == CHOOSE f : f = F(f)
<1>0. C \in Nat /\ m <= C
  BY FewTimers
<1>1. C \in Nat /\ m \in Nat /\ m <= C /\ q \in [1..m -> Timers]
  BY <1>0 DEF Linked
<1>2. NULL \notin Timers /\ \A j \in 1..m : l_next[q[j]] = Node(q, m, j + 1)
  BY <1>1 DEF Linked, Node, L!TimerListAssumption
<1> HIDE DEF C
<1>3. g = F(g)
  <2>1. ASSUME NEW k \in 0..C
        PROVE  Node(q, m, i + k) = IF k = 0 THEN p
                 ELSE IF g[k - 1] = NULL THEN NULL ELSE l_next[g[k - 1]]
    <3>1. CASE k = 0
      BY <1>1, <3>1 DEF Node
    <3>2. CASE k # 0
      <4>1. k - 1 \in 0..C /\ g[k - 1] = Node(q, m, i + (k - 1))
        BY <1>1, <2>1, <3>2
      <4>2. PICK j \in Nat : j = i + (k - 1)
        BY <1>1, <2>1, <3>2
      <4>3. j + 1 = i + k /\ j >= 1
        BY <1>1, <2>1, <3>2, <4>2
      <4>4. Node(q, m, j + 1) = IF Node(q, m, j) = NULL THEN NULL ELSE l_next[Node(q, m, j)]
        <5>1. CASE j <= m
          <6>1. j \in 1..m /\ q[j] \in Timers
            BY <1>1, <4>2, <4>3, <5>1
          <6> QED
            BY <1>2, <5>1, <6>1 DEF Node
        <5>2. CASE ~(j <= m)
          BY <1>1, <4>2, <5>2 DEF Node
        <5> QED
          BY <5>1, <5>2
      <4> QED
        BY <3>2, <4>1, <4>2, <4>3, <4>4
    <3> QED
      BY <3>1, <3>2
  <2> QED
    BY <2>1
<1>4. at = F(at)
  <2> HIDE DEF g, F
  <2> QED
    BY <1>3
<1>5. \A k \in 0..C : at[k] = g[k]
  <2> DEFINE Q == {k \in 0..C : at[k] = g[k]}
  <2> HIDE DEF at, g
  <2>1. \A k \in 0..C : at[k] = IF k = 0 THEN p ELSE IF at[k - 1] = NULL THEN NULL ELSE l_next[at[k - 1]]
    BY <1>4
  <2>2. \A k \in 0..C : g[k] = IF k = 0 THEN p ELSE IF g[k - 1] = NULL THEN NULL ELSE l_next[g[k - 1]]
    BY <1>3
  <2>3. 0 \in Q
    BY <1>1, <2>1, <2>2
  <2>4. ASSUME NEW k \in 1..C, k - 1 \in Q PROVE k \in Q
    <3>1. k \in 0..C /\ k # 0 /\ at[k - 1] = g[k - 1]
      BY <1>1, <2>4
    <3> QED
      BY <2>1, <2>2, <3>1
  <2> HIDE DEF Q
  <2>5. \A k \in 0..C : k \in Q
    BY <1>1, <2>3, <2>4, LoopInduction
  <2> QED
    BY <2>5 DEF Q
<1>6. L!Chain(p) = [k \in {j \in 1..C + 1 : at[j - 1] # NULL} |-> at[k - 1]]
  BY DEF L!Chain, C, L!Cardinality, Cardinality
<1> HIDE DEF at
<1>7. \A k \in 1..C + 1 : at[k - 1] = Node(q, m, i + k - 1)
  <2>1. ASSUME NEW k \in 1..C + 1 PROVE at[k - 1] = Node(q, m, i + k - 1)
    <3>1. k - 1 \in 0..C /\ i + (k - 1) = i + k - 1
      BY <1>1
    <3> QED
      BY <1>5, <3>1
  <2> QED
    BY <2>1
<1>8. {j \in 1..C + 1 : at[j - 1] # NULL} = 1..l
  <2>1. ASSUME NEW j \in 1..C + 1 PROVE at[j - 1] # NULL <=> j \in 1..l
    <3>1. i + j - 1 \in Nat /\ i + j - 1 >= 1
      BY <1>1
    <3>2. i + j - 1 <= m <=> j \in 1..l
      BY <1>1
    <3>3. i + j - 1 <= m => q[i + j - 1] \in Timers
      BY <1>1, <3>1
    <3> QED
      BY <1>2, <1>7, <3>2, <3>3 DEF Node
  <2>2. 1..l \subseteq 1..C + 1
    BY <1>1
  <2> QED
    BY <2>1, <2>2
<1>9. \A k \in 1..l : at[k - 1] = q[i + k - 1]
  <2>1. ASSUME NEW k \in 1..l PROVE at[k - 1] = q[i + k - 1]
    <3>1. k \in 1..C + 1 /\ i + k - 1 <= m
      BY <1>1
    <3> QED
      BY <1>7, <3>1 DEF Node
  <2> QED
    BY <2>1
<1> QED
  BY <1>6, <1>8, <1>9

(* How long that is, and what is where. *)
LEMMA ChainLength ==
  ASSUME L!TimerListAssumption, NEW m \in Nat, NEW q \in [1..m -> Timers], NEW A, NEW v,
         Linked(q, m, A, l_next, v), NEW i \in 1..m + 1, NEW l \in Nat, l = m - i + 1
  PROVE  /\ Len(L!Chain(Node(q, m, i))) = l
         /\ \A k \in 1..l, j \in 1..m : j = i + k - 1 => L!Chain(Node(q, m, i))[k] = q[j]
<1>1. \A k \in 1..l : q[i + k - 1] \in Timers
  OBVIOUS
<1>2. [k \in 1..l |-> q[i + k - 1]] \in Seq(Timers) /\ Len([k \in 1..l |-> q[i + k - 1]]) = l
  BY <1>1
<1>3. L!Chain(Node(q, m, i)) = [k \in 1..l |-> q[i + k - 1]]
  BY ChainIs
<1> QED
  BY <1>2, <1>3

(* The first of a set of places. *)
LEMMA FirstIs ==
  ASSUME NEW Q \in SUBSET Nat, Q # {}
  PROVE  L!First(Q) \in Q /\ \A j \in Q : L!First(Q) <= j
BY Least DEF L!First

(* add_timer's loop finds the last place, from p on, whose timer does not   *)
(* expire after e.                                                          *)
LEMMA PlaceIs ==
  ASSUME L!TimerListAssumption, NEW m \in Nat, NEW q \in [1..m -> Timers], NEW A, NEW v,
         Linked(q, m, A, l_next, v),
         l_expire \in [Timers -> Nat], NEW e \in Nat, NEW i \in 1..m
  PROVE  \E k \in i..m :
           /\ L!Place(q[i], e) = [before |-> q[k], after |-> Node(q, m, k + 1)]
           /\ \A j \in i + 1..k : l_expire[q[j]] <= e
           /\ k < m => e < l_expire[q[k + 1]]
<1> DEFINE chain == L!Chain(q[i])
           l == m - i + 1
           later == {j \in 2..Len(chain) : e < l_expire[chain[j]]}
<1>1. m \in Nat /\ q \in [1..m -> Timers] /\ q[i] = Node(q, m, i) /\ i \in 1..m + 1
  BY DEF Linked, Node
<1>0. l \in Nat \ {0} /\ l = m - i + 1
  BY <1>1
<1> HIDE DEF l
<1>2. /\ l \in Nat \ {0} /\ Len(chain) = l
      /\ \A k \in 1..l, j \in 1..m : j = i + k - 1 => chain[k] = q[j]
  <2>1. /\ Len(L!Chain(Node(q, m, i))) = l
        /\ \A k \in 1..l, j \in 1..m : j = i + k - 1 => L!Chain(Node(q, m, i))[k] = q[j]
    <3>1. PICK h \in 1..m + 1 : h = i
      BY <1>1
    <3>2. PICK g \in Nat : g = l /\ g = m - h + 1
      BY <1>0, <3>1
    <3>3. /\ Len(L!Chain(Node(q, m, h))) = g
          /\ \A k \in 1..g, j \in 1..m : j = h + k - 1 => L!Chain(Node(q, m, h))[k] = q[j]
      BY <3>2, ChainLength
    <3> QED
      BY <3>1, <3>2, <3>3
  <2> QED
    BY <1>0, <1>1, <2>1
<1>3. \A j \in 1..m : l_expire[q[j]] \in Nat
  BY <1>1
<1>4. L!Place(q[i], e) = IF later = {} THEN [before |-> chain[Len(chain)], after |-> NULL]
                       ELSE [before |-> chain[L!First(later) - 1], after |-> chain[L!First(later)]]
  BY DEF L!Place
<1> HIDE DEF chain
<1>5. CASE later = {}
  <2>1. chain[Len(chain)] = q[m] /\ Node(q, m, m + 1) = NULL
    BY <1>0, <1>1, <1>2 DEF Node
  <2>2. ASSUME NEW j \in i + 1..m PROVE l_expire[q[j]] <= e
    <3>1. PICK k \in Nat : k = j - i + 1
      BY <1>1
    <3>2. k \in 2..l /\ i + k - 1 = j /\ j \in 1..m
      BY <1>0, <1>1, <3>1
    <3>a. k \in 1..l /\ j \in 1..m /\ j = i + k - 1
      BY <1>0, <3>2
    <3>b. chain[k] = q[j]
      BY <1>2, <3>a
    <3>3. chain[k] = q[j] /\ k \notin later
      BY <1>5, <3>b
    <3> QED
      BY <1>2, <1>3, <3>2, <3>3
  <2>3. m \in i..m
    BY <1>1
  <2> QED
    BY <1>1, <1>4, <1>5, <2>1, <2>2, <2>3
<1>6. CASE later # {}
  <2>1. PICK f : f = L!First(later)
    OBVIOUS
  <2>2. f \in later /\ \A j \in later : f <= j
    <3>1. later \in SUBSET Nat
      BY <1>2
    <3> HIDE DEF later
    <3> QED
      BY <1>6, <2>1, <3>1, FirstIs
  <2>3. f \in 2..l /\ e < l_expire[chain[f]] /\ f - 1 \in 1..l
    BY <1>2, <2>2
  <2>4. PICK k \in Nat : k = i + f - 2
    BY <1>0, <1>1, <2>3
  <2>5. k \in i..m /\ k < m /\ k + 1 = i + f - 1 /\ k = i + (f - 1) - 1
    BY <1>0, <1>1, <2>3, <2>4
  <2>6. chain[f] = q[k + 1] /\ chain[f - 1] = q[k] /\ Node(q, m, k + 1) = q[k + 1]
    BY <1>1, <1>2, <2>3, <2>5 DEF Node
  <2>7. ASSUME NEW j \in i + 1..k PROVE l_expire[q[j]] <= e
    <3>1. PICK h \in Nat : h = j - i + 1
      BY <1>1
    <3>2. h \in 2..l /\ h < f /\ i + h - 1 = j /\ j \in 1..m
      BY <1>0, <1>1, <2>3, <2>5, <3>1
    <3>a. h \in 1..l /\ j \in 1..m /\ j = i + h - 1
      BY <1>0, <3>2
    <3>3. chain[h] = q[j]
      BY <1>2, <3>a
    <3>4. h \notin later
      <4> HIDE DEF later
      <4> QED
        BY <2>2, <2>3, <3>2
    <3> QED
      BY <1>2, <1>3, <3>2, <3>3, <3>4
  <2> QED
    BY <1>4, <1>6, <2>1, <2>3, <2>5, <2>6, <2>7
<1> QED
  BY <1>5, <1>6

(* The order with t behind place k... *)
With(q, m, k, t) ==
  [i \in 1..m + 1 |-> IF i <= k THEN q[i] ELSE IF i = k + 1 THEN t ELSE q[i - 1]]

(* ...and the one without place k. *)
Without(q, m, k) == [i \in 1..m - 1 |-> IF i < k THEN q[i] ELSE q[i + 1]]

(* The places of the one and the other. *)
Widened(w, q, m, k, t) ==
  /\ w \in [1..m + 1 -> Timers]
  /\ \A i \in 1..m + 1 : \/ i <= k /\ i \in 1..m /\ w[i] = q[i]
                         \/ i = k + 1 /\ w[i] = t
                         \/ i > k + 1 /\ i - 1 \in 1..m /\ w[i] = q[i - 1]
  /\ \A i \in 1..m : i <= k => w[i] = q[i]
  /\ \A i \in 1..m : i > k => w[i + 1] = q[i]
  /\ w[k + 1] = t

(* Those of the order with t. *)
LEMMA WithIs ==
  ASSUME NEW m \in Nat, NEW q \in [1..m -> Timers], NEW k \in 0..m, NEW t \in Timers
  PROVE  Widened(With(q, m, k, t), q, m, k, t)
<1>1. ASSUME NEW i \in 1..m + 1
      PROVE  /\ \/ i <= k /\ i \in 1..m /\ With(q, m, k, t)[i] = q[i]
                \/ i = k + 1 /\ With(q, m, k, t)[i] = t
                \/ i > k + 1 /\ i - 1 \in 1..m /\ With(q, m, k, t)[i] = q[i - 1]
             /\ (IF i <= k THEN q[i] ELSE IF i = k + 1 THEN t ELSE q[i - 1]) \in Timers
  <2>1. With(q, m, k, t)[i] = IF i <= k THEN q[i] ELSE IF i = k + 1 THEN t ELSE q[i - 1]
    BY DEF With
  <2>2. CASE i <= k
    BY <2>1, <2>2
  <2>3. CASE i = k + 1
    BY <2>1, <2>3
  <2>4. CASE i > k + 1
    BY <2>1, <2>4
  <2> QED
    BY <2>2, <2>3, <2>4
<1>2. ASSUME NEW i \in 1..m, i > k PROVE With(q, m, k, t)[i + 1] = q[i]
  <2>1. PICK j : j = i + 1
    OBVIOUS
  <2>2. j \in 1..m + 1 /\ j > k + 1 /\ j - 1 = i
    BY <1>2, <2>1
  <2> QED
    BY <1>1, <2>1, <2>2
<1>3. ASSUME NEW i \in 1..m, i <= k PROVE With(q, m, k, t)[i] = q[i]
  BY <1>1, <1>3
<1>4. With(q, m, k, t)[k + 1] = t
  <2>1. PICK j : j = k + 1
    OBVIOUS
  <2>2. j \in 1..m + 1
    BY <2>1
  <2> QED
    BY <1>1, <2>1, <2>2
<1>5. With(q, m, k, t) \in [1..m + 1 -> Timers]
  BY <1>1 DEF With
<1> QED
  BY <1>1, <1>2, <1>3, <1>4, <1>5 DEF Widened

(* And those of the one without place k. *)
LEMMA WithoutIs ==
  ASSUME NEW m \in Nat, NEW q \in [1..m -> Timers], NEW k \in 1..m
  PROVE  /\ Without(q, m, k) \in [1..m - 1 -> Timers] /\ m - 1 \in Nat
         /\ \A i \in 1..m - 1 : \/ i < k /\ i \in 1..m /\ Without(q, m, k)[i] = q[i]
                                \/ i >= k /\ i + 1 \in 1..m /\ Without(q, m, k)[i] = q[i + 1]
         /\ \A i \in 1..m : i < k => i \in 1..m - 1 /\ Without(q, m, k)[i] = q[i]
         /\ \A i \in 1..m : i > k => i - 1 \in 1..m - 1 /\ Without(q, m, k)[i - 1] = q[i]
<1>1. ASSUME NEW i \in 1..m - 1
      PROVE  /\ \/ i < k /\ i \in 1..m /\ Without(q, m, k)[i] = q[i]
                \/ i >= k /\ i + 1 \in 1..m /\ Without(q, m, k)[i] = q[i + 1]
             /\ (IF i < k THEN q[i] ELSE q[i + 1]) \in Timers
  <2>1. Without(q, m, k)[i] = IF i < k THEN q[i] ELSE q[i + 1]
    BY DEF Without
  <2>2. CASE i < k
    BY <2>1, <2>2
  <2>3. CASE i >= k
    BY <2>1, <2>3
  <2> QED
    BY <2>2, <2>3
<1>2. ASSUME NEW i \in 1..m, i > k PROVE i - 1 \in 1..m - 1 /\ Without(q, m, k)[i - 1] = q[i]
  <2>1. PICK j : j = i - 1
    OBVIOUS
  <2>2. j \in 1..m - 1 /\ j >= k /\ j + 1 = i
    BY <1>2, <2>1
  <2> QED
    BY <1>1, <2>1, <2>2
<1>3. ASSUME NEW i \in 1..m, i < k PROVE i \in 1..m - 1 /\ Without(q, m, k)[i] = q[i]
  <2>1. i \in 1..m - 1
    BY <1>3
  <2> QED
    BY <1>1, <1>3, <2>1
<1>5. Without(q, m, k) \in [1..m - 1 -> Timers] /\ m - 1 \in Nat
  BY <1>1 DEF Without
<1> QED
  BY <1>1, <1>2, <1>3, <1>5

(* n2 and v2 lead to t behind place k, and from it on to what was there.    *)
Enlist(q, m, k, t, n, v, n2, v2) ==
  /\ n2 \in [Timers -> L!Pointer] /\ v2 \in [Timers -> L!Pointer]
  /\ n2[t] = Node(q, m, k + 1)
  /\ v2[t] = IF k = 0 THEN NULL ELSE q[k]
  /\ \A i \in 1..m : n2[q[i]] = IF i = k THEN t ELSE n[q[i]]
  /\ \A i \in 1..m : v2[q[i]] = IF i = k + 1 THEN t ELSE v[q[i]]

(* So t is put there. *)
LEMMA Inserted ==
  ASSUME NEW m, NEW q, NEW A \in SUBSET Timers, NEW n, NEW v, Linked(q, m, A, n, v),
         NEW t \in Timers, t \notin A, NEW k \in 0..m,
         NEW n2, NEW v2, Enlist(q, m, k, t, n, v, n2, v2)
  PROVE  Linked(With(q, m, k, t), m + 1, A \cup {t}, n2, v2)
<1>0. /\ n2 \in [Timers -> L!Pointer] /\ v2 \in [Timers -> L!Pointer]
      /\ n2[t] = Node(q, m, k + 1)
      /\ v2[t] = IF k = 0 THEN NULL ELSE q[k]
      /\ \A i \in 1..m : n2[q[i]] = IF i = k THEN t ELSE n[q[i]]
      /\ \A i \in 1..m : v2[q[i]] = IF i = k + 1 THEN t ELSE v[q[i]]
  BY DEF Enlist
<1>1. /\ m \in Nat /\ q \in [1..m -> Timers]
      /\ \A i, j \in 1..m : q[i] = q[j] => i = j
      /\ \A i \in 1..m : q[i] \in A /\ q[i] # t
      /\ \A x \in A : \E i \in 1..m : q[i] = x
      /\ \A i \in 1..m : n[q[i]] = IF i = m THEN NULL ELSE q[i + 1]
      /\ \A i \in 1..m : v[q[i]] = IF i = 1 THEN NULL ELSE q[i - 1]
  BY DEF Linked
<1> DEFINE w == With(q, m, k, t)
<1>2. /\ w \in [1..m + 1 -> Timers]
      /\ \A i \in 1..m + 1 : \/ i <= k /\ i \in 1..m /\ w[i] = q[i]
                             \/ i = k + 1 /\ w[i] = t
                             \/ i > k + 1 /\ i - 1 \in 1..m /\ w[i] = q[i - 1]
      /\ \A i \in 1..m : i <= k => w[i] = q[i]
      /\ \A i \in 1..m : i > k => w[i + 1] = q[i]
      /\ w[k + 1] = t
  <2>1. m \in Nat /\ q \in [1..m -> Timers]
    BY <1>1
  <2>2. Widened(w, q, m, k, t)
    BY <2>1, WithIs
  <2> QED
    BY <2>2 DEF Widened
<1> HIDE DEF w
<1>3. ASSUME NEW i \in 1..m + 1, NEW j \in 1..m + 1, w[i] = w[j] PROVE i = j
  <2>1. ASSUME NEW x \in 1..m + 1, x # k + 1
        PROVE  \E y \in 1..m : w[x] = q[y] /\ y = IF x <= k THEN x ELSE x - 1
    <3>1. CASE x <= k
      BY <1>2, <3>1
    <3>2. CASE x > k + 1
      <4>1. PICK y : y = x - 1
        OBVIOUS
      <4> QED
        BY <1>2, <3>2, <4>1
    <3> QED
      BY <1>1, <2>1, <3>1, <3>2
  <2>2. CASE i # k + 1 /\ j # k + 1
    <3>1. PICK g \in 1..m : w[i] = q[g] /\ g = IF i <= k THEN i ELSE i - 1
      BY <2>1, <2>2
    <3>2. PICK h \in 1..m : w[j] = q[h] /\ h = IF j <= k THEN j ELSE j - 1
      BY <2>1, <2>2
    <3>3. q[g] = q[h]
      BY <1>3, <3>1, <3>2
    <3>4. g = h
      BY <1>1, <3>3
    <3> QED
      BY <1>1, <2>2, <3>1, <3>2, <3>4
  <2>3. CASE i = k + 1 /\ j # k + 1
    <3>1. PICK h \in 1..m : w[j] = q[h]
      BY <2>1, <2>3
    <3> QED
      BY <1>1, <1>2, <1>3, <2>3, <3>1
  <2>4. CASE i # k + 1 /\ j = k + 1
    <3>1. PICK h \in 1..m : w[i] = q[h]
      BY <2>1, <2>4
    <3> QED
      BY <1>1, <1>2, <1>3, <2>4, <3>1
  <2> QED
    BY <2>2, <2>3, <2>4
<1>4. \A i \in 1..m + 1 : w[i] \in A \cup {t}
  BY <1>1, <1>2
<1>5. ASSUME NEW x \in A \cup {t} PROVE \E i \in 1..m + 1 : w[i] = x
  <2>1. CASE x = t
    BY <1>1, <1>2, <2>1
  <2>2. CASE x # t
    <3>1. PICK i \in 1..m : q[i] = x
      BY <1>1, <2>2
    <3>2. i \in 1..m + 1 /\ i + 1 \in 1..m + 1
      BY <1>1
    <3> QED
      BY <1>1, <1>2, <3>1, <3>2
  <2> QED
    BY <2>1, <2>2
<1>6. ASSUME NEW i \in 1..m + 1 PROVE n2[w[i]] = IF i = m + 1 THEN NULL ELSE w[i + 1]
  <2>1. CASE i < k
    <3>1. i \in 1..m /\ i + 1 \in 1..m /\ i # m /\ i # m + 1 /\ i + 1 <= k /\ i # k
      BY <1>1, <2>1
    <3>2. w[i] = q[i] /\ w[i + 1] = q[i + 1]
      BY <1>2, <2>1, <3>1
    <3> QED
      BY <1>0, <1>1, <3>1, <3>2
  <2>2. CASE i = k
    <3>1. i \in 1..m /\ i # m + 1 /\ w[i] = q[i]
      BY <1>1, <1>2, <2>2
    <3> QED
      BY <1>0, <1>2, <2>2, <3>1
  <2>3. CASE i = k + 1
    <3>1. CASE k = m
      BY <1>0, <1>1, <1>2, <2>3, <3>1 DEF Node
    <3>2. CASE k # m
      <4>1. i \in 1..m /\ i > k /\ i # m + 1
        BY <1>1, <2>3, <3>2
      <4>2. w[i + 1] = q[i]
        BY <1>2, <4>1
      <4> QED
        BY <1>0, <1>1, <1>2, <2>3, <4>1, <4>2 DEF Node
    <3> QED
      BY <3>1, <3>2
  <2>4. CASE i > k + 1
    <3>1. PICK j : j = i - 1
      OBVIOUS
    <3>2. j \in 1..m /\ j > k /\ j # k /\ j + 1 = i /\ w[i] = q[j]
      BY <1>1, <1>2, <2>4, <3>1
    <3>3. CASE j = m
      BY <1>0, <1>1, <3>2, <3>3
    <3>4. CASE j # m
      <4>1. i \in 1..m /\ i > k /\ i # m + 1
        BY <1>1, <3>2, <3>4
      <4>2. w[i + 1] = q[i]
        BY <1>2, <4>1
      <4> QED
        BY <1>0, <1>1, <3>2, <3>4, <4>1, <4>2
    <3> QED
      BY <3>3, <3>4
  <2> QED
    BY <1>1, <2>1, <2>2, <2>3, <2>4
<1>7. ASSUME NEW i \in 1..m + 1 PROVE v2[w[i]] = IF i = 1 THEN NULL ELSE w[i - 1]
  <2>1. CASE i <= k
    <3>1. i \in 1..m /\ i # k + 1 /\ w[i] = q[i]
      BY <1>1, <1>2, <2>1
    <3>2. i # 1 => i - 1 \in 1..m /\ w[i - 1] = q[i - 1]
      <4>1. i # 1 => i - 1 \in 1..m /\ i - 1 <= k
        BY <1>1, <2>1
      <4> QED
        BY <1>2, <4>1
    <3> QED
      BY <1>0, <1>1, <3>1, <3>2
  <2>2. CASE i = k + 1
    <3>1. i - 1 = k /\ (k # 0 => k \in 1..m)
      BY <1>1, <2>2
    <3> QED
      BY <1>0, <1>1, <1>2, <2>2, <3>1
  <2>3. CASE i > k + 1
    <3>1. PICK j : j = i - 1
      OBVIOUS
    <3>2. j \in 1..m /\ j > k /\ i # 1 /\ w[i] = q[j]
      BY <1>1, <1>2, <2>3, <3>1
    <3>3. CASE j = k + 1
      BY <1>0, <1>1, <1>2, <3>1, <3>2, <3>3
    <3>4. CASE j # k + 1
      <4>1. PICK h : h = j - 1
        OBVIOUS
      <4>2. h \in 1..m /\ h > k /\ h + 1 = j /\ j # 1
        <5>1. j \in Nat /\ k \in Nat /\ m \in Nat /\ j > k /\ j # k + 1 /\ j <= m
          BY <1>1, <3>2, <3>4
        <5> QED
          BY <4>1, <5>1
      <4>3. w[j] = q[h]
        BY <1>2, <4>2
      <4> QED
        BY <1>0, <1>1, <3>1, <3>2, <3>4, <4>1, <4>2, <4>3
    <3> QED
      BY <3>3, <3>4
  <2> QED
    BY <1>1, <2>1, <2>2, <2>3
<1>8. m + 1 \in Nat
  BY <1>1
<1> QED
  BY <1>0, <1>2, <1>3, <1>4, <1>5, <1>6, <1>7, <1>8 DEF Linked, w

(* n2 and v2 lead past place k: its neighbours point to each other.         *)
Bypass(q, m, k, n, v, n2, v2) ==
  /\ n2 \in [Timers -> L!Pointer] /\ v2 \in [Timers -> L!Pointer]
  /\ \A i \in 1..m : i # k => n2[q[i]] = IF i = k - 1 THEN Node(q, m, k + 1) ELSE n[q[i]]
  /\ \A i \in 1..m : i # k => v2[q[i]] = IF i = k + 1 THEN (IF k = 1 THEN NULL ELSE q[k - 1]) ELSE v[q[i]]

(* So the timer there is taken out. *)
LEMMA Removed ==
  ASSUME NEW m, NEW q, NEW A \in SUBSET Timers, NEW n, NEW v, Linked(q, m, A, n, v), NEW k \in 1..m,
         NEW n2, NEW v2, Bypass(q, m, k, n, v, n2, v2)
  PROVE  Linked(Without(q, m, k), m - 1, A \ {q[k]}, n2, v2)
<1>0. /\ n2 \in [Timers -> L!Pointer] /\ v2 \in [Timers -> L!Pointer]
      /\ \A i \in 1..m : i # k => n2[q[i]] = IF i = k - 1 THEN Node(q, m, k + 1) ELSE n[q[i]]
      /\ \A i \in 1..m : i # k => v2[q[i]] = IF i = k + 1 THEN (IF k = 1 THEN NULL ELSE q[k - 1]) ELSE v[q[i]]
  BY DEF Bypass
<1>1. /\ m \in Nat /\ q \in [1..m -> Timers]
      /\ \A i, j \in 1..m : q[i] = q[j] => i = j
      /\ \A i \in 1..m : q[i] \in A
      /\ \A x \in A : \E i \in 1..m : q[i] = x
      /\ \A i \in 1..m : n[q[i]] = IF i = m THEN NULL ELSE q[i + 1]
      /\ \A i \in 1..m : v[q[i]] = IF i = 1 THEN NULL ELSE q[i - 1]
  BY DEF Linked
<1> DEFINE w == Without(q, m, k)
<1>2. /\ w \in [1..m - 1 -> Timers] /\ m - 1 \in Nat
      /\ \A i \in 1..m - 1 : \/ i < k /\ i \in 1..m /\ w[i] = q[i]
                             \/ i >= k /\ i + 1 \in 1..m /\ w[i] = q[i + 1]
      /\ \A i \in 1..m : i < k => i \in 1..m - 1 /\ w[i] = q[i]
      /\ \A i \in 1..m : i > k => i - 1 \in 1..m - 1 /\ w[i - 1] = q[i]
  <2>1. m \in Nat /\ q \in [1..m -> Timers]
    BY <1>1
  <2> QED
    BY <2>1, WithoutIs
<1> HIDE DEF w
<1>3. ASSUME NEW i \in 1..m - 1, NEW j \in 1..m - 1, w[i] = w[j] PROVE i = j
  <2>1. ASSUME NEW x \in 1..m - 1
        PROVE  \E y \in 1..m : w[x] = q[y] /\ y = IF x < k THEN x ELSE x + 1
    <3>1. CASE x < k
      BY <1>2, <3>1
    <3>2. CASE x >= k
      <4>1. PICK y : y = x + 1
        OBVIOUS
      <4> QED
        BY <1>2, <3>2, <4>1
    <3> QED
      BY <3>1, <3>2
  <2>2. PICK g \in 1..m : w[i] = q[g] /\ g = IF i < k THEN i ELSE i + 1
    BY <2>1
  <2>3. PICK h \in 1..m : w[j] = q[h] /\ h = IF j < k THEN j ELSE j + 1
    BY <2>1
  <2>4. q[g] = q[h]
    BY <1>3, <2>2, <2>3
  <2>5. g = h
    BY <1>1, <2>4
  <2> QED
    BY <2>2, <2>3, <2>5
<1>4. ASSUME NEW i \in 1..m - 1 PROVE w[i] \in A \ {q[k]}
  <2>1. PICK g \in 1..m : w[i] = q[g] /\ g # k
    <3>1. CASE i < k
      BY <1>2, <3>1
    <3>2. CASE i >= k
      <4>1. PICK h : h = i + 1
        OBVIOUS
      <4> QED
        BY <1>2, <3>2, <4>1
    <3> QED
      BY <3>1, <3>2
  <2>2. q[g] \in A /\ q[g] # q[k]
    BY <1>1, <2>1
  <2> QED
    BY <2>1, <2>2
<1>5. ASSUME NEW x \in A \ {q[k]} PROVE \E i \in 1..m - 1 : w[i] = x
  <2>1. PICK i \in 1..m : q[i] = x
    BY <1>1
  <2>2. i < k \/ i > k
    BY <1>1, <2>1
  <2> QED
    BY <1>2, <2>1, <2>2
<1>6. ASSUME NEW i \in 1..m - 1 PROVE n2[w[i]] = IF i = m - 1 THEN NULL ELSE w[i + 1]
  <2>1. CASE i < k - 1
    <3>1. i \in 1..m /\ i + 1 \in 1..m /\ i # m /\ i # m - 1 /\ i + 1 < k /\ i # k /\ i < k /\ i # k - 1
      BY <1>0, <1>1, <2>1
    <3>2. w[i] = q[i] /\ w[i + 1] = q[i + 1]
      BY <1>2, <3>1
    <3> QED
      BY <1>0, <1>1, <3>1, <3>2
  <2>2. CASE i = k - 1
    <3>1. i \in 1..m /\ i < k /\ i # k /\ w[i] = q[i] /\ (i = m - 1 <=> k = m) /\ i + 1 = k
      BY <1>1, <1>2, <2>2
    <3>2. k # m => w[k] = q[k + 1]
      <4>1. k # m => k \in 1..m - 1 /\ ~(k < k)
        BY <1>1
      <4> QED
        BY <1>2, <4>1
    <3> QED
      BY <1>0, <1>1, <2>2, <3>1, <3>2 DEF Node
  <2>3. CASE i >= k
    <3>1. PICK j : j = i + 1
      OBVIOUS
    <3>2. j \in 1..m /\ j # k /\ j # k - 1 /\ (i = m - 1 <=> j = m) /\ j > k
      BY <1>1, <2>3, <3>1
    <3>3. w[i] = q[j]
      BY <1>2, <2>3, <3>1
    <3>4. CASE j = m
      BY <1>0, <1>1, <3>2, <3>3, <3>4
    <3>5. CASE j # m
      <4>1. PICK h : h = j + 1
        OBVIOUS
      <4>2. h \in 1..m /\ h > k /\ h - 1 = j
        BY <1>1, <3>2, <3>5, <4>1
      <4>3. w[j] = q[h]
        BY <1>2, <4>2
      <4> QED
        BY <1>0, <1>1, <3>1, <3>2, <3>3, <3>5, <4>1, <4>2, <4>3
    <3> QED
      BY <3>4, <3>5
  <2> QED
    BY <1>1, <2>1, <2>2, <2>3
<1>7. ASSUME NEW i \in 1..m - 1 PROVE v2[w[i]] = IF i = 1 THEN NULL ELSE w[i - 1]
  <2>1. CASE i < k
    <3>1. i \in 1..m /\ i # k /\ i # k + 1 /\ w[i] = q[i]
      BY <1>1, <1>2, <2>1
    <3>2. i # 1 => i - 1 \in 1..m /\ i - 1 < k
      BY <1>1, <2>1
    <3>3. i # 1 => w[i - 1] = q[i - 1]
      BY <1>2, <3>2
    <3> QED
      BY <1>0, <1>1, <3>1, <3>3
  <2>2. CASE i = k
    <3>1. PICK j : j = k + 1
      OBVIOUS
    <3>2. j \in 1..m /\ j # k /\ w[i] = q[j]
      BY <1>1, <1>2, <2>2, <3>1
    <3>3. v2[q[j]] = IF k = 1 THEN NULL ELSE q[k - 1]
      BY <1>0, <3>1, <3>2
    <3>4. k # 1 => k - 1 \in 1..m /\ k - 1 < k
      BY <1>1
    <3>5. k # 1 => w[k - 1] = q[k - 1]
      BY <1>2, <3>4
    <3> QED
      BY <2>2, <3>2, <3>3, <3>5
  <2>3. CASE i > k
    <3>1. PICK j : j = i + 1
      OBVIOUS
    <3>2. j \in 1..m /\ j # k /\ j # k + 1 /\ j # 1 /\ j - 1 = i /\ i # 1 /\ i \in 1..m /\ i >= k
      BY <1>1, <2>3, <3>1
    <3>3. w[i] = q[j] /\ w[i - 1] = q[i]
      BY <1>2, <2>3, <3>1, <3>2
    <3> QED
      BY <1>0, <1>1, <3>2, <3>3
  <2> QED
    BY <1>1, <2>1, <2>2, <2>3
<1> QED
  BY <1>0, <1>2, <1>3, <1>4, <1>5, <1>6, <1>7 DEF Linked, w

(* A timer that is put where it belongs keeps the order. *)
LEMMA InsertedOrder ==
  ASSUME NEW m \in Nat, NEW q \in [1..m -> Timers], NEW k \in 0..m, NEW t \in Timers,
         NEW e \in [Timers -> Nat], NEW e2 \in [Timers -> Nat], InOrder(q, m, e),
         \A i \in 1..m : e2[q[i]] = e[q[i]],
         k > 0 => e[q[k]] <= e2[t],
         k < m => e2[t] <= e[q[k + 1]]
  PROVE  InOrder(With(q, m, k, t), m + 1, e2)
<1> DEFINE w == With(q, m, k, t)
<1>1. Widened(w, q, m, k, t)
  BY WithIs
<1> HIDE DEF w
<1>2. \A i \in 1..m : e[q[i]] \in Nat /\ e2[t] \in Nat
  OBVIOUS
<1>3. \A i \in 1..m : i <= k => e[q[i]] <= e2[t]
  <2>1. ASSUME NEW i \in 1..m, i <= k PROVE e[q[i]] <= e2[t]
    <3>1. k \in 1..m
      BY <2>1
    <3>2. e[q[i]] <= e[q[k]] /\ e[q[k]] <= e2[t]
      BY <2>1, <3>1 DEF InOrder
    <3> QED
      BY <1>2, <3>1, <3>2
  <2> QED
    BY <2>1
<1>4. \A i \in 1..m : i > k => e2[t] <= e[q[i]]
  <2>1. ASSUME NEW i \in 1..m, i > k PROVE e2[t] <= e[q[i]]
    <3>1. PICK j : j = k + 1
      OBVIOUS
    <3>2. j \in 1..m /\ j <= i /\ k < m
      BY <2>1, <3>1
    <3>3. e[q[j]] <= e[q[i]] /\ e2[t] <= e[q[j]]
      BY <2>1, <3>1, <3>2 DEF InOrder
    <3> QED
      BY <1>2, <3>2, <3>3
  <2> QED
    BY <2>1
<1>5. ASSUME NEW i \in 1..m + 1, NEW j \in 1..m + 1, i <= j PROVE e2[w[i]] <= e2[w[j]]
  <2>1. ASSUME NEW x \in 1..m + 1
        PROVE  \/ x <= k /\ x \in 1..m /\ w[x] = q[x]
               \/ x = k + 1 /\ w[x] = t
               \/ x > k + 1 /\ x - 1 \in 1..m /\ w[x] = q[x - 1]
    BY <1>1 DEF Widened
  <2>2. CASE i <= k
    <3>1. i \in 1..m /\ w[i] = q[i] /\ e2[w[i]] = e[q[i]] /\ e[q[i]] <= e2[t]
      BY <1>3, <2>1, <2>2
    <3>2. CASE j <= k
      BY <1>5, <2>1, <3>1, <3>2 DEF InOrder
    <3>3. CASE j = k + 1
      BY <2>1, <3>1, <3>3
    <3>4. CASE j > k + 1
      <4>1. PICK h : h = j - 1
        OBVIOUS
      <4>2. h \in 1..m /\ w[j] = q[h] /\ i <= h
        BY <2>1, <2>2, <3>4, <4>1
      <4> QED
        BY <3>1, <4>2 DEF InOrder
    <3> QED
      BY <3>2, <3>3, <3>4
  <2>3. CASE i = k + 1
    <3>1. w[i] = t
      BY <2>1, <2>3
    <3>2. CASE j = i
      BY <1>2, <3>1, <3>2
    <3>3. CASE j # i
      <4>1. PICK h : h = j - 1
        OBVIOUS
      <4>2. h \in 1..m /\ w[j] = q[h] /\ h > k
        BY <1>5, <2>1, <2>3, <3>3, <4>1
      <4> QED
        BY <1>4, <3>1, <4>2
    <3> QED
      BY <3>2, <3>3
  <2>4. CASE i > k + 1
    <3>1. PICK g : g = i - 1
      OBVIOUS
    <3>2. PICK h : h = j - 1
      OBVIOUS
    <3>3. g \in 1..m /\ w[i] = q[g] /\ h \in 1..m /\ w[j] = q[h] /\ g <= h
      BY <1>5, <2>1, <2>4, <3>1, <3>2
    <3> QED
      BY <3>3 DEF InOrder
  <2> QED
    BY <2>2, <2>3, <2>4
<1> QED
  BY <1>5 DEF InOrder, w

(* So does a timer that goes. *)
LEMMA RemovedOrder ==
  ASSUME NEW m \in Nat, NEW q \in [1..m -> Timers], NEW k \in 1..m,
         NEW e, NEW e2, InOrder(q, m, e), \A i \in 1..m : i # k => e2[q[i]] = e[q[i]]
  PROVE  InOrder(Without(q, m, k), m - 1, e2)
<1> DEFINE w == Without(q, m, k)
<1>1. \A x \in 1..m - 1 : \/ x < k /\ x \in 1..m /\ w[x] = q[x]
                          \/ x >= k /\ x + 1 \in 1..m /\ w[x] = q[x + 1]
  BY WithoutIs
<1> HIDE DEF w
<1>2. ASSUME NEW x \in 1..m - 1
      PROVE  \E y \in 1..m : y # k /\ w[x] = q[y] /\ y = IF x < k THEN x ELSE x + 1
  <2>1. CASE x < k
    BY <1>1, <2>1
  <2>2. CASE x >= k
    <3>1. PICK y : y = x + 1
      OBVIOUS
    <3> QED
      BY <1>1, <2>2, <3>1
  <2> QED
    BY <2>1, <2>2
<1>3. ASSUME NEW i \in 1..m - 1, NEW j \in 1..m - 1, i <= j PROVE e2[w[i]] <= e2[w[j]]
  <2>1. PICK g \in 1..m : g # k /\ w[i] = q[g] /\ g = IF i < k THEN i ELSE i + 1
    BY <1>2
  <2>2. PICK h \in 1..m : h # k /\ w[j] = q[h] /\ h = IF j < k THEN j ELSE j + 1
    BY <1>2
  <2>3. g <= h
    BY <1>3, <2>1, <2>2
  <2> QED
    BY <2>1, <2>2, <2>3 DEF InOrder
<1> QED
  BY <1>3 DEF InOrder, w

(* The order without the first d. *)
Behind(q, m, d) == [i \in 1..m - d |-> q[i + d]]

(* n2, v2 and e2 are what n, v and e were, behind place d. *)
Remains(q, m, d, n, v, e, n2, v2, e2) ==
  /\ n2 \in [Timers -> L!Pointer] /\ v2 \in [Timers -> L!Pointer]
  /\ \A i \in d + 1..m : n2[q[i]] = n[q[i]] /\ e2[q[i]] = e[q[i]]
  /\ \A i \in d + 1..m : v2[q[i]] = IF i = d + 1 THEN NULL ELSE v[q[i]]

(* tick cuts off the first d of the list. *)
LEMMA CutOff ==
  ASSUME NEW m, NEW q, NEW A \in SUBSET Timers, NEW n, NEW v, Linked(q, m, A, n, v), NEW d \in 0..m,
         NEW n2, NEW v2, NEW e, NEW e2, InOrder(q, m, e), Remains(q, m, d, n, v, e, n2, v2, e2)
  PROVE  /\ Linked(Behind(q, m, d), m - d, A \ {q[i] : i \in 1..d}, n2, v2)
         /\ InOrder(Behind(q, m, d), m - d, e2)
<1>0. /\ n2 \in [Timers -> L!Pointer] /\ v2 \in [Timers -> L!Pointer]
      /\ \A i \in d + 1..m : n2[q[i]] = n[q[i]] /\ e2[q[i]] = e[q[i]]
      /\ \A i \in d + 1..m : v2[q[i]] = IF i = d + 1 THEN NULL ELSE v[q[i]]
  BY DEF Remains
<1>1. /\ m \in Nat /\ q \in [1..m -> Timers]
      /\ \A i, j \in 1..m : q[i] = q[j] => i = j
      /\ \A i \in 1..m : q[i] \in A
      /\ \A x \in A : \E i \in 1..m : q[i] = x
      /\ \A i \in 1..m : n[q[i]] = IF i = m THEN NULL ELSE q[i + 1]
      /\ \A i \in 1..m : v[q[i]] = IF i = 1 THEN NULL ELSE q[i - 1]
  BY DEF Linked
<1> DEFINE w == Behind(q, m, d)
<1>2. ASSUME NEW i \in 1..m - d
      PROVE  \E j \in d + 1..m : j = i + d /\ j \in 1..m /\ w[i] = q[j]
  <2>1. PICK j : j = i + d
    OBVIOUS
  <2>2. j \in d + 1..m /\ j \in 1..m
    BY <1>1, <2>1
  <2> QED
    BY <2>1, <2>2 DEF Behind
<1>3. w \in [1..m - d -> Timers] /\ m - d \in Nat
  <2>1. \A i \in 1..m - d : q[i + d] \in Timers
    BY <1>1
  <2> QED
    BY <1>1, <2>1 DEF Behind
<1>4. \A j \in d + 1..m : j - d \in 1..m - d /\ w[j - d] = q[j]
  <2>1. ASSUME NEW j \in d + 1..m PROVE j - d \in 1..m - d /\ w[j - d] = q[j]
    <3>1. PICK i : i = j - d
      OBVIOUS
    <3>2. i \in 1..m - d /\ i + d = j
      BY <1>1, <3>1
    <3> QED
      BY <3>1, <3>2 DEF Behind
  <2> QED
    BY <2>1
<1> HIDE DEF w
<1>5. ASSUME NEW i \in 1..m - d, NEW j \in 1..m - d, w[i] = w[j] PROVE i = j
  <2>1. PICK g \in d + 1..m : g = i + d /\ g \in 1..m /\ w[i] = q[g]
    BY <1>2
  <2>2. PICK h \in d + 1..m : h = j + d /\ h \in 1..m /\ w[j] = q[h]
    BY <1>2
  <2>3. q[g] = q[h]
    BY <1>5, <2>1, <2>2
  <2>4. g = h
    BY <1>1, <2>1, <2>2, <2>3
  <2> QED
    BY <1>1, <2>1, <2>2, <2>4
<1>6. ASSUME NEW i \in 1..m - d PROVE w[i] \in A \ {q[j] : j \in 1..d}
  <2>1. PICK g \in d + 1..m : g = i + d /\ g \in 1..m /\ w[i] = q[g]
    BY <1>2
  <2>2. \A j \in 1..d : j \in 1..m /\ j # g
    BY <1>1, <2>1
  <2>3. \A j \in 1..d : q[j] # q[g]
    BY <1>1, <2>1, <2>2
  <2> QED
    BY <1>1, <2>1, <2>3
<1>7. ASSUME NEW x \in A \ {q[j] : j \in 1..d} PROVE \E i \in 1..m - d : w[i] = x
  <2>1. PICK g \in 1..m : q[g] = x
    BY <1>1
  <2>2. g \in d + 1..m
    BY <1>1, <2>1
  <2> QED
    BY <1>4, <2>1, <2>2
<1>8. ASSUME NEW i \in 1..m - d PROVE n2[w[i]] = IF i = m - d THEN NULL ELSE w[i + 1]
  <2>1. PICK g \in d + 1..m : g = i + d /\ g \in 1..m /\ w[i] = q[g]
    BY <1>2
  <2>2. g = m <=> i = m - d
    BY <1>1, <2>1
  <2>3. i # m - d => w[i + 1] = q[g + 1]
    <3>1. PICK h : h = g + 1
      OBVIOUS
    <3>2. i # m - d => h \in d + 1..m /\ h - d = i + 1
      BY <1>1, <2>1, <3>1
    <3> QED
      BY <1>4, <3>1, <3>2
  <2>4. n2[w[i]] = n[q[g]]
    BY <1>0, <2>1
  <2>5. n[q[g]] = IF g = m THEN NULL ELSE q[g + 1]
    BY <1>1, <2>1
  <2> QED
    BY <2>2, <2>3, <2>4, <2>5
<1>9. ASSUME NEW i \in 1..m - d PROVE v2[w[i]] = IF i = 1 THEN NULL ELSE w[i - 1]
  <2>1. PICK g \in d + 1..m : g = i + d /\ g \in 1..m /\ w[i] = q[g]
    BY <1>2
  <2>2. g = d + 1 <=> i = 1
    BY <1>1, <2>1
  <2>3. i # 1 => w[i - 1] = q[g - 1] /\ g # 1
    <3>1. PICK h : h = g - 1
      OBVIOUS
    <3>2. i # 1 => h \in d + 1..m /\ h - d = i - 1 /\ g # 1
      BY <1>1, <2>1, <3>1
    <3> QED
      BY <1>4, <3>1, <3>2
  <2>4. v2[w[i]] = IF g = d + 1 THEN NULL ELSE v[q[g]]
    BY <1>0, <2>1
  <2>5. v[q[g]] = IF g = 1 THEN NULL ELSE q[g - 1]
    BY <1>1, <2>1
  <2> QED
    BY <2>2, <2>3, <2>4, <2>5
<1>10. ASSUME NEW i \in 1..m - d, NEW j \in 1..m - d, i <= j PROVE e2[w[i]] <= e2[w[j]]
  <2>1. PICK g \in d + 1..m : g = i + d /\ g \in 1..m /\ w[i] = q[g]
    BY <1>2
  <2>2. PICK h \in d + 1..m : h = j + d /\ h \in 1..m /\ w[j] = q[h]
    BY <1>2
  <2>3. g <= h
    BY <1>1, <1>10, <2>1, <2>2
  <2> QED
    BY <1>0, <2>1, <2>2, <2>3 DEF InOrder
<1>11. Linked(w, m - d, A \ {q[i] : i \in 1..d}, n2, v2)
  BY <1>0, <1>3, <1>5, <1>6, <1>7, <1>8, <1>9 DEF Linked
<1> QED
  BY <1>10, <1>11 DEF InOrder, w

(* A timer that does not have a place gets one: where its neighbours point. *)
LEMMA InsertsFrom ==
  ASSUME NEW m, NEW w, NEW A \in SUBSET Timers, NEW n, NEW v, Linked(w, m, A, n, v),
         L!TimerListAssumption,
         NEW t \in Timers, t \notin A, NEW k \in 1..m, NEW p, NEW h,
         L!Place(p, l_expire'[t]) = [before |-> w[k], after |-> Node(w, m, k + 1)],
         L!InsertFrom(p, t, n, v), Ends(w, m, h, tail)
  PROVE  /\ Linked(With(w, m, k, t), m + 1, A \cup {t}, l_next', l_prev')
         /\ Ends(With(w, m, k, t), m + 1, h, tail')
<1> DEFINE b == w[k]
           a == Node(w, m, k + 1)
<1>1. /\ m \in Nat /\ w \in [1..m -> Timers] /\ n \in [Timers -> L!Pointer] /\ v \in [Timers -> L!Pointer]
      /\ \A i, j \in 1..m : w[i] = w[j] => i = j
      /\ \A i \in 1..m : w[i] \in A /\ w[i] # t
      /\ NULL \notin Timers
  BY DEF Linked, L!TimerListAssumption
<1>2. b \in Timers /\ a \in L!Pointer /\ (a = NULL <=> k = m) /\ b # t /\ a # t
  BY <1>1 DEF Node, L!Pointer
<1>3. /\ l_next' = [n EXCEPT ![b] = t, ![t] = a]
      /\ l_prev' = [x \in Timers |-> IF x = a THEN t ELSE IF x = t THEN b ELSE v[x]]
      /\ tail' = IF a = NULL THEN t ELSE tail
  BY DEF L!InsertFrom
<1>4. l_next' \in [Timers -> L!Pointer] /\ l_prev' \in [Timers -> L!Pointer]
  BY <1>1, <1>2, <1>3 DEF L!Pointer
<1>5. l_next'[t] = a /\ l_prev'[t] = b
  BY <1>1, <1>2, <1>3
<1>6. ASSUME NEW i \in 1..m PROVE l_next'[w[i]] = IF i = k THEN t ELSE n[w[i]]
  BY <1>1, <1>2, <1>3
<1>7. ASSUME NEW i \in 1..m PROVE l_prev'[w[i]] = IF i = k + 1 THEN t ELSE v[w[i]]
  <2>1. w[i] = a <=> i = k + 1
    <3>1. CASE k = m
      BY <1>1, <1>2, <3>1
    <3>2. CASE k # m
      <4>1. k + 1 \in 1..m /\ a = w[k + 1]
        BY <1>1, <3>2 DEF Node
      <4> QED
        BY <1>1, <4>1
    <3> QED
      BY <3>1, <3>2
  <2> QED
    BY <1>1, <1>3, <2>1
<1>8. Linked(With(w, m, k, t), m + 1, A \cup {t}, l_next', l_prev')
  <2>1. k \in 0..m /\ k # 0
    BY <1>1
  <2>2. Enlist(w, m, k, t, n, v, l_next', l_prev')
    BY <1>4, <1>5, <1>6, <1>7, <2>1 DEF Enlist
  <2> QED
    BY <2>1, <2>2, Inserted
<1>9. Ends(With(w, m, k, t), m + 1, h, tail')
  <2>1. Widened(With(w, m, k, t), w, m, k, t)
    BY <1>1, WithIs
  <2>2. 1 \in 1..m /\ m \in 1..m /\ m # 0 /\ m + 1 # 0
    BY <1>1
  <2>3. With(w, m, k, t)[1] = w[1]
    BY <1>1, <2>1, <2>2 DEF Widened
  <2>4. k # m => With(w, m, k, t)[m + 1] = w[m]
    BY <1>1, <2>1, <2>2 DEF Widened
  <2>5. k = m => With(w, m, k, t)[m + 1] = t
    BY <2>1 DEF Widened
  <2>6. tail' \in L!Pointer
    BY <1>3 DEF Ends, L!Pointer
  <2> QED
    BY <1>2, <1>3, <2>2, <2>3, <2>4, <2>5, <2>6 DEF Ends
<1> QED
  BY <1>8, <1>9

(* The time a timer has left, as the set of timers knows it. *)
ListLeft(t) == IF t \notin l_allocated THEN -1 ELSE IF l_expire[t] > l_now THEN l_expire[t] - l_now ELSE 0

(* add_timer keeps the list in order. *)
LEMMA ListInvAdd ==
  ASSUME L!TimerListAssumption, ListInv, NEW t \in Timers, NEW e \in l_now..MaxTime, L!AddTimer(t, e)
  PROVE  ListInv' /\ e - l_now \in 0..MaxTime /\ L!Abstract!Add(t, e - l_now)
<1>1. /\ MaxTime \in Nat /\ l_now \in 0..MaxTime /\ l_expire \in [Timers -> 0..MaxTime]
      /\ l_allocated \in SUBSET Timers /\ e \in 0..MaxTime /\ e \in Nat /\ NULL \notin Timers
  BY DEF ListInv, ListTypes, L!TimerListAssumption
<1>a. PICK m \in Nat : \E q \in [1..m -> Timers] :
        Linked(q, m, l_allocated, l_next, l_prev) /\ InOrder(q, m, l_expire) /\ Ends(q, m, head, tail)
  BY DEF ListInv
<1>2. PICK q \in [1..m -> Timers] :
        Linked(q, m, l_allocated, l_next, l_prev) /\ InOrder(q, m, l_expire) /\ Ends(q, m, head, tail)
  BY <1>a
<1>3. /\ t \notin l_allocated /\ l_allocated' = l_allocated \cup {t}
      /\ l_expire' = [l_expire EXCEPT ![t] = e] /\ l_fired' = {} /\ l_now' = l_now
  BY DEF L!AddTimer
<1> DEFINE n == [l_next EXCEPT ![t] = NULL]
           v == [l_prev EXCEPT ![t] = NULL]
<1>4. l_next \in [Timers -> L!Pointer] /\ l_prev \in [Timers -> L!Pointer]
  BY <1>2 DEF Linked
<1>5. \A i \in 1..m : q[i] \in l_allocated /\ q[i] # t
  BY <1>2, <1>3 DEF Linked
<1>6. n \in [Timers -> L!Pointer] /\ v \in [Timers -> L!Pointer] /\ n[t] = NULL /\ v[t] = NULL
      /\ \A i \in 1..m : n[q[i]] = l_next[q[i]] /\ v[q[i]] = l_prev[q[i]]
  BY <1>4, <1>5 DEF L!Pointer
<1>7. Linked(q, m, l_allocated, n, v)
  BY <1>2, <1>6 DEF Linked
<1>8. head = Node(q, m, 1) /\ (head = NULL <=> m = 0)
  BY <1>1, <1>2 DEF Ends, Node
<1>9. /\ l_expire' \in [Timers -> 0..MaxTime] /\ l_expire' \in [Timers -> Nat] /\ l_expire \in [Timers -> Nat]
      /\ l_expire'[t] = e /\ \A i \in 1..m : l_expire'[q[i]] = l_expire[q[i]]
  BY <1>1, <1>3, <1>5
<1>10. \E k \in 0..m : /\ Linked(With(q, m, k, t), m + 1, l_allocated', l_next', l_prev')
                       /\ Ends(With(q, m, k, t), m + 1, head', tail')
                       /\ k > 0 => l_expire[q[k]] <= e
                       /\ k < m => e <= l_expire[q[k + 1]]
  <2>1. CASE head = NULL \/ (head # NULL /\ e < l_expire[head])
    <3>1. /\ head' = t /\ l_next' \in [Timers -> L!Pointer] /\ l_prev' \in [Timers -> L!Pointer]
          /\ l_next'[t] = Node(q, m, 1) /\ l_prev'[t] = NULL
          /\ \A i \in 1..m : l_next'[q[i]] = n[q[i]] /\ l_prev'[q[i]] = IF i = 1 THEN t ELSE v[q[i]]
          /\ tail' = IF m = 0 THEN t ELSE tail
      <4>1. CASE head = NULL
        <5>1. head' = t /\ tail' = t /\ l_next' = n /\ l_prev' = v
          BY <4>1 DEF L!AddTimer
        <5> HIDE DEF n, v
        <5>2. m = 0
          BY <1>8, <4>1
        <5> QED
          BY <1>6, <4>1, <5>1, <5>2, <1>8
      <4>2. CASE head # NULL
        <5>a. head \in Timers /\ l_expire[head] \in Nat
          BY <1>2, <1>9, <4>2 DEF Ends, L!Pointer
        <5>b. ~(e >= l_expire[head])
          BY <1>1, <2>1, <4>2, <5>a
        <5>1. head' = t /\ tail' = tail /\ l_next' = [n EXCEPT ![t] = head] /\ l_prev' = [v EXCEPT ![head] = t]
          BY <4>2, <5>b DEF L!AddTimer
        <5>2. m # 0 /\ head = q[1] /\ 1 \in 1..m /\ head \in Timers /\ head # t
          BY <1>2, <1>5, <1>8, <4>2 DEF Ends
        <5>3. \A i \in 1..m : q[i] = head => i = 1
          BY <1>2, <5>2 DEF Linked
        <5> HIDE DEF n, v
        <5> QED
          BY <1>5, <1>6, <1>8, <5>1, <5>2, <5>3 DEF L!Pointer
      <4> QED
        BY <4>1, <4>2
    <3>2. Linked(With(q, m, 0, t), m + 1, l_allocated \cup {t}, l_next', l_prev')
      <4>1. PICK z : z = 0
        OBVIOUS
      <4>2. z \in 0..m /\ z + 1 = 1 /\ \A i \in 1..m : i # z
        BY <4>1
      <4> HIDE DEF n, v
      <4>3. /\ l_next'[t] = Node(q, m, z + 1) /\ l_prev'[t] = IF z = 0 THEN NULL ELSE q[z]
            /\ \A i \in 1..m : l_next'[q[i]] = IF i = z THEN t ELSE n[q[i]]
            /\ \A i \in 1..m : l_prev'[q[i]] = IF i = z + 1 THEN t ELSE v[q[i]]
        BY <3>1, <4>1, <4>2
      <4>4. l_next' \in [Timers -> L!Pointer] /\ l_prev' \in [Timers -> L!Pointer]
        BY <3>1
      <4>5. l_allocated \in SUBSET Timers /\ t \notin l_allocated /\ z \in 0..m
        BY <1>1, <1>3, <4>2
      <4>6. Enlist(q, m, z, t, n, v, l_next', l_prev')
        BY <4>3, <4>4 DEF Enlist
      <4>7. Linked(With(q, m, z, t), m + 1, l_allocated \cup {t}, l_next', l_prev')
        BY <1>7, <4>5, <4>6, Inserted
      <4> QED
        BY <4>1, <4>7
    <3>3. Ends(With(q, m, 0, t), m + 1, head', tail')
      <4>1. Widened(With(q, m, 0, t), q, m, 0, t)
        BY WithIs
      <4>2. With(q, m, 0, t)[1] = t
        BY <4>1 DEF Widened
      <4>3. m # 0 => With(q, m, 0, t)[m + 1] = q[m]
        BY <4>1 DEF Widened
      <4>4. m + 1 # 0 /\ (m = 0 => m + 1 = 1)
        OBVIOUS
      <4> QED
        BY <1>2, <3>1, <4>2, <4>3, <4>4 DEF Ends, L!Pointer
    <3>4. 0 < m => e <= l_expire[q[0 + 1]]
      <4>1. ASSUME 0 < m PROVE head = q[1] /\ head # NULL /\ l_expire[q[1]] \in Nat /\ e < l_expire[q[1]]
        BY <1>2, <1>8, <1>9, <2>1, <4>1 DEF Ends
      <4> QED
        BY <1>1, <4>1
    <3> QED
      BY <1>3, <3>2, <3>3, <3>4
  <2>2. CASE head # NULL /\ ~(e < l_expire[head])
    <3>1. head' = head /\ L!InsertFrom(head, t, n, v)
      BY <1>1, <2>2 DEF L!AddTimer
    <3>2. m # 0 /\ head = q[1] /\ 1 \in 1..m /\ l_expire[q[1]] <= e
      BY <1>1, <1>2, <1>8, <1>9, <2>2 DEF Ends
    <3>3. PICK k \in 1..m :
            /\ L!Place(q[1], e) = [before |-> q[k], after |-> Node(q, m, k + 1)]
            /\ \A j \in 1 + 1..k : l_expire[q[j]] <= e
            /\ k < m => e < l_expire[q[k + 1]]
      BY <1>1, <1>2, <1>9, <3>2, PlaceIs
    <3> HIDE DEF n, v
    <3>4. /\ Linked(With(q, m, k, t), m + 1, l_allocated \cup {t}, l_next', l_prev')
          /\ Ends(With(q, m, k, t), m + 1, head, tail')
      BY <1>1, <1>2, <1>3, <1>7, <1>9, <3>1, <3>2, <3>3, InsertsFrom
    <3>5. l_expire[q[k]] <= e
      <4>1. CASE k = 1
        BY <3>2, <4>1
      <4>2. CASE k # 1
        BY <3>3, <4>2
      <4> QED
        BY <4>1, <4>2
    <3>6. k < m => e <= l_expire[q[k + 1]]
      <4>1. ASSUME k < m PROVE e <= l_expire[q[k + 1]]
        <5>1. k + 1 \in 1..m
          BY <4>1
        <5>2. l_expire[q[k + 1]] \in Nat
          BY <1>9, <5>1
        <5> QED
          BY <1>1, <3>3, <4>1, <5>2
      <4> QED
        BY <4>1
    <3>7. k \in 0..m
      OBVIOUS
    <3> QED
      BY <1>3, <3>1, <3>4, <3>5, <3>6, <3>7
  <2> QED
    BY <2>1, <2>2
<1>11. ListInv'
  <2>1. PICK k \in 0..m : /\ Linked(With(q, m, k, t), m + 1, l_allocated', l_next', l_prev')
                          /\ Ends(With(q, m, k, t), m + 1, head', tail')
                          /\ k > 0 => l_expire[q[k]] <= e
                          /\ k < m => e <= l_expire[q[k + 1]]
    BY <1>10
  <2> HIDE DEF n, v
  <2>2. InOrder(With(q, m, k, t), m + 1, l_expire')
    BY <1>2, <1>9, <2>1, InsertedOrder
  <2>3. m + 1 \in Nat /\ With(q, m, k, t) \in [1..m + 1 -> Timers]
    BY <2>1 DEF Linked
  <2>4. ListTypes'
    BY <1>1, <1>3, <1>9 DEF ListTypes
  <2>5. \E mm \in Nat : \E qq \in [1..mm -> Timers] :
          Linked(qq, mm, l_allocated', l_next', l_prev') /\ InOrder(qq, mm, l_expire') /\ Ends(qq, mm, head', tail')
    BY <2>1, <2>2, <2>3
  <2> QED
    BY <2>4, <2>5 DEF ListInv
<1>12. e - l_now \in 0..MaxTime
  BY <1>1
<1>13. L!Abstract!Add(t, e - l_now)
  <2>1. \A x \in Timers : ListLeft(x)' = IF x = t THEN e - l_now ELSE ListLeft(x)
    BY <1>1, <1>3 DEF ListLeft
  <2>2. \A x \in Timers : [y \in Timers |-> ListLeft(y)][x] = ListLeft(x)
    OBVIOUS
  <2>3. [x \in Timers |-> ListLeft(x)]' = [[x \in Timers |-> ListLeft(x)] EXCEPT ![t] = e - l_now]
    BY <2>1
  <2>4. ListLeft(t) = -1
    BY <1>3 DEF ListLeft
  <2> QED
    BY <1>3, <2>2, <2>3, <2>4 DEF L!Abstract!Add, L!Abstract!Pending, L!Abstract!Unset, ListLeft
<1> QED
  BY <1>11, <1>12, <1>13

(* The empty list is in order. *)
LEMMA ListInvInit ==
  ASSUME L!TimerListAssumption, L!Init
  PROVE  ListInv /\ L!Abstract!Init
<1>1. ListTypes
  BY DEF L!Init, ListTypes, L!TimerListAssumption
<1>2. PICK m \in Nat : m = 0
  OBVIOUS
<1>3. PICK q \in [1..m -> Timers] : TRUE
  <2>1. [i \in 1..m |-> CHOOSE x \in Timers : TRUE] \in [1..m -> Timers]
    BY <1>2
  <2> QED
    BY <2>1
<1>4. 1..m = {}
  BY <1>2
<1>5. Linked(q, m, l_allocated, l_next, l_prev) /\ InOrder(q, m, l_expire) /\ Ends(q, m, head, tail)
  BY <1>2, <1>4 DEF L!Init, Linked, InOrder, Ends, L!Pointer
<1>6. L!Abstract!Init
  BY DEF L!Init, L!Abstract!Init, L!Abstract!Unset
<1> QED
  BY <1>1, <1>5, <1>6 DEF ListInv

(* del_timer keeps the list in order. *)
LEMMA ListInvDel ==
  ASSUME L!TimerListAssumption, ListInv, NEW t \in Timers, L!DelTimer(t)
  PROVE  ListInv' /\ L!Abstract!Cancel(t)
<1>1. /\ MaxTime \in Nat /\ l_now \in 0..MaxTime /\ l_expire \in [Timers -> 0..MaxTime]
      /\ l_allocated \in SUBSET Timers /\ NULL \notin Timers
  BY DEF ListInv, ListTypes, L!TimerListAssumption
<1>a. PICK m \in Nat : \E q \in [1..m -> Timers] :
        Linked(q, m, l_allocated, l_next, l_prev) /\ InOrder(q, m, l_expire) /\ Ends(q, m, head, tail)
  BY DEF ListInv
<1>2. PICK q \in [1..m -> Timers] :
        Linked(q, m, l_allocated, l_next, l_prev) /\ InOrder(q, m, l_expire) /\ Ends(q, m, head, tail)
  BY <1>a
<1>3. /\ t \in l_allocated /\ l_allocated' = l_allocated \ {t}
      /\ l_expire' = L!Forget(l_expire, {t}, 0) /\ l_fired' = {} /\ l_now' = l_now
  BY DEF L!DelTimer
<1>4. PICK j \in 1..m : q[j] = t
  BY <1>2, <1>3 DEF Linked
<1>5. /\ \A g, h \in 1..m : q[g] = q[h] => g = h
      /\ l_next \in [Timers -> L!Pointer] /\ l_prev \in [Timers -> L!Pointer]
      /\ head = q[1] /\ tail = q[m] /\ 1 \in 1..m /\ m \in 1..m
      /\ \A i \in 1..m : q[i] \in Timers
  BY <1>2 DEF Linked, Ends
<1>6. PICK a, b : a = j + 1 /\ b = j - 1
  OBVIOUS
<1>7. /\ j # m => a \in 1..m /\ l_next[t] = q[a] /\ q[a] # t
      /\ j # 1 => b \in 1..m /\ l_prev[t] = q[b] /\ q[b] # t
      /\ a # j /\ b # j
  <2>1. (j # m => a \in 1..m) /\ (j # 1 => b \in 1..m) /\ a # j /\ b # j
    BY <1>6
  <2>2. (j # m => l_next[t] = q[a]) /\ (j # 1 => l_prev[t] = q[b])
    BY <1>2, <1>4, <1>6 DEF Linked
  <2> QED
    BY <1>4, <1>5, <2>1, <2>2
<1>8. (t = head <=> j = 1) /\ (t = tail <=> j = m)
  BY <1>4, <1>5
<1>9. Node(q, m, a) = IF j = m THEN NULL ELSE q[a]
  BY <1>6 DEF Node
<1>10. /\ l_next' \in [Timers -> L!Pointer] /\ l_prev' \in [Timers -> L!Pointer]
       /\ \A i \in 1..m : i # j => l_next'[q[i]] = IF i = b THEN Node(q, m, a) ELSE l_next[q[i]]
       /\ \A i \in 1..m : i # j => l_prev'[q[i]] = IF i = a THEN (IF j = 1 THEN NULL ELSE q[b]) ELSE l_prev[q[i]]
       /\ head' = IF j # 1 THEN q[1] ELSE IF j = m THEN NULL ELSE q[a]
       /\ tail' = IF j # m THEN q[m] ELSE IF j = 1 THEN NULL ELSE q[b]
  <2>0. \A i \in 1..m : i # j => q[i] # t
    BY <1>4, <1>5
  <2>1. CASE t = head /\ t = tail
    <3>1. head' = NULL /\ tail' = NULL /\ l_next' = l_next /\ l_prev' = l_prev
      BY <2>1 DEF L!DelTimer
    <3>2. j = 1 /\ j = m /\ \A i \in 1..m : i = j
      BY <1>8, <2>1
    <3> QED
      BY <1>5, <3>1, <3>2
  <2>2. CASE t = head /\ t # tail
    <3>1. /\ head' = l_next[t] /\ l_prev' = [l_prev EXCEPT ![l_next[t]] = NULL]
          /\ l_next' = L!Forget(l_next, {t}, NULL) /\ tail' = tail
      BY <2>2 DEF L!DelTimer
    <3>2. j = 1 /\ j # m /\ \A i \in 1..m : i # b
      BY <1>6, <1>8, <2>2
    <3>3. l_next' \in [Timers -> L!Pointer] /\ \A i \in 1..m : i # j => l_next'[q[i]] = l_next[q[i]]
      BY <1>5, <2>0, <3>1 DEF L!Forget, L!Pointer
    <3>4. l_next[t] = q[a] /\ a \in 1..m
      BY <1>7, <3>2
    <3>5. \A i \in 1..m : q[i] = q[a] => i = a
      BY <1>5, <3>4
    <3>6. l_prev' \in [Timers -> L!Pointer] /\ \A i \in 1..m : l_prev'[q[i]] = IF i = a THEN NULL ELSE l_prev[q[i]]
      BY <1>5, <3>1, <3>4, <3>5 DEF L!Pointer
    <3> QED
      BY <1>5, <3>1, <3>2, <3>3, <3>4, <3>6
  <2>3. CASE t # head /\ t = tail
    <3>1. /\ tail' = l_prev[t] /\ l_next' = [l_next EXCEPT ![l_prev[t]] = NULL]
          /\ l_prev' = L!Forget(l_prev, {t}, NULL) /\ head' = head
      BY <2>3 DEF L!DelTimer
    <3>2. j # 1 /\ j = m /\ \A i \in 1..m : i # a
      BY <1>6, <1>8, <2>3
    <3>3. l_prev' \in [Timers -> L!Pointer] /\ \A i \in 1..m : i # j => l_prev'[q[i]] = l_prev[q[i]]
      BY <1>5, <2>0, <3>1 DEF L!Forget, L!Pointer
    <3>4. l_prev[t] = q[b] /\ b \in 1..m
      BY <1>7, <3>2
    <3>5. \A i \in 1..m : q[i] = q[b] => i = b
      BY <1>5, <3>4
    <3>6. l_next' \in [Timers -> L!Pointer] /\ \A i \in 1..m : l_next'[q[i]] = IF i = b THEN NULL ELSE l_next[q[i]]
      BY <1>5, <3>1, <3>4, <3>5 DEF L!Pointer
    <3>7. Node(q, m, a) = NULL
      BY <1>9, <3>2
    <3> QED
      BY <1>5, <3>1, <3>2, <3>3, <3>4, <3>6, <3>7
  <2>4. CASE t # head /\ t # tail
    <3>1. /\ l_next' = L!Forget([l_next EXCEPT ![l_prev[t]] = l_next[t]], {t}, NULL)
          /\ l_prev' = L!Forget([l_prev EXCEPT ![l_next[t]] = l_prev[t]], {t}, NULL)
          /\ head' = head /\ tail' = tail
      BY <2>4 DEF L!DelTimer
    <3>2. j # 1 /\ j # m
      BY <1>8, <2>4
    <3>3. l_next[t] = q[a] /\ a \in 1..m /\ l_prev[t] = q[b] /\ b \in 1..m /\ q[a] \in Timers /\ q[b] \in Timers
      BY <1>5, <1>7, <3>2
    <3>4. (\A i \in 1..m : q[i] = q[a] => i = a) /\ (\A i \in 1..m : q[i] = q[b] => i = b)
      BY <1>5, <3>3
    <3>5. l_next' \in [Timers -> L!Pointer] /\ \A i \in 1..m : i # j => l_next'[q[i]] = IF i = b THEN q[a] ELSE l_next[q[i]]
      BY <1>5, <2>0, <3>1, <3>3, <3>4 DEF L!Forget, L!Pointer
    <3>6. l_prev' \in [Timers -> L!Pointer] /\ \A i \in 1..m : i # j => l_prev'[q[i]] = IF i = a THEN q[b] ELSE l_prev[q[i]]
      BY <1>5, <2>0, <3>1, <3>3, <3>4 DEF L!Forget, L!Pointer
    <3>7. Node(q, m, a) = q[a]
      BY <1>9, <3>2
    <3> QED
      BY <1>5, <3>1, <3>2, <3>5, <3>6, <3>7
  <2> QED
    BY <2>1, <2>2, <2>3, <2>4
<1>11. Linked(Without(q, m, j), m - 1, l_allocated \ {q[j]}, l_next', l_prev')
  <2>1. Bypass(q, m, j, l_next, l_prev, l_next', l_prev')
    BY <1>6, <1>10 DEF Bypass
  <2> QED
    BY <1>1, <1>2, <2>1, Removed
<1>12. \A x \in Timers : l_expire'[x] = IF x = t THEN 0 ELSE l_expire[x]
  BY <1>3 DEF L!Forget
<1>13. InOrder(Without(q, m, j), m - 1, l_expire')
  <2>1. \A i \in 1..m : i # j => l_expire'[q[i]] = l_expire[q[i]]
    BY <1>4, <1>5, <1>12
  <2>2. PICK e, e2 : e = l_expire /\ e2 = l_expire'
    OBVIOUS
  <2>3. InOrder(q, m, e) /\ \A i \in 1..m : i # j => e2[q[i]] = e[q[i]]
    BY <1>2, <2>1, <2>2
  <2>4. InOrder(Without(q, m, j), m - 1, e2)
    BY <2>3, RemovedOrder
  <2> QED
    BY <2>2, <2>4
<1>14. Ends(Without(q, m, j), m - 1, head', tail')
  <2>1. /\ \A i \in 1..m : i < j => i \in 1..m - 1 /\ Without(q, m, j)[i] = q[i]
        /\ \A i \in 1..m : i > j => i - 1 \in 1..m - 1 /\ Without(q, m, j)[i - 1] = q[i]
    BY WithoutIs
  <2> DEFINE w == Without(q, m, j)
  <2> HIDE DEF w
  <2>2. j # 1 => w[1] = q[1]
    BY <1>5, <2>1 DEF w
  <2>3. j # m => w[m - 1] = q[m]
    BY <1>5, <2>1 DEF w
  <2>4. j = 1 /\ j # m => w[1] = q[a]
    <3>1. ASSUME j = 1, j # m PROVE a \in 1..m /\ a > j /\ a - 1 = 1
      BY <1>6, <1>7, <3>1
    <3> QED
      BY <2>1, <3>1 DEF w
  <2>5. j = m /\ j # 1 => w[m - 1] = q[b]
    <3>1. ASSUME j = m, j # 1 PROVE b \in 1..m /\ b < j /\ m - 1 = b
      BY <1>6, <1>7, <3>1
    <3> QED
      BY <2>1, <3>1 DEF w
  <2>6. m - 1 = 0 <=> j = 1 /\ j = m
    OBVIOUS
  <2>7. head' \in L!Pointer /\ tail' \in L!Pointer
    BY <1>5, <1>7, <1>10 DEF L!Pointer
  <2>8. Ends(w, m - 1, head', tail')
    BY <1>10, <2>2, <2>3, <2>4, <2>5, <2>6, <2>7 DEF Ends
  <2> QED
    BY <2>8 DEF w
<1>15. ListInv'
  <2>1. ListTypes'
    BY <1>1, <1>3, <1>12 DEF ListTypes, L!Forget
  <2>2. Without(q, m, j) \in [1..m - 1 -> Timers] /\ m - 1 \in Nat
    BY WithoutIs
  <2>3. Linked(Without(q, m, j), m - 1, l_allocated', l_next', l_prev')
    BY <1>3, <1>4, <1>11
  <2>4. \E mm \in Nat : \E qq \in [1..mm -> Timers] :
          Linked(qq, mm, l_allocated', l_next', l_prev') /\ InOrder(qq, mm, l_expire') /\ Ends(qq, mm, head', tail')
    BY <1>13, <1>14, <2>2, <2>3
  <2> QED
    BY <2>1, <2>4 DEF ListInv
<1>16. L!Abstract!Cancel(t)
  <2>1. \A x \in Timers : ListLeft(x)' = IF x = t THEN -1 ELSE ListLeft(x)
    BY <1>1, <1>3, <1>12 DEF ListLeft
  <2>2. \A x \in Timers : [y \in Timers |-> ListLeft(y)][x] = ListLeft(x)
    OBVIOUS
  <2>3. [x \in Timers |-> ListLeft(x)]' = [[x \in Timers |-> ListLeft(x)] EXCEPT ![t] = -1]
    BY <2>1
  <2>4. ListLeft(t) # -1
    BY <1>1, <1>3 DEF ListLeft
  <2> QED
    BY <1>3, <2>2, <2>3, <2>4 DEF L!Abstract!Cancel, L!Abstract!Pending, L!Abstract!Unset, ListLeft
<1> QED
  BY <1>15, <1>16

(* The clock. *)
LEMMA ListInvAdvance ==
  ASSUME L!TimerListAssumption, ListInv, L!Advance
  PROVE  ListInv' /\ L!Abstract!Elapse
<1>1. /\ MaxTime \in Nat /\ l_now \in 0..MaxTime /\ l_expire \in [Timers -> 0..MaxTime]
      /\ l_allocated \in SUBSET Timers
  BY DEF ListInv, ListTypes, L!TimerListAssumption
<1>2. /\ l_now' = l_now + 1 /\ l_now < MaxTime /\ l_fired' = {}
      /\ l_allocated' = l_allocated /\ l_expire' = l_expire
      /\ l_next' = l_next /\ l_prev' = l_prev /\ head' = head /\ tail' = tail
  BY DEF L!Advance, L!linkVars
<1>3. ListInv'
  BY <1>1, <1>2 DEF ListInv, ListTypes
<1>4. \A x \in Timers : ListLeft(x)' = IF ListLeft(x) > 0 THEN ListLeft(x) - 1 ELSE ListLeft(x)
  <2>1. ASSUME NEW x \in Timers
        PROVE  ListLeft(x)' = IF ListLeft(x) > 0 THEN ListLeft(x) - 1 ELSE ListLeft(x)
    <3>1. PICK ex \in 0..MaxTime : ex = l_expire[x]
      BY <1>1
    <3>2. ListLeft(x)' = IF x \notin l_allocated THEN -1 ELSE IF ex > l_now + 1 THEN ex - (l_now + 1) ELSE 0
      BY <1>2, <3>1 DEF ListLeft
    <3>3. ListLeft(x) = IF x \notin l_allocated THEN -1 ELSE IF ex > l_now THEN ex - l_now ELSE 0
      BY <3>1 DEF ListLeft
    <3> QED
      BY <1>1, <3>2, <3>3
  <2> QED
    BY <2>1
<1>5. L!Abstract!Elapse
  BY <1>2, <1>4 DEF L!Abstract!Elapse, ListLeft
<1> QED
  BY <1>3, <1>5

(* tick calls the timers up to some place, and those are the ones whose     *)
(* time has come.                                                           *)
LEMMA TickCuts ==
  ASSUME L!TimerListAssumption, ListTypes, NEW m \in Nat, NEW q \in [1..m -> Timers],
         Linked(q, m, l_allocated, l_next, l_prev), InOrder(q, m, l_expire), Ends(q, m, head, tail), L!Tick
  PROVE  \E d \in 0..m :
           /\ l_fired' = {q[i] : i \in 1..d}
           /\ head' = Node(q, m, d + 1)
           /\ \A i \in 1..d : l_expire[q[i]] <= l_now
           /\ \A i \in d + 1..m : l_now < l_expire[q[i]]
<1> DEFINE chain == L!Chain(head)
           waiting == {i \in 1..Len(chain) : l_now < l_expire[chain[i]]}
           cut == IF waiting = {} THEN Len(chain) ELSE L!First(waiting) - 1
<1>1. l_fired' = {chain[i] : i \in 1..cut} /\ head' = IF waiting = {} THEN NULL ELSE chain[cut + 1]
  BY DEF L!Tick
<1>2. head = Node(q, m, 1)
  BY DEF Ends, Node
<1>3. Len(chain) = m /\ \A k \in 1..m : chain[k] = q[k]
  <2>1. PICK i \in 1..m + 1 : i = 1
    OBVIOUS
  <2>2. m = m - i + 1 /\ \A k \in 1..m : k = i + k - 1
    BY <2>1
  <2>3. /\ Len(L!Chain(Node(q, m, i))) = m
        /\ \A k \in 1..m, j \in 1..m : j = i + k - 1 => L!Chain(Node(q, m, i))[k] = q[j]
    BY <2>2, ChainLength
  <2>4. L!Chain(Node(q, m, i)) = chain
    BY <1>2, <2>1
  <2> QED
    BY <2>2, <2>3, <2>4
<1>4. l_now \in Nat /\ \A i \in 1..m : l_expire[q[i]] \in Nat
  BY DEF ListTypes, L!TimerListAssumption
<1> HIDE DEF chain
<1>5. waiting = {i \in 1..m : l_now < l_expire[q[i]]}
  BY <1>3
<1> HIDE DEF waiting
<1>6. CASE waiting = {}
  <2>1. cut = m /\ m \in 0..m
    BY <1>3, <1>6
  <2>2. \A i \in 1..m : l_expire[q[i]] <= l_now
    BY <1>4, <1>5, <1>6
  <2>3. l_fired' = {q[i] : i \in 1..m} /\ head' = NULL
    BY <1>1, <1>3, <1>6, <2>1
  <2>4. Node(q, m, m + 1) = NULL /\ m + 1..m = {}
    BY DEF Node
  <2> QED
    BY <2>1, <2>2, <2>3, <2>4
<1>7. CASE waiting # {}
  <2>1. L!First(waiting) \in waiting /\ \A j \in waiting : L!First(waiting) <= j
    <3>1. waiting \in SUBSET Nat
      BY <1>5
    <3> QED
      BY <1>7, <3>1, FirstIs
  <2>2. PICK f \in 1..m : f = L!First(waiting) /\ l_now < l_expire[q[f]] /\ \A j \in waiting : f <= j
    BY <1>5, <2>1
  <2>3. PICK d \in 0..m : d = f - 1
    BY <2>2
  <2>4. cut = d /\ d + 1 = f
    BY <1>7, <2>2, <2>3
  <2>5. l_fired' = {q[i] : i \in 1..d}
    BY <1>1, <1>3, <2>3, <2>4
  <2>6. head' = Node(q, m, d + 1)
    BY <1>1, <1>3, <1>7, <2>2, <2>4 DEF Node
  <2>7. ASSUME NEW i \in 1..d PROVE l_expire[q[i]] <= l_now
    <3>1. i \in 1..m /\ ~(f <= i)
      BY <2>2, <2>3, <2>7
    <3>2. i \notin waiting
      BY <2>2, <3>1
    <3> QED
      BY <1>4, <1>5, <3>1, <3>2
  <2>8. ASSUME NEW i \in d + 1..m PROVE l_now < l_expire[q[i]]
    <3>1. i \in 1..m /\ f <= i
      BY <2>3, <2>4, <2>8
    <3>2. l_expire[q[f]] <= l_expire[q[i]]
      BY <3>1 DEF InOrder
    <3> QED
      BY <1>4, <2>2, <3>1, <3>2
  <2> QED
    BY <2>5, <2>6, <2>7, <2>8
<1> QED
  BY <1>6, <1>7

(* tick keeps the list in order. *)
LEMMA ListInvTick ==
  ASSUME L!TimerListAssumption, ListInv, L!Tick
  PROVE  ListInv' /\ L!Abstract!Tick
<1>1. /\ MaxTime \in Nat /\ l_now \in 0..MaxTime /\ l_expire \in [Timers -> 0..MaxTime]
      /\ l_allocated \in SUBSET Timers /\ NULL \notin Timers /\ ListTypes
  BY DEF ListInv, ListTypes, L!TimerListAssumption
<1>a. PICK m \in Nat : \E q \in [1..m -> Timers] :
        Linked(q, m, l_allocated, l_next, l_prev) /\ InOrder(q, m, l_expire) /\ Ends(q, m, head, tail)
  BY DEF ListInv
<1>2. PICK q \in [1..m -> Timers] :
        Linked(q, m, l_allocated, l_next, l_prev) /\ InOrder(q, m, l_expire) /\ Ends(q, m, head, tail)
  BY <1>a
<1>3. PICK d \in 0..m :
        /\ l_fired' = {q[i] : i \in 1..d}
        /\ head' = Node(q, m, d + 1)
        /\ \A i \in 1..d : l_expire[q[i]] <= l_now
        /\ \A i \in d + 1..m : l_now < l_expire[q[i]]
  BY <1>1, <1>2, TickCuts
<1>4. /\ l_allocated' = l_allocated \ l_fired'
      /\ l_prev' = [t \in Timers |-> IF t \in l_fired' \cup {head'} THEN NULL ELSE l_prev[t]]
      /\ l_next' = L!Forget(l_next, l_fired', NULL) /\ l_expire' = L!Forget(l_expire, l_fired', 0)
      /\ tail' = tail /\ l_now' = l_now
  BY DEF L!Tick
<1>5. /\ \A g, h \in 1..m : q[g] = q[h] => g = h
      /\ l_next \in [Timers -> L!Pointer] /\ l_prev \in [Timers -> L!Pointer]
      /\ \A i \in 1..m : q[i] \in l_allocated
      /\ \A x \in l_allocated : \E i \in 1..m : q[i] = x
  BY <1>2 DEF Linked
<1>6. \A i \in d + 1..m : i \in 1..m /\ q[i] \notin l_fired'
  <2>1. ASSUME NEW i \in d + 1..m PROVE i \in 1..m /\ q[i] \notin l_fired'
    <3>1. i \in 1..m /\ \A k \in 1..d : k \in 1..m /\ k # i
      BY <2>1
    <3> QED
      BY <1>3, <1>5, <3>1
  <2> QED
    BY <2>1
<1>7. l_next' \in [Timers -> L!Pointer] /\ l_prev' \in [Timers -> L!Pointer] /\ head' \in L!Pointer
  <2>1. head' \in L!Pointer
    BY <1>3 DEF Node, L!Pointer
  <2> QED
    BY <1>4, <1>5, <2>1 DEF L!Forget, L!Pointer
<1>8. \A i \in d + 1..m : l_next'[q[i]] = l_next[q[i]] /\ l_expire'[q[i]] = l_expire[q[i]]
  BY <1>4, <1>6 DEF L!Forget
<1>9. \A i \in d + 1..m : l_prev'[q[i]] = IF i = d + 1 THEN NULL ELSE l_prev[q[i]]
  <2>1. ASSUME NEW i \in d + 1..m PROVE q[i] = head' <=> i = d + 1
    <3>1. d + 1 \in 1..m /\ i \in 1..m
      BY <2>1
    <3>2. head' = q[d + 1]
      BY <1>3, <3>1 DEF Node
    <3> QED
      BY <1>5, <3>1, <3>2
  <2> QED
    BY <1>4, <1>6, <2>1
<1>10. /\ Linked(Behind(q, m, d), m - d, l_allocated', l_next', l_prev')
       /\ InOrder(Behind(q, m, d), m - d, l_expire')
  <2>1. Remains(q, m, d, l_next, l_prev, l_expire, l_next', l_prev', l_expire')
    BY <1>7, <1>8, <1>9 DEF Remains
  <2>2. /\ Linked(Behind(q, m, d), m - d, l_allocated \ {q[i] : i \in 1..d}, l_next', l_prev')
        /\ InOrder(Behind(q, m, d), m - d, l_expire')
    BY <1>1, <1>2, <2>1, CutOff
  <2> QED
    BY <1>3, <1>4, <2>2
<1>11. Ends(Behind(q, m, d), m - d, head', tail')
  <2>1. CASE d = m
    <3>1. head' = NULL /\ m - d = 0
      BY <1>3, <2>1 DEF Node
    <3> QED
      BY <1>2, <1>4, <3>1 DEF Ends
  <2>2. CASE d # m
    <3>1. m # 0 /\ m - d # 0 /\ 1 \in 1..m - d /\ m - d \in 1..m - d /\ m - d + d = m /\ d + 1 <= m
      BY <2>2
    <3>2. head' = q[d + 1] /\ tail' = q[m]
      BY <1>2, <1>3, <1>4, <3>1 DEF Node, Ends
    <3>3. Behind(q, m, d)[1] = q[d + 1]
      <4>1. Behind(q, m, d)[1] = q[1 + d] /\ 1 + d = d + 1
        BY <3>1 DEF Behind
      <4> QED
        BY <4>1
    <3>4. Behind(q, m, d)[m - d] = q[m]
      BY <3>1 DEF Behind
    <3>5. tail' \in L!Pointer
      BY <1>2, <1>4 DEF Ends
    <3> QED
      BY <3>1, <3>2, <3>3, <3>4, <3>5 DEF Ends
  <2> QED
    BY <2>1, <2>2
<1>12. ListInv'
  <2>1. ListTypes'
    BY <1>1, <1>4 DEF ListTypes, L!Forget
  <2>2. Behind(q, m, d) \in [1..m - d -> Timers] /\ m - d \in Nat
    BY <1>10 DEF Linked
  <2>3. \E mm \in Nat : \E qq \in [1..mm -> Timers] :
          Linked(qq, mm, l_allocated', l_next', l_prev') /\ InOrder(qq, mm, l_expire') /\ Ends(qq, mm, head', tail')
    BY <1>10, <1>11, <2>2
  <2> QED
    BY <2>1, <2>3 DEF ListInv
<1>13. \A x \in Timers : ListLeft(x) = 0 <=> x \in l_fired'
  <2>1. ASSUME NEW x \in l_allocated PROVE ListLeft(x) = 0 <=> x \in l_fired'
    <3>1. PICK i \in 1..m : q[i] = x
      BY <1>5
    <3>2. l_expire[x] \in Nat /\ l_now \in Nat
      BY <1>1
    <3>3. CASE i <= d
      <4>1. i \in 1..d
        BY <3>3
      <4> QED
        BY <1>3, <3>1, <3>2, <4>1 DEF ListLeft
    <3>4. CASE ~(i <= d)
      <4>1. i \in d + 1..m
        BY <3>4
      <4> QED
        BY <1>3, <1>6, <3>1, <3>2, <4>1 DEF ListLeft
    <3> QED
      BY <3>3, <3>4
  <2>2. \A x \in l_fired' : x \in l_allocated
    BY <1>3, <1>5
  <2>3. \A x \in Timers : x \notin l_allocated => ListLeft(x) = -1
    BY DEF ListLeft
  <2> QED
    BY <2>1, <2>2, <2>3
<1>14. \A x \in Timers : ListLeft(x)' = IF x \in l_fired' THEN -1 ELSE ListLeft(x)
  <2>1. ASSUME NEW x \in Timers PROVE ListLeft(x)' = IF x \in l_fired' THEN -1 ELSE ListLeft(x)
    <3>1. CASE x \in l_fired'
      BY <1>4, <3>1 DEF ListLeft
    <3>2. CASE x \notin l_fired'
      BY <1>4, <3>2 DEF ListLeft, L!Forget
    <3> QED
      BY <3>1, <3>2
  <2> QED
    BY <2>1
<1>15. l_fired' \in SUBSET Timers
  BY <1>3
<1>16. L!Abstract!Tick
  <2>1. l_fired' = {x \in Timers : ListLeft(x) = 0}
    BY <1>13, <1>15
  <2> QED
    BY <1>14, <2>1 DEF L!Abstract!Tick, L!Abstract!Due, L!Abstract!Unset, ListLeft
<1> QED
  BY <1>12, <1>16

(* adjust_timer of a timer that keeps its place. *)
LEMMA AdjustInPlace ==
  ASSUME L!TimerListAssumption, ListTypes, NEW m \in Nat, NEW q \in [1..m -> Timers],
         Linked(q, m, l_allocated, l_next, l_prev), InOrder(q, m, l_expire), NEW j \in 1..m,
         NEW e \in Nat, e >= l_expire[q[j]], L!Stays(q[j], e), l_expire' = [l_expire EXCEPT ![q[j]] = e]
  PROVE  InOrder(q, m, l_expire')
<1>1. \A i \in 1..m : l_expire[q[i]] \in Nat
  BY DEF ListTypes, L!TimerListAssumption
<1>2. \A i \in 1..m : l_expire'[q[i]] = IF i = j THEN e ELSE l_expire[q[i]]
  BY DEF Linked, ListTypes
<1>3. PICK a : a = j + 1
  OBVIOUS
<1>4. j # m => a \in 1..m /\ e < l_expire[q[a]]
  <2>1. ASSUME j # m PROVE a \in 1..m /\ l_next[q[j]] = q[a]
    BY <1>3, <2>1 DEF Linked
  <2>2. \A i \in 1..m : q[i] # NULL
    BY DEF L!TimerListAssumption
  <2> QED
    BY <2>1, <2>2 DEF L!Stays
<1>5. ASSUME NEW g \in 1..m, NEW h \in 1..m, g <= h PROVE l_expire'[q[g]] <= l_expire'[q[h]]
  <2>1. l_expire[q[g]] <= l_expire[q[h]]
    BY <1>5 DEF InOrder
  <2>2. CASE g = j /\ h # j
    <3>1. j # m /\ a <= h /\ a \in 1..m
      BY <1>3, <1>4, <1>5, <2>2
    <3>2. l_expire[q[a]] <= l_expire[q[h]] /\ e < l_expire[q[a]]
      BY <1>4, <3>1 DEF InOrder
    <3> QED
      BY <1>1, <1>2, <2>2, <3>1, <3>2
  <2>3. CASE g # j /\ h = j
    BY <1>1, <1>2, <2>1, <2>3
  <2>4. CASE g = j /\ h = j
    BY <1>2, <2>4
  <2>5. CASE g # j /\ h # j
    BY <1>2, <2>1, <2>5
  <2> QED
    BY <2>2, <2>3, <2>4, <2>5
<1> QED
  BY <1>5 DEF InOrder

(* adjust_timer of a timer that moves: it is taken out, and put in again    *)
(* behind the last that does not expire after it.                           *)
LEMMA AdjustMoves ==
  ASSUME L!TimerListAssumption, ListTypes, NEW m \in Nat, NEW q \in [1..m -> Timers],
         Linked(q, m, l_allocated, l_next, l_prev), InOrder(q, m, l_expire), Ends(q, m, head, tail),
         NEW j \in 1..m, NEW e \in 0..MaxTime, L!AdjustTimer(q[j], e), ~L!Stays(q[j], e)
  PROVE  \E k \in 1..m - 1 :
           /\ Linked(With(Without(q, m, j), m - 1, k, q[j]), m, l_allocated, l_next', l_prev')
           /\ Ends(With(Without(q, m, j), m - 1, k, q[j]), m, head', tail')
           /\ InOrder(With(Without(q, m, j), m - 1, k, q[j]), m, l_expire')
<1> DEFINE t == q[j]
<1>1. /\ MaxTime \in Nat /\ l_now \in 0..MaxTime /\ l_expire \in [Timers -> 0..MaxTime]
      /\ l_allocated \in SUBSET Timers /\ NULL \notin Timers /\ e \in Nat /\ t \in Timers
  BY DEF ListTypes, L!TimerListAssumption
<1>2. /\ \A g, h \in 1..m : q[g] = q[h] => g = h
      /\ l_next \in [Timers -> L!Pointer] /\ l_prev \in [Timers -> L!Pointer]
      /\ head = q[1] /\ tail = q[m] /\ 1 \in 1..m /\ m \in 1..m
      /\ \A i \in 1..m : q[i] \in Timers /\ q[i] \in l_allocated
  BY DEF Linked, Ends
<1>3. /\ e >= l_expire[t] /\ l_expire' = [l_expire EXCEPT ![t] = e] /\ l_allocated' = l_allocated
  BY DEF L!AdjustTimer
<1>4. j # m /\ l_next[t] # NULL /\ ~(e < l_expire[l_next[t]])
  <2>1. l_next[t] # NULL /\ ~(e < l_expire[l_next[t]])
    BY DEF L!Stays
  <2> QED
    BY <2>1 DEF Linked
<1>5. PICK a \in 1..m : a = j + 1 /\ l_next[t] = q[a] /\ q[a] # t /\ a # j
  <2>1. PICK a \in 1..m : a = j + 1
    BY <1>4
  <2>2. l_next[t] = q[a]
    BY <1>4, <2>1 DEF Linked
  <2>3. a # j
    BY <2>1
  <2> QED
    BY <1>2, <2>1, <2>2, <2>3
<1>6. PICK b : b = j - 1
  OBVIOUS
<1>7. j # 1 => b \in 1..m /\ l_prev[t] = q[b] /\ q[b] # t
  <2>1. (j # 1 => b \in 1..m) /\ b # j
    BY <1>6
  <2>2. j # 1 => l_prev[t] = q[b]
    BY <1>6 DEF Linked
  <2> QED
    BY <1>2, <2>1, <2>2
<1>8. \A i \in 1..m : i # j => q[i] # t
  BY <1>2
<1>9. \E n \in [Timers -> L!Pointer], v \in [Timers -> L!Pointer] :
        /\ \A i \in 1..m : i # j => n[q[i]] = IF i = b THEN q[a] ELSE l_next[q[i]]
        /\ \A i \in 1..m : i # j => v[q[i]] = IF i = a THEN (IF j = 1 THEN NULL ELSE q[b]) ELSE l_prev[q[i]]
        /\ L!InsertFrom(q[a], t, n, v)
        /\ head' = IF j = 1 THEN q[a] ELSE q[1]
  <2>1. CASE t = head
    <3>1. head' = l_next[t] /\ L!InsertFrom(head', t, [l_next EXCEPT ![t] = NULL], [l_prev EXCEPT ![head'] = NULL])
      BY <2>1 DEF L!AdjustTimer
    <3>2. j = 1 /\ \A i \in 1..m : i # b
      BY <1>2, <1>6, <2>1
    <3>3. PICK n \in [Timers -> L!Pointer] : n = [l_next EXCEPT ![t] = NULL]
      BY <1>1, <1>2 DEF L!Pointer
    <3>4. PICK v \in [Timers -> L!Pointer] : v = [l_prev EXCEPT ![head'] = NULL]
      BY <1>1, <1>2 DEF L!Pointer
    <3>5. head' = q[a]
      BY <1>5, <3>1
    <3>6. \A i \in 1..m : i # j => n[q[i]] = l_next[q[i]]
      BY <1>2, <1>8, <3>3
    <3>7. \A i \in 1..m : q[i] = q[a] => i = a
      BY <1>2
    <3>8. \A i \in 1..m : v[q[i]] = IF i = a THEN NULL ELSE l_prev[q[i]]
      BY <1>2, <3>4, <3>5, <3>7
    <3>9. L!InsertFrom(q[a], t, n, v)
      BY <3>1, <3>3, <3>4, <3>5
    <3> QED
      BY <3>2, <3>5, <3>6, <3>8, <3>9
  <2>2. CASE t # head
    <3>1. head' = head /\ L!InsertFrom(l_next[t], t, [l_next EXCEPT ![l_prev[t]] = l_next[t]],
                                     [l_prev EXCEPT ![l_next[t]] = l_prev[t]])
      BY <2>2 DEF L!AdjustTimer
    <3>2. j # 1 /\ b \in 1..m /\ l_prev[t] = q[b]
      BY <1>2, <1>7, <2>2
    <3>3. PICK n \in [Timers -> L!Pointer] : n = [l_next EXCEPT ![l_prev[t]] = l_next[t]]
      BY <1>1, <1>2 DEF L!Pointer
    <3>4. PICK v \in [Timers -> L!Pointer] : v = [l_prev EXCEPT ![l_next[t]] = l_prev[t]]
      BY <1>1, <1>2 DEF L!Pointer
    <3>5. \A i \in 1..m : (q[i] = q[a] => i = a) /\ (q[i] = q[b] => i = b)
      BY <1>2, <3>2
    <3>6. \A i \in 1..m : n[q[i]] = IF i = b THEN q[a] ELSE l_next[q[i]]
      BY <1>2, <1>5, <3>2, <3>3, <3>5
    <3>7. \A i \in 1..m : v[q[i]] = IF i = a THEN q[b] ELSE l_prev[q[i]]
      BY <1>2, <1>5, <3>2, <3>4, <3>5
    <3>8. L!InsertFrom(q[a], t, n, v)
      BY <1>5, <3>1, <3>3, <3>4
    <3> QED
      BY <1>2, <3>1, <3>2, <3>6, <3>7, <3>8
  <2> QED
    BY <2>1, <2>2
<1>10. PICK n \in [Timers -> L!Pointer], v \in [Timers -> L!Pointer] :
        /\ \A i \in 1..m : i # j => n[q[i]] = IF i = b THEN q[a] ELSE l_next[q[i]]
        /\ \A i \in 1..m : i # j => v[q[i]] = IF i = a THEN (IF j = 1 THEN NULL ELSE q[b]) ELSE l_prev[q[i]]
        /\ L!InsertFrom(q[a], t, n, v)
        /\ head' = IF j = 1 THEN q[a] ELSE q[1]
  BY <1>9
<1> DEFINE w == Without(q, m, j)
<1>11. PICK r \in Nat : r = m - 1 /\ r + 1 = m /\ r # 0
  BY <1>4
<1>12. /\ \A i \in 1..m : i < j => i \in 1..r /\ w[i] = q[i]
       /\ \A i \in 1..m : i > j => i - 1 \in 1..r /\ w[i - 1] = q[i]
       /\ w \in [1..r -> Timers]
       /\ \A i \in 1..r : \/ i < j /\ i \in 1..m /\ w[i] = q[i]
                          \/ i >= j /\ i + 1 \in 1..m /\ w[i] = q[i + 1]
  BY <1>11, WithoutIs
<1>13. Linked(w, r, l_allocated \ {t}, n, v)
  <2>1. Node(q, m, a) = q[a]
    BY DEF Node
  <2>2. Bypass(q, m, j, l_next, l_prev, n, v)
    BY <1>5, <1>6, <1>10, <2>1 DEF Bypass
  <2>3. Linked(Without(q, m, j), m - 1, l_allocated \ {q[j]}, n, v)
    BY <1>1, <2>2, Removed
  <2> QED
    BY <1>11, <2>3
<1>14. PICK k \in a..m :
         /\ L!Place(q[a], e) = [before |-> q[k], after |-> Node(q, m, k + 1)]
         /\ \A i \in a + 1..k : l_expire[q[i]] <= e
         /\ k < m => e < l_expire[q[k + 1]]
  <2>1. l_expire \in [Timers -> Nat]
    BY <1>1
  <2> QED
    BY <1>1, <2>1, PlaceIs
<1>15. PICK l \in 1..r : l = k - 1 /\ l + 1 = k /\ l >= j
  BY <1>5, <1>11
<1>16. w[l] = q[k] /\ Node(w, r, l + 1) = Node(q, m, k + 1)
  <2>1. k \in 1..m /\ k > j
    BY <1>5
  <2>2. w[l] = q[k]
    BY <1>12, <1>15, <2>1
  <2>3. PICK g, h : g = k + 1 /\ h = l + 1
    OBVIOUS
  <2>4. h = k /\ (h <= r <=> g <= m) /\ g > j /\ g - 1 = h
    BY <1>11, <1>15, <2>1, <2>3
  <2>5. g <= m => w[h] = q[g]
    <3>1. g <= m => g \in 1..m
      BY <2>1, <2>3
    <3> QED
      BY <1>12, <2>4, <3>1
  <2>6. Node(w, r, h) = Node(q, m, g)
    BY <2>4, <2>5 DEF Node
  <2> QED
    BY <2>2, <2>3, <2>6
<1>17. l_expire'[t] = e /\ \A i \in 1..r : l_expire'[w[i]] = l_expire[w[i]] /\ w[i] # t /\ l_expire[w[i]] \in Nat
  <2>1. \A i \in 1..r : w[i] # t /\ w[i] \in Timers
    BY <1>12, <1>13 DEF Linked
  <2> QED
    BY <1>1, <1>3, <2>1
<1> HIDE DEF w
<1>18. Ends(w, r, head', tail)
  <2>1. w[1] = IF j = 1 THEN q[a] ELSE q[1]
    <3>1. CASE j = 1
      <4>1. a > j /\ a - 1 = 1
        BY <1>5, <3>1
      <4> QED
        BY <1>12, <3>1, <4>1
    <3>2. CASE j # 1
      <4>1. 1 < j
        BY <3>2
      <4> QED
        BY <1>2, <1>12, <3>2, <4>1
    <3> QED
      BY <3>1, <3>2
  <2>2. w[r] = q[m]
    <3>1. m > j /\ m - 1 = r
      BY <1>4, <1>11
    <3> QED
      BY <1>2, <1>12, <3>1
  <2>3. tail \in L!Pointer
    BY DEF Ends
  <2> QED
    BY <1>2, <1>10, <1>11, <2>1, <2>2, <2>3 DEF Ends
<1>19. /\ Linked(With(w, r, l, t), r + 1, (l_allocated \ {t}) \cup {t}, l_next', l_prev')
       /\ Ends(With(w, r, l, t), r + 1, head', tail')
  <2>1. L!Place(q[a], l_expire'[t]) = [before |-> w[l], after |-> Node(w, r, l + 1)]
    BY <1>14, <1>16, <1>17
  <2>2. (l_allocated \ {t}) \in SUBSET Timers /\ t \notin l_allocated \ {t}
    BY <1>1
  <2> HIDE DEF t
  <2> QED
    BY <1>1, <1>10, <1>13, <1>18, <2>1, <2>2, InsertsFrom
<1>20. InOrder(w, r, l_expire)
  <2>1. \A i \in 1..m : i # j => l_expire[q[i]] = l_expire[q[i]]
    OBVIOUS
  <2>2. InOrder(Without(q, m, j), m - 1, l_expire)
    BY <2>1, RemovedOrder
  <2> QED
    BY <1>11, <2>2 DEF w
<1>21. InOrder(With(w, r, l, t), r + 1, l_expire')
  <2>1. l_expire[w[l]] <= e
    <3>1. CASE k = a
      BY <1>1, <1>2, <1>4, <1>5, <1>16, <3>1
    <3>2. CASE k # a
      BY <1>14, <1>16, <3>2
    <3> QED
      BY <3>1, <3>2
  <2>2. l < r => e <= l_expire[w[l + 1]]
    <3>1. ASSUME l < r PROVE e <= l_expire[w[l + 1]]
      <4>1. k < m /\ k + 1 \in 1..m /\ l + 1 \in 1..r
        BY <1>5, <1>11, <1>15, <3>1
      <4>2. w[l + 1] = q[k + 1]
        BY <1>16, <4>1 DEF Node
      <4>3. e < l_expire[q[k + 1]] /\ l_expire[q[k + 1]] \in Nat
        BY <1>1, <1>14, <4>1
      <4> QED
        BY <1>1, <4>2, <4>3
    <3> QED
      BY <3>1
  <2>3. l \in 0..r /\ l_expire \in [Timers -> Nat] /\ l_expire' \in [Timers -> Nat]
    BY <1>1, <1>3
  <2> HIDE DEF t
  <2> QED
    BY <1>1, <1>12, <1>17, <1>20, <2>1, <2>2, <2>3, InsertedOrder
<1>22. (l_allocated \ {t}) \cup {t} = l_allocated
  BY <1>2
<1> QED
  BY <1>11, <1>15, <1>19, <1>21, <1>22 DEF w

(* adjust_timer keeps the list in order. *)
LEMMA ListInvAdjust ==
  ASSUME L!TimerListAssumption, ListInv, NEW t \in Timers, NEW e \in l_now..MaxTime, L!AdjustTimer(t, e)
  PROVE  ListInv' /\ \E d \in 0..MaxTime : L!Abstract!Postpone(t, d)
<1>1. /\ MaxTime \in Nat /\ l_now \in 0..MaxTime /\ l_expire \in [Timers -> 0..MaxTime]
      /\ l_allocated \in SUBSET Timers /\ e \in 0..MaxTime /\ e \in Nat /\ ListTypes
  BY DEF ListInv, ListTypes, L!TimerListAssumption
<1>a. PICK m \in Nat : \E q \in [1..m -> Timers] :
        Linked(q, m, l_allocated, l_next, l_prev) /\ InOrder(q, m, l_expire) /\ Ends(q, m, head, tail)
  BY DEF ListInv
<1>2. PICK q \in [1..m -> Timers] :
        Linked(q, m, l_allocated, l_next, l_prev) /\ InOrder(q, m, l_expire) /\ Ends(q, m, head, tail)
  BY <1>a
<1>3. /\ t \in l_allocated /\ l_allocated' = l_allocated /\ e >= l_expire[t]
      /\ l_expire' = [l_expire EXCEPT ![t] = e] /\ l_fired' = {} /\ l_now' = l_now
  BY DEF L!AdjustTimer
<1>4. PICK j \in 1..m : q[j] = t
  BY <1>2, <1>3 DEF Linked
<1>5. ListTypes'
  BY <1>1, <1>3 DEF ListTypes
<1>6. \E p \in [1..m -> Timers] :
        Linked(p, m, l_allocated', l_next', l_prev') /\ InOrder(p, m, l_expire') /\ Ends(p, m, head', tail')
  <2>1. CASE L!Stays(t, e)
    <3>1. l_next' = l_next /\ l_prev' = l_prev /\ head' = head /\ tail' = tail
      BY <2>1 DEF L!AdjustTimer, L!linkVars
    <3>2. InOrder(q, m, l_expire')
      BY <1>1, <1>2, <1>3, <1>4, <2>1, AdjustInPlace
    <3> QED
      BY <1>2, <1>3, <3>1, <3>2
  <2>2. CASE ~L!Stays(t, e)
    <3>1. PICK k \in 1..m - 1 :
           /\ Linked(With(Without(q, m, j), m - 1, k, q[j]), m, l_allocated, l_next', l_prev')
           /\ Ends(With(Without(q, m, j), m - 1, k, q[j]), m, head', tail')
           /\ InOrder(With(Without(q, m, j), m - 1, k, q[j]), m, l_expire')
      BY <1>1, <1>2, <1>4, <2>2, AdjustMoves
    <3>2. With(Without(q, m, j), m - 1, k, q[j]) \in [1..m -> Timers]
      BY <3>1 DEF Linked
    <3> QED
      BY <1>3, <3>1, <3>2
  <2> QED
    BY <2>1, <2>2
<1>7. PICK d \in 0..MaxTime : d = e - l_now
  BY <1>1
<1>8. L!Abstract!Postpone(t, d)
  <2>a. l_expire'[t] = e /\ (IF e > l_now THEN e - l_now ELSE 0) = d
    BY <1>1, <1>3, <1>7
  <2>b. ListLeft(t)' = d
    BY <1>3, <2>a DEF ListLeft
  <2>c. \A x \in Timers : x # t => ListLeft(x)' = ListLeft(x)
    BY <1>1, <1>3 DEF ListLeft
  <2>1. \A x \in Timers : ListLeft(x)' = IF x = t THEN d ELSE ListLeft(x)
    BY <2>b, <2>c
  <2>2. \A x \in Timers : [y \in Timers |-> ListLeft(y)][x] = ListLeft(x)
    OBVIOUS
  <2>3. [x \in Timers |-> ListLeft(x)]' = [[x \in Timers |-> ListLeft(x)] EXCEPT ![t] = d]
    BY <2>1
  <2>4. ListLeft(t) # -1 /\ ListLeft(t) <= d
    BY <1>1, <1>3, <1>7 DEF ListLeft
  <2> QED
    BY <1>3, <2>2, <2>3, <2>4 DEF L!Abstract!Postpone, L!Abstract!Pending, L!Abstract!Unset, ListLeft
<1> QED
  BY <1>5, <1>6, <1>7, <1>8 DEF ListInv

(* Every step keeps the invariant and is one of the set of timers; tick is  *)
(* the tick of it.                                                          *)
LEMMA ListStep ==
  ASSUME L!TimerListAssumption, ListInv, [L!Next]_(L!vars)
  PROVE  ListInv' /\ [L!Abstract!Next]_(L!Abstract!timerVars) /\ (L!Tick => L!Abstract!Tick)
<1>1. ASSUME L!Next PROVE ListInv' /\ L!Abstract!Next
  <2>1. ASSUME NEW t \in Timers, NEW e \in l_now..MaxTime, L!AddTimer(t, e)
        PROVE  ListInv' /\ L!Abstract!Next
    <3>1. ListInv' /\ e - l_now \in 0..MaxTime /\ L!Abstract!Add(t, e - l_now)
      BY <2>1, ListInvAdd
    <3>2. PICK d \in 0..MaxTime : d = e - l_now
      BY <3>1
    <3>3. L!Abstract!Add(t, d)
      BY <3>1, <3>2 DEF L!Abstract!Add
    <3> QED
      BY <3>1, <3>3 DEF L!Abstract!Next
  <2>2. ASSUME NEW t \in Timers, NEW e \in l_now..MaxTime, L!AdjustTimer(t, e)
        PROVE  ListInv' /\ L!Abstract!Next
    <3>1. ListInv' /\ \E d \in 0..MaxTime : L!Abstract!Postpone(t, d)
      BY <2>2, ListInvAdjust
    <3> QED
      BY <3>1 DEF L!Abstract!Next
  <2>3. ASSUME NEW t \in Timers, L!DelTimer(t) PROVE ListInv' /\ L!Abstract!Next
    BY <2>3, ListInvDel DEF L!Abstract!Next
  <2>4. ASSUME L!Tick PROVE ListInv' /\ L!Abstract!Next
    BY <2>4, ListInvTick DEF L!Abstract!Next
  <2>5. ASSUME L!Advance PROVE ListInv' /\ L!Abstract!Next
    BY <2>5, ListInvAdvance DEF L!Abstract!Next
  <2> QED
    BY <1>1, <2>1, <2>2, <2>3, <2>4, <2>5 DEF L!Next
<1>2. ASSUME UNCHANGED L!vars PROVE ListInv' /\ UNCHANGED L!Abstract!timerVars
  BY <1>2 DEF L!vars, L!linkVars, ListInv, ListTypes, L!Abstract!timerVars
<1>3. L!Tick => L!Abstract!Tick
  BY ListInvTick
<1> QED
  BY <1>1, <1>2, <1>3

(* So the list alone is a set of timers. *)
LEMMA ListImplements ==
  ASSUME L!TimerListAssumption
  PROVE  L!Spec => L!ImplementsTimerSet
<1>1. L!Init => ListInv /\ L!Abstract!Init
  BY ListInvInit
<1>2. ListInv /\ [L!Next]_(L!vars) => ListInv' /\ [L!Abstract!Next]_(L!Abstract!timerVars) /\ [L!Tick => L!Abstract!Tick]_(L!vars)
  BY ListStep
<1> QED
  BY <1>1, <1>2, PTL DEF L!Spec, L!ImplementsTimerSet, L!Abstract!Spec

(* The list of 11-2lst_timer.h implements a set of timers: whatever is      *)
(* added, moved to a later time, deleted and ticked in whatever order, tick *)
(* calls exactly the timers that are due, and none is hidden behind one     *)
(* that is not.                                                             *)
THEOREM ListIsTimerSet == Spec => ListImplementsTimerSet
<1>1. L!TimerListAssumption
  BY MCTimersAssumption
<1>2. Init => L!Init
  BY DEF Init
<1>3. [Next]_<<which, listVars, wheelVars, heapVars>> => [L!Next]_(L!vars)
  <2>1. UNCHANGED listVars => UNCHANGED L!vars
    BY DEF listVars, L!vars, L!linkVars
  <2> QED
    BY <2>1 DEF Next
<1>4. L!Spec => L!ImplementsTimerSet
  BY <1>1, ListImplements
<1> QED
  BY <1>2, <1>3, <1>4, PTL DEF Spec, L!Spec, ListImplementsTimerSet
-----------------------------------------------------------------------------
(* 11-5tw_timer.h: the wheel.                                               *)

(* What remains of d after whole turns of n. *)
LEMMA DivMod ==
  ASSUME NEW n \in Nat \ {0}, NEW d \in Nat
  PROVE  \E q \in Nat, r \in 0..n - 1 : q = d \div n /\ r = d % n /\ d = q * n + r
<1>1. PICK q \in Int, r \in Int : q = d \div n /\ r = d % n
  OBVIOUS
<1>2. d = n * q + r
  BY <1>1
<1>3. q \in Nat /\ r \in 0..n - 1
  BY <1>1
<1>4. n * q = q * n
  OBVIOUS
<1> QED
  BY <1>1, <1>2, <1>3, <1>4

(* A number of less than two turns comes round at n. *)
LEMMA ComesRound ==
  ASSUME NEW n \in Nat \ {0}, NEW x \in 0..n + n - 1
  PROVE  x % n = IF x < n THEN x ELSE x - n
<1>1. CASE x < n
  BY <1>1
<1>2. CASE x >= n
  BY <1>2
<1> QED
  BY <1>1, <1>2

(* Only a number of no turns and no rest is 0. *)
LEMMA TurnsAndRest ==
  ASSUME NEW n \in Nat \ {0}, NEW a \in Nat, NEW r \in 0..n - 1
  PROVE  /\ a * n + r = 0 <=> a = 0 /\ r = 0
         /\ a # 0 => (a - 1) * n + n = a * n
         /\ a * n \in Nat
OBVIOUS

(* A timeout is at least one tick, and at most those of the longest. *)
LEMMA TicksBound ==
  ASSUME W!TimerWheelAssumption, NEW timeout \in 0..MaxTimeout
  PROVE  W!Ticks(timeout) \in 0..W!Ticks(MaxTimeout) /\ W!Ticks(timeout) \in Nat \ {0}
<1>1. TI \in Nat \ {0} /\ MaxTimeout \in Nat /\ timeout \in Nat /\ timeout <= MaxTimeout
  BY DEF W!TimerWheelAssumption
<1>2. ASSUME NEW x \in Nat PROVE W!Ticks(x) = IF x < TI THEN 1 ELSE x \div TI
  BY DEF W!Ticks
<1>3. ASSUME NEW x \in Nat, x >= TI PROVE x \div TI \in Nat /\ x \div TI >= 1
  BY <1>1, <1>3
<1>4. timeout \div TI <= MaxTimeout \div TI
  BY <1>1
<1>5. CASE timeout < TI /\ MaxTimeout < TI
  BY <1>1, <1>2, <1>5
<1>6. CASE timeout < TI /\ MaxTimeout >= TI
  BY <1>1, <1>2, <1>3, <1>6
<1>7. CASE timeout >= TI
  <2>1. MaxTimeout >= TI /\ ~(MaxTimeout < TI) /\ timeout >= TI /\ ~(timeout < TI)
    BY <1>1, <1>7
  <2>2. PICK a \in Nat, b \in Nat : a = timeout \div TI /\ b = MaxTimeout \div TI /\ a >= 1
    BY <1>1, <1>3, <2>1
  <2>3. a <= b
    BY <1>4, <2>2
  <2>4. W!Ticks(timeout) = a /\ W!Ticks(MaxTimeout) = b
    BY <1>1, <1>2, <2>1, <2>2
  <2> QED
    BY <2>2, <2>3, <2>4
<1> QED
  BY <1>1, <1>5, <1>6, <1>7

(* The timers of slot s... *)
InSlot(s) == {t \in w_allocated : time_slot[t] = s}

(* ...which the hand, at slot c, reaches after so many ticks. *)
Distance(s, c) == IF s >= c THEN s - c ELSE s - c + N

WheelTypes ==
  /\ cur_slot \in 0..N - 1 /\ slots \in [0..N - 1 -> L!Pointer]
  /\ w_next \in [Timers -> L!Pointer] /\ w_prev \in [Timers -> L!Pointer]
  /\ rotation \in [Timers -> Nat] /\ time_slot \in [Timers -> 0..N - 1]
  /\ w_allocated \in SUBSET Timers

(* The timers of a slot are linked, in some order. *)
SlotLinked(s, A, n, v, f) ==
  \E m \in Nat : \E q \in [1..m -> Timers] : Linked(q, m, A, n, v) /\ f = Node(q, m, 1)

WheelLists == \A s \in 0..N - 1 : SlotLinked(s, InSlot(s), w_next, w_prev, slots[s])

(* A timer is due when the hand comes to its slot after rotation turns. *)
WheelTimes ==
  \A t \in Timers : 
    due[t] = IF t \in w_allocated THEN rotation[t] * N + Distance(time_slot[t], cur_slot) ELSE -1

(* The inductive invariant. *)
WheelInv == WheelTypes /\ WheelLists /\ WheelTimes /\ due = [t \in Timers |-> due[t]]

(* A list is the same when none of its timers' links change. *)
LEMMA SameLinks ==
  ASSUME NEW s, NEW A, NEW n, NEW v, NEW f, SlotLinked(s, A, n, v, f),
         NEW n2 \in [Timers -> L!Pointer], NEW v2 \in [Timers -> L!Pointer],
         \A x \in A : n2[x] = n[x] /\ v2[x] = v[x]
  PROVE  SlotLinked(s, A, n2, v2, f)
<1>1. PICK m \in Nat : \E q \in [1..m -> Timers] : Linked(q, m, A, n, v) /\ f = Node(q, m, 1)
  BY DEF SlotLinked
<1>2. PICK q \in [1..m -> Timers] : Linked(q, m, A, n, v) /\ f = Node(q, m, 1)
  BY <1>1
<1>3. Linked(q, m, A, n2, v2)
  BY <1>2 DEF Linked
<1> QED
  BY <1>2, <1>3 DEF SlotLinked

(* The first of a list is one of it. *)
LEMMA FirstOfSlot ==
  ASSUME NEW s, NEW A \in SUBSET Timers, NEW n, NEW v, NEW f, SlotLinked(s, A, n, v, f)
  PROVE  f = NULL \/ f \in A
<1>1. PICK m \in Nat : \E q \in [1..m -> Timers] : Linked(q, m, A, n, v) /\ f = Node(q, m, 1)
  BY DEF SlotLinked
<1>2. PICK q \in [1..m -> Timers] : Linked(q, m, A, n, v) /\ f = Node(q, m, 1)
  BY <1>1
<1> QED
  BY <1>2 DEF Node, Linked

(* n2 and v2 lead to t first and from there to f. *)
Prepend(t, f, n, v, n2, v2) ==
  /\ n2 = [n EXCEPT ![t] = f]
  /\ v2 = [x \in Timers |-> IF x = f THEN t ELSE IF x = t THEN NULL ELSE v[x]]

(* add_timer puts a timer in front of a list. *)
LEMMA InFront ==
  ASSUME NULL \notin Timers, NEW s, NEW A \in SUBSET Timers, NEW n \in [Timers -> L!Pointer],
         NEW v \in [Timers -> L!Pointer], NEW f \in L!Pointer, SlotLinked(s, A, n, v, f),
         NEW t \in Timers, t \notin A,
         NEW n2, NEW v2, Prepend(t, f, n, v, n2, v2)
  PROVE  SlotLinked(s, A \cup {t}, n2, v2, t)
<1>0. /\ n2 = [n EXCEPT ![t] = f]
      /\ v2 = [x \in Timers |-> IF x = f THEN t ELSE IF x = t THEN NULL ELSE v[x]]
  BY DEF Prepend
<1>1. PICK m \in Nat : \E q \in [1..m -> Timers] : Linked(q, m, A, n, v) /\ f = Node(q, m, 1)
  BY DEF SlotLinked
<1>2. PICK q \in [1..m -> Timers] : Linked(q, m, A, n, v) /\ f = Node(q, m, 1)
  BY <1>1
<1>3. PICK z \in 0..m : z = 0
  OBVIOUS
<1>4. n2 \in [Timers -> L!Pointer] /\ v2 \in [Timers -> L!Pointer]
  BY <1>0 DEF L!Pointer
<1>5. \A i \in 1..m : q[i] # t /\ q[i] \in Timers /\ (q[i] = f <=> i = 1)
  BY <1>2 DEF Linked, Node
<1>6. f # t
  BY <1>2, <1>5 DEF Node
<1>7. n2[t] = f /\ v2[t] = NULL
  BY <1>0, <1>6
<1>8. \A i \in 1..m : n2[q[i]] = n[q[i]] /\ v2[q[i]] = IF i = 1 THEN t ELSE v[q[i]]
  BY <1>0, <1>5
<1>9. Enlist(q, m, z, t, n, v, n2, v2)
  <2>1. z + 1 = 1 /\ \A i \in 1..m : i # z
    BY <1>3
  <2> QED
    BY <1>2, <1>3, <1>4, <1>7, <1>8, <2>1 DEF Enlist
<1>10. Linked(With(q, m, z, t), m + 1, A \cup {t}, n2, v2)
  BY <1>2, <1>9, Inserted
<1>11. t = Node(With(q, m, z, t), m + 1, 1)
  <2>1. Widened(With(q, m, z, t), q, m, z, t)
    BY WithIs
  <2>2. With(q, m, z, t)[1] = t
    BY <1>3, <2>1 DEF Widened
  <2> QED
    BY <2>2 DEF Node
<1>12. m + 1 \in Nat /\ With(q, m, z, t) \in [1..m + 1 -> Timers]
  BY <1>10 DEF Linked
<1> QED
  BY <1>10, <1>11, <1>12 DEF SlotLinked

(* n2 and v2 lead past t, which is in the list of A that begins with f.     *)
Past(A, t, f, n, v, n2, v2) ==
  /\ n2 \in [Timers -> L!Pointer] /\ v2 \in [Timers -> L!Pointer]
  /\ \A x \in A \ {t} : n2[x] = IF t # f /\ x = v[t] THEN n[t] ELSE n[x]
  /\ \A x \in A \ {t} : v2[x] = IF x = n[t] THEN (IF t = f THEN NULL ELSE v[t]) ELSE v[x]

(* The list without place j. *)
Shorter(q, m, j, A, n, f, n2, v2) ==
  /\ Linked(Without(q, m, j), m - 1, A \ {q[j]}, n2, v2)
  /\ Node(Without(q, m, j), m - 1, 1) = IF q[j] = f THEN n[q[j]] ELSE f
  /\ q[j] = f <=> j = 1

(* So t is taken out. *)
LEMMA Unlinked ==
  ASSUME NULL \notin Timers, NEW m \in Nat, NEW q \in [1..m -> Timers], NEW A \in SUBSET Timers,
         NEW n, NEW v, Linked(q, m, A, n, v), NEW f, f = Node(q, m, 1), NEW j \in 1..m,
         NEW n2, NEW v2, Past(A, q[j], f, n, v, n2, v2)
  PROVE  Shorter(q, m, j, A, n, f, n2, v2)
<1>1. /\ \A i, h \in 1..m : q[i] = q[h] => i = h
      /\ \A i \in 1..m : q[i] \in A
      /\ n \in [Timers -> L!Pointer] /\ v \in [Timers -> L!Pointer]
  BY DEF Linked
<1>2. f = q[1] /\ 1 \in 1..m
  BY DEF Node
<1>3. q[j] = f <=> j = 1
  BY <1>1, <1>2
<1>4. PICK a, b : a = j + 1 /\ b = j - 1
  OBVIOUS
<1>5. /\ a # j /\ b # j /\ (j # m <=> a \in 1..m) /\ (j # 1 <=> b \in 1..m)
  BY <1>4
<1>6. /\ n[q[j]] = IF j = m THEN NULL ELSE q[a]
      /\ v[q[j]] = IF j = 1 THEN NULL ELSE q[b]
  BY <1>4 DEF Linked
<1>7. Node(q, m, a) = n[q[j]]
  BY <1>4, <1>6 DEF Node
<1>8. \A i \in 1..m : i # j => q[i] \in A \ {q[j]}
  BY <1>1
<1>9. \A i \in 1..m : i # j => n2[q[i]] = IF i = b THEN Node(q, m, a) ELSE n[q[i]]
  <2>1. ASSUME NEW i \in 1..m, i # j PROVE n2[q[i]] = IF i = b THEN Node(q, m, a) ELSE n[q[i]]
    <3>1. n2[q[i]] = IF q[j] # f /\ q[i] = v[q[j]] THEN n[q[j]] ELSE n[q[i]]
      BY <1>8, <2>1 DEF Past
    <3>2. q[j] # f /\ q[i] = v[q[j]] <=> i = b
      BY <1>1, <1>3, <1>5, <1>6
    <3> QED
      BY <1>7, <3>1, <3>2
  <2> QED
    BY <2>1
<1>10. \A i \in 1..m : i # j => v2[q[i]] = IF i = a THEN (IF j = 1 THEN NULL ELSE q[b]) ELSE v[q[i]]
  <2>1. ASSUME NEW i \in 1..m, i # j
        PROVE  v2[q[i]] = IF i = a THEN (IF j = 1 THEN NULL ELSE q[b]) ELSE v[q[i]]
    <3>1. v2[q[i]] = IF q[i] = n[q[j]] THEN (IF q[j] = f THEN NULL ELSE v[q[j]]) ELSE v[q[i]]
      BY <1>8, <2>1 DEF Past
    <3>2. q[i] = n[q[j]] <=> i = a
      <4>1. q[i] # NULL
        OBVIOUS
      <4> QED
        BY <1>1, <1>5, <1>6, <4>1
    <3> QED
      BY <1>3, <1>6, <3>1, <3>2
  <2> QED
    BY <2>1
<1>11. Bypass(q, m, j, n, v, n2, v2)
  <2>1. n2 \in [Timers -> L!Pointer] /\ v2 \in [Timers -> L!Pointer]
    BY DEF Past
  <2> QED
    BY <1>4, <1>9, <1>10, <2>1 DEF Bypass
<1>12. Linked(Without(q, m, j), m - 1, A \ {q[j]}, n2, v2)
  BY <1>11, Removed
<1>13. Node(Without(q, m, j), m - 1, 1) = IF q[j] = f THEN n[q[j]] ELSE f
  <2>1. /\ \A i \in 1..m : i < j => i \in 1..m - 1 /\ Without(q, m, j)[i] = q[i]
        /\ \A i \in 1..m : i > j => i - 1 \in 1..m - 1 /\ Without(q, m, j)[i - 1] = q[i]
    BY WithoutIs
  <2>2. CASE j # 1
    <3>1. Without(q, m, j)[1] = q[1] /\ 1 <= m - 1
      BY <1>2, <2>1, <2>2
    <3> QED
      BY <1>2, <1>3, <2>2, <3>1 DEF Node
  <2>3. CASE j = 1 /\ j # m
    <3>1. a \in 1..m /\ a > j /\ a - 1 = 1
      BY <1>4, <2>3
    <3>2. Without(q, m, j)[1] = q[a] /\ 1 <= m - 1
      BY <2>1, <3>1
    <3> QED
      BY <1>3, <1>6, <2>3, <3>2 DEF Node
  <2>4. CASE j = 1 /\ j = m
    <3>1. ~(1 <= m - 1)
      BY <2>4
    <3> QED
      BY <1>3, <1>6, <2>4, <3>1 DEF Node
  <2> QED
    BY <2>2, <2>3, <2>4
<1> QED
  BY <1>3, <1>12, <1>13 DEF Shorter

(* The wheel begins empty. *)
LEMMA WheelInvInit ==
  ASSUME W!TimerWheelAssumption, W!Init
  PROVE  WheelInv /\ W!Abstract!Init
<1>1. N \in Nat \ {0} /\ 0 \in 0..N - 1
  BY DEF W!TimerWheelAssumption
<1>2. WheelTypes
  BY <1>1 DEF W!Init, W!Slot, WheelTypes, L!Pointer
<1>3. ASSUME NEW s \in 0..N - 1 PROVE SlotLinked(s, InSlot(s), w_next, w_prev, slots[s])
  <2>1. PICK m \in Nat : m = 0
    OBVIOUS
  <2>2. PICK q \in [1..m -> Timers] : TRUE
    <3>1. [i \in 1..m |-> CHOOSE x \in Timers : TRUE] \in [1..m -> Timers]
      BY <2>1
    <3> QED
      BY <3>1
  <2>3. InSlot(s) = {} /\ slots[s] = NULL
    BY DEF InSlot, W!Init, W!Slot
  <2>4. Node(q, m, 1) = NULL /\ 1..m = {}
    BY <2>1 DEF Node
  <2>5. Linked(q, m, InSlot(s), w_next, w_prev)
    BY <1>2, <2>3, <2>4 DEF Linked, WheelTypes
  <2> QED
    BY <2>3, <2>4, <2>5 DEF SlotLinked
<1>4. WheelTimes /\ due = [t \in Timers |-> due[t]]
  BY DEF W!Init, WheelTimes
<1>5. W!Abstract!Init
  BY DEF W!Init, W!Abstract!Init, W!Abstract!Unset
<1> QED
  BY <1>2, <1>3, <1>4, <1>5 DEF WheelInv, WheelLists

(* add_timer puts the timer into the slot that the hand reaches in time. *)
LEMMA WheelInvAdd ==
  ASSUME W!TimerWheelAssumption, WheelInv, NEW t \in Timers, NEW timeout \in 0..MaxTimeout,
         W!AddTimer(t, timeout)
  PROVE  WheelInv' /\ \E d \in 0..W!Ticks(MaxTimeout) : W!Abstract!Add(t, d)
<1>1. N \in Nat \ {0} /\ NULL \notin Timers /\ WheelTypes /\ WheelLists /\ WheelTimes
      /\ due = [x \in Timers |-> due[x]]
  BY DEF W!TimerWheelAssumption, WheelInv
<1>2. PICK d \in 0..W!Ticks(MaxTimeout) : d = W!Ticks(timeout) /\ d \in Nat \ {0}
  BY TicksBound
<1>3. PICK turns \in Nat, r \in 0..N - 1 : turns = d \div N /\ r = d % N /\ d = turns * N + r
  BY <1>1, <1>2, DivMod
<1>4. PICK ts \in 0..N - 1 : ts = (cur_slot + r) % N /\ Distance(ts, cur_slot) = r
  <2>1. cur_slot \in 0..N - 1
    BY <1>1 DEF WheelTypes
  <2>2. PICK x \in 0..N + N - 1 : x = cur_slot + r
    BY <1>1, <2>1
  <2>3. x % N = IF x < N THEN x ELSE x - N
    BY <1>1, ComesRound
  <2>4. PICK ts \in 0..N - 1 : ts = IF x < N THEN x ELSE x - N
    BY <1>1, <2>2
  <2>5. Distance(ts, cur_slot) = r
    BY <1>1, <2>1, <2>2, <2>4 DEF Distance
  <2> QED
    BY <2>2, <2>3, <2>4, <2>5
<1>5. /\ t \notin w_allocated /\ w_allocated' = w_allocated \cup {t}
      /\ rotation' = [rotation EXCEPT ![t] = turns]
      /\ time_slot' = [time_slot EXCEPT ![t] = ts]
      /\ w_next' = [w_next EXCEPT ![t] = slots[ts]]
      /\ w_prev' = [x \in Timers |-> IF x = slots[ts] THEN t ELSE IF x = t THEN NULL ELSE w_prev[x]]
      /\ slots' = [slots EXCEPT ![ts] = t]
      /\ due' = [due EXCEPT ![t] = d]
      /\ w_fired' = {} /\ cur_slot' = cur_slot
  <2>1. W!Rotation(d) = turns
    BY <1>3 DEF W!Rotation
  <2>2. (cur_slot + (d % N)) % N = ts
    BY <1>3, <1>4
  <2>3. /\ t \notin w_allocated /\ w_allocated' = w_allocated \cup {t}
        /\ rotation' = [rotation EXCEPT ![t] = W!Rotation(d)]
        /\ time_slot' = [time_slot EXCEPT ![t] = ts]
        /\ w_next' = [w_next EXCEPT ![t] = slots[ts]]
        /\ w_prev' = W!WithPrev([w_prev EXCEPT ![t] = NULL], slots[ts], t)
        /\ slots' = [slots EXCEPT ![ts] = t]
        /\ due' = [due EXCEPT ![t] = d]
        /\ w_fired' = {} /\ cur_slot' = cur_slot
    BY <1>2, <2>2 DEF W!AddTimer
  <2> QED
    BY <1>1, <2>1, <2>3 DEF W!WithPrev, WheelTypes
<1>6. slots[ts] \in L!Pointer /\ ts \in 0..N - 1
  BY <1>1 DEF WheelTypes
<1>7. WheelTypes'
  BY <1>1, <1>3, <1>5, <1>6 DEF WheelTypes, L!Pointer
<1>8. \A s \in 0..N - 1 : InSlot(s)' = IF s = ts THEN InSlot(s) \cup {t} ELSE InSlot(s)
  BY <1>1, <1>5 DEF InSlot, WheelTypes
<1>9. \A s \in 0..N - 1 : InSlot(s) \in SUBSET Timers /\ t \notin InSlot(s)
  BY <1>1, <1>5 DEF InSlot, WheelTypes
<1>10. ASSUME NEW s \in 0..N - 1 PROVE SlotLinked(s, InSlot(s)', w_next', w_prev', slots'[s])
  <2>1. SlotLinked(s, InSlot(s), w_next, w_prev, slots[s])
    BY <1>1 DEF WheelLists
  <2>2. CASE s = ts
    <3>1. SlotLinked(s, InSlot(s) \cup {t}, w_next', w_prev', t)
      <4>1. w_next \in [Timers -> L!Pointer] /\ w_prev \in [Timers -> L!Pointer]
        BY <1>1 DEF WheelTypes
      <4>2. PICK f \in L!Pointer : f = slots[s]
        BY <1>6, <2>2
      <4>3. Prepend(t, f, w_next, w_prev, w_next', w_prev')
        BY <1>5, <2>2, <4>2 DEF Prepend
      <4>4. PICK A \in SUBSET Timers : A = InSlot(s) /\ t \notin A
        BY <1>9
      <4>5. SlotLinked(s, A, w_next, w_prev, f)
        BY <2>1, <4>2, <4>4
      <4>6. SlotLinked(s, A \cup {t}, w_next', w_prev', t)
        BY <1>1, <4>1, <4>3, <4>4, <4>5, InFront
      <4> QED
        BY <4>4, <4>6
    <3>2. slots'[s] = t
      BY <1>1, <1>5, <2>2 DEF WheelTypes
    <3> QED
      BY <1>8, <2>2, <3>1, <3>2
  <2>3. CASE s # ts
    <3>1. SlotLinked(ts, InSlot(ts), w_next, w_prev, slots[ts])
      BY <1>1 DEF WheelLists
    <3>2. slots[ts] = NULL \/ slots[ts] \in InSlot(ts)
      BY <1>9, <3>1, FirstOfSlot
    <3>3. \A x \in InSlot(s) : x # t /\ x # slots[ts] /\ x \in Timers
      BY <1>1, <1>5, <1>9, <2>3, <3>2 DEF InSlot
    <3>4. \A x \in InSlot(s) : w_next'[x] = w_next[x] /\ w_prev'[x] = w_prev[x]
      BY <1>1, <1>5, <3>3 DEF WheelTypes
    <3>5. w_next' \in [Timers -> L!Pointer] /\ w_prev' \in [Timers -> L!Pointer]
      BY <1>7 DEF WheelTypes
    <3>6. SlotLinked(s, InSlot(s), w_next', w_prev', slots[s])
      BY <2>1, <3>4, <3>5, SameLinks
    <3>7. slots'[s] = slots[s]
      BY <1>1, <1>5, <2>3 DEF WheelTypes
    <3> QED
      BY <1>8, <2>3, <3>6, <3>7
  <2> QED
    BY <2>2, <2>3
<1>11. ASSUME NEW x \in Timers
       PROVE  due'[x] = IF x \in w_allocated' THEN rotation'[x] * N + Distance(time_slot'[x], cur_slot') ELSE -1
  <2>1. cur_slot' = cur_slot
    BY <1>5
  <2>2. CASE x = t
    <3>1. due'[x] = d /\ rotation'[x] = turns /\ time_slot'[x] = ts /\ x \in w_allocated'
      BY <1>1, <1>5, <2>2 DEF WheelTypes
    <3>2. Distance(time_slot'[x], cur_slot') = r
      BY <1>4, <2>1, <3>1
    <3> QED
      BY <1>3, <3>1, <3>2
  <2>3. CASE x # t
    <3>1. due'[x] = due[x] /\ rotation'[x] = rotation[x] /\ time_slot'[x] = time_slot[x]
          /\ (x \in w_allocated' <=> x \in w_allocated) /\ time_slot[x] \in 0..N - 1
      BY <1>1, <1>5, <2>3 DEF WheelTypes
    <3> QED
      BY <1>1, <2>1, <3>1 DEF WheelTimes
  <2> QED
    BY <2>2, <2>3
<1>12. WheelInv'
  <2>1. due' = [x \in Timers |-> due'[x]]
    BY <1>1, <1>5
  <2>2. WheelLists'
    BY <1>10 DEF WheelLists
  <2>3. WheelTimes'
    BY <1>11 DEF WheelTimes
  <2> QED
    BY <1>7, <2>1, <2>2, <2>3 DEF WheelInv
<1>13. W!Abstract!Add(t, d)
  <2>1. due[t] = -1
    BY <1>1, <1>5 DEF WheelTimes
  <2> QED
    BY <1>5, <2>1 DEF W!Abstract!Add, W!Abstract!Pending, W!Abstract!Unset
<1> QED
  BY <1>12, <1>13

(* Beside t are timers of A or, at the ends, none. *)
Beside(A, f, n, v, t) ==
  /\ n[t] = NULL \/ n[t] \in A
  /\ IF t = f THEN v[t] = NULL ELSE v[t] \in A

(* The neighbours in a list are of the list. *)
LEMMA Neighbours ==
  ASSUME NEW s, NEW A \in SUBSET Timers, NEW n, NEW v, NEW f, SlotLinked(s, A, n, v, f), NEW t \in A
  PROVE  Beside(A, f, n, v, t)
<1>1. PICK m \in Nat : \E q \in [1..m -> Timers] : Linked(q, m, A, n, v) /\ f = Node(q, m, 1)
  BY DEF SlotLinked
<1>2. PICK q \in [1..m -> Timers] : Linked(q, m, A, n, v) /\ f = Node(q, m, 1)
  BY <1>1
<1>3. PICK j \in 1..m : q[j] = t
  BY <1>2 DEF Linked
<1>4. PICK a, b : a = j + 1 /\ b = j - 1
  OBVIOUS
<1>5. (j # m => a \in 1..m) /\ (j # 1 => b \in 1..m)
  BY <1>4
<1>6. n[t] = (IF j = m THEN NULL ELSE q[a]) /\ v[t] = IF j = 1 THEN NULL ELSE q[b]
  BY <1>2, <1>3, <1>4 DEF Linked
<1>7. t = f <=> j = 1
  <2>1. 1 \in 1..m /\ f = q[1]
    BY <1>2 DEF Node
  <2> QED
    BY <1>2, <1>3, <2>1 DEF Linked
<1> QED
  BY <1>2, <1>5, <1>6, <1>7 DEF Linked, Beside

(* What is left of the list of t without t. *)
LEMMA SlotWithout ==
  ASSUME NULL \notin Timers, NEW s, NEW A \in SUBSET Timers, NEW n, NEW v, NEW f,
         SlotLinked(s, A, n, v, f), NEW t \in A, NEW n2, NEW v2, Past(A, t, f, n, v, n2, v2)
  PROVE  SlotLinked(s, A \ {t}, n2, v2, IF t = f THEN n[t] ELSE f)
<1>1. PICK m \in Nat : \E q \in [1..m -> Timers] : Linked(q, m, A, n, v) /\ f = Node(q, m, 1)
  BY DEF SlotLinked
<1>2. PICK q \in [1..m -> Timers] : Linked(q, m, A, n, v) /\ f = Node(q, m, 1)
  BY <1>1
<1>3. PICK j \in 1..m : q[j] = t
  BY <1>2 DEF Linked
<1>4. /\ Linked(Without(q, m, j), m - 1, A \ {q[j]}, n2, v2)
      /\ Node(Without(q, m, j), m - 1, 1) = IF q[j] = f THEN n[q[j]] ELSE f
  <2>1. Past(A, q[j], f, n, v, n2, v2)
    BY <1>3
  <2>2. Shorter(q, m, j, A, n, f, n2, v2)
    BY <1>2, <2>1, Unlinked
  <2> QED
    BY <2>2 DEF Shorter
<1>5. m - 1 \in Nat /\ Without(q, m, j) \in [1..m - 1 -> Timers]
  BY <1>4 DEF Linked
<1> QED
  BY <1>3, <1>4, <1>5 DEF SlotLinked

(* del_timer takes the timer out of the list of its slot. *)
LEMMA WheelInvDel ==
  ASSUME W!TimerWheelAssumption, WheelInv, NEW t \in Timers, W!DelTimer(t)
  PROVE  WheelInv' /\ W!Abstract!Cancel(t)
<1>1. N \in Nat \ {0} /\ NULL \notin Timers /\ WheelTypes /\ WheelLists /\ WheelTimes
      /\ due = [x \in Timers |-> due[x]]
  BY DEF W!TimerWheelAssumption, WheelInv
<1>2. PICK ts \in 0..N - 1 : ts = time_slot[t]
  BY <1>1 DEF WheelTypes
<1>3. /\ t \in w_allocated /\ w_allocated' = w_allocated \ {t}
      /\ due' = [due EXCEPT ![t] = -1] /\ w_fired' = {}
      /\ rotation' = W!Forget(rotation, {t}, 0) /\ time_slot' = W!Forget(time_slot, {t}, 0)
      /\ cur_slot' = cur_slot
  BY DEF W!DelTimer
<1> DEFINE f == slots[ts]
<1>4. slots' = [slots EXCEPT ![ts] = IF t = f THEN w_next[t] ELSE f]
  <2>1. CASE t = f
    BY <1>2, <2>1 DEF W!DelTimer
  <2>2. CASE t # f
    <3>1. slots' = slots
      BY <1>2, <2>2 DEF W!DelTimer
    <3> QED
      BY <1>1, <2>2, <3>1 DEF WheelTypes
  <2> QED
    BY <2>1, <2>2
<1>5. t \in InSlot(ts) /\ SlotLinked(ts, InSlot(ts), w_next, w_prev, f)
  BY <1>1, <1>2, <1>3 DEF InSlot, WheelLists
<1>6. \A s \in 0..N - 1 : InSlot(s) \in SUBSET Timers /\ InSlot(s)' = InSlot(s) \ {t}
  BY <1>1, <1>3 DEF InSlot, WheelTypes, W!Forget
<1>7. /\ w_next[t] = NULL \/ w_next[t] \in InSlot(ts)
      /\ IF t = f THEN w_prev[t] = NULL ELSE w_prev[t] \in InSlot(ts)
  <2>1. PICK A \in SUBSET Timers : A = InSlot(ts) /\ t \in A
    BY <1>5, <1>6
  <2>2. PICK g : g = f
    OBVIOUS
  <2> HIDE DEF f
  <2>3. SlotLinked(ts, A, w_next, w_prev, g)
    BY <1>5, <2>1, <2>2
  <2>4. Beside(A, g, w_next, w_prev, t)
    BY <2>1, <2>3, Neighbours
  <2> QED
    BY <2>1, <2>2, <2>4 DEF Beside
<1>8. /\ w_next' \in [Timers -> L!Pointer] /\ w_prev' \in [Timers -> L!Pointer]
      /\ \A x \in Timers \ {t} : w_next'[x] = IF t # f /\ x = w_prev[t] THEN w_next[t] ELSE w_next[x]
      /\ \A x \in Timers \ {t} : w_prev'[x] = IF x = w_next[t] THEN (IF t = f THEN NULL ELSE w_prev[t])
                                              ELSE w_prev[x]
  <2>1. /\ w_next \in [Timers -> L!Pointer] /\ w_prev \in [Timers -> L!Pointer]
        /\ w_next[t] \in L!Pointer /\ w_prev[t] \in L!Pointer
    BY <1>1 DEF WheelTypes
  <2>2. CASE t = f
    <3>1. /\ w_prev' = W!Forget(W!WithPrev(w_prev, w_next[t], NULL), {t}, NULL)
          /\ w_next' = W!Forget(w_next, {t}, NULL)
      BY <1>2, <2>2 DEF W!DelTimer
    <3> HIDE DEF f
    <3> QED
      BY <2>1, <2>2, <3>1 DEF W!Forget, W!WithPrev, L!Pointer
  <2>3. CASE t # f
    <3>1. /\ w_next' = W!Forget([w_next EXCEPT ![w_prev[t]] = w_next[t]], {t}, NULL)
          /\ w_prev' = W!Forget(W!WithPrev(w_prev, w_next[t], w_prev[t]), {t}, NULL)
      BY <1>2, <2>3 DEF W!DelTimer
    <3>2. w_prev[t] \in Timers
      BY <1>6, <1>7, <2>3
    <3> HIDE DEF f
    <3> QED
      BY <2>1, <2>3, <3>1, <3>2 DEF W!Forget, W!WithPrev, L!Pointer
  <2> QED
    BY <2>2, <2>3
<1>9. f \in L!Pointer /\ w_next[t] \in L!Pointer /\ 0 \in 0..N - 1
  BY <1>1 DEF WheelTypes
<1>10. WheelTypes'
  <2>1. slots' \in [0..N - 1 -> L!Pointer]
    BY <1>1, <1>4, <1>9 DEF WheelTypes
  <2>2. rotation' \in [Timers -> Nat] /\ time_slot' \in [Timers -> 0..N - 1]
    BY <1>1, <1>3, <1>9 DEF WheelTypes, W!Forget
  <2> QED
    BY <1>1, <1>3, <1>8, <2>1, <2>2 DEF WheelTypes
<1>11. ASSUME NEW s \in 0..N - 1 PROVE SlotLinked(s, InSlot(s)', w_next', w_prev', slots'[s])
  <2>1. SlotLinked(s, InSlot(s), w_next, w_prev, slots[s])
    BY <1>1 DEF WheelLists
  <2>2. PICK A \in SUBSET Timers : A = InSlot(s)
    BY <1>6
  <2>3. CASE s = ts
    <3>1. Past(A, t, f, w_next, w_prev, w_next', w_prev')
      BY <1>8, <2>2 DEF Past
    <3>2. SlotLinked(s, A, w_next, w_prev, f) /\ t \in A
      BY <1>5, <2>1, <2>2, <2>3
    <3>3. slots'[s] = IF t = f THEN w_next[t] ELSE f
      BY <1>1, <1>4, <2>3 DEF WheelTypes
    <3>4. InSlot(s)' = A \ {t}
      BY <1>6, <2>2
    <3>5. PICK g : g = f
      OBVIOUS
    <3> HIDE DEF f
    <3>6. SlotLinked(s, A, w_next, w_prev, g) /\ Past(A, t, g, w_next, w_prev, w_next', w_prev')
      BY <3>1, <3>2, <3>5
    <3>7. SlotLinked(s, A \ {t}, w_next', w_prev', IF t = g THEN w_next[t] ELSE g)
      BY <1>1, <3>2, <3>6, SlotWithout
    <3> QED
      BY <3>3, <3>4, <3>5, <3>7
  <2>4. CASE s # ts
    <3>1. \A x \in A : x \in Timers /\ x \notin InSlot(ts) /\ x # NULL
      BY <1>1, <2>2, <2>4 DEF InSlot
    <3>2. \A x \in A : x # t /\ x # w_next[t] /\ (t # f => x # w_prev[t])
      BY <1>5, <1>7, <3>1
    <3>3. \A x \in A : w_next'[x] = w_next[x] /\ w_prev'[x] = w_prev[x]
      <4> HIDE DEF f
      <4> QED
        BY <1>8, <3>1, <3>2
    <3>4. SlotLinked(s, A, w_next', w_prev', slots[s])
      <4>1. SlotLinked(s, A, w_next, w_prev, slots[s])
        BY <2>1, <2>2
      <4> QED
        BY <1>8, <3>3, <4>1, SameLinks
    <3>5. slots'[s] = slots[s]
      BY <1>1, <1>4, <2>4 DEF WheelTypes
    <3>6. InSlot(s)' = A
      BY <1>6, <2>2, <3>2
    <3> QED
      BY <3>4, <3>5, <3>6
  <2> QED
    BY <2>3, <2>4
<1>12. ASSUME NEW x \in Timers
       PROVE  due'[x] = IF x \in w_allocated' THEN rotation'[x] * N + Distance(time_slot'[x], cur_slot') ELSE -1
  <2>1. CASE x = t
    BY <1>1, <1>3, <2>1
  <2>2. CASE x # t
    <3>1. due'[x] = due[x] /\ rotation'[x] = rotation[x] /\ time_slot'[x] = time_slot[x]
          /\ (x \in w_allocated' <=> x \in w_allocated) /\ cur_slot' = cur_slot
      BY <1>1, <1>3, <2>2 DEF W!Forget
    <3> QED
      BY <1>1, <3>1 DEF WheelTimes
  <2> QED
    BY <2>1, <2>2
<1>13. WheelInv'
  <2>1. due' = [x \in Timers |-> due'[x]]
    BY <1>1, <1>3
  <2>2. WheelLists'
    BY <1>11 DEF WheelLists
  <2>3. WheelTimes'
    BY <1>12 DEF WheelTimes
  <2> QED
    BY <1>10, <2>1, <2>2, <2>3 DEF WheelInv
<1>14. W!Abstract!Cancel(t)
  <2>1. due[t] # -1
    <3>1. due[t] = rotation[t] * N + Distance(ts, cur_slot)
      BY <1>1, <1>2, <1>3 DEF WheelTimes
    <3>2. PICK r \in 0..N - 1 : r = Distance(ts, cur_slot)
      BY <1>1 DEF WheelTypes, Distance
    <3>3. PICK a \in Nat : a = rotation[t] * N
      BY <1>1, TurnsAndRest DEF WheelTypes
    <3> QED
      BY <3>1, <3>2, <3>3
  <2> QED
    BY <1>3, <2>1 DEF W!Abstract!Cancel, W!Abstract!Pending, W!Abstract!Unset
<1> QED
  BY <1>13, <1>14

(* What tick's loop works on: the members of w in TickOne. *)
WheelWalk ==
  [tmp : L!Pointer, first : L!Pointer, next : [Timers -> L!Pointer], prev : [Timers -> L!Pointer],
   rotation : [Timers -> Nat], called : SUBSET Timers]

(* The loop in the midst of a slot: of its timers A, those not called are   *)
(* linked as l, tmp is past p of them, and those have a turn less.  At most *)
(* k are left.                                                              *)
At(A, rot, k, w, r, l, p) ==
  /\ Linked(l, r, A \ w.called, w.next, w.prev)
  /\ w.first = Node(l, r, 1) /\ w.tmp = Node(l, r, p + 1) /\ r - p <= k
  /\ \A i \in 1..r : IF i <= p THEN rot[l[i]] > 0 /\ w.rotation[l[i]] = rot[l[i]] - 1
                     ELSE w.rotation[l[i]] = rot[l[i]]

(* The rest of the wheel is as it was. *)
Aside(A, n, v, rot, w) ==
  \A t \in Timers \ A : w.next[t] = n[t] /\ w.prev[t] = v[t] /\ w.rotation[t] = rot[t]

Walking(A, n, v, rot, k, w) ==
  /\ w \in WheelWalk /\ w.called \in SUBSET A /\ Aside(A, n, v, rot, w)
  /\ \A t \in w.called : rot[t] = 0
  /\ \E r \in Nat : \E p \in 0..r : \E l \in [1..r -> Timers] : At(A, rot, k, w, r, l, p)

(* The loop's body goes on to a timer that has turns left... *)
LEMMA WalksOn ==
  ASSUME NULL \notin Timers, NEW A \in SUBSET Timers, NEW n, NEW v, NEW rot \in [Timers -> Nat], NEW k \in Nat \ {0},
         NEW w \in WheelWalk, Walking(A, n, v, rot, k, w), w.tmp # NULL, w.rotation[w.tmp] > 0
  PROVE  Walking(A, n, v, rot, k - 1, W!TickOne(w))
<1>1. PICK r \in Nat : \E p \in 0..r : \E l \in [1..r -> Timers] : At(A, rot, k, w, r, l, p)
  BY DEF Walking
<1>2. PICK p \in 0..r : \E l \in [1..r -> Timers] : At(A, rot, k, w, r, l, p)
  BY <1>1
<1>3. PICK l \in [1..r -> Timers] : At(A, rot, k, w, r, l, p)
  BY <1>2
<1>4. PICK j \in Nat : j = p + 1
  OBVIOUS
<1>5. j \in 1..r /\ w.tmp = l[j] /\ l[j] \in Timers
  BY <1>3, <1>4 DEF At, Node
<1>6. PICK t \in Timers : t = l[j] /\ t = w.tmp /\ w.rotation[t] > 0
  BY <1>5
<1>7. w.rotation[t] = rot[t] /\ t \in A
  <2>1. ~(j <= p)
    BY <1>4
  <2> QED
    BY <1>3, <1>5, <1>6, <2>1 DEF At, Linked
<1>8. /\ w.rotation \in [Timers -> Nat] /\ w.next \in [Timers -> L!Pointer] /\ w.prev \in [Timers -> L!Pointer]
      /\ w.called \in SUBSET Timers /\ w.first \in L!Pointer
  BY DEF WheelWalk
<1>9. PICK o : o = [w.rotation EXCEPT ![t] = w.rotation[t] - 1]
  OBVIOUS
<1>10. /\ o \in [Timers -> Nat] /\ o[t] = rot[t] - 1 /\ \A x \in Timers : x # t => o[x] = w.rotation[x]
  BY <1>6, <1>7, <1>8, <1>9
<1>11. PICK u : u = [tmp |-> w.next[t], first |-> w.first, next |-> w.next, prev |-> w.prev, rotation |-> o,
                     called |-> w.called]
  OBVIOUS
<1>12. W!TickOne(w) = u
  <2>1. W!TickOne(w) = [w EXCEPT !.rotation[t] = @ - 1, !.tmp = w.next[t]]
    BY <1>6 DEF W!TickOne
  <2>2. w = [tmp |-> w.tmp, first |-> w.first, next |-> w.next, prev |-> w.prev,
             rotation |-> w.rotation, called |-> w.called]
    BY DEF WheelWalk
  <2>3. [w EXCEPT !.rotation[t] = @ - 1, !.tmp = w.next[t]] = [[w EXCEPT !.rotation = o] EXCEPT !.tmp = w.next[t]]
    BY <1>9
  <2> QED
    BY <1>11, <2>1, <2>2, <2>3
<1>13. u \in WheelWalk
  BY <1>8, <1>10, <1>11 DEF WheelWalk
<1>14. At(A, rot, k - 1, u, r, l, j)
  <2>1. Linked(l, r, A \ u.called, u.next, u.prev) /\ u.first = Node(l, r, 1)
    BY <1>3, <1>11 DEF At
  <2>2. u.tmp = Node(l, r, j + 1) /\ r - j <= k - 1
    <3>1. w.next[t] = IF j = r THEN NULL ELSE l[j + 1]
      BY <1>3, <1>5, <1>6 DEF At, Linked
    <3>2. r - p <= k
      BY <1>3 DEF At
    <3> QED
      BY <1>4, <1>5, <1>11, <3>1, <3>2 DEF Node
  <2>3. ASSUME NEW i \in 1..r
        PROVE  IF i <= j THEN rot[l[i]] > 0 /\ u.rotation[l[i]] = rot[l[i]] - 1
               ELSE u.rotation[l[i]] = rot[l[i]]
    <3>1. CASE i = j
      <4>1. l[i] = t /\ i <= j /\ rot[t] > 0
        <5>1. rot[t] > 0
          BY <1>6, <1>7
        <5>2. l[i] = t
          BY <1>6, <3>1
        <5>3. i <= j
          BY <3>1
        <5> QED
          BY <5>1, <5>2, <5>3
      <4>2. u.rotation[t] = rot[t] - 1
        BY <1>10, <1>11
      <4> QED
        BY <4>1, <4>2
    <3>2. CASE i # j
      <4>1. l[i] # t /\ l[i] \in Timers
        BY <1>3, <1>5, <1>6, <3>2 DEF At, Linked
      <4>2. u.rotation[l[i]] = w.rotation[l[i]]
        BY <1>10, <1>11, <4>1
      <4>3. i <= j <=> i <= p
        BY <1>4, <3>2
      <4> QED
        BY <1>3, <4>2, <4>3 DEF At
    <3> QED
      BY <3>1, <3>2
  <2> QED
    BY <2>1, <2>2, <2>3 DEF At
<1>15. Aside(A, n, v, rot, u)
  BY <1>7, <1>10, <1>11 DEF Aside, Walking
<1>16. Walking(A, n, v, rot, k - 1, u)
  BY <1>5, <1>11, <1>13, <1>14, <1>15 DEF Walking
<1> QED
  BY <1>12, <1>16

(* u is what w becomes when t is taken out of a list that begins with f. *)
Takes(w, t, f, u) ==
  /\ u = [tmp |-> w.next[t], first |-> IF t = f THEN w.next[t] ELSE f, next |-> u.next, prev |-> u.prev,
          rotation |-> w.rotation, called |-> w.called \cup {t}]
  /\ u.next \in [Timers -> L!Pointer] /\ u.prev \in [Timers -> L!Pointer]
  /\ \A x \in Timers : u.next[x] = IF t # f /\ x = w.prev[t] THEN w.next[t] ELSE w.next[x]
  /\ \A x \in Timers : u.prev[x] = IF x = w.next[t] THEN (IF t = f THEN NULL ELSE w.prev[t]) ELSE w.prev[x]

(* ...and takes one that has none out of the list. *)
LEMMA WalksTake ==
  ASSUME NULL \notin Timers, NEW w \in WheelWalk, w.tmp # NULL, w.rotation[w.tmp] = 0,
         w.tmp # w.first => w.prev[w.tmp] \in Timers
  PROVE  Takes(w, w.tmp, w.first, W!TickOne(w))
<1>1. PICK t \in Timers : t = w.tmp /\ w.rotation[t] = 0
  BY DEF WheelWalk, L!Pointer
<1>2. PICK f \in L!Pointer : f = w.first
  BY DEF WheelWalk
<1>3. /\ w.rotation \in [Timers -> Nat] /\ w.next \in [Timers -> L!Pointer] /\ w.prev \in [Timers -> L!Pointer]
      /\ w.called \in SUBSET Timers /\ w.next[t] \in L!Pointer /\ w.prev[t] \in L!Pointer
  BY DEF WheelWalk
<1>4. ~(w.rotation[t] > 0)
  BY <1>1
<1>5. CASE t = f
  <2>1. W!TickOne(w) = [tmp |-> w.next[t], first |-> w.next[t], next |-> w.next,
                        prev |-> W!WithPrev(w.prev, w.next[t], NULL),
                        rotation |-> w.rotation, called |-> w.called \cup {t}]
    BY <1>1, <1>2, <1>4, <1>5 DEF W!TickOne, WheelWalk
  <2>2. PICK u : u = W!TickOne(w)
    OBVIOUS
  <2>3. /\ u.next = w.next /\ u.prev = [x \in Timers |-> IF x = w.next[t] THEN NULL ELSE w.prev[x]]
        /\ u = [tmp |-> w.next[t], first |-> w.next[t], next |-> u.next, prev |-> u.prev,
                rotation |-> w.rotation, called |-> w.called \cup {t}]
    BY <2>1, <2>2 DEF W!WithPrev
  <2>4. Takes(w, t, f, u)
    BY <1>3, <1>5, <2>3 DEF Takes, L!Pointer
  <2> QED
    BY <1>1, <1>2, <2>2, <2>4
<1>6. CASE t # f
  <2>1. W!TickOne(w) = [tmp |-> w.next[t], first |-> f, next |-> [w.next EXCEPT ![w.prev[t]] = w.next[t]],
                        prev |-> W!WithPrev(w.prev, w.next[t], w.prev[t]),
                        rotation |-> w.rotation, called |-> w.called \cup {t}]
    BY <1>1, <1>2, <1>4, <1>6 DEF W!TickOne, WheelWalk
  <2>2. PICK u : u = W!TickOne(w)
    OBVIOUS
  <2>3. /\ u.next = [w.next EXCEPT ![w.prev[t]] = w.next[t]]
        /\ u.prev = [x \in Timers |-> IF x = w.next[t] THEN w.prev[t] ELSE w.prev[x]]
        /\ u = [tmp |-> w.next[t], first |-> f, next |-> u.next, prev |-> u.prev,
                rotation |-> w.rotation, called |-> w.called \cup {t}]
    BY <2>1, <2>2 DEF W!WithPrev
  <2>4. w.prev[t] \in Timers
    BY <1>1, <1>2, <1>6
  <2>5. Takes(w, t, f, u)
    BY <1>3, <1>6, <2>3, <2>4 DEF Takes, L!Pointer
  <2> QED
    BY <1>1, <1>2, <2>2, <2>5
<1> QED
  BY <1>5, <1>6

(* The places of a list without place j. *)
Narrowed(w, q, m, j) ==
  /\ w \in [1..m - 1 -> Timers]
  /\ \A i \in 1..m - 1 : \/ i < j /\ i \in 1..m /\ w[i] = q[i]
                         \/ i >= j /\ i + 1 \in 1..m /\ w[i] = q[i + 1]
  /\ \A i \in 1..m : i > j => i - 1 \in 1..m - 1 /\ w[i - 1] = q[i]

(* So the places after j move up by one. *)
LEMMA Narrows ==
  ASSUME NEW m \in Nat, NEW q \in [1..m -> Timers], NEW j \in 1..m
  PROVE  Narrowed(Without(q, m, j), q, m, j)
<1>1. Without(q, m, j) \in [1..m - 1 -> Timers]
  BY WithoutIs
<1>2. \A i \in 1..m - 1 : \/ i < j /\ i \in 1..m /\ Without(q, m, j)[i] = q[i]
                          \/ i >= j /\ i + 1 \in 1..m /\ Without(q, m, j)[i] = q[i + 1]
  BY WithoutIs
<1>3. \A i \in 1..m : i > j => i - 1 \in 1..m - 1 /\ Without(q, m, j)[i - 1] = q[i]
  BY WithoutIs
<1> QED
  BY <1>1, <1>2, <1>3 DEF Narrowed

(* Then the list is shorter, and tmp as far along it as it was. *)
LEMMA WalksPast ==
  ASSUME NULL \notin Timers, NEW A \in SUBSET Timers, NEW n, NEW v, NEW rot \in [Timers -> Nat], NEW k \in Nat \ {0},
         NEW w \in WheelWalk, Walking(A, n, v, rot, k, w), w.tmp # NULL, w.rotation[w.tmp] = 0
  PROVE  Walking(A, n, v, rot, k - 1, W!TickOne(w))
<1>1. PICK r \in Nat : \E p \in 0..r : \E l \in [1..r -> Timers] : At(A, rot, k, w, r, l, p)
  BY DEF Walking
<1>2. PICK p \in 0..r : \E l \in [1..r -> Timers] : At(A, rot, k, w, r, l, p)
  BY <1>1
<1>3. PICK l \in [1..r -> Timers] : At(A, rot, k, w, r, l, p)
  BY <1>2
<1>4. PICK j \in Nat : j = p + 1
  OBVIOUS
<1>5. j \in 1..r /\ w.tmp = l[j] /\ l[j] \in Timers
  BY <1>3, <1>4 DEF At, Node
<1>6. PICK t \in Timers : t = l[j] /\ t = w.tmp /\ w.rotation[t] = 0
  BY <1>5
<1>7. PICK f \in L!Pointer : f = w.first
  BY DEF WheelWalk
<1>8. PICK R \in SUBSET Timers : R = A \ w.called
  OBVIOUS
<1>9. Linked(l, r, R, w.next, w.prev) /\ f = Node(l, r, 1)
  BY <1>3, <1>7, <1>8 DEF At
<1>10. t \in R /\ t \in A /\ rot[t] = 0
  <2>1. ~(j <= p)
    BY <1>4
  <2>2. w.rotation[l[j]] = rot[l[j]]
    BY <1>3, <1>5, <2>1 DEF At
  <2>3. l[j] \in R
    BY <1>5, <1>9 DEF Linked
  <2> QED
    BY <1>6, <1>8, <2>2, <2>3
<1>11. /\ w.next[t] = NULL \/ w.next[t] \in R
       /\ IF t = f THEN w.prev[t] = NULL ELSE w.prev[t] \in R
  <2>1. PICK s : TRUE
    OBVIOUS
  <2>2. SlotLinked(s, R, w.next, w.prev, f)
    BY <1>1, <1>3, <1>9 DEF SlotLinked
  <2>3. Beside(R, f, w.next, w.prev, t)
    BY <1>10, <2>2, Neighbours
  <2> QED
    BY <2>3 DEF Beside
<1>12. PICK u : u = W!TickOne(w)
  OBVIOUS
<1>13. Takes(w, t, f, u)
  <2>1. w.tmp # w.first => w.prev[w.tmp] \in Timers
    BY <1>6, <1>7, <1>8, <1>11
  <2> QED
    BY <1>6, <1>7, <1>12, <2>1, WalksTake
<1>14. /\ u.tmp = w.next[t] /\ u.first = IF t = f THEN w.next[t] ELSE f
       /\ u.rotation = w.rotation /\ u.called = w.called \cup {t}
  BY <1>13 DEF Takes
<1>15. u \in WheelWalk
  BY <1>7, <1>13 DEF Takes, WheelWalk
<1>16. Shorter(l, r, j, R, w.next, f, u.next, u.prev)
  <2>1. PICK nn, vv, n2, v2 : nn = w.next /\ vv = w.prev /\ n2 = u.next /\ v2 = u.prev
    OBVIOUS
  <2>2. Past(R, l[j], f, nn, vv, n2, v2)
    BY <1>6, <1>13, <2>1 DEF Past, Takes
  <2>3. Linked(l, r, R, nn, vv)
    BY <1>9, <2>1
  <2>4. Shorter(l, r, j, R, nn, f, n2, v2)
    BY <1>1, <1>3, <1>5, <1>9, <2>2, <2>3, Unlinked
  <2> QED
    BY <2>1, <2>4
<1>17. PICK r2 \in Nat : r2 = r - 1 /\ p \in 0..r2
  BY <1>4, <1>5
<1>18. PICK l2 \in [1..r2 -> Timers] : l2 = Without(l, r, j)
  <2>1. Narrowed(Without(l, r, j), l, r, j)
    BY <1>5, Narrows
  <2> QED
    BY <1>17, <2>1 DEF Narrowed
<1>19. /\ \A i \in 1..r2 : \/ i < j /\ i \in 1..r /\ l2[i] = l[i]
                           \/ i >= j /\ i + 1 \in 1..r /\ l2[i] = l[i + 1]
       /\ \A i \in 1..r : i > j => i - 1 \in 1..r2 /\ l2[i - 1] = l[i]
  <2>1. Narrowed(Without(l, r, j), l, r, j)
    BY <1>5, Narrows
  <2> QED
    BY <1>17, <1>18, <2>1 DEF Narrowed
<1>20. At(A, rot, k - 1, u, r2, l2, p)
  <2>1. Linked(l2, r2, A \ u.called, u.next, u.prev)
    <3>1. R \ {l[j]} = A \ u.called
      BY <1>6, <1>8, <1>14
    <3> QED
      BY <1>16, <1>17, <1>18, <3>1 DEF Shorter
  <2>2. u.first = Node(l2, r2, 1)
    BY <1>6, <1>14, <1>16, <1>17, <1>18 DEF Shorter
  <2>3. u.tmp = Node(l2, r2, p + 1)
    <3>1. PICK i : i = j + 1
      OBVIOUS
    <3>2. w.next[t] = IF j = r THEN NULL ELSE l[i]
      BY <1>5, <1>6, <1>9, <3>1 DEF Linked
    <3>3. CASE j = r
      BY <1>4, <1>14, <1>17, <3>2, <3>3 DEF Node
    <3>4. CASE j # r
      <4>1. i \in 1..r /\ i > j /\ i - 1 = p + 1
        BY <1>4, <1>5, <3>1, <3>4
      <4>2. p + 1 \in 1..r2 /\ l2[p + 1] = l[i]
        BY <1>19, <4>1
      <4> QED
        BY <1>14, <3>2, <3>4, <4>2 DEF Node
    <3> QED
      BY <3>3, <3>4
  <2>4. r2 - p <= k - 1
    BY <1>3, <1>17 DEF At
  <2>5. ASSUME NEW i \in 1..r2
        PROVE  IF i <= p THEN rot[l2[i]] > 0 /\ u.rotation[l2[i]] = rot[l2[i]] - 1
               ELSE u.rotation[l2[i]] = rot[l2[i]]
    <3>1. \A h \in 1..r : IF h <= p THEN rot[l[h]] > 0 /\ w.rotation[l[h]] = rot[l[h]] - 1
                          ELSE w.rotation[l[h]] = rot[l[h]]
      BY <1>3 DEF At
    <3>2. CASE i < j /\ i \in 1..r /\ l2[i] = l[i]
      BY <1>14, <3>1, <3>2
    <3>3. CASE i >= j /\ i + 1 \in 1..r /\ l2[i] = l[i + 1]
      <4>1. PICK h \in 1..r : h = i + 1
        BY <3>3
      <4>2. ~(h <= p) /\ ~(i <= p)
        BY <1>4, <3>3, <4>1
      <4>3. l2[i] = l[h]
        BY <3>3, <4>1
      <4> QED
        BY <1>14, <3>1, <4>2, <4>3
    <3> QED
      BY <1>19, <3>2, <3>3
  <2> QED
    BY <2>1, <2>2, <2>3, <2>4, <2>5 DEF At
<1>21. Aside(A, n, v, rot, u)
  <2>1. ASSUME NEW x \in Timers \ A PROVE u.next[x] = n[x] /\ u.prev[x] = v[x] /\ u.rotation[x] = rot[x]
    <3>1. x # w.next[t] /\ (t # f => x # w.prev[t])
      BY <1>8, <1>11
    <3>2. u.next[x] = w.next[x] /\ u.prev[x] = w.prev[x]
      BY <1>13, <3>1 DEF Takes
    <3> QED
      BY <1>14, <3>2 DEF Walking, Aside
  <2> QED
    BY <2>1 DEF Aside
<1>22. u.called \in SUBSET A /\ \A x \in u.called : rot[x] = 0
  BY <1>10, <1>14 DEF Walking
<1>23. Walking(A, n, v, rot, k - 1, u)
  BY <1>15, <1>17, <1>18, <1>20, <1>21, <1>22 DEF Walking
<1> QED
  BY <1>12, <1>23

(* One turn of tick's loop. *)
TurnOf(w) == IF w.tmp = NULL THEN w ELSE W!TickOne(w)

(* Either way one timer fewer is left to meet. *)
LEMMA Walks ==
  ASSUME NULL \notin Timers, NEW A \in SUBSET Timers, NEW n, NEW v, NEW rot \in [Timers -> Nat], NEW k \in Nat \ {0},
         NEW w \in WheelWalk, Walking(A, n, v, rot, k, w)
  PROVE  Walking(A, n, v, rot, k - 1, TurnOf(w))
<1>1. CASE w.tmp = NULL
  <2>1. PICK r \in Nat : \E p \in 0..r : \E l \in [1..r -> Timers] : At(A, rot, k, w, r, l, p)
    BY DEF Walking
  <2>2. PICK p \in 0..r : \E l \in [1..r -> Timers] : At(A, rot, k, w, r, l, p)
    BY <2>1
  <2>3. PICK l \in [1..r -> Timers] : At(A, rot, k, w, r, l, p)
    BY <2>2
  <2>4. ~(p + 1 \in 1..r)
    BY <1>1, <2>3 DEF At, Node
  <2>5. r - p <= k - 1
    BY <2>4
  <2>6. At(A, rot, k - 1, w, r, l, p)
    BY <2>3, <2>5 DEF At
  <2>7. Walking(A, n, v, rot, k - 1, w)
    BY <2>6 DEF Walking
  <2> QED
    BY <1>1, <2>7 DEF TurnOf
<1>2. CASE w.tmp # NULL
  <2>1. w.tmp \in Timers /\ w.rotation \in [Timers -> Nat]
    BY <1>2 DEF WheelWalk, L!Pointer
  <2>2. w.rotation[w.tmp] > 0 \/ w.rotation[w.tmp] = 0
    BY <2>1
  <2>3. Walking(A, n, v, rot, k - 1, W!TickOne(w))
    BY <1>2, <2>2, WalksOn, WalksPast
  <2> QED
    BY <1>2, <2>3 DEF TurnOf
<1> QED
  BY <1>1, <1>2

(* The loop is at the end of the slot when it ends. *)
LEMMA WheelWalked ==
  ASSUME L!TimerListAssumption, W!TimerWheelAssumption, WheelInv, W!Tick
  PROVE  \E w \in WheelWalk :
           /\ Walking(InSlot(cur_slot), w_next, w_prev, rotation, 0, w)
           /\ slots' = [slots EXCEPT ![cur_slot] = w.first] /\ w_fired' = w.called
           /\ w_next' = W!Forget(w.next, w_fired', NULL) /\ w_prev' = W!Forget(w.prev, w_fired', NULL)
           /\ rotation' = W!Forget(w.rotation, w_fired', 0)
<1> DEFINE n == Cardinality(Timers)
           z == [tmp |-> slots[cur_slot], first |-> slots[cur_slot], next |-> w_next, prev |-> w_prev,
                 rotation |-> rotation, called |-> {}]
           A == InSlot(cur_slot)
<1>1. /\ NULL \notin Timers /\ WheelTypes /\ A \in SUBSET Timers /\ rotation \in [Timers -> Nat]
      /\ SlotLinked(cur_slot, A, w_next, w_prev, slots[cur_slot])
  BY DEF W!TimerWheelAssumption, WheelInv, WheelTypes, WheelLists, InSlot
<1>2. PICK m \in Nat : \E q \in [1..m -> Timers] : Linked(q, m, A, w_next, w_prev) /\ slots[cur_slot] = Node(q, m, 1)
  BY <1>1 DEF SlotLinked
<1>3. PICK q \in [1..m -> Timers] : Linked(q, m, A, w_next, w_prev) /\ slots[cur_slot] = Node(q, m, 1)
  BY <1>2
<1>4. n \in Nat /\ m <= n
  <2> HIDE DEF A
  <2> QED
    BY <1>3, FewTimers
<1> DEFINE V(k) == {w \in WheelWalk : Walking(A, w_next, w_prev, rotation, n - k, w)}
           S == [k \in 0..n |-> V(k)]
           f == [k \in 1..n |-> [w \in S[k - 1] |-> TurnOf(w)]]
           F(g) == [k \in 0..n |-> IF k = 0 THEN z ELSE TurnOf(g[k - 1])]
<1>5. z \in V(0)
  <2>1. z \in WheelWalk
    BY <1>1 DEF WheelWalk, WheelTypes
  <2>2. PICK p \in 0..m : p = 0
    OBVIOUS
  <2>3. At(A, rotation, n, z, m, q, p)
    <3>1. A \ z.called = A
      OBVIOUS
    <3>2. p + 1 = 1 /\ m - p <= n /\ \A i \in 1..m : ~(i <= p)
      BY <1>4, <2>2
    <3> HIDE DEF A, n
    <3> QED
      BY <1>3, <3>1, <3>2 DEF At
  <2>4. Aside(A, w_next, w_prev, rotation, z)
    BY DEF Aside
  <2>5. Walking(A, w_next, w_prev, rotation, n, z)
    <3> HIDE DEF A, n
    <3>1. z.called \in SUBSET A /\ \A t \in z.called : rotation[t] = 0
      OBVIOUS
    <3> HIDE DEF z
    <3> QED
      BY <2>1, <2>3, <2>4, <3>1 DEF Walking
  <2>6. n - 0 = n
    BY <1>4
  <2> HIDE DEF z, A, n
  <2> QED
    BY <2>1, <2>5, <2>6
<1>6. ASSUME NEW k \in 1..n, NEW w \in V(k - 1) PROVE TurnOf(w) \in V(k)
  <2>1. PICK j \in Nat \ {0} : j = n - (k - 1) /\ j - 1 = n - k
    BY <1>4
  <2>2. Walking(A, w_next, w_prev, rotation, j, w) /\ w \in WheelWalk
    BY <2>1
  <2> HIDE DEF A, n
  <2>3. Walking(A, w_next, w_prev, rotation, j - 1, TurnOf(w))
    <3>1. PICK B \in SUBSET Timers : B = A
      BY <1>1
    <3>2. Walking(B, w_next, w_prev, rotation, j, w)
      BY <2>2, <3>1
    <3>3. Walking(B, w_next, w_prev, rotation, j - 1, TurnOf(w))
      BY <1>1, <2>2, <3>2, Walks
    <3> QED
      BY <3>1, <3>3
  <2>4. Walking(A, w_next, w_prev, rotation, n - k, TurnOf(w))
    BY <2>1, <2>3
  <2>5. TurnOf(w) \in WheelWalk
    BY <2>3 DEF Walking
  <2> QED
    BY <2>4, <2>5
<1> HIDE DEF V
<1>7. \A k \in 1..n : \A w \in S[k - 1] : f[k][w] \in S[k] /\ f[k][w] = TurnOf(w)
  <2> SUFFICES ASSUME NEW k \in 1..n, NEW w \in S[k - 1]
               PROVE  f[k][w] \in S[k] /\ f[k][w] = TurnOf(w)
    OBVIOUS
  <2>1. k - 1 \in 0..n /\ k \in 0..n
    BY <1>4
  <2>2. S[k - 1] = V(k - 1) /\ S[k] = V(k)
    BY <2>1
  <2>3. f[k] = [x \in S[k - 1] |-> TurnOf(x)]
    OBVIOUS
  <2> HIDE DEF S, f
  <2>4. f[k][w] = TurnOf(w)
    BY <2>3
  <2> QED
    BY <2>2, <2>4, <1>6
<1>8. z \in S[0]
  BY <1>4, <1>5
<1> HIDE DEF z, f
<1>9. \E g : g = F(g)
  <2>1. PICK g : LoopGoes(n, S, z, f, g)
    <3>1. \A k \in 1..n : \A w \in S[k - 1] : f[k][w] \in S[k]
      BY <1>7
    <3> HIDE DEF S, n
    <3> QED
      BY <1>4, <1>8, <3>1, LoopValues
  <2>2. /\ g = [k \in 0..n |-> g[k]] /\ g[0] = z
        /\ \A k \in 0..n : g[k] \in S[k]
        /\ \A k \in 1..n : g[k] = f[k][g[k - 1]]
    <3> HIDE DEF S, n
    <3> QED
      BY <2>1 DEF LoopGoes
  <2>3. ASSUME NEW k \in 0..n PROVE g[k] = IF k = 0 THEN z ELSE TurnOf(g[k - 1])
    <3>1. CASE k = 0
      BY <2>2, <3>1
    <3>2. CASE k # 0
      <4>1. k \in 1..n /\ k - 1 \in 0..n
        BY <1>4, <3>2
      <4>2. g[k - 1] \in S[k - 1]
        BY <2>2, <4>1
      <4> HIDE DEF S
      <4> QED
        BY <2>2, <4>1, <4>2, <1>7, <3>2
    <3> QED
      BY <3>1, <3>2
  <2>4. g = F(g)
    BY <2>2, <2>3
  <2> QED
    BY <2>4
<1> DEFINE at == CHOOSE g : g = F(g)
<1>10. at = F(at)
  <2> HIDE DEF F
  <2> QED
    BY <1>9
<1>11. /\ slots' = [slots EXCEPT ![cur_slot] = at[n].first] /\ w_fired' = at[n].called
       /\ w_next' = W!Forget(at[n].next, w_fired', NULL) /\ w_prev' = W!Forget(at[n].prev, w_fired', NULL)
       /\ rotation' = W!Forget(at[n].rotation, w_fired', 0)
  BY DEF W!Tick, TurnOf, z, W!Cardinality, Cardinality
<1> HIDE DEF at
<1>12. at[n] \in V(n)
  <2> DEFINE Q == {k \in 0..n : at[k] \in V(k)}
  <2>1. 0 \in Q
    <3>1. at[0] = z
      BY <1>10, <1>4
    <3>2. z \in V(0) /\ 0 \in 0..n
      BY <1>4, <1>8
    <3> QED
      BY <3>1, <3>2
  <2>2. ASSUME NEW k \in 1..n, k - 1 \in Q PROVE k \in Q
    <3>1. k \in 0..n /\ k - 1 \in 0..n /\ k # 0
      BY <1>4
    <3>2. at[k] = TurnOf(at[k - 1])
      BY <1>10, <3>1
    <3>3. at[k - 1] \in V(k - 1)
      BY <2>2
    <3>4. at[k] \in V(k)
      BY <3>2, <3>3, <1>6
    <3> QED
      BY <3>1, <3>4
  <2> HIDE DEF Q, n
  <2>3. \A k \in 0..n : k \in Q
    BY <1>4, <2>1, <2>2, LoopInduction
  <2>4. n \in Q
    BY <2>3, <1>4
  <2> QED
    BY <2>4 DEF Q
<1>13. n - n = 0
  BY <1>4
<1>14. PICK w : w = at[n]
  OBVIOUS
<1>15. w \in WheelWalk /\ Walking(A, w_next, w_prev, rotation, 0, w)
  <2> HIDE DEF n, A
  <2> QED
    BY <1>12, <1>13, <1>14 DEF V
<1> QED
  BY <1>11, <1>14, <1>15

(* What the loop leaves of a slot. *)
Swept(s, A, rot, w) ==
  /\ SlotLinked(s, A \ w.called, w.next, w.prev, w.first)
  /\ \A t \in A : IF t \in w.called THEN rot[t] = 0 ELSE rot[t] > 0 /\ w.rotation[t] = rot[t] - 1

(* When no timer is left to meet, the loop has dealt with all of them. *)
LEMMA WalkEnds ==
  ASSUME NEW s, NEW A \in SUBSET Timers, NEW n, NEW v, NEW rot \in [Timers -> Nat], NEW w,
         Walking(A, n, v, rot, 0, w)
  PROVE  Swept(s, A, rot, w)
<1>1. PICK r \in Nat : \E p \in 0..r : \E l \in [1..r -> Timers] : At(A, rot, 0, w, r, l, p)
  BY DEF Walking
<1>2. PICK p \in 0..r : \E l \in [1..r -> Timers] : At(A, rot, 0, w, r, l, p)
  BY <1>1
<1>3. PICK l \in [1..r -> Timers] : At(A, rot, 0, w, r, l, p)
  BY <1>2
<1>4. r = p
  <2>1. r - p <= 0
    BY <1>3 DEF At
  <2> QED
    BY <2>1
<1>5. Linked(l, r, A \ w.called, w.next, w.prev) /\ w.first = Node(l, r, 1)
  BY <1>3 DEF At
<1>6. ASSUME NEW t \in A, t \notin w.called PROVE rot[t] > 0 /\ w.rotation[t] = rot[t] - 1
  <2>1. PICK i \in 1..r : l[i] = t
    BY <1>5, <1>6 DEF Linked
  <2>2. i <= p
    BY <1>4
  <2> QED
    BY <1>3, <2>1, <2>2 DEF At
<1>7. ASSUME NEW t \in w.called PROVE rot[t] = 0
  BY DEF Walking
<1> QED
  BY <1>3, <1>5, <1>6, <1>7 DEF Swept, SlotLinked

(* With the hand one slot on, every other slot is a tick nearer. *)
LEMMA HandMoves ==
  ASSUME N \in Nat \ {0}, NEW c \in 0..N - 1
  PROVE  \E c2 \in 0..N - 1 :
           /\ c2 = (c + 1) % N
           /\ \A s \in 0..N - 1 : /\ Distance(s, c) \in 0..N - 1
                                  /\ Distance(s, c) = 0 <=> s = c
                                  /\ Distance(s, c2) = IF s = c THEN N - 1 ELSE Distance(s, c) - 1
<1>1. PICK x \in 0..N + N - 1 : x = c + 1
  OBVIOUS
<1>2. x % N = IF x < N THEN x ELSE x - N
  BY ComesRound
<1>3. PICK c2 \in 0..N - 1 : c2 = IF x < N THEN x ELSE x - N
  BY <1>1
<1>4. ASSUME NEW s \in 0..N - 1
      PROVE  /\ Distance(s, c) \in 0..N - 1
             /\ Distance(s, c) = 0 <=> s = c
             /\ Distance(s, c2) = IF s = c THEN N - 1 ELSE Distance(s, c) - 1
  BY <1>1, <1>3 DEF Distance
<1> QED
  BY <1>1, <1>2, <1>3, <1>4

(* tick calls the timers that have no tick left and takes one from the      *)
(* others.                                                                  *)
LEMMA WheelInvTick ==
  ASSUME L!TimerListAssumption, W!TimerWheelAssumption, WheelInv, W!Tick
  PROVE  WheelInv' /\ W!Abstract!TickAndElapse
<1>1. N \in Nat \ {0} /\ NULL \notin Timers /\ WheelTypes /\ WheelLists /\ WheelTimes
      /\ due = [x \in Timers |-> due[x]]
  BY DEF W!TimerWheelAssumption, WheelInv
<1>2. PICK w \in WheelWalk :
           /\ Walking(InSlot(cur_slot), w_next, w_prev, rotation, 0, w)
           /\ slots' = [slots EXCEPT ![cur_slot] = w.first] /\ w_fired' = w.called
           /\ w_next' = W!Forget(w.next, w_fired', NULL) /\ w_prev' = W!Forget(w.prev, w_fired', NULL)
           /\ rotation' = W!Forget(w.rotation, w_fired', 0)
  BY WheelWalked
<1>3. PICK c \in 0..N - 1 : c = cur_slot
  BY <1>1 DEF WheelTypes
<1>4. PICK A \in SUBSET Timers : A = InSlot(c) /\ A \in SUBSET w_allocated
  <2>1. InSlot(c) \subseteq w_allocated /\ w_allocated \subseteq Timers
    BY <1>1 DEF InSlot, WheelTypes
  <2>2. InSlot(c) \in SUBSET w_allocated /\ InSlot(c) \in SUBSET Timers
    BY <2>1
  <2> QED
    BY <2>2
<1>5. PICK gone \in SUBSET A : gone = w.called
  BY <1>2, <1>3, <1>4 DEF Walking
<1>6. PICK c2 \in 0..N - 1 :
           /\ c2 = (c + 1) % N
           /\ \A s \in 0..N - 1 : /\ Distance(s, c) \in 0..N - 1
                                  /\ Distance(s, c) = 0 <=> s = c
                                  /\ Distance(s, c2) = IF s = c THEN N - 1 ELSE Distance(s, c) - 1
  BY <1>1, HandMoves
<1>7. /\ w_fired' = gone /\ slots' = [slots EXCEPT ![c] = w.first]
      /\ w_next' = W!Forget(w.next, gone, NULL) /\ w_prev' = W!Forget(w.prev, gone, NULL)
      /\ rotation' = W!Forget(w.rotation, gone, 0) /\ time_slot' = W!Forget(time_slot, gone, 0)
      /\ w_allocated' = w_allocated \ gone /\ cur_slot' = c2
      /\ due' = [t \in Timers |-> IF due[t] = -1 THEN -1 ELSE due[t] - 1]
  <2>1. /\ time_slot' = W!Forget(time_slot, w_fired', 0) /\ w_allocated' = w_allocated \ w_fired'
        /\ cur_slot' = (cur_slot + 1) % N
        /\ due' = [t \in Timers |-> IF due[t] = -1 THEN -1 ELSE due[t] - 1]
    BY DEF W!Tick
  <2> QED
    BY <1>2, <1>3, <1>5, <1>6, <2>1
<1>8. PICK rot \in [Timers -> Nat] : rot = rotation
  BY <1>1 DEF WheelTypes
<1>9. Walking(A, w_next, w_prev, rot, 0, w)
  BY <1>2, <1>3, <1>4, <1>8
<1>10. /\ SlotLinked(c, A \ gone, w.next, w.prev, w.first)
       /\ \A t \in A : IF t \in gone THEN rot[t] = 0 ELSE rot[t] > 0 /\ w.rotation[t] = rot[t] - 1
  <2>1. PICK nn, vv : nn = w_next /\ vv = w_prev
    OBVIOUS
  <2>2. Walking(A, nn, vv, rot, 0, w)
    BY <1>9, <2>1
  <2>3. Swept(c, A, rot, w)
    BY <2>2, WalkEnds
  <2> QED
    BY <1>5, <2>3 DEF Swept
<1>11. \A t \in Timers \ A : w.next[t] = w_next[t] /\ w.prev[t] = w_prev[t] /\ w.rotation[t] = rot[t]
  BY <1>9 DEF Walking, Aside
<1>12. /\ w.next \in [Timers -> L!Pointer] /\ w.prev \in [Timers -> L!Pointer]
       /\ w.rotation \in [Timers -> Nat] /\ w.first \in L!Pointer
  BY DEF WheelWalk
<1>13. WheelTypes'
  <2>1. w_next' \in [Timers -> L!Pointer] /\ w_prev' \in [Timers -> L!Pointer]
    BY <1>7, <1>12 DEF W!Forget, L!Pointer
  <2>2. rotation' \in [Timers -> Nat] /\ time_slot' \in [Timers -> 0..N - 1] /\ 0 \in 0..N - 1
    BY <1>1, <1>7, <1>12 DEF W!Forget, WheelTypes
  <2>3. slots' \in [0..N - 1 -> L!Pointer] /\ w_allocated' \in SUBSET Timers /\ cur_slot' \in 0..N - 1
    BY <1>1, <1>7, <1>12 DEF WheelTypes
  <2> QED
    BY <2>1, <2>2, <2>3 DEF WheelTypes
<1>14. \A x \in Timers \ gone : /\ w_next'[x] = w.next[x] /\ w_prev'[x] = w.prev[x]
                                /\ rotation'[x] = w.rotation[x] /\ time_slot'[x] = time_slot[x]
  BY <1>7 DEF W!Forget
<1>15. \A s \in 0..N - 1 : InSlot(s) \in SUBSET Timers /\ InSlot(s)' = InSlot(s) \ gone
  BY <1>1, <1>7 DEF InSlot, WheelTypes, W!Forget
<1>16. ASSUME NEW s \in 0..N - 1 PROVE SlotLinked(s, InSlot(s)', w_next', w_prev', slots'[s])
  <2>1. w_next' \in [Timers -> L!Pointer] /\ w_prev' \in [Timers -> L!Pointer]
    BY <1>13 DEF WheelTypes
  <2>2. CASE s = c
    <3>1. PICK B \in SUBSET Timers : B = A \ gone
      OBVIOUS
    <3>2. \A x \in B : w_next'[x] = w.next[x] /\ w_prev'[x] = w.prev[x]
      BY <1>14, <3>1
    <3>3. PICK nn, vv, f : nn = w.next /\ vv = w.prev /\ f = w.first
      OBVIOUS
    <3>4. SlotLinked(s, B, nn, vv, f) /\ \A x \in B : w_next'[x] = nn[x] /\ w_prev'[x] = vv[x]
      BY <1>10, <2>2, <3>1, <3>2, <3>3
    <3>5. SlotLinked(s, B, w_next', w_prev', f)
      BY <2>1, <3>4, SameLinks
    <3>6. slots'[s] = f
      BY <1>1, <1>7, <2>2, <3>3 DEF WheelTypes
    <3>7. InSlot(s)' = B
      BY <1>4, <1>15, <2>2, <3>1
    <3> QED
      BY <3>5, <3>6, <3>7
  <2>3. CASE s # c
    <3>1. PICK B \in SUBSET Timers : B = InSlot(s)
      BY <1>15
    <3>2. \A x \in B : x \notin A
      BY <1>4, <2>3, <3>1 DEF InSlot
    <3>3. \A x \in B : w_next'[x] = w_next[x] /\ w_prev'[x] = w_prev[x]
      BY <1>11, <1>14, <3>2
    <3>4. PICK f : f = slots[s]
      OBVIOUS
    <3>5. SlotLinked(s, B, w_next, w_prev, f)
      BY <1>1, <3>1, <3>4 DEF WheelLists
    <3>6. SlotLinked(s, B, w_next', w_prev', f)
      BY <2>1, <3>3, <3>5, SameLinks
    <3>7. slots'[s] = f
      BY <1>1, <1>7, <2>3, <3>4 DEF WheelTypes
    <3>8. InSlot(s)' = B
      BY <1>15, <3>1, <3>2
    <3> QED
      BY <3>6, <3>7, <3>8
  <2> QED
    BY <2>2, <2>3
<1>17. ASSUME NEW t \in Timers
       PROVE  /\ due'[t] = IF t \in w_allocated' THEN rotation'[t] * N + Distance(time_slot'[t], cur_slot') ELSE -1
              /\ t \in gone <=> due[t] = 0
              /\ due[t] # -1 => due[t] \in Nat
              /\ due'[t] = IF due[t] = -1 THEN -1 ELSE due[t] - 1
  <2>1. due'[t] = IF due[t] = -1 THEN -1 ELSE due[t] - 1
    BY <1>7
  <2>2. CASE t \notin w_allocated
    <3>1. due[t] = -1 /\ t \notin w_allocated' /\ t \notin gone
      BY <1>1, <1>4, <1>7, <2>2 DEF WheelTimes
    <3> QED
      BY <2>1, <3>1
  <2>3. CASE t \in w_allocated
    <3>1. PICK s \in 0..N - 1 : s = time_slot[t]
      BY <1>1 DEF WheelTypes
    <3>2. PICK D \in 0..N - 1 : /\ D = Distance(s, c) /\ (D = 0 <=> s = c)
                                /\ Distance(s, c2) = IF s = c THEN N - 1 ELSE D - 1
      BY <1>6
    <3>3. PICK a \in Nat : a = rot[t]
      BY <1>8
    <3>4. due[t] = a * N + D
      BY <1>1, <1>3, <1>8, <2>3, <3>1, <3>2, <3>3 DEF WheelTimes
    <3>5. /\ a * N + D = 0 <=> a = 0 /\ D = 0
          /\ a # 0 => (a - 1) * N + N = a * N
          /\ a * N \in Nat
      BY <1>1, TurnsAndRest
    <3>6. PICK y \in Nat : y = a * N
      BY <3>5
    <3>7. t \in A <=> s = c
      BY <1>4, <2>3, <3>1 DEF InSlot
    <3>8. t \in gone <=> a = 0 /\ D = 0
      BY <1>10, <3>2, <3>3, <3>7
    <3>9. CASE t \in gone
      <4>1. due[t] = 0
        BY <3>4, <3>5, <3>8, <3>9
      <4>2. t \notin w_allocated'
        BY <1>7, <3>9
      <4> QED
        BY <2>1, <3>9, <4>1, <4>2
    <3>10. CASE t \notin gone
      <4>1. due[t] = y + D /\ due[t] # 0
        BY <3>4, <3>5, <3>6, <3>8, <3>10
      <4>2. due'[t] = y + D - 1 /\ due[t] \in Nat
        BY <2>1, <4>1
      <4>3. t \in w_allocated' /\ time_slot'[t] = s /\ cur_slot' = c2 /\ rotation'[t] = w.rotation[t]
        BY <1>7, <1>14, <2>3, <3>1, <3>10
      <4>4. rotation'[t] * N + Distance(time_slot'[t], cur_slot') = y + D - 1
        <5>1. CASE s = c
          <6>1. a # 0 /\ D = 0 /\ rotation'[t] = a - 1
            BY <1>10, <3>2, <3>3, <3>7, <3>10, <4>3, <5>1
          <6>2. PICK y2 \in Int : y2 = (a - 1) * N /\ y2 + N = y
            BY <1>1, <3>5, <3>6, <6>1
          <6>3. rotation'[t] * N = y2
            BY <6>1, <6>2
          <6>4. Distance(time_slot'[t], cur_slot') = N - 1
            BY <3>2, <4>3, <5>1
          <6> QED
            BY <1>1, <6>1, <6>2, <6>3, <6>4
        <5>2. CASE s # c
          <6>1. rotation'[t] * N = y
            BY <1>11, <3>3, <3>6, <3>7, <4>3, <5>2
          <6>2. Distance(time_slot'[t], cur_slot') = D - 1
            BY <3>2, <4>3, <5>2
          <6> QED
            BY <6>1, <6>2
        <5> QED
          BY <5>1, <5>2
      <4> QED
        BY <2>1, <3>10, <4>1, <4>2, <4>3, <4>4
    <3> QED
      BY <3>9, <3>10
  <2> QED
    BY <2>2, <2>3
<1>18. WheelInv'
  <2>1. due' = [x \in Timers |-> due'[x]]
    BY <1>7
  <2>2. WheelLists'
    BY <1>16 DEF WheelLists
  <2>3. WheelTimes'
    BY <1>17 DEF WheelTimes
  <2> QED
    BY <1>13, <2>1, <2>2, <2>3 DEF WheelInv
<1>19. W!Abstract!TickAndElapse
  <2>1. w_fired' = W!Abstract!Due
    BY <1>7, <1>17 DEF W!Abstract!Due
  <2>2. ASSUME NEW t \in Timers PROVE due'[t] = IF due[t] > 0 THEN due[t] - 1 ELSE -1
    <3>1. /\ due[t] # -1 => due[t] \in Nat
          /\ due'[t] = IF due[t] = -1 THEN -1 ELSE due[t] - 1
      BY <1>17
    <3> QED
      BY <3>1
  <2>3. due' = [t \in Timers |-> IF due[t] > 0 THEN due[t] - 1 ELSE -1]
    BY <1>7, <2>2
  <2> QED
    BY <2>1, <2>3 DEF W!Abstract!TickAndElapse, W!Abstract!Unset
<1> QED
  BY <1>18, <1>19

(* A step of the wheel is one of the set of timers that counts ticks. *)
LEMMA WheelStep ==
  ASSUME L!TimerListAssumption, W!TimerWheelAssumption, WheelInv, [W!Next]_(W!vars)
  PROVE  WheelInv' /\ [W!Abstract!NextByTicks]_(W!Abstract!timerVars) /\ (W!Tick => W!Abstract!TickAndElapse)
<1>1. ASSUME W!Next PROVE WheelInv' /\ W!Abstract!NextByTicks
  <2>1. ASSUME NEW t \in Timers, NEW timeout \in 0..MaxTimeout, W!AddTimer(t, timeout)
        PROVE  WheelInv' /\ W!Abstract!NextByTicks
    BY <2>1, WheelInvAdd DEF W!Abstract!NextByTicks
  <2>2. ASSUME NEW t \in Timers, W!DelTimer(t) PROVE WheelInv' /\ W!Abstract!NextByTicks
    BY <2>2, WheelInvDel DEF W!Abstract!NextByTicks
  <2>3. ASSUME W!Tick PROVE WheelInv' /\ W!Abstract!NextByTicks
    BY <2>3, WheelInvTick DEF W!Abstract!NextByTicks
  <2> QED
    BY <1>1, <2>1, <2>2, <2>3 DEF W!Next
<1>2. ASSUME UNCHANGED W!vars PROVE WheelInv' /\ UNCHANGED W!Abstract!timerVars
  <2>1. /\ slots' = slots /\ cur_slot' = cur_slot /\ w_next' = w_next /\ w_prev' = w_prev
        /\ rotation' = rotation /\ time_slot' = time_slot /\ w_allocated' = w_allocated
        /\ w_fired' = w_fired /\ due' = due
    BY <1>2 DEF W!vars, W!wheelVars, W!linkVars
  <2> QED
    BY <2>1 DEF WheelInv, WheelTypes, WheelLists, WheelTimes, InSlot, W!Abstract!timerVars
<1>3. W!Tick => W!Abstract!TickAndElapse
  BY WheelInvTick
<1> QED
  BY <1>1, <1>2, <1>3

(* So the wheel alone is a set of timers. *)
LEMMA WheelImplements ==
  ASSUME L!TimerListAssumption, W!TimerWheelAssumption
  PROVE  W!Spec => W!ImplementsTimerSet
<1>1. W!Init => WheelInv /\ W!Abstract!Init
  BY WheelInvInit
<1>2. WheelInv /\ [W!Next]_(W!vars) =>
        WheelInv' /\ [W!Abstract!NextByTicks]_(W!Abstract!timerVars) /\ [W!Tick => W!Abstract!TickAndElapse]_(W!vars)
  BY WheelStep
<1> QED
  BY <1>1, <1>2, PTL DEF W!Spec, W!ImplementsTimerSet, W!Abstract!SpecByTicks

(* The wheel of 11-5tw_timer.h implements a set of timers that counts its   *)
(* ticks: whatever is added and deleted, whichever timers share a slot and  *)
(* however many turns they wait, every tick calls exactly the timers whose  *)
(* ticks have run out.                                                      *)
THEOREM WheelIsTimerSet == Spec => WheelImplementsTimerSet
<1>1. L!TimerListAssumption /\ W!TimerWheelAssumption
  BY MCTimersAssumption
<1>2. Init => W!Init
  BY DEF Init
<1>3. [Next]_<<which, listVars, wheelVars, heapVars>> => [W!Next]_(W!vars)
  <2>1. UNCHANGED wheelVars => UNCHANGED W!vars
    BY DEF wheelVars, W!vars, W!wheelVars, W!linkVars
  <2> QED
    BY <2>1 DEF Next
<1>4. W!Spec => W!ImplementsTimerSet
  BY <1>1, WheelImplements
<1> QED
  BY <1>2, <1>3, <1>4, PTL DEF Spec, W!Spec, WheelImplementsTimerSet
=============================================================================
