---------------------------- MODULE ShmTalk_proofs -----------------------------
(***************************************************************************)
(* Proofs about ShmTalk, for any number of slots, process numbers, clients *)
(* and texts: the parent's tables and its children agree, and no client is *)
(* sent its own words unless its child's segment was given away.           *)
(***************************************************************************)
EXTENDS ShmTalk, FiniteSetTheorems, SequenceTheorems, WellFoundedInduction, TLAPS

(* The tables t hold the children A, and nobody else. *)
Agrees(t, A) ==
  /\ t.count \in 0..USER_LIMIT
  /\ t.users \in [0..USER_LIMIT -> Pids \cup {Nobody}]
  /\ t.sub \in [Pids -> -1..USER_LIMIT - 1]
  /\ \A i \in 0..t.count - 1 : t.users[i] \in A /\ t.sub[t.users[i]] = i
  /\ \A c \in A : t.sub[c] \in 0..t.count - 1 /\ t.users[t.sub[c]] = c

(* Every set of numbers that has members has a least one. *)
LEMMA Least ==
  ASSUME NEW Q \in SUBSET Nat, Q # {}
  PROVE  \E x \in Q : \A y \in Q : x <= y
<1> DEFINE R == {ss \in Nat \X Nat : ss[1] < ss[2]}
<1>1. IsWellFoundedOn(R, Nat)
  BY NatLessThanWellFounded DEF OpToRel
<1>2. PICK x \in Q : \A y \in Q : ~(<<y, x>> \in R)
  <2> HIDE DEF R
  <2> QED
    BY <1>1, WFMin
<1>3. \A y \in Q : ~(y < x)
  BY <1>2
<1> HIDE DEF R
<1> QED
  BY <1>3

(* One user is removed and the last one takes its slot. *)
LEMMA Removed ==
  ASSUME NEW t, NEW A \in SUBSET Pids, Agrees(t, A), NEW z \in A
  PROVE  Agrees(RemoveUser(t, z), A \ {z})
<1> DEFINE d == t.sub[z]
           e == t.count - 1
           last == t.users[e]
           u == RemoveUser(t, z)
<1>1. USER_LIMIT \in Nat \ {0}
  BY ShmTalkAssumption DEF ShmTalkAssumption
<1>2. /\ t.count \in 0..USER_LIMIT
      /\ t.users \in [0..USER_LIMIT -> Pids \cup {Nobody}]
      /\ t.sub \in [Pids -> -1..USER_LIMIT - 1]
      /\ \A i \in 0..t.count - 1 : t.users[i] \in A /\ t.sub[t.users[i]] = i
      /\ \A c \in A : t.sub[c] \in 0..t.count - 1 /\ t.users[t.sub[c]] = c
  BY DEF Agrees
<1>3. d \in 0..e /\ t.users[d] = z /\ e \in 0..USER_LIMIT - 1 /\ t.count = e + 1
  BY <1>1, <1>2
<1>4. last \in A /\ t.sub[last] = e
  BY <1>2, <1>3
<1>5. /\ u.users = [t.users EXCEPT ![d] = last, ![e] = Nobody]
      /\ u.sub = [[t.sub EXCEPT ![z] = -1] EXCEPT ![last] = d]
      /\ u.count = e
  BY <1>1, <1>3 DEF RemoveUser
<1> HIDE DEF u, last, d, e
<1>6. \A i \in 0..USER_LIMIT : u.users[i] = IF i = e THEN Nobody ELSE IF i = d THEN last ELSE t.users[i]
  BY <1>2, <1>3, <1>5
<1>7. \A c \in Pids : u.sub[c] = IF c = last THEN d ELSE IF c = z THEN -1 ELSE t.sub[c]
  BY <1>2, <1>5
<1>8. u.count \in 0..USER_LIMIT
  BY <1>1, <1>3, <1>5
<1>9. u.users \in [0..USER_LIMIT -> Pids \cup {Nobody}]
  <2> DEFINE V == Pids \cup {Nobody}
             D == 0..USER_LIMIT
  <2>1. last \in V /\ Nobody \in V /\ t.users \in [D -> V]
    BY <1>2, <1>4
  <2> HIDE DEF V, D
  <2>2. [t.users EXCEPT ![d] = last, ![e] = Nobody] \in [D -> V]
    BY <2>1
  <2> QED
    BY <2>2, <1>5 DEF V, D
<1>10. u.sub \in [Pids -> -1..USER_LIMIT - 1]
  <2> DEFINE V == -1..USER_LIMIT - 1
  <2>1. d \in V /\ -1 \in V /\ t.sub \in [Pids -> V]
    BY <1>1, <1>2, <1>3
  <2> HIDE DEF V
  <2>2. [[t.sub EXCEPT ![z] = -1] EXCEPT ![last] = d] \in [Pids -> V]
    BY <2>1
  <2> QED
    BY <2>2, <1>5 DEF V
<1>11. ASSUME NEW i \in 0..u.count - 1
       PROVE  u.users[i] \in A \ {z} /\ u.sub[u.users[i]] = i
  <2>1. i \in 0..e - 1 /\ i \in 0..USER_LIMIT /\ i # e /\ i \in 0..t.count - 1
    BY <1>1, <1>3, <1>5
  <2>2. CASE i = d
    <3>1. u.users[i] = last /\ last # z
      BY <2>1, <2>2, <1>3, <1>4, <1>6 DEF d
    <3> QED
      BY <3>1, <2>2, <1>4, <1>7
  <2>3. CASE i # d
    <3>1. u.users[i] = t.users[i] /\ t.users[i] \in A /\ t.sub[t.users[i]] = i
      BY <2>1, <2>3, <1>2, <1>6
    <3>2. t.users[i] # z /\ t.users[i] # last
      BY <3>1, <2>1, <2>3, <1>4 DEF d
    <3> QED
      BY <3>1, <3>2, <1>7
  <2> QED
    BY <2>2, <2>3
<1>12. ASSUME NEW c \in A \ {z}
       PROVE  u.sub[c] \in 0..u.count - 1 /\ u.users[u.sub[c]] = c
  <2>1. t.sub[c] \in 0..e /\ t.users[t.sub[c]] = c /\ t.sub[c] # d
    <3>1. t.sub[c] \in 0..e /\ t.users[t.sub[c]] = c
      BY <1>2, <1>3
    <3> QED
      BY <3>1, <1>3
  <2>2. CASE c = last
    <3>1. u.sub[c] = d /\ d # e
      BY <2>1, <2>2, <1>4, <1>7
    <3>2. d \in 0..e - 1 /\ d \in 0..USER_LIMIT
      BY <3>1, <1>1, <1>3
    <3> QED
      BY <3>1, <3>2, <2>2, <1>5, <1>6
  <2>3. CASE c # last
    <3>1. u.sub[c] = t.sub[c] /\ t.sub[c] # e
      <4>1. u.sub[c] = t.sub[c]
        BY <2>3, <1>7
      <4>2. t.sub[c] = e => c = last
        BY <2>1 DEF last
      <4> QED
        BY <4>1, <4>2, <2>3
    <3>2. t.sub[c] \in 0..e - 1 /\ t.sub[c] \in 0..USER_LIMIT
      BY <3>1, <2>1, <1>1, <1>3
    <3> QED
      BY <3>1, <3>2, <2>1, <1>5, <1>6
  <2> QED
    BY <2>2, <2>3
<1>13. Agrees(u, A \ {z})
  BY <1>8, <1>9, <1>10, <1>11, <1>12 DEF Agrees
<1> QED
  BY <1>13 DEF u

(* The tables g[0], ..., g[n] are what the loop over waitpid goes through.   *)
Steps(g, table, order, n) ==
  /\ g = [k \in 0..n |-> IF k = 0 THEN table ELSE RemoveUser(g[k - 1], order[k])]
  /\ Reap(order, table) = [gone |-> ToSet(order), table |-> g[n]]

(* The loop over waitpid: it does what its definition says, for every       *)
(* order of the children.                                                   *)
LEMMA ReapSteps ==
  ASSUME NEW table, NEW order, NEW n \in Nat, Len(order) = n
  PROVE  \E g : Steps(g, table, order, n)
<1> DEFINE R(t, z) == RemoveUser(t, z)
           F(g, m) == [k \in 0..m |-> IF k = 0 THEN table ELSE R(g[k - 1], order[k])]
           Missing == {m \in Nat : ~ \E g : g = F(g, m)}
<1> HIDE DEF R
<1>1. Missing = {}
  <2> SUFFICES ASSUME Missing # {} PROVE FALSE
    OBVIOUS
  <2>1. PICK m \in Missing : \A y \in Missing : m <= y
    <3>1. Missing \in SUBSET Nat
      OBVIOUS
    <3> HIDE DEF Missing
    <3> QED
      BY <3>1, Least
  <2>2. CASE m = 0
    <3> DEFINE g == [k \in 0..0 |-> table]
    <3>1. g = F(g, 0)
      OBVIOUS
    <3> QED
      BY <3>1, <2>1, <2>2
  <2>3. CASE m # 0
    <3>1. m \in Nat /\ m - 1 \in Nat /\ ~(m <= m - 1)
      BY <2>3
    <3>2. PICK g : g = F(g, m - 1)
      BY <3>1, <2>1
    <3> DEFINE h == [k \in 0..m |-> IF k = m THEN R(g[m - 1], order[m]) ELSE g[k]]
    <3>3. ASSUME NEW k \in 0..m
          PROVE  h[k] = IF k = 0 THEN table ELSE R(h[k - 1], order[k])
      <4>1. CASE k = m
        <5>1. m - 1 \in 0..m /\ m - 1 # m
          BY <3>1
        <5>2. h[m - 1] = g[m - 1]
          BY <5>1
        <5> QED
          BY <4>1, <5>2, <2>3
      <4>2. CASE k # m
        <5>1. k \in 0..m - 1 /\ h[k] = g[k]
          BY <3>1, <4>2
        <5>2. g[k] = IF k = 0 THEN table ELSE R(g[k - 1], order[k])
          BY <5>1, <3>2
        <5>3. k # 0 => h[k - 1] = g[k - 1]
          <6>1. k # 0 => k - 1 \in 0..m /\ k - 1 # m
            BY <5>1, <3>1
          <6> QED
            BY <6>1
        <5> QED
          BY <5>1, <5>2, <5>3
      <4> QED
        BY <4>1, <4>2
    <3>4. h = [k \in 0..m |-> h[k]]
      OBVIOUS
    <3> HIDE DEF h
    <3>5. h = F(h, m)
      BY <3>3, <3>4
    <3> QED
      BY <3>5, <2>1
  <2> QED
    BY <2>2, <2>3
<1> DEFINE after == CHOOSE g : g = F(g, n)
<1>2. after = F(after, n)
  <2>1. \E g : g = F(g, n)
    BY <1>1
  <2> HIDE DEF F
  <2> QED
    BY <2>1
<1>3. Reap(order, table) = [gone |-> ToSet(order), table |-> after[n]]
  BY DEF Reap, R
<1> HIDE DEF after
<1>4. Steps(after, table, order, n)
  BY <1>2, <1>3 DEF R, Steps
<1> QED
  BY <1>4

(* After it the tables hold the children that were not waited for. *)
LEMMA Reaped ==
  ASSUME NEW t, NEW A \in SUBSET Pids, Agrees(t, A),
         NEW Z \in SUBSET A, IsFiniteSet(Z), NEW order \in SetToSeqs(Z)
  PROVE  Reap(order, t).gone = Z /\ Agrees(Reap(order, t).table, A \ Z)
<1> DEFINE n == Cardinality(Z)
           Left(k) == A \ {order[i] : i \in 1..k}
<1>1. n \in Nat
  BY FS_CardinalityType
<1>2. order \in [1..n -> Z] /\ \A i, j \in 1..n : i # j => order[i] # order[j]
  BY DEF SetToSeqs
<1> HIDE DEF n
<1>3. Len(order) = n
  BY <1>1, <1>2
<1>4. ToSet(order) = Z
  <2>1. Cardinality(1..n) = n /\ IsFiniteSet(1..n)
    BY <1>1, FS_Interval
  <2> DEFINE I == 1..n
  <2>2. order \in Injection(I, Z) /\ Cardinality(I) = Cardinality(Z)
    BY <1>2, <2>1 DEF Injection, IsInjective, n
  <2>3. order \in Surjection(I, Z)
    <3> HIDE DEF I
    <3> QED
      BY <2>2, FS_Injection
  <2>4. \A z \in Z : \E i \in 1..n : order[i] = z
    BY <2>3 DEF Surjection
  <2> QED
    BY <2>4, <1>2 DEF ToSet
<1>4a. PICK g : Steps(g, t, order, n)
  BY <1>1, <1>3, ReapSteps
<1>5. /\ g = [k \in 0..n |-> IF k = 0 THEN t ELSE RemoveUser(g[k - 1], order[k])]
      /\ Reap(order, t) = [gone |-> ToSet(order), table |-> g[n]]
  BY <1>4a DEF Steps
<1>6. g[0] = t /\ \A k \in 1..n : g[k] = RemoveUser(g[k - 1], order[k])
  <2>1. \A k \in 0..n : g[k] = IF k = 0 THEN t ELSE RemoveUser(g[k - 1], order[k])
    BY <1>5
  <2> QED
    BY <2>1, <1>1
<1> DEFINE Missing == {k \in 0..n : ~ Agrees(g[k], Left(k))}
<1>7. Missing = {}
  <2> SUFFICES ASSUME Missing # {} PROVE FALSE
    OBVIOUS
  <2>1. PICK k \in Missing : \A y \in Missing : k <= y
    <3>1. Missing \in SUBSET Nat
      OBVIOUS
    <3> HIDE DEF Missing
    <3> QED
      BY <3>1, Least
  <2>2. CASE k = 0
    <3>1. Left(0) = A
      OBVIOUS
    <3> QED
      BY <3>1, <2>1, <2>2, <1>6
  <2>3. CASE k # 0
    <3>1. k \in 1..n /\ k - 1 \in 0..n /\ ~(k <= k - 1) /\ k \in Nat
      BY <2>1, <2>3, <1>1
    <3>2. Agrees(g[k - 1], Left(k - 1))
      BY <3>1, <2>1
    <3>3. order[k] \in Left(k - 1)
      <4>1. order[k] \in A
        BY <3>1, <1>2
      <4>2. \A i \in 1..k - 1 : order[i] # order[k]
        BY <3>1, <1>1, <1>2
      <4> QED
        BY <4>1, <4>2
    <3>4. Left(k) = Left(k - 1) \ {order[k]}
      <4>1. \A i : i \in 1..k <=> i \in 1..k - 1 \/ i = k
        BY <3>1
      <4> QED
        BY <4>1
    <3>5. Left(k - 1) \in SUBSET Pids
      OBVIOUS
    <3> HIDE DEF Left
    <3>6. Agrees(RemoveUser(g[k - 1], order[k]), Left(k - 1) \ {order[k]})
      BY <3>2, <3>3, <3>5, Removed
    <3>7. Agrees(g[k], Left(k))
      BY <3>1, <3>4, <3>6, <1>6
    <3> QED
      BY <3>7, <2>1
  <2> QED
    BY <2>2, <2>3
<1>8. Agrees(g[n], Left(n))
  BY <1>1, <1>7
<1>9. Left(n) = A \ Z
  <2>1. Z = {order[i] : i \in 1..n}
    BY <1>2, <1>4 DEF ToSet
  <2> QED
    BY <2>1
<1>10. Agrees(g[n], A \ Z)
  BY <1>8, <1>9
<1> HIDE DEF Left
<1> QED
  BY <1>4, <1>5, <1>10
-----------------------------------------------------------------------------
(* The invariant. *)

Children == {c \in Pids : proc[c] # "none"}

Tables == [users |-> users, sub |-> sub_process, count |-> user_count]

TypeOK ==
  /\ proc \in [Pids -> {"none", "running", "zombie"}]
  /\ cpc \in [Pids -> {"forked", "setup", "wait", "handle", "exit"}]
  /\ idx \in [Pids -> Slots]
  /\ cbatch \in [Pids -> SUBSET {"conn", "pipe"}]
  /\ toChild \in [Pids -> Seq(Slots)]
  /\ share_mem \in [Slots -> Pids \cup {Nobody}]
  /\ shared \in SUBSET Pids /\ heardSelf \in SUBSET Pids

(* A child handles events only between two calls of epoll_wait, and finds a *)
(* number in its pipe when it was told so; a child that has ended has none. *)
EventsThere ==
  \A c \in Pids :
    /\ cbatch[c] # {} => cpc[c] = "handle"
    /\ "pipe" \in cbatch[c] => toChild[c] # <<>>
    /\ ~Running(c) => toChild[c] = <<>> /\ c \notin shared

(* Two children with the same number: the one that runs has shared.         *)
SameSegment ==
  \A c, d \in Children : c # d /\ idx[c] = idx[d] /\ Running(c) => c \in shared

(* The numbers on their way to a child are not its own, but for a child     *)
(* that has shared.                                                         *)
NumbersOfOthers ==
  \A c \in Pids : \A k \in 1..Len(toChild[c]) : toChild[c][k] = idx[c] => c \in shared

(* A segment holds the words of a child that runs and has its number.       *)
WordsOfOwner ==
  \A i \in Slots : share_mem[i] # Nobody =>
    /\ Running(share_mem[i]) /\ idx[share_mem[i]] = i

ShmInv ==
  /\ TypeOK
  /\ Agrees(Tables, Children)
  /\ EventsThere
  /\ SameSegment
  /\ NumbersOfOthers
  /\ WordsOfOwner
  /\ NeverOwnWords

(* The users are the children, each once. *)
LEMMA UsersAreChildren ==
  ASSUME TypeOK, Agrees(Tables, Children)
  PROVE  Users = Children /\ TablesAgree
<1> DEFINE n == user_count
           I == 0..n - 1
           f == [i \in I |-> users[i]]
<1>1. /\ n \in 0..USER_LIMIT
      /\ \A i \in I : users[i] \in Children /\ sub_process[users[i]] = i
      /\ \A c \in Children : sub_process[c] \in I /\ users[sub_process[c]] = c
  BY DEF Agrees, Tables
<1>2. n \in Nat
  BY <1>1, ShmTalkAssumption DEF ShmTalkAssumption
<1>3. Users = Children
  BY <1>1 DEF Users
<1>4. f \in Bijection(I, Children)
  <2>1. f \in [I -> Children]
    BY <1>1
  <2>2. \A a, b \in I : f[a] = f[b] => a = b
    <3>1. \A a \in I : sub_process[f[a]] = a
      BY <1>1
    <3> HIDE DEF f
    <3> QED
      BY <3>1
  <2>3. \A c \in Children : \E a \in I : f[a] = c
    BY <1>1
  <2>4. DOMAIN f = I
    OBVIOUS
  <2> HIDE DEF f, I
  <2> QED
    BY <2>1, <2>2, <2>3, <2>4 DEF Bijection, Injection, Surjection, IsInjective
<1>5. IsFiniteSet(I) /\ Cardinality(I) = n
  BY <1>2, FS_Interval
<1>6. Cardinality(Children) = n
  <2>1. ExistsBijection(I, Children)
    BY <1>4 DEF ExistsBijection
  <2> HIDE DEF I
  <2> QED
    BY <2>1, <1>5, FS_Bijection
<1>7. Cardinality(Users) = user_count
  BY <1>3, <1>6
<1> QED
  BY <1>1, <1>3, <1>7 DEF TablesAgree, Children

(* At the start there is nobody. *)
LEMMA ShmInit == Init => ShmInv
<1> SUFFICES ASSUME Init PROVE ShmInv
  OBVIOUS
<1>1. USER_LIMIT \in Nat \ {0}
  BY ShmTalkAssumption DEF ShmTalkAssumption
<1>2. TypeOK
  BY <1>1 DEF Init, TypeOK, Slots
<1>3. Children = {}
  BY DEF Init, Children
<1>4. Agrees(Tables, Children)
  <2>1. /\ users = [i \in 0..USER_LIMIT |-> Nobody]
        /\ sub_process = [p \in Pids |-> -1] /\ user_count = 0
    BY DEF Init
  <2>2. user_count \in 0..USER_LIMIT /\ -1 \in -1..USER_LIMIT - 1
    BY <1>1, <2>1
  <2>3. sub_process \in [Pids -> -1..USER_LIMIT - 1]
    BY <2>1, <2>2
  <2>4. users \in [0..USER_LIMIT -> Pids \cup {Nobody}]
    BY <2>1
  <2> QED
    BY <1>3, <2>1, <2>2, <2>3, <2>4 DEF Agrees, Tables
<1>5. EventsThere
  BY DEF Init, EventsThere
<1>6. SameSegment /\ WordsOfOwner /\ NeverOwnWords
  BY <1>3 DEF Init, SameSegment, WordsOfOwner, NeverOwnWords
<1>7. NumbersOfOthers
  BY DEF Init, NumbersOfOthers
<1> QED
  BY <1>2, <1>4, <1>5, <1>6, <1>7 DEF ShmInv

(* A step of a child, or of its client, that leaves its pipe, the segments  *)
(* and the tables alone.                                                    *)
LEMMA ChildStays ==
  ASSUME ShmInv, NEW c \in Pids, Running(c),
         UNCHANGED <<tableVars, proc, idx, toChild, share_mem, shared, heardSelf>>,
         NEW pc \in {"setup", "wait", "handle", "exit"}, NEW ready \in SUBSET {"conn", "pipe"},
         cpc' = [cpc EXCEPT ![c] = pc], cbatch' = [cbatch EXCEPT ![c] = ready],
         ready # {} => pc = "handle", "pipe" \in ready => toChild[c] # <<>>
  PROVE  ShmInv'
<1>0. TypeOK /\ Agrees(Tables, Children) /\ EventsThere /\ SameSegment /\ NumbersOfOthers /\ WordsOfOwner /\ NeverOwnWords
  BY DEF ShmInv
<1>1. TypeOK'
  BY <1>0 DEF TypeOK
<1>2. Tables' = Tables /\ Children' = Children /\ \A d \in Pids : Running(d)' <=> Running(d)
  BY DEF Tables, Children, tableVars, Running
<1>3. Agrees(Tables, Children)'
  BY <1>0 DEF Agrees, Tables, Children, tableVars
<1>4. EventsThere'
  <2>1. \A d \in Pids : cpc'[d] = (IF d = c THEN pc ELSE cpc[d]) /\ cbatch'[d] = IF d = c THEN ready ELSE cbatch[d]
    BY <1>0 DEF TypeOK
  <2> QED
    BY <2>1, <1>0 DEF EventsThere, Running
<1>5. SameSegment' /\ NumbersOfOthers' /\ WordsOfOwner' /\ NeverOwnWords'
  BY <1>0 DEF SameSegment, NumbersOfOthers, WordsOfOwner, NeverOwnWords, Children, Running
<1> QED
  BY <1>1, <1>3, <1>4, <1>5 DEF ShmInv

(* Nothing the invariant is about changes. *)
LEMMA NothingChanges ==
  ASSUME ShmInv,
         UNCHANGED <<tableVars, proc, idx, cpc, cbatch, toChild, share_mem, shared, heardSelf>>
  PROVE  ShmInv'
BY DEF ShmInv, TypeOK, Agrees, Tables, Children, EventsThere, SameSegment, NumbersOfOthers,
   WordsOfOwner, NeverOwnWords, Running, tableVars

(* A child leaves: its words are forgotten, and the numbers sent to it. *)
LEMMA ShmExits == ASSUME ShmInv, NEW c \in Pids, ChildExits(c) PROVE ShmInv'
<1>0. TypeOK /\ Agrees(Tables, Children) /\ EventsThere /\ SameSegment /\ NumbersOfOthers /\ WordsOfOwner /\ NeverOwnWords
  BY DEF ShmInv
<1>1. /\ Running(c) /\ cpc[c] = "exit"
      /\ proc' = [proc EXCEPT ![c] = "zombie"]
      /\ cpc' = [cpc EXCEPT ![c] = "forked"]
      /\ toChild' = [toChild EXCEPT ![c] = <<>>]
      /\ share_mem' = [i \in Slots |-> IF share_mem[i] = c THEN Nobody ELSE share_mem[i]]
      /\ shared' = shared \ {c} /\ heardSelf' = heardSelf \ {c}
      /\ UNCHANGED <<tableVars, idx, cbatch>>
  BY DEF ChildExits
<1>2. \A d \in Pids : /\ proc'[d] = (IF d = c THEN "zombie" ELSE proc[d])
                      /\ cpc'[d] = (IF d = c THEN "forked" ELSE cpc[d])
                      /\ toChild'[d] = (IF d = c THEN <<>> ELSE toChild[d])
  BY <1>0, <1>1 DEF TypeOK
<1>3. TypeOK'
  <2>1. toChild' \in [Pids -> Seq(Slots)]
    BY <1>0, <1>1 DEF TypeOK
  <2>2. share_mem' \in [Slots -> Pids \cup {Nobody}]
    BY <1>0, <1>1 DEF TypeOK
  <2> QED
    BY <2>1, <2>2, <1>0, <1>1 DEF TypeOK
<1>4. Children' = Children
  BY <1>1, <1>2 DEF Children, Running
<1>5. Agrees(Tables, Children)'
  <2>1. Tables' = Tables
    BY <1>1 DEF Tables, tableVars
  <2> QED
    BY <2>1, <1>0, <1>4 DEF Agrees
<1>6. cbatch[c] = {}
  BY <1>0, <1>1 DEF EventsThere
<1>7. EventsThere'
  BY <1>0, <1>1, <1>2, <1>6 DEF EventsThere, Running
<1>8. SameSegment'
  BY <1>0, <1>1, <1>2, <1>4 DEF SameSegment, Running, Children
<1>9. NumbersOfOthers'
  BY <1>0, <1>1, <1>2 DEF NumbersOfOthers
<1>10. WordsOfOwner'
  <2> SUFFICES ASSUME NEW i \in Slots, share_mem'[i] # Nobody
               PROVE  proc'[share_mem'[i]] = "running" /\ idx'[share_mem'[i]] = i
    BY DEF WordsOfOwner, Running
  <2>1. share_mem'[i] = share_mem[i] /\ share_mem[i] # c /\ share_mem[i] # Nobody
    BY <1>1
  <2>2. share_mem[i] \in Pids /\ Running(share_mem[i]) /\ idx[share_mem[i]] = i
    BY <2>1, <1>0 DEF WordsOfOwner, TypeOK
  <2> QED
    BY <2>1, <2>2, <1>1, <1>2 DEF Running
<1>11. NeverOwnWords'
  BY <1>0, <1>1 DEF NeverOwnWords
<1> QED
  BY <1>3, <1>5, <1>7, <1>8, <1>9, <1>10, <1>11 DEF ShmInv

(* One event of a child: what ChildHandles does to it. *)
LEMMA OneEvent ==
  ASSUME TypeOK, EventsThere, NEW c \in Pids, NEW source \in {"conn", "pipe"}, NEW stops \in BOOLEAN,
         ChildHandles(c, source, stops)
  PROVE  /\ Running(c) /\ source \in cbatch[c]
         /\ \E ready \in SUBSET {"conn", "pipe"}, pc \in {"wait", "handle", "exit"} :
              /\ ready = cbatch[c] \ {source}
              /\ cbatch' = [cbatch EXCEPT ![c] = ready] /\ cpc' = [cpc EXCEPT ![c] = pc]
              /\ ready # {} => pc = "handle"
<1> DEFINE ready == cbatch[c] \ {source}
           pc == IF cbatch'[c] # {} THEN "handle" ELSE IF stop_child'[c] THEN "exit" ELSE "wait"
<1>1. /\ Running(c) /\ source \in cbatch[c]
      /\ cbatch' = [cbatch EXCEPT ![c] = ready] /\ cpc' = [cpc EXCEPT ![c] = pc]
  BY DEF ChildHandles
<1>2. ready \in SUBSET {"conn", "pipe"} /\ cbatch'[c] = ready
  BY <1>1 DEF TypeOK
<1>3. pc \in {"wait", "handle", "exit"} /\ (ready # {} => pc = "handle")
  BY <1>2
<1> HIDE DEF ready, pc
<1>4. ready = cbatch[c] \ {source}
  BY DEF ready
<1> QED
  BY <1>1, <1>2, <1>3, <1>4

(* A text that came is in the child's own segment. *)
LEMMA ShmReceives == ASSUME ShmInv, NEW c \in Pids, ChildReceives(c) PROVE ShmInv'
<1>0. TypeOK /\ Agrees(Tables, Children) /\ EventsThere /\ SameSegment /\ NumbersOfOthers /\ WordsOfOwner /\ NeverOwnWords
  BY DEF ShmInv
<1>1. /\ \E w \in {c, Nobody} : share_mem' = [share_mem EXCEPT ![idx[c]] = w]
      /\ UNCHANGED <<tableVars, proc, idx, toChild, shared, heardSelf>>
      /\ \E stops \in BOOLEAN : ChildHandles(c, "conn", stops)
  <2>1. (~hasText[c]) \in BOOLEAN
    OBVIOUS
  <2> QED
    BY <2>1 DEF ChildReceives, ghostVars
<1>2. /\ Running(c)
      /\ \E ready \in SUBSET {"conn", "pipe"}, pc \in {"wait", "handle", "exit"} :
           /\ ready = cbatch[c] \ {"conn"}
           /\ cbatch' = [cbatch EXCEPT ![c] = ready] /\ cpc' = [cpc EXCEPT ![c] = pc]
           /\ ready # {} => pc = "handle"
  BY <1>0, <1>1, OneEvent
<1>3. \A d \in Pids : /\ cbatch'[d] \in SUBSET {"conn", "pipe"}
                      /\ cbatch'[d] # {} => cpc'[d] = "handle"
                      /\ "pipe" \in cbatch'[d] => "pipe" \in cbatch[d]
  BY <1>0, <1>2 DEF TypeOK, EventsThere
<1>4. \A d \in Pids : Running(d)' <=> Running(d)
  BY <1>1 DEF Running
<1>5. idx[c] \in Slots
  BY <1>0 DEF TypeOK
<1>6. \A i \in Slots : \/ i = idx[c] /\ share_mem'[i] \in {c, Nobody}
                       \/ i # idx[c] /\ share_mem'[i] = share_mem[i]
  BY <1>0, <1>1, <1>5 DEF TypeOK
<1>7. TypeOK'
  <2>1. cbatch' \in [Pids -> SUBSET {"conn", "pipe"}] /\ cpc' \in [Pids -> {"forked", "setup", "wait", "handle", "exit"}]
    BY <1>0, <1>2 DEF TypeOK
  <2>2. share_mem' \in [Slots -> Pids \cup {Nobody}]
    BY <1>0, <1>1 DEF TypeOK
  <2> QED
    BY <2>1, <2>2, <1>0, <1>1 DEF TypeOK
<1>8. Agrees(Tables, Children)'
  BY <1>0, <1>1 DEF Agrees, Tables, Children, tableVars
<1>9. EventsThere'
  BY <1>0, <1>1, <1>3, <1>4 DEF EventsThere, Running
<1>10. SameSegment' /\ NumbersOfOthers' /\ NeverOwnWords'
  BY <1>0, <1>1 DEF SameSegment, NumbersOfOthers, NeverOwnWords, Children, Running
<1>11. WordsOfOwner'
  <2> SUFFICES ASSUME NEW i \in Slots, share_mem'[i] # Nobody
               PROVE  proc'[share_mem'[i]] = "running" /\ idx'[share_mem'[i]] = i
    BY DEF WordsOfOwner, Running
  <2>1. CASE i = idx[c] /\ share_mem'[i] \in {c, Nobody}
    <3>1. share_mem'[i] = c
      BY <2>1
    <3> QED
      BY <3>1, <2>1, <1>1, <1>2 DEF Running
  <2>2. CASE share_mem'[i] = share_mem[i]
    BY <2>2, <1>0, <1>1 DEF WordsOfOwner, Running
  <2> QED
    BY <2>1, <2>2, <1>6
<1> QED
  BY <1>7, <1>8, <1>9, <1>10, <1>11 DEF ShmInv

(* A child sends on the segment whose number it reads. *)
LEMMA ShmForwards == ASSUME ShmInv, NEW c \in Pids, ChildForwards(c) PROVE ShmInv'
<1>0. TypeOK /\ Agrees(Tables, Children) /\ EventsThere /\ SameSegment /\ NumbersOfOthers /\ WordsOfOwner /\ NeverOwnWords
  BY DEF ShmInv
<1> DEFINE s == toChild[c]
           u == Tail(s)
<1>1. /\ ChildHandles(c, "pipe", FALSE)
      /\ toChild' = [toChild EXCEPT ![c] = u]
      /\ heardSelf' = IF share_mem[Head(s)] = c THEN heardSelf \cup {c} ELSE heardSelf
      /\ UNCHANGED <<tableVars, proc, idx, share_mem, shared>>
  BY DEF ChildForwards
<1>2. /\ Running(c) /\ "pipe" \in cbatch[c]
      /\ \E ready \in SUBSET {"conn", "pipe"}, pc \in {"wait", "handle", "exit"} :
           /\ ready = cbatch[c] \ {"pipe"}
           /\ cbatch' = [cbatch EXCEPT ![c] = ready] /\ cpc' = [cpc EXCEPT ![c] = pc]
           /\ ready # {} => pc = "handle"
  BY <1>0, <1>1, OneEvent
<1>3. \A d \in Pids : /\ cbatch'[d] # {} => cpc'[d] = "handle"
                      /\ "pipe" \in cbatch'[d] => "pipe" \in cbatch[d] /\ d # c
  BY <1>0, <1>2 DEF TypeOK, EventsThere
<1>4. \A d \in Pids : Running(d)' <=> Running(d)
  BY <1>1 DEF Running
<1>5. s \in Seq(Slots) /\ s # <<>>
  BY <1>0, <1>2 DEF TypeOK, EventsThere
<1>6. /\ u \in Seq(Slots) /\ Len(u) = Len(s) - 1
      /\ \A k \in 1..Len(u) : u[k] = s[k + 1]
      /\ Head(s) = s[1] /\ Head(s) \in Slots /\ Len(s) \in Nat /\ Len(s) >= 1
  <2> HIDE DEF s
  <2> QED
    BY <1>5, HeadTailProperties
<1>7. \A d \in Pids : toChild'[d] = IF d = c THEN u ELSE toChild[d]
  BY <1>0, <1>1 DEF TypeOK
<1>8. TypeOK'
  <2>1. cbatch' \in [Pids -> SUBSET {"conn", "pipe"}] /\ cpc' \in [Pids -> {"forked", "setup", "wait", "handle", "exit"}]
    BY <1>0, <1>2 DEF TypeOK
  <2>2. toChild' \in [Pids -> Seq(Slots)]
    <3> HIDE DEF u
    <3> QED
      BY <1>0, <1>1, <1>6 DEF TypeOK
  <2> QED
    BY <2>1, <2>2, <1>0, <1>1 DEF TypeOK
<1>9. Agrees(Tables, Children)'
  BY <1>0, <1>1 DEF Agrees, Tables, Children, tableVars
<1>10. EventsThere'
  BY <1>0, <1>1, <1>2, <1>3, <1>4, <1>7 DEF EventsThere, Running
<1>11. SameSegment' /\ WordsOfOwner'
  BY <1>0, <1>1 DEF SameSegment, WordsOfOwner, Children, Running
<1>12. NumbersOfOthers'
  <2> SUFFICES ASSUME NEW d \in Pids, NEW k \in 1..Len(toChild'[d]), toChild'[d][k] = idx[d]
               PROVE  d \in shared
    BY <1>1 DEF NumbersOfOthers
  <2>1. CASE d = c
    <3> HIDE DEF s, u
    <3>1. k \in 1..Len(u) /\ u[k] = s[k + 1] /\ k + 1 \in 1..Len(s)
      BY <2>1, <1>6, <1>7
    <3>2. s[k + 1] = idx[c]
      BY <3>1, <2>1, <1>7
    <3> QED
      BY <3>1, <3>2, <2>1, <1>0 DEF NumbersOfOthers, s
  <2>2. CASE d # c
    BY <2>2, <1>0, <1>7 DEF NumbersOfOthers
  <2> QED
    BY <2>1, <2>2
<1>13. NeverOwnWords'
  <2>1. share_mem[Head(s)] = c => c \in shared
    <3> SUFFICES ASSUME share_mem[Head(s)] = c PROVE c \in shared
      OBVIOUS
    <3>1. c # Nobody
      BY ShmTalkAssumption DEF ShmTalkAssumption
    <3>2. idx[c] = Head(s)
      BY <3>1, <1>0, <1>6 DEF WordsOfOwner
    <3>3. 1 \in 1..Len(s)
      BY <1>6
    <3> QED
      BY <3>2, <3>3, <1>0, <1>6 DEF NumbersOfOthers
  <2> QED
    BY <2>1, <1>0, <1>1 DEF NeverOwnWords
<1> QED
  BY <1>8, <1>9, <1>10, <1>11, <1>12, <1>13 DEF ShmInv

(* The steps of a child before its loop, and its epoll_wait. *)
LEMMA ShmChildWaits ==
  ASSUME ShmInv, NEW c \in Pids, ChildCloses(c) \/ ChildSetup(c) \/ ChildWakes(c) PROVE ShmInv'
<1>0. TypeOK /\ EventsThere
  BY DEF ShmInv
<1>1. CASE ChildCloses(c)
  <2>1. /\ Running(c) /\ cpc[c] = "forked" /\ cpc' = [cpc EXCEPT ![c] = "setup"] /\ cbatch' = cbatch
        /\ UNCHANGED <<tableVars, proc, idx, toChild, share_mem, shared, heardSelf>>
    BY <1>1 DEF ChildCloses, pipeVars, ghostVars
  <2>2. cbatch' = [cbatch EXCEPT ![c] = {}]
    BY <2>1, <1>0 DEF TypeOK, EventsThere
  <2> QED
    BY <2>1, <2>2, ChildStays
<1>2. CASE ChildSetup(c)
  <2>1. /\ Running(c) /\ cpc[c] = "setup" /\ cpc' = [cpc EXCEPT ![c] = "wait"] /\ cbatch' = cbatch
        /\ UNCHANGED <<tableVars, proc, idx, toChild, share_mem, shared, heardSelf>>
    BY <1>2 DEF ChildSetup, pipeVars, ghostVars
  <2>2. cbatch' = [cbatch EXCEPT ![c] = {}]
    BY <2>1, <1>0 DEF TypeOK, EventsThere
  <2> QED
    BY <2>1, <2>2, ChildStays
<1>3. CASE ChildWakes(c)
  <2> DEFINE ready == (IF connEdge[c] /\ (hasText[c] \/ closed[c]) THEN {"conn"} ELSE {})
                        \cup (IF toEdge[c] /\ toChild[c] # <<>> THEN {"pipe"} ELSE {})
  <2>1. /\ Running(c) /\ cpc' = [cpc EXCEPT ![c] = "handle"] /\ cbatch' = [cbatch EXCEPT ![c] = ready]
        /\ UNCHANGED <<tableVars, proc, idx, toChild, share_mem, shared, heardSelf>>
    BY <1>3 DEF ChildWakes, ghostVars
  <2>2. ready \in SUBSET {"conn", "pipe"} /\ ("pipe" \in ready => toChild[c] # <<>>)
    OBVIOUS
  <2> HIDE DEF ready
  <2> QED
    BY <2>1, <2>2, ChildStays
<1> QED
  BY <1>1, <1>2, <1>3

(* A child is forked for a new user; if its number is another's, both have  *)
(* to share.                                                                *)
LEMMA ShmAccept == ASSUME ShmInv, NEW p \in Pids, Accept(p) PROVE ShmInv'
<1>0. TypeOK /\ Agrees(Tables, Children) /\ EventsThere /\ SameSegment /\ NumbersOfOthers /\ WordsOfOwner /\ NeverOwnWords
  BY DEF ShmInv
<1> DEFINE n == user_count
           same == {c \in Users : idx[c] = n}
<1>1. /\ n < USER_LIMIT /\ proc[p] = "none"
      /\ proc' = [proc EXCEPT ![p] = "running"]
      /\ users' = [users EXCEPT ![n] = p]
      /\ sub_process' = [sub_process EXCEPT ![p] = n]
      /\ user_count' = n + 1
      /\ idx' = [idx EXCEPT ![p] = n]
      /\ shared' = IF same = {} THEN shared ELSE shared \cup {c \in same : Running(c)} \cup {p}
      /\ UNCHANGED <<cpc, cbatch, toChild, share_mem, heardSelf>>
  BY DEF Accept, pipeVars
<1>2. USER_LIMIT \in Nat \ {0} /\ Nobody \notin Pids
  BY ShmTalkAssumption DEF ShmTalkAssumption
<1>3. /\ n \in 0..USER_LIMIT
      /\ users \in [0..USER_LIMIT -> Pids \cup {Nobody}]
      /\ sub_process \in [Pids -> -1..USER_LIMIT - 1]
      /\ \A i \in 0..n - 1 : users[i] \in Children /\ sub_process[users[i]] = i
      /\ \A c \in Children : sub_process[c] \in 0..n - 1 /\ users[sub_process[c]] = c
  BY <1>0 DEF Agrees, Tables
<1>4. same = {c \in Children : idx[c] = n}
  BY <1>0, UsersAreChildren
<1> HIDE DEF same
<1>5. n \in Slots /\ n \in Nat
  BY <1>1, <1>2, <1>3 DEF Slots
<1>6. /\ proc \in [Pids -> {"none", "running", "zombie"}] /\ idx \in [Pids -> Slots]
      /\ \A c \in Pids : proc'[c] = IF c = p THEN "running" ELSE proc[c]
      /\ \A c \in Pids : idx'[c] = IF c = p THEN n ELSE idx[c]
  BY <1>0, <1>1 DEF TypeOK
<1>7. Children' = Children \cup {p} /\ p \notin Children
  BY <1>1, <1>6 DEF Children
<1>8. \A c \in Pids : Running(c)' <=> Running(c) \/ c = p
  BY <1>6 DEF Running
<1>9. /\ \A c \in shared' : c \in shared \/ c = p \/ (c \in Children /\ Running(c))
      /\ shared \subseteq shared' /\ shared \in SUBSET Pids
      /\ same # {} => p \in shared' /\ \A c \in same : Running(c) => c \in shared'
  BY <1>0, <1>1, <1>4 DEF TypeOK
<1>10. TypeOK'
  <2>1. proc' \in [Pids -> {"none", "running", "zombie"}] /\ idx' \in [Pids -> Slots]
    BY <1>1, <1>5, <1>6
  <2>2. shared' \in SUBSET Pids
    BY <1>9 DEF Children
  <2> QED
    BY <2>1, <2>2, <1>0, <1>1 DEF TypeOK
<1>11. Agrees(Tables, Children)'
  <2> HIDE DEF n
  <2> DEFINE us == [users EXCEPT ![n] = p]
             sp == [sub_process EXCEPT ![p] = n]
             all == Children \cup {p}
  <2>1. \A i \in 0..USER_LIMIT : us[i] = IF i = n THEN p ELSE users[i]
    BY <1>3
  <2>2. \A c \in Pids : sp[c] = IF c = p THEN n ELSE sub_process[c]
    BY <1>3
  <2>3. us \in [0..USER_LIMIT -> Pids \cup {Nobody}]
    BY <1>3
  <2>4. sp \in [Pids -> -1..USER_LIMIT - 1]
    <3>1. n \in -1..USER_LIMIT - 1
      BY <1>2, <1>5 DEF Slots
    <3> QED
      BY <3>1, <1>3
  <2> HIDE DEF us, sp
  <2> DEFINE m == n + 1
  <2>0. m = n + 1 /\ m - 1 = n
    BY <1>5
  <2> HIDE DEF m
  <2>5. ASSUME NEW i \in 0..m - 1 PROVE us[i] \in all /\ sp[us[i]] = i
    <3>1. i \in 0..USER_LIMIT /\ (i # n => i \in 0..n - 1)
      BY <2>0, <1>2, <1>5 DEF Slots
    <3>2. CASE i = n
      BY <3>1, <3>2, <2>1, <2>2
    <3>3. CASE i # n
      <4>1. users[i] \in Children /\ users[i] # p /\ users[i] \in Pids /\ sub_process[users[i]] = i
        BY <3>1, <3>3, <1>3, <1>7 DEF Children
      <4> QED
        BY <4>1, <3>1, <3>3, <2>1, <2>2
    <3> QED
      BY <3>2, <3>3
  <2>6. ASSUME NEW c \in all PROVE sp[c] \in 0..m - 1 /\ us[sp[c]] = c
    <3>1. CASE c = p
      BY <3>1, <2>0, <2>1, <2>2, <1>3, <1>5
    <3>2. CASE c # p
      <4>1. c \in Children /\ c \in Pids
        BY <3>2 DEF Children
      <4>2. sub_process[c] \in 0..n - 1 /\ users[sub_process[c]] = c /\ sp[c] = sub_process[c]
        BY <4>1, <3>2, <1>3, <2>2
      <4>3. sub_process[c] \in 0..USER_LIMIT /\ sub_process[c] # n /\ sub_process[c] \in 0..m - 1
        BY <4>2, <2>0, <1>2, <1>3, <1>5
      <4> QED
        BY <4>2, <4>3, <2>1
    <3> QED
      BY <3>1, <3>2
  <2>7. m \in 0..USER_LIMIT
    BY <2>0, <1>1, <1>2, <1>5 DEF n
  <2>8. users' = us /\ sub_process' = sp /\ user_count' = m /\ Children' = all
    BY <2>0, <1>1, <1>7 DEF us, sp, n
  <2> HIDE DEF all
  <2>9. Tables' = [users |-> us, sub |-> sp, count |-> m]
    BY <2>8 DEF Tables
  <2>10. Agrees([users |-> us, sub |-> sp, count |-> m], all)
    BY <2>3, <2>4, <2>5, <2>6, <2>7 DEF Agrees
  <2>11. Agrees(Tables', Children')
    BY <2>8, <2>9, <2>10
  <2> QED
    BY <2>11 DEF Agrees
<1>12. EventsThere'
  <2> SUFFICES ASSUME NEW c \in Pids
               PROVE  /\ cbatch[c] # {} => cpc[c] = "handle"
                      /\ "pipe" \in cbatch[c] => toChild[c] # <<>>
                      /\ ~Running(c)' => toChild[c] = <<>> /\ c \notin shared'
    BY <1>1 DEF EventsThere, Running
  <2>1. /\ cbatch[c] # {} => cpc[c] = "handle"
        /\ "pipe" \in cbatch[c] => toChild[c] # <<>>
        /\ ~Running(c) => toChild[c] = <<>> /\ c \notin shared
    BY <1>0 DEF EventsThere
  <2> QED
    BY <2>1, <1>8, <1>9
<1>13. SameSegment'
  <2> SUFFICES ASSUME NEW c \in Children', NEW d \in Children', c # d, idx'[c] = idx'[d], Running(c)'
               PROVE  c \in shared'
    BY DEF SameSegment
  <2>1. c \in Pids /\ d \in Pids
    BY <1>7 DEF Children
  <2>2. CASE c = p
    <3>1. d \in Children /\ d # p /\ idx[d] = n
      BY <2>1, <2>2, <1>6, <1>7
    <3>2. d \in same
      BY <3>1, <1>4
    <3> QED
      BY <3>2, <2>2, <1>9
  <2>3. CASE d = p
    <3>1. c \in Children /\ c # p /\ idx[c] = n /\ Running(c)
      BY <2>1, <2>3, <1>6, <1>7, <1>8
    <3>2. c \in same
      BY <3>1, <1>4
    <3> QED
      BY <3>1, <3>2, <1>9
  <2>4. CASE c # p /\ d # p
    <3>1. c \in Children /\ d \in Children /\ idx[c] = idx[d] /\ Running(c)
      BY <2>1, <2>4, <1>6, <1>7, <1>8
    <3> QED
      BY <3>1, <1>0, <1>9 DEF SameSegment
  <2> QED
    BY <2>2, <2>3, <2>4
<1>14. toChild[p] = <<>>
  BY <1>0, <1>1 DEF EventsThere, Running
<1>15. NumbersOfOthers'
  <2> SUFFICES ASSUME NEW c \in Pids, NEW k \in 1..Len(toChild[c]), toChild[c][k] = idx'[c]
               PROVE  c \in shared'
    BY <1>1 DEF NumbersOfOthers
  <2>1. c # p
    BY <1>14
  <2> QED
    BY <2>1, <1>0, <1>6, <1>9 DEF NumbersOfOthers
<1>16. WordsOfOwner'
  <2> SUFFICES ASSUME NEW i \in Slots, share_mem[i] # Nobody
               PROVE  proc'[share_mem[i]] = "running" /\ idx'[share_mem[i]] = i
    BY <1>1 DEF WordsOfOwner, Running
  <2>1. share_mem[i] \in Pids /\ proc[share_mem[i]] = "running" /\ idx[share_mem[i]] = i
    BY <1>0 DEF WordsOfOwner, TypeOK, Running
  <2>2. share_mem[i] # p
    BY <2>1, <1>1
  <2> QED
    BY <2>1, <2>2, <1>6
<1>17. NeverOwnWords'
  BY <1>0, <1>1, <1>9 DEF NeverOwnWords
<1> QED
  BY <1>10, <1>11, <1>12, <1>13, <1>15, <1>16, <1>17 DEF ShmInv

(* A number is passed on to the other users only. *)
LEMMA ShmPassOn == ASSUME ShmInv, NEW c \in Pids, PassOn(c) PROVE ShmInv'
<1>0. TypeOK /\ Agrees(Tables, Children) /\ EventsThere /\ SameSegment /\ NumbersOfOthers /\ WordsOfOwner /\ NeverOwnWords
  BY DEF ShmInv
<1>1. UNCHANGED <<tableVars, proc, idx, cpc, cbatch, share_mem, shared, heardSelf>>
  BY DEF PassOn, childVars, ghostVars
<1>2. CASE c \in Users /\ fromChild[c] > 0
  <2> DEFINE others == {d \in Users : Running(d) /\ d # c}
             more(d) == Append(toChild[d], idx[c])
  <2>1. toChild' = [d \in Pids |-> IF d \in others THEN more(d) ELSE toChild[d]]
    BY <1>2 DEF PassOn
  <2>2. Users = Children
    BY <1>0, UsersAreChildren
  <2>3. \A d \in Pids : toChild[d] \in Seq(Slots) /\ idx[c] \in Slots
    BY <1>0 DEF TypeOK
  <2>4. \A d \in Pids : /\ more(d) \in Seq(Slots) /\ more(d) # <<>> /\ Len(more(d)) = Len(toChild[d]) + 1
                        /\ \A k \in 1..Len(toChild[d]) : more(d)[k] = toChild[d][k]
                        /\ more(d)[Len(toChild[d]) + 1] = idx[c]
    BY <2>3, AppendProperties
  <2> HIDE DEF more
  <2>5. TypeOK'
    <3>1. toChild' \in [Pids -> Seq(Slots)]
      BY <2>1, <2>3, <2>4
    <3> QED
      BY <3>1, <1>0, <1>1 DEF TypeOK
  <2>6. \A d \in Pids : toChild'[d] = toChild[d] \/ (d \in others /\ toChild'[d] = more(d))
    BY <2>1
  <2>7. Agrees(Tables, Children)'
    BY <1>0, <1>1 DEF Agrees, Tables, Children, tableVars
  <2>8. EventsThere'
    BY <1>0, <1>1, <2>4, <2>6 DEF EventsThere, Running
  <2>9. SameSegment' /\ WordsOfOwner' /\ NeverOwnWords'
    BY <1>0, <1>1 DEF SameSegment, WordsOfOwner, NeverOwnWords, Children, Running
  <2>10. NumbersOfOthers'
    <3> SUFFICES ASSUME NEW d \in Pids, NEW k \in 1..Len(toChild'[d]), toChild'[d][k] = idx[d]
                 PROVE  d \in shared
      BY <1>1 DEF NumbersOfOthers
    <3>1. CASE toChild'[d] = toChild[d]
      BY <3>1, <1>0 DEF NumbersOfOthers
    <3>2. CASE d \in others /\ toChild'[d] = more(d)
      <4>1. c \in Children /\ d \in Children /\ d # c /\ Running(d)
        BY <3>2, <1>2, <2>2
      <4>2. Len(toChild[d]) \in Nat
        BY <2>3
      <4>3. k \in 1..Len(toChild[d]) \/ k = Len(toChild[d]) + 1
        BY <3>2, <4>2, <2>4
      <4>4. CASE k \in 1..Len(toChild[d])
        BY <4>4, <3>2, <2>4, <1>0 DEF NumbersOfOthers
      <4>5. CASE k = Len(toChild[d]) + 1
        <5>1. idx[c] = idx[d]
          BY <4>5, <3>2, <2>4
        <5> QED
          BY <5>1, <4>1, <1>0 DEF SameSegment
      <4> QED
        BY <4>3, <4>4, <4>5
    <3> QED
      BY <3>1, <3>2, <2>6
  <2> QED
    BY <2>5, <2>7, <2>8, <2>9, <2>10 DEF ShmInv
<1>3. CASE ~(c \in Users /\ fromChild[c] > 0)
  <2>1. UNCHANGED toChild
    BY <1>3 DEF PassOn, pipeVars
  <2> QED
    BY <2>1, <1>1, NothingChanges
<1> QED
  BY <1>2, <1>3

(* Children that have ended leave the tables, several at a time. *)
LEMMA ShmSignals == ASSUME ShmInv, HandleSignals PROVE ShmInv'
<1>0. TypeOK /\ Agrees(Tables, Children) /\ EventsThere /\ SameSegment /\ NumbersOfOthers /\ WordsOfOwner /\ NeverOwnWords
  BY DEF ShmInv
<1> DEFINE zombies == IF "CHLD" \in psigpipe THEN {c \in Pids : proc[c] = "zombie"} ELSE {}
<1>1. /\ \E interrupted \in SUBSET {c \in Pids : cpc[c] = "wait"} :
           cpc' = [c \in Pids |-> IF c \in interrupted THEN "exit" ELSE cpc[c]]
      /\ UNCHANGED <<cbatch, toChild, share_mem, shared, heardSelf>>
  <2>1. PICK children \in SUBSET Pids : Tell(children)
    <3>1. Users = Children
      BY <1>0, UsersAreChildren
    <3>2. (IF "TERM" \in psigpipe THEN {c \in Users : Running(c)} ELSE {}) \in SUBSET Pids
      BY <3>1 DEF Children
    <3> QED
      BY <3>2 DEF HandleSignals
  <2>2. \E interrupted \in SUBSET {c \in Pids : cpc[c] = "wait"} :
           cpc' = [c \in Pids |-> IF c \in interrupted THEN "exit" ELSE cpc[c]]
    BY <2>1 DEF Tell
  <2> QED
    BY <2>2 DEF HandleSignals
<1>2. PICK order \in SetToSeqs(zombies) :
        LET reaped == Reap(order, Tables)
        IN  /\ users' = reaped.table.users
            /\ sub_process' = reaped.table.sub
            /\ user_count' = reaped.table.count
            /\ proc' = [c \in Pids |-> IF c \in reaped.gone THEN "none" ELSE proc[c]]
            /\ idx' = [c \in Pids |-> IF c \in reaped.gone THEN 0 ELSE idx[c]]
  BY DEF HandleSignals, Tables
<1>3. zombies \in SUBSET Children /\ \A c \in zombies : c \in Pids /\ proc[c] = "zombie"
  BY DEF Children
<1> HIDE DEF zombies
<1>4. IsFiniteSet(zombies)
  <2>1. zombies \in SUBSET Pids /\ IsFiniteSet(Pids)
    BY <1>3, ShmTalkAssumption DEF Children, ShmTalkAssumption
  <2> QED
    BY <2>1, FS_Subset
<1> DEFINE reaped == Reap(order, Tables)
<1>5. reaped.gone = zombies /\ Agrees(reaped.table, Children \ zombies)
  <2>1. Children \in SUBSET Pids
    BY DEF Children
  <2> DEFINE t == Tables
             A == Children
  <2>2. Agrees(t, A) /\ A \in SUBSET Pids /\ zombies \in SUBSET A
    BY <2>1, <1>0, <1>3
  <2> HIDE DEF t, A
  <2>3. Reap(order, t).gone = zombies /\ Agrees(Reap(order, t).table, A \ zombies)
    BY <2>2, <1>4, Reaped
  <2> QED
    BY <2>3 DEF t, A
<1>6. /\ users' = reaped.table.users /\ sub_process' = reaped.table.sub
      /\ user_count' = reaped.table.count
      /\ proc' = [c \in Pids |-> IF c \in zombies THEN "none" ELSE proc[c]]
      /\ idx' = [c \in Pids |-> IF c \in zombies THEN 0 ELSE idx[c]]
  BY <1>2, <1>5
<1> HIDE DEF reaped
<1>7. \A c \in Pids : /\ proc'[c] = (IF c \in zombies THEN "none" ELSE proc[c])
                      /\ idx'[c] = (IF c \in zombies THEN 0 ELSE idx[c])
                      /\ (Running(c)' <=> Running(c))
                      /\ Running(c) => idx'[c] = idx[c]
  <2>1. \A c \in Pids : /\ proc'[c] = (IF c \in zombies THEN "none" ELSE proc[c])
                        /\ idx'[c] = (IF c \in zombies THEN 0 ELSE idx[c])
    BY <1>6
  <2> QED
    BY <2>1, <1>3 DEF Running
<1>8. Children' = Children \ zombies
  BY <1>7 DEF Children
<1>9. TypeOK'
  <2>1. 0 \in Slots
    BY ShmTalkAssumption DEF ShmTalkAssumption, Slots
  <2>2. idx' \in [Pids -> Slots] /\ proc' \in [Pids -> {"none", "running", "zombie"}]
    BY <2>1, <1>0, <1>6 DEF TypeOK
  <2>3. cpc' \in [Pids -> {"forked", "setup", "wait", "handle", "exit"}]
    BY <1>0, <1>1 DEF TypeOK
  <2> QED
    BY <2>2, <2>3, <1>0, <1>1 DEF TypeOK
<1>10. Agrees(Tables, Children)'
  BY <1>5, <1>6, <1>8 DEF Agrees, Tables
<1>11. EventsThere'
  <2>1. \A c \in Pids : cpc[c] = "handle" => cpc'[c] = "handle"
    BY <1>1
  <2> QED
    BY <2>1, <1>0, <1>1, <1>7 DEF EventsThere
<1>12. SameSegment'
  <2> SUFFICES ASSUME NEW c \in Children', NEW d \in Children', c # d, idx'[c] = idx'[d], Running(c)'
               PROVE  c \in shared'
    BY DEF SameSegment
  <2>1. /\ c \in Children /\ d \in Children /\ c \notin zombies /\ d \notin zombies
        /\ c \in Pids /\ d \in Pids
    BY <1>8 DEF Children
  <2>2. idx[c] = idx[d] /\ Running(c)
    BY <2>1, <1>7
  <2> QED
    BY <2>1, <2>2, <1>0, <1>1 DEF SameSegment
<1>13. NumbersOfOthers'
  <2> SUFFICES ASSUME NEW c \in Pids, NEW k \in 1..Len(toChild[c]), toChild[c][k] = idx'[c]
               PROVE  c \in shared
    BY <1>1 DEF NumbersOfOthers
  <2>1. Running(c)
    BY <1>0 DEF EventsThere
  <2> QED
    BY <2>1, <1>0, <1>7 DEF NumbersOfOthers
<1>14. WordsOfOwner'
  <2> SUFFICES ASSUME NEW i \in Slots, share_mem[i] # Nobody
               PROVE  proc'[share_mem[i]] = "running" /\ idx'[share_mem[i]] = i
    BY <1>1 DEF WordsOfOwner, Running
  <2>1. share_mem[i] \in Pids /\ proc[share_mem[i]] = "running" /\ idx[share_mem[i]] = i
    BY <1>0 DEF WordsOfOwner, TypeOK, Running
  <2>2. share_mem[i] \notin zombies
    BY <2>1, <1>3
  <2> QED
    BY <2>1, <2>2, <1>7
<1>15. NeverOwnWords'
  BY <1>0, <1>1 DEF NeverOwnWords
<1> QED
  BY <1>9, <1>10, <1>11, <1>12, <1>13, <1>14, <1>15 DEF ShmInv

(* Every step of the server and of its clients keeps ShmInv. *)
LEMMA ShmNext == ASSUME ShmInv, [Next]_vars PROVE ShmInv'
<1>1. ASSUME NEW c \in Pids, ChildStep(c) PROVE ShmInv'
  BY <1>1, ShmChildWaits, ShmExits, ShmReceives, ShmForwards DEF ChildStep
<1>2. ASSUME NEW c \in Pids, ClientSays(c) \/ ClientCloses(c) PROVE ShmInv'
  BY <1>2, NothingChanges DEF ClientSays, ClientCloses, childVars, pipeVars, ghostVars
<1>3. ASSUME ClientConnects \/ Terminate \/ ParentWait \/ TurnAway \/ ParentStops \/ UNCHANGED vars
      PROVE  ShmInv'
  <2>1. UNCHANGED <<tableVars, proc, idx, cpc, cbatch, toChild, share_mem, shared, heardSelf>>
    BY <1>3 DEF ClientConnects, Terminate, ParentWait, TurnAway, ParentStops, vars,
         childVars, pipeVars, ghostVars
  <2> QED
    BY <2>1, NothingChanges
<1>4. ASSUME ParentStep PROVE ShmInv'
  BY <1>3, <1>4, ShmAccept, ShmPassOn, ShmSignals DEF ParentStep
<1> QED
  BY <1>1, <1>2, <1>3, <1>4 DEF Next
-----------------------------------------------------------------------------
(* The invariant of the chat server: its tables hold its children, and the  *)
(* numbers and the words on their way are those of others.                  *)
THEOREM ShmInvariant == Spec => []ShmInv
<1>1. Init => ShmInv
  BY ShmInit
<1>2. ShmInv /\ [Next]_vars => ShmInv'
  BY ShmNext
<1> QED
  BY <1>1, <1>2, PTL DEF Spec

(* However many users leave at a time, in whichever order waitpid finds     *)
(* them, the tables hold the children that are left, each once.             *)
THEOREM TablesAgreeTheorem == Spec => []TablesAgree
<1>1. ShmInv => TablesAgree
  BY UsersAreChildren DEF ShmInv
<1> QED
  BY <1>1, ShmInvariant, PTL

(* A client is sent its own words only if its child has had to share its    *)
(* segment.                                                                 *)
THEOREM NeverOwnWordsTheorem == Spec => []NeverOwnWords
<1>1. ShmInv => NeverOwnWords
  BY DEF ShmInv
<1> QED
  BY <1>1, ShmInvariant, PTL
=============================================================================
