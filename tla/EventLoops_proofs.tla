-------------------------- MODULE EventLoops_proofs ---------------------------
(***************************************************************************)
(* Proofs about the servers that are one loop around select, poll or epoll *)
(* (SelectServer, PollChat, EpollServers and IdleServer), for any set of   *)
(* descriptors, any number of clients, users and threads, any length of an *)
(* array and any amount of input.  Each server has an inductive invariant  *)
(* and lemmas that its steps preserve it; at the end the theorems about    *)
(* the specification that the runs check.                                  *)
(***************************************************************************)
EXTENDS MCEventLoops, FunctionTheorems, FiniteSetTheorems, SequenceTheorems,
  WellFoundedInduction, TLAPS

(* Every set of natural numbers that has members has a least one. *)
LEMMA Least ==
  ASSUME NEW Q \in SUBSET Nat, Q # {}
  PROVE  \E x \in Q : \A y \in Q : x <= y
<1> DEFINE R == {ss \in Nat \X Nat : ss[1] < ss[2]}
<1>1. IsWellFoundedOn(R, Nat)
  BY NatLessThanWellFounded DEF OpToRel
<1>2. PICK x \in Q : \A y \in Q : ~(<<y, x>> \in R)
  <2> HIDE DEF R
  <2> QED
    BY <1>1, WFMin
<1>3. \A y \in Q : ~(y < x)
  BY <1>2
<1> HIDE DEF R
<1> QED
  BY <1>3

(* The instances count as this module does. *)
LEMMA SameCount ==
  /\ \A T : S!Cardinality(T) = Cardinality(T)
  /\ \A T : P!Cardinality(T) = Cardinality(T) /\ (P!IsFiniteSet(T) <=> IsFiniteSet(T))
  /\ \A T : D!Cardinality(T) = Cardinality(T) /\ (D!IsFiniteSet(T) <=> IsFiniteSet(T))
BY DEF S!Cardinality, P!Cardinality, D!Cardinality, Cardinality,
       P!IsFiniteSet, D!IsFiniteSet, IsFiniteSet

(* Two elements are more than one. *)
LEMMA TwoElements ==
  ASSUME NEW K, IsFiniteSet(K), NEW a \in K, NEW b \in K, a # b
  PROVE  Cardinality(K) > 1
<1>1. IsFiniteSet({a}) /\ Cardinality({a}) = 1
  BY FS_Singleton
<1>2. Cardinality({a} \cup {b}) = 2
  BY <1>1, FS_AddElement
<1>3. {a} \cup {b} \in SUBSET K
  OBVIOUS
<1>4. Cardinality({a} \cup {b}) <= Cardinality(K) /\ Cardinality(K) \in Nat
  BY <1>3, FS_Subset, FS_CardinalityType
<1> QED
  BY <1>2, <1>4

-----------------------------------------------------------------------------
(* 08_select.cpp.                                                           *)

SelectTypeOK ==
  /\ s_anSelectFdSet \in Seq(Fd \cup {Listener})
  /\ s_tOldSet \subseteq Fd \cup {Listener}
  /\ s_tReadSet \subseteq Fd \cup {Listener}
  /\ s_i \in Nat
  /\ s_overrun \in BOOLEAN
  /\ s_open \subseteq Fd
  /\ s_data \in [Fd -> Nat]
  /\ s_ended \in [Fd -> BOOLEAN]
  /\ s_backlog \in Nat
  /\ s_clients \in Nat

(* The listening socket is the first entry and no other, and until it has   *)
(* been looked at only open descriptors are announced, and a client waits   *)
(* if it is.                                                                *)
ListenerFirst ==
  /\ Len(s_anSelectFdSet) > 0
  /\ \A k \in 1..Len(s_anSelectFdSet) : s_anSelectFdSet[k] = Listener <=> k = 1
  /\ s_i = 1 => /\ s_tReadSet \subseteq s_open \cup {Listener}
                /\ Listener \in s_tReadSet => s_backlog > 0

(* An entry ahead that was announced and has nothing to be read any more is *)
(* that of a descriptor the loop has come across in this round.             *)
Silent(fd) == fd \in s_open /\ s_data[fd] = 0 /\ ~s_ended[fd]

DuplicateBehind ==
  \A j \in 1..Len(s_anSelectFdSet) :
    (0 < s_i /\ s_i <= j /\ s_anSelectFdSet[j] \in s_tReadSet /\ Silent(s_anSelectFdSet[j])) =>
      \E k \in 1..Len(s_anSelectFdSet) : k < s_i /\ s_anSelectFdSet[k] = s_anSelectFdSet[j]

SelectInv ==
  /\ SelectTypeOK
  /\ S!SessionsWatched
  /\ ListenerFirst
  /\ DuplicateBehind

(* The server begins with the listening socket alone.                       *)
LEMMA SelectInvInit == ASSUME S!SelectServerAssumption, S!Init PROVE SelectInv
<1> USE DEF S!SelectServerAssumption, S!Init
<1>1. s_anSelectFdSet \in Seq(Fd \cup {Listener}) /\ Len(s_anSelectFdSet) = 1 /\ s_anSelectFdSet[1] = Listener
  OBVIOUS
<1>2. SelectTypeOK
  BY <1>1 DEF SelectTypeOK
<1>3. S!SessionsWatched
  BY DEF S!SessionsWatched
<1>4. ListenerFirst /\ DuplicateBehind
  BY <1>1 DEF ListenerFirst, DuplicateBehind
<1> QED
  BY <1>2, <1>3, <1>4 DEF SelectInv

(* What the clients do leaves the tables alone and silences nobody. *)
LEMMA SelectInvClients ==
  ASSUME S!SelectServerAssumption, SelectInv,
         S!ClientConnects \/ \E fd \in Fd : S!ClientSends(fd) \/ S!ClientCloses(fd)
  PROVE  SelectInv'
<1> USE DEF S!SelectServerAssumption, SelectInv, SelectTypeOK, S!SessionsWatched, ListenerFirst,
        DuplicateBehind, Silent, S!loopVars
<1>1. CASE S!ClientConnects
  BY <1>1 DEF S!ClientConnects
<1>2. ASSUME NEW fd \in Fd, S!ClientSends(fd) PROVE SelectInv'
  <2>1. s_data' \in [Fd -> Nat] /\ \A f \in Fd : s_data'[f] = 0 => s_data[f] = 0
    BY <1>2 DEF S!ClientSends
  <2> QED
    BY <1>2, <2>1 DEF S!ClientSends
<1>3. ASSUME NEW fd \in Fd, S!ClientCloses(fd) PROVE SelectInv'
  <2>1. s_ended' \in [Fd -> BOOLEAN] /\ \A f \in Fd : s_ended[f] => s_ended'[f]
    BY <1>3 DEF S!ClientCloses
  <2> QED
    BY <1>3, <2>1 DEF S!ClientCloses
<1> QED
  BY <1>1, <1>2, <1>3

(* Every step of the server preserves the invariant. *)
LEMMA SelectInvServer ==
  ASSUME S!SelectServerAssumption, SelectInv, S!ServerStep
  PROVE  SelectInv'
<1> USE DEF S!SelectServerAssumption, SelectInv, SelectTypeOK, S!SessionsWatched, S!kernelVars
<1>1. CASE S!Select
  <2>1. SelectTypeOK' /\ S!SessionsWatched'
    BY <1>1 DEF S!Select
  <2>2. ListenerFirst'
    BY <1>1 DEF S!Select, S!Readable, ListenerFirst
  <2>3. \A fd \in Fd : Silent(fd)' => fd \notin s_tReadSet'
    BY <1>1 DEF S!Select, S!Readable, Silent
  <2>4. DuplicateBehind'
    BY <1>1, <2>1, <2>3 DEF S!Select, DuplicateBehind, Silent
  <2> QED
    BY <2>1, <2>2, <2>4
<1>2. CASE S!Skip
  <2>1. s_i' \in Nat /\ (s_i' = 0 \/ s_i' = s_i + 1) /\ s_i > 0
    BY <1>2 DEF S!Skip, S!NextEntry, S!InLoop
  <2>2. SelectTypeOK' /\ S!SessionsWatched'
    BY <1>2, <2>1 DEF S!Skip
  <2>3. ListenerFirst'
    BY <1>2, <2>1 DEF S!Skip, ListenerFirst
  <2>4. DuplicateBehind'
    BY <1>2, <2>1 DEF S!Skip, S!InLoop, S!Entry, DuplicateBehind, Silent
  <2> QED
    BY <2>2, <2>3, <2>4
<1>3. CASE S!Accept
  <2>1. PICK fd \in Fd \ s_open :
          /\ s_open' = s_open \cup {fd}
          /\ s_tOldSet' = s_tOldSet \cup {fd}
          /\ s_anSelectFdSet' = Append(s_anSelectFdSet, fd)
    BY <1>3 DEF S!Accept
  <2>2. /\ s_anSelectFdSet' \in Seq(Fd \cup {Listener})
        /\ Len(s_anSelectFdSet') = Len(s_anSelectFdSet) + 1
        /\ \A k \in 1..Len(s_anSelectFdSet) : s_anSelectFdSet'[k] = s_anSelectFdSet[k]
        /\ s_anSelectFdSet'[Len(s_anSelectFdSet) + 1] = fd
    BY <2>1
  <2>3. s_i = 1 /\ s_i' \in Nat /\ (s_i' = 0 \/ s_i' = 2) /\ s_i \in 1..Len(s_anSelectFdSet)
    BY <1>3, <2>2 DEF S!Accept, S!NextEntry, S!InLoop, S!Entry, ListenerFirst
  <2>4. SelectTypeOK'
    <3>1. s_backlog' \in Nat
      BY <1>3, <2>3 DEF S!Accept, S!Entry, ListenerFirst
    <3> QED
      BY <1>3, <2>1, <2>2, <2>3, <3>1 DEF S!Accept
  <2>5. S!SessionsWatched'
    BY <2>1, <2>2
  <2>6. ListenerFirst'
    BY <2>1, <2>2, <2>3 DEF ListenerFirst
  <2>7. fd \notin s_tReadSet'
    BY <1>3, <2>1, <2>3 DEF S!Accept, ListenerFirst
  <2>8. DuplicateBehind'
    BY <1>3, <2>1, <2>2, <2>3, <2>7 DEF S!Accept, DuplicateBehind, Silent
  <2> QED
    BY <2>4, <2>5, <2>6, <2>8
<1>4. CASE S!ReceiveData
  <2>1. /\ s_i' \in Nat /\ (s_i' = 0 \/ s_i' = s_i + 1) /\ s_i \in 1..Len(s_anSelectFdSet) /\ s_i > 1
        /\ S!Entry \in Fd
    BY <1>4 DEF S!ReceiveData, S!Receiving, S!NextEntry, S!InLoop, S!Entry, ListenerFirst
  <2>2. PICK k \in 1..s_data[S!Entry] : s_data' = [s_data EXCEPT ![S!Entry] = @ - k]
    BY <1>4 DEF S!ReceiveData
  <2>3. s_data' \in [Fd -> Nat] /\ \A fd \in Fd : fd # S!Entry => s_data'[fd] = s_data[fd]
    BY <2>1, <2>2
  <2>4. SelectTypeOK' /\ S!SessionsWatched'
    BY <1>4, <2>1, <2>3 DEF S!ReceiveData
  <2>5. ListenerFirst'
    BY <1>4, <2>1 DEF S!ReceiveData, ListenerFirst
  <2>6. \A fd : Silent(fd)' => Silent(fd) \/ fd = S!Entry
    BY <1>4, <2>3 DEF S!ReceiveData, Silent
  <2>7. DuplicateBehind'
    <3>1. s_anSelectFdSet' = s_anSelectFdSet /\ s_tReadSet' = s_tReadSet
      BY <1>4 DEF S!ReceiveData
    <3> SUFFICES ASSUME NEW j \in 1..Len(s_anSelectFdSet'), 0 < s_i', s_i' <= j,
                        s_anSelectFdSet'[j] \in s_tReadSet', Silent(s_anSelectFdSet[j])'
                 PROVE  \E n \in 1..Len(s_anSelectFdSet') :
                          n < s_i' /\ s_anSelectFdSet'[n] = s_anSelectFdSet'[j]
      BY DEF DuplicateBehind
    <3>2. s_i' = s_i + 1 /\ s_i \in Nat /\ 0 < s_i /\ s_i <= j /\ j \in 1..Len(s_anSelectFdSet)
      BY <2>1, <3>1
    <3>3. CASE s_anSelectFdSet[j] = S!Entry
      BY <2>1, <3>1, <3>2, <3>3 DEF S!Entry
    <3>4. CASE s_anSelectFdSet[j] # S!Entry
      <4>1. Silent(s_anSelectFdSet[j])
        BY <2>6, <3>1, <3>2, <3>4 DEF Silent
      <4>2. PICK n \in 1..Len(s_anSelectFdSet) : n < s_i /\ s_anSelectFdSet[n] = s_anSelectFdSet[j]
        BY <3>1, <3>2, <4>1 DEF DuplicateBehind
      <4> QED
        BY <3>1, <3>2, <4>2
    <3> QED
      BY <3>3, <3>4
  <2> QED
    BY <2>4, <2>5, <2>7
<1>5. CASE S!ReceiveEnd
  <2>1. /\ s_i' \in Nat /\ (s_i' = 0 \/ s_i' = s_i + 1) /\ s_i \in 1..Len(s_anSelectFdSet) /\ s_i > 1
        /\ S!Entry \in Fd
    BY <1>5 DEF S!ReceiveEnd, S!Receiving, S!NextEntry, S!InLoop, S!Entry, ListenerFirst
  <2>2. s_ended' \in [Fd -> BOOLEAN] /\ \A fd \in Fd : fd # S!Entry => s_ended'[fd] = s_ended[fd]
    BY <1>5, <2>1 DEF S!ReceiveEnd
  <2>3. SelectTypeOK'
    BY <1>5, <2>1, <2>2 DEF S!ReceiveEnd
  <2>4. S!SessionsWatched'
    BY <1>5, <2>1 DEF S!ReceiveEnd
  <2>5. ListenerFirst'
    BY <1>5, <2>1 DEF S!ReceiveEnd, ListenerFirst
  <2>6. \A fd : Silent(fd)' => Silent(fd)
    BY <1>5, <2>1, <2>2 DEF S!ReceiveEnd, Silent
  <2>7. DuplicateBehind'
    <3>1. s_anSelectFdSet' = s_anSelectFdSet /\ s_tReadSet' = s_tReadSet
      BY <1>5 DEF S!ReceiveEnd
    <3> SUFFICES ASSUME NEW j \in 1..Len(s_anSelectFdSet'), 0 < s_i', s_i' <= j,
                        s_anSelectFdSet'[j] \in s_tReadSet', Silent(s_anSelectFdSet[j])'
                 PROVE  \E k \in 1..Len(s_anSelectFdSet') :
                          k < s_i' /\ s_anSelectFdSet'[k] = s_anSelectFdSet'[j]
      BY DEF DuplicateBehind
    <3>2. s_i' = s_i + 1 /\ s_i \in Nat /\ 0 < s_i /\ s_i <= j /\ j \in 1..Len(s_anSelectFdSet)
      BY <2>1, <3>1
    <3>3. Silent(s_anSelectFdSet[j])
      BY <2>6, <3>1, <3>2 DEF Silent
    <3>4. PICK k \in 1..Len(s_anSelectFdSet) : k < s_i /\ s_anSelectFdSet[k] = s_anSelectFdSet[j]
      BY <3>1, <3>2, <3>3 DEF DuplicateBehind
    <3> QED
      BY <3>1, <3>2, <3>4
  <2> QED
    BY <2>3, <2>4, <2>5, <2>7
<1> QED
  BY <1>1, <1>2, <1>3, <1>4, <1>5 DEF S!ServerStep

(* Every step of the select server and of its clients.                      *)
LEMMA SelectNext == ASSUME S!SelectServerAssumption, SelectInv, S!Next \/ UNCHANGED S!vars PROVE SelectInv'
<1>1. CASE S!Next
  BY <1>1, SelectInvClients, SelectInvServer DEF S!Next
<1>2. CASE UNCHANGED S!vars
  BY <1>2 DEF S!vars, S!loopVars, S!kernelVars, SelectInv, SelectTypeOK, S!SessionsWatched, ListenerFirst,
              DuplicateBehind, Silent
<1> QED
  BY <1>1, <1>2

(* It waits in recv only where a descriptor is in the array twice.          *)
LEMMA SelectDuplicates == ASSUME S!SelectServerAssumption, SelectInv PROVE S!BlocksOnlyAtDuplicate
<1> SUFFICES ASSUME S!Blocked PROVE S!TwiceInArray(S!Entry)
  BY DEF S!BlocksOnlyAtDuplicate
<1> DEFINE K == {k \in 1..Len(s_anSelectFdSet) : s_anSelectFdSet[k] = S!Entry}
<1>1. s_i \in K /\ Len(s_anSelectFdSet) \in Nat
  BY DEF S!Blocked, S!Receiving, S!InLoop, S!Entry, SelectInv, SelectTypeOK
<1>2. PICK k \in 1..Len(s_anSelectFdSet) : k < s_i /\ s_anSelectFdSet[k] = S!Entry
  BY <1>1 DEF S!Blocked, S!Receiving, S!InLoop, S!Entry, SelectInv, SelectTypeOK, DuplicateBehind, Silent
<1>3. IsFiniteSet(K) /\ Cardinality(K) \in Nat
  <2>1. IsFiniteSet(1..Len(s_anSelectFdSet)) /\ K \in SUBSET (1..Len(s_anSelectFdSet))
    BY <1>1, FS_Interval
  <2>2. IsFiniteSet(K)
    BY <2>1, FS_Subset
  <2> QED
    BY <2>2, FS_CardinalityType
<1>4. s_i \in K /\ k \in K /\ s_i # k
  BY <1>1, <1>2
<1> HIDE DEF K
<1>5. Cardinality(K) > 1
  BY <1>3, <1>4, TwoElements
<1> USE DEF K
<1> QED
  BY <1>5, SameCount DEF S!TwiceInArray
-----------------------------------------------------------------------------
(* 9-7mytalk_server.cpp.                                                    *)

Flags == {"POLLERR", "POLLRDHUP", "POLLIN", "POLLOUT"}

ChatEntry == [fd : ChatFd, out : BOOLEAN, revents : SUBSET Flags]

ChatTypeOK ==
  /\ p_fds \in Seq(ChatEntry)
  /\ p_i \in Int
  /\ p_buf \in [ChatFd -> Nat \cup {NULL}]
  /\ p_write_buf \in [ChatFd -> ChatFd \cup {NULL}]
  /\ p_owner \in [ChatFd -> Nat \cup {NULL}]
  /\ p_inq \in [ChatFd -> Nat]
  /\ p_ended \in [ChatFd -> {"no", "fin", "rst"}]
  /\ p_error \in [ChatFd -> BOOLEAN]
  /\ p_texts \in [ChatFd -> Nat]
  /\ p_backlog \in Nat
  /\ p_clients \in Nat

(* The array has one entry for each connection, and there is one client at  *)
(* each; accept is called when a client waits.                              *)
Entries ==
  /\ \A k \in 1..P!user_counter : p_fds[k].fd \in P!Open
  /\ \A fd \in P!Open : \E k \in 1..P!user_counter : p_fds[k].fd = fd
  /\ \A j, k \in 1..P!user_counter : p_fds[j].fd = p_fds[k].fd => j = k
  /\ P!user_counter <= USER_LIMIT
  /\ p_i = 0 => p_backlog > 0

Owners ==
  /\ \A fd \in P!Open : p_owner[fd] <= p_clients
  /\ \A f, g \in P!Open : p_owner[f] = p_owner[g] => f = g

(* What poll announced as input is still there when it is looked at, unless *)
(* the connection was reset since.                                          *)
InputThere ==
  \A k \in 1..P!user_counter :
    ("POLLIN" \in p_fds[k].revents /\ "POLLRDHUP" \notin p_fds[k].revents) =>
      p_inq[p_fds[k].fd] > 0 \/ p_error[p_fds[k].fd]

ChatInv ==
  /\ ChatTypeOK
  /\ Entries
  /\ Owners
  /\ InputThere
  /\ P!ShouldNotComeHere
  /\ P!PointsToSpeaker

(* The least of a set of natural numbers is one of them. *)
LEMMA LeastNat ==
  ASSUME NEW Q \in SUBSET Nat, Q # {}
  PROVE  P!Min(Q) \in Q /\ \A y \in Q : P!Min(Q) <= y
BY Least DEF P!Min

(* One place of a sequence is given another value. *)
LEMMA Replaced ==
  ASSUME NEW T, NEW s \in Seq(T), NEW k \in Nat, NEW e \in T
  PROVE  /\ [s EXCEPT ![k] = e] \in Seq(T)
         /\ Len([s EXCEPT ![k] = e]) = Len(s)
         /\ \A j \in 1..Len(s) : [s EXCEPT ![k] = e][j] = IF j = k THEN e ELSE s[j]
<1>1. Len(s) \in Nat /\ s \in [1..Len(s) -> T]
  OBVIOUS
<1> DEFINE n == Len(s)
<1> HIDE DEF n
<1>2. s \in [1..n -> T] /\ n \in Nat
  BY <1>1 DEF n
<1>3. [s EXCEPT ![k] = e] \in [1..n -> T]
  BY <1>2
<1>4. [s EXCEPT ![k] = e] \in Seq(T)
  BY <1>2, <1>3, IsASeq
<1>5. DOMAIN [s EXCEPT ![k] = e] = 1..n
  BY <1>3
<1>6. Len([s EXCEPT ![k] = e]) = n
  BY <1>2, <1>3, <1>4, <1>5, LenProperties
<1>7. \A j \in 1..n : [s EXCEPT ![k] = e][j] = IF j = k THEN e ELSE s[j]
  BY <1>2
<1> QED
  BY <1>4, <1>6, <1>7 DEF n

(* An entry without revents is the entry otherwise. *)
LEMMA LookedAt ==
  ASSUME NEW s \in Seq(ChatEntry), NEW k \in 1..Len(s)
  PROVE  /\ [s EXCEPT ![k].revents = {}] \in Seq(ChatEntry)
         /\ Len([s EXCEPT ![k].revents = {}]) = Len(s)
         /\ \A j \in 1..Len(s) :
              /\ [s EXCEPT ![k].revents = {}][j].fd = s[j].fd
              /\ [s EXCEPT ![k].revents = {}][j].out = s[j].out
              /\ [s EXCEPT ![k].revents = {}][j].revents = IF j = k THEN {} ELSE s[j].revents
<1> DEFINE e == [s[k] EXCEPT !.revents = {}]
<1>1. s[k] \in ChatEntry /\ k \in Nat
  OBVIOUS
<1>2. e \in ChatEntry /\ e.fd = s[k].fd /\ e.out = s[k].out /\ e.revents = {}
  BY <1>1 DEF ChatEntry
<1>3. [s EXCEPT ![k].revents = {}] = [s EXCEPT ![k] = e]
  OBVIOUS
<1> HIDE DEF e
<1>4. /\ [s EXCEPT ![k] = e] \in Seq(ChatEntry)
      /\ Len([s EXCEPT ![k] = e]) = Len(s)
      /\ \A j \in 1..Len(s) : [s EXCEPT ![k] = e][j] = IF j = k THEN e ELSE s[j]
  BY <1>1, <1>2, Replaced
<1> DEFINE t == [s EXCEPT ![k] = e]
<1> HIDE DEF t
<1>5. t \in Seq(ChatEntry) /\ Len(t) = Len(s) /\ \A j \in 1..Len(s) : t[j] = IF j = k THEN e ELSE s[j]
  BY <1>4 DEF t
<1>6. \A j \in 1..Len(s) : /\ t[j].fd = s[j].fd /\ t[j].out = s[j].out
                           /\ t[j].revents = IF j = k THEN {} ELSE s[j].revents
  BY <1>2, <1>5
<1> QED
  BY <1>3, <1>5, <1>6 DEF t

(* The last entry moves to the place of one that goes. *)
LEMMA MovedUp ==
  ASSUME NEW s \in Seq(ChatEntry), NEW k \in 1..Len(s)
  PROVE  /\ [P!Front(s) EXCEPT ![k] = P!Last(s)] \in Seq(ChatEntry)
         /\ Len([P!Front(s) EXCEPT ![k] = P!Last(s)]) = Len(s) - 1
         /\ \A j \in 1..Len(s) - 1 :
              [P!Front(s) EXCEPT ![k] = P!Last(s)][j] = IF j = k THEN s[Len(s)] ELSE s[j]
<1> DEFINE n == Len(s)
           f == SubSeq(s, 1, n - 1)
<1>1. P!Front(s) = f /\ P!Last(s) = s[n]
  BY DEF P!Front, P!Last
<1>2. n \in Nat /\ n > 0 /\ k \in Nat /\ s[n] \in ChatEntry /\ \A j \in 1..n - 1 : s[j] \in ChatEntry
  OBVIOUS
<1>3. /\ f \in Seq(ChatEntry)
      /\ Len(f) = IF 1 <= n - 1 THEN n - 1 - 1 + 1 ELSE 0
      /\ \A j \in 1..n - 1 - 1 + 1 : f[j] = s[1 + j - 1]
  BY <1>2, SubSeqProperties
<1> HIDE DEF f, n
<1>4. f \in Seq(ChatEntry) /\ Len(f) = n - 1 /\ \A j \in 1..n - 1 : f[j] = s[j]
  <2>1. Len(f) = n - 1
    BY <1>2, <1>3
  <2>2. ASSUME NEW j \in 1..n - 1 PROVE f[j] = s[j]
    <3>1. j \in 1..n - 1 - 1 + 1 /\ 1 + j - 1 = j
      BY <1>2
    <3> QED
      BY <3>1, <1>3
  <2> QED
    BY <2>1, <2>2, <1>3
<1>5. /\ [f EXCEPT ![k] = s[n]] \in Seq(ChatEntry)
      /\ Len([f EXCEPT ![k] = s[n]]) = Len(f)
      /\ \A j \in 1..Len(f) : [f EXCEPT ![k] = s[n]][j] = IF j = k THEN s[n] ELSE f[j]
  <2> HIDE DEF n
  <2> DEFINE e == s[n]
  <2>1. e \in ChatEntry
    BY <1>2
  <2> HIDE DEF e
  <2>2. /\ [f EXCEPT ![k] = e] \in Seq(ChatEntry)
        /\ Len([f EXCEPT ![k] = e]) = Len(f)
        /\ \A j \in 1..Len(f) : [f EXCEPT ![k] = e][j] = IF j = k THEN e ELSE f[j]
    BY <1>2, <1>4, <2>1, Replaced
  <2> QED
    BY <2>2 DEF e
<1> QED
  BY <1>1, <1>4, <1>5 DEF n
(* The loop over the array goes on at an entry of it, or ends. *)
LEMMA GoesOn ==
  ASSUME NEW k \in Nat, k > 0, p_fds' \in Seq(ChatEntry), P!GoTo(k)
  PROVE  p_i' \in Int /\ p_i' # 0
<1> DEFINE ahead == {j \in k..Len(p_fds') : p_fds'[j].revents # {}}
<1>1. ahead \in SUBSET Nat /\ 0 \notin ahead
  OBVIOUS
<1>2. p_i' = IF ahead = {} THEN -1 ELSE P!Min(ahead)
  BY DEF P!GoTo
<1> HIDE DEF ahead
<1>3. ahead # {} => P!Min(ahead) \in ahead
  BY <1>1, LeastNat
<1> QED
  BY <1>1, <1>2, <1>3

(* What the test that decides says of the others. *)
LEMMA Tested ==
  ASSUME NEW branch, P!Handling(branch)
  PROVE  /\ p_i \in 1..P!user_counter
         /\ branch \in p_fds[p_i].revents
         /\ branch = "POLLIN" => "POLLRDHUP" \notin p_fds[p_i].revents
<1>1. p_i \in 1..P!user_counter
  BY DEF P!Handling
<1>2. PICK k \in 1..4 : /\ P!Tests[k] = branch /\ branch \in p_fds[p_i].revents
                        /\ \A j \in 1..(k - 1) : P!Tests[j] \notin p_fds[p_i].revents
  BY DEF P!Handling, P!Tests
<1>3. branch = "POLLIN" => k = 3
  BY <1>2 DEF P!Tests
<1>4. k = 3 => P!Tests[2] \notin p_fds[p_i].revents
  BY <1>2
<1> QED
  BY <1>1, <1>2, <1>3, <1>4 DEF P!Tests

(* The chat begins without users.                                           *)
LEMMA ChatInit == ASSUME P!PollChatAssumption, P!Init PROVE ChatInv
<1> USE DEF P!PollChatAssumption
<1>1. ChatTypeOK
  BY DEF P!Init, ChatTypeOK
<1>2. P!Open = {} /\ P!user_counter = 0 /\ p_i = -1 /\ ~p_unexpected
  BY DEF P!Init, P!Open, P!user_counter
<1>3. Entries /\ Owners /\ InputThere /\ P!ShouldNotComeHere /\ P!PointsToSpeaker
  BY <1>2 DEF Entries, Owners, InputThere, P!ShouldNotComeHere, P!PointsToSpeaker
<1> QED
  BY <1>1, <1>3 DEF ChatInv

(* What the clients do leaves the tables alone and takes no input back but  *)
(* by a reset.                                                              *)
LEMMA ChatPeers ==
  ASSUME P!PollChatAssumption, ChatInv,
         P!ClientConnects \/ \E fd \in ChatFd : P!ClientSends(fd) \/ P!ClientCloses(fd)
  PROVE  ChatInv'
<1>0. ChatTypeOK /\ Entries /\ Owners /\ InputThere /\ P!ShouldNotComeHere /\ P!PointsToSpeaker
  BY DEF ChatInv
<1>1. UNCHANGED <<p_fds, p_i, p_unexpected, p_buf, p_write_buf, p_astray, p_owner, p_clients>>
  BY DEF P!ClientConnects, P!ClientSends, P!ClientCloses, P!loopVars, P!userVars, P!socketVars, P!clientVars
<1>2. p_backlog' \in Nat /\ p_backlog' >= p_backlog
  BY <1>0 DEF P!ClientConnects, P!ClientSends, P!ClientCloses, P!clientVars, ChatTypeOK
<1>3. /\ p_inq' \in [ChatFd -> Nat] /\ p_error' \in [ChatFd -> BOOLEAN] /\ p_texts' \in [ChatFd -> Nat]
      /\ p_ended' \in [ChatFd -> {"no", "fin", "rst"}]
      /\ \A fd \in ChatFd : p_inq[fd] > 0 \/ p_error[fd] => p_inq'[fd] > 0 \/ p_error'[fd]
  <2>1. CASE P!ClientConnects
    BY <1>0, <2>1 DEF P!ClientConnects, ChatTypeOK, P!socketVars
  <2>2. ASSUME NEW fd \in ChatFd, P!ClientSends(fd)
        PROVE  /\ p_inq' \in [ChatFd -> Nat] /\ p_error' \in [ChatFd -> BOOLEAN] /\ p_texts' \in [ChatFd -> Nat]
               /\ p_ended' \in [ChatFd -> {"no", "fin", "rst"}]
               /\ \A f \in ChatFd : p_inq[f] > 0 \/ p_error[f] => p_inq'[f] > 0 \/ p_error'[f]
    BY <1>0, <2>2 DEF P!ClientSends, ChatTypeOK
  <2>3. ASSUME NEW fd \in ChatFd, P!ClientCloses(fd)
        PROVE  /\ p_inq' \in [ChatFd -> Nat] /\ p_error' \in [ChatFd -> BOOLEAN] /\ p_texts' \in [ChatFd -> Nat]
               /\ p_ended' \in [ChatFd -> {"no", "fin", "rst"}]
               /\ \A f \in ChatFd : p_inq[f] > 0 \/ p_error[f] => p_inq'[f] > 0 \/ p_error'[f]
    <3>1. CASE p_ended' = [p_ended EXCEPT ![fd] = "fin"] /\ UNCHANGED <<p_inq, p_error>>
      BY <1>0, <2>3, <3>1 DEF P!ClientCloses, ChatTypeOK
    <3>2. CASE /\ p_ended' = [p_ended EXCEPT ![fd] = "rst"]
               /\ p_inq' = [p_inq EXCEPT ![fd] = 0]
               /\ p_error' = [p_error EXCEPT ![fd] = TRUE]
      BY <1>0, <2>3, <3>2 DEF P!ClientCloses, ChatTypeOK
    <3> QED
      BY <2>3, <3>1, <3>2 DEF P!ClientCloses
  <2> QED
    BY <2>1, <2>2, <2>3
<1>4. ChatTypeOK'
  BY <1>0, <1>1, <1>2, <1>3 DEF ChatTypeOK
<1>5. P!Open' = P!Open /\ P!user_counter' = P!user_counter
  BY <1>1 DEF P!Open, P!user_counter
<1>6. Entries' /\ Owners'
  <2>1. p_backlog \in Nat
    BY <1>0 DEF ChatTypeOK
  <2> QED
    BY <2>1, <1>0, <1>1, <1>2, <1>5 DEF Entries, Owners
<1>7. InputThere'
  <2>1. \A k \in 1..P!user_counter : p_fds[k].fd \in ChatFd
    BY <1>0 DEF Entries, P!Open
  <2> QED
    BY <2>1, <1>0, <1>1, <1>3, <1>5 DEF InputThere
<1>8. P!ShouldNotComeHere' /\ P!PointsToSpeaker'
  BY <1>0, <1>1, <1>5 DEF P!ShouldNotComeHere, P!PointsToSpeaker
<1> QED
  BY <1>4, <1>6, <1>7, <1>8 DEF ChatInv

(* poll announces what there is. *)
LEMMA ChatPoll == ASSUME P!PollChatAssumption, ChatInv, P!Poll PROVE ChatInv'
<1>0. ChatTypeOK /\ Entries /\ Owners /\ InputThere /\ P!ShouldNotComeHere /\ P!PointsToSpeaker
  BY DEF ChatInv
<1> DEFINE n == Len(p_fds)
<1>1. UNCHANGED <<p_unexpected, p_buf, p_write_buf, p_astray, p_owner, p_inq, p_ended, p_error, p_texts, p_backlog, p_clients>>
  BY DEF P!Poll, P!userVars, P!socketVars, P!clientVars
<1>2. n \in Nat /\ \A k \in 1..n : p_fds[k] \in ChatEntry
  BY <1>0 DEF ChatTypeOK
<1>3. /\ p_fds' = [k \in 1..n |-> [p_fds[k] EXCEPT !.revents = P!Revents(p_fds[k])]]
      /\ \A k \in 1..n : P!Revents(p_fds[k]) \in SUBSET Flags
  BY DEF P!Poll, P!user_counter, P!Revents, Flags
<1>4. \A k \in 1..n : /\ p_fds'[k] \in ChatEntry
                      /\ p_fds'[k].fd = p_fds[k].fd /\ p_fds'[k].out = p_fds[k].out
                      /\ p_fds'[k].revents = P!Revents(p_fds[k])
  BY <1>2, <1>3 DEF ChatEntry
<1>5. p_fds' \in Seq(ChatEntry) /\ Len(p_fds') = n
  BY <1>2, <1>3, <1>4
<1>6. p_i' \in Int /\ (p_i' = 0 => p_backlog > 0)
  BY <1>5, GoesOn DEF P!Poll
<1>7. ChatTypeOK'
  BY <1>0, <1>1, <1>5, <1>6 DEF ChatTypeOK
<1>8. P!Open' = P!Open /\ P!user_counter' = n /\ P!user_counter = n
  BY <1>1, <1>5 DEF P!Open, P!user_counter
<1> HIDE DEF n
<1>9. Entries' /\ Owners'
  BY <1>0, <1>1, <1>4, <1>6, <1>8 DEF Entries, Owners
<1>10. InputThere'
  BY <1>0, <1>1, <1>4, <1>8 DEF InputThere, P!Revents
<1>11. P!ShouldNotComeHere' /\ P!PointsToSpeaker'
  BY <1>0, <1>1, <1>4, <1>8 DEF P!ShouldNotComeHere, P!PointsToSpeaker
<1> QED
  BY <1>7, <1>9, <1>10, <1>11 DEF ChatInv

(* accept: a new user at the end of the array, or one too many. *)
LEMMA ChatAccept == ASSUME P!PollChatAssumption, ChatInv, P!Accept PROVE ChatInv'
<1>0. ChatTypeOK /\ Entries /\ Owners /\ InputThere /\ P!ShouldNotComeHere /\ P!PointsToSpeaker
  BY DEF ChatInv
<1> DEFINE n == Len(p_fds)
           new == P!Min(ChatFd \ P!Open)
           entry == [fd |-> new, out |-> FALSE, revents |-> {}]
<1>1. /\ p_backlog > 0 /\ p_backlog' = p_backlog - 1 /\ p_clients' = p_clients + 1 /\ P!GoTo(1)
      /\ UNCHANGED <<p_unexpected, p_buf, p_write_buf, p_astray, p_inq, p_ended, p_error>>
      /\ n \in Nat /\ p_backlog \in Nat /\ p_clients \in Nat
  BY <1>0 DEF P!Accept, Entries, ChatTypeOK, P!userVars
<1>2. CASE n >= USER_LIMIT
  <2>1. UNCHANGED <<p_fds, p_owner, p_texts>>
    BY <1>2 DEF P!Accept, P!user_counter
  <2>2. p_i' \in Int /\ p_i' # 0
    BY <1>0, <1>1, <2>1, GoesOn DEF ChatTypeOK
  <2>3. ChatTypeOK'
    BY <1>0, <1>1, <2>1, <2>2 DEF ChatTypeOK
  <2>4. P!Open' = P!Open /\ P!user_counter' = P!user_counter
    BY <2>1 DEF P!Open, P!user_counter
  <2>5. Entries'
    BY <1>0, <1>1, <2>1, <2>2, <2>4 DEF Entries
  <2>6. Owners'
    <3>1. \A fd \in P!Open : p_owner[fd] \in Nat
      BY <1>0 DEF ChatTypeOK, P!Open
    <3> QED
      BY <3>1, <1>0, <1>1, <2>1, <2>4 DEF Owners
  <2>7. InputThere' /\ P!ShouldNotComeHere' /\ P!PointsToSpeaker'
    BY <1>0, <1>1, <2>1, <2>4 DEF InputThere, P!ShouldNotComeHere, P!PointsToSpeaker
  <2> QED
    BY <2>3, <2>5, <2>6, <2>7 DEF ChatInv
<1>3. CASE n < USER_LIMIT
  <2>1. /\ p_fds' = Append(p_fds, entry)
        /\ p_owner' = [p_owner EXCEPT ![new] = p_clients']
        /\ p_texts' = [p_texts EXCEPT ![new] = MaxTexts]
    <3>1. ~(P!user_counter >= USER_LIMIT)
      BY <1>1, <1>3 DEF P!user_counter, P!PollChatAssumption
    <3> QED
      BY <3>1 DEF P!Accept
  <2>2. ChatFd \ P!Open # {}
    <3>1. SUFFICES ASSUME ChatFd \subseteq P!Open PROVE FALSE
      OBVIOUS
    <3>2. P!Open = ChatFd /\ IsFiniteSet(ChatFd)
      BY <3>1, SameCount DEF P!Open, P!PollChatAssumption
    <3> DEFINE places == 1..n
               f == [k \in places |-> p_fds[k].fd]
    <3>3. f \in Surjection(places, ChatFd)
      BY <3>2, <1>0 DEF Surjection, Entries, P!user_counter
    <3>4. IsFiniteSet(places) /\ Cardinality(places) = n
      BY <1>1, FS_Interval
    <3> HIDE DEF places, f
    <3>5. Cardinality(ChatFd) <= n
      BY <3>3, <3>4, FS_Surjection
    <3>6. Cardinality(ChatFd) \in Nat
      BY <3>2, FS_CardinalityType
    <3> QED
      BY <1>1, <1>3, <3>5, <3>6, SameCount DEF P!PollChatAssumption
  <2> HIDE DEF new
  <2>3. new \in ChatFd /\ new \notin P!Open
    <3>1. ChatFd \ P!Open \in SUBSET Nat
      BY DEF P!PollChatAssumption
    <3> QED
      BY <3>1, <2>2, LeastNat DEF new
  <2>4. entry \in ChatEntry
    BY <2>3 DEF ChatEntry
  <2>5. /\ p_fds' \in Seq(ChatEntry) /\ Len(p_fds') = n + 1
        /\ \A k \in 1..n : p_fds'[k] = p_fds[k]
        /\ p_fds'[n + 1].fd = new /\ p_fds'[n + 1].out = FALSE /\ p_fds'[n + 1].revents = {}
    BY <1>0, <2>1, <2>4 DEF ChatTypeOK
  <2>6. p_i' \in Int /\ p_i' # 0
    BY <1>1, <2>5, GoesOn
  <2>7. ChatTypeOK'
    BY <1>0, <1>1, <2>1, <2>3, <2>5, <2>6 DEF ChatTypeOK, P!PollChatAssumption
  <2>8. /\ p_owner'[new] = p_clients + 1 /\ \A fd \in ChatFd : fd # new => p_owner'[fd] = p_owner[fd]
    BY <1>0, <1>1, <2>1, <2>3 DEF ChatTypeOK
  <2>9. P!Open' = P!Open \cup {new}
    <3>1. p_clients + 1 # NULL
      BY <1>1 DEF P!PollChatAssumption
    <3>2. \A fd \in ChatFd : p_owner'[fd] # NULL <=> p_owner[fd] # NULL \/ fd = new
      BY <3>1, <2>8
    <3> QED
      BY <3>2, <2>3 DEF P!Open
  <2>10. P!user_counter = n /\ P!user_counter' = n + 1
    BY <2>5 DEF P!user_counter
  <2> HIDE DEF n
  <2>11. Entries'
    <3>1. \A k \in 1..n + 1 : k \in 1..n \/ k = n + 1
      BY <1>1
    <3>2. \A k \in 1..n + 1 : p_fds'[k].fd \in P!Open'
      BY <3>1, <1>0, <2>5, <2>9, <2>10 DEF Entries
    <3>3. \A fd \in P!Open' : \E k \in 1..n + 1 : p_fds'[k].fd = fd
      BY <1>0, <1>1, <2>5, <2>9, <2>10 DEF Entries
    <3>4. \A j, k \in 1..n + 1 : p_fds'[j].fd = p_fds'[k].fd => j = k
      BY <3>1, <1>0, <2>3, <2>5, <2>10 DEF Entries
    <3>5. n + 1 <= USER_LIMIT
      BY <1>1, <1>3 DEF P!PollChatAssumption
    <3> QED
      BY <3>2, <3>3, <3>4, <3>5, <2>6, <2>10 DEF Entries
  <2>12. Owners'
    <3>1. \A fd \in P!Open : fd \in ChatFd /\ fd # new /\ p_owner[fd] \in Nat /\ p_owner[fd] <= p_clients
      BY <1>0, <2>3 DEF ChatTypeOK, P!Open, Owners
    <3> QED
      BY <3>1, <1>0, <1>1, <2>8, <2>9 DEF Owners
  <2>13. InputThere'
    <3>1. \A k \in 1..n + 1 : k \in 1..n \/ k = n + 1
      BY <1>1
    <3> QED
      BY <3>1, <1>0, <1>1, <2>5, <2>10 DEF InputThere
  <2>14. P!ShouldNotComeHere' /\ P!PointsToSpeaker'
    <3>1. \A k \in 1..n + 1 : k \in 1..n \/ k = n + 1
      BY <1>1
    <3>2. ASSUME NEW k \in 1..n + 1, p_fds'[k].out, p_write_buf[p_fds'[k].fd] # NULL,
                 p_owner'[p_fds'[k].fd] \notin p_astray
          PROVE  /\ p_write_buf[p_fds'[k].fd] \in P!Open' \ {p_fds'[k].fd}
                 /\ p_buf[p_write_buf[p_fds'[k].fd]] = p_owner'[p_write_buf[p_fds'[k].fd]]
      <4>1. k \in 1..n /\ p_fds'[k] = p_fds[k] /\ p_fds[k].fd \in P!Open
        BY <3>1, <3>2, <1>0, <2>5, <2>10 DEF Entries
      <4>2. p_owner'[p_fds[k].fd] = p_owner[p_fds[k].fd]
        BY <4>1, <2>3, <2>8 DEF P!Open
      <4>3. /\ p_write_buf[p_fds[k].fd] \in P!Open \ {p_fds[k].fd}
            /\ p_buf[p_write_buf[p_fds[k].fd]] = p_owner[p_write_buf[p_fds[k].fd]]
        BY <3>2, <4>1, <4>2, <1>0, <2>10 DEF P!PointsToSpeaker
      <4> QED
        BY <4>1, <4>3, <2>3, <2>8, <2>9 DEF P!Open
    <3> QED
      BY <3>2, <1>0, <1>1, <2>10 DEF P!ShouldNotComeHere, P!PointsToSpeaker
  <2> QED
    BY <2>7, <2>11, <2>12, <2>13, <2>14 DEF ChatInv
<1> QED
  BY <1>1, <1>2, <1>3 DEF P!PollChatAssumption

(* An entry has been looked at, and its user stays: the error is fetched,   *)
(* or what is pointed to has been sent.                                     *)
LEMMA ChatLooked ==
  ASSUME P!PollChatAssumption, ChatInv, P!HandleError \/ P!Send
  PROVE  ChatInv'
<1>0. ChatTypeOK /\ Entries /\ Owners /\ InputThere /\ P!ShouldNotComeHere /\ P!PointsToSpeaker
  BY DEF ChatInv
<1> DEFINE n == Len(p_fds)
<1>1. /\ p_i \in 1..n /\ p_fds' = [p_fds EXCEPT ![p_i].revents = {}] /\ P!GoTo(p_i + 1)
      /\ UNCHANGED <<p_unexpected, p_buf, p_owner, p_inq, p_ended, p_texts, p_backlog, p_clients>>
  BY Tested DEF P!HandleError, P!Send, P!Done, P!user_counter, P!userVars, P!clientVars
<1>2. n \in Nat /\ p_i + 1 \in Nat /\ p_i + 1 > 0 /\ \A k \in 1..n : p_fds[k] \in ChatEntry
  BY <1>0, <1>1 DEF ChatTypeOK
<1>3. /\ p_fds' \in Seq(ChatEntry) /\ Len(p_fds') = n
      /\ \A k \in 1..n : p_fds'[k].fd = p_fds[k].fd /\ p_fds'[k].out = p_fds[k].out
      /\ \A k \in 1..n : k # p_i => p_fds'[k].revents = p_fds[k].revents
      /\ p_fds'[p_i].revents = {}
  <2>1. p_fds \in Seq(ChatEntry) /\ p_i \in 1..Len(p_fds)
    BY <1>0, <1>1 DEF ChatTypeOK
  <2> DEFINE t == [p_fds EXCEPT ![p_i].revents = {}]
  <2>2. /\ t \in Seq(ChatEntry) /\ Len(t) = Len(p_fds)
        /\ \A j \in 1..Len(p_fds) : /\ t[j].fd = p_fds[j].fd /\ t[j].out = p_fds[j].out
                                    /\ t[j].revents = IF j = p_i THEN {} ELSE p_fds[j].revents
    BY <2>1, LookedAt
  <2>3. p_fds' = t
    BY <1>1
  <2> HIDE DEF t
  <2> QED
    BY <2>1, <2>2, <2>3
<1>4. p_i' \in Int /\ p_i' # 0
  BY <1>1, <1>2, <1>3, GoesOn
<1>5. p_fds[p_i].fd \in P!Open
  BY <1>0, <1>1 DEF Entries, P!user_counter
<1>6. /\ p_error' \in [ChatFd -> BOOLEAN]
      /\ \A fd \in ChatFd : fd # p_fds[p_i].fd => p_error'[fd] = p_error[fd]
  BY <1>0, <1>5 DEF P!HandleError, P!Send, P!connfd, ChatTypeOK, P!Open
<1>7. /\ p_write_buf' \in [ChatFd -> ChatFd \cup {NULL}]
      /\ \A fd \in ChatFd : p_write_buf'[fd] \in {p_write_buf[fd], NULL}
      /\ \/ p_write_buf' = p_write_buf /\ p_astray' = p_astray
         \/ p_write_buf'[p_fds[p_i].fd] = NULL /\ p_astray' = p_astray \ {p_owner[p_fds[p_i].fd]}
  BY <1>0, <1>5 DEF P!HandleError, P!Send, P!connfd, P!userVars, ChatTypeOK, P!Open
<1>8. ChatTypeOK'
  BY <1>0, <1>1, <1>3, <1>4, <1>6, <1>7 DEF ChatTypeOK
<1>9. P!Open' = P!Open /\ P!user_counter' = n /\ P!user_counter = n
  BY <1>1, <1>3 DEF P!Open, P!user_counter
<1> HIDE DEF n
<1>10. Entries' /\ Owners'
  BY <1>0, <1>1, <1>3, <1>4, <1>9 DEF Entries, Owners
<1>11. InputThere'
  <2>1. ASSUME NEW k \in 1..n, "POLLIN" \in p_fds'[k].revents, "POLLRDHUP" \notin p_fds'[k].revents
        PROVE  p_inq[p_fds'[k].fd] > 0 \/ p_error'[p_fds'[k].fd]
    <3>1. k # p_i /\ p_fds'[k].revents = p_fds[k].revents
      BY <2>1, <1>3
    <3>2. p_fds[k].fd # p_fds[p_i].fd /\ p_fds[k].fd \in ChatFd
      BY <3>1, <1>0, <1>1, <1>9 DEF Entries, P!Open
    <3> QED
      BY <2>1, <3>1, <3>2, <1>0, <1>3, <1>6, <1>9 DEF InputThere
  <2> QED
    BY <2>1, <1>1, <1>9 DEF InputThere
<1>12. P!ShouldNotComeHere'
  BY <1>0, <1>1 DEF P!ShouldNotComeHere
<1>13. P!PointsToSpeaker'
  <2>1. ASSUME NEW k \in 1..n, p_fds'[k].out, p_write_buf'[p_fds'[k].fd] # NULL,
               p_owner[p_fds'[k].fd] \notin p_astray'
        PROVE  /\ p_write_buf'[p_fds'[k].fd] \in P!Open \ {p_fds'[k].fd}
               /\ p_buf[p_write_buf'[p_fds'[k].fd]] = p_owner[p_write_buf'[p_fds'[k].fd]]
    <3>1. p_fds'[k].fd = p_fds[k].fd /\ p_fds[k].out /\ p_fds[k].fd \in P!Open /\ p_fds[k].fd \in ChatFd
      BY <2>1, <1>0, <1>3, <1>9 DEF Entries, P!Open
    <3>2. p_write_buf'[p_fds[k].fd] = p_write_buf[p_fds[k].fd]
      BY <2>1, <3>1, <1>7
    <3>3. p_owner[p_fds[k].fd] \notin p_astray
      BY <2>1, <3>1, <1>0, <1>5, <1>7 DEF Owners
    <3> QED
      BY <2>1, <3>1, <3>2, <3>3, <1>0, <1>9 DEF P!PointsToSpeaker
  <2> QED
    BY <2>1, <1>1, <1>9 DEF P!PointsToSpeaker
<1> QED
  BY <1>8, <1>10, <1>11, <1>12, <1>13 DEF ChatInv

(* What a user said is announced to all the others. *)
LEMMA ChatReceive == ASSUME P!PollChatAssumption, ChatInv, P!Receive PROVE ChatInv'
<1>0. ChatTypeOK /\ Entries /\ Owners /\ InputThere /\ P!ShouldNotComeHere /\ P!PointsToSpeaker
  BY DEF ChatInv
<1> DEFINE n == Len(p_fds)
<1>1. PICK me \in P!Open : me = p_fds[p_i].fd /\ p_i \in 1..n
  BY <1>0, Tested DEF P!Receive, Entries, P!user_counter
<1>2. /\ p_fds' = [k \in 1..n |-> [P!Done[k] EXCEPT !.out = @ \/ P!Done[k].fd \in P!Others]]
      /\ p_buf' = [p_buf EXCEPT ![me] = p_owner[me]]
      /\ p_write_buf' = [fd \in ChatFd |-> IF fd \in P!Others THEN me ELSE p_write_buf[fd]]
      /\ p_astray' = p_astray \cap {p_owner[me]}
      /\ \E k \in 1..p_inq[me] : p_inq' = [p_inq EXCEPT ![me] = @ - k]
      /\ P!GoTo(p_i + 1)
      /\ UNCHANGED <<p_unexpected, p_owner, p_ended, p_error, p_texts, p_backlog, p_clients>>
  <2>1. P!connfd = me
    BY <1>1 DEF P!connfd
  <2> QED
    BY <2>1 DEF P!Receive, P!user_counter, P!clientVars
<1>3. /\ n \in Nat /\ (\A k \in 1..n : p_fds[k] \in ChatEntry) /\ me \in ChatFd /\ p_owner[me] \in Nat
      /\ p_i + 1 \in Nat /\ p_i + 1 > 0 /\ P!Others = P!Open \ {me}
  BY <1>0, <1>1 DEF ChatTypeOK, P!Open, P!Others, P!connfd
<1>4. /\ \A k \in 1..n : /\ p_fds'[k] \in ChatEntry
                         /\ p_fds'[k].fd = p_fds[k].fd
                         /\ p_fds'[k].revents = IF k = p_i THEN {} ELSE p_fds[k].revents
                         /\ p_fds[k].fd = me => p_fds'[k].out = p_fds[k].out
      /\ p_fds' \in Seq(ChatEntry) /\ Len(p_fds') = n
  <2>1. p_fds \in Seq(ChatEntry) /\ p_i \in 1..Len(p_fds)
    BY <1>0, <1>1 DEF ChatTypeOK
  <2>2. /\ P!Done \in Seq(ChatEntry) /\ Len(P!Done) = n
        /\ \A k \in 1..n : /\ P!Done[k].fd = p_fds[k].fd /\ P!Done[k].out = p_fds[k].out
                            /\ P!Done[k].revents = IF k = p_i THEN {} ELSE p_fds[k].revents
    BY <2>1, LookedAt DEF P!Done
  <2>3. \A k \in 1..n : /\ P!Done[k] \in ChatEntry /\ P!Done[k].fd = p_fds[k].fd
                        /\ P!Done[k].out = p_fds[k].out
                        /\ P!Done[k].revents = IF k = p_i THEN {} ELSE p_fds[k].revents
    BY <2>2
  <2> DEFINE e(k) == [P!Done[k] EXCEPT !.out = @ \/ P!Done[k].fd \in P!Others]
  <2>4. ASSUME NEW k \in 1..n
        PROVE  /\ e(k) \in ChatEntry /\ e(k).fd = P!Done[k].fd
               /\ e(k).revents = P!Done[k].revents
               /\ P!Done[k].fd \notin P!Others => e(k).out = P!Done[k].out
    <3>1. P!Done[k] \in ChatEntry
      BY <2>3
    <3> DEFINE b == P!Done[k].out \/ P!Done[k].fd \in P!Others
    <3>2. e(k) = [P!Done[k] EXCEPT !.out = b] /\ b \in BOOLEAN
      OBVIOUS
    <3>3. P!Done[k].fd \notin P!Others => b = P!Done[k].out
      BY <3>1 DEF ChatEntry
    <3> HIDE DEF b, e
    <3> QED
      BY <3>1, <3>2, <3>3 DEF ChatEntry
  <2>5. p_fds' = [k \in 1..n |-> e(k)]
    BY <1>2
  <2> HIDE DEF e
  <2>6. p_fds' \in Seq(ChatEntry) /\ Len(p_fds') = n /\ \A k \in 1..n : p_fds'[k] = e(k)
    BY <2>4, <2>5, <1>3
  <2>7. me \notin P!Others
    BY <1>3
  <2> QED
    BY <2>3, <2>4, <2>6, <2>7
<1>5. p_fds' \in Seq(ChatEntry) /\ Len(p_fds') = n
  BY <1>4
<1>6. p_i' \in Int /\ p_i' # 0
  BY <1>1, <1>2, <1>3, <1>5, GoesOn
<1>7. p_inq' \in [ChatFd -> Nat] /\ \A fd \in ChatFd : fd # me => p_inq'[fd] = p_inq[fd]
  BY <1>0, <1>2, <1>3 DEF ChatTypeOK
<1>8. /\ p_buf' \in [ChatFd -> Nat \cup {NULL}] /\ p_buf'[me] = p_owner[me]
      /\ \A fd \in ChatFd : fd # me => p_buf'[fd] = p_buf[fd]
  BY <1>0, <1>2, <1>3 DEF ChatTypeOK
<1>9. /\ p_write_buf' \in [ChatFd -> ChatFd \cup {NULL}] /\ p_write_buf'[me] = p_write_buf[me]
      /\ \A fd \in P!Open : fd # me => p_write_buf'[fd] = me
  BY <1>0, <1>2, <1>3 DEF ChatTypeOK, P!Open
<1>10. ChatTypeOK'
  BY <1>0, <1>2, <1>5, <1>6, <1>7, <1>8, <1>9 DEF ChatTypeOK
<1>11. P!Open' = P!Open /\ P!user_counter' = n /\ P!user_counter = n
  BY <1>2, <1>5 DEF P!Open, P!user_counter
<1> HIDE DEF n
<1>12. Entries' /\ Owners'
  <2>1. p_owner' = p_owner /\ p_clients' = p_clients /\ p_backlog' = p_backlog
    BY <1>2
  <2> QED
    BY <2>1, <1>0, <1>4, <1>6, <1>11 DEF Entries, Owners
<1>13. InputThere'
  <2>1. ASSUME NEW k \in 1..n, "POLLIN" \in p_fds'[k].revents, "POLLRDHUP" \notin p_fds'[k].revents
        PROVE  p_inq'[p_fds'[k].fd] > 0 \/ p_error[p_fds'[k].fd]
    <3>1. k # p_i /\ p_fds'[k].revents = p_fds[k].revents
      BY <2>1, <1>4
    <3>2. p_fds[k].fd # me /\ p_fds[k].fd \in ChatFd
      BY <3>1, <1>0, <1>1, <1>11 DEF Entries, P!Open
    <3> QED
      BY <2>1, <3>1, <3>2, <1>0, <1>4, <1>7, <1>11 DEF InputThere
  <2> QED
    BY <2>1, <1>2, <1>11 DEF InputThere
<1>14. P!ShouldNotComeHere'
  BY <1>0, <1>2 DEF P!ShouldNotComeHere
<1>15. P!PointsToSpeaker'
  <2>1. ASSUME NEW k \in 1..n, p_fds'[k].out, p_write_buf'[p_fds'[k].fd] # NULL,
               p_owner[p_fds'[k].fd] \notin p_astray'
        PROVE  /\ p_write_buf'[p_fds'[k].fd] \in P!Open \ {p_fds'[k].fd}
               /\ p_buf'[p_write_buf'[p_fds'[k].fd]] = p_owner[p_write_buf'[p_fds'[k].fd]]
    <3>1. p_fds'[k].fd = p_fds[k].fd /\ p_fds[k].fd \in P!Open
      BY <1>0, <1>4, <1>11 DEF Entries
    <3>2. CASE p_fds[k].fd = me
      <4>1. p_owner[me] \notin p_astray /\ p_fds[k].out /\ p_write_buf[me] # NULL
        <5>1. p_astray' = p_astray \cap {p_owner[me]}
          BY <1>2
        <5>2. p_owner[me] \notin p_astray
          BY <5>1, <2>1, <3>1, <3>2
        <5>3. p_fds[k].out
          BY <2>1, <3>2, <1>4
        <5> QED
          BY <5>2, <5>3, <2>1, <3>1, <3>2, <1>9
      <4>2. p_write_buf[me] \in P!Open \ {me} /\ p_buf[p_write_buf[me]] = p_owner[p_write_buf[me]]
        BY <4>1, <3>2, <1>0, <1>11 DEF P!PointsToSpeaker
      <4> QED
        BY <4>2, <3>1, <3>2, <1>8, <1>9 DEF P!Open
    <3>3. CASE p_fds[k].fd # me
      BY <3>1, <3>3, <1>1, <1>8, <1>9
    <3> QED
      BY <3>2, <3>3
  <2>2. p_owner' = p_owner
    BY <1>2
  <2> QED
    BY <2>1, <2>2, <1>11 DEF P!PointsToSpeaker
<1> QED
  BY <1>10, <1>12, <1>13, <1>14, <1>15 DEF ChatInv

(* recv never returns 0. *)
LEMMA ChatNoEnd == ASSUME ChatInv PROVE ~P!ReceiveEnd
<1> SUFFICES ASSUME P!ReceiveEnd PROVE FALSE
  OBVIOUS
<1>1. /\ p_i \in 1..P!user_counter
      /\ "POLLIN" \in p_fds[p_i].revents /\ "POLLRDHUP" \notin p_fds[p_i].revents
      /\ p_inq[p_fds[p_i].fd] = 0 /\ ~p_error[p_fds[p_i].fd]
  BY Tested DEF P!ReceiveEnd, P!connfd
<1> QED
  BY <1>1 DEF ChatInv, InputThere

(* A user goes. *)
LEMMA ChatRemove ==
  ASSUME P!PollChatAssumption, ChatInv, p_i \in 1..P!user_counter, P!RemoveUser
  PROVE  ChatInv'
<1>0. ChatTypeOK /\ Entries /\ Owners /\ InputThere /\ P!ShouldNotComeHere /\ P!PointsToSpeaker
  BY DEF ChatInv
<1> DEFINE n == Len(p_fds)
<1>1. PICK me \in P!Open : me = p_fds[p_i].fd /\ p_i \in 1..n
  BY <1>0 DEF Entries, P!user_counter
<1>2. /\ p_fds' = [P!Front(p_fds) EXCEPT ![p_i] = P!Last(p_fds)]
      /\ p_astray' = {p_owner[fd] : fd \in {f \in P!Open : p_write_buf[f] = me}} \cup p_astray
      /\ p_owner' = [p_owner EXCEPT ![me] = NULL]
      /\ p_inq' = [p_inq EXCEPT ![me] = 0]
      /\ p_ended' = [p_ended EXCEPT ![me] = "no"]
      /\ p_error' = [p_error EXCEPT ![me] = FALSE]
      /\ p_texts' = [p_texts EXCEPT ![me] = 0]
      /\ P!GoTo(p_i)
      /\ UNCHANGED <<p_unexpected, p_backlog, p_clients>>
  BY <1>1 DEF P!RemoveUser, P!Compacted, P!connfd, P!clientVars
<1>3. n \in Nat /\ n > 0 /\ (\A k \in 1..n : p_fds[k] \in ChatEntry) /\ me \in ChatFd /\ p_fds[n].fd \in ChatFd
  <2>1. n \in Nat /\ n > 0 /\ (\A k \in 1..n : p_fds[k] \in ChatEntry) /\ me \in ChatFd
    BY <1>0, <1>1 DEF ChatTypeOK, P!Open
  <2>2. p_fds[n] \in ChatEntry
    BY <2>1
  <2> QED
    BY <2>1, <2>2 DEF ChatEntry
<1>4. /\ p_fds' \in Seq(ChatEntry) /\ Len(p_fds') = n - 1
      /\ \A k \in 1..n - 1 : p_fds'[k] = IF k = p_i THEN p_fds[n] ELSE p_fds[k]
  <2>1. p_fds \in Seq(ChatEntry) /\ p_i \in 1..Len(p_fds)
    BY <1>0, <1>1 DEF ChatTypeOK
  <2> DEFINE t == [P!Front(p_fds) EXCEPT ![p_i] = P!Last(p_fds)]
  <2>2. /\ t \in Seq(ChatEntry) /\ Len(t) = Len(p_fds) - 1
        /\ \A k \in 1..Len(p_fds) - 1 : t[k] = IF k = p_i THEN p_fds[Len(p_fds)] ELSE p_fds[k]
    BY <2>1, MovedUp
  <2>3. p_fds' = t
    BY <1>2
  <2> HIDE DEF t
  <2> QED
    BY <2>2, <2>3
<1>5. p_i' \in Int /\ p_i' # 0
  BY <1>1, <1>2, <1>3, <1>4, GoesOn
<1>6. /\ p_buf' \in [ChatFd -> Nat \cup {NULL}] /\ p_write_buf' \in [ChatFd -> ChatFd \cup {NULL}]
      /\ \A fd \in ChatFd : fd # me => p_buf'[fd] = p_buf[fd] /\ p_write_buf'[fd] = p_write_buf[fd]
  <2>1. p_buf' = [p_buf EXCEPT ![me] = p_buf[p_fds[n].fd]] /\ p_write_buf' = [p_write_buf EXCEPT ![me] = p_write_buf[p_fds[n].fd]]
    BY <1>1 DEF P!RemoveUser, P!connfd, P!Last
  <2> QED
    BY <2>1, <1>0, <1>3 DEF ChatTypeOK
<1>7. ChatTypeOK'
  BY <1>0, <1>2, <1>4, <1>5, <1>6, <1>3 DEF ChatTypeOK
<1>8. P!Open' = P!Open \ {me} /\ \A fd \in ChatFd : fd # me => p_owner'[fd] = p_owner[fd]
  BY <1>0, <1>2, <1>3 DEF ChatTypeOK, P!Open
<1>9. P!user_counter = n /\ P!user_counter' = n - 1
  BY <1>4 DEF P!user_counter
<1> HIDE DEF n
<1>10. \A k \in 1..n - 1 : \E j \in 1..n : j # p_i /\ p_fds'[k] = p_fds[j]
  <2> SUFFICES ASSUME NEW k \in 1..n - 1 PROVE \E j \in 1..n : j # p_i /\ p_fds'[k] = p_fds[j]
    OBVIOUS
  <2>1. CASE k = p_i
    BY <2>1, <1>3, <1>4
  <2>2. CASE k # p_i
    BY <2>2, <1>3, <1>4
  <2> QED
    BY <2>1, <2>2
<1>11. \A j \in 1..n : j # p_i => p_fds[j].fd \in P!Open \ {me}
  BY <1>0, <1>1, <1>9 DEF Entries
<1>12. Entries'
  <2>1. \A k \in 1..n - 1 : p_fds'[k].fd \in P!Open'
    BY <1>8, <1>10, <1>11
  <2>2. ASSUME NEW fd \in P!Open' PROVE \E k \in 1..n - 1 : p_fds'[k].fd = fd
    <3>1. PICK j \in 1..n : p_fds[j].fd = fd /\ j # p_i
      BY <1>0, <1>1, <1>8, <1>9 DEF Entries
    <3>2. CASE j = n
      BY <3>1, <3>2, <1>1, <1>3, <1>4
    <3>3. CASE j # n
      BY <3>1, <3>3, <1>3, <1>4
    <3> QED
      BY <3>2, <3>3
  <2>3. \A j, k \in 1..n - 1 : p_fds'[j].fd = p_fds'[k].fd => j = k
    <3>1. \A k \in 1..n - 1 : k \in 1..n /\ k # n
      BY <1>3
    <3>2. \A j, k \in 1..n : p_fds[j].fd = p_fds[k].fd => j = k
      BY <1>0, <1>9 DEF Entries
    <3>3. n \in 1..n
      BY <1>3
    <3> QED
      BY <3>1, <3>2, <3>3, <1>4
  <2>4. n - 1 <= USER_LIMIT
    BY <1>0, <1>3, <1>9 DEF Entries, P!PollChatAssumption
  <2> QED
    BY <2>1, <2>2, <2>3, <2>4, <1>5, <1>9 DEF Entries
<1>13. Owners'
  BY <1>0, <1>2, <1>8 DEF Owners, P!Open
<1>14. InputThere'
  <2>1. ASSUME NEW j \in 1..n, j # p_i, "POLLIN" \in p_fds[j].revents, "POLLRDHUP" \notin p_fds[j].revents
        PROVE  p_inq'[p_fds[j].fd] > 0 \/ p_error'[p_fds[j].fd]
    <3>1. p_fds[j].fd \in ChatFd /\ p_fds[j].fd # me
      BY <2>1, <1>11 DEF P!Open
    <3>2. p_inq'[p_fds[j].fd] = p_inq[p_fds[j].fd] /\ p_error'[p_fds[j].fd] = p_error[p_fds[j].fd]
      BY <3>1, <1>0, <1>2 DEF ChatTypeOK
    <3> QED
      BY <2>1, <3>2, <1>0, <1>9 DEF InputThere
  <2>2. ASSUME NEW k \in 1..n - 1, "POLLIN" \in p_fds'[k].revents, "POLLRDHUP" \notin p_fds'[k].revents
        PROVE  p_inq'[p_fds'[k].fd] > 0 \/ p_error'[p_fds'[k].fd]
    BY <2>1, <2>2, <1>10
  <2> QED
    BY <2>2, <1>9 DEF InputThere
<1>15. P!ShouldNotComeHere'
  BY <1>0, <1>2 DEF P!ShouldNotComeHere
<1>16. P!PointsToSpeaker'
  <2>1. ASSUME NEW j \in 1..n, j # p_i, p_fds[j].out, p_write_buf'[p_fds[j].fd] # NULL,
               p_owner'[p_fds[j].fd] \notin p_astray'
        PROVE  /\ p_write_buf'[p_fds[j].fd] \in P!Open' \ {p_fds[j].fd}
               /\ p_buf'[p_write_buf'[p_fds[j].fd]] = p_owner'[p_write_buf'[p_fds[j].fd]]
    <3> DEFINE fd == p_fds[j].fd
               from == p_write_buf[fd]
    <3>1. fd \in P!Open /\ fd # me /\ fd \in ChatFd
      BY <2>1, <1>11 DEF P!Open
    <3>2. p_write_buf'[fd] = from /\ p_owner'[fd] = p_owner[fd]
      BY <3>1, <1>6, <1>8
    <3>3. p_owner[fd] \notin p_astray /\ from # me
      BY <2>1, <3>1, <3>2, <1>2
    <3>4. from \in P!Open \ {fd} /\ p_buf[from] = p_owner[from]
      BY <2>1, <3>2, <3>3, <1>0, <1>9 DEF P!PointsToSpeaker
    <3> HIDE DEF from
    <3>5. p_buf'[from] = p_buf[from] /\ p_owner'[from] = p_owner[from]
      BY <3>3, <3>4, <1>6, <1>8 DEF P!Open
    <3> QED
      BY <3>2, <3>3, <3>4, <3>5, <1>8
  <2>2. ASSUME NEW k \in 1..n - 1, p_fds'[k].out, p_write_buf'[p_fds'[k].fd] # NULL,
               p_owner'[p_fds'[k].fd] \notin p_astray'
        PROVE  /\ p_write_buf'[p_fds'[k].fd] \in P!Open' \ {p_fds'[k].fd}
               /\ p_buf'[p_write_buf'[p_fds'[k].fd]] = p_owner'[p_write_buf'[p_fds'[k].fd]]
    BY <2>1, <2>2, <1>10
  <2> QED
    BY <2>2, <1>9 DEF P!PointsToSpeaker
<1> QED
  BY <1>7, <1>12, <1>13, <1>14, <1>15, <1>16 DEF ChatInv

(* Every step of the chat and of its clients preserves the invariant. *)
LEMMA ChatNext == ASSUME P!PollChatAssumption, ChatInv, P!Next \/ UNCHANGED P!vars PROVE ChatInv'
<1>1. CASE P!ClientConnects \/ \E fd \in ChatFd : P!ClientSends(fd) \/ P!ClientCloses(fd)
  BY <1>1, ChatPeers
<1>2. CASE P!ServerStep
  <2>1. P!HandleLeft \/ P!ReceiveFails => p_i \in 1..P!user_counter /\ P!RemoveUser
    BY Tested DEF P!HandleLeft, P!ReceiveFails
  <2> QED
    BY <1>2, <2>1, ChatPoll, ChatAccept, ChatLooked, ChatReceive, ChatNoEnd, ChatRemove DEF P!ServerStep
<1>3. CASE UNCHANGED P!vars
  <2>1. UNCHANGED <<p_fds, p_i, p_unexpected, p_buf, p_write_buf, p_astray, p_owner, p_inq, p_ended, p_error, p_texts,
                    p_backlog, p_clients>>
    BY <1>3 DEF P!vars, P!loopVars, P!userVars, P!socketVars, P!clientVars
  <2>2. P!Open' = P!Open /\ P!user_counter' = P!user_counter
    BY <2>1 DEF P!Open, P!user_counter
  <2> QED
    BY <2>1, <2>2 DEF ChatInv, ChatTypeOK, Entries, Owners, InputThere, P!ShouldNotComeHere, P!PointsToSpeaker
<1> QED
  BY <1>1, <1>2, <1>3 DEF P!Next

(* The array has as many entries as there are connections. *)
LEMMA ChatTables == ASSUME P!PollChatAssumption, ChatInv PROVE P!TablesAgree
<1>0. Entries /\ ChatTypeOK
  BY DEF ChatInv
<1> DEFINE n == Len(p_fds)
           places == 1..n
           f == [k \in places |-> p_fds[k].fd]
<1>1. n \in Nat /\ P!user_counter = n
  BY <1>0 DEF ChatTypeOK, P!user_counter
<1>2. f \in [places -> P!Open] /\ \A j, k \in places : f[j] = f[k] => j = k
  BY <1>0, <1>1 DEF Entries
<1>3. \A fd \in P!Open : \E k \in places : f[k] = fd
  BY <1>0, <1>1 DEF Entries
<1>4. IsFiniteSet(P!Open)
  BY FS_Subset, SameCount DEF P!Open, P!PollChatAssumption
<1>5. Cardinality(places) = n
  <2>1. 1 \in Int /\ n \in Int
    BY <1>1
  <2>2. Cardinality(1..n) = IF 1 > n THEN 0 ELSE n - 1 + 1
    <3> HIDE DEF n
    <3> QED
      BY <2>1, FS_Interval
  <2> QED
    BY <1>1, <2>2
<1>6. Cardinality(places) = Cardinality(P!Open)
  <2> HIDE DEF places, f
  <2>1. f \in Injection(places, P!Open)
    BY <1>2, Fun_IsInj
  <2>2. f \in Surjection(places, P!Open)
    BY <1>2, <1>3 DEF Surjection
  <2> QED
    BY <2>1, <2>2, <1>4, FS_Injection
<1>7. {p_fds[k].fd : k \in 1..P!user_counter} = P!Open
  BY <1>0 DEF Entries
<1> QED
  BY <1>0, <1>1, <1>5, <1>6, <1>7, SameCount DEF P!TablesAgree, Entries
-----------------------------------------------------------------------------
(* 09_epoll.cpp, 9-3mtlt.cpp, 9-4oneshot.cpp.                              *)

EpollEvent == Fd \cup {Listener}

EpollTypeOK ==
  /\ e_program \in {"epoll", "lt", "et", "oneshot"}
  /\ e_batch \subseteq EpollEvent /\ e_ready \subseteq EpollEvent /\ e_armed \subseteq EpollEvent
  /\ e_open \subseteq Fd
  /\ e_data \in [Fd -> Nat] /\ e_ended \in [Fd -> BOOLEAN]
  /\ e_backlog \in Nat
  /\ e_slot \in Fd \cup {NULL}
  /\ e_thread \in [Workers -> {"none", "starts", "reads", "rearms"}]
  /\ e_sockfd \in [Workers -> Fd \cup {NULL}]
  /\ e_misread \in BOOLEAN /\ e_merged \in BOOLEAN

(* epoll only lists what it watches, and watches only what is open; closed  *)
(* descriptors have nothing to be read.                                     *)
EpollRegistered ==
  /\ Listener \in e_armed
  /\ e_ready \subseteq e_armed /\ e_armed \subseteq e_open \cup {Listener}
  /\ \A fd \in Fd \ e_open : e_data[fd] = 0 /\ e_ended[fd] = FALSE

(* There are threads only where there is EPOLLONESHOT, and a socket whose   *)
(* event has been reported is disarmed; elsewhere all are always armed.     *)
EpollThreads ==
  /\ \A w \in Workers : e_thread[w] = "none" => e_sockfd[w] = NULL
  /\ e_program # "oneshot" => e_open \subseteq e_armed /\ \A w \in Workers : e_thread[w] = "none"
  /\ e_program = "oneshot" /\ ~e_misread => e_batch \ {Listener} \subseteq e_open \ e_armed

(* What is level-triggered stays on the list as long as it can be read.     *)
ListedWhileReadable ==
  \A e \in e_open \cup {Listener} : E!LevelTriggered(e) /\ E!Readable(e) => e \in e_ready

(* Who is to notice what comes next at a socket. *)
Attended ==
  \A fd \in e_open : fd \in e_armed \cup e_batch \cup {e_sockfd[w] : w \in Workers} \/ e_misread

(* An edge-triggered listening socket has one event for each client, one of *)
(* them in epoll's list and one with the loop.                              *)
OneEdgePerClient ==
  ~e_merged /\ ~E!LevelTriggered(Listener) =>
    /\ e_backlog > 0 => Listener \in e_ready \cup e_batch
    /\ e_backlog > 1 => Listener \in e_ready \cap e_batch
    /\ e_backlog <= 2

EpollInv ==
  /\ EpollTypeOK /\ EpollRegistered /\ EpollThreads /\ E!OneReader
  /\ ListedWhileReadable /\ Attended /\ OneEdgePerClient /\ E!NothingForgotten

(* An epoll server begins with its listening socket armed.                  *)
LEMMA EpollInvInit == ASSUME E!EpollServersAssumption, E!Init PROVE EpollInv
<1> USE DEF E!EpollServersAssumption, E!Init
<1>1. EpollTypeOK
  BY DEF EpollTypeOK, EpollEvent
<1>2. EpollRegistered /\ EpollThreads /\ E!OneReader
  BY DEF EpollRegistered, EpollThreads, E!OneReader
<1>3. ListedWhileReadable /\ Attended /\ OneEdgePerClient /\ E!NothingForgotten
  BY DEF ListedWhileReadable, E!Readable, Attended, OneEdgePerClient, E!NothingForgotten
<1> QED
  BY <1>1, <1>2, <1>3 DEF EpollInv

(* What the clients do. *)
LEMMA EpollInvClients ==
  ASSUME E!EpollServersAssumption, EpollInv,
         E!ClientConnects \/ \E fd \in Fd : E!ClientSends(fd) \/ E!ClientCloses(fd)
  PROVE  EpollInv'
<1> USE DEF E!EpollServersAssumption, EpollInv, E!threadVars
<1>1. CASE E!ClientConnects
  <2> USE <1>1 DEF E!ClientConnects, E!Notify
  <2>1. EpollTypeOK' /\ EpollRegistered' /\ EpollThreads' /\ E!OneReader'
    BY DEF EpollTypeOK, EpollEvent, EpollRegistered, EpollThreads, E!OneReader
  <2>2. ListedWhileReadable'
    BY DEF EpollTypeOK, EpollEvent, EpollRegistered, ListedWhileReadable, E!LevelTriggered, E!Readable
  <2>3. Attended'
    BY DEF Attended
  <2>4. OneEdgePerClient'
    <3> SUFFICES ASSUME ~e_merged', ~E!LevelTriggered(Listener)'
                 PROVE  /\ Listener \in e_ready'
                        /\ e_backlog + 1 > 1 => Listener \in e_batch
                        /\ e_backlog + 1 <= 2
      BY DEF OneEdgePerClient
    <3>1. ~e_merged /\ ~E!LevelTriggered(Listener) /\ Listener \notin e_ready
      BY DEF E!LevelTriggered
    <3>2. Listener \in e_ready'
      BY DEF EpollRegistered
    <3> QED
      BY <3>1, <3>2 DEF EpollTypeOK, OneEdgePerClient
  <2>5. E!NothingForgotten'
    BY DEF EpollTypeOK, EpollEvent, EpollRegistered, E!NothingForgotten, E!Announced, E!Readable
  <2> QED
    BY <2>1, <2>2, <2>3, <2>4, <2>5
<1>2. ASSUME NEW fd \in Fd, E!ClientSends(fd) \/ E!ClientCloses(fd) PROVE EpollInv'
  <2>1. /\ fd \in e_open /\ e_ready' = e_ready \cup ({fd} \cap e_armed)
        /\ UNCHANGED <<e_program, e_batch, e_armed, e_open, e_backlog, E!threadVars, e_merged>>
    BY <1>2 DEF E!ClientSends, E!ClientCloses, E!Notify
  <2>2. /\ e_data' \in [Fd -> Nat] /\ e_ended' \in [Fd -> BOOLEAN]
        /\ \A f \in Fd \ {fd} : e_data'[f] = e_data[f] /\ e_ended'[f] = e_ended[f]
    <3>1. CASE E!ClientSends(fd)
      BY <3>1 DEF E!ClientSends, EpollTypeOK
    <3>2. CASE E!ClientCloses(fd)
      BY <3>2 DEF E!ClientCloses, EpollTypeOK
    <3> QED
      BY <1>2, <3>1, <3>2
  <2>3. EpollTypeOK' /\ EpollRegistered' /\ EpollThreads' /\ E!OneReader'
    BY <2>1, <2>2 DEF EpollTypeOK, EpollEvent, EpollRegistered, EpollThreads, E!OneReader
  <2>4. \A e \in e_open \cup {Listener} : e # fd => (E!Readable(e)' <=> E!Readable(e))
    BY <2>1, <2>2 DEF E!Readable, EpollTypeOK
  <2>5. ListedWhileReadable'
    <3>1. ASSUME NEW e \in e_open \cup {Listener}, E!LevelTriggered(e)', E!Readable(e)'
          PROVE  e \in e_ready'
      <4>1. E!LevelTriggered(e)
        BY <2>1, <3>1 DEF E!LevelTriggered
      <4>2. CASE e = fd
        BY <2>1, <4>1, <4>2 DEF EpollThreads, E!LevelTriggered
      <4>3. CASE e # fd
        BY <2>1, <2>4, <3>1, <4>1, <4>3 DEF ListedWhileReadable
      <4> QED
        BY <4>2, <4>3
    <3> QED
      BY <2>1, <3>1 DEF ListedWhileReadable
  <2>6. Attended'
    BY <2>1 DEF Attended
  <2>7. OneEdgePerClient'
    BY <2>1 DEF EpollTypeOK, OneEdgePerClient, E!LevelTriggered
  <2>8. E!NothingForgotten'
    BY <2>1, <2>4 DEF EpollTypeOK, Attended, E!NothingForgotten, E!Announced
  <2> QED
    BY <2>3, <2>5, <2>6, <2>7, <2>8
<1> QED
  BY <1>1, <1>2

(* What the loop does. *)
LEMMA EpollInvLoop ==
  ASSUME E!EpollServersAssumption, EpollInv, E!LoopStep
  PROVE  EpollInv'
<1> USE DEF E!EpollServersAssumption, EpollInv, E!threadVars, E!kernelVars
<1>1. CASE E!EpollWait
  <2> USE <1>1 DEF E!EpollWait, E!Disarmed
  <2>1. EpollTypeOK'
    BY DEF EpollTypeOK, EpollEvent
  <2>2. EpollRegistered'
    BY DEF EpollTypeOK, EpollRegistered, EpollEvent, E!LevelTriggered
  <2>3. EpollThreads'
    BY DEF EpollTypeOK, EpollRegistered, EpollThreads, E!LevelTriggered, E!OneReader
  <2>4. E!OneReader'
    BY DEF EpollTypeOK, EpollRegistered, EpollThreads, E!LevelTriggered, E!OneReader
  <2>5. ListedWhileReadable'
    BY DEF EpollTypeOK, EpollRegistered, EpollThreads, ListedWhileReadable, E!LevelTriggered, E!Readable
  <2>6. Attended'
    BY DEF EpollTypeOK, EpollRegistered, EpollThreads, Attended, E!LevelTriggered
  <2>7. OneEdgePerClient'
    <3>1. E!LevelTriggered(Listener)' <=> E!LevelTriggered(Listener)
      BY DEF E!LevelTriggered
    <3>2. e_backlog' = e_backlog /\ e_backlog \in Nat /\ e_merged' = e_merged /\ Listener \notin e_batch
      BY DEF EpollTypeOK
    <3>3. e_backlog > 0 /\ Listener \in e_ready => Listener \in e_batch'
      BY DEF E!Readable
    <3> QED
      BY <3>1, <3>2, <3>3 DEF OneEdgePerClient
  <2>8. E!NothingForgotten'
    BY DEF EpollTypeOK, EpollRegistered, EpollThreads, ListedWhileReadable, OneEdgePerClient, Attended,
           E!NothingForgotten, E!Announced, E!LevelTriggered, E!Readable
  <2> QED
    BY <2>1, <2>2, <2>3, <2>4, <2>5, <2>6, <2>7, <2>8 DEF EpollInv
<1>2. CASE E!Accept
  <2> USE <1>2 DEF E!Accept, E!Handling
  <2>1. EpollTypeOK'
    BY DEF EpollTypeOK, EpollEvent
  <2>2. EpollRegistered'
    BY DEF EpollTypeOK, EpollRegistered, EpollEvent, EpollThreads
  <2>3. EpollThreads'
    BY DEF EpollTypeOK, EpollRegistered, EpollThreads, E!LevelTriggered, E!OneReader
  <2>4. E!OneReader'
    BY DEF EpollTypeOK, EpollRegistered, EpollThreads, E!LevelTriggered, E!OneReader
  <2>5. ListedWhileReadable'
    BY DEF EpollTypeOK, EpollRegistered, EpollThreads, ListedWhileReadable, E!LevelTriggered, E!Readable
  <2>6. Attended'
    BY DEF EpollTypeOK, EpollRegistered, EpollThreads, Attended, E!LevelTriggered
  <2>7. OneEdgePerClient'
    BY DEF EpollTypeOK, EpollRegistered, OneEdgePerClient, E!LevelTriggered
  <2>8. E!NothingForgotten'
    BY DEF EpollTypeOK, EpollRegistered, EpollThreads, ListedWhileReadable, OneEdgePerClient, Attended,
           E!NothingForgotten, E!Announced, E!LevelTriggered, E!Readable
  <2> QED
    BY <2>1, <2>2, <2>3, <2>4, <2>5, <2>6, <2>7, <2>8 DEF EpollInv
<1>3. ASSUME NEW fd \in Fd, E!Receive(fd) PROVE EpollInv'
  <2> USE <1>3 DEF E!Receive, E!Handling
  <2>1. EpollTypeOK'
    BY DEF EpollTypeOK, EpollEvent
  <2>2. EpollRegistered'
    BY DEF EpollTypeOK, EpollRegistered, EpollEvent, EpollThreads
  <2>3. EpollThreads'
    BY DEF EpollTypeOK, EpollRegistered, EpollThreads, E!LevelTriggered, E!OneReader
  <2>4. E!OneReader'
    BY DEF EpollTypeOK, EpollRegistered, EpollThreads, E!LevelTriggered, E!OneReader
  <2>5. ListedWhileReadable'
    BY DEF EpollTypeOK, EpollRegistered, EpollThreads, ListedWhileReadable, E!LevelTriggered, E!Readable
  <2>6. Attended'
    BY DEF EpollTypeOK, EpollRegistered, EpollThreads, Attended, E!LevelTriggered
  <2>7. OneEdgePerClient'
    BY DEF EpollTypeOK, EpollRegistered, OneEdgePerClient, E!LevelTriggered
  <2>8. E!NothingForgotten'
    BY DEF EpollTypeOK, EpollRegistered, EpollThreads, ListedWhileReadable, OneEdgePerClient, Attended,
           E!NothingForgotten, E!Announced, E!LevelTriggered, E!Readable
  <2> QED
    BY <2>1, <2>2, <2>3, <2>4, <2>5, <2>6, <2>7, <2>8 DEF EpollInv
<1>4. ASSUME NEW fd \in Fd, E!ReceiveEnd(fd) PROVE EpollInv'
  <2> USE <1>4 DEF E!ReceiveEnd, E!Handling, E!Close
  <2>1. EpollTypeOK'
    BY DEF EpollTypeOK, EpollEvent
  <2>2. EpollRegistered'
    BY DEF EpollTypeOK, EpollRegistered, EpollEvent, EpollThreads
  <2>3. EpollThreads'
    BY DEF EpollTypeOK, EpollRegistered, EpollThreads, E!LevelTriggered, E!OneReader
  <2>4. E!OneReader'
    BY DEF EpollTypeOK, EpollRegistered, EpollThreads, E!LevelTriggered, E!OneReader
  <2>5. ListedWhileReadable'
    BY DEF EpollTypeOK, EpollRegistered, EpollThreads, ListedWhileReadable, E!LevelTriggered, E!Readable
  <2>6. Attended'
    BY DEF EpollTypeOK, EpollRegistered, EpollThreads, Attended, E!LevelTriggered
  <2>7. OneEdgePerClient'
    BY DEF EpollTypeOK, EpollRegistered, OneEdgePerClient, E!LevelTriggered
  <2>8. E!NothingForgotten'
    BY DEF EpollTypeOK, EpollRegistered, EpollThreads, ListedWhileReadable, OneEdgePerClient, Attended,
           E!NothingForgotten, E!Announced, E!LevelTriggered, E!Readable
  <2> QED
    BY <2>1, <2>2, <2>3, <2>4, <2>5, <2>6, <2>7, <2>8 DEF EpollInv
<1>5. ASSUME NEW fd \in Fd, E!ReceiveAll(fd) PROVE EpollInv'
  <2> USE <1>5 DEF E!ReceiveAll, E!Handling, E!Close
  <2>1. EpollTypeOK'
    <3>1. e_data' \in [Fd -> Nat] /\ e_ended' \in [Fd -> BOOLEAN]
      <4>1. CASE e_ended[fd]
        <5>1. E!Close(fd)
          BY <4>1
        <5> QED
          BY <5>1 DEF EpollTypeOK
      <4>2. CASE ~e_ended[fd]
        BY <4>2 DEF EpollTypeOK
      <4> QED
        BY <4>1, <4>2
    <3>2. /\ e_open' \subseteq e_open /\ e_armed' \subseteq e_armed /\ e_ready' \subseteq e_ready
          /\ e_batch' \subseteq e_batch
      BY DEF EpollTypeOK
    <3> QED
      BY <3>1, <3>2 DEF EpollTypeOK
  <2>2. EpollRegistered'
    BY DEF EpollTypeOK, EpollRegistered, EpollEvent, EpollThreads
  <2>3. EpollThreads'
    BY DEF EpollTypeOK, EpollRegistered, EpollThreads, E!LevelTriggered, E!OneReader
  <2>4. E!OneReader'
    BY DEF EpollTypeOK, EpollRegistered, EpollThreads, E!LevelTriggered, E!OneReader
  <2>5. ListedWhileReadable'
    BY DEF EpollTypeOK, EpollRegistered, EpollThreads, ListedWhileReadable, E!LevelTriggered, E!Readable
  <2>6. Attended'
    BY DEF EpollTypeOK, EpollRegistered, EpollThreads, Attended, E!LevelTriggered
  <2>7. OneEdgePerClient'
    BY DEF EpollTypeOK, EpollRegistered, OneEdgePerClient, E!LevelTriggered
  <2>8. E!NothingForgotten'
    BY DEF EpollTypeOK, EpollRegistered, EpollThreads, ListedWhileReadable, OneEdgePerClient, Attended,
           E!NothingForgotten, E!Announced, E!LevelTriggered, E!Readable
  <2> QED
    BY <2>1, <2>2, <2>3, <2>4, <2>5, <2>6, <2>7, <2>8 DEF EpollInv
<1>6. ASSUME NEW fd \in Fd, NEW w \in Workers, E!StartWorker(fd, w) PROVE EpollInv'
  <2> USE <1>6 DEF E!StartWorker, E!Handling
  <2>1. EpollTypeOK'
    BY DEF EpollTypeOK, EpollEvent
  <2>2. EpollRegistered'
    BY DEF EpollTypeOK, EpollRegistered, EpollEvent, EpollThreads
  <2>3. EpollThreads'
    BY DEF EpollTypeOK, EpollRegistered, EpollThreads, E!LevelTriggered, E!OneReader
  <2>4. E!OneReader'
    BY DEF EpollTypeOK, EpollRegistered, EpollThreads, E!LevelTriggered, E!OneReader
  <2>5. ListedWhileReadable'
    BY DEF EpollTypeOK, EpollRegistered, EpollThreads, ListedWhileReadable, E!LevelTriggered, E!Readable
  <2>6. Attended'
    BY DEF EpollTypeOK, EpollRegistered, EpollThreads, Attended, E!LevelTriggered
  <2>7. OneEdgePerClient'
    BY DEF EpollTypeOK, EpollRegistered, OneEdgePerClient, E!LevelTriggered
  <2>8. E!NothingForgotten'
    BY DEF EpollTypeOK, EpollRegistered, EpollThreads, ListedWhileReadable, OneEdgePerClient, Attended,
           E!NothingForgotten, E!Announced, E!LevelTriggered, E!Readable
  <2> QED
    BY <2>1, <2>2, <2>3, <2>4, <2>5, <2>6, <2>7, <2>8 DEF EpollInv
<1> QED
  BY <1>1, <1>2, <1>3, <1>4, <1>5, <1>6 DEF E!LoopStep

(* What the threads do. *)
LEMMA EpollInvWorker ==
  ASSUME E!EpollServersAssumption, EpollInv, NEW w \in Workers, E!WorkerStep(w)
  PROVE  EpollInv'
<1> USE DEF E!EpollServersAssumption, EpollInv, E!threadVars, E!kernelVars, E!epollVars
<1>1. CASE E!WorkerStarts(w)
  <2> USE <1>1 DEF E!WorkerStarts
  <2>1. e_slot = e_sockfd[w] => e_sockfd' = e_sockfd /\ e_misread' = e_misread
    BY DEF EpollTypeOK
  <2>2. e_slot # e_sockfd[w] => e_misread'
    OBVIOUS
  <2>3. EpollTypeOK'
    BY DEF EpollTypeOK, EpollEvent
  <2>4. EpollRegistered'
    BY DEF EpollTypeOK, EpollRegistered, EpollEvent, EpollThreads
  <2>5. EpollThreads'
    BY DEF EpollTypeOK, EpollRegistered, EpollThreads, E!LevelTriggered, E!OneReader
  <2>6. E!OneReader'
    BY <2>1, <2>2 DEF EpollTypeOK, E!OneReader
  <2>7. ListedWhileReadable'
    BY DEF EpollTypeOK, EpollRegistered, EpollThreads, ListedWhileReadable, E!LevelTriggered, E!Readable
  <2>8. Attended'
    BY <2>1, <2>2 DEF Attended
  <2>9. OneEdgePerClient'
    BY DEF EpollTypeOK, EpollRegistered, OneEdgePerClient, E!LevelTriggered
  <2>10. E!NothingForgotten'
    BY <2>1, <2>2 DEF E!NothingForgotten, E!Announced, E!Readable, EpollTypeOK
  <2> QED
    BY <2>3, <2>4, <2>5, <2>6, <2>7, <2>8, <2>9, <2>10 DEF EpollInv
<1>2. CASE E!WorkerReceives(w)
  <2> USE <1>2 DEF E!WorkerReceives
  <2>1. EpollTypeOK'
    BY DEF EpollTypeOK, EpollEvent
  <2>2. EpollRegistered'
    BY DEF EpollTypeOK, EpollRegistered, EpollEvent, EpollThreads
  <2>3. EpollThreads'
    BY DEF EpollTypeOK, EpollRegistered, EpollThreads, E!LevelTriggered, E!OneReader
  <2>4. E!OneReader'
    BY DEF EpollTypeOK, EpollRegistered, EpollThreads, E!LevelTriggered, E!OneReader
  <2>5. ListedWhileReadable'
    BY DEF EpollTypeOK, EpollRegistered, EpollThreads, ListedWhileReadable, E!LevelTriggered, E!Readable
  <2>6. Attended'
    BY DEF EpollTypeOK, EpollRegistered, EpollThreads, Attended, E!LevelTriggered
  <2>7. OneEdgePerClient'
    BY DEF EpollTypeOK, EpollRegistered, OneEdgePerClient, E!LevelTriggered
  <2>8. E!NothingForgotten'
    BY DEF EpollTypeOK, EpollRegistered, EpollThreads, ListedWhileReadable, OneEdgePerClient, Attended,
           E!NothingForgotten, E!Announced, E!LevelTriggered, E!Readable
  <2> QED
    BY <2>1, <2>2, <2>3, <2>4, <2>5, <2>6, <2>7, <2>8 DEF EpollInv
<1>3. CASE E!WorkerFindsNothing(w)
  <2> USE <1>3 DEF E!WorkerFindsNothing
  <2>1. EpollTypeOK'
    BY DEF EpollTypeOK, EpollEvent
  <2>2. EpollRegistered'
    BY DEF EpollTypeOK, EpollRegistered, EpollEvent, EpollThreads
  <2>3. EpollThreads'
    BY DEF EpollTypeOK, EpollRegistered, EpollThreads, E!LevelTriggered, E!OneReader
  <2>4. E!OneReader'
    BY DEF EpollTypeOK, EpollRegistered, EpollThreads, E!LevelTriggered, E!OneReader
  <2>5. ListedWhileReadable'
    BY DEF EpollTypeOK, EpollRegistered, EpollThreads, ListedWhileReadable, E!LevelTriggered, E!Readable
  <2>6. Attended'
    BY DEF EpollTypeOK, EpollRegistered, EpollThreads, Attended, E!LevelTriggered
  <2>7. OneEdgePerClient'
    BY DEF EpollTypeOK, EpollRegistered, OneEdgePerClient, E!LevelTriggered
  <2>8. E!NothingForgotten'
    BY DEF EpollTypeOK, EpollRegistered, EpollThreads, ListedWhileReadable, OneEdgePerClient, Attended,
           E!NothingForgotten, E!Announced, E!LevelTriggered, E!Readable
  <2> QED
    BY <2>1, <2>2, <2>3, <2>4, <2>5, <2>6, <2>7, <2>8 DEF EpollInv
<1>4. CASE E!WorkerRearms(w)
  <2> USE <1>4 DEF E!WorkerRearms, E!Ends
  <2>1. EpollTypeOK'
    BY DEF EpollTypeOK, EpollEvent
  <2>2. EpollRegistered'
    BY DEF EpollTypeOK, EpollRegistered, EpollEvent, EpollThreads
  <2>3. EpollThreads'
    BY DEF EpollTypeOK, EpollRegistered, EpollThreads, E!LevelTriggered, E!OneReader
  <2>4. E!OneReader'
    BY DEF EpollTypeOK, EpollRegistered, EpollThreads, E!LevelTriggered, E!OneReader
  <2>5. ListedWhileReadable'
    BY DEF EpollTypeOK, EpollRegistered, EpollThreads, ListedWhileReadable, E!LevelTriggered, E!Readable
  <2>6. Attended'
    BY DEF EpollTypeOK, EpollRegistered, EpollThreads, Attended, E!LevelTriggered
  <2>7. OneEdgePerClient'
    BY DEF EpollTypeOK, EpollRegistered, OneEdgePerClient, E!LevelTriggered
  <2>8. E!NothingForgotten'
    BY DEF EpollTypeOK, EpollRegistered, EpollThreads, ListedWhileReadable, OneEdgePerClient, Attended,
           E!NothingForgotten, E!Announced, E!LevelTriggered, E!Readable
  <2> QED
    BY <2>1, <2>2, <2>3, <2>4, <2>5, <2>6, <2>7, <2>8 DEF EpollInv
<1>5. CASE E!WorkerCloses(w)
  <2> USE <1>5 DEF E!WorkerCloses, E!Ends, E!Close
  <2>1. EpollTypeOK'
    BY DEF EpollTypeOK, EpollEvent
  <2>2. EpollRegistered'
    BY DEF EpollTypeOK, EpollRegistered, EpollEvent, EpollThreads
  <2>3. EpollThreads'
    BY DEF EpollTypeOK, EpollRegistered, EpollThreads, E!LevelTriggered, E!OneReader
  <2>4. E!OneReader'
    BY DEF EpollTypeOK, EpollRegistered, EpollThreads, E!LevelTriggered, E!OneReader
  <2>5. ListedWhileReadable'
    BY DEF EpollTypeOK, EpollRegistered, EpollThreads, ListedWhileReadable, E!LevelTriggered, E!Readable
  <2>6. Attended'
    BY DEF EpollTypeOK, EpollRegistered, EpollThreads, Attended, E!LevelTriggered
  <2>7. OneEdgePerClient'
    BY DEF EpollTypeOK, EpollRegistered, OneEdgePerClient, E!LevelTriggered
  <2>8. E!NothingForgotten'
    BY DEF EpollTypeOK, EpollRegistered, EpollThreads, ListedWhileReadable, OneEdgePerClient, Attended,
           E!NothingForgotten, E!Announced, E!LevelTriggered, E!Readable
  <2> QED
    BY <2>1, <2>2, <2>3, <2>4, <2>5, <2>6, <2>7, <2>8 DEF EpollInv
<1> QED
  BY <1>1, <1>2, <1>3, <1>4, <1>5 DEF E!WorkerStep

(* Every step of an epoll server and of its clients.                        *)
LEMMA EpollNext == ASSUME E!EpollServersAssumption, EpollInv, E!Next \/ UNCHANGED E!vars PROVE EpollInv'
<1>1. CASE E!Next
  BY <1>1, EpollInvClients, EpollInvLoop, EpollInvWorker DEF E!Next
<1>2. CASE UNCHANGED E!vars
  BY <1>2 DEF E!vars, E!epollVars, E!kernelVars, E!threadVars, EpollInv, EpollTypeOK, EpollRegistered,
              EpollThreads, E!OneReader, ListedWhileReadable, E!LevelTriggered, E!Readable, Attended,
              OneEdgePerClient, E!NothingForgotten, E!Announced
<1> QED
  BY <1>1, <1>2
-----------------------------------------------------------------------------
(* 11-3nonactive_conn.cpp.                                                  *)

Source == Fd \cup {Listener, Pipe}

IdleTypeOK ==
  /\ d_left \in [Timers -> Int]
  /\ d_timer \in [Fd -> Timers \cup {NULL}]
  /\ d_user_data \in [Timers -> Fd \cup {NULL}]
  /\ d_running \in BOOLEAN
  /\ d_batch \subseteq Source
  /\ d_edge \subseteq Source
  /\ d_open \subseteq Fd
  /\ d_backlog \in Nat

(* Accepting is announced at most as often as there are clients that wait,  *)
(* and for those there are descriptors.                                     *)
Room ==
  /\ Listener \in d_edge => d_backlog > 0
  /\ Listener \in d_batch => d_backlog > 0
  /\ Listener \in d_edge /\ Listener \in d_batch => d_backlog > 1
  /\ d_backlog + Cardinality(d_open) <= Cardinality(Fd)

(* What epoll lists or has listed is open. *)
ListedOpen ==
  /\ d_edge \ {Listener, Pipe} \subseteq d_open
  /\ d_batch \ {Listener, Pipe} \subseteq d_open

(* Each session has a timer and each timer that runs has a session. *)
Partners ==
  /\ \A fd \in d_open : d_timer[fd] \in D!List!Pending /\ d_user_data[d_timer[fd]] = fd
  /\ \A t \in D!List!Pending : d_user_data[t] \in d_open /\ d_timer[d_user_data[t]] = t

(* After main has left its loop there is nothing to be handled. *)
IdleInv ==
  /\ IdleTypeOK
  /\ d_running => Room /\ ListedOpen /\ Partners
  /\ ~d_running => d_batch = {} /\ d_open = {}

(* The server begins without sessions and timers.                           *)
LEMMA IdleInit == ASSUME D!IdleServerAssumption, D!Init PROVE IdleInv
<1> USE DEF D!IdleServerAssumption
<1>1. IdleTypeOK
  BY DEF D!Init, IdleTypeOK, D!List!Init, D!List!Unset, Source
<1>2. D!List!Pending = {}
  BY DEF D!Init, D!List!Init, D!List!Pending
<1>3. Room
  <2>1. Cardinality(d_open) = 0 /\ Cardinality(Fd) \in Nat
    BY FS_EmptySet, FS_CardinalityType, SameCount DEF D!Init, D!IdleServerAssumption
  <2> QED
    BY <2>1 DEF D!Init, Room
<1>4. ListedOpen /\ Partners
  BY <1>2 DEF D!Init, ListedOpen, Partners
<1> QED
  BY <1>1, <1>3, <1>4 DEF IdleInv, D!Init

(* Clients connect, send and close; somebody terminates the server. *)
LEMMA IdleClients ==
  ASSUME D!IdleServerAssumption, IdleInv,
         D!ClientConnects \/ (\E fd \in Fd : D!Client(fd)) \/ D!Terminate
  PROVE  IdleInv'
<1>0. IdleTypeOK /\ (d_running => Room /\ ListedOpen /\ Partners) /\ (~d_running => d_batch = {} /\ d_open = {})
  BY DEF IdleInv
<1>1. UNCHANGED <<d_left, d_timer, d_user_data, d_running, d_batch, d_open>>
  BY DEF D!ClientConnects, D!Client, D!ClientSends, D!ClientCloses, D!Terminate, D!timerVars, D!loopVars
<1>2. /\ d_running
      /\ \/ /\ d_edge' = d_edge \cup {Listener} /\ d_backlog' = d_backlog + 1
            /\ d_backlog + Cardinality(d_open) < Cardinality(Fd)
         \/ (\E fd \in d_open : d_edge' = d_edge \cup {fd}) /\ d_backlog' = d_backlog
         \/ d_edge' = d_edge \cup {Pipe} /\ d_backlog' = d_backlog
  BY <1>0, SameCount DEF D!ClientConnects, D!Client, D!ClientSends, D!ClientCloses, D!Terminate, D!Raise, D!clientVars
<1>3. IdleTypeOK'
  BY <1>0, <1>1, <1>2 DEF IdleTypeOK, Source
<1>4. Room'
  <2>1. Cardinality(d_open) \in Nat /\ Cardinality(Fd) \in Nat /\ d_backlog \in Nat
    BY <1>0, FS_Subset, FS_CardinalityType, SameCount DEF D!IdleServerAssumption, IdleTypeOK
  <2>2. Listener \notin d_open /\ Listener # Pipe
    BY <1>0 DEF D!IdleServerAssumption, IdleTypeOK
  <2> QED
    BY <2>1, <2>2, <1>0, <1>1, <1>2 DEF Room
<1>5. ListedOpen'
  BY <1>0, <1>1, <1>2 DEF ListedOpen
<1>6. Partners'
  BY <1>0, <1>1, <1>2 DEF Partners, D!List!Pending
<1> QED
  BY <1>1, <1>2, <1>3, <1>4, <1>5, <1>6 DEF IdleInv

(* Time passes, but a timer stays a timer. *)
LEMMA IdleElapse == ASSUME D!IdleServerAssumption, IdleInv, D!Elapse PROVE IdleInv'
<1>0. IdleTypeOK /\ (d_running => Room /\ ListedOpen /\ Partners) /\ d_running
  BY DEF IdleInv, D!Elapse
<1>1. /\ UNCHANGED <<d_timer, d_user_data, d_running, d_batch, d_open, d_backlog>>
      /\ d_edge' = d_edge \cup {Pipe} \/ d_edge' = d_edge
      /\ d_left' = [t \in Timers |-> IF d_left[t] > 0 THEN d_left[t] - 1 ELSE d_left[t]]
  BY DEF D!Elapse, D!List!Elapse, D!Raise, D!loopVars, D!clientVars
<1>2. d_left' \in [Timers -> Int] /\ \A t \in Timers : d_left'[t] = -1 <=> d_left[t] = -1
  BY <1>0, <1>1 DEF IdleTypeOK
<1>3. D!List!Pending' = D!List!Pending
  BY <1>2 DEF D!List!Pending, D!List!Unset
<1>4. IdleTypeOK'
  BY <1>0, <1>1, <1>2 DEF IdleTypeOK, Source
<1>5. Room' /\ ListedOpen'
  BY <1>0, <1>1 DEF Room, ListedOpen, D!IdleServerAssumption
<1>6. Partners'
  BY <1>0, <1>1, <1>3 DEF Partners
<1> QED
  BY <1>0, <1>1, <1>4, <1>5, <1>6 DEF IdleInv

(* The events are fetched; those of the pipe, and those that announced what *)
(* is no longer there, are done with.                                       *)
LEMMA IdleEvents ==
  ASSUME D!IdleServerAssumption, IdleInv,
         D!EpollWait \/ D!HandleSignals \/ \E fd \in Fd : D!ReceiveNothing(fd)
  PROVE  IdleInv'
<1>0. IdleTypeOK /\ d_running /\ Room /\ ListedOpen /\ Partners
  BY DEF IdleInv, D!EpollWait, D!HandleSignals, D!ReceiveNothing, D!Handling
<1>1. UNCHANGED <<d_left, d_timer, d_user_data, d_running, d_open, d_backlog>>
  BY DEF D!EpollWait, D!HandleSignals, D!ReceiveNothing, D!Handling, D!timerVars, D!clientVars
<1>2. \/ d_batch = {} /\ d_batch' = d_edge /\ d_edge' = {}
      \/ d_batch' \subseteq d_batch /\ d_edge' = d_edge
  BY DEF D!EpollWait, D!HandleSignals, D!ReceiveNothing, D!Handling
<1>3. IdleTypeOK' /\ Room' /\ ListedOpen' /\ Partners'
  BY <1>0, <1>1, <1>2 DEF IdleTypeOK, Room, ListedOpen, Partners, D!List!Pending
<1> QED
  BY <1>0, <1>1, <1>3 DEF IdleInv

(* When a client is accepted there is a descriptor for it, and a timer.     *)
LEMMA RoomForOne ==
  ASSUME D!IdleServerAssumption, IdleInv, Listener \in d_batch
  PROVE  /\ Fd \ d_open # {} /\ Timers \ D!List!Pending # {}
         /\ \A fd \in Fd \ d_open : Cardinality(d_open \cup {fd}) = Cardinality(d_open) + 1
<1>0. IdleTypeOK /\ d_running /\ Room /\ Partners
  BY DEF IdleInv
<1>1. /\ IsFiniteSet(Fd) /\ IsFiniteSet(d_open)
      /\ Cardinality(d_open) \in Nat /\ Cardinality(Fd) \in Nat
  BY <1>0, FS_Subset, FS_CardinalityType, SameCount DEF D!IdleServerAssumption, IdleTypeOK
<1>2. Cardinality(d_open) < Cardinality(Fd)
  BY <1>0, <1>1 DEF Room, IdleTypeOK
<1>3. Fd \ d_open # {}
  <2>1. d_open # Fd
    BY <1>1, <1>2
  <2> QED
    BY <2>1, <1>0 DEF IdleTypeOK
<1>4. Timers \ D!List!Pending # {}
  <2> SUFFICES ASSUME Timers \subseteq D!List!Pending PROVE FALSE
    OBVIOUS
  <2> DEFINE f == [fd \in d_open |-> d_timer[fd]]
  <2>1. f \in Surjection(d_open, Timers)
    <3>1. f \in [d_open -> Timers]
      BY <1>0 DEF Partners, D!List!Pending
    <3>2. \A t \in Timers : \E fd \in d_open : f[fd] = t
      BY <1>0 DEF Partners
    <3> QED
      BY <3>1, <3>2 DEF Surjection
  <2> HIDE DEF f
  <2>2. IsFiniteSet(Timers) /\ Cardinality(Timers) <= Cardinality(d_open)
    BY <1>1, <2>1, FS_Surjection
  <2>3. Cardinality(Timers) \in Nat
    BY <2>2, FS_CardinalityType
  <2> QED
    BY <1>1, <1>2, <2>2, <2>3, SameCount DEF D!IdleServerAssumption
<1>5. ASSUME NEW fd \in Fd \ d_open PROVE Cardinality(d_open \cup {fd}) = Cardinality(d_open) + 1
  BY <1>1, FS_AddElement
<1> QED
  BY <1>3, <1>4, <1>5

(* A session begins with its timer.                                         *)
LEMMA IdleAccept == ASSUME D!IdleServerAssumption, IdleInv, D!HandleAccept PROVE IdleInv'
<1>0. IdleTypeOK /\ d_running /\ Room /\ ListedOpen /\ Partners /\ Listener \in d_batch
  BY DEF IdleInv, D!HandleAccept, D!Handling
<1>1. \E fd \in Fd \ d_open : \A other \in Fd \ d_open : fd <= other
  <2>1. Fd \ d_open \in SUBSET Nat /\ Fd \ d_open # {}
    BY <1>0, RoomForOne DEF D!IdleServerAssumption
  <2> QED
    BY <2>1, Least
<1>2. PICK connfd \in Fd \ d_open : connfd = CHOOSE fd \in Fd \ d_open : \A other \in Fd \ d_open : fd <= other
  BY <1>1
<1>3. \E t \in Timers : t \notin D!List!Pending
  BY <1>0, RoomForOne
<1>4. PICK t \in Timers : t = CHOOSE u \in Timers : u \notin D!List!Pending
  BY <1>3
<1>5. t \notin D!List!Pending
  BY <1>3, <1>4
<1>6. /\ d_batch' = d_batch \ {Listener} /\ d_running' = d_running
      /\ d_backlog' = d_backlog - 1 /\ d_open' = d_open \cup {connfd}
      /\ d_edge' = d_edge \cup {connfd} \/ d_edge' = d_edge
      /\ d_timer' = [d_timer EXCEPT ![connfd] = t]
      /\ d_user_data' = [d_user_data EXCEPT ![t] = connfd]
      /\ d_left' = [d_left EXCEPT ![t] = D!Limit]
  BY <1>2, <1>4 DEF D!HandleAccept, D!Handling, D!List!Add
<1>7. D!Limit \in Int /\ D!Limit # -1
  BY DEF D!Limit, D!IdleServerAssumption
<1>8. IdleTypeOK'
  <2>1. d_backlog' \in Nat
    BY <1>0, <1>6 DEF IdleTypeOK, Room
  <2>2. /\ d_left' \in [Timers -> Int] /\ d_timer' \in [Fd -> Timers \cup {NULL}]
        /\ d_user_data' \in [Timers -> Fd \cup {NULL}]
    BY <1>0, <1>6, <1>7 DEF IdleTypeOK
  <2> QED
    BY <2>1, <2>2, <1>0, <1>6 DEF IdleTypeOK, Source
<1>9. Room'
  <2>1. Cardinality(d_open') = Cardinality(d_open) + 1
    BY <1>0, <1>6, RoomForOne
  <2>2. Cardinality(d_open) \in Nat /\ Cardinality(Fd) \in Nat /\ d_backlog \in Nat
    BY <1>0, FS_Subset, FS_CardinalityType, SameCount DEF D!IdleServerAssumption, IdleTypeOK
  <2>3. connfd # Listener
    BY DEF D!IdleServerAssumption
  <2>4. Listener \in d_edge' <=> Listener \in d_edge
    BY <1>6, <2>3
  <2>5. Listener \notin d_batch'
    BY <1>6
  <2>6. (Listener \in d_edge => d_backlog > 1) /\ d_backlog + Cardinality(d_open) <= Cardinality(Fd)
    BY <1>0 DEF Room
  <2> QED
    BY <2>1, <2>2, <2>4, <2>5, <2>6, <1>6 DEF Room
<1>10. ListedOpen'
  BY <1>0, <1>6 DEF ListedOpen
<1>11. /\ d_timer'[connfd] = t /\ \A fd \in Fd : fd # connfd => d_timer'[fd] = d_timer[fd]
       /\ d_user_data'[t] = connfd /\ \A u \in Timers : u # t => d_user_data'[u] = d_user_data[u]
       /\ d_left'[t] = D!Limit /\ \A u \in Timers : u # t => d_left'[u] = d_left[u]
  BY <1>0, <1>6 DEF IdleTypeOK
<1>12. D!List!Pending' = D!List!Pending \cup {t}
  BY <1>7, <1>11 DEF D!List!Pending, D!List!Unset
<1>13. Partners'
  <2>1. ASSUME NEW fd \in d_open' PROVE d_timer'[fd] \in D!List!Pending' /\ d_user_data'[d_timer'[fd]] = fd
    <3>1. CASE fd = connfd
      BY <3>1, <1>11, <1>12
    <3>2. CASE fd # connfd
      <4>1. fd \in d_open /\ fd \in Fd
        BY <3>2, <1>0, <1>6 DEF IdleTypeOK
      <4>2. d_timer'[fd] = d_timer[fd] /\ d_timer[fd] \in D!List!Pending /\ d_user_data[d_timer[fd]] = fd
        BY <3>2, <4>1, <1>0, <1>11 DEF Partners
      <4>3. d_timer[fd] \in Timers /\ d_timer[fd] # t
        BY <4>2, <1>5 DEF D!List!Pending
      <4> QED
        BY <4>2, <4>3, <1>11, <1>12
    <3> QED
      BY <3>1, <3>2
  <2>2. ASSUME NEW u \in D!List!Pending' PROVE d_user_data'[u] \in d_open' /\ d_timer'[d_user_data'[u]] = u
    <3>1. CASE u = t
      BY <3>1, <1>6, <1>11
    <3>2. CASE u # t
      <4>1. u \in D!List!Pending /\ u \in Timers
        BY <3>2, <1>12 DEF D!List!Pending
      <4>2. d_user_data'[u] = d_user_data[u] /\ d_user_data[u] \in d_open /\ d_timer[d_user_data[u]] = u
        BY <3>2, <4>1, <1>0, <1>11 DEF Partners
      <4>3. d_user_data[u] \in Fd /\ d_user_data[u] # connfd
        BY <4>2, <1>0 DEF IdleTypeOK
      <4> QED
        BY <4>2, <4>3, <1>6, <1>11
    <3> QED
      BY <3>1, <3>2
  <2> QED
    BY <2>1, <2>2 DEF Partners
<1> QED
  BY <1>0, <1>6, <1>8, <1>9, <1>10, <1>13 DEF IdleInv

(* Input postpones the timer, which goes on. *)
LEMMA IdleReceive ==
  ASSUME D!IdleServerAssumption, IdleInv, NEW fd \in Fd, D!Receive(fd)
  PROVE  IdleInv'
<1>0. IdleTypeOK /\ d_running /\ Room /\ ListedOpen /\ Partners /\ fd \in d_batch
  BY DEF IdleInv, D!Receive, D!Handling
<1>1. fd \in d_open
  BY <1>0 DEF ListedOpen, D!IdleServerAssumption
<1>2. d_timer[fd] \in D!List!Pending /\ d_timer[fd] \in Timers
  BY <1>0, <1>1 DEF Partners, D!List!Pending
<1>3. /\ UNCHANGED <<d_timer, d_user_data, d_running, d_open, d_backlog, d_edge>>
      /\ d_batch' = d_batch \ {fd}
      /\ d_left' = [d_left EXCEPT ![d_timer[fd]] = D!Limit]
  BY DEF D!Receive, D!Handling, D!List!Postpone
<1>4. D!Limit \in Int /\ D!Limit # -1
  BY DEF D!Limit, D!IdleServerAssumption
<1>5. d_left' \in [Timers -> Int] /\ \A t \in Timers : d_left'[t] = -1 <=> d_left[t] = -1
  BY <1>0, <1>2, <1>3, <1>4 DEF IdleTypeOK, D!List!Pending, D!List!Unset
<1>6. D!List!Pending' = D!List!Pending
  BY <1>5 DEF D!List!Pending, D!List!Unset
<1>7. IdleTypeOK' /\ Room' /\ ListedOpen'
  BY <1>0, <1>3, <1>5 DEF IdleTypeOK, Room, ListedOpen
<1>8. Partners'
  BY <1>0, <1>3, <1>6 DEF Partners
<1> QED
  BY <1>0, <1>3, <1>7, <1>8 DEF IdleInv

(* Sessions are closed and their timers go: the one of a client that has    *)
(* gone, or all those that were silent too long.                            *)
LEMMA IdleCloses ==
  ASSUME D!IdleServerAssumption, IdleInv, d_running, d_running',
         NEW fds \in SUBSET d_open, D!Close(fds),
         d_backlog' = d_backlog, d_batch' \subseteq d_batch, d_batch' \cap fds = {},
         d_left' \in [Timers -> Int],
         D!List!Pending' = {t \in D!List!Pending : d_user_data[t] \notin fds}
  PROVE  IdleInv'
<1>0. IdleTypeOK /\ Room /\ ListedOpen /\ Partners
  BY DEF IdleInv
<1>1. d_open' = d_open \ fds /\ d_edge' = d_edge \ fds
  BY DEF D!Close
<1>2. /\ d_timer' \in [Fd -> Timers \cup {NULL}] /\ d_user_data' \in [Timers -> Fd \cup {NULL}]
      /\ \A fd \in Fd : fd \notin fds => d_timer'[fd] = d_timer[fd]
      /\ \A t \in Timers : d_user_data[t] \notin fds => d_user_data'[t] = d_user_data[t]
  BY <1>0 DEF D!Close, IdleTypeOK
<1>3. IdleTypeOK'
  BY <1>0, <1>1, <1>2 DEF IdleTypeOK
<1>4. Room'
  <2>1. /\ Cardinality(d_open) \in Nat /\ Cardinality(d_open') \in Nat
        /\ Cardinality(d_open') <= Cardinality(d_open)
    BY <1>0, <1>1, FS_Subset, FS_CardinalityType, SameCount DEF D!IdleServerAssumption, IdleTypeOK
  <2>2. Cardinality(Fd) \in Nat /\ d_backlog \in Nat
    BY <1>0, FS_CardinalityType, SameCount DEF D!IdleServerAssumption, IdleTypeOK
  <2> QED
    BY <2>1, <2>2, <1>0, <1>1 DEF Room
<1>5. ListedOpen'
  BY <1>0, <1>1 DEF ListedOpen
<1>6. Partners'
  <2>1. ASSUME NEW fd \in d_open' PROVE d_timer'[fd] \in D!List!Pending' /\ d_user_data'[d_timer'[fd]] = fd
    <3>1. fd \in d_open /\ fd \in Fd /\ fd \notin fds
      BY <1>0, <1>1 DEF IdleTypeOK
    <3>2. d_timer'[fd] = d_timer[fd] /\ d_timer[fd] \in D!List!Pending /\ d_user_data[d_timer[fd]] = fd
      BY <3>1, <1>0, <1>2 DEF Partners
    <3>3. d_timer[fd] \in Timers
      BY <3>2 DEF D!List!Pending
    <3> QED
      BY <3>1, <3>2, <3>3, <1>2
  <2>2. ASSUME NEW t \in D!List!Pending' PROVE d_user_data'[t] \in d_open' /\ d_timer'[d_user_data'[t]] = t
    <3>1. t \in Timers /\ t \in D!List!Pending /\ d_user_data[t] \notin fds
      BY DEF D!List!Pending
    <3>2. d_user_data'[t] = d_user_data[t] /\ d_user_data[t] \in d_open /\ d_timer[d_user_data[t]] = t
      BY <3>1, <1>0, <1>2 DEF Partners
    <3> QED
      BY <3>1, <3>2, <1>0, <1>1, <1>2 DEF IdleTypeOK
  <2> QED
    BY <2>1, <2>2 DEF Partners
<1> QED
  BY <1>3, <1>4, <1>5, <1>6 DEF IdleInv

(* A client has gone: its session and its timer do too.                     *)
LEMMA IdleReceiveEnd ==
  ASSUME D!IdleServerAssumption, IdleInv, NEW fd \in Fd, D!ReceiveEnd(fd)
  PROVE  IdleInv'
<1>0. IdleTypeOK /\ d_running /\ ListedOpen /\ Partners /\ fd \in d_batch
  BY DEF IdleInv, D!ReceiveEnd, D!Handling
<1>1. fd \in d_open
  BY <1>0 DEF ListedOpen, D!IdleServerAssumption
<1>2. d_timer[fd] \in D!List!Pending /\ d_timer[fd] \in Timers
  BY <1>0, <1>1 DEF Partners, D!List!Pending
<1>3. /\ D!Close({fd}) /\ d_running' = d_running /\ d_batch' = d_batch \ {fd} /\ d_backlog' = d_backlog
      /\ d_left' = [d_left EXCEPT ![d_timer[fd]] = -1]
  BY DEF D!ReceiveEnd, D!Handling, D!List!Cancel, D!List!Unset
<1>4. /\ d_left' \in [Timers -> Int] /\ d_left'[d_timer[fd]] = -1
      /\ \A t \in Timers : t # d_timer[fd] => d_left'[t] = d_left[t]
  BY <1>0, <1>2, <1>3 DEF IdleTypeOK
<1>5. D!List!Pending' = D!List!Pending \ {d_timer[fd]}
  BY <1>2, <1>4 DEF D!List!Pending, D!List!Unset
<1>6. \A t \in D!List!Pending : d_user_data[t] = fd <=> t = d_timer[fd]
  BY <1>0, <1>1 DEF Partners
<1>7. D!List!Pending' = {t \in D!List!Pending : d_user_data[t] \notin {fd}}
  BY <1>5, <1>6
<1> QED
  BY <1>0, <1>1, <1>3, <1>4, <1>7, IdleCloses

(* The sessions whose timers fire are closed.                               *)
LEMMA IdleTick == ASSUME D!IdleServerAssumption, IdleInv, D!TimerHandler PROVE IdleInv'
<1>0. IdleTypeOK /\ d_running /\ Partners /\ d_batch = {}
  BY DEF IdleInv, D!TimerHandler
<1> DEFINE fds == {d_user_data[t] : t \in D!List!Due}
<1>1. /\ D!Close(fds) /\ d_running' = d_running /\ d_batch' = d_batch /\ d_backlog' = d_backlog
      /\ d_left' = [t \in Timers |-> IF t \in D!List!Due THEN -1 ELSE d_left[t]]
  BY DEF D!TimerHandler, D!List!Tick, D!List!Unset
<1>2. D!List!Due \subseteq D!List!Pending
  BY DEF D!List!Due, D!List!Pending, D!List!Unset
<1>3. fds \in SUBSET d_open
  BY <1>0, <1>2 DEF Partners
<1>4. d_left' \in [Timers -> Int] /\ D!List!Pending' = D!List!Pending \ D!List!Due
  BY <1>0, <1>1 DEF IdleTypeOK, D!List!Pending, D!List!Unset
<1>5. \A t \in D!List!Pending : d_user_data[t] \in fds <=> t \in D!List!Due
  BY <1>0, <1>2 DEF Partners
<1>6. D!List!Pending' = {t \in D!List!Pending : d_user_data[t] \notin fds}
  BY <1>4, <1>5
<1> HIDE DEF fds
<1> QED
  BY <1>0, <1>1, <1>3, <1>4, <1>6, IdleCloses

(* main leaves its loop.                                                    *)
LEMMA IdleEnds == ASSUME D!IdleServerAssumption, IdleInv, D!LoopEnds PROVE IdleInv'
<1>0. IdleTypeOK /\ d_batch = {}
  BY DEF IdleInv, D!LoopEnds
<1>1. D!Close(d_open) /\ d_running' = FALSE /\ d_backlog' = 0 /\ d_batch' = d_batch /\ d_left' = d_left
  BY DEF D!LoopEnds
<1>2. d_open' = {} /\ d_edge' \subseteq d_edge
  BY <1>1 DEF D!Close
<1>3. d_timer' \in [Fd -> Timers \cup {NULL}] /\ d_user_data' \in [Timers -> Fd \cup {NULL}]
  BY <1>0, <1>1 DEF D!Close, IdleTypeOK
<1>4. IdleTypeOK'
  BY <1>0, <1>1, <1>2, <1>3 DEF IdleTypeOK
<1> QED
  BY <1>0, <1>1, <1>2, <1>4 DEF IdleInv

(* Every step of the server with timers and of its clients.                 *)
LEMMA IdleNext == ASSUME D!IdleServerAssumption, IdleInv, D!Next \/ UNCHANGED D!vars PROVE IdleInv'
<1>1. CASE UNCHANGED D!vars
  <2>1. UNCHANGED <<d_left, d_timer, d_user_data, d_running, d_batch, d_edge, d_open, d_backlog>>
    BY <1>1 DEF D!vars, D!timerVars, D!loopVars, D!clientVars
  <2> QED
    BY <2>1 DEF IdleInv, IdleTypeOK, Room, ListedOpen, Partners, D!List!Pending
<1>2. CASE D!Next
  BY <1>2, IdleClients, IdleElapse, IdleEvents, IdleAccept, IdleReceive, IdleReceiveEnd, IdleTick, IdleEnds
  DEF D!Next, D!ServerStep
<1> QED
  BY <1>1, <1>2

(* What is left to be said of sessions and timers.                          *)
LEMMA IdleTimers == ASSUME IdleInv PROVE D!TimerOfSession
BY DEF IdleInv, Partners, ListedOpen, D!TimerOfSession

(* How long a session has been silent is what its timer has spent; whoever  *)
(* is not connected has not been silent.                                    *)
SilentSinceSet ==
  \A fd \in Fd :
    /\ d_idle[fd] \in 0..D!Limit
    /\ IF fd \in d_open THEN d_left[d_timer[fd]] = D!Limit - d_idle[fd] ELSE d_idle[fd] = 0

IdleClock == d_idle \in [Fd -> Int] /\ (d_running => SilentSinceSet)

(* Nobody has been silent in the beginning.                                 *)
LEMMA ClockInit == ASSUME D!IdleServerAssumption, D!Init PROVE IdleClock
BY DEF D!IdleServerAssumption, D!Init, IdleClock, SilentSinceSet, D!Limit

(* Timers and silence go on together: a timer that has stopped counting has *)
(* nothing left, and its session is as silent as is counted.                *)
LEMMA ClockElapse ==
  ASSUME D!IdleServerAssumption, IdleInv, IdleClock, D!Elapse
  PROVE  IdleClock'
<1>0. IdleTypeOK /\ Partners /\ d_running /\ SilentSinceSet /\ d_idle \in [Fd -> Int]
  BY DEF IdleInv, IdleClock, D!Elapse
<1>1. /\ UNCHANGED <<d_timer, d_open>>
      /\ d_left' = [t \in Timers |-> IF d_left[t] > 0 THEN d_left[t] - 1 ELSE d_left[t]]
      /\ d_idle' = [fd \in Fd |-> IF fd \in d_open /\ d_idle[fd] < D!Limit
                                  THEN d_idle[fd] + 1 ELSE d_idle[fd]]
  BY DEF D!Elapse, D!List!Elapse
<1>2. D!Limit \in Nat
  BY DEF D!Limit, D!IdleServerAssumption
<1>3. \A fd \in d_open : d_timer[fd] \in Timers
  BY <1>0 DEF Partners, D!List!Pending
<1> QED
  BY <1>0, <1>1, <1>2, <1>3 DEF IdleClock, SilentSinceSet, IdleTypeOK

(* A new session has its timer before it and no silence behind it.          *)
LEMMA ClockAccept ==
  ASSUME D!IdleServerAssumption, IdleInv, IdleClock, D!HandleAccept
  PROVE  IdleClock'
<1>0. IdleTypeOK /\ Partners /\ d_running /\ SilentSinceSet /\ d_idle \in [Fd -> Int]
  BY DEF IdleInv, IdleClock, D!HandleAccept, D!Handling
<1>1. PICK connfd, t :
        /\ d_open' = d_open \cup {connfd}
        /\ d_timer' = [d_timer EXCEPT ![connfd] = t]
        /\ t \notin D!List!Pending /\ d_left' = [d_left EXCEPT ![t] = D!Limit]
        /\ connfd = CHOOSE fd \in Fd \ d_open : \A other \in Fd \ d_open : fd <= other
        /\ t = CHOOSE u \in Timers : u \notin D!List!Pending
  BY DEF D!HandleAccept, D!List!Add
<1>2. d_idle' = d_idle
  BY DEF D!HandleAccept
<1>3. Listener \in d_batch
  BY DEF D!HandleAccept, D!Handling
<1>4. connfd \in Fd \ d_open
  <2>1. Fd \ d_open # {} /\ Fd \ d_open \in SUBSET Nat
    BY <1>3, RoomForOne DEF D!IdleServerAssumption
  <2> QED
    BY <2>1, <1>1, Least
<1>5. t \in Timers
  BY <1>1, <1>3, RoomForOne
<1>6. D!Limit \in Nat
  BY DEF D!Limit, D!IdleServerAssumption
<1>7. \A fd \in d_open : d_timer[fd] \in Timers /\ d_timer[fd] # t
  BY <1>0, <1>1 DEF Partners, D!List!Pending
<1> HIDE <1>1
<1>8. /\ d_open' = d_open \cup {connfd}
      /\ d_timer' = [d_timer EXCEPT ![connfd] = t]
      /\ d_left' = [d_left EXCEPT ![t] = D!Limit]
  BY <1>1
<1> QED
  BY <1>0, <1>2, <1>4, <1>5, <1>6, <1>7, <1>8 DEF IdleClock, SilentSinceSet, IdleTypeOK

(* What is read ends the silence and starts the timer anew; no other        *)
(* session has that timer.                                                  *)
LEMMA ClockReceive ==
  ASSUME D!IdleServerAssumption, IdleInv, IdleClock, NEW fd \in Fd, D!Receive(fd)
  PROVE  IdleClock'
<1>0. /\ IdleTypeOK /\ d_running /\ ListedOpen /\ Partners /\ fd \in d_batch
      /\ SilentSinceSet /\ d_idle \in [Fd -> Int]
  BY DEF IdleInv, IdleClock, D!Receive, D!Handling
<1>1. fd \in d_open
  BY <1>0 DEF ListedOpen, D!IdleServerAssumption
<1>2. /\ UNCHANGED <<d_timer, d_open>>
      /\ d_left' = [d_left EXCEPT ![d_timer[fd]] = D!Limit]
      /\ d_idle' = [d_idle EXCEPT ![fd] = 0]
  BY DEF D!Receive, D!List!Postpone
<1>3. \A other \in d_open : /\ d_timer[other] \in Timers
                            /\ d_timer[other] = d_timer[fd] => other = fd
  BY <1>0, <1>1 DEF Partners, D!List!Pending
<1>4. D!Limit \in Nat
  BY DEF D!Limit, D!IdleServerAssumption
<1> QED
  BY <1>0, <1>1, <1>2, <1>3, <1>4 DEF IdleClock, SilentSinceSet, IdleTypeOK

(* Sessions that are closed are forgotten; the timers of the others are     *)
(* left alone.                                                              *)
LEMMA ClockCloses ==
  ASSUME D!IdleServerAssumption, IdleInv, IdleClock, d_running,
         NEW fds \in SUBSET d_open, D!Close(fds),
         \A fd \in d_open \ fds : d_left'[d_timer[fd]] = d_left[d_timer[fd]]
  PROVE  IdleClock'
<1>0. IdleTypeOK /\ SilentSinceSet /\ d_idle \in [Fd -> Int]
  BY DEF IdleInv, IdleClock
<1>1. /\ d_open' = d_open \ fds
      /\ d_timer' = [fd \in Fd |-> IF fd \in fds THEN NULL ELSE d_timer[fd]]
      /\ d_idle' = [fd \in Fd |-> IF fd \in fds THEN 0 ELSE d_idle[fd]]
  BY DEF D!Close
<1>2. D!Limit \in Nat
  BY DEF D!Limit, D!IdleServerAssumption
<1> QED
  BY <1>0, <1>1, <1>2 DEF IdleClock, SilentSinceSet, IdleTypeOK

(* A client that has gone takes its timer with it, and no other.            *)
LEMMA ClockReceiveEnd ==
  ASSUME D!IdleServerAssumption, IdleInv, IdleClock, NEW fd \in Fd, D!ReceiveEnd(fd)
  PROVE  IdleClock'
<1>0. IdleTypeOK /\ d_running /\ ListedOpen /\ Partners /\ fd \in d_batch
  BY DEF IdleInv, D!ReceiveEnd, D!Handling
<1>1. fd \in d_open
  BY <1>0 DEF ListedOpen, D!IdleServerAssumption
<1>2. D!Close({fd}) /\ d_left' = [d_left EXCEPT ![d_timer[fd]] = -1]
  BY DEF D!ReceiveEnd, D!List!Cancel, D!List!Unset
<1>3. \A other \in d_open \ {fd} : d_timer[other] \in Timers /\ d_timer[other] # d_timer[fd]
  BY <1>0, <1>1 DEF Partners, D!List!Pending
<1>4. \A other \in d_open \ {fd} : d_left'[d_timer[other]] = d_left[d_timer[other]]
  BY <1>0, <1>2, <1>3 DEF IdleTypeOK
<1> QED
  BY <1>0, <1>1, <1>2, <1>4, ClockCloses

(* The sessions of the timers that fire: their time is up.                  *)
LEMMA ClockTick ==
  ASSUME D!IdleServerAssumption, IdleInv, IdleClock, D!TimerHandler
  PROVE  IdleClock' /\ \A fd \in d_open \ d_open' : d_idle[fd] = D!Limit
<1>0. IdleTypeOK /\ d_running /\ Partners /\ SilentSinceSet /\ d_idle \in [Fd -> Int]
  BY DEF IdleInv, IdleClock, D!TimerHandler
<1> DEFINE fds == {d_user_data[t] : t \in D!List!Due}
<1>1. /\ D!Close(fds)
      /\ d_left' = [t \in Timers |-> IF t \in D!List!Due THEN -1 ELSE d_left[t]]
  BY DEF D!TimerHandler, D!List!Tick, D!List!Unset
<1>2. D!List!Due \subseteq D!List!Pending
  BY DEF D!List!Due, D!List!Pending, D!List!Unset
<1>3. fds \in SUBSET d_open
  BY <1>0, <1>2 DEF Partners
<1>4. \A fd \in d_open : d_timer[fd] \in Timers /\ (fd \in fds <=> d_timer[fd] \in D!List!Due)
  BY <1>0, <1>2 DEF Partners, D!List!Pending
<1>5. \A fd \in d_open \ fds : d_left'[d_timer[fd]] = d_left[d_timer[fd]]
  BY <1>0, <1>1, <1>4
<1>6. \A fd \in fds : d_idle[fd] = D!Limit
  <2>1. D!Limit \in Nat
    BY DEF D!Limit, D!IdleServerAssumption
  <2>2. \A fd \in fds : fd \in Fd /\ fd \in d_open /\ d_left[d_timer[fd]] = 0
    BY <1>0, <1>3, <1>4 DEF D!List!Due, IdleTypeOK
  <2> HIDE DEF fds
  <2> QED
    BY <2>1, <2>2, <1>0 DEF SilentSinceSet
<1> HIDE DEF fds
<1>7. d_open \ d_open' \subseteq fds
  BY <1>1 DEF D!Close
<1> QED
  BY <1>0, <1>1, <1>3, <1>5, <1>6, <1>7, ClockCloses

(* Every step keeps the clock, and closes only sessions whose clients have  *)
(* gone or whose time is up, unless main returns.                           *)
LEMMA ClockNext ==
  ASSUME D!IdleServerAssumption, IdleInv, IdleClock, D!Next \/ UNCHANGED D!vars
  PROVE  /\ IdleClock'
         /\ \A fd \in d_open \ d_open' :
              d_ended[fd] # "no" \/ d_idle[fd] = D!Limit \/ ~d_running'
<1> DEFINE Justified == \A fd \in d_open \ d_open' :
              d_ended[fd] # "no" \/ d_idle[fd] = D!Limit \/ ~d_running'
<1>1. ASSUME UNCHANGED <<d_running, d_left, d_timer, d_open, d_idle>>
      PROVE  IdleClock' /\ Justified
  BY <1>1 DEF IdleClock, SilentSinceSet
<1>2. CASE \/ D!ClientConnects \/ (\E fd \in Fd : D!Client(fd)) \/ D!Terminate
           \/ D!EpollWait \/ D!HandleSignals \/ (\E fd \in Fd : D!ReceiveNothing(fd))
           \/ UNCHANGED D!vars
  BY <1>1, <1>2 DEF D!ClientConnects, D!Client, D!ClientSends, D!ClientCloses, D!Terminate,
    D!EpollWait, D!HandleSignals, D!ReceiveNothing, D!Handling, D!vars, D!timerVars, D!loopVars,
    D!clientVars
<1>3. CASE D!Elapse
  BY <1>3, ClockElapse DEF D!Elapse
<1>4. CASE D!HandleAccept
  <2>1. d_open \subseteq d_open'
    BY <1>4 DEF D!HandleAccept
  <2> QED
    BY <2>1, <1>4, ClockAccept
<1>5. ASSUME NEW fd \in Fd, D!Receive(fd) PROVE IdleClock' /\ Justified
  <2>1. d_open' = d_open
    BY <1>5 DEF D!Receive
  <2> QED
    BY <2>1, <1>5, ClockReceive
<1>6. ASSUME NEW fd \in Fd, D!ReceiveEnd(fd) PROVE IdleClock' /\ Justified
  <2>1. d_open' = d_open \ {fd} /\ d_ended[fd] # "no"
    BY <1>6 DEF D!ReceiveEnd, D!Close
  <2> QED
    BY <2>1, <1>6, ClockReceiveEnd
<1>7. CASE D!TimerHandler
  BY <1>7, ClockTick
<1>8. CASE D!LoopEnds
  <2>1. ~d_running' /\ d_idle' = [fd \in Fd |-> IF fd \in d_open THEN 0 ELSE d_idle[fd]]
    BY <1>8 DEF D!LoopEnds, D!Close
  <2> QED
    BY <2>1 DEF IdleClock
<1> QED
  BY <1>2, <1>3, <1>4, <1>5, <1>6, <1>7, <1>8 DEF D!Next, D!ServerStep
-----------------------------------------------------------------------------
EventLoopsInv ==
  /\ SelectInv
  /\ ChatInv
  /\ EpollInv
  /\ IdleInv

(* Whichever of the servers runs, its invariant holds; those of the others  *)
(* hold because they do not begin.                                          *)
THEOREM EventLoopsInvariant == Spec => []EventLoopsInv
<1> USE MCEventLoopsAssumption DEF MCEventLoopsAssumption
<1>1. Init => EventLoopsInv
  BY SelectInvInit, ChatInit, EpollInvInit, IdleInit DEF Init, EventLoopsInv
<1>2. ASSUME EventLoopsInv, [Next]_vars PROVE EventLoopsInv'
  <2>0. SelectInv /\ ChatInv /\ EpollInv /\ IdleInv
    BY <1>2 DEF EventLoopsInv
  <2>1. UNCHANGED selectVars => UNCHANGED S!vars
    BY DEF selectVars, S!vars, S!loopVars, S!kernelVars
  <2>2. UNCHANGED pollVars => UNCHANGED P!vars
    BY DEF pollVars, P!vars, P!loopVars, P!userVars, P!socketVars, P!clientVars
  <2>3. UNCHANGED epollVars => UNCHANGED E!vars
    BY DEF epollVars, E!vars, E!epollVars, E!kernelVars, E!threadVars
  <2>4. UNCHANGED idleVars => UNCHANGED D!vars
    BY DEF idleVars, D!vars, D!timerVars, D!loopVars, D!clientVars
  <2>5. S!Next \/ UNCHANGED S!vars
    BY <1>2, <2>1 DEF Next, vars, PollRuns, EpollRuns, IdleRuns
  <2>6. P!Next \/ UNCHANGED P!vars
    BY <1>2, <2>2 DEF Next, vars, SelectRuns, EpollRuns, IdleRuns
  <2>7. E!Next \/ UNCHANGED E!vars
    BY <1>2, <2>3 DEF Next, vars, SelectRuns, PollRuns, IdleRuns
  <2>8. D!Next \/ UNCHANGED D!vars
    BY <1>2, <2>4 DEF Next, vars, SelectRuns, PollRuns, EpollRuns
  <2>9. SelectInv'
    BY <2>0, <2>5, SelectNext
  <2>10. ChatInv'
    BY <2>0, <2>6, ChatNext
  <2>11. EpollInv'
    BY <2>0, <2>7, EpollNext
  <2>12. IdleInv'
    BY <2>0, <2>8, IdleNext
  <2> QED
    BY <2>9, <2>10, <2>11, <2>12 DEF EventLoopsInv
<1> QED
  BY <1>1, <1>2, PTL DEF Spec

(* 08_select.cpp selects on exactly its open connections and can find each  *)
(* of them in its array.                                                    *)
THEOREM SelectSessionsWatchedTheorem == Spec => []SelectSessionsWatched
<1>1. EventLoopsInv => SelectSessionsWatched
  BY DEF EventLoopsInv, SelectInv, SelectSessionsWatched
<1> QED
  BY <1>1, EventLoopsInvariant, PTL

(* Its recv waits only at a descriptor that line 131 left in the array when *)
(* it was closed, and that has been given to a later client.                *)
THEOREM SelectBlocksTheorem == Spec => []SelectBlocksOnlyAtDuplicate
<1>1. EventLoopsInv => SelectBlocksOnlyAtDuplicate
  BY SelectDuplicates, MCEventLoopsAssumption
  DEF MCEventLoopsAssumption, EventLoopsInv, SelectBlocksOnlyAtDuplicate
<1> QED
  BY <1>1, EventLoopsInvariant, PTL

(* The array of 9-7mytalk_server.cpp has every connection once, after any   *)
(* sequence of removals that move its last entry.                           *)
THEOREM ChatTablesAgreeTheorem == Spec => []ChatTablesAgree
<1>1. EventLoopsInv => ChatTablesAgree
  BY ChatTables, MCEventLoopsAssumption DEF MCEventLoopsAssumption, EventLoopsInv, ChatTablesAgree
<1> QED
  BY <1>1, EventLoopsInvariant, PTL

(* The pointer by which a user of the chat waits for a text leads to the    *)
(* last words of another one who is there, unless the speaker has left.     *)
THEOREM ChatPointsToSpeakerTheorem == Spec => []ChatPointsToSpeaker
<1>1. EventLoopsInv => ChatPointsToSpeaker
  BY DEF EventLoopsInv, ChatInv, ChatPointsToSpeaker
<1> QED
  BY <1>1, EventLoopsInvariant, PTL

(* The line that "code should not come to" is not come to.                  *)
THEOREM ChatShouldNotComeHereTheorem == Spec => []ChatShouldNotComeHere
<1>1. EventLoopsInv => ChatShouldNotComeHere
  BY DEF EventLoopsInv, ChatInv, ChatShouldNotComeHere
<1> QED
  BY <1>1, EventLoopsInvariant, PTL

(* A socket of 9-4oneshot.cpp is read by one thread, as long as no thread   *)
(* has read the arguments of another.                                       *)
THEOREM EpollOneReaderTheorem == Spec => []EpollOneReader
<1>1. EventLoopsInv => EpollOneReader
  BY DEF EventLoopsInv, EpollInv, EpollOneReader
<1> QED
  BY <1>1, EventLoopsInvariant, PTL

(* No input and no client is forgotten by any of the four epoll servers,    *)
(* unless arguments were mixed up or two clients shared an edge.            *)
THEOREM EpollNothingForgottenTheorem == Spec => []EpollNothingForgotten
<1>1. EventLoopsInv => EpollNothingForgotten
  BY DEF EventLoopsInv, EpollInv, EpollNothingForgotten
<1> QED
  BY <1>1, EventLoopsInvariant, PTL

(* A session of 11-3nonactive_conn.cpp and its timer live and die together, *)
(* and no event of a closed session is handled.                             *)
THEOREM IdleTimerOfSessionTheorem == Spec => []IdleTimerOfSession
<1>1. EventLoopsInv => IdleTimerOfSession
  BY IdleTimers DEF EventLoopsInv, IdleTimerOfSession
<1> QED
  BY <1>1, EventLoopsInvariant, PTL

(* The server with timers closes a connection its client has kept only when *)
(* it has read nothing from it for three time slots, or because it ends.    *)
THEOREM IdleNotClosedEarlyTheorem == Spec => IdleNotClosedEarly
<1> USE MCEventLoopsAssumption DEF MCEventLoopsAssumption
<1>1. Init => IdleClock
  BY ClockInit DEF Init
<1>2. ASSUME EventLoopsInv, IdleClock, [Next]_vars
      PROVE  /\ IdleClock'
             /\ \A fd \in d_open \ d_open' :
                  d_ended[fd] # "no" \/ d_idle[fd] = D!Limit \/ ~d_running'
  <2>1. IdleInv
    BY <1>2 DEF EventLoopsInv
  <2>2. UNCHANGED idleVars => UNCHANGED D!vars
    BY DEF idleVars, D!vars, D!timerVars, D!loopVars, D!clientVars
  <2>3. D!Next \/ UNCHANGED D!vars
    BY <1>2, <2>2 DEF Next, vars, SelectRuns, PollRuns, EpollRuns
  <2> QED
    BY <2>1, <2>3, <1>2, ClockNext
<1> QED
  BY <1>1, <1>2, EventLoopsInvariant, PTL DEF Spec, IdleNotClosedEarly, D!NotClosedEarly
=============================================================================
