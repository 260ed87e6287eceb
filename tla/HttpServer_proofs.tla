-------------------------- MODULE HttpServer_proofs ---------------------------
(***************************************************************************)
(* Proofs about HttpServer for any number of descriptors, workers, clients *)
(* and requests and any length of the pool's queue: every session is with  *)
(* one holder at a time, and the counter counts the open connections, less *)
(* those closed twice, until two updates of it overlap.  Then proofs about *)
(* ThreadPool: nobody finds the list other than he expects it, no request  *)
(* is stranded, and the pool is the TaskQueue the server uses.             *)
(***************************************************************************)
EXTENDS HttpServer, MCThreadPool, FiniteSetTheorems, FunctionTheorems,
  SequenceTheorems, TLAPS

Event == [fd : Fd \cup {Listener}, type : {"IN", "OUT", "HUP"}]

(* The types of the variables; m_sockfd is a session's own number or -1.    *)
Types ==
  /\ m_sockfd \in [Fd -> Int] /\ \A fd \in Fd : m_sockfd[fd] \in {fd, -1}
  /\ m_user_count \in Int /\ loaded \in [Threads -> Int]
  /\ open \subseteq Fd
  /\ armed \in [Fd -> {"none", "IN", "OUT"}]
  /\ batch \in Seq(Event)
  /\ mpc \in {"loop", "init", "add", "loadup", "storeup", "append",
              "loaddown", "storedown"}
  /\ mfd \in Fd \cup {NULL}
  /\ wpc \in [Workers -> {"idle", "process", "forget", "load", "store", "modfd"}]
  /\ running \in [Workers -> Fd \cup {NULL}]
  /\ pending \in Seq(Fd)
  /\ refused \subseteq Fd /\ raced \subseteq Fd
  /\ torn \in BOOLEAN /\ reused \in BOOLEAN /\ doubled \in Nat

(* The loop's thread has a session in hand exactly where it works on one,   *)
(* and so does a worker.                                                    *)
InHandWhereUsed ==
  /\ mfd = NULL <=> mpc \in {"loop", "loaddown", "storedown"}
  /\ \A w \in Workers : running[w] = NULL <=> wpc[w] = "idle"

(* epoll watches open connections only. *)
ArmedOpen == \A fd \in Fd : armed[fd] # "none" => fd \in open

(* What a worker is closing is closed, unless its number was given out anew. *)
ClosingGone ==
  \A w \in Workers :
    wpc[w] \in {"forget", "load", "store", "modfd"} =>
      running[w] \in raced \/ running[w] \notin open

(* Every number given out too early is remembered. *)
RacedReused == ~reused => raced = {}

(* The descriptors of the events still to be handled. *)
Fds(events) == [i \in DOMAIN events |-> events[i].fd]

In(x, s) == \E i \in DOMAIN s : s[i] = x

AtMostOnce(x, s) == \A i, j \in DOMAIN s : s[i] = x /\ s[j] = x => i = j

(* The places a session can be at, as Holders counts them. *)
Armed(fd) == armed[fd] # "none"
InBatch(fd) == In(fd, Fds(batch))
InHand(fd) == mfd = fd /\ mpc \in {"init", "add", "append"}
Waiting(fd) == In(fd, pending)
Processes(w, fd) == running[w] = fd /\ wpc[w] = "process"
Served(fd) == \E w \in Workers : Processes(w, fd)

OneWorker(fd) == \A v, w \in Workers : Processes(v, fd) /\ Processes(w, fd) => v = w

(* No place holds it twice: one event, one request, one worker. *)
Once(fd) ==
  /\ AtMostOnce(fd, Fds(batch))
  /\ AtMostOnce(fd, pending)
  /\ OneWorker(fd)

Bit(p) == IF p THEN 1 ELSE 0

Places(fd) ==
  Bit(Armed(fd)) + Bit(InBatch(fd)) + Bit(InHand(fd)) + Bit(Waiting(fd))
  + Bit(Served(fd)) + Bit(fd \in refused)

HeldOnce == \A fd \in Fd \ raced : Once(fd) /\ Places(fd) = Bit(fd \in open)

(* The inductive invariant. *)
ServerInv ==
  /\ Types
  /\ InHandWhereUsed
  /\ ArmedOpen
  /\ ClosingGone
  /\ RacedReused
  /\ FieldsMatch
  /\ HeldOnce

(* What a thread has read of the counter is what the counter still holds,   *)
(* until two updates overlap.                                               *)
LoadedFresh == \A t \in Threads : ~torn /\ Between(t) => loaded[t] = m_user_count

(* The counter is the open connections and what is owed; a socket that was  *)
(* closed twice was counted down twice.                                     *)
Balanced == ~torn => m_user_count = Cardinality(open) + Uncounted - doubled

(* And sockets are closed twice only when numbers were given out too early. *)
DoubledReused == ~reused => doubled = 0

CountInv == LoadedFresh /\ Balanced
-----------------------------------------------------------------------------
(* Taking the first element of a sequence takes one occurrence of it.       *)
LEMMA InTail ==
  ASSUME NEW S, NEW s \in Seq(S), s # <<>>, NEW x, AtMostOnce(x, s)
  PROVE  /\ AtMostOnce(x, Tail(s))
         /\ In(x, Tail(s)) <=> In(x, s) /\ Head(s) # x
<1>1. /\ DOMAIN s = 1..Len(s) /\ Len(s) \in Nat \ {0}
      /\ Tail(s) \in Seq(S)
      /\ DOMAIN Tail(s) = 1..(Len(s) - 1)
      /\ \A i \in 1..(Len(s) - 1) : Tail(s)[i] = s[i + 1]
      /\ Head(s) = s[1]
  BY HeadTailProperties, LenProperties, EmptySeq
<1>2. AtMostOnce(x, Tail(s))
  BY <1>1 DEF AtMostOnce
<1>3. In(x, Tail(s)) => In(x, s) /\ Head(s) # x
  BY <1>1 DEF In, AtMostOnce
<1>4. ASSUME In(x, s), Head(s) # x PROVE In(x, Tail(s))
  <2>1. PICK i \in 1..Len(s) : s[i] = x
    BY <1>1, <1>4 DEF In
  <2>2. i - 1 \in 1..(Len(s) - 1) /\ Tail(s)[i - 1] = x
    BY <1>1, <1>4, <2>1
  <2> QED
    BY <1>1, <2>2 DEF In
<1> QED
  BY <1>2, <1>3, <1>4

(* Appending adds one occurrence.                                           *)
LEMMA InAppend ==
  ASSUME NEW S, NEW s \in Seq(S), NEW y \in S, NEW x
  PROVE  /\ In(x, Append(s, y)) <=> In(x, s) \/ x = y
         /\ AtMostOnce(x, s) /\ (x = y => ~In(x, s)) => AtMostOnce(x, Append(s, y))
<1>1. /\ DOMAIN s = 1..Len(s) /\ Len(s) \in Nat
      /\ DOMAIN Append(s, y) = 1..(Len(s) + 1)
      /\ \A i \in 1..Len(s) : Append(s, y)[i] = s[i]
      /\ Append(s, y)[Len(s) + 1] = y
  BY AppendProperties, LenProperties
<1>2. In(x, Append(s, y)) => In(x, s) \/ x = y
  BY <1>1 DEF In
<1>3. In(x, s) => In(x, Append(s, y))
  BY <1>1 DEF In
<1>4. x = y => In(x, Append(s, y))
  BY <1>1 DEF In
<1>5. ASSUME AtMostOnce(x, s), x = y => ~In(x, s)
      PROVE  AtMostOnce(x, Append(s, y))
  BY <1>1, <1>5 DEF In, AtMostOnce
<1> QED
  BY <1>2, <1>3, <1>4, <1>5

(* The descriptors of a batch and those of what is left of it.              *)
LEMMA FdsTail ==
  ASSUME NEW S, NEW Y, NEW s \in Seq([fd : S, type : Y]), s # <<>>
  PROVE  /\ Fds(s) \in Seq(S) /\ Fds(s) # <<>>
         /\ Head(Fds(s)) = Head(s).fd
         /\ Fds(Tail(s)) = Tail(Fds(s))
<1> DEFINE R == [fd : S, type : Y]
<1>0. s \in Seq(R)
  OBVIOUS
<1> HIDE DEF R
<1>a. DOMAIN s = 1..Len(s) /\ Len(s) \in Nat \ {0} /\ Head(s) = s[1]
  BY <1>0, LenProperties, EmptySeq
<1>b. /\ Tail(s) \in Seq(R)
      /\ Len(Tail(s)) = Len(s) - 1
      /\ \A i \in 1..(Len(s) - 1) : Tail(s)[i] = s[i + 1]
  BY <1>0, <1>a, HeadTailProperties
<1>c. DOMAIN Tail(s) = 1..(Len(s) - 1)
  BY <1>b, LenProperties
<1>d. \A i \in 1..Len(s) : s[i] \in R
  BY <1>0, ElementOfSeq
<1>1. /\ DOMAIN s = 1..Len(s) /\ Len(s) \in Nat \ {0} /\ Head(s) = s[1]
      /\ DOMAIN Tail(s) = 1..(Len(s) - 1)
      /\ \A i \in 1..(Len(s) - 1) : Tail(s)[i] = s[i + 1]
  BY <1>a, <1>b, <1>c
<1>2. \A i \in 1..Len(s) : s[i].fd \in S
  BY <1>d DEF R
<1>3. Fds(s) \in Seq(S) /\ Len(Fds(s)) = Len(s)
  BY <1>1, <1>2 DEF Fds
<1>4. Fds(s) # <<>>
  BY <1>1, <1>3
<1>5. Head(Fds(s)) = Head(s).fd
  BY <1>1, <1>3 DEF Fds
<1>6. /\ Fds(Tail(s)) = [i \in 1..(Len(s) - 1) |-> s[i + 1].fd]
  BY <1>1 DEF Fds
<1>e. \A i \in 1..(Len(s) - 1) : s[i + 1].fd \in S
  BY <1>1, <1>2
<1>7. /\ Fds(Tail(s)) \in Seq(S) /\ Len(Fds(Tail(s))) = Len(s) - 1
  <2>1. Fds(Tail(s)) \in [1..(Len(s) - 1) -> S]
    BY <1>6, <1>e
  <2>2. Len(s) - 1 \in Nat
    BY <1>1
  <2> QED
    BY <2>1, <2>2
<1>8. /\ Tail(Fds(s)) \in Seq(S) /\ Len(Tail(Fds(s))) = Len(s) - 1
      /\ \A i \in 1..(Len(s) - 1) : Tail(Fds(s))[i] = s[i + 1].fd
  BY <1>1, <1>3, <1>4, HeadTailProperties DEF Fds
<1>9. Fds(Tail(s)) = Tail(Fds(s))
  BY <1>6, <1>7, <1>8, SeqEqual
<1> QED
  BY <1>3, <1>4, <1>5, <1>9

(* What epoll_wait reports names each ready descriptor once, and no other.  *)
LEMMA FdsOfOrder ==
  ASSUME NEW S, IsFiniteSet(S), NEW order \in SetToSeqs(S),
         NEW events, DOMAIN events = DOMAIN order,
         \A i \in DOMAIN order : events[i].fd = order[i],
         NEW x
  PROVE  /\ AtMostOnce(x, Fds(events))
         /\ In(x, Fds(events)) <=> x \in S
<1>1. /\ Cardinality(S) \in Nat
      /\ order \in [1..Cardinality(S) -> S]
      /\ \A i, j \in 1..Cardinality(S) : i # j => order[i] # order[j]
  BY FS_CardinalityType DEF SetToSeqs
<1>2. Fds(events) = order
  BY <1>1 DEF Fds
<1>3. order \in Injection(1..Cardinality(S), S)
  BY <1>1, Fun_IsInj
<1>4. IsFiniteSet(1..Cardinality(S)) /\ Cardinality(1..Cardinality(S)) = Cardinality(S)
  BY <1>1, FS_Interval
<1>5. order \in Surjection(1..Cardinality(S), S)
  <2> DEFINE D == 1..Cardinality(S)
  <2>1. order \in Injection(D, S) /\ Cardinality(D) = Cardinality(S)
    BY <1>3, <1>4
  <2> HIDE DEF D
  <2>2. order \in Surjection(D, S)
    BY <2>1, FS_Injection
  <2> QED
    BY <2>2 DEF D
<1>6. \A y \in S : \E i \in 1..Cardinality(S) : order[i] = y
  BY <1>5 DEF Surjection
<1>7. AtMostOnce(x, order)
  BY <1>1 DEF AtMostOnce
<1>8. In(x, order) <=> x \in S
  BY <1>1, <1>6 DEF In
<1> QED
  BY <1>2, <1>7, <1>8
-----------------------------------------------------------------------------
(* In the beginning nothing is open, registered or in hand.                  *)
LEMMA ServerInvInit == Init => ServerInv
<1> SUFFICES ASSUME Init PROVE ServerInv
  OBVIOUS
<1> USE ServerAssumption DEF Init, Pool!Init
<1>1. Types
  <2>1. Main \in Threads /\ loaded \in [Threads -> Int] /\ m_sockfd \in [Fd -> Int]
    BY DEF Threads
  <2>2. batch \in Seq(Event) /\ pending \in Seq(Fd)
    BY EmptySeq
  <2> QED
    BY <2>1, <2>2 DEF Types
<1>2. InHandWhereUsed /\ ArmedOpen /\ ClosingGone /\ RacedReused /\ FieldsMatch
  BY DEF InHandWhereUsed, ArmedOpen, ClosingGone, RacedReused, FieldsMatch
<1>3. HeldOnce
  <2> SUFFICES ASSUME NEW fd \in Fd PROVE Once(fd) /\ Places(fd) = Bit(fd \in open)
    BY DEF HeldOnce
  <2>1. ~InBatch(fd) /\ ~Waiting(fd) /\ AtMostOnce(fd, Fds(batch)) /\ AtMostOnce(fd, pending)
    BY DEF InBatch, Waiting, In, AtMostOnce, Fds
  <2>2. ~InHand(fd) /\ ~Served(fd) /\ ~Armed(fd) /\ \A w \in Workers : ~Processes(w, fd)
    BY DEF InHand, Served, Processes, Armed
  <2> QED
    BY <2>1, <2>2 DEF Once, OneWorker, Places, Bit
<1> QED
  BY <1>1, <1>2, <1>3 DEF ServerInv

(* The places exclude one another, and what is at one is open.              *)
LEMMA OnePlace ==
  ASSUME HeldOnce, NEW fd \in Fd \ raced
  PROVE  /\ Armed(fd) \/ InBatch(fd) \/ InHand(fd) \/ Waiting(fd) \/ Served(fd)
              \/ fd \in refused => fd \in open
         /\ Served(fd) => ~InHand(fd) /\ ~Armed(fd)
         /\ InHand(fd) => ~Armed(fd)
         /\ InBatch(fd) => ~InHand(fd) /\ ~Armed(fd)
<1>1. Places(fd) = Bit(fd \in open)
  BY DEF HeldOnce
<1> HIDE DEF Armed, InBatch, InHand, Waiting, Served
<1> QED
  BY <1>1 DEF Places, Bit

(* The events of epoll_wait are events of descriptors, each ready one once. *)
LEMMA EpollBatch ==
  ASSUME Types, EpollWait
  PROVE  /\ batch' \in Seq(Event)
         /\ \A fd \in Fd : AtMostOnce(fd, Fds(batch))' /\ (InBatch(fd)' <=> Ready(fd))
<1> DEFINE ready == {fd \in Fd : Ready(fd)}
           fired == ready \cup (IF listenEdge /\ backlog > 0 THEN {Listener} ELSE {})
<1>1. PICK order \in SetToSeqs(fired) :
        batch' = [i \in DOMAIN order |->
                    [fd |-> order[i],
                     type |-> IF order[i] = Listener THEN "IN" ELSE EventType(order[i])]]
  BY DEF EpollWait
<1>2. IsFiniteSet(ready)
  <2>1. ready \in SUBSET Fd /\ IsFiniteSet(Fd)
    BY ServerAssumption
  <2> HIDE DEF ready
  <2> QED
    BY <2>1, FS_Subset
<1>3. IsFiniteSet(fired)
  BY <1>2, FS_AddElement
<1>4. Cardinality(fired) \in Nat
  BY <1>3, FS_CardinalityType
<1>5. order \in [1..Cardinality(fired) -> fired]
  BY DEF SetToSeqs
<1>6. ASSUME NEW x \in fired
      PROVE  [fd |-> x, type |-> IF x = Listener THEN "IN" ELSE EventType(x)] \in Event
  <2>1. CASE x = Listener
    BY <2>1 DEF Event
  <2>2. CASE x # Listener
    <3>1. x \in Fd /\ Ready(x)
      BY <1>6, <2>2
    <3>2. EventType(x) \in {"IN", "OUT", "HUP"}
      BY <3>1 DEF EventType, Ready
    <3> QED
      BY <3>1, <3>2, <2>2 DEF Event
  <2> QED
    BY <2>1, <2>2
<1> HIDE DEF ready, fired
<1>7. batch' \in Seq(Event)
  <2>1. batch' \in [1..Cardinality(fired) -> Event]
    BY <1>1, <1>5, <1>6
  <2> QED
    BY <2>1, <1>4
<1>8. ASSUME NEW fd \in Fd
      PROVE  AtMostOnce(fd, Fds(batch))' /\ (InBatch(fd)' <=> fd \in fired)
  <2>1. DOMAIN batch' = DOMAIN order /\ \A i \in DOMAIN order : batch'[i].fd = order[i]
    BY <1>1
  <2>2. AtMostOnce(fd, Fds(batch')) /\ (In(fd, Fds(batch')) <=> fd \in fired)
    BY <2>1, <1>3, FdsOfOrder
  <2> QED
    BY <2>2 DEF InBatch, In, AtMostOnce, Fds
<1>9. \A fd \in Fd : fd \in fired <=> Ready(fd)
  BY ServerAssumption DEF fired, ready
<1> QED
  BY <1>7, <1>8, <1>9

(* Every step of the loop, a worker or a client keeps the types.             *)
LEMMA TypesNext == ServerInv /\ [Next]_vars => Types'
<1> SUFFICES ASSUME ServerInv, [Next]_vars PROVE Types'
  OBVIOUS
<1> USE ServerAssumption
    DEF ServerInv, Types, InHandWhereUsed, sessionVars, kernelVars, listenVars, mainVars, poolVars,
        countVars, envVars, historyVars, Modfd, Removefd, Closes, Fills, Load, Store, Returns,
        MainCloses, Handling, Threads,
        Pool!Submit, Pool!Take, Pool!Finish
<1>1. CASE ClientConnects
  BY <1>1 DEF ClientConnects
<1>2. ASSUME NEW fd \in Fd, ClientSends(fd) \/ ClientEnds(fd) \/ ClientReads(fd) PROVE Types'
  BY <1>2 DEF ClientSends, ClientEnds, ClientReads
<1>t. batch # <<>> => Tail(batch) \in Seq(Event)
  BY HeadTailProperties
<1>3. CASE EpollWait
  <2> USE <1>3 DEF EpollWait
  <2>1. batch' \in Seq(Event)
    BY EpollBatch
  <2>2. armed' \in [Fd -> {"none", "IN", "OUT"}]
    OBVIOUS
  <2> QED
    BY <2>1, <2>2
<1>4. ASSUME NEW fd \in Fd, Accept(fd) PROVE Types'
  BY <1>4, <1>t DEF Accept
<1>5. CASE ShowError
  BY <1>5 DEF ShowError
<1>6. CASE AcceptFails
  BY <1>6 DEF AcceptFails
<1>7. CASE InitSockfd
  BY <1>7 DEF InitSockfd
<1>8. CASE InitAddfd
  BY <1>8 DEF InitAddfd
<1>9. CASE InitLoad
  BY <1>9 DEF InitLoad
<1>10. CASE InitStore
  BY <1>10 DEF InitStore
<1>11. ASSUME NEW fd \in Fd, HandleHangup(fd) PROVE Types'
  <2>1. batch' \in Seq(Event)
    BY <1>11, <1>t DEF HandleHangup
  <2>2. /\ m_sockfd' = m_sockfd \/ m_sockfd' = [m_sockfd EXCEPT ![fd] = -1]
        /\ open' \subseteq Fd
    BY <1>11 DEF HandleHangup
  <2>3. m_sockfd' \in [Fd -> Int] /\ \A x \in Fd : m_sockfd'[x] \in {x, -1}
    BY <2>2
  <2>4. armed' \in [Fd -> {"none", "IN", "OUT"}]
    BY <1>11 DEF HandleHangup
  <2> QED
    BY <1>11, <2>1, <2>2, <2>3, <2>4 DEF HandleHangup
<1>12. ASSUME NEW fd \in Fd, HandleRead(fd) PROVE Types'
  <2>1. batch' \in Seq(Event)
    BY <1>12, <1>t DEF HandleRead
  <2>2. /\ m_sockfd' = m_sockfd \/ m_sockfd' = [m_sockfd EXCEPT ![fd] = -1]
        /\ open' \subseteq Fd
    BY <1>12 DEF HandleRead
  <2>3. m_sockfd' \in [Fd -> Int] /\ \A x \in Fd : m_sockfd'[x] \in {x, -1}
    BY <2>2
  <2>4. armed' \in [Fd -> {"none", "IN", "OUT"}]
    BY <1>12 DEF HandleRead
  <2> QED
    BY <1>12, <2>1, <2>2, <2>3, <2>4 DEF HandleRead
<1>13. ASSUME NEW fd \in Fd, HandleWrite(fd) PROVE Types'
  <2>1. batch' \in Seq(Event)
    BY <1>13, <1>t DEF HandleWrite
  <2>2. /\ m_sockfd' = m_sockfd \/ m_sockfd' = [m_sockfd EXCEPT ![fd] = -1]
        /\ open' \subseteq Fd
    BY <1>13 DEF HandleWrite
  <2>3. m_sockfd' \in [Fd -> Int] /\ \A x \in Fd : m_sockfd'[x] \in {x, -1}
    BY <2>2
  <2>4. armed' \in [Fd -> {"none", "IN", "OUT"}]
    BY <1>13 DEF HandleWrite
  <2> QED
    BY <1>13, <2>1, <2>2, <2>3, <2>4 DEF HandleWrite
<1>14. CASE AppendAccepted
  BY <1>14 DEF AppendAccepted
<1>15. CASE AppendRefused
  BY <1>15 DEF AppendRefused
<1>16. CASE CloseLoad
  BY <1>16 DEF CloseLoad
<1>17. CASE CloseStore
  BY <1>17 DEF CloseStore
<1>18. ASSUME NEW w \in Workers, WorkerTakes(w) PROVE Types'
  BY <1>18 DEF WorkerTakes
<1>19. ASSUME NEW w \in Workers, WorkerNeedsMore(w) PROVE Types'
  BY <1>19 DEF WorkerNeedsMore
<1>20. ASSUME NEW w \in Workers, WorkerResponds(w) PROVE Types'
  BY <1>20 DEF WorkerResponds
<1>21. ASSUME NEW w \in Workers, WorkerCloses(w) PROVE Types'
  <2>1. open' \subseteq Fd /\ armed' \in [Fd -> {"none", "IN", "OUT"}]
    BY <1>21 DEF WorkerCloses
  <2>2. doubled' \in Nat
    BY <1>21 DEF WorkerCloses
  <2>3. wpc' \in [Workers -> {"idle", "process", "forget", "load", "store", "modfd"}]
    BY <1>21 DEF WorkerCloses
  <2> QED
    BY <1>21, <2>1, <2>2, <2>3 DEF WorkerCloses
<1>22. ASSUME NEW w \in Workers, WorkerForgets(w) PROVE Types'
  BY <1>22 DEF WorkerForgets
<1>23. ASSUME NEW w \in Workers, WorkerLoads(w) PROVE Types'
  BY <1>23 DEF WorkerLoads
<1>24. ASSUME NEW w \in Workers, WorkerStores(w) PROVE Types'
  BY <1>24 DEF WorkerStores
<1>25. ASSUME NEW w \in Workers, WorkerModfd(w) PROVE Types'
  BY <1>25 DEF WorkerModfd
<1>26. CASE UNCHANGED vars
  BY <1>26 DEF vars
<1> HIDE DEF ServerInv, Types
<1> QED
  BY <1>1, <1>2, <1>3, <1>4, <1>5, <1>6, <1>7, <1>8, <1>9, <1>10, <1>11, <1>12,
     <1>13, <1>14, <1>15, <1>16, <1>17, <1>18, <1>19, <1>20, <1>21, <1>22, <1>23,
     <1>24, <1>25, <1>26 DEF Next, MainStep, WorkerStep

(* The parts of the invariant that say where the threads are.               *)
Control ==
  InHandWhereUsed /\ ArmedOpen /\ ClosingGone /\ RacedReused /\ FieldsMatch

(* Every step keeps what the counters of the threads promise: who is in      *)
(* hand, what is armed, whose fields still name their socket.                *)
LEMMA ControlNext == ServerInv /\ [Next]_vars => Control'
<1> SUFFICES ASSUME ServerInv, [Next]_vars PROVE Control'
  OBVIOUS
<1>0. /\ Types /\ InHandWhereUsed /\ ArmedOpen /\ ClosingGone /\ RacedReused
      /\ FieldsMatch /\ HeldOnce
  BY DEF ServerInv
<1> USE <1>0, ServerAssumption
    DEF Control, Types, InHandWhereUsed, ArmedOpen, ClosingGone, RacedReused, FieldsMatch,
        sessionVars, kernelVars, listenVars, mainVars, poolVars,
        countVars, envVars, historyVars, Modfd, Registered, Removefd, Closes, Load, Store,
        Returns, MainCloses, Handling, Pool!Submit, Pool!Take, Pool!Finish
<1>a. ASSUME NEW fd \in Fd, ClientSends(fd) \/ ClientEnds(fd) \/ ClientReads(fd) PROVE Control'
  BY <1>a DEF ClientSends, ClientEnds, ClientReads
<1>1. CASE ClientConnects
  BY <1>1 DEF ClientConnects
<1>2. CASE EpollWait
  BY <1>2 DEF EpollWait
<1>3. ASSUME NEW fd \in Fd, Accept(fd) PROVE Control'
  <2>1. InHandWhereUsed'
    BY <1>3 DEF Accept, StillUsed
  <2>2. ArmedOpen'
    BY <1>3 DEF Accept, StillUsed
  <2>3. ClosingGone'
    BY <1>3 DEF Accept, StillUsed
  <2>4. RacedReused'
    BY <1>3 DEF Accept, StillUsed
  <2>5. FieldsMatch'
    BY <1>3 DEF Accept, StillUsed
  <2> QED
    BY <2>1, <2>2, <2>3, <2>4, <2>5
<1>4. CASE ShowError
  BY <1>4 DEF ShowError
<1>5. CASE AcceptFails
  BY <1>5 DEF AcceptFails
<1>6. CASE InitSockfd
  BY <1>6 DEF InitSockfd
<1>7. CASE InitAddfd
  BY <1>7 DEF InitAddfd
<1>8. CASE InitLoad
  BY <1>8 DEF InitLoad
<1>9. CASE InitStore
  BY <1>9 DEF InitStore
<1>10. ASSUME NEW fd \in Fd, HandleHangup(fd) PROVE Control'
  <2>1. InHandWhereUsed'
    BY <1>10 DEF HandleHangup
  <2>2. ArmedOpen'
    BY <1>10 DEF HandleHangup
  <2>3. ClosingGone'
    BY <1>10 DEF HandleHangup
  <2>4. RacedReused'
    BY <1>10 DEF HandleHangup
  <2>5. FieldsMatch'
    <3>1. /\ mpc = "loop" /\ raced' = raced
          /\ \/ m_sockfd' = m_sockfd /\ open' = open
             \/ m_sockfd' = [m_sockfd EXCEPT ![fd] = -1] /\ open' = open \ {fd}
      BY <1>10 DEF HandleHangup
    <3>2. \A x \in open \ raced : m_sockfd[x] = x
      BY <3>1
    <3>3. \A x \in open' \ raced' : m_sockfd'[x] = x
      BY <3>1, <3>2
    <3> QED
      BY <3>3
  <2> QED
    BY <2>1, <2>2, <2>3, <2>4, <2>5
<1>11. ASSUME NEW fd \in Fd, HandleRead(fd) PROVE Control'
  <2>1. InHandWhereUsed'
    BY <1>11 DEF HandleRead
  <2>2. ArmedOpen'
    BY <1>11 DEF HandleRead
  <2>3. ClosingGone'
    BY <1>11 DEF HandleRead
  <2>4. RacedReused'
    BY <1>11 DEF HandleRead
  <2>5. FieldsMatch'
    <3>1. /\ mpc = "loop" /\ raced' = raced
          /\ \/ m_sockfd' = m_sockfd /\ open' = open
             \/ m_sockfd' = [m_sockfd EXCEPT ![fd] = -1] /\ open' = open \ {fd}
      BY <1>11 DEF HandleRead
    <3>2. \A x \in open \ raced : m_sockfd[x] = x
      BY <3>1
    <3>3. \A x \in open' \ raced' : m_sockfd'[x] = x
      BY <3>1, <3>2
    <3> QED
      BY <3>3
  <2> QED
    BY <2>1, <2>2, <2>3, <2>4, <2>5
<1>12. ASSUME NEW fd \in Fd, HandleWrite(fd) PROVE Control'
  <2>1. InHandWhereUsed'
    BY <1>12 DEF HandleWrite
  <2>2. ArmedOpen'
    BY <1>12 DEF HandleWrite
  <2>3. ClosingGone'
    BY <1>12 DEF HandleWrite
  <2>4. RacedReused'
    BY <1>12 DEF HandleWrite
  <2>5. FieldsMatch'
    <3>1. /\ mpc = "loop" /\ raced' = raced
          /\ \/ m_sockfd' = m_sockfd /\ open' = open
             \/ m_sockfd' = [m_sockfd EXCEPT ![fd] = -1] /\ open' = open \ {fd}
      BY <1>12 DEF HandleWrite
    <3>2. \A x \in open \ raced : m_sockfd[x] = x
      BY <3>1
    <3>3. \A x \in open' \ raced' : m_sockfd'[x] = x
      BY <3>1, <3>2
    <3> QED
      BY <3>3
  <2> QED
    BY <2>1, <2>2, <2>3, <2>4, <2>5
<1>13. CASE AppendAccepted
  BY <1>13 DEF AppendAccepted
<1>14. CASE AppendRefused
  BY <1>14 DEF AppendRefused
<1>15. CASE CloseLoad
  BY <1>15 DEF CloseLoad
<1>16. CASE CloseStore
  BY <1>16 DEF CloseStore
<1>17. ASSUME NEW w \in Workers, WorkerTakes(w) PROVE Control'
  BY <1>17 DEF WorkerTakes
<1>18. ASSUME NEW w \in Workers, WorkerNeedsMore(w) PROVE Control'
  BY <1>18 DEF WorkerNeedsMore
<1>19. ASSUME NEW w \in Workers, WorkerResponds(w) PROVE Control'
  BY <1>19 DEF WorkerResponds
<1>20. ASSUME NEW w \in Workers, WorkerCloses(w) PROVE Control'
  <2>1. InHandWhereUsed'
    BY <1>20 DEF WorkerCloses
  <2>2. ArmedOpen'
    BY <1>20 DEF WorkerCloses
  <2>3. ClosingGone'
    <3>1. UNCHANGED <<running, raced>> /\ open' \subseteq open
      BY <1>20 DEF WorkerCloses
    <3>2. \A v \in Workers \ {w} : wpc'[v] = wpc[v]
      BY <1>20 DEF WorkerCloses
    <3>3. running[w] \in raced \/ running[w] \notin open'
      <4>1. CASE m_sockfd[running[w]] # -1
        BY <4>1, <1>20 DEF WorkerCloses
      <4>2. CASE m_sockfd[running[w]] = -1 /\ running[w] \notin raced
        <5>1. running[w] \in Fd \ raced /\ Served(running[w])
          BY <1>20, <4>2 DEF WorkerCloses, Served, Processes
        <5>2. ~InHand(running[w])
          BY <5>1, OnePlace
        <5>3. ~(mfd = running[w] /\ mpc = "init")
          BY <5>2 DEF InHand
        <5>4. running[w] \in Nat
          BY <5>1
        <5>5. running[w] \in open => m_sockfd[running[w]] = running[w]
          BY <5>1, <5>3
        <5>6. running[w] \notin open
          BY <5>4, <5>5, <4>2
        <5> QED
          BY <5>6, <3>1
      <4> QED
        BY <4>1, <4>2
    <3> QED
      BY <3>1, <3>2, <3>3
  <2>4. RacedReused'
    BY <1>20 DEF WorkerCloses
  <2>5. FieldsMatch'
    <3>1. open' \subseteq open /\ UNCHANGED <<m_sockfd, raced, mfd, mpc>>
      BY <1>20 DEF WorkerCloses
    <3> QED
      BY <3>1
  <2> QED
    BY <2>1, <2>2, <2>3, <2>4, <2>5
<1>21. ASSUME NEW w \in Workers, WorkerForgets(w) PROVE Control'
  BY <1>21 DEF WorkerForgets
<1>22. ASSUME NEW w \in Workers, WorkerLoads(w) PROVE Control'
  BY <1>22 DEF WorkerLoads
<1>23. ASSUME NEW w \in Workers, WorkerStores(w) PROVE Control'
  BY <1>23 DEF WorkerStores
<1>24. ASSUME NEW w \in Workers, WorkerModfd(w) PROVE Control'
  BY <1>24 DEF WorkerModfd
<1>25. CASE UNCHANGED vars
  BY <1>25 DEF vars
<1> HIDE DEF Control
<1> QED
  BY <1>a, <1>1, <1>2, <1>3, <1>4, <1>5, <1>6, <1>7, <1>8, <1>9, <1>10, <1>11, <1>12, <1>13, <1>14, <1>15, <1>16, <1>17, <1>18, <1>19, <1>20, <1>21, <1>22, <1>23, <1>24, <1>25 DEF Next, MainStep, WorkerStep
-----------------------------------------------------------------------------
(* How a step moves sessions between places: taking the batch's first event,*)
LEMMA BatchTail ==
  ASSUME Types, NEW x, Handling(x), batch' = Tail(batch),
         NEW fd \in Fd, Once(fd)
  PROVE  /\ AtMostOnce(fd, Fds(batch))'
         /\ InBatch(fd)' <=> InBatch(fd) /\ fd # x
         /\ fd = x => InBatch(fd)
<1>1. batch \in Seq(Event) /\ batch # <<>> /\ Head(batch).fd = x
  BY DEF Types, Handling
<1>2. /\ Fds(batch) \in Seq(Fd \cup {Listener}) /\ Fds(batch) # <<>>
      /\ Head(Fds(batch)) = x
      /\ Fds(Tail(batch)) = Tail(Fds(batch))
  BY <1>1, FdsTail DEF Event
<1>3. AtMostOnce(fd, Fds(batch))
  BY DEF Once
<1>4. /\ AtMostOnce(fd, Tail(Fds(batch)))
      /\ In(fd, Tail(Fds(batch))) <=> In(fd, Fds(batch)) /\ x # fd
  BY <1>2, <1>3, InTail
<1>5. Fds(batch)' = Tail(Fds(batch))
  BY <1>2 DEF Fds
<1>6. AtMostOnce(fd, Fds(batch))' /\ (In(fd, Fds(batch))' <=> In(fd, Fds(batch)) /\ fd # x)
  <2>1. AtMostOnce(fd, Fds(batch))' <=> AtMostOnce(fd, Tail(Fds(batch)))
    BY <1>5 DEF AtMostOnce
  <2>2. In(fd, Fds(batch))' <=> In(fd, Tail(Fds(batch)))
    BY <1>5 DEF In
  <2> QED
    BY <2>1, <2>2, <1>4
<1>7. fd = x => In(fd, Fds(batch))
  <2>1. Fds(batch)[1] = x /\ 1 \in DOMAIN Fds(batch)
    BY <1>2, LenProperties, EmptySeq
  <2> QED
    BY <2>1 DEF In
<1> QED
  BY <1>6, <1>7 DEF InBatch

(* leaving the batch alone,                                                 *)
LEMMA BatchSame ==
  ASSUME batch' = batch, NEW fd, Once(fd)
  PROVE  AtMostOnce(fd, Fds(batch))' /\ (InBatch(fd)' <=> InBatch(fd))
BY DEF Once, InBatch, In, AtMostOnce, Fds

(* leaving the pool's queue alone,                                          *)
LEMMA QueueSame ==
  ASSUME pending' = pending, NEW fd, Once(fd)
  PROVE  AtMostOnce(fd, pending)' /\ (Waiting(fd)' <=> Waiting(fd))
BY DEF Once, Waiting, In, AtMostOnce

(* no worker beginning or ending to process,                                *)
LEMMA WorkersSame ==
  ASSUME running' = running, NEW fd, Once(fd),
         \A w \in Workers : wpc'[w] = "process" <=> wpc[w] = "process"
  PROVE  OneWorker(fd)' /\ (Served(fd)' <=> Served(fd))
BY DEF Once, OneWorker, Served, Processes

(* and one worker leaving process.                                          *)
LEMMA WorkerLeaves ==
  ASSUME Types, NEW fd \in Fd, Once(fd), NEW w \in Workers, wpc[w] = "process",
         NEW pc, pc # "process", wpc' = [wpc EXCEPT ![w] = pc],
         \A v \in Workers \ {w} : running'[v] = running[v]
  PROVE  /\ OneWorker(fd)'
         /\ Served(fd)' <=> Served(fd) /\ fd # running[w]
         /\ fd = running[w] => Served(fd)
<1> USE DEF Types
<1>1. \A v \in Workers : Processes(v, fd)' <=> Processes(v, fd) /\ v # w
  BY DEF Processes
<1>2. OneWorker(fd)
  BY DEF Once, OneWorker
<1>3. OneWorker(fd)'
  BY <1>1, <1>2 DEF OneWorker
<1>4. Processes(w, fd) <=> fd = running[w]
  BY DEF Processes
<1>5. Served(fd)' <=> \E v \in Workers \ {w} : Processes(v, fd)
  BY <1>1 DEF Served
<1> QED
  BY <1>2, <1>3, <1>4, <1>5 DEF Served, OneWorker

(* A step that moves nothing.                                               *)
LEMMA Unmoved ==
  ASSUME HeldOnce, NEW fd \in Fd \ raced,
         UNCHANGED <<armed, batch, pending, running, refused, open>>,
         InHand(fd)' <=> InHand(fd),
         \A w \in Workers : wpc'[w] = "process" <=> wpc[w] = "process"
  PROVE  (Once(fd) /\ Places(fd) = Bit(fd \in open))'
<1>1. Once(fd) /\ Places(fd) = Bit(fd \in open)
  BY DEF HeldOnce
<1>2. AtMostOnce(fd, Fds(batch))' /\ (InBatch(fd)' <=> InBatch(fd))
  BY <1>1, BatchSame
<1>3. AtMostOnce(fd, pending)' /\ (Waiting(fd)' <=> Waiting(fd))
  BY <1>1, QueueSame
<1>4. OneWorker(fd)' /\ (Served(fd)' <=> Served(fd))
  BY <1>1, WorkersSame
<1>5. Armed(fd)' <=> Armed(fd)
  BY DEF Armed
<1>6. Once(fd)'
  BY <1>2, <1>3, <1>4 DEF Once, OneWorker
<1> HIDE DEF Armed, InBatch, InHand, Waiting, Served
<1>7. Places(fd)' = Bit(fd \in open)'
  BY <1>1, <1>2, <1>3, <1>4, <1>5 DEF Places, Bit
<1> QED
  BY <1>6, <1>7
(* The steps that move sessions, each for any session it concerns or not.   *)
LEMMA HeldEpollWait ==
  ASSUME ServerInv, EpollWait, NEW fd \in Fd \ raced
  PROVE  (Once(fd) /\ Places(fd) = Bit(fd \in open))'
<1>1. Once(fd) /\ Places(fd) = Bit(fd \in open)
  BY DEF ServerInv, HeldOnce
<1>2. UNCHANGED <<pending, running, wpc, refused, open, mpc, mfd>> /\ batch = <<>>
  BY DEF EpollWait, poolVars, historyVars
<1>3. AtMostOnce(fd, Fds(batch))' /\ (InBatch(fd)' <=> Ready(fd))
  <2>1. Types
    BY DEF ServerInv
  <2> QED
    BY <2>1, EpollBatch
<1>4. AtMostOnce(fd, pending)' /\ (Waiting(fd)' <=> Waiting(fd))
  BY <1>1, <1>2, QueueSame
<1>5. OneWorker(fd)' /\ (Served(fd)' <=> Served(fd))
  BY <1>1, <1>2, WorkersSame
<1>6. Armed(fd)' <=> Armed(fd) /\ ~Ready(fd)
  BY DEF Armed, EpollWait
<1>7. Ready(fd) => Armed(fd)
  BY DEF Ready, Armed
<1>8. ~InBatch(fd) /\ (InHand(fd)' <=> InHand(fd))
  BY <1>2 DEF InBatch, In, Fds, InHand
<1>9. Once(fd)'
  BY <1>3, <1>4, <1>5 DEF Once
<1> HIDE DEF Armed, InBatch, InHand, Waiting, Served, Ready
<1>10. Places(fd)' = Bit(fd \in open)'
  BY <1>1, <1>2, <1>3, <1>4, <1>5, <1>6, <1>7, <1>8 DEF Places, Bit
<1> QED
  BY <1>9, <1>10

(* A connection that is accepted is in the loop's hands alone.               *)
LEMMA HeldAccept ==
  ASSUME ServerInv, NEW x \in Fd, Accept(x), NEW fd \in Fd \ raced'
  PROVE  (Once(fd) /\ Places(fd) = Bit(fd \in open))'
<1> USE ServerAssumption DEF ServerInv
<1>1. UNCHANGED <<armed, pending, running, wpc>>
  BY DEF Accept, poolVars
<1>2. /\ Handling(Listener) /\ batch' = Tail(batch) /\ x \notin open
      /\ open' = open \cup {x} /\ mpc' = "init" /\ mfd' = x
      /\ refused' = refused \ {x}
      /\ raced' = IF StillUsed(x) THEN raced \cup {x} ELSE raced \ {x}
  BY DEF Accept
<1>4. CASE fd # x
  <2>1. fd \in Fd \ raced
    BY <1>2, <1>4
  <2>2. Once(fd) /\ Places(fd) = Bit(fd \in open)
    BY <2>1 DEF HeldOnce
  <2>3. AtMostOnce(fd, Fds(batch))' /\ (InBatch(fd)' <=> InBatch(fd))
    BY <1>2, <2>1, <2>2, BatchTail
  <2>4. AtMostOnce(fd, pending)' /\ (Waiting(fd)' <=> Waiting(fd))
    BY <1>1, <2>2, QueueSame
  <2>5. OneWorker(fd)' /\ (Served(fd)' <=> Served(fd))
    BY <1>1, <2>2, WorkersSame
  <2>6. (Armed(fd)' <=> Armed(fd)) /\ ~InHand(fd)'
    BY <1>1, <1>2, <1>4 DEF Armed, InHand
  <2>7. ~InHand(fd)
    BY <1>2 DEF Handling, InHand
  <2>8. (fd \in open' <=> fd \in open) /\ (fd \in refused' <=> fd \in refused)
    BY <1>2, <1>4
  <2>9. Once(fd)'
    BY <2>3, <2>4, <2>5 DEF Once
  <2> HIDE DEF Armed, InBatch, InHand, Waiting, Served, ServerInv
  <2>10. Places(fd)' = Bit(fd \in open)'
    BY <2>2, <2>3, <2>4, <2>5, <2>6, <2>7, <2>8 DEF Places, Bit
  <2> QED
    BY <2>9, <2>10
<1>5. CASE fd = x
  <2>1. ~StillUsed(x)
    BY <1>2, <1>5
  <2>2. /\ \A w \in Workers : running[w] # x
        /\ \A i \in DOMAIN pending : pending[i] # x
        /\ \A i \in DOMAIN batch : batch[i].fd # x
    BY <2>1 DEF StillUsed
  <2>3. \A i \in DOMAIN batch' : batch'[i].fd # x
    <3>1. batch \in Seq(Event) /\ batch # <<>>
      BY <1>2 DEF Types, Handling
    <3>2. /\ DOMAIN batch = 1..Len(batch) /\ Len(batch) \in Nat
          /\ DOMAIN batch' = 1..(Len(batch) - 1)
          /\ \A i \in 1..(Len(batch) - 1) : batch'[i] = batch[i + 1]
      BY <1>2, <3>1, HeadTailProperties, LenProperties
    <3> QED
      BY <2>2, <3>2
  <2>4. ~InBatch(fd)' /\ AtMostOnce(fd, Fds(batch))'
    BY <2>3, <1>5 DEF InBatch, In, AtMostOnce, Fds
  <2>5. ~Waiting(fd)' /\ AtMostOnce(fd, pending)'
    BY <2>2, <1>1, <1>5 DEF Waiting, In, AtMostOnce
  <2>6. ~Served(fd)' /\ OneWorker(fd)'
    BY <2>2, <1>1, <1>5 DEF Served, Processes, OneWorker
  <2>7. ~Armed(fd)' /\ InHand(fd)' /\ fd \notin refused' /\ fd \in open'
    BY <1>1, <1>2, <1>5 DEF ArmedOpen, Armed, InHand
  <2>8. Once(fd)'
    BY <2>4, <2>5, <2>6 DEF Once
  <2> HIDE DEF Armed, InBatch, InHand, Waiting, Served, ServerInv
  <2>9. Places(fd)' = Bit(fd \in open)'
    BY <2>4, <2>5, <2>6, <2>7 DEF Places, Bit
  <2> QED
    BY <2>8, <2>9
<1> QED
  BY <1>4, <1>5

(* Registering the new socket passes it from the loop to epoll.              *)
LEMMA HeldInitAddfd ==
  ASSUME ServerInv, InitAddfd, NEW fd \in Fd \ raced
  PROVE  (Once(fd) /\ Places(fd) = Bit(fd \in open))'
<1> USE ServerAssumption DEF ServerInv
<1>1. Once(fd) /\ Places(fd) = Bit(fd \in open)
  BY DEF HeldOnce
<1>2. UNCHANGED <<batch, pending, running, wpc, refused, open, mfd>> /\ mpc = "add" /\ mpc' = "loadup"
  BY DEF InitAddfd, poolVars, historyVars
<1>3. AtMostOnce(fd, Fds(batch))' /\ (InBatch(fd)' <=> InBatch(fd))
  BY <1>1, <1>2, BatchSame
<1>4. AtMostOnce(fd, pending)' /\ (Waiting(fd)' <=> Waiting(fd))
  BY <1>1, <1>2, QueueSame
<1>5. OneWorker(fd)' /\ (Served(fd)' <=> Served(fd))
  BY <1>1, <1>2, WorkersSame
<1>6. ~InHand(fd)' /\ (InHand(fd) <=> fd = mfd)
  BY <1>2 DEF InHand
<1>7. fd = mfd => fd \in open
  BY <1>6, OnePlace
<1>8. Armed(fd)' <=> Armed(fd) \/ fd = mfd
  BY <1>7 DEF Armed, InitAddfd, Types
<1>9. Once(fd)'
  BY <1>3, <1>4, <1>5 DEF Once
<1>10. InHand(fd) => ~Armed(fd)
  BY OnePlace
<1> HIDE DEF Armed, InBatch, InHand, Waiting, Served, ServerInv
<1>11. Places(fd)' = Bit(fd \in open)'
  BY <1>1, <1>2, <1>3, <1>4, <1>5, <1>6, <1>8, <1>10 DEF Places, Bit
<1> QED
  BY <1>9, <1>11
(* Whoever has an event of a session or processes it finds its object       *)
(* naming its own open socket.                                              *)
LEMMA Usable ==
  ASSUME ServerInv, NEW fd \in Fd \ raced, InBatch(fd) \/ Served(fd)
  PROVE  fd \in open /\ m_sockfd[fd] = fd /\ m_sockfd[fd] # -1 /\ Registered(fd)
<1>1. HeldOnce /\ FieldsMatch
  BY DEF ServerInv
<1>2. fd \in open /\ ~InHand(fd)
  BY <1>1, OnePlace
<1>3. ~(mfd = fd /\ mpc \in {"init", "add"})
  BY <1>2 DEF InHand
<1>4. m_sockfd[fd] = fd
  BY <1>1, <1>2, <1>3 DEF FieldsMatch
<1> QED
  BY <1>2, <1>3, <1>4, ServerAssumption DEF Registered

(* modfd through a session's field concerns no other session.               *)
LEMMA ModfdEffect ==
  ASSUME Types, NEW x \in Fd, NEW ev, ev # "none", Modfd(m_sockfd[x], ev), NEW fd \in Fd
  PROVE  /\ fd # x => (Armed(fd)' <=> Armed(fd))
         /\ fd = x /\ m_sockfd[x] = x /\ Registered(x) => Armed(fd)'
         /\ fd = x /\ ~Registered(x) => (Armed(fd)' <=> Armed(fd))
<1>1. m_sockfd[x] \in {x, -1} /\ -1 \notin open /\ armed \in [Fd -> {"none", "IN", "OUT"}]
  BY ServerAssumption DEF Types
<1>2. ~Registered(-1)
  BY <1>1 DEF Registered
<1>3. armed' = armed \/ (Registered(x) /\ armed' = [armed EXCEPT ![x] = ev])
  BY <1>1, <1>2 DEF Modfd
<1>4. m_sockfd[x] = x /\ Registered(x) => armed' = [armed EXCEPT ![x] = ev]
  BY DEF Modfd
<1> QED
  BY <1>1, <1>3, <1>4 DEF Armed

(* close_conn closes what it has in hand, and no other session.             *)
LEMMA MainClosesEffect ==
  ASSUME Types, NEW x \in Fd, MainCloses(x), mpc = "loop", NEW fd \in Fd
  PROVE  /\ fd # x => (Armed(fd)' <=> Armed(fd)) /\ (fd \in open' <=> fd \in open)
         /\ fd = x /\ m_sockfd[x] # -1 => ~Armed(fd)' /\ fd \notin open'
         /\ mpc' \in {"loop", "loaddown"}
BY DEF Types, MainCloses, Closes, Removefd, Armed

(* What the loop does with an event passes the session on once: to epoll,    *)
(* to the pool's caller, or nowhere when it is closed.                       *)
LEMMA HeldHandle ==
  ASSUME ServerInv, NEW x \in Fd,
         HandleHangup(x) \/ HandleRead(x) \/ HandleWrite(x),
         NEW fd \in Fd \ raced
  PROVE  (Once(fd) /\ Places(fd) = Bit(fd \in open))'
<1> USE DEF ServerInv
<1>1. Once(fd) /\ Places(fd) = Bit(fd \in open)
  BY DEF HeldOnce
<1>2. /\ Handling(x) /\ batch' = Tail(batch)
      /\ UNCHANGED <<pending, running, wpc, refused>>
  BY DEF HandleHangup, HandleRead, HandleWrite, poolVars, historyVars
<1>3. /\ AtMostOnce(fd, Fds(batch))'
      /\ InBatch(fd)' <=> InBatch(fd) /\ fd # x
      /\ fd = x => InBatch(fd)
  BY <1>1, <1>2, BatchTail
<1>4. AtMostOnce(fd, pending)' /\ (Waiting(fd)' <=> Waiting(fd))
  BY <1>1, <1>2, QueueSame
<1>5. OneWorker(fd)' /\ (Served(fd)' <=> Served(fd))
  BY <1>1, <1>2, WorkersSame
<1>6. Once(fd)'
  BY <1>3, <1>4, <1>5 DEF Once
<1>7. mpc = "loop" /\ ~InHand(fd)
  BY <1>2 DEF Handling, InHand
<1>8. fd = x => m_sockfd[x] = x /\ m_sockfd[x] # -1 /\ Registered(x) /\ fd \in open /\ ~Armed(x)
  BY <1>3, Usable, OnePlace
<1>9. fd # x => /\ Armed(fd)' <=> Armed(fd)
                /\ fd \in open' <=> fd \in open
                /\ ~InHand(fd)'
  <2>1. CASE HandleHangup(x)
    <3>1. MainCloses(x) /\ mfd' = mfd
      BY <2>1 DEF HandleHangup
    <3> QED
      BY <3>1, <1>7, MainClosesEffect DEF InHand
  <2>2. CASE HandleRead(x)
    <3>1. CASE mpc' = "append" /\ mfd' = x /\ UNCHANGED <<open, armed>>
      BY <3>1 DEF InHand, Armed
    <3>2. CASE MainCloses(x)
      BY <3>2, <1>7, MainClosesEffect DEF InHand
    <3> QED
      BY <2>2, <3>1, <3>2 DEF HandleRead
  <2>3. CASE HandleWrite(x)
    <3>1. ASSUME NEW ev \in {"IN", "OUT"}, Modfd(m_sockfd[x], ev), UNCHANGED <<open, mpc>>
          PROVE  fd # x => (Armed(fd)' <=> Armed(fd)) /\ (fd \in open' <=> fd \in open) /\ ~InHand(fd)'
      BY <3>1, <1>7, ModfdEffect DEF InHand
    <3>2. CASE MainCloses(x)
      BY <3>2, <1>7, MainClosesEffect DEF InHand
    <3> QED
      BY <2>3, <3>1, <3>2 DEF HandleWrite
  <2> QED
    BY <2>1, <2>2, <2>3
<1>10. fd = x => \/ Armed(fd)' /\ ~InHand(fd)' /\ fd \in open'
                 \/ ~Armed(fd)' /\ InHand(fd)' /\ fd \in open'
                 \/ ~Armed(fd)' /\ ~InHand(fd)' /\ fd \notin open'
  <2> SUFFICES ASSUME fd = x PROVE \/ Armed(x)' /\ ~InHand(x)' /\ x \in open'
                                   \/ ~Armed(x)' /\ InHand(x)' /\ x \in open'
                                   \/ ~Armed(x)' /\ ~InHand(x)' /\ x \notin open'
    OBVIOUS
  <2>1. CASE MainCloses(x)
    BY <2>1, <1>7, <1>8, MainClosesEffect DEF InHand
  <2>2. CASE HandleRead(x) /\ mpc' = "append" /\ mfd' = x /\ UNCHANGED <<open, armed>>
    BY <2>2, <1>8 DEF InHand, Armed
  <2>3. ASSUME NEW ev \in {"IN", "OUT"}, Modfd(m_sockfd[x], ev), UNCHANGED <<open, mpc>>
        PROVE  Armed(x)' /\ ~InHand(x)' /\ x \in open'
    BY <2>3, <1>7, <1>8, ModfdEffect DEF InHand
  <2> QED
    BY <2>1, <2>2, <2>3 DEF HandleHangup, HandleRead, HandleWrite
<1> HIDE DEF Armed, InBatch, InHand, Waiting, Served, ServerInv
<1>11. (fd \in refused' <=> fd \in refused)
  BY <1>2
<1>12. CASE fd # x
  BY <1>12, <1>1, <1>3, <1>4, <1>5, <1>6, <1>7, <1>9, <1>11 DEF Places, Bit
<1>13. CASE fd = x
  BY <1>13, <1>1, <1>3, <1>4, <1>5, <1>6, <1>7, <1>8, <1>10, <1>11 DEF Places, Bit
<1> QED
  BY <1>12, <1>13

(* append puts the session into the pool, or leaves it refused.              *)
LEMMA HeldAppend ==
  ASSUME ServerInv, AppendAccepted \/ AppendRefused, NEW fd \in Fd \ raced
  PROVE  (Once(fd) /\ Places(fd) = Bit(fd \in open))'
<1> USE DEF ServerInv
<1>1. Once(fd) /\ Places(fd) = Bit(fd \in open)
  BY DEF HeldOnce
<1>2. /\ UNCHANGED <<armed, batch, running, wpc, open>>
      /\ mpc = "append" /\ mpc' = "loop"
      /\ mfd \in Fd /\ pending \in Seq(Fd)
  BY DEF AppendAccepted, AppendRefused, Pool!Submit, poolVars, kernelVars, Types,
         InHandWhereUsed
<1>3. AtMostOnce(fd, Fds(batch))' /\ (InBatch(fd)' <=> InBatch(fd))
  BY <1>1, <1>2, BatchSame
<1>4. OneWorker(fd)' /\ (Served(fd)' <=> Served(fd))
  BY <1>1, <1>2, WorkersSame
<1>5. (Armed(fd)' <=> Armed(fd)) /\ ~InHand(fd)' /\ (InHand(fd) <=> fd = mfd)
  BY <1>2 DEF Armed, InHand
<1>6. InHand(fd) => ~Waiting(fd) /\ fd \notin refused
  <2> HIDE DEF Armed, InBatch, InHand, Waiting, Served, ServerInv
  <2> QED
    BY <1>1 DEF Places, Bit
<1>7. CASE AppendAccepted
  <2>1. pending' = Append(pending, mfd) /\ refused' = refused
    BY <1>7 DEF AppendAccepted, Pool!Submit, historyVars
  <2>2. AtMostOnce(fd, pending)' /\ (Waiting(fd)' <=> Waiting(fd) \/ fd = mfd)
    <3>1. AtMostOnce(fd, pending) /\ (fd = mfd => ~In(fd, pending))
      BY <1>1, <1>5, <1>6 DEF Once, Waiting
    <3>2. /\ In(fd, Append(pending, mfd)) <=> In(fd, pending) \/ fd = mfd
          /\ AtMostOnce(fd, Append(pending, mfd))
      BY <3>1, <1>2, InAppend
    <3> QED
      BY <2>1, <3>2 DEF Waiting, In, AtMostOnce
  <2>3. Once(fd)'
    BY <1>3, <1>4, <2>2 DEF Once
  <2> HIDE DEF Armed, InBatch, InHand, Waiting, Served, ServerInv
  <2>4. Places(fd)' = Bit(fd \in open)'
    BY <1>1, <1>2, <1>3, <1>4, <1>5, <1>6, <2>1, <2>2 DEF Places, Bit
  <2> QED
    BY <2>3, <2>4
<1>8. CASE AppendRefused
  <2>1. pending' = pending /\ refused' = refused \cup {mfd}
    BY <1>8 DEF AppendRefused, poolVars
  <2>2. AtMostOnce(fd, pending)' /\ (Waiting(fd)' <=> Waiting(fd))
    BY <1>1, <2>1, QueueSame
  <2>3. Once(fd)'
    BY <1>3, <1>4, <2>2 DEF Once
  <2>4. fd \in refused' <=> fd \in refused \/ fd = mfd
    BY <2>1
  <2> HIDE DEF Armed, InBatch, InHand, Waiting, Served, ServerInv
  <2>5. Places(fd)' = Bit(fd \in open)'
    BY <1>1, <1>2, <1>3, <1>4, <1>5, <1>6, <2>2, <2>4 DEF Places, Bit
  <2> QED
    BY <2>3, <2>5
<1> QED
  BY <1>7, <1>8

(* A worker takes the session from the pool's queue.                         *)
LEMMA HeldWorkerTakes ==
  ASSUME ServerInv, NEW w \in Workers, WorkerTakes(w), NEW fd \in Fd \ raced
  PROVE  (Once(fd) /\ Places(fd) = Bit(fd \in open))'
<1> USE DEF ServerInv
<1>1. Once(fd) /\ Places(fd) = Bit(fd \in open)
  BY DEF HeldOnce
<1>2. /\ UNCHANGED <<armed, batch, refused, open, mpc, mfd>>
      /\ pending # <<>> /\ pending' = Tail(pending) /\ pending \in Seq(Fd)
      /\ wpc[w] = "idle" /\ wpc' = [wpc EXCEPT ![w] = "process"]
      /\ running' = [running EXCEPT ![w] = Head(pending)]
  BY DEF WorkerTakes, Pool!Take, kernelVars, mainVars, historyVars, Types
<1>3. AtMostOnce(fd, Fds(batch))' /\ (InBatch(fd)' <=> InBatch(fd))
  BY <1>1, <1>2, BatchSame
<1>4. (Armed(fd)' <=> Armed(fd)) /\ (InHand(fd)' <=> InHand(fd))
  BY <1>2 DEF Armed, InHand
<1>5. /\ AtMostOnce(fd, pending)'
      /\ Waiting(fd)' <=> Waiting(fd) /\ Head(pending) # fd
  <2>1. /\ AtMostOnce(fd, Tail(pending))
        /\ In(fd, Tail(pending)) <=> In(fd, pending) /\ Head(pending) # fd
    BY <1>1, <1>2, InTail DEF Once
  <2> QED
    BY <1>2, <2>1 DEF Waiting, In, AtMostOnce
<1>6. Head(pending) = fd => Waiting(fd)
  <2>1. 1 \in DOMAIN pending /\ Head(pending) = pending[1]
    BY <1>2, LenProperties, EmptySeq
  <2> QED
    BY <2>1 DEF Waiting, In
<1>7. Head(pending) = fd => ~Served(fd)
  <2> HIDE DEF Armed, InBatch, InHand, Waiting, Served, ServerInv
  <2> QED
    BY <1>1, <1>6 DEF Places, Bit
<1>8. \A v \in Workers : Processes(v, fd)' <=> Processes(v, fd) \/ (v = w /\ Head(pending) = fd)
  BY <1>2 DEF Processes, Types
<1>9. Served(fd)' <=> Served(fd) \/ Head(pending) = fd
  BY <1>8 DEF Served
<1>10. OneWorker(fd)'
  <2>1. OneWorker(fd) /\ (Head(pending) = fd => \A v \in Workers : ~Processes(v, fd))
    BY <1>1, <1>7 DEF Once, Served
  <2> QED
    BY <1>8, <2>1 DEF OneWorker
<1>11. Once(fd)'
  BY <1>3, <1>5, <1>10 DEF Once
<1> HIDE DEF Armed, InBatch, InHand, Waiting, Served, ServerInv
<1>12. Places(fd)' = Bit(fd \in open)'
  BY <1>1, <1>2, <1>3, <1>4, <1>5, <1>6, <1>7, <1>9 DEF Places, Bit
<1> QED
  BY <1>11, <1>12

(* A worker that has done hands the session back to epoll by arming it, or   *)
(* closes it.                                                                *)
LEMMA HeldWorkerLeaves ==
  ASSUME ServerInv, NEW w \in Workers,
         WorkerNeedsMore(w) \/ WorkerResponds(w) \/ WorkerCloses(w),
         NEW fd \in Fd \ raced
  PROVE  (Once(fd) /\ Places(fd) = Bit(fd \in open))'
<1> USE DEF ServerInv
<1> DEFINE x == running[w]
<1>1. Once(fd) /\ Places(fd) = Bit(fd \in open)
  BY DEF HeldOnce
<1>2. UNCHANGED <<batch, pending, refused, mpc, mfd>> /\ wpc[w] = "process" /\ x \in Fd
  BY DEF WorkerNeedsMore, WorkerResponds, WorkerCloses, Returns, Pool!Finish, poolVars,
         mainVars, historyVars, Types, InHandWhereUsed
<1>3. AtMostOnce(fd, Fds(batch))' /\ (InBatch(fd)' <=> InBatch(fd))
  BY <1>1, <1>2, BatchSame
<1>4. AtMostOnce(fd, pending)' /\ (Waiting(fd)' <=> Waiting(fd))
  BY <1>1, <1>2, QueueSame
<1>5. /\ OneWorker(fd)'
      /\ Served(fd)' <=> Served(fd) /\ fd # x
      /\ fd = x => Served(fd)
  <2>1. \A v \in Workers \ {w} : running'[v] = running[v]
    BY DEF WorkerNeedsMore, WorkerResponds, WorkerCloses, Returns, Pool!Finish, poolVars, Types
  <2>2. PICK pc \in {"idle", "forget", "modfd"} : wpc' = [wpc EXCEPT ![w] = pc]
    BY DEF WorkerNeedsMore, WorkerResponds, WorkerCloses, Returns
  <2> QED
    BY <1>1, <1>2, <2>1, <2>2, WorkerLeaves
<1>6. Once(fd)'
  BY <1>3, <1>4, <1>5 DEF Once
<1>7. InHand(fd)' <=> InHand(fd)
  BY <1>2 DEF InHand
<1>8. fd = x => m_sockfd[x] = x /\ m_sockfd[x] # -1 /\ Registered(x) /\ fd \in open /\ ~Armed(fd)
  BY <1>5, Usable, OnePlace
<1>9. /\ fd # x => (Armed(fd)' <=> Armed(fd)) /\ (fd \in open' <=> fd \in open)
      /\ fd = x => (Armed(fd)' <=> fd \in open')
  <2>1. ASSUME NEW ev \in {"IN", "OUT"}, Modfd(m_sockfd[x], ev), UNCHANGED open
        PROVE  /\ fd # x => (Armed(fd)' <=> Armed(fd)) /\ (fd \in open' <=> fd \in open)
               /\ fd = x => (Armed(fd)' <=> fd \in open')
    BY <2>1, <1>2, <1>8, ModfdEffect
  <2>2. CASE WorkerCloses(w) /\ m_sockfd[x] # -1
    BY <2>2 DEF WorkerCloses, Closes, Removefd, Armed, Types
  <2>3. CASE WorkerCloses(w) /\ m_sockfd[x] = -1
    BY <2>3, <1>8 DEF WorkerCloses, Armed
  <2> QED
    BY <2>1, <2>2, <2>3 DEF WorkerNeedsMore, WorkerResponds
<1> HIDE DEF Armed, InBatch, InHand, Waiting, Served, ServerInv, x
<1>10. Places(fd)' = Bit(fd \in open)'
  BY <1>1, <1>2, <1>3, <1>4, <1>5, <1>7, <1>8, <1>9 DEF Places, Bit
<1> QED
  BY <1>6, <1>10

(* The modfd after close_conn finds nothing to arm, or a session given out  *)
(* anew.                                                                    *)
LEMMA HeldWorkerModfd ==
  ASSUME ServerInv, NEW w \in Workers, WorkerModfd(w), NEW fd \in Fd \ raced
  PROVE  (Once(fd) /\ Places(fd) = Bit(fd \in open))'
<1> USE DEF ServerInv
<1> DEFINE x == running[w]
<1>1. Once(fd) /\ Places(fd) = Bit(fd \in open)
  BY DEF HeldOnce
<1>2. UNCHANGED <<batch, pending, refused, mpc, mfd, open>> /\ wpc[w] = "modfd" /\ x \in Fd
  BY DEF WorkerModfd, Returns, Pool!Finish, poolVars,
         mainVars, historyVars, Types, InHandWhereUsed
<1>3. AtMostOnce(fd, Fds(batch))' /\ (InBatch(fd)' <=> InBatch(fd))
  BY <1>1, <1>2, BatchSame
<1>4. AtMostOnce(fd, pending)' /\ (Waiting(fd)' <=> Waiting(fd))
  BY <1>1, <1>2, QueueSame
<1>5. \A v \in Workers : Processes(v, fd)' <=> Processes(v, fd)
  BY DEF WorkerModfd, Returns, Pool!Finish, Processes, Types
<1>6. OneWorker(fd)' /\ (Served(fd)' <=> Served(fd))
  BY <1>1, <1>5 DEF Once, OneWorker, Served
<1>7. InHand(fd)' <=> InHand(fd)
  BY <1>2 DEF InHand
<1>8. x \in raced \/ x \notin open
  BY <1>2 DEF ClosingGone
<1>9. Armed(fd)' <=> Armed(fd)
  <2>1. Modfd(m_sockfd[x], "OUT")
    BY DEF WorkerModfd
  <2>2. fd = x => ~Registered(x)
    BY <1>8 DEF Registered
  <2> QED
    BY <1>2, <2>1, <2>2, ModfdEffect
<1>10. Once(fd)'
  BY <1>3, <1>4, <1>6 DEF Once
<1> HIDE DEF Armed, InBatch, InHand, Waiting, Served, ServerInv, x
<1>11. Places(fd)' = Bit(fd \in open)'
  BY <1>1, <1>2, <1>3, <1>4, <1>6, <1>7, <1>9 DEF Places, Bit
<1> QED
  BY <1>10, <1>11

(* An event of the listener is no session's.                                *)
LEMMA HeldListener ==
  ASSUME ServerInv, ShowError \/ AcceptFails, NEW fd \in Fd \ raced
  PROVE  (Once(fd) /\ Places(fd) = Bit(fd \in open))'
<1> USE DEF ServerInv
<1>1. Once(fd) /\ Places(fd) = Bit(fd \in open)
  BY DEF HeldOnce
<1>2. /\ Handling(Listener) /\ batch' = Tail(batch)
      /\ UNCHANGED <<armed, pending, running, wpc, refused, open, mpc, mfd>>
  BY DEF ShowError, AcceptFails, kernelVars, poolVars, historyVars
<1>3. AtMostOnce(fd, Fds(batch))' /\ (InBatch(fd)' <=> InBatch(fd))
  BY <1>1, <1>2, BatchTail, ServerAssumption
<1>4. AtMostOnce(fd, pending)' /\ (Waiting(fd)' <=> Waiting(fd))
  BY <1>1, <1>2, QueueSame
<1>5. OneWorker(fd)' /\ (Served(fd)' <=> Served(fd))
  BY <1>1, <1>2, WorkersSame
<1>6. (Armed(fd)' <=> Armed(fd)) /\ (InHand(fd)' <=> InHand(fd))
  BY <1>2 DEF Armed, InHand
<1>7. Once(fd)'
  BY <1>3, <1>4, <1>5 DEF Once
<1> HIDE DEF Armed, InBatch, InHand, Waiting, Served, ServerInv
<1>8. Places(fd)' = Bit(fd \in open)'
  BY <1>1, <1>2, <1>3, <1>4, <1>5, <1>6 DEF Places, Bit
<1> QED
  BY <1>7, <1>8

(* Every step leaves every session with one holder.                         *)
LEMMA HeldNext == ServerInv /\ [Next]_vars => HeldOnce'
<1> SUFFICES ASSUME ServerInv, [Next]_vars, NEW fd \in Fd \ raced'
             PROVE  (Once(fd) /\ Places(fd) = Bit(fd \in open))'
  BY DEF HeldOnce
<1> DEFINE Goal == (Once(fd) /\ Places(fd) = Bit(fd \in open))'
<1> SUFFICES Goal
  OBVIOUS
<1>0. HeldOnce
  BY DEF ServerInv
<1>1. ASSUME NEW x \in Fd, Accept(x) PROVE Goal
  BY <1>1, HeldAccept
<1>2. ASSUME ~\E x \in Fd : Accept(x) PROVE raced' = raced
  BY <1>2 DEF Next, MainStep, WorkerStep, ClientConnects, ClientSends, ClientEnds, ClientReads,
     EpollWait, ShowError, AcceptFails, InitSockfd, InitAddfd, InitLoad, InitStore,
     HandleHangup, HandleRead, HandleWrite, AppendAccepted, AppendRefused,
     CloseLoad, CloseStore, WorkerTakes, WorkerNeedsMore, WorkerResponds,
     WorkerCloses, WorkerForgets, WorkerLoads, WorkerStores, WorkerModfd,
     historyVars, vars
<1>3. CASE fd \in Fd \ raced
  <2> USE <1>3
  <2>1. CASE \/ ClientConnects \/ InitSockfd \/ InitLoad \/ InitStore
             \/ CloseLoad \/ CloseStore \/ UNCHANGED vars
             \/ \E x \in Fd : ClientSends(x) \/ ClientEnds(x) \/ ClientReads(x)
             \/ \E w \in Workers : WorkerForgets(w) \/ WorkerLoads(w) \/ WorkerStores(w)
    <3>1. UNCHANGED <<armed, batch, pending, running, refused, open>>
      BY <2>1 DEF ClientConnects, ClientSends, ClientEnds, ClientReads, InitSockfd, InitLoad,
         InitStore, CloseLoad, CloseStore, WorkerForgets, WorkerLoads, WorkerStores,
         vars, kernelVars, mainVars, poolVars, historyVars
    <3>2. InHand(fd)' <=> InHand(fd)
      BY <2>1 DEF ClientConnects, ClientSends, ClientEnds, ClientReads, InitSockfd, InitLoad,
         InitStore, CloseLoad, CloseStore, WorkerForgets, WorkerLoads, WorkerStores,
         vars, mainVars, InHand
    <3>3. \A w \in Workers : wpc'[w] = "process" <=> wpc[w] = "process"
      BY <2>1 DEF ClientConnects, ClientSends, ClientEnds, ClientReads, InitSockfd, InitLoad,
         InitStore, CloseLoad, CloseStore, WorkerForgets, WorkerLoads, WorkerStores,
         vars, ServerInv, Types
    <3> QED
      BY <1>0, <3>1, <3>2, <3>3, Unmoved
  <2>2. CASE EpollWait
    BY <2>2, HeldEpollWait
  <2>3. CASE ShowError \/ AcceptFails
    BY <2>3, HeldListener
  <2>4. CASE InitAddfd
    BY <2>4, HeldInitAddfd
  <2>5. CASE \E x \in Fd : HandleHangup(x) \/ HandleRead(x) \/ HandleWrite(x)
    BY <2>5, HeldHandle
  <2>6. CASE AppendAccepted \/ AppendRefused
    BY <2>6, HeldAppend
  <2>7. CASE \E w \in Workers : WorkerTakes(w)
    BY <2>7, HeldWorkerTakes
  <2>8. CASE \E w \in Workers : WorkerNeedsMore(w) \/ WorkerResponds(w) \/ WorkerCloses(w)
    BY <2>8, HeldWorkerLeaves
  <2>9. CASE \E w \in Workers : WorkerModfd(w)
    BY <2>9, HeldWorkerModfd
  <2> HIDE DEF Goal
  <2>10. CASE MainStep
    BY <2>10, <1>1, <2>1, <2>2, <2>3, <2>4, <2>5, <2>6 DEF MainStep
  <2>11. ASSUME NEW w \in Workers, WorkerStep(w) PROVE Goal
    BY <2>11, <2>1, <2>7, <2>8, <2>9 DEF WorkerStep
  <2> QED
    BY <2>1, <2>10, <2>11 DEF Next
<1> QED
  BY <1>1, <1>2, <1>3

(* The inductive invariant of the loop and the workers, for every number of  *)
(* descriptors, workers and clients, every capacity of the pool and every    *)
(* MAX_FD.                                                                   *)
THEOREM ServerInvariant == Spec => []ServerInv
<1>1. ServerInv /\ [Next]_vars => ServerInv'
  BY TypesNext, ControlNext, HeldNext DEF ServerInv, Control
<1> QED
  BY ServerInvInit, <1>1, PTL DEF Spec

(* A set with at most one element has as many as there are.                 *)
LEMMA CardinalityBit ==
  ASSUME NEW S, \A a, b \in S : a = b
  PROVE  Cardinality(S) = Bit(S # {})
<1>1. CASE S = {}
  BY <1>1, FS_EmptySet DEF Bit
<1>2. CASE S # {}
  <2>1. PICK a \in S : TRUE
    BY <1>2
  <2>2. S = {a}
    BY <2>1
  <2> QED
    BY <2>2, <1>2, FS_Singleton DEF Bit
<1> QED
  BY <1>1, <1>2

(* In every reachable state every session is with the one holder that       *)
(* EPOLLONESHOT gives it to, and that holder finds its object to be its own.*)
THEOREM SessionsHeldTheorem == Spec => []SessionsHeld
<1>1. ServerInv => SessionsHeld
  <2> SUFFICES ASSUME ServerInv PROVE OneHolder
    BY DEF ServerInv, SessionsHeld
  <2> SUFFICES ASSUME NEW fd \in Fd \ raced
               PROVE  Holders(fd) = (IF fd \in open THEN 1 ELSE 0)
    BY DEF OneHolder
  <2>1. Once(fd) /\ Places(fd) = Bit(fd \in open)
    BY DEF ServerInv, HeldOnce
  <2>2. Cardinality({i \in DOMAIN batch : batch[i].fd = fd}) = Bit(InBatch(fd))
    <3> DEFINE S == {i \in DOMAIN batch : batch[i].fd = fd}
    <3>1. \A i, j \in S : i = j
      BY <2>1 DEF Once, AtMostOnce, Fds
    <3>2. S # {} <=> InBatch(fd)
      BY DEF InBatch, In, Fds
    <3>3. Cardinality(S) = Bit(S # {})
      BY <3>1, CardinalityBit
    <3> QED
      BY <3>2, <3>3 DEF Bit
  <2>3. Cardinality({i \in DOMAIN pending : pending[i] = fd}) = Bit(Waiting(fd))
    <3> DEFINE S == {i \in DOMAIN pending : pending[i] = fd}
    <3>1. \A i, j \in S : i = j
      BY <2>1 DEF Once, AtMostOnce
    <3>2. S # {} <=> Waiting(fd)
      BY DEF Waiting, In
    <3>3. Cardinality(S) = Bit(S # {})
      BY <3>1, CardinalityBit
    <3> QED
      BY <3>2, <3>3 DEF Bit
  <2>4. Cardinality({w \in Workers : running[w] = fd /\ wpc[w] = "process"}) = Bit(Served(fd))
    <3> DEFINE S == {w \in Workers : running[w] = fd /\ wpc[w] = "process"}
    <3>1. \A i, j \in S : i = j
      BY <2>1 DEF Once, OneWorker, Processes
    <3>2. S # {} <=> Served(fd)
      BY DEF Served, Processes
    <3>3. Cardinality(S) = Bit(S # {})
      BY <3>1, CardinalityBit
    <3> QED
      BY <3>2, <3>3 DEF Bit
  <2>5. /\ Bit(Armed(fd)) = IF armed[fd] # "none" THEN 1 ELSE 0
        /\ Bit(InHand(fd)) = IF mfd = fd /\ mpc \in {"init", "add", "append"} THEN 1 ELSE 0
        /\ Bit(fd \in refused) = IF fd \in refused THEN 1 ELSE 0
        /\ Bit(fd \in open) = IF fd \in open THEN 1 ELSE 0
    BY DEF Armed, InHand, Bit
  <2> QED
    BY <2>1, <2>2, <2>3, <2>4, <2>5 DEF Places, Holders
<1> QED
  BY <1>1, ServerInvariant, PTL
-----------------------------------------------------------------------------
(* The workers that have closed a socket and have yet to count it.          *)
Closers == {w \in Workers : wpc[w] \in {"forget", "load", "store"}}

(* What the loop's thread has opened and not counted, or closed.            *)
MainOwes ==
  (IF mpc \in {"loaddown", "storedown"} THEN 1 ELSE 0)
  - (IF mpc \in {"init", "add", "loadup", "storeup"} THEN 1 ELSE 0)

(* What is not counted yet is the workers that are closing and what the      *)
(* loop owes, both finite.                                                   *)
LEMMA CountParts ==
  ASSUME Types
  PROVE  /\ IsFiniteSet(open) /\ Cardinality(open) \in Nat
         /\ IsFiniteSet(Closers) /\ Cardinality(Closers) \in Nat
         /\ Uncounted = Cardinality(Closers) + MainOwes
         /\ MainOwes \in {-1, 0, 1}
<1>1. open \in SUBSET Fd /\ IsFiniteSet(Fd)
  BY ServerAssumption DEF Types
<1>2. Closers \in SUBSET Workers /\ IsFiniteSet(Workers)
  BY ServerAssumption DEF Closers
<1>3. IsFiniteSet(open) /\ IsFiniteSet(Closers)
  BY <1>1, <1>2, FS_Subset
<1>4. Cardinality(open) \in Nat /\ Cardinality(Closers) \in Nat
  BY <1>3, FS_CardinalityType
<1>5. MainOwes \in {-1, 0, 1}
  BY DEF MainOwes
<1>6. Uncounted = Cardinality(Closers) + MainOwes
  BY <1>4 DEF Uncounted, Closers, MainOwes
<1> QED
  BY <1>3, <1>4, <1>5, <1>6

(* The same sum in the next state.                                          *)
LEMMA CountPartsNext == Uncounted' = Cardinality(Closers') + MainOwes'
<1>1. Closers' \in SUBSET Workers /\ IsFiniteSet(Workers)
  BY ServerAssumption DEF Closers
<1>2. Cardinality(Closers') \in Nat
  BY <1>1, FS_Subset, FS_CardinalityType
<1> QED
  BY <1>2 DEF Uncounted, Closers, MainOwes

(* Until a number is given out too early, whoever closes a session closes   *)
(* one that is open.                                                        *)
LEMMA ClosesOpen ==
  ASSUME ServerInv, ~reused, NEW x \in Fd, InBatch(x) \/ Served(x)
  PROVE  x \in open
<1>1. x \in Fd \ raced
  BY DEF ServerInv, RacedReused
<1> QED
  BY <1>1, Usable

(* close_conn leaves one connection fewer, or counts one twice.             *)
LEMMA ClosesOne ==
  ASSUME Types, NEW x \in Fd, Closes(x)
  PROVE  /\ Cardinality(open') \in Nat
         /\ Cardinality(open') - doubled' = Cardinality(open) - doubled - 1
<1>1. IsFiniteSet(open) /\ Cardinality(open) \in Nat /\ doubled \in Nat
  BY CountParts DEF Types
<1>2. CASE x \in open
  <2>1. Cardinality(open') = Cardinality(open) - 1 /\ doubled' = doubled /\ IsFiniteSet(open')
    BY <1>1, <1>2, FS_RemoveElement DEF Closes, Removefd
  <2> QED
    BY <1>1, <2>1, FS_CardinalityType
<1>3. CASE x \notin open
  <2>1. open' = open /\ doubled' = doubled + 1
    BY <1>3 DEF Closes, Removefd
  <2> QED
    BY <1>1, <2>1
<1> QED
  BY <1>2, <1>3

(* A socket is closed twice only after a number was given out too early.     *)
LEMMA DoubledNext == ServerInv /\ DoubledReused /\ [Next]_vars => DoubledReused'
<1> SUFFICES ASSUME ServerInv, DoubledReused, [Next]_vars PROVE DoubledReused'
  OBVIOUS
<1>0. Types
  BY DEF ServerInv
<1>1. ASSUME NEW x \in Fd, Closes(x) \/ doubled' = doubled, reused' = reused,
             InBatch(x) \/ Served(x)
      PROVE  DoubledReused'
  BY <1>1, ClosesOpen DEF Closes, DoubledReused
<1>2. ASSUME NEW fd \in Fd, HandleHangup(fd) \/ HandleRead(fd) \/ HandleWrite(fd)
      PROVE  DoubledReused'
  <2>1. Handling(fd) /\ batch' = Tail(batch) /\ reused' = reused
    BY <1>2 DEF HandleHangup, HandleRead, HandleWrite
  <2>2. Closes(fd) \/ doubled' = doubled
    BY <1>2 DEF HandleHangup, HandleRead, HandleWrite, MainCloses
  <2>3. InBatch(fd)
    <3>1. /\ batch \in Seq(Event) /\ batch # <<>> /\ Head(batch).fd = fd
      BY <1>0, <2>1 DEF Types, Handling
    <3>2. 1 \in DOMAIN batch /\ batch[1].fd = fd
      BY <3>1, LenProperties, EmptySeq
    <3> QED
      BY <3>2 DEF InBatch, In, Fds
  <2> QED
    BY <1>1, <2>1, <2>2, <2>3
<1>3. ASSUME NEW w \in Workers, WorkerCloses(w)
      PROVE  DoubledReused'
  <2>1. running[w] \in Fd /\ Served(running[w])
    BY <1>3 DEF WorkerCloses, ServerInv, Types, InHandWhereUsed, Served, Processes
  <2>2. (Closes(running[w]) \/ doubled' = doubled) /\ reused' = reused
    BY <1>3 DEF WorkerCloses
  <2> QED
    BY <1>1, <2>1, <2>2
<1>4. ASSUME NEW fd \in Fd, Accept(fd) PROVE DoubledReused'
  BY <1>4 DEF Accept, DoubledReused
<1>5. CASE \/ ClientConnects \/ EpollWait \/ ShowError \/ AcceptFails
           \/ InitSockfd \/ InitAddfd \/ InitLoad \/ InitStore \/ AppendAccepted
           \/ AppendRefused \/ CloseLoad \/ CloseStore \/ UNCHANGED vars
           \/ \E fd \in Fd : ClientSends(fd) \/ ClientEnds(fd) \/ ClientReads(fd)
  <2>1. reused' = reused /\ doubled' = doubled
    BY <1>5 DEF ClientConnects, ClientSends, ClientEnds, ClientReads, EpollWait, ShowError,
       AcceptFails, InitSockfd, InitAddfd, InitLoad, InitStore, AppendAccepted, AppendRefused,
       CloseLoad, CloseStore, vars, historyVars
  <2> QED
    BY <2>1 DEF DoubledReused
<1>6. ASSUME NEW w \in Workers,
             \/ WorkerTakes(w) \/ WorkerNeedsMore(w) \/ WorkerResponds(w) \/ WorkerForgets(w)
             \/ WorkerLoads(w) \/ WorkerStores(w) \/ WorkerModfd(w)
      PROVE  DoubledReused'
  <2>1. reused' = reused /\ doubled' = doubled
    BY <1>6 DEF WorkerTakes, WorkerNeedsMore, WorkerResponds, WorkerForgets, WorkerLoads,
       WorkerStores, WorkerModfd, historyVars
  <2> QED
    BY <2>1 DEF DoubledReused
<1> QED
  BY <1>2, <1>3, <1>4, <1>5, <1>6 DEF Next, MainStep, WorkerStep

(* A step that neither counts nor opens nor closes.                         *)
LEMMA CountUnmoved ==
  ASSUME Types, Types', CountInv, UNCHANGED <<m_user_count, loaded, torn, open, doubled>>,
         Closers' = Closers, MainOwes' = MainOwes,
         \A t \in Threads : Between(t)' => Between(t)
  PROVE  CountInv'
<1>1. Uncounted' = Uncounted
  BY CountParts, CountPartsNext
<1> QED
  BY <1>1 DEF CountInv, LoadedFresh, Balanced

(* Every step moves the counter and what is open together, or leaves a       *)
(* thread owing the difference.                                              *)
LEMMA CountNext == ServerInv /\ ServerInv' /\ CountInv /\ [Next]_vars => CountInv'
<1> SUFFICES ASSUME ServerInv, ServerInv', CountInv, [Next]_vars PROVE CountInv'
  OBVIOUS
<1>0. Types /\ Types'
  BY DEF ServerInv
<1>p. /\ Cardinality(open) \in Nat /\ Cardinality(Closers) \in Nat
      /\ Uncounted = Cardinality(Closers) + MainOwes
      /\ MainOwes \in {-1, 0, 1}
      /\ IsFiniteSet(open) /\ IsFiniteSet(Closers) /\ doubled \in Nat
  BY <1>0, CountParts DEF Types
<1>q. Uncounted' = Cardinality(Closers') + MainOwes'
  BY CountPartsNext
<1>u. ASSUME UNCHANGED <<m_user_count, loaded, torn, open, doubled>>, UNCHANGED wpc, MainOwes' = MainOwes,
             Between(Main)' => Between(Main)
      PROVE  CountInv'
  <2>1. Closers' = Closers
    BY <1>u DEF Closers
  <2>2. \A t \in Threads : Between(t)' => Between(t)
    BY <1>u DEF Between
  <2> QED
    BY <1>0, <1>u, <2>1, <2>2, CountUnmoved
<1>w. ASSUME UNCHANGED <<m_user_count, loaded, torn, open, doubled, mpc>>,
             NEW w \in Workers, \A v \in Workers \ {w} : wpc'[v] = wpc[v],
             wpc'[w] # "store",
             wpc[w] \in {"forget", "load", "store"} <=> wpc'[w] \in {"forget", "load", "store"}
      PROVE  CountInv'
  <2>1. Closers' = Closers
    BY <1>w DEF Closers
  <2>2. \A t \in Threads : Between(t)' => Between(t)
    BY <1>w DEF Between, Threads
  <2>3. MainOwes' = MainOwes
    BY <1>w DEF MainOwes
  <2> QED
    BY <1>0, <1>w, <2>1, <2>2, <2>3, CountUnmoved
<1>1. CASE \/ ClientConnects \/ EpollWait \/ ShowError \/ AcceptFails
           \/ InitSockfd \/ InitAddfd \/ AppendAccepted \/ AppendRefused \/ UNCHANGED vars
           \/ \E fd \in Fd : ClientSends(fd) \/ ClientEnds(fd) \/ ClientReads(fd)
  <2>1. UNCHANGED <<m_user_count, loaded, torn, open, doubled, wpc>>
    BY <1>1 DEF ClientConnects, ClientSends, ClientEnds, ClientReads, EpollWait, ShowError,
       AcceptFails, InitSockfd, InitAddfd, AppendAccepted, AppendRefused, vars,
       countVars, kernelVars, historyVars
  <2>2. MainOwes' = MainOwes /\ (Between(Main)' => Between(Main))
    BY <1>1 DEF ClientConnects, ClientSends, ClientEnds, ClientReads, EpollWait, ShowError,
       AcceptFails, InitSockfd, InitAddfd, AppendAccepted, AppendRefused, vars,
       mainVars, MainOwes, Between
  <2> QED
    BY <2>1, <2>2, <1>u
<1>2. ASSUME NEW fd \in Fd, Accept(fd) PROVE CountInv'
  <2>1. /\ UNCHANGED <<m_user_count, loaded, torn, doubled, wpc>>
        /\ open' = open \cup {fd} /\ fd \notin open /\ mpc = "loop" /\ mpc' = "init"
    BY <1>2 DEF Accept, Handling, countVars
  <2>2. Cardinality(open') = Cardinality(open) + 1
    BY <2>1, <1>p, FS_AddElement
  <2>3. Closers' = Closers /\ MainOwes = 0 /\ MainOwes' = -1
    BY <2>1 DEF Closers, MainOwes
  <2>4. Balanced'
    BY <2>1, <2>2, <2>3, <1>p, <1>q DEF Balanced, CountInv
  <2>5. \A t \in Threads : Between(t)' => Between(t)
    BY <2>1 DEF Between
  <2>6. LoadedFresh'
    BY <2>1, <2>5 DEF LoadedFresh, CountInv
  <2> QED
    BY <2>4, <2>6 DEF CountInv
<1>3. ASSUME NEW t \in Threads, Load(t), UNCHANGED <<open, doubled>>, Closers' = Closers,
             MainOwes' = MainOwes,
             \A u \in Threads \ {t} : Between(u)' <=> Between(u)
      PROVE  CountInv'
  <2>1. loaded'[t] = m_user_count /\ \A u \in Threads \ {t} : loaded'[u] = loaded[u]
    BY <1>0, <1>3 DEF Load, Types
  <2>2. UNCHANGED <<m_user_count, torn>>
    BY <1>3 DEF Load
  <2>3. LoadedFresh'
    BY <1>3, <2>1, <2>2 DEF LoadedFresh, CountInv
  <2>4. Balanced'
    BY <1>3, <2>2, <1>p, <1>q DEF Balanced, CountInv
  <2> QED
    BY <2>3, <2>4 DEF CountInv
<1>4. ASSUME NEW t \in Threads, NEW delta \in {-1, 1}, Store(t, delta), Between(t),
             UNCHANGED <<open, doubled>>,
             Cardinality(Closers') + MainOwes' = Cardinality(Closers) + MainOwes + delta,
             ~Between(t)', \A u \in Threads \ {t} : Between(u)' <=> Between(u)
      PROVE  CountInv'
  <2>1. SUFFICES ASSUME ~torn' PROVE CountInv'
    BY DEF CountInv, LoadedFresh, Balanced
  <2>2. ~torn /\ \A u \in Threads \ {t} : ~Between(u)
    BY <1>4, <2>1 DEF Store
  <2>3. loaded[t] = m_user_count
    BY <1>4, <2>2 DEF LoadedFresh, CountInv
  <2>4. m_user_count' = m_user_count + delta
    BY <1>4, <2>3 DEF Store
  <2>5. LoadedFresh'
    BY <1>4, <2>2 DEF LoadedFresh
  <2>6. Balanced'
    BY <1>0, <1>4, <2>2, <2>4, <1>p, <1>q DEF Balanced, CountInv, Types
  <2> QED
    BY <2>5, <2>6 DEF CountInv
<1>5. CASE InitLoad \/ CloseLoad
  <2>1. Load(Main) /\ Main \in Threads /\ UNCHANGED <<open, doubled, wpc>>
    BY <1>5 DEF InitLoad, CloseLoad, Threads, kernelVars, historyVars
  <2>2. Closers' = Closers /\ MainOwes' = MainOwes
    BY <1>5, <2>1 DEF Closers, MainOwes, InitLoad, CloseLoad
  <2>3. \A u \in Threads \ {Main} : Between(u)' <=> Between(u)
    BY <2>1 DEF Between
  <2> QED
    BY <2>1, <2>2, <2>3, <1>3
<1>6. CASE InitStore \/ CloseStore
  <2>1. PICK delta \in {-1, 1} : /\ Store(Main, delta) /\ MainOwes' = MainOwes + delta
                                 /\ Between(Main) /\ ~Between(Main)'
                                 /\ UNCHANGED <<open, doubled, wpc>>
    BY <1>6 DEF InitStore, CloseStore, MainOwes, Between, kernelVars, historyVars
  <2>2. Closers' = Closers
    BY <2>1 DEF Closers
  <2>3. \A u \in Threads \ {Main} : Between(u)' <=> Between(u)
    BY <2>1 DEF Between
  <2>4. Main \in Threads
    BY DEF Threads
  <2>5. Cardinality(Closers') + MainOwes' = Cardinality(Closers) + MainOwes + delta
    BY <2>1, <2>2, <1>p
  <2> QED
    BY <2>1, <2>3, <2>4, <2>5, <1>4
<1>7. ASSUME NEW fd \in Fd, HandleHangup(fd) \/ HandleRead(fd) \/ HandleWrite(fd)
      PROVE  CountInv'
  <2>1. /\ UNCHANGED <<m_user_count, loaded, torn, wpc>>
        /\ mpc = "loop" /\ Handling(fd) /\ batch' = Tail(batch)
    BY <1>7 DEF HandleHangup, HandleRead, HandleWrite, Handling, countVars
  <2>2. CASE UNCHANGED <<open, doubled>> /\ mpc' \in {"loop", "append"}
    <3>1. MainOwes' = MainOwes /\ (Between(Main)' => Between(Main))
      BY <2>1, <2>2 DEF MainOwes, Between
    <3> QED
      BY <2>1, <2>2, <3>1, <1>u
  <2>3. CASE Closes(fd) /\ mpc' = "loaddown"
    <3>1. /\ Cardinality(open') \in Nat
          /\ Cardinality(open') - doubled' = Cardinality(open) - doubled - 1
      BY <1>0, <2>3, ClosesOne
    <3>2. Closers' = Closers /\ MainOwes = 0 /\ MainOwes' = 1
      BY <2>1, <2>3 DEF Closers, MainOwes
    <3>3. doubled' \in Nat
      BY <1>0 DEF Types
    <3>4. Balanced'
      <4>1. SUFFICES ASSUME ~torn' PROVE m_user_count' = Cardinality(open') + Uncounted' - doubled'
        BY DEF Balanced
      <4>2. m_user_count' = Cardinality(open) + Cardinality(Closers) - doubled
        BY <2>1, <3>2, <4>1, <1>p DEF Balanced, CountInv
      <4>3. Uncounted' = Cardinality(Closers) + 1
        BY <3>2, <1>q
      <4> QED
        BY <4>2, <4>3, <3>1, <3>3, <1>p
    <3>5. \A t \in Threads : Between(t)' => Between(t)
      BY <2>1, <2>3 DEF Between
    <3>6. LoadedFresh'
      BY <2>1, <3>5 DEF LoadedFresh, CountInv
    <3> QED
      BY <3>4, <3>6 DEF CountInv
  <2>4. MainCloses(fd) \/ (UNCHANGED <<open, doubled>> /\ mpc' \in {"loop", "append"})
    BY <1>7, <2>1 DEF HandleHangup, HandleRead, HandleWrite
  <2> QED
    BY <2>1, <2>2, <2>3, <2>4 DEF MainCloses
<1>8. ASSUME NEW w \in Workers,
             \/ WorkerTakes(w) \/ WorkerNeedsMore(w) \/ WorkerResponds(w)
             \/ WorkerForgets(w) \/ WorkerModfd(w)
      PROVE  CountInv'
  <2>1. UNCHANGED <<m_user_count, loaded, torn, open, doubled, mpc>>
    BY <1>8 DEF WorkerTakes, WorkerNeedsMore, WorkerResponds, WorkerForgets,
       WorkerModfd, mainVars, countVars, kernelVars, historyVars
  <2>2. /\ \A v \in Workers \ {w} : wpc'[v] = wpc[v]
        /\ wpc'[w] # "store"
        /\ wpc[w] \in {"forget", "load", "store"} <=> wpc'[w] \in {"forget", "load", "store"}
    BY <1>0, <1>8 DEF WorkerTakes, WorkerNeedsMore, WorkerResponds, WorkerForgets,
       WorkerModfd, Returns, Types
  <2> QED
    BY <2>1, <2>2, <1>w
<1>9. ASSUME NEW w \in Workers, WorkerCloses(w) PROVE CountInv'
  <2>1. UNCHANGED <<m_user_count, loaded, torn, mpc, running>> /\ wpc[w] = "process"
    BY <1>9 DEF WorkerCloses, mainVars, countVars, poolVars
  <2>2. CASE m_sockfd[running[w]] = -1
    <3>1. UNCHANGED <<open, doubled>> /\ wpc' = [wpc EXCEPT ![w] = "modfd"]
      BY <1>9, <2>2 DEF WorkerCloses
    <3> QED
      BY <1>0, <2>1, <3>1, <1>w DEF Types
  <2>3. CASE m_sockfd[running[w]] # -1
    <3>1. running[w] \in Fd
      BY <2>1 DEF ServerInv, Types, InHandWhereUsed
    <3>2. Closes(running[w]) /\ wpc' = [wpc EXCEPT ![w] = "forget"]
      BY <1>9, <2>3 DEF WorkerCloses
    <3>3. /\ Cardinality(open') \in Nat
          /\ Cardinality(open') - doubled' = Cardinality(open) - doubled - 1
      BY <1>0, <3>1, <3>2, ClosesOne
    <3>4. Closers' = Closers \cup {w} /\ w \notin Closers
      BY <1>0, <2>1, <3>2 DEF Closers, Types
    <3>5. Cardinality(Closers') = Cardinality(Closers) + 1
      BY <3>4, <1>p, FS_AddElement
    <3>6. MainOwes' = MainOwes
      BY <2>1 DEF MainOwes
    <3>7. doubled' \in Nat
      BY <1>0 DEF Types
    <3>8. Balanced'
      <4>1. SUFFICES ASSUME ~torn' PROVE m_user_count' = Cardinality(open') + Uncounted' - doubled'
        BY DEF Balanced
      <4>2. m_user_count' = Cardinality(open) + Cardinality(Closers) + MainOwes - doubled
        BY <2>1, <4>1, <1>p DEF Balanced, CountInv
      <4>3. Uncounted' = Cardinality(Closers) + 1 + MainOwes
        BY <3>5, <3>6, <1>q
      <4> QED
        BY <4>2, <4>3, <3>3, <3>7, <1>p
    <3>9. \A t \in Threads : Between(t)' => Between(t)
      BY <1>0, <2>1, <3>2 DEF Between, Threads, Types
    <3>10. LoadedFresh'
      BY <2>1, <3>9 DEF LoadedFresh, CountInv
    <3> QED
      BY <3>8, <3>10 DEF CountInv
  <2> QED
    BY <2>2, <2>3
<1>10. ASSUME NEW w \in Workers, WorkerLoads(w) PROVE CountInv'
  <2>1. /\ Load(w) /\ UNCHANGED <<open, doubled, mpc>> /\ w \in Threads
        /\ wpc[w] = "load" /\ wpc' = [wpc EXCEPT ![w] = "store"]
    BY <1>10 DEF WorkerLoads, mainVars, kernelVars, historyVars, Threads
  <2>2. Closers' = Closers /\ MainOwes' = MainOwes
    BY <1>0, <2>1 DEF Closers, MainOwes, Types
  <2>3. \A u \in Threads \ {w} : Between(u)' <=> Between(u)
    BY <1>0, <2>1 DEF Between, Threads, Types
  <2> QED
    BY <2>1, <2>2, <2>3, <1>3
<1>11. ASSUME NEW w \in Workers, WorkerStores(w) PROVE CountInv'
  <2>1. /\ Store(w, -1) /\ UNCHANGED <<open, doubled, mpc>> /\ w \in Threads
        /\ wpc[w] = "store" /\ wpc' = [wpc EXCEPT ![w] = "modfd"]
    BY <1>11 DEF WorkerStores, mainVars, kernelVars, historyVars, Threads
  <2>2. Closers' = Closers \ {w} /\ w \in Closers /\ MainOwes' = MainOwes
    BY <1>0, <2>1 DEF Closers, MainOwes, Types
  <2>3. Cardinality(Closers') = Cardinality(Closers) - 1
    BY <2>2, <1>p, FS_RemoveElement
  <2>4. \A u \in Threads \ {w} : Between(u)' <=> Between(u)
    BY <1>0, <2>1 DEF Between, Threads, Types
  <2>5. Between(w) /\ ~Between(w)'
    BY <1>0, <2>1, ServerAssumption DEF Between, Types
  <2>6. Cardinality(Closers') + MainOwes' = Cardinality(Closers) + MainOwes + (-1)
    BY <2>2, <2>3, <1>p
  <2> QED
    BY <2>1, <2>4, <2>5, <2>6, <1>4
<1>12. CASE MainStep
  BY <1>12, <1>1, <1>2, <1>5, <1>6, <1>7 DEF MainStep
<1>13. ASSUME NEW w \in Workers, WorkerStep(w) PROVE CountInv'
  BY <1>13, <1>8, <1>9, <1>10, <1>11 DEF WorkerStep
<1> QED
  BY <1>1, <1>12, <1>13 DEF Next

(* Until two updates of m_user_count have overlapped it is exactly the      *)
(* number of open connections, what is being opened or closed aside, less   *)
(* the sockets that were closed twice; and without a session that began     *)
(* while its number was still in use no socket is closed twice.             *)
THEOREM CountExactTheorem == Spec => []CountExact
<1>1. Init => CountInv /\ DoubledReused
  <2> SUFFICES ASSUME Init PROVE CountInv /\ DoubledReused
    OBVIOUS
  <2>1. Closers = {} /\ MainOwes = 0 /\ open = {} /\ m_user_count = 0 /\ doubled = 0
    BY DEF Init, Closers, MainOwes
  <2>2. Types
    BY ServerInvInit DEF ServerInv
  <2>3. Balanced
    BY <2>1, <2>2, CountParts, FS_EmptySet DEF Balanced
  <2>4. LoadedFresh
    BY DEF Init, LoadedFresh
  <2> QED
    BY <2>1, <2>3, <2>4 DEF CountInv, DoubledReused
<1>2. CountInv /\ DoubledReused => CountExact
  BY DEF CountInv, DoubledReused, Balanced, CountExact
<1> QED
  BY <1>1, <1>2, CountNext, DoubledNext, ServerInvariant, PTL DEF Spec
-----------------------------------------------------------------------------
(* 15-3threadpool.h: the pool, for any number of callers, workers and       *)
(* requests and any bound of the list.                                      *)

(* Its instance counts as this module does. *)
LEMMA PoolCounts == \A Q : T!Cardinality(Q) = Cardinality(Q) /\ (T!IsFiniteSet(Q) <=> IsFiniteSet(Q))
BY DEF T!Cardinality, Cardinality, T!IsFiniteSet, IsFiniteSet

(* What is assumed of its constants. *)
LEMMA PoolConstants ==
  /\ IsFiniteSet(PoolThreads) /\ PoolThreads # {}
  /\ IsFiniteSet(Callers)
  /\ Callers \cap PoolThreads = {}
  /\ MaxRequests \in Nat \ {0}
  /\ MaxInterrupts \in Nat
  /\ NullRequest \notin Callers \cup PoolThreads \cup Requests
BY MCThreadPoolAssumption, PoolCounts DEF T!PoolAssumption

(* The pool is only handed to callers between construction and destruction. *)
CallersOutside ==
  t_life # "ready" => \A p \in Callers : t_ppc[p] = "idle"

(* The inductive invariant behind mutual exclusion: front() on a non-empty  *)
(* list needs the lock, and the type of the list needs front() to be safe.  *)
PoolInv ==
  /\ T!TypeOK
  /\ CallersOutside
  /\ T!MutualExclusion
  /\ T!FrontSafe
  /\ T!Bounded

(* The invariant holds when the constructor begins. *)
LEMMA PoolInvInit == T!Init => PoolInv
<1> SUFFICES ASSUME T!Init PROVE PoolInv
  OBVIOUS
<1> USE PoolConstants DEF T!Init
<1>1. T!TypeOK
  <2>1. t_m_workqueue \in Seq(Requests \cup {NullRequest})
    OBVIOUS
  <2>2. t_ppc \in [Callers -> T!ProducerPCs] /\ t_wpc \in [PoolThreads -> T!WorkerPCs]
    BY DEF T!ProducerPCs, T!WorkerPCs
  <2>3. t_preq \in [Callers -> Requests \cup {NullRequest}] /\ t_wreq \in [PoolThreads -> Requests \cup {NullRequest}]
    OBVIOUS
  <2> QED
    BY <2>1, <2>2, <2>3 DEF T!TypeOK
<1>2. T!MutualExclusion
  BY DEF T!MutualExclusion, T!InAppendSection, T!InRunSection
<1>3. CallersOutside /\ T!FrontSafe
  BY DEF CallersOutside, T!FrontSafe
<1>4. T!Bounded
  BY DEF T!Bounded
<1> QED
  BY <1>1, <1>2, <1>3, <1>4 DEF PoolInv

(* Every step of the thread that owns the pool preserves the invariant. *)
LEMMA PoolInvOwner ==
  ASSUME PoolInv, T!Owner
  PROVE  PoolInv'
<1> USE PoolConstants
    DEF PoolInv, T!TypeOK, CallersOutside, T!MutualExclusion, T!FrontSafe, T!Bounded,
        T!Threads, T!ProducerPCs, T!WorkerPCs, T!InAppendSection, T!InRunSection, T!Alive,
        T!poolVars, T!producerVars, T!workerVars, T!historyVars
<1>1. ASSUME NEW w \in PoolThreads, T!CreateThread(w) PROVE PoolInv'
  BY <1>1 DEF T!CreateThread
<1>2. CASE T!ConstructorReturns
  BY <1>2 DEF T!ConstructorReturns
<1>3. CASE T!ConstructorThrows
  BY <1>3 DEF T!ConstructorThrows
<1>4. CASE T!DestructorBody
  BY <1>4 DEF T!DestructorBody
<1>5. CASE T!DestructorEnds
  BY <1>5 DEF T!DestructorEnds
<1> QED
  BY <1>1, <1>2, <1>3, <1>4, <1>5 DEF T!Owner

(* Every step of a caller inside append preserves it. *)
LEMMA PoolInvAppend ==
  ASSUME PoolInv, NEW p \in Callers, T!AppendStep(p)
  PROVE  PoolInv'
<1> USE PoolConstants
    DEF PoolInv, T!TypeOK, CallersOutside, T!MutualExclusion, T!FrontSafe, T!Bounded,
        T!Threads, T!ProducerPCs, T!WorkerPCs, T!InAppendSection, T!InRunSection, T!Alive,
        T!poolVars, T!producerVars, T!workerVars, T!historyVars
<1>1. CASE T!AppendLock(p)
  BY <1>1 DEF T!AppendLock
<1>2. CASE T!AppendRefuses(p)
  BY <1>2 DEF T!AppendRefuses
<1>3. CASE T!AppendChecks(p)
  BY <1>3 DEF T!AppendChecks
<1>4. CASE T!AppendPushes(p)
  BY <1>4 DEF T!AppendPushes
<1>5. CASE T!AppendUnlocks(p)
  BY <1>5 DEF T!AppendUnlocks
<1>6. CASE T!AppendPosts(p)
  BY <1>6 DEF T!AppendPosts
<1> QED
  BY <1>1, <1>2, <1>3, <1>4, <1>5, <1>6 DEF T!AppendStep

(* Every step of a worker inside run preserves it. *)
LEMMA PoolInvRun ==
  ASSUME PoolInv, NEW w \in PoolThreads, T!RunStep(w)
  PROVE  PoolInv'
<1> USE PoolConstants
    DEF PoolInv, T!TypeOK, CallersOutside, T!MutualExclusion, T!FrontSafe, T!Bounded,
        T!Threads, T!ProducerPCs, T!WorkerPCs, T!InAppendSection, T!InRunSection, T!Alive,
        T!poolVars, T!producerVars, T!workerVars, T!historyVars
<1>1. CASE T!TestStop(w)
  BY <1>1 DEF T!TestStop
<1>2. CASE T!SemWait(w)
  BY <1>2 DEF T!SemWait
<1>3. CASE T!WorkerLock(w)
  BY <1>3 DEF T!WorkerLock
<1>4. CASE T!FoundEmpty(w)
  BY <1>4 DEF T!FoundEmpty
<1>5. CASE T!FoundRequest(w)
  BY <1>5 DEF T!FoundRequest
<1>6. CASE T!ReadFront(w)
  BY <1>6 DEF T!ReadFront
<1>7. CASE T!PopFront(w)
  BY <1>7 DEF T!PopFront
<1>8. CASE T!WorkerUnlock(w)
  BY <1>8 DEF T!WorkerUnlock
<1>9. CASE T!ProcessReturns(w)
  BY <1>9 DEF T!ProcessReturns
<1> QED
  BY <1>1, <1>2, <1>3, <1>4, <1>5, <1>6, <1>7, <1>8, <1>9 DEF T!RunStep

(* So do calls of append, interrupted waits, the end of the pool and        *)
(* stuttering.                                                              *)
LEMMA PoolInvOther ==
  ASSUME PoolInv,
         \/ \E p \in Callers, r \in Requests \cup {NullRequest} : T!CallAppend(p, r)
         \/ \E w \in PoolThreads : T!SemInterrupted(w) \/ T!TouchDestroyed(w)
         \/ UNCHANGED T!vars
  PROVE  PoolInv'
<1> USE PoolConstants
    DEF PoolInv, T!TypeOK, CallersOutside, T!MutualExclusion, T!FrontSafe, T!Bounded,
        T!Threads, T!ProducerPCs, T!WorkerPCs, T!InAppendSection, T!InRunSection, T!Alive,
        T!poolVars, T!producerVars, T!workerVars, T!historyVars
<1>1. ASSUME NEW p \in Callers, NEW r \in Requests \cup {NullRequest}, T!CallAppend(p, r)
      PROVE  PoolInv'
  BY <1>1 DEF T!CallAppend
<1>2. ASSUME NEW w \in PoolThreads, T!SemInterrupted(w) PROVE PoolInv'
  BY <1>2 DEF T!SemInterrupted
<1>3. ASSUME NEW w \in PoolThreads, T!TouchDestroyed(w) PROVE PoolInv'
  BY <1>3 DEF T!TouchDestroyed
<1>4. CASE UNCHANGED T!vars
  BY <1>4 DEF T!vars
<1> QED
  BY <1>1, <1>2, <1>3, <1>4

(* Together: every step preserves it. *)
LEMMA PoolInvNext == PoolInv /\ [T!Next]_(T!vars) => PoolInv'
BY PoolInvOwner, PoolInvAppend, PoolInvRun, PoolInvOther DEF T!Next

(* The invariant the five theorems below are parts of holds in every        *)
(* reachable state.                                                         *)
THEOREM PoolInvariant == T!Spec => []PoolInv
BY PoolInvInit, PoolInvNext, PTL DEF T!Spec

(* Every reachable state has the types TypeOK gives it.  Needs the whole    *)
(* invariant: the head of the list has a type only if the list has a head.  *)
THEOREM TypeCorrect == T!Spec => []T!TypeOK
<1>1. PoolInv => T!TypeOK
  BY DEF PoolInv
<1> QED
  BY <1>1, PoolInvariant, PTL

(* The list is only touched under the lock, by one thread at a time. *)
THEOREM ListGuarded == T!Spec => []T!MutualExclusion
<1>1. PoolInv => T!MutualExclusion
  BY DEF PoolInv
<1> QED
  BY <1>1, PoolInvariant, PTL

(* front() and pop_front() never meet an empty list and agree on the head. *)
THEOREM FrontNeverEmpty == T!Spec => []T!FrontSafe
<1>1. PoolInv => T!FrontSafe
  BY DEF PoolInv
<1> QED
  BY <1>1, PoolInvariant, PTL

(* The list never holds more than max_requests + 1 requests. *)
THEOREM ListBounded == T!Spec => []T!Bounded
<1>1. PoolInv => T!Bounded
  BY DEF PoolInv
<1> QED
  BY <1>1, PoolInvariant, PTL

(* No thread of the pool ever finds the list other than it expects it: what  *)
(* the run of the specification checks as one invariant.                     *)
THEOREM PoolIsSafe == PoolSpec => []PoolSafe
<1>1. PoolInv => T!PoolSafe
  BY DEF PoolInv, T!PoolSafe
<1> QED
  BY <1>1, PoolInvariant, PTL DEF PoolSpec, T!FairSpec, PoolSafe
-----------------------------------------------------------------------------
(* The accounting of wake-ups.  Each step moves at most one thread into or   *)
(* out of Coming and Posting.                                                *)

(* Both sets are finite. *)
LEMMA CountsAreNat ==
  /\ IsFiniteSet(T!Coming) /\ Cardinality(T!Coming) \in Nat
  /\ IsFiniteSet(T!Posting) /\ Cardinality(T!Posting) \in Nat
BY PoolConstants, FS_Subset, FS_CardinalityType DEF T!Coming, T!Posting

(* A worker that leaves sem_wait adds one wake-up to the count... *)
LEMMA WorkerComes ==
  ASSUME NEW w \in PoolThreads, w \notin T!Coming, T!Coming' = T!Coming \cup {w}
  PROVE  Cardinality(T!Coming)' = Cardinality(T!Coming) + 1
BY CountsAreNat, FS_AddElement

(* ...and one that has taken a request, or found none, removes one. *)
LEMMA WorkerGoes ==
  ASSUME NEW w \in PoolThreads, w \in T!Coming, T!Coming' = T!Coming \ {w}
  PROVE  Cardinality(T!Coming)' = Cardinality(T!Coming) - 1
BY CountsAreNat, FS_RemoveElement

(* A caller that has pushed owes a wake-up until it has posted. *)
LEMMA CallerPushes ==
  ASSUME NEW p \in Callers, p \notin T!Posting, T!Posting' = T!Posting \cup {p}
  PROVE  Cardinality(T!Posting)' = Cardinality(T!Posting) + 1
BY CountsAreNat, FS_AddElement

(* A caller that posts owes it no more. *)
LEMMA CallerPosts ==
  ASSUME NEW p \in Callers, p \in T!Posting, T!Posting' = T!Posting \ {p}
  PROVE  Cardinality(T!Posting)' = Cardinality(T!Posting) - 1
BY CountsAreNat, FS_RemoveElement

(* An empty list needs no wake-up. *)
LEMMA AccountingInit == T!Init => T!Accounting
<1> SUFFICES ASSUME T!Init PROVE T!Accounting
  OBVIOUS
<1>1. T!Coming = {} /\ T!Posting = {}
  BY DEF T!Init, T!Coming, T!Posting
<1>2. Cardinality(T!Coming) = 0 /\ Cardinality(T!Posting) = 0
  BY <1>1, FS_EmptySet
<1> QED
  BY <1>2, PoolConstants, PoolCounts DEF T!Init, T!Accounting, T!WakeUps

(* Construction and destruction leave list and wake-ups alone. *)
LEMMA AccountingOwner ==
  ASSUME PoolInv, T!Accounting, T!Owner
  PROVE  T!Accounting'
<1>1. CASE \E w \in PoolThreads : T!CreateThread(w)
  <2>1. PICK w \in PoolThreads : T!CreateThread(w)
    BY <1>1
  <2>2. T!Coming' = T!Coming /\ T!Posting' = T!Posting
    BY <2>1 DEF T!CreateThread, T!Coming, T!Posting, T!producerVars, PoolInv, T!TypeOK
  <2> QED
    BY <2>1, <2>2 DEF T!CreateThread, T!Accounting, T!WakeUps, T!Alive, T!poolVars, T!historyVars
<1>2. CASE ~(\E w \in PoolThreads : T!CreateThread(w))
  <2>1. T!Coming' = T!Coming /\ T!Posting' = T!Posting
    BY <1>2 DEF T!Owner, T!ConstructorReturns, T!ConstructorThrows, T!DestructorBody,
                T!DestructorEnds, T!Coming, T!Posting, T!workerVars, T!producerVars
  <2> QED
    BY <1>2, <2>1 DEF T!Owner, T!ConstructorReturns, T!ConstructorThrows, T!DestructorBody,
                      T!DestructorEnds, T!Accounting, T!WakeUps, T!Alive, T!historyVars
<1> QED
  BY <1>1, <1>2

(* A push adds a request and a caller that owes a post; a post turns that   *)
(* debt into a unit of the semaphore.                                       *)
LEMMA AccountingAppend ==
  ASSUME PoolInv, T!Accounting, NEW p \in Callers, T!AppendStep(p)
  PROVE  T!Accounting'
<1> USE CountsAreNat, PoolCounts DEF PoolInv, T!TypeOK, T!Accounting, T!WakeUps, T!Alive,
        T!workerVars, T!historyVars, T!poolVars
<1>1. T!Coming' = T!Coming
  BY DEF T!AppendStep, T!AppendLock, T!AppendRefuses, T!AppendChecks, T!AppendPushes,
         T!AppendUnlocks, T!AppendPosts, T!Coming
<1>2. CASE T!AppendPushes(p)
  <2>1. p \notin T!Posting /\ T!Posting' = T!Posting \cup {p}
    BY <1>2 DEF T!AppendPushes, T!Posting
  <2>2. Cardinality(T!Posting)' = Cardinality(T!Posting) + 1
    BY <2>1, CallerPushes
  <2>3. Len(t_m_workqueue') = Len(t_m_workqueue) + 1
    BY <1>2 DEF T!AppendPushes
  <2> QED
    BY <1>1, <1>2, <2>2, <2>3 DEF T!AppendPushes
<1>3. CASE T!AppendPosts(p)
  <2>1. p \in T!Posting /\ T!Posting' = T!Posting \ {p}
    BY <1>3 DEF T!AppendPosts, T!Posting
  <2>2. Cardinality(T!Posting)' = Cardinality(T!Posting) - 1
    BY <2>1, CallerPosts
  <2> QED
    BY <1>1, <1>3, <2>2 DEF T!AppendPosts
<1>4. CASE T!AppendLock(p) \/ T!AppendRefuses(p) \/ T!AppendChecks(p) \/ T!AppendUnlocks(p)
  <2>1. T!Posting' = T!Posting
    BY <1>4 DEF T!AppendLock, T!AppendRefuses, T!AppendChecks, T!AppendUnlocks, T!Posting
  <2> QED
    BY <1>1, <1>4, <2>1 DEF T!AppendLock, T!AppendRefuses, T!AppendChecks, T!AppendUnlocks
<1> QED
  BY <1>2, <1>3, <1>4 DEF T!AppendStep

(* A wait turns a unit into a worker on its way; a pop_front takes a        *)
(* request and that worker off together.                                    *)
LEMMA AccountingWorker ==
  ASSUME PoolInv, T!Accounting, NEW w \in PoolThreads,
         T!RunStep(w) \/ T!SemInterrupted(w) \/ T!TouchDestroyed(w)
  PROVE  T!Accounting'
<1> USE CountsAreNat, PoolCounts DEF PoolInv, T!TypeOK, T!Accounting, T!WakeUps, T!Alive,
        T!producerVars, T!historyVars, T!poolVars
<1>1. T!Posting' = T!Posting
  BY DEF T!RunStep, T!TestStop, T!SemWait, T!WorkerLock, T!FoundEmpty, T!FoundRequest, T!ReadFront,
         T!PopFront, T!WorkerUnlock, T!ProcessReturns, T!SemInterrupted, T!TouchDestroyed, T!Posting
<1>2. CASE T!SemWait(w)
  <2>1. w \notin T!Coming /\ T!Coming' = T!Coming \cup {w}
    BY <1>2 DEF T!SemWait, T!Coming
  <2>2. Cardinality(T!Coming)' = Cardinality(T!Coming) + 1
    BY <2>1, WorkerComes
  <2> QED
    BY <1>1, <1>2, <2>2 DEF T!SemWait
<1>3. CASE T!SemInterrupted(w)
  <2>1. w \notin T!Coming /\ T!Coming' = T!Coming \cup {w}
    BY <1>3 DEF T!SemInterrupted, T!Coming
  <2>2. Cardinality(T!Coming)' = Cardinality(T!Coming) + 1
    BY <2>1, WorkerComes
  <2> QED
    BY <1>1, <1>3, <2>2 DEF T!SemInterrupted
<1>4. CASE T!FoundEmpty(w)
  <2>1. w \in T!Coming /\ T!Coming' = T!Coming \ {w}
    BY <1>4 DEF T!FoundEmpty, T!Coming
  <2>2. Cardinality(T!Coming)' = Cardinality(T!Coming) - 1
    BY <2>1, WorkerGoes
  <2>3. Cardinality(T!Coming) > 0
    BY <2>1, CountsAreNat, FS_EmptySet
  <2> QED
    BY <1>1, <1>4, <2>2, <2>3 DEF T!FoundEmpty
<1>5. CASE T!PopFront(w)
  <2>1. w \in T!Coming /\ T!Coming' = T!Coming \ {w}
    BY <1>5 DEF T!PopFront, T!Coming
  <2>2. Cardinality(T!Coming)' = Cardinality(T!Coming) - 1
    BY <2>1, WorkerGoes
  <2>3. Len(t_m_workqueue') = Len(t_m_workqueue) - 1
    BY <1>5 DEF T!PopFront, T!FrontSafe
  <2>4. UNCHANGED <<t_life, t_m_queuestat, t_interrupts>>
    BY <1>5 DEF T!PopFront
  <2>5. Len(t_m_workqueue) \in Nat /\ Len(t_m_workqueue') \in Nat
    BY <2>3, <1>5 DEF T!PopFront, T!FrontSafe
  <2> HIDE DEF PoolInv, T!TypeOK
  <2>6. t_m_queuestat \in Nat /\ t_interrupts \in Nat
    BY DEF PoolInv, T!TypeOK
  <2> QED
    BY <1>1, <2>2, <2>3, <2>4, <2>5, <2>6
<1>6. CASE T!TouchDestroyed(w)
  BY <1>6 DEF T!TouchDestroyed
<1>7. CASE \/ T!TestStop(w) \/ T!WorkerLock(w) \/ T!FoundRequest(w) \/ T!ReadFront(w)
           \/ T!WorkerUnlock(w) \/ T!ProcessReturns(w)
  <2>1. T!Coming' = T!Coming
    <3>1. CASE T!TestStop(w) \/ T!WorkerLock(w)
      BY <3>1 DEF T!TestStop, T!WorkerLock, T!Coming
    <3>2. CASE T!FoundRequest(w) \/ T!ReadFront(w)
      BY <3>2 DEF T!FoundRequest, T!ReadFront, T!Coming
    <3>3. CASE T!WorkerUnlock(w) \/ T!ProcessReturns(w)
      BY <3>3 DEF T!WorkerUnlock, T!ProcessReturns, T!Coming
    <3> QED
      BY <1>7, <3>1, <3>2, <3>3
  <2> QED
    BY <1>1, <1>7, <2>1 DEF T!TestStop, T!WorkerLock, T!FoundRequest, T!ReadFront,
                            T!WorkerUnlock, T!ProcessReturns
<1> QED
  BY <1>2, <1>3, <1>4, <1>5, <1>6, <1>7 DEF T!RunStep

(* Together: every step preserves the accounting. *)
LEMMA AccountingNext == PoolInv /\ T!Accounting /\ [T!Next]_(T!vars) => T!Accounting'
<1> SUFFICES ASSUME PoolInv, T!Accounting, [T!Next]_(T!vars) PROVE T!Accounting'
  OBVIOUS
<1>1. ASSUME NEW p \in Callers, NEW r \in Requests \cup {NullRequest}, T!CallAppend(p, r)
      PROVE  T!Accounting'
  <2>1. T!Coming' = T!Coming /\ T!Posting' = T!Posting
    BY <1>1 DEF T!CallAppend, T!Coming, T!Posting, T!workerVars, PoolInv, T!TypeOK
  <2> QED
    BY <1>1, <2>1 DEF T!CallAppend, T!Accounting, T!WakeUps, T!Alive, T!poolVars
<1>2. CASE UNCHANGED T!vars
  BY <1>2 DEF T!vars, T!poolVars, T!producerVars, T!workerVars, T!historyVars, T!Accounting,
              T!WakeUps, T!Coming, T!Posting, T!Alive
<1> QED
  BY <1>1, <1>2, AccountingOwner, AccountingAppend, AccountingWorker DEF T!Next

(* No request is ever left in the list without a wake-up for it, for any    *)
(* number of callers and workers and however often a wait is interrupted.   *)
THEOREM NoRequestStranded == PoolSpec => []Accounting
BY PoolInvInit, PoolInvNext, AccountingInit, AccountingNext, PTL
   DEF PoolSpec, T!FairSpec, T!Spec, Accounting
-----------------------------------------------------------------------------
(* Refinement: the pool implements the bounded FIFO of TaskQueue.tla. *)

(* The part of the invariant that the refinement needs besides PoolInv: a   *)
(* null request is skipped, so what is processed is a request.              *)
ProcessesRequests == \A w \in PoolThreads : t_wpc[w] = "process" => t_wreq[w] # NullRequest

(* Initially nobody processes anything. *)
LEMMA ProcessesRequestsInit == T!Init => ProcessesRequests
BY DEF T!Init, ProcessesRequests

(* run() skips a null request before it calls process(). *)
LEMMA ProcessesRequestsNext ==
  PoolInv /\ ProcessesRequests /\ [T!Next]_(T!vars) => ProcessesRequests'
<1> SUFFICES ASSUME PoolInv, ProcessesRequests, [T!Next]_(T!vars) PROVE ProcessesRequests'
  OBVIOUS
<1> USE DEF ProcessesRequests, PoolInv, T!TypeOK, T!workerVars
<1>1. ASSUME NEW w \in PoolThreads, T!RunStep(w) \/ T!SemInterrupted(w) \/ T!TouchDestroyed(w)
      PROVE  ProcessesRequests'
  <2>1. CASE T!TestStop(w) \/ T!SemWait(w) \/ T!WorkerLock(w) \/ T!FoundEmpty(w) \/ T!FoundRequest(w)
    BY <2>1 DEF T!TestStop, T!SemWait, T!WorkerLock, T!FoundEmpty, T!FoundRequest
  <2>2. CASE T!ReadFront(w) \/ T!PopFront(w)
    BY <2>2 DEF T!ReadFront, T!PopFront
  <2>3. CASE T!WorkerUnlock(w) \/ T!ProcessReturns(w)
    BY <2>3 DEF T!WorkerUnlock, T!ProcessReturns
  <2>4. CASE T!SemInterrupted(w) \/ T!TouchDestroyed(w)
    BY <2>4 DEF T!SemInterrupted, T!TouchDestroyed
  <2> QED
    BY <1>1, <2>1, <2>2, <2>3, <2>4 DEF T!RunStep
<1>2. ASSUME NEW w \in PoolThreads, T!CreateThread(w) PROVE ProcessesRequests'
  BY <1>2 DEF T!CreateThread
<1>3. CASE T!ConstructorReturns \/ T!ConstructorThrows \/ T!DestructorBody \/ T!DestructorEnds
  BY <1>3 DEF T!ConstructorReturns, T!ConstructorThrows, T!DestructorBody, T!DestructorEnds
<1>4. ASSUME NEW p \in Callers,
             T!AppendStep(p) \/ \E r \in Requests \cup {NullRequest} : T!CallAppend(p, r)
      PROVE  ProcessesRequests'
  BY <1>4 DEF T!AppendStep, T!AppendLock, T!AppendRefuses, T!AppendChecks, T!AppendPushes,
              T!AppendUnlocks, T!AppendPosts, T!CallAppend
<1>5. CASE UNCHANGED T!vars
  BY <1>5 DEF T!vars
<1> QED
  BY <1>1, <1>2, <1>3, <1>4, <1>5 DEF T!Next, T!Owner

(* An empty pool is an empty queue. *)
LEMMA RefinesInit == T!Init => T!Queue!Init
BY DEF T!Init, T!Queue!Init

(* Every step of the pool is a step of the queue or leaves it unchanged. *)
LEMMA RefinesNext ==
  PoolInv /\ ProcessesRequests /\ [T!Next]_(T!vars) => [T!Queue!Next]_(T!Queue!queueVars)
<1> SUFFICES ASSUME PoolInv, ProcessesRequests, [T!Next]_(T!vars)
             PROVE  [T!Queue!Next]_(T!Queue!queueVars)
  OBVIOUS
<1> USE DEF PoolInv, T!TypeOK, T!Queue!Next, T!Queue!queueVars
<1>1. CASE T!Owner
  <2>1. CASE T!DestructorBody \/ T!ConstructorThrows
    <3>1. T!Queue!Close
      BY <2>1 DEF T!DestructorBody, T!ConstructorThrows, T!Queue!Close, T!workerVars, T!historyVars
    <3> QED
      BY <3>1
  <2>2. CASE T!DestructorEnds \/ T!ConstructorReturns
    BY <2>2 DEF T!DestructorEnds, T!ConstructorReturns, T!workerVars, T!historyVars
  <2>3. ASSUME NEW w \in PoolThreads, T!CreateThread(w)
        PROVE  UNCHANGED T!Queue!queueVars
    BY <2>3 DEF T!CreateThread, T!poolVars, T!historyVars
  <2> QED
    BY <1>1, <2>1, <2>2, <2>3 DEF T!Owner
<1>2. ASSUME NEW p \in Callers, T!AppendPushes(p)
      PROVE  T!Queue!Submit(t_preq[p])
  <2>1. t_life = "ready"
    BY <1>2 DEF T!AppendPushes, CallersOutside
  <2>2. Len(t_m_workqueue) < MaxRequests + 1
    BY <1>2, PoolConstants DEF T!AppendPushes, T!Bounded
  <2> QED
    BY <1>2, <2>1, <2>2 DEF T!AppendPushes, T!Queue!Submit, T!workerVars, T!historyVars
<1>3. ASSUME NEW p \in Callers, T!AppendStep(p), ~T!AppendPushes(p)
      PROVE  UNCHANGED T!Queue!queueVars
  BY <1>3 DEF T!AppendStep, T!AppendLock, T!AppendRefuses, T!AppendChecks, T!AppendUnlocks,
              T!AppendPosts, T!poolVars, T!workerVars, T!historyVars
<1>4. ASSUME NEW p \in Callers, NEW r \in Requests \cup {NullRequest}, T!CallAppend(p, r)
      PROVE  UNCHANGED T!Queue!queueVars
  BY <1>4 DEF T!CallAppend, T!poolVars, T!workerVars
<1>5. ASSUME NEW w \in PoolThreads, T!PopFront(w)
      PROVE  T!Queue!Take(w)
  BY <1>5 DEF T!PopFront, T!FrontSafe, T!Queue!Take, T!historyVars
<1>6. ASSUME NEW w \in PoolThreads, T!ProcessReturns(w)
      PROVE  T!Queue!Finish(w)
  BY <1>6 DEF T!ProcessReturns, ProcessesRequests, T!Queue!Finish, T!poolVars
<1>7. ASSUME NEW w \in PoolThreads, T!TouchDestroyed(w)
      PROVE  T!Queue!Abandon(w)
  BY <1>7 DEF T!TouchDestroyed, T!Alive, T!Queue!Abandon, T!poolVars, T!historyVars
<1>8. ASSUME NEW w \in PoolThreads, T!RunStep(w) \/ T!SemInterrupted(w),
             ~T!PopFront(w), ~T!ProcessReturns(w)
      PROVE  UNCHANGED T!Queue!queueVars
  <2>1. UNCHANGED <<t_m_workqueue, t_life, t_finished>>
    BY <1>8 DEF T!RunStep, T!TestStop, T!SemWait, T!WorkerLock, T!FoundEmpty, T!FoundRequest,
                T!ReadFront, T!WorkerUnlock, T!SemInterrupted, T!poolVars, T!historyVars
  <2>2. CASE T!TestStop(w) \/ T!SemWait(w) \/ T!WorkerLock(w) \/ T!FoundEmpty(w)
    BY <2>1, <2>2 DEF T!TestStop, T!SemWait, T!WorkerLock, T!FoundEmpty
  <2>3. CASE T!FoundRequest(w) \/ T!ReadFront(w)
    BY <2>1, <2>3 DEF T!FoundRequest, T!ReadFront
  <2>4. CASE T!WorkerUnlock(w) \/ T!SemInterrupted(w)
    BY <2>1, <2>4 DEF T!WorkerUnlock, T!SemInterrupted
  <2> QED
    BY <1>8, <2>2, <2>3, <2>4 DEF T!RunStep
<1>9. CASE UNCHANGED T!vars
  BY <1>9 DEF T!vars, T!poolVars, T!workerVars, T!historyVars
<1> QED
  <2>1. ASSUME NEW p \in Callers, T!AppendPushes(p)
        PROVE  T!Queue!Next
    BY <1>2, <2>1
  <2>2. ASSUME NEW w \in PoolThreads, T!PopFront(w) \/ T!ProcessReturns(w) \/ T!TouchDestroyed(w)
        PROVE  T!Queue!Next
    BY <1>5, <1>6, <1>7, <2>2
  <2> QED
    BY <1>1, <1>3, <1>4, <1>8, <1>9, <2>1, <2>2 DEF T!Next

(* The pool is a bounded FIFO queue of requests, each taken by one worker   *)
(* and finished by it, with the request accepted at push_back and taken at  *)
(* pop_front.                                                               *)
THEOREM PoolImplementsTaskQueue == PoolSpec => ImplementsTaskQueue
<1>1. PoolInv /\ ProcessesRequests /\ [T!Next]_(T!vars) => (PoolInv /\ ProcessesRequests)'
  BY PoolInvNext, ProcessesRequestsNext
<1> QED
  BY <1>1, PoolInvInit, ProcessesRequestsInit, RefinesInit, RefinesNext, PTL
     DEF PoolSpec, T!FairSpec, T!Spec, ImplementsTaskQueue, T!ImplementsTaskQueue, T!Queue!Spec
=============================================================================
