----------------------------- MODULE Mgr_proofs -----------------------------
(***************************************************************************)
(* Proofs about the connection manager (Mgr.tla), for any number of        *)
(* connections and any descriptor numbers below 256: every connection is   *)
(* in one place and every open socket belongs to one connection            *)
(* (ConnectionsAccounted), an event is dispatched to the owner of its      *)
(* descriptor (DispatchedToOwner), and the parent is told a load that      *)
(* covers every session (LoadReported).                                    *)
(***************************************************************************)
EXTENDS Mgr, FunctionTheorems, FiniteSetTheorems, TLAPS

TypeOK ==
  /\ m_conns \in [Fd -> Conns \cup {Absent}]
  /\ m_used \in [Fd -> Conns \cup {NULL, Absent}]
  /\ m_freed \in [Fd -> Conns \cup {Absent}]
  /\ m_cltfd \in [Conns -> Fd \cup {NoFd}]
  /\ m_srvfd \in [Conns -> Fd \cup {NoFd}]
  /\ m_srv_closed \in [Conns -> BOOLEAN]
  /\ created \subseteq Conns
  /\ open \subseteq Fd
  /\ interest \in [Fd -> {"IN", "OUT", "none"}]
  /\ phase \in {"build", "wait", "handle", "recycle", "exit"}
  /\ iter \subseteq Fd
  /\ dropped \subseteq Conns
  /\ reported \in Nat

(* The connection that a map or a session makes the owner of an open socket. *)
Has(c, fd) ==
  \/ m_conns[fd] = c
  \/ m_cltfd[c] = fd
  \/ Bound(c) /\ m_srvfd[c] = fd

(* Outside recycle_conns nothing has been visited, and the constructor      *)
(* frees nothing.                                                           *)
Phases ==
  /\ phase # "recycle" => iter = {}
  /\ phase = "build" => \A fd \in Fd : m_freed[fd] = Absent

(* What the object of an idle connection says of it. *)
IdleConns ==
  \A fd \in Fd : m_conns[fd] \in Conns =>
    LET c == m_conns[fd]
    IN  c \in created \ dropped /\ m_srvfd[c] = fd /\ ~Bound(c)

(* What it says of a session's; and, outside recycle_conns, m_freed has no  *)
(* entry under the server socket of a connection in use: it would swallow   *)
(* the connection when free_conn inserts it.                                *)
BoundConns ==
  /\ \A c \in Conns : Bound(c) =>
       /\ c \in created \ dropped
       /\ m_srvfd[c] \in Fd
       /\ m_srvfd[c] # m_cltfd[c]
  /\ phase # "recycle" =>
       \A c \in Conns, fd \in Fd :
         m_srvfd[c] = fd /\ (m_conns[fd] = c \/ Bound(c)) => m_freed[fd] = Absent

(* A freed connection still to be tried is known by the socket it had. *)
FreedConns ==
  \A fd \in Fd : m_freed[fd] \in Conns =>
    LET c == m_freed[fd]
    IN  /\ c \in created /\ ~Bound(c)
        /\ fd \notin iter =>
             m_srvfd[c] = fd /\ c \notin dropped /\ ~Idle(c)

DroppedConns == \A c \in dropped : c \in created /\ ~Bound(c)

(* No connection is lost. *)
Somewhere ==
  \A c \in created : Idle(c) \/ Bound(c) \/ ToRepair(c) \/ c \in dropped

(* A socket has one owner, the open ones are those that have one, and those *)
(* of sessions are watched.                                                 *)
OneOwner == \A c, d \in Conns, fd \in Fd : Has(c, fd) /\ Has(d, fd) => c = d

OpenOwned ==
  \A fd \in Fd :
    /\ fd \in open <=> \E c \in Conns : Has(c, fd)
    /\ interest[fd] # "none" <=> \E c \in Conns : Bound(c) /\ Has(c, fd)

MgrInv ==
  /\ TypeOK
  /\ Phases
  /\ IdleConns
  /\ BoundConns
  /\ FreedConns
  /\ DroppedConns
  /\ Somewhere
  /\ OneOwner
  /\ OpenOwned
  /\ DispatchedToOwner
-----------------------------------------------------------------------------
(* The null pointer, the missing entry and the descriptor -1 are no conn    *)
(* and no number.                                                           *)
LEMMA Distinct ==
  /\ NULL \notin Conns /\ Absent \notin Conns /\ Absent # NULL /\ NoFd \notin Fd
  /\ Fd \subseteq Nat
BY MgrAssumption

(* There are fewer descriptor numbers than the byte sent to the parent can  *)
(* count.                                                                   *)
LEMMA FitsByte ==
  \A S \in SUBSET Fd :
    /\ IsFiniteSet(S)
    /\ Cardinality(S) \in Nat
    /\ Cardinality(S) % 256 = Cardinality(S)
<1> SUFFICES ASSUME NEW S \in SUBSET Fd
             PROVE  /\ IsFiniteSet(S)
                    /\ Cardinality(S) \in Nat
                    /\ Cardinality(S) % 256 = Cardinality(S)
  OBVIOUS
<1>1. IsFiniteSet(Fd) /\ Cardinality(Fd) < 256
  BY MgrAssumption
<1>2. IsFiniteSet(S) /\ Cardinality(S) <= Cardinality(Fd)
  BY <1>1, FS_Subset
<1>3. Cardinality(S) \in Nat /\ Cardinality(Fd) \in Nat
  BY <1>1, <1>2, FS_CardinalityType
<1> QED
  BY <1>1, <1>2, <1>3

(* The constructor finds nothing, connects nothing and frees nothing before *)
(* its first attempt.                                                       *)
LEMMA MgrInit == Init => MgrInv
<1> SUFFICES ASSUME Init PROVE MgrInv
  OBVIOUS
<1>1. TypeOK
  BY Distinct DEF Init, TypeOK, EmptyMap
<1>2. \A fd \in Fd : m_conns[fd] = Absent /\ m_used[fd] = Absent /\ m_freed[fd] = Absent
  BY DEF Init, EmptyMap
<1>3. \A c \in Conns : ~Bound(c)
  BY DEF Init, Bound
<1>4. \A c \in Conns, fd \in Fd : ~Has(c, fd)
  BY <1>2, <1>3, Distinct DEF Has, Init
<1>5. created = {} /\ dropped = {} /\ open = {} /\ iter = {} /\ interest = [fd \in Fd |-> "none"]
  BY DEF Init
<1>6. OneOwner /\ OpenOwned
  BY <1>4, <1>5 DEF OneOwner, OpenOwned
<1>7. Phases /\ IdleConns /\ BoundConns /\ FreedConns
  BY <1>2, <1>3, <1>5, Distinct DEF Phases, IdleConns, BoundConns, FreedConns
<1>8. DroppedConns /\ Somewhere /\ DispatchedToOwner
  BY <1>2, <1>3, <1>5, Distinct DEF DroppedConns, Somewhere, DispatchedToOwner
<1> QED
  BY <1>1, <1>6, <1>7, <1>8 DEF MgrInv

(* A number that is not in use is in no map of connections and belongs to   *)
(* no session.                                                              *)
LEMMA FreeNumber ==
  ASSUME MgrInv, NEW fd \in Fd, fd \notin open
  PROVE  /\ m_conns[fd] = Absent
         /\ m_used[fd] \notin Conns
         /\ interest[fd] = "none"
         /\ \A c \in Conns : ~Has(c, fd)
<1>0. TypeOK /\ OpenOwned /\ DispatchedToOwner
  BY DEF MgrInv
<1>1. \A c \in Conns : ~Has(c, fd)
  BY <1>0 DEF OpenOwned
<1>2. m_conns[fd] = Absent
  BY <1>0, <1>1 DEF Has, TypeOK
<1>3. m_used[fd] \notin Conns
  BY <1>0, <1>1, Distinct DEF Has, DispatchedToOwner
<1>4. interest[fd] = "none"
  BY <1>0, <1>1 DEF OpenOwned
<1> QED
  BY <1>1, <1>2, <1>3, <1>4

(* The constructor connects to the server: one more idle connection. *)
LEMMA InvBuild ==
  ASSUME MgrInv, NEW c \in Conns, NEW fd \in Fd, BuildConn(c, fd)
  PROVE  MgrInv'
<1>0. TypeOK /\ Phases /\ IdleConns /\ BoundConns /\ FreedConns /\ DroppedConns
      /\ Somewhere /\ OneOwner /\ OpenOwned /\ DispatchedToOwner
  BY DEF MgrInv
<1>a. /\ phase = "build" /\ phase' = phase /\ c \notin created /\ fd \notin open
      /\ m_conns' = Insert(m_conns, fd, c) /\ m_srvfd' = [m_srvfd EXCEPT ![c] = fd]
      /\ created' = created \cup {c} /\ open' = open \cup {fd}
      /\ UNCHANGED <<m_used, m_freed, m_cltfd, m_srv_closed, interest, iter, reported, dropped>>
  BY DEF BuildConn
<1>1. m_conns[fd] = Absent /\ m_used[fd] \notin Conns /\ (\A d \in Conns : ~Has(d, fd))
  BY <1>a, FreeNumber
<1>2. /\ m_conns' \in [Fd -> Conns \cup {Absent}] /\ m_conns'[fd] = c
      /\ \A f \in Fd : f # fd => m_conns'[f] = m_conns[f]
  BY <1>0, <1>1, <1>a DEF TypeOK, Insert
<1>3. /\ m_srvfd' \in [Conns -> Fd \cup {NoFd}] /\ m_srvfd'[c] = fd
      /\ \A d \in Conns : d # c => m_srvfd'[d] = m_srvfd[d]
  BY <1>0, <1>a DEF TypeOK
<1>4. ~Bound(c) /\ (\A f \in Fd : m_conns[f] # c /\ m_freed[f] # c)
  BY <1>0, <1>a DEF BoundConns, IdleConns, FreedConns
<1>5. \A d \in Conns : Bound(d)' <=> Bound(d)
  BY <1>a DEF Bound
<1>6. \A d \in Conns, f \in Fd : Has(d, f)' <=> Has(d, f) \/ (d = c /\ f = fd)
  BY <1>1, <1>2, <1>3, <1>4, <1>5, <1>a, Distinct DEF Has
<1>7. TypeOK'
  BY <1>0, <1>2, <1>3, <1>a DEF TypeOK
<1>8. OneOwner' /\ OpenOwned'
  <2>1. OneOwner'
    BY <1>0, <1>1, <1>6 DEF OneOwner
  <2>2. \A f \in Fd : f \in open' <=> \E d \in Conns : Has(d, f)'
    BY <1>0, <1>6, <1>a DEF OpenOwned
  <2>3. \A f \in Fd : interest'[f] # "none" <=> \E d \in Conns : Bound(d)' /\ Has(d, f)'
    BY <1>0, <1>4, <1>5, <1>6, <1>a DEF OpenOwned
  <2> QED
    BY <2>1, <2>2, <2>3 DEF OpenOwned
<1>9. Phases' /\ IdleConns'
  BY <1>0, <1>2, <1>3, <1>4, <1>5, <1>a DEF Phases, IdleConns, DroppedConns
<1>10. BoundConns'
  BY <1>0, <1>2, <1>3, <1>4, <1>5, <1>a DEF Phases, BoundConns, Bound
<1>11. FreedConns'
  BY <1>0, <1>2, <1>3, <1>4, <1>5, <1>a DEF FreedConns, Idle
<1>12. DroppedConns' /\ Somewhere'
  <2>1. \A d \in created : Idle(d) => Idle(d)'
    BY <1>1, <1>2, <1>0, Distinct, <1>a DEF Idle, TypeOK
  <2>2. Idle(c)'
    BY <1>2 DEF Idle
  <2>3. \A d \in created : ToRepair(d)' <=> ToRepair(d)
    BY <1>a DEF ToRepair, Unvisited, Keys
  <2> QED
    BY <2>1, <2>2, <2>3, <1>0, <1>5, <1>a DEF DroppedConns, Somewhere, TypeOK
<1>13. DispatchedToOwner'
  <2>1. \A d \in Conns : Bound(d) => d # c
    BY <1>4
  <2> QED
    BY <2>1, <1>0, <1>3, <1>5, <1>a DEF DispatchedToOwner
<1> QED
  BY <1>7, <1>8, <1>9, <1>10, <1>11, <1>12, <1>13 DEF MgrInv

(* pick_conn and init_clt: the lowest idle connection and the accepted      *)
(* socket become a session.                                                 *)
LEMMA InvPick ==
  ASSUME MgrInv, NEW connfd \in Fd, NEW srvfd \in Fd, PickConn(connfd, srvfd)
  PROVE  MgrInv'
<1>0. TypeOK /\ Phases /\ IdleConns /\ BoundConns /\ FreedConns /\ DroppedConns
      /\ Somewhere /\ OneOwner /\ OpenOwned /\ DispatchedToOwner
  BY DEF MgrInv
<1>a. /\ phase = "handle" /\ phase' = phase /\ connfd \notin open /\ m_conns[srvfd] # Absent
      /\ m_used' = Insert(Insert(m_used, connfd, m_conns[srvfd]), srvfd, m_conns[srvfd])
      /\ m_cltfd' = [m_cltfd EXCEPT ![m_conns[srvfd]] = connfd]
      /\ m_conns' = Erase(m_conns, {srvfd})
      /\ open' = open \cup {connfd}
      /\ interest' = [interest EXCEPT ![connfd] = "IN", ![srvfd] = "IN"]
      /\ reported' = Cardinality(Keys(m_used')) % 256
      /\ UNCHANGED <<iter, m_freed, m_srvfd, m_srv_closed, created, dropped>>
  BY DEF PickConn, Handling, Keys, Notify
<1>b. PICK c \in Conns : c = m_conns[srvfd]
  BY <1>0, <1>a DEF TypeOK
<1>1. /\ m_conns[connfd] = Absent /\ m_used[connfd] \notin Conns
      /\ \A d \in Conns : ~Has(d, connfd)
  BY <1>a, FreeNumber
<1>c. c \in created \ dropped /\ m_srvfd[c] = srvfd /\ ~Bound(c) /\ srvfd # connfd
  BY <1>0, <1>1, <1>b, Distinct DEF IdleConns
<1>d. Has(c, srvfd) /\ (\A d \in Conns : Has(d, srvfd) => d = c) /\ srvfd \in open
  BY <1>0, <1>b DEF Has, OneOwner, OpenOwned
<1>e. m_used[srvfd] \notin Conns
  BY <1>0, <1>b, <1>c, <1>d DEF DispatchedToOwner, Has
<1>2. /\ m_conns' \in [Fd -> Conns \cup {Absent}] /\ m_conns'[srvfd] = Absent
      /\ \A f \in Fd : f # srvfd => m_conns'[f] = m_conns[f]
  BY <1>0, <1>a DEF TypeOK, Erase
<1>3. /\ m_cltfd' \in [Conns -> Fd \cup {NoFd}] /\ m_cltfd'[c] = connfd
      /\ \A d \in Conns : d # c => m_cltfd'[d] = m_cltfd[d]
  BY <1>0, <1>a, <1>b DEF TypeOK
<1>4. /\ m_used' \in [Fd -> Conns \cup {NULL, Absent}]
      /\ m_used'[connfd] \in {c, NULL} /\ m_used'[srvfd] \in {c, NULL}
      /\ \A f \in Fd : f # connfd /\ f # srvfd => m_used'[f] = m_used[f]
  <2> DEFINE one == Insert(m_used, connfd, c)
  <2>1. /\ one \in [Fd -> Conns \cup {NULL, Absent}]
        /\ one[connfd] \in {c, NULL}
        /\ \A f \in Fd : f # connfd => one[f] = m_used[f]
    BY <1>0, <1>1, <1>b, Distinct DEF Insert, TypeOK
  <2>2. one[srvfd] \in {NULL, Absent}
    BY <1>0, <1>c, <1>e, <2>1 DEF TypeOK
  <2>3. m_used' = Insert(one, srvfd, c)
    BY <1>a, <1>b
  <2> HIDE DEF one
  <2> QED
    BY <1>b, <1>c, <2>1, <2>2, <2>3, Distinct DEF Insert
<1>5. \A d \in Conns : Bound(d)' <=> Bound(d) \/ d = c
  BY <1>3, <1>b, Distinct DEF Bound
<1>6. \A f \in Fd : m_freed[f] # c
  BY <1>0, <1>a, <1>b DEF Phases, FreedConns, Idle
<1>7. \A d \in Conns, f \in Fd : Has(d, f)' <=> Has(d, f) \/ (d = c /\ f = connfd)
  <2>1. ASSUME NEW d \in Conns, d # c, NEW f \in Fd PROVE Has(d, f)' <=> Has(d, f)
    <3>1. m_conns'[f] = d <=> m_conns[f] = d
      BY <1>2, <1>b, <2>1, Distinct
    <3> QED
      BY <3>1, <2>1, <1>3, <1>5, <1>a DEF Has, Bound
  <2>2. ASSUME NEW f \in Fd PROVE Has(c, f)' <=> f = srvfd \/ f = connfd
    BY <1>2, <1>3, <1>5, <1>a, <1>b, <1>c, <1>0 DEF Has, Bound, IdleConns
  <2>3. ASSUME NEW f \in Fd PROVE Has(c, f) <=> f = srvfd
    BY <1>0, <1>b, <1>c, Distinct DEF Has, Bound, IdleConns
  <2> QED
    BY <2>1, <2>2, <2>3, <1>b
<1>8. TypeOK'
  <2>1. Keys(m_used') \subseteq Fd
    BY DEF Keys
  <2>2. reported' \in Nat
    BY <2>1, <1>a, FitsByte
  <2>3. interest' \in [Fd -> {"IN", "OUT", "none"}]
    BY <1>0, <1>a DEF TypeOK
  <2> QED
    BY <1>0, <1>2, <1>3, <1>4, <1>a, <2>2, <2>3 DEF TypeOK
<1>9. OneOwner' /\ OpenOwned'
  <2>1. OneOwner'
    BY <1>0, <1>1, <1>7 DEF OneOwner
  <2>2. \A f \in Fd : f \in open' <=> \E d \in Conns : Has(d, f)'
    BY <1>0, <1>7, <1>a, <1>b DEF OpenOwned
  <2>3. \A f \in Fd : interest'[f] # "none" <=> f = connfd \/ f = srvfd \/ interest[f] # "none"
    BY <1>0, <1>a DEF TypeOK
  <2>4. \A f \in Fd : interest'[f] # "none" <=> \E d \in Conns : Bound(d)' /\ Has(d, f)'
    <3>1. ASSUME NEW f \in Fd, interest'[f] # "none"
          PROVE  \E d \in Conns : Bound(d)' /\ Has(d, f)'
      BY <3>1, <2>3, <1>0, <1>5, <1>7, <1>b, <1>d DEF OpenOwned
    <3>2. ASSUME NEW f \in Fd, NEW d \in Conns, Bound(d)', Has(d, f)'
          PROVE  interest'[f] # "none"
      <4>1. CASE d = c
        <5>1. f = srvfd \/ f = connfd
          BY <3>2, <4>1, <1>7, <1>0, <1>b, <1>c, Distinct DEF Has, Bound, IdleConns
        <5> QED
          BY <5>1, <2>3
      <4>2. CASE d # c
        BY <3>2, <4>2, <2>3, <1>0, <1>5, <1>7 DEF OpenOwned
      <4> QED
        BY <4>1, <4>2
    <3> QED
      BY <3>1, <3>2
  <2> QED
    BY <2>1, <2>2, <2>4 DEF OpenOwned
<1>10. Phases' /\ IdleConns'
  <2>1. Phases'
    BY <1>0, <1>a DEF Phases
  <2>2. \A f \in Fd : m_conns'[f] \in Conns => m_conns'[f] = m_conns[f] /\ m_conns[f] # c
    BY <1>0, <1>2, <1>c, Distinct DEF IdleConns
  <2> QED
    BY <2>1, <2>2, <1>0, <1>5, <1>a DEF IdleConns
<1>11. BoundConns'
  <2>1. \A d \in Conns : Bound(d)' => d \in created' \ dropped' /\ m_srvfd'[d] \in Fd /\ m_srvfd'[d] # m_cltfd'[d]
    BY <1>0, <1>3, <1>5, <1>a, <1>b, <1>c DEF BoundConns
  <2>2. m_freed[srvfd] = Absent
    BY <1>0, <1>a, <1>b, <1>c DEF BoundConns
  <2>3. ASSUME NEW d \in Conns, NEW f \in Fd, m_srvfd'[d] = f, m_conns'[f] = d \/ Bound(d)'
        PROVE  m_freed'[f] = Absent
    <3>1. CASE d = c
      BY <3>1, <2>2, <2>3, <1>a, <1>c
    <3>2. CASE d # c
      <4>1. m_srvfd[d] = f /\ (m_conns[f] = d \/ Bound(d))
        BY <3>2, <2>3, <1>2, <1>5, <1>a, Distinct
      <4> QED
        BY <4>1, <1>0, <1>a DEF BoundConns
    <3> QED
      BY <3>1, <3>2
  <2> QED
    BY <2>1, <2>3 DEF BoundConns, Bound
<1>12. FreedConns'
  <2>1. \A f \in Fd : m_freed[f] \in Conns => m_freed[f] # c
    BY <1>6
  <2>2. \A d \in Conns : Idle(d)' => Idle(d)
    BY <1>2, Distinct DEF Idle
  <2> QED
    BY <2>1, <2>2, <1>0, <1>5, <1>a DEF FreedConns
<1>13. DroppedConns' /\ Somewhere'
  <2>1. \A d \in Conns : d # c /\ Idle(d) => Idle(d)'
    BY <1>2, <1>b DEF Idle
  <2>2. \A d \in created : ToRepair(d)' <=> ToRepair(d)
    BY <1>a DEF ToRepair, Unvisited, Keys
  <2> QED
    BY <2>1, <2>2, <1>0, <1>5, <1>a, <1>c DEF DroppedConns, Somewhere, TypeOK
<1>14. DispatchedToOwner'
  <2>1. \A d \in Conns : d # c /\ Bound(d) =>
           m_cltfd[d] \notin {connfd, srvfd} /\ m_srvfd[d] \notin {connfd, srvfd}
    BY <1>1, <1>d DEF Has
  <2>2. \A d \in Conns : Bound(d) => m_cltfd[d] \in Fd /\ m_srvfd[d] \in Fd
    BY <1>0 DEF Bound, BoundConns, TypeOK
  <2>3. \A d \in Conns : Bound(d)' => m_used'[m_cltfd'[d]] \in {d, NULL} /\ m_used'[m_srvfd'[d]] \in {d, NULL}
    BY <2>1, <2>2, <1>0, <1>3, <1>4, <1>5, <1>a, <1>c DEF DispatchedToOwner
  <2>4. ASSUME NEW f \in Fd, NEW d \in Conns, m_used'[f] = d
        PROVE  Bound(d)' /\ f \in {m_cltfd'[d], m_srvfd'[d]}
    <3>1. CASE f = connfd \/ f = srvfd
      <4>1. d = c
        BY <3>1, <2>4, <1>4, Distinct
      <4> QED
        BY <4>1, <3>1, <1>3, <1>5, <1>a, <1>b, <1>c
    <3>2. CASE f # connfd /\ f # srvfd
      <4>1. Bound(d) /\ f \in {m_cltfd[d], m_srvfd[d]} /\ d # c
        BY <3>2, <2>4, <1>0, <1>4, <1>b, <1>c DEF DispatchedToOwner
      <4> QED
        BY <4>1, <1>3, <1>5, <1>a
    <3> QED
      BY <3>1, <3>2
  <2> QED
    BY <2>3, <2>4 DEF DispatchedToOwner, Bound
<1> QED
  BY <1>8, <1>9, <1>10, <1>11, <1>12, <1>13, <1>14 DEF MgrInv

(* free_conn on the connection of a session: both its sockets are closed and *)
(* it waits for repair.                                                     *)
LEMMA InvFree ==
  ASSUME MgrInv, NEW c \in Conns, Bound(c), FreeConn(c),
         phase = "handle", phase' = phase, iter' = iter
  PROVE  MgrInv'
<1>0. TypeOK /\ Phases /\ IdleConns /\ BoundConns /\ FreedConns /\ DroppedConns
      /\ Somewhere /\ OneOwner /\ OpenOwned /\ DispatchedToOwner
  BY DEF MgrInv
<1>p. PICK p \in Fd, q \in Fd : p = m_cltfd[c] /\ q = m_srvfd[c] /\ p # q
  BY <1>0 DEF TypeOK, BoundConns, Bound
<1>a. /\ m_freed' = Insert(m_freed, q, c)
      /\ m_used' = Erase(m_used, {p, q})
      /\ m_cltfd' = [m_cltfd EXCEPT ![c] = NoFd]
      /\ m_srv_closed' = [m_srv_closed EXCEPT ![c] = FALSE]
      /\ open' = open \ {p, q}
      /\ interest' = [f \in Fd |-> IF f \in {p, q} THEN "none" ELSE interest[f]]
      /\ reported' = Cardinality(Keys(m_used')) % 256
      /\ UNCHANGED <<m_conns, m_srvfd, created, dropped>>
  BY <1>p DEF FreeConn, Notify
<1>b. c \in created \ dropped
  BY <1>0 DEF BoundConns
<1>c. m_freed[q] = Absent
  BY <1>0, <1>p DEF BoundConns
<1>1. /\ m_freed' \in [Fd -> Conns \cup {Absent}] /\ m_freed'[q] = c
      /\ \A f \in Fd : f # q => m_freed'[f] = m_freed[f]
  BY <1>0, <1>a, <1>c DEF TypeOK, Insert
<1>2. /\ m_used' \in [Fd -> Conns \cup {NULL, Absent}]
      /\ m_used'[p] = Absent /\ m_used'[q] = Absent
      /\ \A f \in Fd : f # p /\ f # q => m_used'[f] = m_used[f]
  BY <1>0, <1>a DEF TypeOK, Erase
<1>3. /\ m_cltfd' \in [Conns -> Fd \cup {NoFd}] /\ m_cltfd'[c] = NoFd
      /\ \A d \in Conns : d # c => m_cltfd'[d] = m_cltfd[d]
  BY <1>0, <1>a DEF TypeOK
<1>4. \A d \in Conns : Bound(d)' <=> Bound(d) /\ d # c
  BY <1>3 DEF Bound
<1>5. \A f \in Fd : m_conns[f] # c /\ m_freed[f] # c
  BY <1>0 DEF IdleConns, FreedConns
<1>6. Has(c, p) /\ Has(c, q)
  BY <1>p DEF Has
<1>7. \A d \in Conns : d # c => ~Has(d, p) /\ ~Has(d, q)
  BY <1>0, <1>6 DEF OneOwner
<1>8. \A d \in Conns, f \in Fd : Has(d, f)' <=> Has(d, f) /\ d # c
  <2>1. ASSUME NEW f \in Fd PROVE ~Has(c, f)'
    BY <1>3, <1>4, <1>5, <1>a, Distinct DEF Has
  <2>2. ASSUME NEW d \in Conns, d # c, NEW f \in Fd PROVE Has(d, f)' <=> Has(d, f)
    BY <2>2, <1>3, <1>4, <1>a DEF Has
  <2> QED
    BY <2>1, <2>2
<1>9. \A f \in Fd : Has(c, f) <=> f = p \/ f = q
  BY <1>5, <1>p DEF Has, Bound
<1>10. TypeOK'
  <2>1. Keys(m_used') \subseteq Fd
    BY DEF Keys
  <2>2. reported' \in Nat
    BY <2>1, <1>a, FitsByte
  <2>3. interest' \in [Fd -> {"IN", "OUT", "none"}] /\ m_srv_closed' \in [Conns -> BOOLEAN]
    BY <1>0, <1>a DEF TypeOK
  <2> QED
    BY <1>0, <1>1, <1>2, <1>3, <1>a, <2>2, <2>3 DEF TypeOK
<1>11. OneOwner' /\ OpenOwned'
  <2>1. OneOwner'
    BY <1>0, <1>8 DEF OneOwner
  <2>2. \A f \in Fd : f \in open' <=> \E d \in Conns : Has(d, f)'
    BY <1>0, <1>7, <1>8, <1>9, <1>a DEF OpenOwned
  <2>3. \A f \in Fd : interest'[f] # "none" <=> f # p /\ f # q /\ interest[f] # "none"
    BY <1>a
  <2>4. \A f \in Fd : interest'[f] # "none" <=> \E d \in Conns : Bound(d)' /\ Has(d, f)'
    BY <1>0, <1>4, <1>7, <1>8, <1>9, <2>3 DEF OpenOwned
  <2> QED
    BY <2>1, <2>2, <2>4 DEF OpenOwned
<1>12. Phases' /\ IdleConns'
  <2>1. Phases'
    BY <1>0 DEF Phases
  <2> QED
    BY <2>1, <1>0, <1>4, <1>a DEF IdleConns
<1>13. BoundConns'
  <2>1. \A d \in Conns : Bound(d)' => d \in created' \ dropped' /\ m_srvfd'[d] \in Fd /\ m_srvfd'[d] # m_cltfd'[d]
    BY <1>0, <1>3, <1>4, <1>a DEF BoundConns
  <2>2. ASSUME NEW d \in Conns, NEW f \in Fd, m_srvfd'[d] = f, m_conns'[f] = d \/ Bound(d)'
        PROVE  m_freed'[f] = Absent
    <3>1. d # c /\ m_srvfd[d] = f /\ (m_conns[f] = d \/ Bound(d))
      BY <2>2, <1>4, <1>5, <1>a
    <3>2. Has(d, f)
      BY <3>1 DEF Has
    <3>3. f # q /\ m_freed[f] = Absent
      BY <3>1, <3>2, <1>0, <1>7 DEF BoundConns
    <3> QED
      BY <3>3, <1>1
  <2> QED
    BY <2>1, <2>2 DEF BoundConns, Bound
<1>14. FreedConns'
  <2>1. ASSUME NEW f \in Fd, NEW d \in Conns, m_freed'[f] = d
        PROVE  /\ d \in created' /\ ~Bound(d)'
               /\ f \notin iter' => m_srvfd'[d] = f /\ d \notin dropped' /\ ~Idle(d)'
    <3>1. CASE f = q
      <4>1. d = c
        BY <3>1, <2>1, <1>1
      <4>2. ~Idle(c)'
        BY <1>5, <1>a DEF Idle
      <4> QED
        BY <4>1, <4>2, <3>1, <1>4, <1>a, <1>b, <1>p
    <3>2. CASE f # q
      <4>1. m_freed[f] = d
        BY <3>2, <2>1, <1>1
      <4>2. Idle(d)' <=> Idle(d)
        BY <1>a DEF Idle
      <4> QED
        BY <4>1, <4>2, <1>0, <1>4, <1>a DEF FreedConns
    <3> QED
      BY <3>1, <3>2
  <2> QED
    BY <2>1 DEF FreedConns, Bound, Idle
<1>15. DroppedConns' /\ Somewhere'
  <2>1. ToRepair(c)'
    <3>1. q \notin iter
      BY <1>0 DEF Phases
    <3> QED
      BY <3>1, <1>1, Distinct DEF ToRepair, Unvisited, Keys
  <2>2. \A d \in created : d # c /\ ToRepair(d) => ToRepair(d)'
    BY <1>1, <1>c DEF ToRepair, Unvisited, Keys
  <2>3. \A d \in created : Idle(d)' <=> Idle(d)
    BY <1>a DEF Idle
  <2> QED
    BY <2>1, <2>2, <2>3, <1>0, <1>4, <1>a DEF DroppedConns, Somewhere, TypeOK
<1>16. DispatchedToOwner'
  <2>1. \A d \in Conns : d # c /\ Bound(d) => m_cltfd[d] \notin {p, q} /\ m_srvfd[d] \notin {p, q}
    BY <1>7 DEF Has
  <2>2. \A d \in Conns : Bound(d) => m_cltfd[d] \in Fd /\ m_srvfd[d] \in Fd
    BY <1>0 DEF Bound, BoundConns, TypeOK
  <2>3. \A d \in Conns : Bound(d)' => m_used'[m_cltfd'[d]] \in {d, NULL} /\ m_used'[m_srvfd'[d]] \in {d, NULL}
    BY <2>1, <2>2, <1>0, <1>2, <1>3, <1>4, <1>a DEF DispatchedToOwner
  <2>4. ASSUME NEW f \in Fd, NEW d \in Conns, m_used'[f] = d
        PROVE  Bound(d)' /\ f \in {m_cltfd'[d], m_srvfd'[d]}
    <3>1. f # p /\ f # q /\ m_used[f] = d
      BY <2>4, <1>2, Distinct
    <3>2. Bound(d) /\ f \in {m_cltfd[d], m_srvfd[d]} /\ d # c
      BY <3>1, <1>0, <1>p DEF DispatchedToOwner
    <3> QED
      BY <3>2, <1>3, <1>4, <1>a
  <2> QED
    BY <2>3, <2>4 DEF DispatchedToOwner, Bound
<1> QED
  BY <1>10, <1>11, <1>12, <1>13, <1>14, <1>15, <1>16 DEF MgrInv

(* The steps that move no connection: at most a null entry is added to      *)
(* m_used, and what a socket is watched for changes.                        *)
Stays ==
  /\ UNCHANGED <<m_conns, m_freed, m_cltfd, m_srvfd, created, open, iter, reported, dropped>>
  /\ m_srv_closed' \in [Conns -> BOOLEAN]
  /\ interest' \in [Fd -> {"IN", "OUT", "none"}]
  /\ \A fd \in Fd : interest'[fd] = "none" <=> interest[fd] = "none"
  /\ m_used' \in [Fd -> Conns \cup {NULL, Absent}]
  /\ \A fd \in Fd : m_used'[fd] = m_used[fd] \/ (m_used[fd] = Absent /\ m_used'[fd] = NULL)
  /\ phase' \in {"build", "wait", "handle", "recycle", "exit"}
  /\ phase' = "build" => phase = "build"
  /\ phase = "recycle" => phase' = "recycle"

(* Every action moves a connection in one of five ways, or none. *)
Moves ==
  \/ \E c \in Conns, fd \in Fd : BuildConn(c, fd)
  \/ \E connfd, srvfd \in Fd : PickConn(connfd, srvfd)
  \/ /\ phase = "handle" /\ phase' = phase /\ iter' = iter
     /\ \E c \in Conns : Bound(c) /\ FreeConn(c)
  \/ \E key, fd \in Fd : Repair(key, fd)
  \/ \E key \in Fd : RepairFails(key)
  \/ RecycleDone
  \/ Stays

(* Steps that move no connection between maps and close no socket keep the   *)
(* invariant.                                                                *)
LEMMA StaysInv == MgrInv /\ Stays => MgrInv'
<1> SUFFICES ASSUME MgrInv, Stays PROVE MgrInv'
  OBVIOUS
<1>0. TypeOK /\ Phases /\ IdleConns /\ BoundConns /\ FreedConns /\ DroppedConns
      /\ Somewhere /\ OneOwner /\ OpenOwned /\ DispatchedToOwner
  BY DEF MgrInv
<1>1. \A c \in Conns : /\ Bound(c)' <=> Bound(c)
                       /\ Idle(c)' <=> Idle(c)
                       /\ ToRepair(c)' <=> ToRepair(c)
  BY DEF Stays, Bound, Idle, ToRepair, Unvisited, Keys
<1>2. \A c \in Conns, fd \in Fd : Has(c, fd)' <=> Has(c, fd)
  BY <1>1 DEF Stays, Has
<1>3. TypeOK'
  BY <1>0 DEF TypeOK, Stays
<1>4. OneOwner' /\ OpenOwned'
  BY <1>0, <1>1, <1>2 DEF OneOwner, OpenOwned, Stays
<1>5. Phases' /\ IdleConns'
  BY <1>0, <1>1 DEF Phases, IdleConns, Stays
<1>6. BoundConns'
  BY <1>0, <1>1 DEF BoundConns, Stays
<1>7. FreedConns'
  BY <1>0, <1>1 DEF FreedConns, Stays
<1>8. DroppedConns' /\ Somewhere'
  BY <1>0, <1>1 DEF DroppedConns, Somewhere, Stays, TypeOK
<1>9. DispatchedToOwner'
  <2>1. \A c \in Conns : Bound(c) => m_cltfd[c] \in Fd /\ m_srvfd[c] \in Fd
    BY <1>0 DEF Bound, BoundConns, TypeOK
  <2>2. \A fd \in Fd : m_used'[fd] \in Conns => m_used'[fd] = m_used[fd]
    BY Distinct DEF Stays
  <2>3. \A c \in Conns : Bound(c)' => m_used'[m_cltfd'[c]] \in {c, NULL} /\ m_used'[m_srvfd'[c]] \in {c, NULL}
    BY <2>1, <1>0, <1>1, Distinct DEF Stays, DispatchedToOwner
  <2>4. ASSUME NEW f \in Fd, NEW d \in Conns, m_used'[f] = d
        PROVE  Bound(d)' /\ f \in {m_cltfd'[d], m_srvfd'[d]}
    BY <2>2, <2>4, <1>0, <1>1 DEF Stays, DispatchedToOwner
  <2> QED
    BY <2>3, <2>4 DEF DispatchedToOwner, Bound
<1> QED
  BY <1>3, <1>4, <1>5, <1>6, <1>7, <1>8, <1>9 DEF MgrInv

(* recycle_conns connects a freed connection anew. *)
LEMMA InvRepair ==
  ASSUME MgrInv, NEW key \in Fd, NEW fd \in Fd, Repair(key, fd)
  PROVE  MgrInv'
<1>0. TypeOK /\ Phases /\ IdleConns /\ BoundConns /\ FreedConns /\ DroppedConns
      /\ Somewhere /\ OneOwner /\ OpenOwned /\ DispatchedToOwner
  BY DEF MgrInv
<1>p. PICK c \in Conns : c = m_freed[key]
  BY <1>0 DEF Repair, NextKey, Unvisited, Keys, TypeOK
<1>a. /\ phase = "recycle" /\ phase' = phase /\ fd \notin open /\ key \notin iter
      /\ m_conns' = Insert(m_conns, fd, c) /\ m_srvfd' = [m_srvfd EXCEPT ![c] = fd]
      /\ open' = open \cup {fd} /\ iter' = iter \cup {key}
      /\ UNCHANGED <<m_used, m_freed, m_cltfd, m_srv_closed, created, interest, reported, dropped>>
  BY <1>p DEF Repair, NextKey, Unvisited
<1>1. m_conns[fd] = Absent /\ m_used[fd] \notin Conns /\ (\A d \in Conns : ~Has(d, fd))
  BY <1>a, FreeNumber
<1>2. /\ m_conns' \in [Fd -> Conns \cup {Absent}] /\ m_conns'[fd] = c
      /\ \A f \in Fd : f # fd => m_conns'[f] = m_conns[f]
  BY <1>0, <1>1, <1>a DEF TypeOK, Insert
<1>3. /\ m_srvfd' \in [Conns -> Fd \cup {NoFd}] /\ m_srvfd'[c] = fd
      /\ \A d \in Conns : d # c => m_srvfd'[d] = m_srvfd[d]
  BY <1>0, <1>a DEF TypeOK
<1>4. c \in created /\ ~Bound(c) /\ c \notin dropped /\ ~Idle(c) /\ m_srvfd[c] = key
  BY <1>0, <1>a, <1>p DEF FreedConns
<1>5. \A d \in Conns : Bound(d)' <=> Bound(d)
  BY <1>a DEF Bound
<1>6. \A d \in Conns, f \in Fd : Has(d, f)' <=> Has(d, f) \/ (d = c /\ f = fd)
  BY <1>1, <1>2, <1>3, <1>4, <1>5, <1>a, Distinct DEF Has
<1>7. TypeOK'
  BY <1>0, <1>2, <1>3, <1>a DEF TypeOK
<1>8. OneOwner' /\ OpenOwned'
  <2>1. OneOwner'
    BY <1>0, <1>1, <1>6 DEF OneOwner
  <2>2. \A f \in Fd : f \in open' <=> \E d \in Conns : Has(d, f)'
    BY <1>0, <1>6, <1>a DEF OpenOwned
  <2>3. \A f \in Fd : interest'[f] # "none" <=> \E d \in Conns : Bound(d)' /\ Has(d, f)'
    BY <1>0, <1>4, <1>5, <1>6, <1>a DEF OpenOwned
  <2> QED
    BY <2>1, <2>2, <2>3 DEF OpenOwned
<1>9. Phases' /\ IdleConns'
  <2>1. Phases'
    BY <1>a DEF Phases
  <2>2. \A f \in Fd : m_conns[f] # c
    BY <1>4 DEF Idle
  <2> QED
    BY <2>1, <2>2, <1>0, <1>2, <1>3, <1>4, <1>5, <1>a DEF IdleConns
<1>10. BoundConns'
  BY <1>0, <1>3, <1>4, <1>5, <1>a DEF BoundConns
<1>11. FreedConns'
  <2>1. ASSUME NEW f \in Fd, NEW d \in Conns, m_freed'[f] = d
        PROVE  /\ d \in created' /\ ~Bound(d)'
               /\ f \notin iter' => m_srvfd'[d] = f /\ d \notin dropped' /\ ~Idle(d)'
    <3>1. d \in created' /\ ~Bound(d)'
      BY <2>1, <1>0, <1>5, <1>a DEF FreedConns
    <3>2. ASSUME f \notin iter' PROVE m_srvfd'[d] = f /\ d \notin dropped' /\ ~Idle(d)'
      <4>1. f # key /\ f \notin iter /\ m_freed[f] = d
        BY <2>1, <3>2, <1>a
      <4>2. m_srvfd[d] = f /\ d \notin dropped /\ ~Idle(d)
        BY <4>1, <1>0 DEF FreedConns
      <4>3. d # c
        BY <4>1, <4>2, <1>4
      <4> QED
        BY <4>2, <4>3, <1>2, <1>3, <1>a DEF Idle
    <3> QED
      BY <3>1, <3>2
  <2> QED
    BY <2>1 DEF FreedConns, Bound, Idle
<1>12. DroppedConns' /\ Somewhere'
  <2>1. \A d \in created : Idle(d) => Idle(d)'
    BY <1>1, <1>2, <1>0, Distinct DEF Idle, TypeOK
  <2>2. Idle(c)'
    BY <1>2 DEF Idle
  <2>3. \A d \in created : d # c /\ ToRepair(d) => ToRepair(d)'
    BY <1>a, <1>p DEF ToRepair, Unvisited, Keys
  <2> QED
    BY <2>1, <2>2, <2>3, <1>0, <1>5, <1>a DEF DroppedConns, Somewhere, TypeOK
<1>13. DispatchedToOwner'
  <2>1. \A d \in Conns : Bound(d) => d # c
    BY <1>4
  <2> QED
    BY <2>1, <1>0, <1>3, <1>5, <1>a DEF DispatchedToOwner
<1> QED
  BY <1>7, <1>8, <1>9, <1>10, <1>11, <1>12, <1>13 DEF MgrInv

(* recycle_conns gives a connection up. *)
LEMMA InvRepairFails ==
  ASSUME MgrInv, NEW key \in Fd, RepairFails(key)
  PROVE  MgrInv'
<1>0. TypeOK /\ Phases /\ IdleConns /\ BoundConns /\ FreedConns /\ DroppedConns
      /\ Somewhere /\ OneOwner /\ OpenOwned /\ DispatchedToOwner
  BY DEF MgrInv
<1>p. PICK c \in Conns : c = m_freed[key]
  BY <1>0 DEF RepairFails, NextKey, Unvisited, Keys, TypeOK
<1>a. /\ phase = "recycle" /\ phase' = phase /\ key \notin iter
      /\ dropped' = dropped \cup {c} /\ iter' = iter \cup {key}
      /\ UNCHANGED <<m_conns, m_used, m_freed, m_cltfd, m_srvfd, m_srv_closed, created,
                     open, interest, reported>>
  BY <1>p DEF RepairFails, NextKey, Unvisited, mapVars, connVars, kernelVars
<1>1. c \in created /\ ~Bound(c) /\ c \notin dropped /\ ~Idle(c) /\ m_srvfd[c] = key
  BY <1>0, <1>a, <1>p DEF FreedConns
<1>2. \A d \in Conns : (Bound(d)' <=> Bound(d)) /\ (Idle(d)' <=> Idle(d))
  BY <1>a DEF Bound, Idle
<1>3. \A d \in Conns, f \in Fd : Has(d, f)' <=> Has(d, f)
  BY <1>a, <1>2 DEF Has
<1>4. TypeOK'
  BY <1>0, <1>a DEF TypeOK
<1>5. OneOwner' /\ OpenOwned' /\ Phases'
  BY <1>0, <1>2, <1>3, <1>a DEF OneOwner, OpenOwned, Phases
<1>6. IdleConns'
  <2>1. \A f \in Fd : m_conns[f] # c
    BY <1>1 DEF Idle
  <2> QED
    BY <2>1, <1>0, <1>2, <1>a DEF IdleConns
<1>7. BoundConns'
  BY <1>0, <1>1, <1>2, <1>a DEF BoundConns
<1>8. FreedConns'
  <2>1. ASSUME NEW f \in Fd, NEW d \in Conns, m_freed'[f] = d
        PROVE  /\ d \in created' /\ ~Bound(d)'
               /\ f \notin iter' => m_srvfd'[d] = f /\ d \notin dropped' /\ ~Idle(d)'
    <3>1. d \in created' /\ ~Bound(d)'
      BY <2>1, <1>0, <1>2, <1>a DEF FreedConns
    <3>2. ASSUME f \notin iter' PROVE m_srvfd'[d] = f /\ d \notin dropped' /\ ~Idle(d)'
      <4>1. f # key /\ f \notin iter /\ m_freed[f] = d
        BY <2>1, <3>2, <1>a
      <4>2. m_srvfd[d] = f /\ d \notin dropped /\ ~Idle(d)
        BY <4>1, <1>0 DEF FreedConns
      <4>3. d # c
        BY <4>1, <4>2, <1>1
      <4> QED
        BY <4>2, <4>3, <1>2, <1>a
    <3> QED
      BY <3>1, <3>2
  <2> QED
    BY <2>1 DEF FreedConns, Bound, Idle
<1>9. DroppedConns' /\ Somewhere'
  <2>1. \A d \in created : d # c /\ ToRepair(d) => ToRepair(d)'
    BY <1>a, <1>p DEF ToRepair, Unvisited, Keys
  <2> QED
    BY <2>1, <1>0, <1>1, <1>2, <1>a DEF DroppedConns, Somewhere, TypeOK
<1>10. DispatchedToOwner'
  BY <1>0, <1>2, <1>a DEF DispatchedToOwner
<1> QED
  BY <1>4, <1>5, <1>6, <1>7, <1>8, <1>9, <1>10 DEF MgrInv

(* recycle_conns has tried all and empties m_freed. *)
LEMMA InvRecycleDone == MgrInv /\ RecycleDone => MgrInv'
<1> SUFFICES ASSUME MgrInv, RecycleDone PROVE MgrInv'
  OBVIOUS
<1>0. TypeOK /\ Phases /\ IdleConns /\ BoundConns /\ FreedConns /\ DroppedConns
      /\ Somewhere /\ OneOwner /\ OpenOwned /\ DispatchedToOwner
  BY DEF MgrInv
<1>a. /\ phase = "recycle" /\ phase' = "wait" /\ Unvisited = {}
      /\ m_freed' = [fd \in Fd |-> Absent] /\ iter' = {}
      /\ UNCHANGED <<m_conns, m_used, m_cltfd, m_srvfd, m_srv_closed, created,
                     open, interest, reported, dropped>>
  BY DEF RecycleDone, EmptyMap, connVars, kernelVars
<1>1. \A d \in Conns : (Bound(d)' <=> Bound(d)) /\ (Idle(d)' <=> Idle(d)) /\ ~ToRepair(d)
  BY <1>a DEF Bound, Idle, ToRepair
<1>2. \A d \in Conns, f \in Fd : Has(d, f)' <=> Has(d, f)
  BY <1>a, <1>1 DEF Has
<1>3. TypeOK'
  BY <1>0, <1>a DEF TypeOK
<1>4. OneOwner' /\ OpenOwned' /\ Phases'
  BY <1>0, <1>1, <1>2, <1>a DEF OneOwner, OpenOwned, Phases
<1>5. IdleConns' /\ BoundConns'
  BY <1>0, <1>1, <1>a DEF IdleConns, BoundConns
<1>6. FreedConns'
  BY <1>a, Distinct DEF FreedConns
<1>7. DroppedConns' /\ Somewhere'
  BY <1>0, <1>1, <1>a DEF DroppedConns, Somewhere, TypeOK
<1>8. DispatchedToOwner'
  BY <1>0, <1>1, <1>a DEF DispatchedToOwner
<1> QED
  BY <1>3, <1>4, <1>5, <1>6, <1>7, <1>8 DEF MgrInv

(* epoll_ctl(EPOLL_CTL_MOD) changes what a registered socket is watched for *)
(* and registers none.                                                      *)
LEMMA ModfdKeeps ==
  ASSUME TypeOK, NEW fds, NEW ev \in {"IN", "OUT"}, Modfd(fds, ev)
  PROVE  /\ interest' \in [Fd -> {"IN", "OUT", "none"}]
         /\ \A fd \in Fd : interest'[fd] = "none" <=> interest[fd] = "none"
BY DEF TypeOK, Modfd

(* What an event on a socket does to the connections. *)
LEMMA ProcessMoves ==
  ASSUME MgrInv, NEW fd \in Fd, Process(fd)
  PROVE  Moves
<1>0. TypeOK /\ DispatchedToOwner
  BY DEF MgrInv
<1>1. phase = "handle" /\ phase' = phase /\ iter' = iter
  BY DEF Process, ProcessUnknown, ProcessReadClient, ProcessWriteClient,
         ProcessReadServer, ProcessWriteServer, Handling
<1>2. m_used[fd] \in Conns => Bound(m_used[fd])
  BY <1>0 DEF DispatchedToOwner
<1>3. ASSUME m_used[fd] \in Conns, FreeConn(m_used[fd]) PROVE Moves
  BY <1>1, <1>2, <1>3 DEF Moves
<1>4. ASSUME UNCHANGED <<mapVars, m_cltfd, m_srvfd, created, open, reported, dropped>>,
             m_srv_closed' \in [Conns -> BOOLEAN],
             interest' \in [Fd -> {"IN", "OUT", "none"}],
             \A f \in Fd : interest'[f] = "none" <=> interest[f] = "none"
      PROVE  Moves
  BY <1>0, <1>1, <1>4 DEF Moves, Stays, mapVars, TypeOK
<1>5. m_srv_closed \in [Conns -> BOOLEAN] /\ interest \in [Fd -> {"IN", "OUT", "none"}]
  BY <1>0 DEF TypeOK
<1>6. CASE \E type \in {"IN", "OUT"} : ProcessUnknown(fd, type)
  <2>1. /\ m_used[fd] \in {Absent, NULL} /\ m_used' = Insert(m_used, fd, NULL)
        /\ UNCHANGED <<m_conns, m_freed, connVars, kernelVars, m_stop, reported, dropped>>
    BY <1>6 DEF ProcessUnknown
  <2>2. /\ m_used' \in [Fd -> Conns \cup {NULL, Absent}]
        /\ \A f \in Fd : m_used'[f] = m_used[f] \/ (m_used[f] = Absent /\ m_used'[f] = NULL)
    BY <2>1, <1>0 DEF Insert, TypeOK
  <2> QED
    BY <2>1, <2>2, <1>1, <1>5 DEF Moves, Stays, connVars, kernelVars
<1>7. CASE ProcessReadClient(fd)
  <2>1. m_used[fd] \in Conns
    BY <1>7 DEF ProcessReadClient
  <2>2. CASE FreeConn(m_used[fd])
    BY <2>1, <2>2, <1>3
  <2>3. CASE /\ UNCHANGED <<mapVars, connVars, open, m_stop, reported, dropped>>
             /\ Modfd({m_srvfd[m_used[fd]]}, "OUT") \/ UNCHANGED interest
    <3>1. /\ interest' \in [Fd -> {"IN", "OUT", "none"}]
          /\ \A f \in Fd : interest'[f] = "none" <=> interest[f] = "none"
      BY <2>3, <1>0, <1>5, ModfdKeeps
    <3> QED
      BY <3>1, <2>3, <1>4, <1>5 DEF connVars
  <2> QED
    BY <1>7, <2>2, <2>3 DEF ProcessReadClient
<1>8. CASE ProcessWriteClient(fd)
  <2>1. m_used[fd] \in Conns
    BY <1>8 DEF ProcessWriteClient
  <2>2. CASE FreeConn(m_used[fd])
    BY <2>1, <2>2, <1>3
  <2>3. CASE /\ UNCHANGED <<mapVars, connVars, open, m_stop, reported, dropped>>
             /\ Modfd({fd}, "OUT") \/ Modfd({fd, m_srvfd[m_used[fd]]}, "IN")
    <3>1. /\ interest' \in [Fd -> {"IN", "OUT", "none"}]
          /\ \A f \in Fd : interest'[f] = "none" <=> interest[f] = "none"
      BY <2>3, <1>0, ModfdKeeps
    <3> QED
      BY <3>1, <2>3, <1>4, <1>5 DEF connVars
  <2> QED
    BY <1>8, <2>2, <2>3 DEF ProcessWriteClient
<1>9. CASE ProcessReadServer(fd)
  <2>1. /\ UNCHANGED <<mapVars, m_cltfd, m_srvfd, created, open, m_stop, reported, dropped>>
        /\ \/ /\ Modfd({m_cltfd[m_used[fd]]}, "OUT")
              /\ \E closed \in {m_srv_closed[m_used[fd]], TRUE} :
                   m_srv_closed' = [m_srv_closed EXCEPT ![m_used[fd]] = closed]
           \/ UNCHANGED <<interest, m_srv_closed>>
        /\ m_used[fd] \in Conns
    BY <1>9 DEF ProcessReadServer
  <2>2. m_srv_closed' \in [Conns -> BOOLEAN]
    BY <2>1, <1>5
  <2>3. /\ interest' \in [Fd -> {"IN", "OUT", "none"}]
        /\ \A f \in Fd : interest'[f] = "none" <=> interest[f] = "none"
    BY <2>1, <1>0, <1>5, ModfdKeeps
  <2> QED
    BY <2>1, <2>2, <2>3, <1>4
<1>10. CASE ProcessWriteServer(fd)
  <2>1. /\ UNCHANGED <<mapVars, m_cltfd, m_srvfd, created, open, m_stop, reported, dropped>>
        /\ \/ Modfd({fd}, "OUT") /\ UNCHANGED m_srv_closed
           \/ Modfd({fd, m_cltfd[m_used[fd]]}, "IN") /\ UNCHANGED m_srv_closed
           \/ /\ Modfd({m_cltfd[m_used[fd]]}, "OUT")
              /\ m_srv_closed' = [m_srv_closed EXCEPT ![m_used[fd]] = TRUE]
    BY <1>10 DEF ProcessWriteServer
  <2>2. m_srv_closed' \in [Conns -> BOOLEAN]
    BY <2>1, <1>5
  <2>3. /\ interest' \in [Fd -> {"IN", "OUT", "none"}]
        /\ \A f \in Fd : interest'[f] = "none" <=> interest[f] = "none"
    BY <2>1, <1>0, <1>5, ModfdKeeps
  <2> QED
    BY <2>1, <2>2, <2>3, <1>4
<1> QED
  BY <1>6, <1>7, <1>8, <1>9, <1>10 DEF Process

(* Every step is one of Moves. *)
LEMMA NextMoves == MgrInv /\ [Next]_vars => Moves
<1> SUFFICES ASSUME MgrInv, [Next]_vars PROVE Moves
  OBVIOUS
<1>0. TypeOK
  BY DEF MgrInv
<1>1. ASSUME UNCHANGED <<mapVars, connVars, kernelVars, iter, reported, dropped>>,
             phase' \in {"build", "wait", "handle", "recycle", "exit"},
             phase' = "build" => phase = "build",
             phase = "recycle" => phase' = "recycle"
      PROVE  Moves
  BY <1>0, <1>1 DEF Moves, Stays, TypeOK, mapVars, connVars, kernelVars
<1>2. CASE Build
  <2>1. CASE BuildFails
    BY <2>1, <1>1 DEF BuildFails
  <2>2. CASE EnterLoop
    BY <2>2, <1>1 DEF EnterLoop
  <2> QED
    BY <1>2, <2>1, <2>2 DEF Build, Moves
<1>3. CASE EpollWait
  BY <1>3, <1>1 DEF EpollWait
<1>4. CASE BatchDone
  BY <1>4, <1>1 DEF BatchDone
<1>5. CASE LeaveLoop
  BY <1>5, <1>1 DEF LeaveLoop
<1>6. CASE Handle
  <2>1. CASE Signal
    BY <2>1, <1>1 DEF Signal, Handling
  <2>2. CASE TurnAway
    BY <2>2, <1>1 DEF TurnAway, Handling
  <2>3. CASE \E fd \in Fd : Process(fd)
    BY <2>3, ProcessMoves
  <2> QED
    BY <1>6, <2>1, <2>2, <2>3 DEF Handle, Moves
<1>7. CASE Recycle
  <2>1. CASE EpollTimeout
    BY <2>1, <1>1 DEF EpollTimeout
  <2> QED
    BY <1>7, <2>1 DEF Recycle, Moves
<1>8. CASE UNCHANGED vars
  BY <1>8, <1>0, <1>1 DEF vars, loopVars, TypeOK
<1> QED
  BY <1>2, <1>3, <1>4, <1>5, <1>6, <1>7, <1>8 DEF Next

(* The maps, the objects and the kernel always agree: each connection is    *)
(* where its object says, each open socket has one owner, and m_used leads  *)
(* an event to it (mgr.cpp).                                                *)
THEOREM MgrInvariant == Spec => []MgrInv
<1>1. MgrInv /\ [Next]_vars => MgrInv'
  <2> SUFFICES ASSUME MgrInv, [Next]_vars PROVE MgrInv'
    OBVIOUS
  <2>1. Moves
    BY NextMoves
  <2>2. CASE \E c \in Conns, fd \in Fd : BuildConn(c, fd)
    BY <2>2, InvBuild
  <2>3. CASE \E connfd, srvfd \in Fd : PickConn(connfd, srvfd)
    BY <2>3, InvPick
  <2>4. CASE /\ phase = "handle" /\ phase' = phase /\ iter' = iter
             /\ \E c \in Conns : Bound(c) /\ FreeConn(c)
    BY <2>4, InvFree
  <2>5. CASE \E key, fd \in Fd : Repair(key, fd)
    BY <2>5, InvRepair
  <2>6. CASE \E key \in Fd : RepairFails(key)
    BY <2>6, InvRepairFails
  <2>7. CASE RecycleDone
    BY <2>7, InvRecycleDone
  <2>8. CASE Stays
    BY <2>8, StaysInv
  <2> QED
    BY <2>1, <2>2, <2>3, <2>4, <2>5, <2>6, <2>7, <2>8 DEF Moves
<1> QED
  BY <1>1, MgrInit, PTL DEF Spec

(* An event never reaches a connection its descriptor does not belong to,   *)
(* however stale it is and whoever got the number since (mgr::process).     *)
THEOREM DispatchedToOwnerTheorem == Spec => []DispatchedToOwner
<1>1. MgrInv => DispatchedToOwner
  BY DEF MgrInv
<1> QED
  BY <1>1, MgrInvariant, PTL

(* No connection object is lost or in two places, and every open socket     *)
(* belongs to one of them (pick_conn, free_conn, recycle_conns).            *)
THEOREM ConnectionsAccountedTheorem == Spec => []ConnectionsAccounted
<1>1. MgrInv => ConnInOnePlace
  <2> SUFFICES ASSUME MgrInv, NEW c \in created
               PROVE  Cardinality({p \in {"idle", "bound", "freed", "dropped"} :
                                     CASE p = "idle"    -> Idle(c)
                                       [] p = "bound"   -> Bound(c)
                                       [] p = "freed"   -> ToRepair(c)
                                       [] p = "dropped" -> c \in dropped}) = 1
    BY DEF ConnInOnePlace
  <2> DEFINE Places == {p \in {"idle", "bound", "freed", "dropped"} :
                          CASE p = "idle"    -> Idle(c)
                            [] p = "bound"   -> Bound(c)
                            [] p = "freed"   -> ToRepair(c)
                            [] p = "dropped" -> c \in dropped}
  <2>0. /\ TypeOK /\ IdleConns /\ BoundConns /\ FreedConns /\ DroppedConns /\ Somewhere
        /\ c \in Conns
    BY DEF MgrInv, TypeOK
  <2>1. Idle(c) => ~Bound(c) /\ c \notin dropped
    BY <2>0 DEF Idle, IdleConns
  <2>2. ToRepair(c) => ~Bound(c) /\ c \notin dropped /\ ~Idle(c)
    <3>1. ASSUME NEW fd \in Fd, fd \notin iter, m_freed[fd] = c
          PROVE  ~Bound(c) /\ c \notin dropped /\ ~Idle(c)
      BY <2>0, <3>1 DEF FreedConns
    <3> QED
      BY <3>1 DEF ToRepair, Unvisited, Keys
  <2>3. c \in dropped => ~Bound(c)
    BY <2>0 DEF DroppedConns
  <2>4. Idle(c) \/ Bound(c) \/ ToRepair(c) \/ c \in dropped
    BY <2>0 DEF Somewhere
  <2>5. \E p : Places = {p}
    <3>1. CASE Idle(c)
      <4>1. Places = {"idle"}
        BY <2>1, <2>2, <3>1
      <4> QED
        BY <4>1
    <3>2. CASE Bound(c)
      <4>1. Places = {"bound"}
        BY <2>1, <2>2, <2>3, <3>2
      <4> QED
        BY <4>1
    <3>3. CASE ToRepair(c)
      <4>1. Places = {"freed"}
        BY <2>2, <3>3
      <4> QED
        BY <4>1
    <3>4. CASE c \in dropped
      <4>1. Places = {"dropped"}
        BY <2>1, <2>2, <2>3, <3>4
      <4> QED
        BY <4>1
    <3> QED
      BY <2>4, <3>1, <3>2, <3>3, <3>4
  <2> HIDE DEF Places
  <2>6. Cardinality(Places) = 1
    BY <2>5, FS_Singleton
  <2> QED
    BY <2>6 DEF Places
<1>2. MgrInv => SocketsOwned
  <2> SUFFICES ASSUME MgrInv PROVE SocketsOwned
    OBVIOUS
  <2>0. TypeOK /\ IdleConns /\ BoundConns /\ OneOwner /\ OpenOwned
    BY DEF MgrInv
  <2>1. ASSUME NEW c \in Conns, NEW fd \in Fd PROVE fd \in SocketsOf(c) <=> Has(c, fd)
    <3>1. CASE Bound(c)
      <4>1. m_conns[fd] # c
        BY <3>1, <2>0 DEF IdleConns
      <4>2. SocketsOf(c) = {m_cltfd[c], m_srvfd[c]}
        BY <3>1 DEF SocketsOf
      <4> QED
        BY <3>1, <4>1, <4>2 DEF Has
    <3>2. CASE ~Bound(c)
      <4>1. m_cltfd[c] # fd
        BY <3>2, Distinct DEF Bound
      <4>2. SocketsOf(c) = IF Idle(c) THEN {m_srvfd[c]} ELSE {}
        BY <3>2 DEF SocketsOf
      <4>3. m_conns[fd] = c <=> Idle(c) /\ m_srvfd[c] = fd
        BY <2>0 DEF Idle, IdleConns
      <4> QED
        BY <3>2, <4>1, <4>2, <4>3 DEF Has
    <3> QED
      BY <3>1, <3>2
  <2>2. ASSUME NEW c \in Conns PROVE SocketsOf(c) \subseteq Fd
    BY <2>0 DEF SocketsOf, Idle, Bound, IdleConns, BoundConns, TypeOK
  <2>3. open = UNION {SocketsOf(c) : c \in Conns}
    <3>1. ASSUME NEW fd \in open PROVE \E c \in Conns : fd \in SocketsOf(c)
      BY <2>0, <2>1 DEF OpenOwned, TypeOK
    <3>2. ASSUME NEW c \in Conns, NEW fd \in SocketsOf(c) PROVE fd \in open
      BY <2>0, <2>1, <2>2 DEF OpenOwned
    <3> QED
      BY <3>1, <3>2
  <2>4. \A c, d \in Conns : c # d => SocketsOf(c) \cap SocketsOf(d) = {}
    BY <2>0, <2>1, <2>2 DEF OneOwner
  <2>5. \A c \in Conns : Bound(c) => m_cltfd[c] # m_srvfd[c]
    BY <2>0 DEF BoundConns
  <2>6. Watched = UNION {SocketsOf(c) : c \in {x \in Conns : Bound(x)}}
    <3>1. ASSUME NEW fd \in Watched PROVE \E c \in {x \in Conns : Bound(x)} : fd \in SocketsOf(c)
      BY <2>0, <2>1 DEF OpenOwned, Watched
    <3>2. ASSUME NEW c \in {x \in Conns : Bound(x)}, NEW fd \in SocketsOf(c) PROVE fd \in Watched
      BY <2>0, <2>1, <2>2 DEF OpenOwned, Watched
    <3> QED
      BY <3>1, <3>2
  <2> QED
    BY <2>3, <2>4, <2>5, <2>6 DEF SocketsOwned
<1> QED
  BY <1>1, <1>2, MgrInvariant, PTL DEF ConnectionsAccounted

(* A function that tells the members of S apart has as many values. *)
LEMMA AsMany ==
  ASSUME NEW S, NEW T, IsFiniteSet(T), NEW f \in [S -> T],
         \A x, y \in S : f[x] = f[y] => x = y,
         \A t \in T : \E x \in S : f[x] = t
  PROVE  IsFiniteSet(S) /\ Cardinality(S) = Cardinality(T)
<1>1. f \in Injection(S, T)
  BY Fun_IsInj
<1>2. f \in Surjection(S, T)
  BY DEF Surjection
<1> QED
  BY <1>1, <1>2, FS_Injection

Sessions == {c \in Conns : Bound(c)}

(* Each session has two entries of its own in m_used. *)
TwoEntriesEach == 2 * Cardinality(Sessions) <= Cardinality(Keys(m_used))

(* The two descriptors of a session are keys of m_used that no other         *)
(* session has.                                                              *)
LEMMA TwoEach == MgrInv => TwoEntriesEach
<1> SUFFICES ASSUME MgrInv PROVE 2 * Cardinality(Sessions) <= Cardinality(Keys(m_used))
  BY DEF TwoEntriesEach
<1> DEFINE A == {m_cltfd[c] : c \in Sessions}
           B == {m_srvfd[c] : c \in Sessions}
           f == [c \in Sessions |-> m_cltfd[c]]
           g == [c \in Sessions |-> m_srvfd[c]]
<1>0. TypeOK /\ BoundConns /\ OneOwner /\ DispatchedToOwner
  BY DEF MgrInv
<1>1. \A c \in Sessions : c \in Conns /\ Bound(c) /\ m_cltfd[c] \in Fd /\ m_srvfd[c] \in Fd
  BY <1>0 DEF Sessions, TypeOK, Bound, BoundConns
<1>2. \A c \in Sessions : Has(c, m_cltfd[c]) /\ Has(c, m_srvfd[c])
  BY <1>1 DEF Has
<1>3. A \subseteq Fd /\ B \subseteq Fd
  BY <1>1
<1>4. A \cap B = {}
  BY <1>0, <1>1, <1>2 DEF OneOwner, BoundConns
<1>5. A \subseteq Keys(m_used) /\ B \subseteq Keys(m_used)
  BY <1>0, <1>1, Distinct DEF Keys, DispatchedToOwner
<1>6. IsFiniteSet(A) /\ IsFiniteSet(B) /\ IsFiniteSet(Keys(m_used))
  BY <1>3, FitsByte DEF Keys
<1>7. Cardinality(Sessions) = Cardinality(A)
  <2>1. f \in [Sessions -> A] /\ (\A x, y \in Sessions : f[x] = f[y] => x = y)
    BY <1>0, <1>1, <1>2 DEF OneOwner
  <2>2. \A t \in A : \E x \in Sessions : f[x] = t
    OBVIOUS
  <2> HIDE DEF A, f
  <2> QED
    BY <2>1, <2>2, <1>6, AsMany
<1>8. Cardinality(Sessions) = Cardinality(B)
  <2>1. g \in [Sessions -> B] /\ (\A x, y \in Sessions : g[x] = g[y] => x = y)
    BY <1>0, <1>1, <1>2 DEF OneOwner
  <2>2. \A t \in B : \E x \in Sessions : g[x] = t
    OBVIOUS
  <2> HIDE DEF B, g
  <2> QED
    BY <2>1, <2>2, <1>6, AsMany
<1> HIDE DEF A, B
<1>9. Cardinality(A \cup B) = Cardinality(A) + Cardinality(B)
  <2>1. Cardinality(A \cap B) = 0
    BY <1>4, FS_EmptySet
  <2>2. Cardinality(A \cup B) = Cardinality(A) + Cardinality(B) - Cardinality(A \cap B)
    BY <1>6, FS_Union
  <2>3. Cardinality(A) \in Nat /\ Cardinality(B) \in Nat
    BY <1>6, FS_CardinalityType
  <2> QED
    BY <2>1, <2>2, <2>3
<1>10. Cardinality(A \cup B) <= Cardinality(Keys(m_used))
  BY <1>5, <1>6, FS_Subset
<1>11. Cardinality(A) \in Nat
  BY <1>6, FS_CardinalityType
<1> QED
  BY <1>7, <1>8, <1>9, <1>10, <1>11

(* What a step does to what the parent was told. *)
LEMMA ReportNext ==
  ASSUME MgrInv, LoadReported, Moves, TwoEntriesEach'
  PROVE  LoadReported'
<1>0. TypeOK /\ Sessions = {c \in Conns : Bound(c)} /\ reported \in Nat
  BY DEF MgrInv, TypeOK, Sessions
<1>1. Keys(m_used) \in SUBSET Fd /\ Keys(m_used') \in SUBSET Fd
  BY DEF Keys
<1>2. ASSUME reported' = Cardinality(Keys(m_used')) % 256
      PROVE  LoadReported'
  <2>1. reported' = Cardinality(Keys(m_used'))
    BY <1>1, <1>2, FitsByte
  <2>2. Cardinality(Keys(m_used')) \in Nat
    BY <1>1, FitsByte
  <2> QED
    BY <2>1, <2>2 DEF LoadReported, TwoEntriesEach, Sessions, Keys
<1>3. ASSUME reported' = reported, m_cltfd' = m_cltfd,
             \A fd \in Fd : m_used[fd] # Absent => m_used'[fd] # Absent
      PROVE  LoadReported'
  <2>1. Sessions' = Sessions
    BY <1>3 DEF Sessions, Bound
  <2>2. Keys(m_used) \subseteq Keys(m_used')
    BY <1>3 DEF Keys
  <2>3. Cardinality(Keys(m_used)) <= Cardinality(Keys(m_used'))
    BY <1>1, <2>2, FitsByte, FS_Subset
  <2>4. 2 * Cardinality(Sessions) <= reported /\ reported <= Cardinality(Keys(m_used))
    BY DEF LoadReported, Sessions
  <2>5. Cardinality(Keys(m_used)) \in Nat /\ Cardinality(Keys(m_used')) \in Nat
    BY <1>1, FitsByte
  <2>6. 2 * Cardinality(Sessions') <= reported' /\ reported' <= Cardinality(Keys(m_used'))
    BY <2>1, <2>3, <2>4, <2>5, <1>0, <1>3
  <2> QED
    BY <2>6 DEF LoadReported, Sessions, Keys
<1>4. CASE \E c \in Conns, fd \in Fd : BuildConn(c, fd)
  BY <1>3, <1>4 DEF BuildConn
<1>5. CASE \E connfd, srvfd \in Fd : PickConn(connfd, srvfd)
  BY <1>2, <1>5 DEF PickConn, Notify
<1>6. CASE \E c \in Conns : Bound(c) /\ FreeConn(c)
  BY <1>2, <1>6 DEF FreeConn, Notify
<1>7. CASE \E key, fd \in Fd : Repair(key, fd)
  BY <1>3, <1>7 DEF Repair
<1>8. CASE \E key \in Fd : RepairFails(key)
  BY <1>3, <1>8 DEF RepairFails, mapVars, connVars
<1>9. CASE RecycleDone
  BY <1>3, <1>9 DEF RecycleDone, connVars
<1>10. CASE Stays
  <2>1. \A fd \in Fd : m_used[fd] # Absent => m_used'[fd] # Absent
    BY <1>10 DEF Stays
  <2> QED
    BY <2>1, <1>3, <1>10 DEF Stays
<1> QED
  BY <1>4, <1>5, <1>6, <1>7, <1>8, <1>9, <1>10 DEF Moves

(* What the parent balances by is never less than two descriptors for each  *)
(* session nor more than m_used holds (notify_parent_busy_ratio).           *)
THEOREM LoadReportedTheorem == Spec => []LoadReported
<1>1. Init => LoadReported
  <2> SUFFICES ASSUME Init PROVE LoadReported
    OBVIOUS
  <2>1. {c \in Conns : Bound(c)} = {} /\ Keys(m_used) = {} /\ reported = 0
    BY DEF Init, Bound, Keys, EmptyMap
  <2>2. Cardinality({}) = 0
    BY FS_EmptySet
  <2> QED
    BY <2>1, <2>2 DEF LoadReported
<1>2. MgrInv /\ TwoEntriesEach' /\ [Next]_vars /\ LoadReported => LoadReported'
  BY NextMoves, ReportNext
<1> QED
  BY <1>1, <1>2, TwoEach, MgrInvariant, PTL DEF Spec
=============================================================================
