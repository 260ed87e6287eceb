--------------------------------- MODULE Mgr ---------------------------------
(***************************************************************************)
(* The connection manager of one springsnail child process, with the event *)
(* loop that drives it (mgr.cpp, processpool.h run_child): the persistent  *)
(* connections to the logical server, the sessions that borrow them, and   *)
(* their repair.  Three maps keyed by file descriptors hold the conn       *)
(* objects; descriptors are closed and their numbers used again while      *)
(* events that name them are still in the batch of the last epoll_wait.    *)
(*                                                                         *)
(* The bytes are Relay.tla's subject: here recv and send return what they  *)
(* like.                                                                   *)
(*                                                                         *)
(* A definition marked Variant is no part of the specification: it is what *)
(* the definition after it would be with a defect, kept to see the         *)
(* properties fail.                                                        *)
(***************************************************************************)
EXTENDS Integers, Sequences, FiniteSets

CONSTANTS
  Conns,     \* the conn objects that can be allocated: m_conncnt of them
  Fd,        \* the descriptor numbers the process may have open for sockets
  NULL,      \* the null conn*
  Absent,    \* no entry in a map
  NoFd,      \* the descriptor -1
  MaxBatch   \* bound: the most events one epoll_wait reports

ASSUME MgrAssumption ==
  /\ IsFiniteSet(Conns)
  /\ IsFiniteSet(Fd) /\ Fd \subseteq Nat /\ Cardinality(Fd) < 256
  /\ NULL \notin Conns /\ Absent \notin Conns \cup {NULL}
  /\ NoFd \notin Fd
  /\ MaxBatch \in Nat \ {0}

VARIABLES
  m_conns,       \* server socket -> idle connection
  m_used,        \* client or server socket -> connection of a session
  m_freed,       \* closed server socket -> connection to be repaired
  m_cltfd, m_srvfd, m_srv_closed,    \* fields of each conn
  created,       \* the conn objects allocated so far
  tries,         \* how many connections the constructor still has to try
  open,          \* the open sockets
  interest,      \* what epoll watches a socket for: "IN", "OUT" or "none"
  phase,         \* "build", "wait", "handle", "recycle" or "exit"
  batch,         \* the events of this epoll_wait still to be handled
  iter,          \* recycle_conns: the keys of m_freed already visited
  m_stop,
  reported,      \* the busy ratio last sent to the parent
  dropped        \* conns whose repair failed and that no map holds any more

mapVars == <<m_conns, m_used, m_freed>>
connVars == <<m_cltfd, m_srvfd, m_srv_closed, created>>
kernelVars == <<open, interest>>
loopVars == <<tries, phase, batch, iter, m_stop>>
vars == <<mapVars, connVars, kernelVars, loopVars, reported, dropped>>

EmptyMap == [fd \in Fd |-> Absent]

Keys(m) == {fd \in Fd : m[fd] # Absent}

(* std::map::insert does nothing when the key is there. *)
Insert(m, fd, c) == IF m[fd] = Absent THEN [m EXCEPT ![fd] = c] ELSE m

Erase(m, fds) == [fd \in Fd |-> IF fd \in fds THEN Absent ELSE m[fd]]

Init ==
  /\ m_conns = EmptyMap
  /\ m_used = EmptyMap
  /\ m_freed = EmptyMap
  /\ m_cltfd = [c \in Conns |-> NoFd]
  /\ m_srvfd = [c \in Conns |-> NoFd]
  /\ m_srv_closed = [c \in Conns |-> FALSE]
  /\ created = {}
  /\ tries = Cardinality(Conns)
  /\ open = {}
  /\ interest = [fd \in Fd |-> "none"]
  /\ phase = "build"
  /\ batch = <<>>
  /\ iter = {}
  /\ m_stop = FALSE
  /\ reported = 0
  /\ dropped = {}
-----------------------------------------------------------------------------
(* The constructor: m_conncnt attempts to connect, each may fail.  The      *)
(* kernel gives any number that is not in use.                              *)
BuildConn(c, fd) ==
  /\ phase = "build" /\ tries > 0
  /\ c \notin created
  /\ fd \notin open
  /\ tries' = tries - 1
  /\ created' = created \cup {c}
  /\ open' = open \cup {fd}
  /\ m_srvfd' = [m_srvfd EXCEPT ![c] = fd]
  /\ m_conns' = Insert(m_conns, fd, c)
  /\ UNCHANGED <<m_used, m_freed, m_cltfd, m_srv_closed, interest, phase, batch,
                 iter, m_stop, reported, dropped>>

BuildFails ==
  /\ phase = "build" /\ tries > 0
  /\ tries' = tries - 1
  /\ UNCHANGED <<mapVars, connVars, kernelVars, phase, batch, iter, m_stop,
                 reported, dropped>>

EnterLoop ==
  /\ phase = "build" /\ tries = 0
  /\ phase' = "wait"
  /\ UNCHANGED <<mapVars, connVars, kernelVars, tries, batch, iter, m_stop,
                 reported, dropped>>
-----------------------------------------------------------------------------
(* The event loop.  "pipe" is a message of the parent: a connection to      *)
(* accept; "signal" is SIGTERM or SIGINT.                                   *)

Watched == {fd \in Fd : interest[fd] # "none"}

Events == [fd : Fd \cup {NoFd}, type : {"IN", "OUT", "pipe", "signal"}]

Reportable ==
  {[fd |-> fd, type |-> interest[fd]] : fd \in Watched}
    \cup {[fd |-> NoFd, type |-> t] : t \in {"pipe", "signal"}}

EpollWait ==
  /\ phase = "wait" /\ ~m_stop
  /\ \E n \in 1..MaxBatch :
       \E events \in [1..n -> Reportable] :
         /\ \A i, j \in 1..n : events[i] = events[j] => i = j
         /\ batch' = events
  /\ phase' = "handle"
  /\ UNCHANGED <<mapVars, connVars, kernelVars, tries, iter, m_stop, reported, dropped>>

(* epoll_wait times out: the only place where freed connections are repaired. *)
EpollTimeout ==
  /\ phase = "wait" /\ ~m_stop
  /\ Keys(m_freed) # {}
  /\ phase' = "recycle"
  /\ UNCHANGED <<mapVars, connVars, kernelVars, tries, batch, iter, m_stop,
                 reported, dropped>>

BatchDone ==
  /\ phase = "handle" /\ batch = <<>>
  /\ phase' = "wait"
  /\ UNCHANGED <<mapVars, connVars, kernelVars, tries, batch, iter, m_stop,
                 reported, dropped>>

LeaveLoop ==
  /\ phase = "wait" /\ m_stop
  /\ phase' = "exit"
  /\ UNCHANGED <<mapVars, connVars, kernelVars, tries, batch, iter, m_stop,
                 reported, dropped>>

Handling(fd, type) ==
  /\ phase = "handle" /\ batch # <<>>
  /\ Head(batch) = [fd |-> fd, type |-> type]
  /\ batch' = Tail(batch)
  /\ UNCHANGED <<tries, phase, iter>>

Signal ==
  /\ Handling(NoFd, "signal")
  /\ m_stop' = TRUE
  /\ UNCHANGED <<mapVars, connVars, kernelVars, reported, dropped>>

(* Variant: the size before the change. *)
NotifyEarly(used) == reported' = Cardinality(Keys(m_used)) % 256

(* notify_parent_busy_ratio sends one byte of m_used.size(). *)
Notify(used) == reported' = Cardinality(Keys(used)) % 256
-----------------------------------------------------------------------------
(* A message of the parent: accept, then pick_conn and init_clt. *)

(* Variant: the accepted socket is left open. *)
TurnAwayLeaks ==
  /\ Handling(NoFd, "pipe")
  /\ \E connfd \in Fd \ open : open' = open \cup {connfd}
  /\ UNCHANGED <<mapVars, connVars, interest, m_stop, reported, dropped>>

(* The recv or the accept fails, or there is no idle connection: then the   *)
(* accepted socket is closed again.                                         *)
TurnAway ==
  /\ Handling(NoFd, "pipe")
  /\ UNCHANGED <<mapVars, connVars, kernelVars, m_stop, reported, dropped>>

(* pick_conn takes m_conns.begin(): the lowest server socket. *)
PickConn(connfd, srvfd) ==
  /\ Handling(NoFd, "pipe")
  /\ connfd \notin open
  /\ srvfd \in Keys(m_conns)
  /\ \A fd \in Keys(m_conns) : srvfd <= fd
  /\ LET c == m_conns[srvfd]
     IN  /\ m_used' = Insert(Insert(m_used, connfd, c), srvfd, c)
         /\ m_cltfd' = [m_cltfd EXCEPT ![c] = connfd]
  /\ m_conns' = Erase(m_conns, {srvfd})
  /\ open' = open \cup {connfd}
  /\ interest' = [interest EXCEPT ![connfd] = "IN", ![srvfd] = "IN"]
  /\ Notify(m_used')
  /\ UNCHANGED <<m_freed, m_srvfd, m_srv_closed, created, m_stop, dropped>>
-----------------------------------------------------------------------------
(* mgr::process(fd, type) on a socket event. *)

(* Variant: the entry of the server socket is forgotten. *)
FreeConnHalf(c) ==
  LET fds == {m_cltfd[c], m_srvfd[c]}
  IN  /\ open' = open \ fds
      /\ interest' = [fd \in Fd |-> IF fd \in fds THEN "none" ELSE interest[fd]]
      /\ m_used' = Erase(m_used, {m_cltfd[c]})
      /\ m_freed' = Insert(m_freed, m_srvfd[c], c)
      /\ m_cltfd' = [m_cltfd EXCEPT ![c] = NoFd]
      /\ m_srv_closed' = [m_srv_closed EXCEPT ![c] = FALSE]
      /\ Notify(m_used')
      /\ UNCHANGED <<m_conns, m_srvfd, created, m_stop, dropped>>

(* free_conn: both sockets are closed, the entries erased, the object reset *)
(* and put aside for repair; the loop then tells the parent.                *)
FreeConn(c) ==
  LET fds == {m_cltfd[c], m_srvfd[c]}
  IN  /\ open' = open \ fds
      /\ interest' = [fd \in Fd |-> IF fd \in fds THEN "none" ELSE interest[fd]]
      /\ m_used' = Erase(m_used, fds)
      /\ m_freed' = Insert(m_freed, m_srvfd[c], c)
      /\ m_cltfd' = [m_cltfd EXCEPT ![c] = NoFd]
      /\ m_srv_closed' = [m_srv_closed EXCEPT ![c] = FALSE]
      /\ Notify(m_used')
      /\ UNCHANGED <<m_conns, m_srvfd, created, m_stop, dropped>>

(* epoll_ctl(EPOLL_CTL_MOD) on the given sockets; it fails on others than   *)
(* those that are registered.                                               *)
Modfd(fds, ev) ==
  interest' = [fd \in Fd |-> IF fd \in fds /\ interest[fd] # "none" THEN ev
                             ELSE interest[fd]]

(* m_used[fd] makes a null entry for a socket that has none: the event is   *)
(* ignored, the entry stays.                                                *)
ProcessUnknown(fd, type) ==
  /\ Handling(fd, type)
  /\ m_used[fd] \in {Absent, NULL}
  /\ m_used' = Insert(m_used, fd, NULL)
  /\ UNCHANGED <<m_conns, m_freed, connVars, kernelVars, m_stop, reported, dropped>>

(* read_clt: OK or BUFFER_FULL, NOTHING, or IOERR or CLOSED. *)
ProcessReadClient(fd) ==
  LET c == m_used[fd]
  IN  /\ Handling(fd, "IN")
      /\ c \in Conns /\ m_cltfd[c] = fd
      /\ \/ FreeConn(c)                                  \* IOERR, CLOSED
         \/ /\ m_srv_closed[c]                           \* any other result
            /\ FreeConn(c)
         \/ /\ ~m_srv_closed[c]
            /\ \/ Modfd({m_srvfd[c]}, "OUT")             \* OK, BUFFER_FULL
               \/ UNCHANGED interest                     \* NOTHING
            /\ UNCHANGED <<mapVars, connVars, open, m_stop, reported, dropped>>

(* write_clt: TRY_AGAIN, BUFFER_EMPTY, or IOERR. *)
ProcessWriteClient(fd) ==
  LET c == m_used[fd]
  IN  /\ Handling(fd, "OUT")
      /\ c \in Conns /\ m_cltfd[c] = fd
      /\ \/ FreeConn(c)                                  \* IOERR, CLOSED
         \/ /\ m_srv_closed[c]
            /\ FreeConn(c)
         \/ /\ ~m_srv_closed[c]
            /\ \/ Modfd({fd}, "OUT")                     \* TRY_AGAIN
               \/ Modfd({fd, m_srvfd[c]}, "IN")          \* BUFFER_EMPTY
            /\ UNCHANGED <<mapVars, connVars, open, m_stop, reported, dropped>>

(* read_srv: OK or BUFFER_FULL, IOERR or CLOSED, or NOTHING. *)
ProcessReadServer(fd) ==
  LET c == m_used[fd]
  IN  /\ Handling(fd, "IN")
      /\ c \in Conns /\ m_cltfd[c] # fd /\ m_srvfd[c] = fd
      /\ \/ /\ Modfd({m_cltfd[c]}, "OUT")
            /\ \E closed \in {m_srv_closed[c], TRUE} :
                 m_srv_closed' = [m_srv_closed EXCEPT ![c] = closed]
         \/ UNCHANGED <<interest, m_srv_closed>>
      /\ UNCHANGED <<mapVars, m_cltfd, m_srvfd, created, open, m_stop, reported, dropped>>

(* write_srv: TRY_AGAIN, BUFFER_EMPTY, or IOERR. *)
ProcessWriteServer(fd) ==
  LET c == m_used[fd]
  IN  /\ Handling(fd, "OUT")
      /\ c \in Conns /\ m_cltfd[c] # fd /\ m_srvfd[c] = fd
      /\ \/ Modfd({fd}, "OUT") /\ UNCHANGED m_srv_closed
         \/ Modfd({fd, m_cltfd[c]}, "IN") /\ UNCHANGED m_srv_closed
         \/ /\ Modfd({m_cltfd[c]}, "OUT")
            /\ m_srv_closed' = [m_srv_closed EXCEPT ![c] = TRUE]
      /\ UNCHANGED <<mapVars, m_cltfd, m_srvfd, created, open, m_stop, reported, dropped>>

Process(fd) ==
  \/ ProcessUnknown(fd, "IN")
  \/ ProcessUnknown(fd, "OUT")
  \/ ProcessReadClient(fd)
  \/ ProcessWriteClient(fd)
  \/ ProcessReadServer(fd)
  \/ ProcessWriteServer(fd)
-----------------------------------------------------------------------------
(* recycle_conns: every freed connection is tried once, in key order. *)

Unvisited == Keys(m_freed) \ iter

NextKey(key) == key \in Unvisited /\ \A k \in Unvisited : key <= k

Repair(key, fd) ==
  /\ phase = "recycle"
  /\ NextKey(key)
  /\ fd \notin open
  /\ LET c == m_freed[key]
     IN  /\ m_srvfd' = [m_srvfd EXCEPT ![c] = fd]
         /\ m_conns' = Insert(m_conns, fd, c)
  /\ open' = open \cup {fd}
  /\ iter' = iter \cup {key}
  /\ UNCHANGED <<m_used, m_freed, m_cltfd, m_srv_closed, created, interest, tries,
                 phase, batch, m_stop, reported, dropped>>

RepairFails(key) ==
  /\ phase = "recycle"
  /\ NextKey(key)
  /\ dropped' = dropped \cup {m_freed[key]}
  /\ iter' = iter \cup {key}
  /\ UNCHANGED <<mapVars, connVars, kernelVars, tries, phase, batch, m_stop, reported>>

RecycleDone ==
  /\ phase = "recycle"
  /\ Unvisited = {}
  /\ m_freed' = EmptyMap
  /\ iter' = {}
  /\ phase' = "wait"
  /\ UNCHANGED <<m_conns, m_used, connVars, kernelVars, tries, batch, m_stop,
                 reported, dropped>>
-----------------------------------------------------------------------------
Build ==
  \/ \E c \in Conns, fd \in Fd : BuildConn(c, fd)
  \/ BuildFails
  \/ EnterLoop

Recycle ==
  \/ EpollTimeout
  \/ \E key, fd \in Fd : Repair(key, fd)
  \/ \E key \in Fd : RepairFails(key)
  \/ RecycleDone

Handle ==
  \/ Signal
  \/ TurnAway
  \/ \E connfd, srvfd \in Fd : PickConn(connfd, srvfd)
  \/ \E fd \in Fd : Process(fd)

Next ==
  \/ Build
  \/ EpollWait
  \/ BatchDone
  \/ LeaveLoop
  \/ Handle
  \/ Recycle

Spec == Init /\ [][Next]_vars
-----------------------------------------------------------------------------
Bound(c) == m_cltfd[c] # NoFd

Idle(c) == \E fd \in Fd : m_conns[fd] = c

ToRepair(c) == \E fd \in Unvisited : m_freed[fd] = c

(* No connection object is lost or counted twice: each is idle, in a        *)
(* session, waiting for repair or given up after a failed repair, and only  *)
(* one of these.  insert() silently drops an entry whose key is taken, so   *)
(* this is also: no key is ever taken when a connection is put in a map.    *)
ConnInOnePlace ==
  \A c \in created :
    Cardinality({p \in {"idle", "bound", "freed", "dropped"} :
                   CASE p = "idle"    -> Idle(c)
                     [] p = "bound"   -> Bound(c)
                     [] p = "freed"   -> ToRepair(c)
                     [] p = "dropped" -> c \in dropped}) = 1

(* An event never reaches a connection its descriptor does not belong to,   *)
(* however late in the batch it comes and whoever got the number since; and *)
(* a session is found under both its descriptors unless a null entry, left  *)
(* there by an event of an earlier owner, hides it.                         *)
DispatchedToOwner ==
  /\ \A fd \in Fd : m_used[fd] \in Conns =>
       LET c == m_used[fd] IN Bound(c) /\ fd \in {m_cltfd[c], m_srvfd[c]}
  /\ \A c \in Conns : Bound(c) =>
       /\ m_used[m_cltfd[c]] \in {c, NULL}
       /\ m_used[m_srvfd[c]] \in {c, NULL}

(* Every open socket belongs to one idle connection or one session: none    *)
(* leaks, none is closed twice, none is shared.  Those of sessions are the  *)
(* ones epoll watches.                                                      *)
SocketsOf(c) ==
  IF Bound(c) THEN {m_cltfd[c], m_srvfd[c]}
  ELSE IF Idle(c) THEN {m_srvfd[c]} ELSE {}

SocketsOwned ==
  /\ open = UNION {SocketsOf(c) : c \in Conns}
  /\ \A c, d \in Conns : c # d => SocketsOf(c) \cap SocketsOf(d) = {}
  /\ \A c \in Conns : Bound(c) => m_cltfd[c] # m_srvfd[c]
  /\ Watched = UNION {SocketsOf(c) : c \in {x \in Conns : Bound(x)}}

(* Together: the maps and the kernel agree on what there is and whose it    *)
(* is.                                                                      *)
ConnectionsAccounted == ConnInOnePlace /\ SocketsOwned

(* The parent balances by what it was last told: that is never less than    *)
(* the two descriptors of each session, and never more than m_used holds,   *)
(* to which null entries may have been added since.                         *)
LoadReported ==
  LET sessions == Cardinality({c \in Conns : Bound(c)})
  IN  /\ 2 * sessions <= reported
      /\ reported <= Cardinality(Keys(m_used))
=============================================================================
