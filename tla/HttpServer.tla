------------------------------ MODULE HttpServer ------------------------------
(***************************************************************************)
(* The web server built on the thread pool: one thread runs the epoll loop *)
(* (15-6main.cpp) and the pool's workers run http_conn::process            *)
(* (15-5http_conn.cpp).  A session is the object users[fd]; EPOLLONESHOT   *)
(* is what keeps two threads from using it at once, since nothing locks it.*)
(* The pool is the abstract TaskQueue that ThreadPool.tla implements.      *)
(*                                                                         *)
(* What http_conn parses and answers is abstracted to the outcome: more    *)
(* input needed, a response to write, or nothing to answer with.           *)
(*                                                                         *)
(* A definition marked Variant is no part of the specification: it is what *)
(* the definition after it would be with a defect, kept to see the         *)
(* properties fail.                                                        *)
(***************************************************************************)
EXTENDS Integers, Sequences, FiniteSets, SequencesExt

CONSTANTS
  Fd,          \* the descriptor numbers accept may return
  Workers,     \* the pool's threads
  Capacity,    \* the most requests the pool keeps waiting
  MAX_FD,      \* the most sessions the server wants
  MaxClients,  \* bound: how many clients connect
  MaxSends,    \* bound: how many times clients send
  MaxStalls,   \* bound: how often a client leaves its answers unread
  NULL,        \* no request
  Listener     \* the listening socket, in events

Main == "main"

Threads == Workers \cup {Main}

ASSUME ServerAssumption ==
  /\ IsFiniteSet(Fd) /\ Fd \subseteq Nat
  /\ IsFiniteSet(Workers) /\ Main \notin Workers
  /\ NULL \notin Fd
  /\ Listener \notin Fd
  /\ MAX_FD \in Nat \ {0}
  /\ MaxClients \in Nat /\ MaxSends \in Nat /\ MaxStalls \in Nat

VARIABLES
  m_sockfd,      \* the field of users[fd]: fd, or -1
  response,      \* what m_write_buf holds: "none", or a response after which
                 \* the connection is kept ("keep") or not ("close")
  m_user_count,
  open,          \* the open connections
  armed,         \* what epoll waits for on a connection: "IN", "OUT", "none"
  inq,           \* bytes of the client wait in the socket
  ended,         \* the client has hung up or reset the connection
  full,          \* the client does not read: its socket takes no more output
  backlog, listenEdge,     \* connections to accept; the listener's edge
  batch,         \* the events of the last epoll_wait still to be handled
  mpc, mfd,      \* the loop's thread: where it is, and the session it is at
  wpc,           \* where each worker is
  loaded,        \* the value of m_user_count a thread has read and not stored
  pending, running, finished, closed,      \* the pool, see TaskQueue
  clients, sends, stalls,  \* how many there were so far
  refused,       \* sessions whose request append returned false for
  raced,         \* sessions whose number was still in use when they began
  reused,        \* there has been such a session
  doubled,       \* how often close_conn counted down a socket closed before
  torn           \* two updates of m_user_count have overlapped

sessionVars == <<m_sockfd, response>>
kernelVars == <<open, armed, inq, ended, full>>
listenVars == <<backlog, listenEdge>>
mainVars == <<batch, mpc, mfd>>
poolVars == <<pending, running, finished, closed>>
countVars == <<m_user_count, loaded, torn>>
envVars == <<clients, sends, stalls>>
historyVars == <<refused, raced, reused, doubled>>
vars == <<sessionVars, kernelVars, listenVars, mainVars, wpc, poolVars,
          countVars, envVars, historyVars>>

Pool == INSTANCE TaskQueue WITH Requests <- Fd

Init ==
  /\ m_sockfd = [fd \in Fd |-> -1]
  /\ response = [fd \in Fd |-> "none"]
  /\ m_user_count = 0
  /\ open = {}
  /\ armed = [fd \in Fd |-> "none"]
  /\ inq = [fd \in Fd |-> FALSE]
  /\ ended = [fd \in Fd |-> FALSE]
  /\ full = [fd \in Fd |-> FALSE]
  /\ backlog = 0
  /\ listenEdge = FALSE
  /\ batch = <<>>
  /\ mpc = "loop"
  /\ mfd = NULL
  /\ wpc = [w \in Workers |-> "idle"]
  /\ loaded = [t \in Threads |-> 0]
  /\ Pool!Init
  /\ clients = 0 /\ sends = 0 /\ stalls = 0
  /\ refused = {} /\ raced = {} /\ reused = FALSE /\ doubled = 0 /\ torn = FALSE
-----------------------------------------------------------------------------
(* The clients. *)

ClientConnects ==
  /\ clients < MaxClients
  /\ clients' = clients + 1
  /\ backlog' = backlog + 1
  /\ listenEdge' = TRUE
  /\ UNCHANGED <<sessionVars, kernelVars, mainVars, wpc, poolVars, countVars,
                 sends, stalls, historyVars>>

ClientSends(fd) ==
  /\ fd \in open /\ ~ended[fd] /\ ~inq[fd]
  /\ sends < MaxSends
  /\ sends' = sends + 1
  /\ inq' = [inq EXCEPT ![fd] = TRUE]
  /\ UNCHANGED <<sessionVars, open, armed, ended, full, listenVars, mainVars, wpc,
                 poolVars, countVars, clients, stalls, historyVars>>

ClientEnds(fd) ==
  /\ fd \in open /\ ~ended[fd]
  /\ ended' = [ended EXCEPT ![fd] = TRUE]
  /\ UNCHANGED <<sessionVars, open, armed, inq, full, listenVars, mainVars, wpc,
                 poolVars, countVars, envVars, historyVars>>

(* A client that had stopped reading reads what its socket was full of. *)
ClientReads(fd) ==
  /\ full[fd]
  /\ full' = [full EXCEPT ![fd] = FALSE]
  /\ UNCHANGED <<sessionVars, open, armed, inq, ended, listenVars, mainVars, wpc,
                 poolVars, countVars, envVars, historyVars>>
-----------------------------------------------------------------------------
(* epoll_wait reports every connection that is ready for what it is armed   *)
(* for, once (EPOLLONESHOT disarms it), and the listener once per edge.     *)
Ready(fd) ==
  \/ armed[fd] = "IN" /\ (inq[fd] \/ ended[fd])
  \/ armed[fd] = "OUT" /\ (~full[fd] \/ ended[fd])

EventType(fd) == IF ended[fd] THEN "HUP" ELSE armed[fd]

(* Variant: connections are registered without EPOLLONESHOT. *)
EpollWaitPersistent ==
  /\ mpc = "loop" /\ batch = <<>>
  /\ LET ready == {fd \in Fd : Ready(fd)}
         fired == ready \cup (IF listenEdge /\ backlog > 0 THEN {Listener} ELSE {})
     IN  /\ fired # {}
         /\ \E order \in SetToSeqs(fired) :
              batch' = [i \in DOMAIN order |->
                          [fd |-> order[i],
                           type |-> IF order[i] = Listener THEN "IN"
                                    ELSE EventType(order[i])]]
  /\ listenEdge' = FALSE
  /\ UNCHANGED <<sessionVars, kernelVars, backlog, mpc, mfd, wpc, poolVars,
                 countVars, envVars, historyVars>>

EpollWait ==
  /\ mpc = "loop" /\ batch = <<>>
  /\ LET ready == {fd \in Fd : Ready(fd)}
         fired == ready \cup (IF listenEdge /\ backlog > 0 THEN {Listener} ELSE {})
     IN  /\ fired # {}
         /\ \E order \in SetToSeqs(fired) :
              batch' = [i \in DOMAIN order |->
                          [fd |-> order[i],
                           type |-> IF order[i] = Listener THEN "IN"
                                    ELSE EventType(order[i])]]
         /\ armed' = [fd \in Fd |-> IF fd \in ready THEN "none" ELSE armed[fd]]
  /\ listenEdge' = FALSE
  /\ UNCHANGED <<sessionVars, open, inq, ended, full, backlog, mpc, mfd, wpc, poolVars,
                 countVars, envVars, historyVars>>

(* The kernel knows a connection from addfd to removefd; of any other       *)
(* number epoll_ctl fails, and nobody looks at its result.                  *)
Registered(fd) == fd \in open /\ ~(mfd = fd /\ mpc \in {"init", "add"})

Modfd(fd, ev) ==
  armed' = IF Registered(fd) THEN [armed EXCEPT ![fd] = ev] ELSE armed

(* removefd: the number is free for the next accept from here on. *)
Removefd(fd) ==
  /\ open' = open \ {fd}
  /\ armed' = [armed EXCEPT ![fd] = "none"]

(* removefd in close_conn; what it finds closed will be counted down again. *)
Closes(fd) ==
  /\ Removefd(fd)
  /\ doubled' = IF fd \in open THEN doubled ELSE doubled + 1

(* m_user_count++ and m_user_count-- are a load and a store. *)
Load(t) == loaded' = [loaded EXCEPT ![t] = m_user_count] /\ UNCHANGED <<m_user_count, torn>>

Between(t) == IF t = Main THEN mpc \in {"storeup", "storedown"} ELSE wpc[t] = "store"

Store(t, delta) ==
  /\ m_user_count' = loaded[t] + delta
  /\ torn' = (torn \/ \E u \in Threads \ {t} : Between(u))
  /\ UNCHANGED loaded
-----------------------------------------------------------------------------
(* The loop: a new connection. *)

Handling(fd) == mpc = "loop" /\ batch # <<>> /\ Head(batch).fd = fd

(* Somebody still has the last session with this number in hand. *)
StillUsed(fd) ==
  \/ \E w \in Workers : running[w] = fd
  \/ \E i \in DOMAIN pending : pending[i] = fd
  \/ \E i \in DOMAIN batch : batch[i].fd = fd

Accept(fd) ==
  /\ Handling(Listener)
  /\ backlog > 0
  /\ fd \notin open
  /\ m_user_count < MAX_FD
  /\ open' = open \cup {fd}
  /\ inq' = [inq EXCEPT ![fd] = FALSE]
  /\ ended' = [ended EXCEPT ![fd] = FALSE]
  /\ full' = [full EXCEPT ![fd] = FALSE]
  /\ backlog' = backlog - 1
  /\ batch' = Tail(batch)
  /\ mpc' = "init"
  /\ mfd' = fd
  /\ raced' = IF StillUsed(fd) THEN raced \cup {fd} ELSE raced \ {fd}
  /\ reused' = (reused \/ StillUsed(fd))
  /\ refused' = refused \ {fd}
  /\ UNCHANGED <<sessionVars, armed, listenEdge, wpc, poolVars, countVars, envVars,
                 doubled>>

(* Too many sessions: show_error sends a line and closes the connection. *)
ShowError ==
  /\ Handling(Listener)
  /\ backlog > 0
  /\ open # Fd
  /\ m_user_count >= MAX_FD
  /\ backlog' = backlog - 1
  /\ batch' = Tail(batch)
  /\ UNCHANGED <<sessionVars, kernelVars, listenEdge, mpc, mfd, wpc, poolVars,
                 countVars, envVars, historyVars>>

(* accept fails for want of a descriptor; the connection stays where it is. *)
AcceptFails ==
  /\ Handling(Listener)
  /\ open = Fd
  /\ batch' = Tail(batch)
  /\ UNCHANGED <<sessionVars, kernelVars, listenVars, mpc, mfd, wpc, poolVars,
                 countVars, envVars, historyVars>>

(* http_conn::init: the field, the registration, the counter, the reset. *)
InitSockfd ==
  /\ mpc = "init"
  /\ m_sockfd' = [m_sockfd EXCEPT ![mfd] = mfd]
  /\ mpc' = "add"
  /\ UNCHANGED <<response, kernelVars, listenVars, batch, mfd, wpc, poolVars,
                 countVars, envVars, historyVars>>

InitAddfd ==
  /\ mpc = "add"
  /\ armed' = IF mfd \in open THEN [armed EXCEPT ![mfd] = "IN"] ELSE armed
  /\ mpc' = "loadup"
  /\ UNCHANGED <<sessionVars, open, inq, ended, full, listenVars, batch, mfd, wpc,
                 poolVars, countVars, envVars, historyVars>>

InitLoad ==
  /\ mpc = "loadup"
  /\ Load(Main)
  /\ mpc' = "storeup"
  /\ UNCHANGED <<sessionVars, kernelVars, listenVars, batch, mfd, wpc, poolVars,
                 envVars, historyVars>>

InitStore ==
  /\ mpc = "storeup"
  /\ Store(Main, 1)
  /\ response' = [response EXCEPT ![mfd] = "none"]
  /\ mpc' = "loop"
  /\ mfd' = NULL
  /\ UNCHANGED <<m_sockfd, kernelVars, listenVars, batch, wpc, poolVars, envVars,
                 historyVars>>
-----------------------------------------------------------------------------
(* The loop: an event of a connection. *)

(* close_conn as the loop runs it: only the counter is shared with workers  *)
(* that use other sessions.                                                 *)
MainCloses(fd) ==
  IF m_sockfd[fd] # -1
  THEN /\ Closes(fd)
       /\ m_sockfd' = [m_sockfd EXCEPT ![fd] = -1]
       /\ mpc' = "loaddown"
  ELSE UNCHANGED <<open, armed, m_sockfd, mpc, doubled>>

HandleHangup(fd) ==
  /\ Handling(fd)
  /\ Head(batch).type = "HUP"
  /\ MainCloses(fd)
  /\ batch' = Tail(batch)
  /\ UNCHANGED <<response, inq, ended, full, listenVars, mfd, wpc, poolVars, countVars,
                 envVars, refused, raced, reused>>

(* read() empties the socket.  It fails when the client has hung up since,  *)
(* when m_read_buf is full, or when another thread has cleared m_sockfd.    *)
HandleRead(fd) ==
  /\ Handling(fd)
  /\ Head(batch).type = "IN"
  /\ inq' = IF m_sockfd[fd] # -1 THEN [inq EXCEPT ![fd] = FALSE] ELSE inq
  /\ \/ /\ m_sockfd[fd] # -1 /\ ~ended[fd]
        /\ mpc' = "append"
        /\ mfd' = fd
        /\ UNCHANGED <<open, armed, m_sockfd, doubled>>
     \/ MainCloses(fd) /\ UNCHANGED mfd
  /\ batch' = Tail(batch)
  /\ UNCHANGED <<response, ended, full, listenVars, wpc, poolVars, countVars, envVars,
                 refused, raced, reused>>

(* pool->append, whose result is ignored. *)
AppendAccepted ==
  /\ mpc = "append"
  /\ Pool!Submit(mfd)
  /\ mpc' = "loop" /\ mfd' = NULL
  /\ UNCHANGED <<sessionVars, kernelVars, listenVars, batch, wpc, countVars,
                 envVars, historyVars>>

AppendRefused ==
  /\ mpc = "append"
  /\ Len(pending) >= Capacity
  /\ refused' = refused \cup {mfd}
  /\ mpc' = "loop" /\ mfd' = NULL
  /\ UNCHANGED <<sessionVars, kernelVars, listenVars, batch, wpc, poolVars,
                 countVars, envVars, raced, reused, doubled>>

(* What writev sends may fill the socket of a client that does not read.    *)
Fills(fd) ==
  /\ stalls < MaxStalls
  /\ stalls' = stalls + 1
  /\ full' = [full EXCEPT ![fd] = TRUE]

(* write(): nothing to send; sent, and the connection is kept; EAGAIN; sent *)
(* and not to be kept, or failed.                                           *)
HandleWrite(fd) ==
  /\ Handling(fd)
  /\ Head(batch).type = "OUT"
  /\ batch' = Tail(batch)
  /\ \/ /\ response[fd] = "none"
        /\ Modfd(m_sockfd[fd], "IN")
        /\ UNCHANGED <<open, m_sockfd, mpc, response, full, stalls, doubled>>
     \/ /\ response[fd] = "keep" /\ ~full[fd]
        /\ Fills(fd) \/ UNCHANGED <<full, stalls>>
        /\ response' = [response EXCEPT ![fd] = "none"]
        /\ Modfd(m_sockfd[fd], "IN")
        /\ UNCHANGED <<open, m_sockfd, mpc, doubled>>
     \/ /\ response[fd] # "none"
        /\ Fills(fd) \/ (full[fd] /\ UNCHANGED <<full, stalls>>)
        /\ Modfd(m_sockfd[fd], "OUT")
        /\ UNCHANGED <<open, m_sockfd, mpc, response, doubled>>
     \/ /\ response[fd] # "none"
        /\ MainCloses(fd)
        /\ UNCHANGED <<response, full, stalls>>
  /\ UNCHANGED <<inq, ended, listenVars, mfd, wpc, poolVars, countVars, clients,
                 sends, refused, raced, reused>>

CloseLoad ==
  /\ mpc = "loaddown"
  /\ Load(Main)
  /\ mpc' = "storedown"
  /\ UNCHANGED <<sessionVars, kernelVars, listenVars, batch, mfd, wpc, poolVars,
                 envVars, historyVars>>

CloseStore ==
  /\ mpc = "storedown"
  /\ Store(Main, -1)
  /\ mpc' = "loop"
  /\ UNCHANGED <<sessionVars, kernelVars, listenVars, batch, mfd, wpc, poolVars,
                 envVars, historyVars>>
-----------------------------------------------------------------------------
(* The workers: http_conn::process. *)

WorkerTakes(w) ==
  /\ wpc[w] = "idle"
  /\ Pool!Take(w)
  /\ wpc' = [wpc EXCEPT ![w] = "process"]
  /\ UNCHANGED <<sessionVars, kernelVars, listenVars, mainVars, countVars,
                 envVars, historyVars>>

Returns(w) ==
  /\ Pool!Finish(w)
  /\ wpc' = [wpc EXCEPT ![w] = "idle"]

(* Variant: an incomplete request does not arm the connection again. *)
WorkerForgetsModfd(w) ==
  /\ wpc[w] = "process"
  /\ Returns(w)
  /\ UNCHANGED <<sessionVars, kernelVars, listenVars, mainVars, countVars,
                 envVars, historyVars>>

(* NO_REQUEST *)
WorkerNeedsMore(w) ==
  /\ wpc[w] = "process"
  /\ Modfd(m_sockfd[running[w]], "IN")
  /\ Returns(w)
  /\ UNCHANGED <<sessionVars, open, inq, ended, full, listenVars, mainVars, countVars,
                 envVars, historyVars>>

(* process_write has composed a response. *)
WorkerResponds(w) ==
  /\ wpc[w] = "process"
  /\ \E linger \in {"keep", "close"} :
       response' = [response EXCEPT ![running[w]] = linger]
  /\ Modfd(m_sockfd[running[w]], "OUT")
  /\ Returns(w)
  /\ UNCHANGED <<m_sockfd, open, inq, ended, full, listenVars, mainVars, countVars,
                 envVars, historyVars>>

(* process_write has failed: close_conn, then modfd all the same. *)
WorkerCloses(w) ==
  /\ wpc[w] = "process"
  /\ IF m_sockfd[running[w]] # -1
     THEN Closes(running[w]) /\ wpc' = [wpc EXCEPT ![w] = "forget"]
     ELSE UNCHANGED <<open, armed, doubled>> /\ wpc' = [wpc EXCEPT ![w] = "modfd"]
  /\ UNCHANGED <<sessionVars, inq, ended, full, listenVars, mainVars, poolVars,
                 countVars, envVars, refused, raced, reused>>

(* Variant: the session is not counted down. *)
WorkerSkipsCount(w) ==
  /\ wpc[w] = "forget"
  /\ m_sockfd' = [m_sockfd EXCEPT ![running[w]] = -1]
  /\ wpc' = [wpc EXCEPT ![w] = "modfd"]
  /\ UNCHANGED <<response, kernelVars, listenVars, mainVars, poolVars, countVars,
                 envVars, historyVars>>

WorkerForgets(w) ==
  /\ wpc[w] = "forget"
  /\ m_sockfd' = [m_sockfd EXCEPT ![running[w]] = -1]
  /\ wpc' = [wpc EXCEPT ![w] = "load"]
  /\ UNCHANGED <<response, kernelVars, listenVars, mainVars, poolVars, countVars,
                 envVars, historyVars>>

WorkerLoads(w) ==
  /\ wpc[w] = "load"
  /\ Load(w)
  /\ wpc' = [wpc EXCEPT ![w] = "store"]
  /\ UNCHANGED <<sessionVars, kernelVars, listenVars, mainVars, poolVars, envVars,
                 historyVars>>

WorkerStores(w) ==
  /\ wpc[w] = "store"
  /\ Store(w, -1)
  /\ wpc' = [wpc EXCEPT ![w] = "modfd"]
  /\ UNCHANGED <<sessionVars, kernelVars, listenVars, mainVars, poolVars, envVars,
                 historyVars>>

WorkerModfd(w) ==
  /\ wpc[w] = "modfd"
  /\ Modfd(m_sockfd[running[w]], "OUT")
  /\ Returns(w)
  /\ UNCHANGED <<sessionVars, open, inq, ended, full, listenVars, mainVars, countVars,
                 envVars, historyVars>>
-----------------------------------------------------------------------------
MainStep ==
  \/ EpollWait
  \/ \E fd \in Fd : Accept(fd)
  \/ ShowError
  \/ AcceptFails
  \/ InitSockfd
  \/ InitAddfd
  \/ InitLoad
  \/ InitStore
  \/ \E fd \in Fd : HandleHangup(fd) \/ HandleRead(fd) \/ HandleWrite(fd)
  \/ AppendAccepted
  \/ AppendRefused
  \/ CloseLoad
  \/ CloseStore

WorkerStep(w) ==
  \/ WorkerTakes(w)
  \/ WorkerNeedsMore(w)
  \/ WorkerResponds(w)
  \/ WorkerCloses(w)
  \/ WorkerForgets(w)
  \/ WorkerLoads(w)
  \/ WorkerStores(w)
  \/ WorkerModfd(w)

Next ==
  \/ ClientConnects
  \/ \E fd \in Fd : ClientSends(fd) \/ ClientEnds(fd) \/ ClientReads(fd)
  \/ MainStep
  \/ \E w \in Workers : WorkerStep(w)

Spec == Init /\ [][Next]_vars

(* The threads run; clients do as they like. *)
Fairness == WF_vars(MainStep) /\ \A w \in Workers : WF_vars(WorkerStep(w))

FairSpec == Spec /\ Fairness
-----------------------------------------------------------------------------
(* Who may use session fd now: each is one place. *)
Holders(fd) ==
  (IF armed[fd] # "none" THEN 1 ELSE 0)
  + Cardinality({i \in DOMAIN batch : batch[i].fd = fd})
  + (IF mfd = fd /\ mpc \in {"init", "add", "append"} THEN 1 ELSE 0)
  + Cardinality({i \in DOMAIN pending : pending[i] = fd})
  + Cardinality({w \in Workers : running[w] = fd /\ wpc[w] = "process"})
  + (IF fd \in refused THEN 1 ELSE 0)

(* EPOLLONESHOT hands every session to exactly one thread at a time: it is  *)
(* armed, or with the loop, or queued, or with one worker; never with two,  *)
(* and never with none, except that a request the full pool refused leaves  *)
(* it with nobody for good.  The number of a session that a worker is still *)
(* closing may be given out again; of such a session nothing is claimed.    *)
OneHolder ==
  \A fd \in Fd \ raced : Holders(fd) = (IF fd \in open THEN 1 ELSE 0)

(* A session's object names its own socket from init to close_conn, and a   *)
(* worker that runs process finds it so.                                    *)
FieldsMatch ==
  \A fd \in open \ raced :
    ~(mfd = fd /\ mpc = "init") => m_sockfd[fd] = fd

(* Together: a session is with one holder, who finds it to be the session   *)
(* he was given.                                                            *)
SessionsHeld == OneHolder /\ FieldsMatch

(* Threads that have closed a socket and have yet to count it, and the one  *)
(* that has opened a socket and has yet to.                                 *)
Uncounted ==
  Cardinality({w \in Workers : wpc[w] \in {"forget", "load", "store"}})
  + (IF mpc \in {"loaddown", "storedown"} THEN 1 ELSE 0)
  - (IF mpc \in {"init", "add", "loadup", "storeup"} THEN 1 ELSE 0)

(* As long as no two updates of m_user_count have overlapped it counts the  *)
(* open connections, on every path that opens or closes one, less one for   *)
(* each time close_conn went through for a socket that was closed before;   *)
(* and that takes a session that began while somebody still had the last    *)
(* session of its number in hand.                                           *)
CountExact ==
  /\ ~torn => m_user_count = Cardinality(open) + Uncounted - doubled
  /\ ~reused => doubled = 0

(* What a client sends is read, or its connection is closed.  There are     *)
(* three exceptions: the pool refused an earlier request of that session,   *)
(* its number was still in use when it began, or the client never again     *)
(* reads what it is sent, so that the session waits to write for ever.      *)
RequestRead ==
  \A fd \in Fd :
    (fd \in open /\ inq[fd])
      ~> \/ fd \notin open \/ ~inq[fd] \/ fd \in refused \cup raced
         \/ []full[fd]
=============================================================================
