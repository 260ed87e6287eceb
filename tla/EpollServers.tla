---------------------------- MODULE EpollServers -----------------------------
(***************************************************************************)
(* Four small servers around epoll, which print what they receive:         *)
(*   "epoll"    09_epoll.cpp: level-triggered, sockets that block          *)
(*   "lt"       9-3mtlt.cpp with lt(): level-triggered, but for the        *)
(*              listening socket                                           *)
(*   "et"       9-3mtlt.cpp with et(): edge-triggered                      *)
(*   "oneshot"  9-4oneshot.cpp: edge-triggered, and a thread for every     *)
(*              event of a socket, which is then disarmed until the thread *)
(*              has read everything                                        *)
(* Clients and the kernel are the environment.                             *)
(*                                                                         *)
(* A definition marked Variant is no part of the specification: it is what *)
(* the definition after it would be with a defect, kept to see the         *)
(* properties fail.                                                        *)
(***************************************************************************)
EXTENDS Integers, FiniteSets

CONSTANTS
  Fd,            \* the descriptors accept may return
  Listener,
  NULL,
  Workers,       \* bound: the threads that may exist at a time
  MaxClients,    \* bound: the connections made in all
  MaxData        \* bound: the input a socket holds, in pieces

EpollServersAssumption ==
  /\ IsFiniteSet(Fd) /\ Listener \notin Fd /\ NULL \notin Fd \cup {Listener}
  /\ MaxClients \in Nat /\ MaxData \in Nat

VARIABLES
  program,
  batch,      \* the events of the last epoll_wait still to be handled
  ready,      \* epoll's ready list
  armed,      \* the descriptors epoll watches
  open,       \* the descriptors of the accepted connections
  data,       \* the pieces of input that wait in each socket
  ended,      \* whether the client has closed
  backlog,    \* connections that wait to be accepted
  clients,    \* how many clients have connected
  slot,       \* the memory of fds_for_new_worker: its sockfd, NULL for junk
  thread,     \* "none", or what a thread does: "starts", "reads" or "rearms"
  sockfd,     \* the descriptor each thread reads, or is to read
  misread,    \* history: a thread has read the arguments of another
  merged      \* history: a single event stood for two new connections

epollVars == <<batch, ready, armed>>
kernelVars == <<open, data, ended, backlog, clients>>
threadVars == <<slot, thread, sockfd, misread>>
vars == <<program, epollVars, kernelVars, threadVars, merged>>

Init ==
  /\ program \in {"epoll", "lt", "et", "oneshot"}
  /\ batch = {} /\ ready = {} /\ armed = {Listener}
  /\ open = {}
  /\ data = [fd \in Fd |-> 0] /\ ended = [fd \in Fd |-> FALSE]
  /\ backlog = 0 /\ clients = 0
  /\ slot = NULL
  /\ thread = [w \in Workers |-> "none"] /\ sockfd = [w \in Workers |-> NULL]
  /\ misread = FALSE /\ merged = FALSE

LevelTriggered(fd) == program = "epoll" \/ (program = "lt" /\ fd # Listener)
-----------------------------------------------------------------------------
(* Something happens at fd; epoll notes it if it watches fd. *)
Notify(fd) == ready' = ready \cup ({fd} \cap armed)

(* No more clients at a time than there are descriptors. *)
ClientConnects ==
  /\ clients < MaxClients /\ backlog + Cardinality(open) < Cardinality(Fd)
  /\ clients' = clients + 1 /\ backlog' = backlog + 1
  /\ Notify(Listener)
  /\ merged' = (merged \/ (Listener \in ready /\ ~LevelTriggered(Listener)))
  /\ UNCHANGED <<program, batch, armed, open, data, ended, threadVars>>

ClientSends(fd) ==
  /\ fd \in open /\ ~ended[fd] /\ data[fd] < MaxData
  /\ data' = [data EXCEPT ![fd] = @ + 1]
  /\ Notify(fd)
  /\ UNCHANGED <<program, batch, armed, open, ended, backlog, clients, threadVars, merged>>

ClientCloses(fd) ==
  /\ fd \in open /\ ~ended[fd]
  /\ ended' = [ended EXCEPT ![fd] = TRUE]
  /\ Notify(fd)
  /\ UNCHANGED <<program, batch, armed, open, data, backlog, clients, threadVars, merged>>

Readable(fd) == IF fd = Listener THEN backlog > 0 ELSE data[fd] > 0 \/ ended[fd]

(* Variant: a socket stays armed when its event is reported. *)
DisarmedNone(fds) == {}

(* What EPOLLONESHOT disarms when fds are reported. *)
Disarmed(fds) == IF program = "oneshot" THEN fds \ {Listener} ELSE {}

(* epoll_wait: what is still readable of the ready list; only what is       *)
(* level-triggered stays on the list.                                       *)
EpollWait ==
  /\ batch = {}
  /\ batch' = {fd \in ready : Readable(fd)}
  /\ batch' # {}
  /\ ready' = {fd \in batch' : LevelTriggered(fd)}
  /\ armed' = armed \ Disarmed(batch')
  /\ UNCHANGED <<program, kernelVars, threadVars, merged>>

Handling(e) ==
  /\ e \in batch
  /\ batch' = batch \ {e}

(* One connection is accepted for one event.  The compiler may use the      *)
(* memory of fds_for_new_worker for the address of the client.              *)
Accept ==
  /\ Handling(Listener) /\ backlog > 0
  /\ backlog' = backlog - 1
  /\ \E connfd \in Fd \ open :
       open' = open \cup {connfd} /\ armed' = armed \cup {connfd}
  /\ slot' \in {slot, NULL}
  /\ UNCHANGED <<program, ready, data, ended, clients, thread, sockfd, misread, merged>>

(* close ends the registration as well. *)
Close(fd) ==
  /\ open' = open \ {fd}
  /\ armed' = armed \ {fd} /\ ready' = ready \ {fd}
  /\ data' = [data EXCEPT ![fd] = 0]
  /\ ended' = [ended EXCEPT ![fd] = FALSE]

(* A single recv, of some of the input or all. *)
Receive(fd) ==
  /\ program \in {"epoll", "lt"} /\ Handling(fd) /\ data[fd] > 0
  /\ \E k \in 1..data[fd] : data' = [data EXCEPT ![fd] = @ - k]
  /\ UNCHANGED <<program, ready, armed, open, ended, backlog, clients, threadVars, merged>>

ReceiveEnd(fd) ==
  /\ program \in {"epoll", "lt"} /\ Handling(fd) /\ data[fd] = 0
  /\ Close(fd)
  /\ UNCHANGED <<program, backlog, clients, threadVars, merged>>

(* recv until it says EAGAIN or EBADF: after the end of the stream the      *)
(* descriptor is closed and recv called once more.                          *)
ReceiveAll(fd) ==
  /\ program = "et" /\ Handling(fd)
  /\ IF ended[fd] THEN Close(fd)
     ELSE data' = [data EXCEPT ![fd] = 0] /\ UNCHANGED <<ready, armed, open, ended>>
  /\ UNCHANGED <<program, backlog, clients, threadVars, merged>>

(* A thread is started with the address of a variable of the loop. *)
StartWorker(fd, w) ==
  /\ program = "oneshot" /\ Handling(fd) /\ thread[w] = "none"
  /\ slot' = fd
  /\ thread' = [thread EXCEPT ![w] = "starts"]
  /\ sockfd' = [sockfd EXCEPT ![w] = fd]
  /\ UNCHANGED <<program, ready, armed, kernelVars, misread, merged>>
-----------------------------------------------------------------------------
(* The thread reads its argument: by now it may be that of a later thread,  *)
(* or junk.                                                                 *)
WorkerStarts(w) ==
  /\ thread[w] = "starts"
  /\ sockfd' = [sockfd EXCEPT ![w] = slot]
  /\ misread' = (misread \/ slot # sockfd[w])
  /\ thread' = [thread EXCEPT ![w] = "reads"]
  /\ UNCHANGED <<program, epollVars, kernelVars, slot, merged>>

(* recv of some of the input, then sleep. *)
WorkerReceives(w) ==
  LET fd == sockfd[w]
  IN  /\ thread[w] = "reads" /\ fd \in open /\ data[fd] > 0
      /\ \E k \in 1..data[fd] : data' = [data EXCEPT ![fd] = @ - k]
      /\ UNCHANGED <<program, epollVars, open, ended, backlog, clients, threadVars, merged>>

Ends(w) ==
  /\ thread' = [thread EXCEPT ![w] = "none"]
  /\ sockfd' = [sockfd EXCEPT ![w] = NULL]
  /\ UNCHANGED <<program, batch, backlog, clients, slot, misread, merged>>

(* recv says EAGAIN. *)
WorkerFindsNothing(w) ==
  LET fd == sockfd[w]
  IN  /\ thread[w] = "reads" /\ fd \in open /\ data[fd] = 0 /\ ~ended[fd]
      /\ thread' = [thread EXCEPT ![w] = "rearms"]
      /\ UNCHANGED <<program, epollVars, kernelVars, slot, sockfd, misread, merged>>

(* Variant: what came after EAGAIN and before this is not announced. *)
RearmQuietly(w) ==
  /\ thread[w] = "rearms"
  /\ armed' = armed \cup ({sockfd[w]} \cap open)
  /\ Ends(w)
  /\ UNCHANGED <<ready, open, data, ended>>

(* reset_oneshot, by which epoll looks at the socket anew, and the end of   *)
(* the thread.                                                              *)
WorkerRearms(w) ==
  LET fds == {sockfd[w]} \cap open
  IN  /\ thread[w] = "rearms"
      /\ armed' = armed \cup fds
      /\ ready' = ready \cup {fd \in fds : Readable(fd)}
      /\ Ends(w)
      /\ UNCHANGED <<open, data, ended>>

(* The end of the stream: close, and the end of the thread.  (With another  *)
(* error, that of a descriptor nobody has open, recv is called for ever.)   *)
WorkerCloses(w) ==
  LET fd == sockfd[w]
  IN  /\ thread[w] = "reads" /\ fd \in open /\ data[fd] = 0 /\ ended[fd]
      /\ Close(fd)
      /\ Ends(w)
-----------------------------------------------------------------------------
LoopStep ==
  \/ EpollWait
  \/ Accept
  \/ \E fd \in Fd : \/ Receive(fd) \/ ReceiveEnd(fd) \/ ReceiveAll(fd)
                    \/ \E w \in Workers : StartWorker(fd, w)

WorkerStep(w) ==
  \/ WorkerStarts(w) \/ WorkerReceives(w) \/ WorkerFindsNothing(w)
  \/ WorkerRearms(w) \/ WorkerCloses(w)

Next ==
  \/ ClientConnects
  \/ \E fd \in Fd : ClientSends(fd) \/ ClientCloses(fd)
  \/ LoopStep
  \/ \E w \in Workers : WorkerStep(w)

Spec == Init /\ [][Next]_vars
-----------------------------------------------------------------------------
(* EPOLLONESHOT gives a socket to one thread at a time, and it is armed     *)
(* again only when the thread has done with it, as long as no thread has    *)
(* taken the arguments of another.                                          *)
OneReader ==
  ~misread =>
    \A w \in Workers : thread[w] # "none" =>
      /\ sockfd[w] \in open \ (armed \cup batch)
      /\ \A v \in Workers \ {w} : sockfd[v] # sockfd[w]

(* No event is lost: as long as something can be read, or a client waits to *)
(* be accepted, epoll will say so, or the loop or a thread is about to look. *)
(* Exceptions are threads that took the arguments of others, and, where the *)
(* listening socket is edge-triggered, clients that connected before the    *)
(* loop was told of the one before them.                                    *)
Announced(fd) == fd \in (ready \cap armed) \cup batch \cup {sockfd[w] : w \in Workers}

NothingForgotten ==
  /\ \A fd \in open : Readable(fd) => Announced(fd) \/ misread
  /\ backlog > 0 => Announced(Listener) \/ merged
=============================================================================
