----------------------------- MODULE IdleServer ------------------------------
(***************************************************************************)
(* The server of 11-3nonactive_conn.cpp: it closes connections that have   *)
(* been silent for three time slots.  SIGALRM, set again after every tick, *)
(* reaches the event loop as a byte in a pipe.  The list of timers is the  *)
(* abstract TimerSet that TimerList.tla implements.  Clients, the clock    *)
(* and epoll are the environment.                                          *)
(*                                                                         *)
(* A definition marked Variant is no part of the specification: it is what *)
(* the definition after it would be with a defect, kept to see the         *)
(* properties fail.                                                        *)
(***************************************************************************)
EXTENDS Integers, FiniteSets

CONSTANTS
  Fd,           \* the descriptors accept may return
  Timers,       \* the addresses util_timer objects may have
  NULL, Listener, Pipe,
  TIMESLOT,
  MaxData       \* bound: the input a socket holds, in pieces

IdleServerAssumption ==
  /\ IsFiniteSet(Fd) /\ Fd \subseteq Nat /\ Listener \notin Fd /\ Pipe \notin Fd /\ Listener # Pipe
  /\ Cardinality(Timers) >= Cardinality(Fd) /\ NULL \notin Timers
  /\ TIMESLOT \in Nat \ {0} /\ MaxData \in Nat

Limit == 3 * TIMESLOT

VARIABLES
  left, fired,     \* timer_lst, see TimerSet
  timer,           \* users[fd].timer
  user_data,       \* the session each timer belongs to
  running,         \* main is in its loop
  stop_server, timeout,
  batch,           \* the events of the last epoll_wait still to be handled
  open,            \* the descriptors of the accepted connections
  data,            \* the pieces of input that wait in each socket
  ended,           \* "no", or how the client closed: "fin" or "rst"
  backlog,         \* connections that wait to be accepted
  edge,            \* what is on epoll's ready list
  sigpipe,         \* the signals whose bytes are in the pipe
  alarm,           \* the time to SIGALRM, 0 when none is set
  idle             \* history: how long nothing was read of a session, to Limit

timerVars == <<left, fired, timer, user_data>>
loopVars == <<running, stop_server, timeout, batch>>
clientVars == <<data, ended, backlog>>
vars == <<timerVars, loopVars, open, clientVars, edge, sigpipe, alarm, idle>>

List == INSTANCE TimerSet WITH MaxLeft <- Limit

Init ==
  /\ List!Init
  /\ timer = [fd \in Fd |-> NULL]
  /\ user_data = [t \in Timers |-> NULL]
  /\ running = TRUE /\ stop_server = FALSE /\ timeout = FALSE
  /\ batch = {}
  /\ open = {}
  /\ data = [fd \in Fd |-> 0]
  /\ ended = [fd \in Fd |-> "no"]
  /\ backlog = 0
  /\ edge = {}
  /\ sigpipe = {}
  /\ alarm = TIMESLOT
  /\ idle = [fd \in Fd |-> 0]
-----------------------------------------------------------------------------
(* The environment. *)

(* No more clients at a time than there are descriptors. *)
ClientConnects ==
  /\ running /\ backlog + Cardinality(open) < Cardinality(Fd)
  /\ backlog' = backlog + 1
  /\ edge' = edge \cup {Listener}
  /\ UNCHANGED <<timerVars, loopVars, open, data, ended, sigpipe, alarm, idle>>

ClientSends(fd) ==
  /\ fd \in open /\ ended[fd] = "no" /\ data[fd] < MaxData
  /\ data' = [data EXCEPT ![fd] = @ + 1]
  /\ edge' = edge \cup {fd}
  /\ UNCHANGED <<timerVars, loopVars, open, ended, backlog, sigpipe, alarm, idle>>

(* An orderly close, or a reset, which discards what has not been read. *)
ClientCloses(fd) ==
  /\ fd \in open /\ ended[fd] = "no"
  /\ \/ ended' = [ended EXCEPT ![fd] = "fin"] /\ data' = data
     \/ ended' = [ended EXCEPT ![fd] = "rst"] /\ data' = [data EXCEPT ![fd] = 0]
  /\ edge' = edge \cup {fd}
  /\ UNCHANGED <<timerVars, loopVars, open, backlog, sigpipe, alarm, idle>>

(* sig_handler writes the signal into the pipe. *)
Raise(sig) ==
  /\ sigpipe' = sigpipe \cup {sig}
  /\ edge' = edge \cup {Pipe}

Terminate ==
  /\ running /\ "TERM" \notin sigpipe
  /\ Raise("TERM")
  /\ UNCHANGED <<timerVars, loopVars, open, clientVars, alarm, idle>>

(* A unit of time passes, and SIGALRM is raised when it was the last one. *)
Elapse ==
  /\ running
  /\ List!Elapse
  /\ idle' = [fd \in Fd |-> IF fd \in open /\ idle[fd] < Limit
                            THEN idle[fd] + 1 ELSE idle[fd]]
  /\ alarm' = IF alarm > 0 THEN alarm - 1 ELSE 0
  /\ IF alarm = 1 THEN Raise("ALRM") ELSE UNCHANGED <<sigpipe, edge>>
  /\ UNCHANGED <<timer, user_data, loopVars, open, clientVars>>
-----------------------------------------------------------------------------
EpollWait ==
  /\ running /\ batch = {} /\ ~stop_server /\ ~timeout
  /\ edge # {}
  /\ batch' = edge
  /\ edge' = {}
  /\ UNCHANGED <<timerVars, running, stop_server, timeout, open, clientVars,
                 sigpipe, alarm, idle>>

Handling(e) ==
  /\ e \in batch
  /\ batch' = batch \ {e}
  /\ UNCHANGED <<running, alarm>>

(* One connection is accepted for one event, and its timer started, at      *)
(* whatever address is free.  accept returns the lowest descriptor.  The    *)
(* client may have sent something by then, or have closed.                  *)
HandleAccept ==
  LET connfd == CHOOSE fd \in Fd \ open : \A other \in Fd \ open : fd <= other
      t == CHOOSE t \in Timers : t \notin List!Pending
  IN  /\ Handling(Listener)
      /\ backlog' = backlog - 1
      /\ open' = open \cup {connfd}
      /\ \E d \in 0..MaxData, e \in {"no", "fin"} :
           /\ data' = [data EXCEPT ![connfd] = d]
           /\ ended' = [ended EXCEPT ![connfd] = e]
           /\ edge' = IF d > 0 \/ e = "fin" THEN edge \cup {connfd} ELSE edge
      /\ timer' = [timer EXCEPT ![connfd] = t]
      /\ user_data' = [user_data EXCEPT ![t] = connfd]
      /\ List!Add(t, Limit)
      /\ UNCHANGED <<stop_server, timeout, sigpipe, idle>>

(* The switch over the bytes in the pipe. *)
HandleSignals ==
  /\ Handling(Pipe)
  /\ timeout' = (timeout \/ "ALRM" \in sigpipe)
  /\ stop_server' = (stop_server \/ "TERM" \in sigpipe)
  /\ sigpipe' = {}
  /\ UNCHANGED <<timerVars, open, clientVars, edge, idle>>

(* cb_func: what it removes from epoll is the static epollfd's, which main  *)
(* never sets; it is close() that ends the registration.  What a closed     *)
(* session and a deleted timer held means nothing any more.                 *)
Close(fds) ==
  /\ open' = open \ fds
  /\ edge' = edge \ fds
  /\ data' = [fd \in Fd |-> IF fd \in fds THEN 0 ELSE data[fd]]
  /\ ended' = [fd \in Fd |-> IF fd \in fds THEN "no" ELSE ended[fd]]
  /\ idle' = [fd \in Fd |-> IF fd \in fds THEN 0 ELSE idle[fd]]
  /\ timer' = [fd \in Fd |-> IF fd \in fds THEN NULL ELSE timer[fd]]
  /\ user_data' = [t \in Timers |-> IF user_data[t] \in fds THEN NULL ELSE user_data[t]]

(* Variant: what a client sends does not postpone its timer. *)
ReceiveOnly(fd) ==
  /\ Handling(fd) /\ data[fd] > 0
  /\ \E k \in 1..data[fd] : data' = [data EXCEPT ![fd] = @ - k]
  /\ idle' = [idle EXCEPT ![fd] = 0]
  /\ UNCHANGED <<timerVars, stop_server, timeout, open, ended, backlog, edge, sigpipe>>

(* A single recv takes some of the input, perhaps not all; what remains, or *)
(* the end of the stream behind it, is not announced again.                 *)
Receive(fd) ==
  /\ Handling(fd) /\ data[fd] > 0
  /\ \E k \in 1..data[fd] : data' = [data EXCEPT ![fd] = @ - k]
  /\ idle' = [idle EXCEPT ![fd] = 0]
  /\ List!Postpone(timer[fd], Limit)
  /\ UNCHANGED <<timer, user_data, stop_server, timeout, open, ended, backlog,
                 edge, sigpipe>>

(* recv says EAGAIN: an earlier one has taken what this event announced. *)
ReceiveNothing(fd) ==
  /\ Handling(fd) /\ data[fd] = 0 /\ ended[fd] = "no"
  /\ UNCHANGED <<timerVars, stop_server, timeout, open, clientVars, edge, sigpipe, idle>>

(* Variant: the timer of a connection that is closed is not deleted. *)
CloseOnly(fd) ==
  /\ Handling(fd) /\ data[fd] = 0 /\ ended[fd] # "no"
  /\ Close({fd})
  /\ UNCHANGED <<left, fired, stop_server, timeout, backlog, sigpipe>>

(* recv returns 0 or an error: the connection and its timer go together. *)
ReceiveEnd(fd) ==
  /\ Handling(fd) /\ data[fd] = 0 /\ ended[fd] # "no"
  /\ Close({fd})
  /\ List!Cancel(timer[fd])
  /\ UNCHANGED <<stop_server, timeout, backlog, sigpipe>>

(* Variant: the alarm is not set again. *)
TickOnly ==
  /\ running /\ batch = {} /\ timeout
  /\ List!Tick
  /\ Close({user_data[t] : t \in fired'})
  /\ timeout' = FALSE
  /\ UNCHANGED <<running, stop_server, batch, backlog, sigpipe, alarm>>

(* timer_handler, after all events of the batch. *)
TimerHandler ==
  /\ running /\ batch = {} /\ timeout
  /\ List!Tick
  /\ Close({user_data[t] : t \in fired'})
  /\ alarm' = TIMESLOT
  /\ timeout' = FALSE
  /\ UNCHANGED <<running, stop_server, batch, backlog, sigpipe>>

(* The loop ends after a SIGTERM; main returns. *)
LoopEnds ==
  /\ running /\ batch = {} /\ ~timeout /\ stop_server
  /\ running' = FALSE
  /\ Close(open)
  /\ backlog' = 0
  /\ UNCHANGED <<left, fired, stop_server, timeout, batch, sigpipe, alarm>>
-----------------------------------------------------------------------------
Client(fd) == ClientSends(fd) \/ ClientCloses(fd)

ServerStep ==
  \/ EpollWait
  \/ HandleAccept
  \/ HandleSignals
  \/ \E fd \in Fd : Receive(fd) \/ ReceiveNothing(fd) \/ ReceiveEnd(fd)
  \/ TimerHandler
  \/ LoopEnds

Next ==
  \/ ClientConnects
  \/ \E fd \in Fd : Client(fd)
  \/ Terminate
  \/ Elapse
  \/ ServerStep

Spec == Init /\ [][Next]_vars

(* The server runs and time passes; clients owe nothing. *)
Fairness == WF_vars(ServerStep) /\ WF_vars(Elapse)

FairSpec == Spec /\ Fairness
-----------------------------------------------------------------------------
(* A session and its timer live and die together, on every path that ends   *)
(* one: users[fd].timer is never a deleted timer or another session's, and  *)
(* no event is handled for a session that has been closed.                  *)
TimerOfSession ==
  running =>
    /\ \A fd \in open : timer[fd] \in List!Pending /\ user_data[timer[fd]] = fd
    /\ \A t \in List!Pending : user_data[t] \in open /\ timer[user_data[t]] = t
    /\ batch \ {Listener, Pipe} \subseteq open

(* The server closes a connection its client has not closed only after it   *)
(* has read nothing from it for three time slots, or because it ends.       *)
NotClosedEarly ==
  [][\A fd \in open \ open' :
       ended[fd] # "no" \/ idle[fd] = Limit \/ ~running']_vars

(* A connection from which nothing is read for so long is closed: the alarm *)
(* never stops, and ends of streams that no event announces any more (those *)
(* behind input a single recv left) are found in the end.                   *)
IdleClosed ==
  \A fd \in Fd :
    (fd \in open /\ idle[fd] = Limit) ~> (fd \notin open \/ idle[fd] = 0)
=============================================================================
