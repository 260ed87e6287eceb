---------------------------- MODULE MCEventLoops -----------------------------
(* The servers that are one loop around select, poll or epoll, one of them  *)
(* at a time: which says whose behaviour this is; the others stay as they   *)
(* began.  Two descriptors, which are soon used again; three for the chat,  *)
(* one more than it takes users.                                            *)
EXTENDS Integers, FiniteSets

CONSTANTS
  t1, t2, w1, w2, NULL, Listener, Pipe,
  Fd, MaxData,
  FD_SETSIZE, SelectClients,       \* of the select server
  ChatFd, USER_LIMIT, ChatClients, MaxTexts,    \* of the chat
  Workers, EpollClients,           \* of the epoll servers
  Timers, TIMESLOT                 \* of the server with timers

VARIABLES
  which,
  s_anSelectFdSet, s_tOldSet, s_tReadSet, s_i, s_overrun, s_open, s_data,
  s_ended, s_backlog, s_clients,
  p_fds, p_i, p_buf, p_write_buf, p_owner, p_inq, p_ended, p_error, p_texts,
  p_backlog, p_clients, p_unexpected, p_astray,
  e_program, e_batch, e_ready, e_armed, e_open, e_data, e_ended, e_backlog,
  e_clients, e_slot, e_thread, e_sockfd, e_misread, e_merged,
  d_left, d_fired, d_timer, d_user_data, d_running, d_stop_server,
  d_timeout, d_batch, d_open, d_data, d_ended, d_backlog, d_edge, d_sigpipe,
  d_alarm, d_idle

selectVars == <<s_anSelectFdSet, s_tOldSet, s_tReadSet, s_i, s_overrun,
  s_open, s_data, s_ended, s_backlog, s_clients>>
pollVars == <<p_fds, p_i, p_buf, p_write_buf, p_owner, p_inq, p_ended,
  p_error, p_texts, p_backlog, p_clients, p_unexpected, p_astray>>
epollVars == <<e_program, e_batch, e_ready, e_armed, e_open, e_data,
  e_ended, e_backlog, e_clients, e_slot, e_thread, e_sockfd, e_misread,
  e_merged>>
idleVars == <<d_left, d_fired, d_timer, d_user_data, d_running,
  d_stop_server, d_timeout, d_batch, d_open, d_data, d_ended, d_backlog,
  d_edge, d_sigpipe, d_alarm, d_idle>>

S == INSTANCE SelectServer WITH
  MaxClients <- SelectClients, anSelectFdSet <- s_anSelectFdSet,
  tOldSet <- s_tOldSet, tReadSet <- s_tReadSet, i <- s_i,
  overrun <- s_overrun, open <- s_open, data <- s_data, ended <- s_ended,
  backlog <- s_backlog, clients <- s_clients

P == INSTANCE PollChat WITH
  Fd <- ChatFd, MaxClients <- ChatClients, fds <- p_fds, i <- p_i,
  buf <- p_buf, write_buf <- p_write_buf, owner <- p_owner, inq <- p_inq,
  ended <- p_ended, error <- p_error, texts <- p_texts,
  backlog <- p_backlog, clients <- p_clients, unexpected <- p_unexpected,
  astray <- p_astray

E == INSTANCE EpollServers WITH
  MaxClients <- EpollClients, program <- e_program, batch <- e_batch,
  ready <- e_ready, armed <- e_armed, open <- e_open, data <- e_data,
  ended <- e_ended, backlog <- e_backlog, clients <- e_clients,
  slot <- e_slot, thread <- e_thread, sockfd <- e_sockfd,
  misread <- e_misread, merged <- e_merged

D == INSTANCE IdleServer WITH
  left <- d_left, fired <- d_fired, timer <- d_timer,
  user_data <- d_user_data, running <- d_running,
  stop_server <- d_stop_server, timeout <- d_timeout, batch <- d_batch,
  open <- d_open, data <- d_data, ended <- d_ended, backlog <- d_backlog,
  edge <- d_edge, sigpipe <- d_sigpipe, alarm <- d_alarm, idle <- d_idle

ASSUME MCEventLoopsAssumption ==
  /\ S!SelectServerAssumption /\ P!PollChatAssumption
  /\ E!EpollServersAssumption /\ D!IdleServerAssumption

Init ==
  /\ which \in {"select", "poll", "epoll", "idle"}
  /\ S!Init /\ P!Init /\ D!Init
  /\ E!Init /\ (which # "epoll" => e_program = "epoll")

SelectRuns == which = "select" /\ UNCHANGED <<which, pollVars, epollVars, idleVars>>
PollRuns == which = "poll" /\ UNCHANGED <<which, selectVars, epollVars, idleVars>>
EpollRuns == which = "epoll" /\ UNCHANGED <<which, selectVars, pollVars, idleVars>>
IdleRuns == which = "idle" /\ UNCHANGED <<which, selectVars, pollVars, epollVars>>

Next ==
  \/ SelectRuns /\ S!Next
  \/ PollRuns /\ P!Next
  \/ EpollRuns /\ E!Next
  \/ IdleRuns /\ D!Next

vars == <<which, selectVars, pollVars, epollVars, idleVars>>

Spec == Init /\ [][Next]_vars

(* What makes the server with timers go on: it runs, and time passes.       *)
FairSpec ==
  /\ Spec
  /\ WF_vars(IdleRuns /\ D!ServerStep)
  /\ WF_vars(IdleRuns /\ D!Elapse)
-----------------------------------------------------------------------------
(* 08_select.cpp selects on exactly its open connections, and each can be   *)
(* found in its array.                                                      *)
SelectSessionsWatched == S!SessionsWatched

(* It waits in recv only at a connection that is in the array twice.        *)
SelectBlocksOnlyAtDuplicate == S!BlocksOnlyAtDuplicate

(* 08_select.cpp, the comment at line 127: closed descriptors are set to 0  *)
(* in the array.                                                            *)
SelectClosedCleared == S!ClosedCleared

(* 9-7mytalk_server.cpp keeps every connection once in its array.           *)
ChatTablesAgree == P!TablesAgree

(* Its pointers lead to the last words of another user who is still there.  *)
ChatPointsToSpeaker == P!PointsToSpeaker

(* "code should not come to here" (line 149).                               *)
ChatShouldNotComeHere == P!ShouldNotComeHere

(* 9-4oneshot.cpp: a socket is one thread's, unless a thread took the       *)
(* arguments of another.                                                    *)
EpollOneReader == E!OneReader

(* 09_epoll.cpp, 9-3mtlt.cpp, 9-4oneshot.cpp: input and clients that wait   *)
(* are not forgotten, unless events were merged or arguments mixed up.      *)
EpollNothingForgotten == E!NothingForgotten

(* 11-3nonactive_conn.cpp: a session and its timer live and die together.   *)
IdleTimerOfSession == D!TimerOfSession

(* It closes nobody who was not silent for three time slots.                *)
IdleNotClosedEarly == D!NotClosedEarly

(* It closes everybody who is.                                              *)
IdleClosed == D!IdleClosed
=============================================================================
