------------------------------ MODULE PollChat -------------------------------
(***************************************************************************)
(* The chat server of 9-7mytalk_server.cpp: one thread, poll, an array of  *)
(* pollfds that is kept dense, and a table of users by descriptor.  What a *)
(* user says is not copied for the others: they get a pointer to the       *)
(* speaker's buffer.  Clients and the kernel are the environment.          *)
(*                                                                         *)
(* A definition marked Variant is no part of the specification: it is what *)
(* the definition after it would be with a defect, kept to see the         *)
(* properties fail.                                                        *)
(***************************************************************************)
EXTENDS Integers, Sequences, FiniteSets, SequencesExt

CONSTANTS
  MaxClients,   \* bound: the connections made in all
  Fd,           \* the descriptors accept may return
  NULL,
  USER_LIMIT,
  MaxTexts      \* bound: the texts a client sends

PollChatAssumption ==
  /\ IsFiniteSet(Fd) /\ Fd \subseteq Nat /\ Cardinality(Fd) > USER_LIMIT
  /\ NULL \notin Nat /\ MaxClients \in Nat
  /\ USER_LIMIT \in Nat \ {0} /\ MaxTexts \in Nat

VARIABLES
  fds,        \* fds[1..user_counter]: the descriptor, whether POLLOUT is asked
              \* for (it stays so: "|= ~POLLOUT" clears nothing), and revents
  i,          \* the entry the loop is at, 0 for the listening socket; -1 in poll
  buf,        \* users[fd].buf: the number of the client who said what is in it, or NULL
  write_buf,  \* users[fd].write_buf: the descriptor whose buffer it points to
  owner,      \* the number of the client at each open descriptor
  inq,        \* the texts that wait in each socket
  ended,      \* "no", or how the client closed: "fin" or "rst"
  error,      \* the reset of a socket has not been reported
  texts,      \* the texts the client at each descriptor may still send
  backlog,    \* how many clients wait to be accepted
  clients,    \* how many were accepted; a client is known by its number
  unexpected, \* the line "code should not come to here" has been reached
  astray      \* history: those told of words whose speaker has left since

loopVars == <<fds, i, unexpected>>
userVars == <<buf, write_buf, astray>>
socketVars == <<owner, inq, ended, error, texts>>
clientVars == <<backlog, clients>>
vars == <<loopVars, userVars, socketVars, clientVars>>

user_counter == Len(fds)

Open == {fd \in Fd : owner[fd] # NULL}

Init ==
  /\ fds = <<>> /\ i = -1 /\ unexpected = FALSE
  /\ buf = [fd \in Fd |-> NULL] /\ write_buf = [fd \in Fd |-> NULL] /\ astray = {}
  /\ owner = [fd \in Fd |-> NULL] /\ inq = [fd \in Fd |-> 0]
  /\ ended = [fd \in Fd |-> "no"] /\ error = [fd \in Fd |-> FALSE]
  /\ texts = [fd \in Fd |-> 0]
  /\ backlog = 0 /\ clients = 0
-----------------------------------------------------------------------------
(* No more clients at a time than there are descriptors. *)
ClientConnects ==
  /\ clients + backlog < MaxClients
  /\ backlog + Cardinality(Open) < Cardinality(Fd)
  /\ backlog' = backlog + 1
  /\ UNCHANGED <<loopVars, userVars, socketVars, clients>>

ClientSends(fd) ==
  /\ fd \in Open /\ ended[fd] = "no" /\ texts[fd] > 0
  /\ texts' = [texts EXCEPT ![fd] = @ - 1]
  /\ inq' = [inq EXCEPT ![fd] = @ + 1]
  /\ UNCHANGED <<loopVars, userVars, owner, ended, error, clientVars>>

(* An orderly close, or a reset, which discards what has not been read. *)
ClientCloses(fd) ==
  /\ fd \in Open /\ ended[fd] = "no"
  /\ \/ ended' = [ended EXCEPT ![fd] = "fin"] /\ UNCHANGED <<inq, error>>
     \/ /\ ended' = [ended EXCEPT ![fd] = "rst"]
        /\ inq' = [inq EXCEPT ![fd] = 0]
        /\ error' = [error EXCEPT ![fd] = TRUE]
  /\ UNCHANGED <<loopVars, userVars, owner, texts, clientVars>>
-----------------------------------------------------------------------------
(* What poll reports of an entry.  There is always room to send. *)
Revents(e) ==
  (IF error[e.fd] THEN {"POLLERR"} ELSE {})
    \cup (IF ended[e.fd] # "no" THEN {"POLLRDHUP"} ELSE {})
    \cup (IF inq[e.fd] > 0 \/ ended[e.fd] # "no" THEN {"POLLIN"} ELSE {})
    \cup (IF e.out THEN {"POLLOUT"} ELSE {})

(* The next entry from k on, of the array as it is after the step, of which *)
(* poll has reported something; those without events are passed over.       *)
GoTo(k) ==
  LET ahead == {j \in k..Len(fds') : fds'[j].revents # {}}
  IN  i' = IF ahead = {} THEN -1 ELSE Min(ahead)

(* The loop begins at the listening socket, with which there is nothing to  *)
(* do when nobody waits.                                                    *)
Poll ==
  /\ i = -1
  /\ backlog > 0 \/ \E k \in 1..user_counter : Revents(fds[k]) # {}
  /\ fds' = [k \in 1..user_counter |-> [fds[k] EXCEPT !.revents = Revents(fds[k])]]
  /\ IF backlog > 0 THEN i' = 0 ELSE GoTo(1)
  /\ UNCHANGED <<unexpected, userVars, socketVars, clientVars>>

(* A new user at the end of the array, or one too many, sent away at once.   *)
(* accept returns the lowest descriptor that is free.                       *)
(* users[connfd] keeps what it had from an earlier connection.              *)
Accept ==
  /\ i = 0
  /\ backlog' = backlog - 1
  /\ clients' = clients + 1
  /\ LET new == Min(Fd \ Open)
     IN  IF user_counter >= USER_LIMIT
         THEN UNCHANGED <<fds, owner, texts>>
         ELSE /\ fds' = Append(fds, [fd |-> new, out |-> FALSE, revents |-> {}])
              /\ owner' = [owner EXCEPT ![new] = clients']
              /\ texts' = [texts EXCEPT ![new] = MaxTexts]
  /\ GoTo(1)
  /\ UNCHANGED <<unexpected, userVars, inq, ended, error>>

(* Variant: input is looked for before the end of the connection. *)
TestsInputFirst == <<"POLLERR", "POLLIN", "POLLRDHUP", "POLLOUT">>

(* What is tested for in an entry, in this order; the first decides. *)
Tests == <<"POLLERR", "POLLRDHUP", "POLLIN", "POLLOUT">>

Handling(branch) ==
  /\ i \in 1..user_counter
  /\ \E k \in 1..Len(Tests) :
       /\ Tests[k] = branch /\ branch \in fds[i].revents
       /\ \A j \in 1..(k - 1) : Tests[j] \notin fds[i].revents

connfd == fds[i].fd

(* An entry that has been looked at: its revents are of no use any more. *)
Done == [fds EXCEPT ![i].revents = {}]

(* The error is fetched, and so cleared; the user stays. *)
HandleError ==
  /\ Handling("POLLERR")
  /\ error' = [error EXCEPT ![connfd] = FALSE]
  /\ fds' = Done
  /\ GoTo(i + 1)
  /\ UNCHANGED <<unexpected, userVars, owner, inq, ended, texts, clientVars>>

(* Variant: user_counter is not decremented. *)
CompactedKeepingLast == [fds EXCEPT ![i] = Last(fds)]

(* fds[i] = fds[user_counter]; user_counter--. *)
Compacted == [Front(fds) EXCEPT ![i] = Last(fds)]

(* A user goes: the last entry moves to its place and is looked at next.    *)
(* users[], which is indexed by descriptor, gets a copy of the last user's  *)
(* data under the descriptor that is closed; whoever still has a pointer to *)
(* that buffer will send what was copied there.                             *)
RemoveUser ==
  /\ fds' = Compacted
  /\ buf' = [buf EXCEPT ![connfd] = buf[Last(fds).fd]]
  /\ write_buf' = [write_buf EXCEPT ![connfd] = write_buf[Last(fds).fd]]
  /\ astray' = {owner[fd] : fd \in {f \in Open : write_buf[f] = connfd}} \cup astray
  /\ owner' = [owner EXCEPT ![connfd] = NULL]
  /\ inq' = [inq EXCEPT ![connfd] = 0]
  /\ ended' = [ended EXCEPT ![connfd] = "no"]
  /\ error' = [error EXCEPT ![connfd] = FALSE]
  /\ texts' = [texts EXCEPT ![connfd] = 0]
  /\ GoTo(i)
  /\ UNCHANGED <<unexpected, clientVars>>

HandleLeft == Handling("POLLRDHUP") /\ RemoveUser

(* recv fails: the connection was reset after poll had returned. *)
ReceiveFails == Handling("POLLIN") /\ error[connfd] /\ RemoveUser

(* Variant: the speaker is told as well. *)
EverybodyIn == Open

(* Who is told of what the user at connfd says. *)
Others == Open \ {connfd}

(* Some texts are taken, with one recv; the others are told where they are. *)
Receive ==
  /\ Handling("POLLIN") /\ inq[connfd] > 0
  /\ \E k \in 1..inq[connfd] : inq' = [inq EXCEPT ![connfd] = @ - k]
  /\ buf' = [buf EXCEPT ![connfd] = owner[connfd]]
  /\ fds' = [k \in 1..user_counter |-> [Done[k] EXCEPT !.out = @ \/ Done[k].fd \in Others]]
  /\ write_buf' = [fd \in Fd |-> IF fd \in Others THEN connfd ELSE write_buf[fd]]
  /\ astray' = astray \cap {owner[connfd]}
  /\ GoTo(i + 1)
  /\ UNCHANGED <<unexpected, owner, ended, error, texts, clientVars>>

(* recv returns 0: "code should not come to here". *)
ReceiveEnd ==
  /\ Handling("POLLIN") /\ inq[connfd] = 0 /\ ~error[connfd]
  /\ unexpected' = TRUE
  /\ buf' = [buf EXCEPT ![connfd] = NULL]
  /\ fds' = Done
  /\ GoTo(i + 1)
  /\ UNCHANGED <<write_buf, astray, socketVars, clientVars>>

(* What write_buf points to is sent, if it points to anything; a send to a  *)
(* connection that was reset meanwhile fails, which is ignored.             *)
Send ==
  /\ Handling("POLLOUT")
  /\ write_buf' = [write_buf EXCEPT ![connfd] = NULL]
  /\ error' = [error EXCEPT ![connfd] = @ /\ write_buf[connfd] = NULL]
  /\ astray' = astray \ {owner[connfd]}
  /\ fds' = Done
  /\ GoTo(i + 1)
  /\ UNCHANGED <<unexpected, buf, owner, inq, ended, texts, clientVars>>
-----------------------------------------------------------------------------
ServerStep ==
  \/ Poll \/ Accept \/ HandleError \/ HandleLeft
  \/ ReceiveFails \/ Receive \/ ReceiveEnd \/ Send

Next ==
  \/ ClientConnects
  \/ \E fd \in Fd : ClientSends(fd) \/ ClientCloses(fd)
  \/ ServerStep

Spec == Init /\ [][Next]_vars
-----------------------------------------------------------------------------
(* The array holds every connection once, however often an entry was moved. *)
TablesAgree ==
  /\ {fds[k].fd : k \in 1..user_counter} = Open
  /\ Cardinality(Open) = user_counter /\ user_counter <= USER_LIMIT

(* A user who waits for a text is given the words that another user, who is *)
(* still there, said last, though only a pointer was kept and the tables    *)
(* were compacted since.  The exception are those who waited for somebody   *)
(* who left: they may be given anybody's words, their own ones included.    *)
PointsToSpeaker ==
  \A k \in 1..user_counter :
    LET fd == fds[k].fd
        from == write_buf[fd]
    IN  (fds[k].out /\ from # NULL /\ owner[fd] \notin astray) =>
          from \in Open \ {fd} /\ buf[from] = owner[from]

(* "code should not come to here" (line 149): recv never returns 0, for the *)
(* end of a connection is noticed before its input.                         *)
ShouldNotComeHere == ~unexpected
=============================================================================
