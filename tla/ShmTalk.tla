------------------------------- MODULE ShmTalk -------------------------------
(***************************************************************************)
(* The chat server of 13-4shm_talk_server.cpp: the parent accepts, forks a *)
(* child for every user and keeps the tables users and sub_process; a      *)
(* child puts what its client says into its segment of the shared memory   *)
(* and sends its number through a pipe; the parent passes the number on to *)
(* the other children, which send that segment to their clients.           *)
(*                                                                         *)
(* Of a text only its author matters.  A user's entry (connfd, pid, pipes) *)
(* is copied as a whole and is its pid here.  All descriptors are edge-    *)
(* triggered and every handler reads once per event; an edge is over when  *)
(* nothing is left to read, since epoll_wait would not report it.  A       *)
(* signal is delivered when it is sent.                                    *)
(*                                                                         *)
(* A definition marked Variant is no part of the specification: it is what *)
(* the definition after it would be with a defect, kept to see the         *)
(* properties fail.                                                        *)
(***************************************************************************)
EXTENDS Integers, Sequences, FiniteSets, SequencesExt

CONSTANTS
  USER_LIMIT,
  Pids,         \* the process numbers children may get, again and again
  MaxClients,   \* bound: how many clients connect
  MaxBacklog,   \* bound: how many clients wait to be accepted at a time
  MaxInputs     \* bound: how many texts clients send, and how many SIGTERM or
                \* SIGINT the parent is sent, together

Nobody == "nobody"      \* no pid; the author of zeroes, and of a text whose child
                        \* has ended

ASSUME ShmTalkAssumption ==
  /\ Nobody \notin Pids
  /\ USER_LIMIT \in Nat \ {0}
  /\ IsFiniteSet(Pids) /\ Cardinality(Pids) >= USER_LIMIT
  /\ MaxClients \in Nat /\ MaxBacklog \in Nat /\ MaxInputs \in Nat

Listener == "listenfd"
SigPipe == "sig_pipefd"

VARIABLES
  backlog, listenEdge,      \* connections to accept; the listener's edge
  ppc,          \* the parent: "loop" or "stopped"
  users,        \* the array of USER_LIMIT + 1 entries
  sub_process,  \* the slot of a pid in users, or -1
  user_count, terminate, stop_server,
  batch,        \* what the parent's last epoll_wait reported, not yet handled
  psigpipe,     \* signals that sig_handler has written to sig_pipefd
  proc,         \* per pid: "none", "running" or "zombie"
  cpc,          \* per child: "forked", "setup", or in its loop: "wait",
                \* "handle", "exit"
  idx,          \* per child: its number, that of its segment
  stop_child,
  cbatch,       \* what the child's last epoll_wait reported
  hasText, closed, connEdge,    \* per child: what its client has done; its edge
  fromChild, fromEdge,          \* numbers in the pipe to the parent; its edge
  toChild, toEdge,              \* numbers in the pipe to the child; its edge
  share_mem,    \* per segment: whose words it holds
  clients, inputs,      \* how many there were so far
  late, deaf,   \* children forked after the stop began; that lost a SIGTERM
  shared,       \* children that run and have had a segment together with another
  heardSelf     \* children that sent their client its own words

listenVars == <<backlog, listenEdge>>
tableVars == <<users, sub_process, user_count>>
parentVars == <<ppc, terminate, stop_server, batch>>
childVars == <<cpc, idx, stop_child, cbatch>>
connVars == <<hasText, closed, connEdge>>
pipeVars == <<fromChild, fromEdge, toChild, toEdge>>
envVars == <<clients, inputs>>
ghostVars == <<late, deaf, shared, heardSelf>>
vars == <<listenVars, tableVars, parentVars, psigpipe, proc, childVars, connVars,
          pipeVars, share_mem, envVars, ghostVars>>

Slots == 0..USER_LIMIT - 1

Users == {users[i] : i \in 0..user_count - 1}

Running(c) == proc[c] = "running"

(* main before its loop: the handlers are installed before the first fork. *)
Init ==
  /\ backlog = 0 /\ listenEdge = FALSE
  /\ ppc = "loop" /\ terminate = FALSE /\ stop_server = FALSE /\ batch = {}
  /\ users = [i \in 0..USER_LIMIT |-> Nobody]
  /\ sub_process = [p \in Pids |-> -1]
  /\ user_count = 0
  /\ psigpipe = {}
  /\ proc = [p \in Pids |-> "none"]
  /\ cpc = [p \in Pids |-> "forked"] /\ idx = [p \in Pids |-> 0]
  /\ stop_child = [p \in Pids |-> FALSE] /\ cbatch = [p \in Pids |-> {}]
  /\ hasText = [p \in Pids |-> FALSE] /\ closed = [p \in Pids |-> FALSE]
  /\ connEdge = [p \in Pids |-> FALSE]
  /\ fromChild = [p \in Pids |-> 0] /\ fromEdge = [p \in Pids |-> FALSE]
  /\ toChild = [p \in Pids |-> <<>>] /\ toEdge = [p \in Pids |-> FALSE]
  /\ share_mem = [i \in Slots |-> Nobody]
  /\ clients = 0 /\ inputs = 0
  /\ late = {} /\ deaf = {} /\ shared = {} /\ heardSelf = {}
-----------------------------------------------------------------------------
(* Clients, the operator and the kernel. *)

ClientConnects ==
  /\ clients < MaxClients /\ backlog < MaxBacklog
  /\ clients' = clients + 1
  /\ backlog' = backlog + 1
  /\ listenEdge' = TRUE
  /\ UNCHANGED <<tableVars, parentVars, psigpipe, proc, childVars, connVars,
                 pipeVars, share_mem, inputs, ghostVars>>

ClientSays(c) ==
  /\ Running(c) /\ ~closed[c]
  /\ inputs < MaxInputs
  /\ inputs' = inputs + 1
  /\ hasText' = [hasText EXCEPT ![c] = TRUE]
  /\ connEdge' = [connEdge EXCEPT ![c] = TRUE]
  /\ UNCHANGED <<listenVars, tableVars, parentVars, psigpipe, proc, childVars, closed, pipeVars, share_mem, clients, ghostVars>>

ClientCloses(c) ==
  /\ Running(c) /\ ~closed[c]
  /\ closed' = [closed EXCEPT ![c] = TRUE]
  /\ connEdge' = [connEdge EXCEPT ![c] = TRUE]
  /\ UNCHANGED <<listenVars, tableVars, parentVars, psigpipe, proc, childVars, hasText, pipeVars, share_mem, envVars, ghostVars>>

(* The parent's sig_handler puts a signal into its pipe at once; a second   *)
(* byte of the same signal, or another order, makes no difference.          *)
Terminate ==
  /\ inputs < MaxInputs /\ ppc = "loop"
  /\ inputs' = inputs + 1
  /\ psigpipe' = psigpipe \cup {"TERM"}
  /\ UNCHANGED <<listenVars, tableVars, parentVars, proc, childVars, connVars, pipeVars, share_mem, clients, ghostVars>>

-----------------------------------------------------------------------------
(* The child: run_child. *)

(* The descriptors of the parent are closed. *)
ChildCloses(c) ==
  /\ Running(c) /\ cpc[c] = "forked"
  /\ cpc' = [cpc EXCEPT ![c] = "setup"]
  /\ UNCHANGED <<listenVars, tableVars, parentVars, psigpipe, proc, idx, stop_child,
                 cbatch, connVars, pipeVars, share_mem, envVars, ghostVars>>

(* The epoll instance and addsig.  From here on "wait" is a child that is   *)
(* about to call epoll_wait or in it.                                       *)
ChildSetup(c) ==
  /\ Running(c) /\ cpc[c] = "setup"
  /\ cpc' = [cpc EXCEPT ![c] = "wait"]
  /\ UNCHANGED <<listenVars, tableVars, parentVars, psigpipe, proc, idx, stop_child,
                 cbatch, connVars, pipeVars, share_mem, envVars, ghostVars>>

(* The child leaves its loop and exits; what it had is forgotten, but for   *)
(* what is in the pipe to the parent, which sees the end of it.             *)
ChildExits(c) ==
  /\ Running(c) /\ cpc[c] = "exit"
  /\ proc' = [proc EXCEPT ![c] = "zombie"]
  /\ psigpipe' = psigpipe \cup {"CHLD"}
  /\ cpc' = [cpc EXCEPT ![c] = "forked"]
  /\ stop_child' = [stop_child EXCEPT ![c] = FALSE]
  /\ hasText' = [hasText EXCEPT ![c] = FALSE]
  /\ closed' = [closed EXCEPT ![c] = FALSE]
  /\ connEdge' = [connEdge EXCEPT ![c] = FALSE]
  /\ toChild' = [toChild EXCEPT ![c] = <<>>] /\ toEdge' = [toEdge EXCEPT ![c] = FALSE]
  /\ fromEdge' = [fromEdge EXCEPT ![c] = TRUE]
  /\ share_mem' = [i \in Slots |-> IF share_mem[i] = c THEN Nobody ELSE share_mem[i]]
  /\ late' = late \ {c} /\ deaf' = deaf \ {c} /\ shared' = shared \ {c}
  /\ heardSelf' = heardSelf \ {c}
  /\ UNCHANGED <<listenVars, tableVars, parentVars, idx, cbatch, fromChild,
                 envVars>>

ChildWakes(c) ==
  LET ready == (IF connEdge[c] /\ (hasText[c] \/ closed[c]) THEN {"conn"} ELSE {})
                 \cup (IF toEdge[c] /\ toChild[c] # <<>> THEN {"pipe"} ELSE {})
  IN  /\ Running(c) /\ cpc[c] = "wait"
      /\ ready # {}
      /\ cbatch' = [cbatch EXCEPT ![c] = ready]
      /\ cpc' = [cpc EXCEPT ![c] = "handle"]
      /\ connEdge' = [connEdge EXCEPT ![c] = FALSE]
      /\ toEdge' = [toEdge EXCEPT ![c] = FALSE]
      /\ UNCHANGED <<listenVars, tableVars, parentVars, psigpipe, proc, idx, stop_child,
                     hasText, closed, fromChild, fromEdge, toChild, share_mem,
                     envVars, ghostVars>>

(* One event; after the last, while( !stop_child ) is tested. *)
ChildHandles(c, source, stops) ==
  /\ Running(c) /\ cpc[c] = "handle"
  /\ source \in cbatch[c]
  /\ cbatch' = [cbatch EXCEPT ![c] = @ \ {source}]
  /\ stop_child' = [stop_child EXCEPT ![c] = @ \/ stops]
  /\ cpc' = [cpc EXCEPT ![c] = IF cbatch'[c] # {} THEN "handle"
                               ELSE IF stop_child'[c] THEN "exit" ELSE "wait"]

(* The client's socket: the segment is cleared, then one recv.  A text that *)
(* came is announced; the end of the stream stops the child.                *)
ChildReceives(c) ==
  /\ ChildHandles(c, "conn", ~hasText[c])
  /\ \/ /\ hasText[c]
        /\ hasText' = [hasText EXCEPT ![c] = FALSE]
        /\ share_mem' = [share_mem EXCEPT ![idx[c]] = c]
        /\ fromChild' = [fromChild EXCEPT ![c] = @ + 1]
        /\ fromEdge' = [fromEdge EXCEPT ![c] = TRUE]
        /\ connEdge' = [connEdge EXCEPT ![c] = @ /\ closed[c]]
     \/ /\ ~hasText[c]
        /\ share_mem' = [share_mem EXCEPT ![idx[c]] = Nobody]
        /\ UNCHANGED <<hasText, connEdge, fromChild, fromEdge>>
  /\ UNCHANGED <<listenVars, tableVars, parentVars, psigpipe, proc, idx, closed,
                 toChild, toEdge, envVars, ghostVars>>

(* The pipe: one number is read, and that segment sent as it is by now.  A  *)
(* client that has closed its socket may answer with a reset.               *)
ChildForwards(c) ==
  LET client == Head(toChild[c])
  IN  /\ ChildHandles(c, "pipe", FALSE)
      /\ toChild' = [toChild EXCEPT ![c] = Tail(@)]
      /\ toEdge' = [toEdge EXCEPT ![c] = @ /\ toChild'[c] # <<>>]
      /\ heardSelf' = IF share_mem[client] = c THEN heardSelf \cup {c} ELSE heardSelf
      /\ \/ UNCHANGED connEdge
         \/ closed[c] /\ connEdge' = [connEdge EXCEPT ![c] = TRUE]
      /\ UNCHANGED <<listenVars, tableVars, parentVars, psigpipe, proc, idx, hasText,
                     closed, fromChild, fromEdge, share_mem, envVars, late,
                     deaf, shared>>
-----------------------------------------------------------------------------
(* The parent: main's loop. *)

ParentWait ==
  LET ready == (IF listenEdge /\ backlog > 0 THEN {Listener} ELSE {})
                 \cup (IF psigpipe # {} THEN {SigPipe} ELSE {})
                 \cup {c \in Users : fromEdge[c] /\ (fromChild[c] > 0 \/ ~Running(c))}
  IN  /\ ppc = "loop" /\ ~stop_server /\ batch = {}
      /\ ready # {}
      /\ batch' = ready
      /\ listenEdge' = FALSE
      /\ fromEdge' = [c \in Pids |-> fromEdge[c] /\ c \notin ready]
      /\ UNCHANGED <<backlog, tableVars, ppc, terminate, stop_server, psigpipe, proc,
                     childVars, connVars, fromChild, toChild, toEdge, share_mem,
                     envVars, ghostVars>>

Handling(source) ==
  /\ ppc = "loop" /\ source \in batch
  /\ batch' = batch \ {source}

(* accept and fork: the child's number is the next free slot. *)
Accept(p) ==
  /\ Handling(Listener)
  /\ backlog > 0 /\ backlog' = backlog - 1
  /\ user_count < USER_LIMIT
  /\ proc[p] = "none"
  /\ proc' = [proc EXCEPT ![p] = "running"]
  /\ users' = [users EXCEPT ![user_count] = p]
  /\ sub_process' = [sub_process EXCEPT ![p] = user_count]
  /\ user_count' = user_count + 1
  /\ idx' = [idx EXCEPT ![p] = user_count]
  /\ late' = IF terminate THEN late \cup {p} ELSE late
  /\ LET same == {c \in Users : idx[c] = user_count}
     IN  shared' = IF same = {} THEN shared
                   ELSE shared \cup {c \in same : Running(c)} \cup {p}
  /\ UNCHANGED <<listenEdge, ppc, terminate, stop_server, psigpipe, cpc, stop_child,
                 cbatch, connVars, pipeVars, share_mem, envVars, deaf, heardSelf>>

(* Too many users, or fork fails: the connection is closed. *)
TurnAway ==
  /\ Handling(Listener)
  /\ backlog > 0 /\ backlog' = backlog - 1
  /\ UNCHANGED <<listenEdge, tableVars, ppc, terminate, stop_server, psigpipe, proc,
                 childVars, connVars, pipeVars, share_mem, envVars, ghostVars>>

(* Variant: the user that moves keeps its old slot in sub_process. *)
RemoveUserForgetful(table, pid) ==
  LET del_user == table.sub[pid]
      sub == [table.sub EXCEPT ![pid] = -1]
  IN  IF del_user < 0 \/ del_user > USER_LIMIT THEN [table EXCEPT !.sub = sub]
      ELSE [users |-> [table.users EXCEPT ![del_user] = table.users[table.count - 1],
                                          ![table.count - 1] = Nobody],
            sub |-> sub, count |-> table.count - 1]

(* The last user moves into the slot of the one whose child has ended; the  *)
(* copy that stays behind is never read.                                    *)
RemoveUser(table, pid) ==
  LET del_user == table.sub[pid]
      sub == [table.sub EXCEPT ![pid] = -1]
      last == table.users[table.count - 1]
  IN  IF del_user < 0 \/ del_user > USER_LIMIT THEN [table EXCEPT !.sub = sub]
      ELSE [users |-> [table.users EXCEPT ![del_user] = last, ![table.count - 1] = Nobody],
            sub |-> [sub EXCEPT ![last] = del_user], count |-> table.count - 1]

(* Variant: waitpid is called once per SIGCHLD. *)
ReapOne(order, table) ==
  IF order = <<>> THEN [gone |-> {}, table |-> table]
  ELSE [gone |-> {Head(order)}, table |-> RemoveUser(table, Head(order))]

(* Every child that has ended is waited for, in the order waitpid finds     *)
(* them.                                                                    *)
Reap(order, table) ==
  LET after[k \in 0..Len(order)] ==
        IF k = 0 THEN table ELSE RemoveUser(after[k - 1], order[k])
  IN  [gone |-> ToSet(order), table |-> after[Len(order)]]

(* kill( pid, SIGTERM ), and what the handlers of these children do.  A new *)
(* child still has the parent's handler, and the parent's pipe until it     *)
(* closes its copy: the parent is told once more.  From then to its own     *)
(* addsig the signal is lost.  child_term_handler only sets stop_child;     *)
(* epoll_wait returns, and the child leaves its loop, if it has been called *)
(* by then.                                                                 *)
Tell(children) ==
  LET ready == {c \in children : cpc[c] \in {"wait", "handle", "exit"}}
  IN  /\ psigpipe' = IF \E c \in children : cpc[c] = "forked" THEN {"TERM"} ELSE {}
      /\ deaf' = deaf \cup {c \in children : cpc[c] = "setup"}
      /\ stop_child' = [c \in Pids |-> stop_child[c] \/ c \in ready]
      /\ \E interrupted \in SUBSET {c \in ready : cpc[c] = "wait"} :
           cpc' = [c \in Pids |-> IF c \in interrupted THEN "exit" ELSE cpc[c]]

(* The switch over the signals. *)
HandleSignals ==
  LET chld == "CHLD" \in psigpipe
      term == "TERM" \in psigpipe
      zombies == IF chld THEN {c \in Pids : proc[c] = "zombie"} ELSE {}
      tables == [users |-> users, sub |-> sub_process, count |-> user_count]
  IN  /\ Handling(SigPipe)
      /\ Tell(IF term THEN {c \in Users : Running(c)} ELSE {})
      /\ \E order \in SetToSeqs(zombies) :
           LET reaped == Reap(order, tables)
           IN  /\ users' = reaped.table.users
               /\ sub_process' = reaped.table.sub
               /\ user_count' = reaped.table.count
               /\ proc' = [c \in Pids |-> IF c \in reaped.gone THEN "none" ELSE proc[c]]
               /\ idx' = [c \in Pids |-> IF c \in reaped.gone THEN 0 ELSE idx[c]]
               /\ fromChild' = [c \in Pids |-> IF c \in reaped.gone THEN 0 ELSE fromChild[c]]
               /\ fromEdge' = [c \in Pids |-> fromEdge[c] /\ c \notin reaped.gone]
      /\ stop_server' = (stop_server \/ (user_count' = 0 /\ (term \/ (chld /\ terminate))))
      /\ terminate' = (terminate \/ (term /\ user_count' > 0))
      /\ UNCHANGED <<listenVars, ppc, cbatch, connVars, toChild, toEdge, share_mem,
                     envVars, late, shared, heardSelf>>

(* Variant: the number goes to all users. *)
PassOnToAll(c) ==
  /\ Handling(c)
  /\ IF c \in Users /\ fromChild[c] > 0
     THEN LET others == {d \in Users : Running(d)}
          IN  /\ fromChild' = [fromChild EXCEPT ![c] = @ - 1]
              /\ fromEdge' = [fromEdge EXCEPT ![c] = @ /\ (fromChild'[c] > 0 \/ ~Running(c))]
              /\ toChild' = [d \in Pids |-> IF d \in others THEN Append(toChild[d], idx[c])
                                            ELSE toChild[d]]
              /\ toEdge' = [d \in Pids |-> toEdge[d] \/ d \in others]
     ELSE UNCHANGED pipeVars
  /\ UNCHANGED <<listenVars, tableVars, ppc, terminate, stop_server, psigpipe, proc,
                 childVars, connVars, share_mem, envVars, ghostVars>>

(* One number is read from a child's pipe and sent to all other users.  The *)
(* pipe of a user that was removed in this batch is closed.                 *)
PassOn(c) ==
  /\ Handling(c)
  /\ IF c \in Users /\ fromChild[c] > 0
     THEN LET others == {d \in Users : Running(d) /\ d # c}
          IN  /\ fromChild' = [fromChild EXCEPT ![c] = @ - 1]
              /\ fromEdge' = [fromEdge EXCEPT ![c] = @ /\ (fromChild'[c] > 0 \/ ~Running(c))]
              /\ toChild' = [d \in Pids |-> IF d \in others THEN Append(toChild[d], idx[c])
                                            ELSE toChild[d]]
              /\ toEdge' = [d \in Pids |-> toEdge[d] \/ d \in others]
     ELSE UNCHANGED pipeVars
  /\ UNCHANGED <<listenVars, tableVars, ppc, terminate, stop_server, psigpipe, proc,
                 childVars, connVars, share_mem, envVars, ghostVars>>

ParentStops ==
  /\ ppc = "loop" /\ stop_server /\ batch = {}
  /\ ppc' = "stopped"
  /\ UNCHANGED <<listenVars, tableVars, terminate, stop_server, batch, psigpipe, proc,
                 childVars, connVars, pipeVars, share_mem, envVars, ghostVars>>
-----------------------------------------------------------------------------
ParentStep ==
  \/ ParentWait
  \/ TurnAway
  \/ \E p \in Pids : Accept(p) \/ PassOn(p)
  \/ HandleSignals
  \/ ParentStops

ChildStep(c) ==
  \/ ChildCloses(c) \/ ChildSetup(c) \/ ChildExits(c)
  \/ ChildWakes(c) \/ ChildReceives(c) \/ ChildForwards(c)

Next ==
  \/ ClientConnects
  \/ Terminate
  \/ ParentStep
  \/ \E c \in Pids : ChildStep(c) \/ ClientSays(c) \/ ClientCloses(c)

Spec == Init /\ [][Next]_vars

(* Processes are scheduled. *)
Fairness ==
  /\ WF_vars(ParentStep)
  /\ \A c \in Pids : WF_vars(ChildStep(c))

FairSpec == Spec /\ Fairness
-----------------------------------------------------------------------------
(* The parent's tables and its children agree: the first user_count entries *)
(* are the children that are not waited for, each once, and sub_process     *)
(* finds them, however often users leave, several at a time, and others     *)
(* move or take their process numbers.                                      *)
TablesAgree ==
  /\ user_count \in 0..USER_LIMIT
  /\ Users = {c \in Pids : proc[c] # "none"} /\ Cardinality(Users) = user_count
  /\ \A i \in 0..user_count - 1 : sub_process[users[i]] = i

(* No client is sent its own words, late as a number may be read and        *)
(* whatever its segment holds by then, but for a client whose child has had *)
(* to share its segment with the child of a user that was moved.            *)
NeverOwnWords == heardSelf \subseteq shared

(* A running child that a stop does not reach: it was forked after the stop *)
(* began, or got SIGTERM before it had its handler, or between its test of  *)
(* stop_child and its call of epoll_wait.                                   *)
Unreached ==
  \E c \in Pids : /\ Running(c)
                  /\ \/ c \in late \cup deaf
                     \/ cpc[c] = "wait" /\ stop_child[c]

(* SIGTERM ends the server: all children are told, end, are waited for, and *)
(* the parent leaves its loop; only an unreached child keeps it running.    *)
TermStopsAll == (ppc = "loop" /\ "TERM" \in psigpipe) ~> (ppc = "stopped" \/ Unreached)
=============================================================================
