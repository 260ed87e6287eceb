----------------------------- MODULE ProcessPool -----------------------------
(***************************************************************************)
(* Two process pools of the same design: the template of 15-1processpool.h *)
(* and the CGI server of 15-2pool_cgi.cpp.  A parent watches the listening *)
(* socket and tells its children, in turn, to accept; SIGTERM or SIGINT to *)
(* the parent ends them all.  The pools differ in whom the parent tells,   *)
(* in what SIGTERM does inside a child and in what it is sent to.          *)
(*                                                                         *)
(* A child's sessions are a number here, and what a client asks for is     *)
(* left out: only whether the session goes on matters.  The byte of a      *)
(* signal stays in the pipe until its event is handled, so a pipe that has *)
(* bytes and an event for them are the same; and the pipe is a set, for a  *)
(* second byte of a signal, or another order, makes no difference.         *)
(*                                                                         *)
(* A definition marked Variant is no part of the specification: it is what *)
(* the definition after it would be with a defect, kept to see the         *)
(* properties fail.                                                        *)
(***************************************************************************)
EXTENDS Integers, Sequences, FiniteSets, SequencesExt

CONSTANTS
  N,            \* m_process_number, PROCESS_COUNT
  MaxClients,   \* bound: how many clients connect
  MaxCrashes,   \* bound: how many children crash
  MaxTerms      \* bound: how many SIGTERM or SIGINT the parent is sent

ProcessPoolAssumption ==
  /\ N \in 1..16                              \* MAX_PROCESS_NUMBER
  /\ MaxClients \in Nat /\ MaxCrashes \in Nat /\ MaxTerms \in Nat

Child == 0..N-1
Listener == "listenfd"
SigPipe == "sig_pipefd"

VARIABLES
  program,      \* which of the two programs: "template" or "cgi"
  backlog, listenEdge,      \* connections to accept; the listener's edge
  ppc,          \* the parent: "setup", "loop", "stopped" or "killed"
  m_stop,
  m_pid,        \* per child: its pid (here the child itself), or -1
  sub_process_counter,
  batch,        \* what the parent's last epoll_wait reported, in order
  psigs, psigpipe,          \* signals pending for the parent; in its pipe
  proc,         \* per child: "running", "zombie" or "reaped"
  cpc,          \* per child: "setup", or in its loop: "test", "wait", "handle"
  c_stop,       \* the child's m_stop or stop_child
  cbatch,       \* what the child's last epoll_wait reported
  csigs,        \* SIGTERM is pending for the child
  csigpipe,     \* SIGTERM is in the child's pipe (the template's)
  toChild, childEdge,       \* "accept" messages in each pipe; its edge
  sessions,     \* per child: how many sessions it serves
  cgis,         \* per child: the CGI processes it has started
  clients, crashes, terms,  \* how many there were so far
  sent          \* per child: how many connections it was told of

listenVars == <<backlog, listenEdge>>
parentVars == <<ppc, m_stop, m_pid, sub_process_counter, batch>>
psigVars == <<psigs, psigpipe>>
childVars == <<cpc, c_stop, cbatch>>
csigVars == <<csigs, csigpipe>>
pipeVars == <<toChild, childEdge>>
sessionVars == <<sessions, cgis>>
envVars == <<clients, crashes, terms>>
vars == <<program, listenVars, parentVars, psigVars, proc, childVars, csigVars,
          pipeVars, sessionVars, envVars, sent>>

cgi == program = "cgi"

(* The pipes are made and the children forked.  The template insists that  *)
(* every fork succeeds; the CGI server does without a child.               *)
Init ==
  /\ program \in {"template", "cgi"}
  /\ \E forked \in SUBSET Child :
       /\ cgi \/ forked = Child
       /\ m_pid = [c \in Child |-> IF c \in forked THEN c ELSE -1]
       /\ proc = [c \in Child |-> IF c \in forked THEN "running" ELSE "reaped"]
  /\ backlog = 0 /\ listenEdge = FALSE
  /\ ppc = "setup" /\ m_stop = FALSE /\ sub_process_counter = 0 /\ batch = <<>>
  /\ psigs = {} /\ psigpipe = {}
  /\ cpc = [c \in Child |-> "setup"]
  /\ c_stop = [c \in Child |-> FALSE]
  /\ cbatch = [c \in Child |-> {}]
  /\ csigs = [c \in Child |-> FALSE] /\ csigpipe = [c \in Child |-> FALSE]
  /\ toChild = [c \in Child |-> 0] /\ childEdge = [c \in Child |-> FALSE]
  /\ sessions = [c \in Child |-> 0] /\ cgis = [c \in Child |-> 0]
  /\ clients = 0 /\ crashes = 0 /\ terms = 0
  /\ sent = [c \in Child |-> 0]
-----------------------------------------------------------------------------
(* Clients, the operator and the kernel. *)

ClientConnects ==
  /\ clients < MaxClients
  /\ clients' = clients + 1
  /\ backlog' = backlog + 1
  /\ listenEdge' = TRUE
  /\ UNCHANGED <<program, parentVars, psigVars, proc, childVars, csigVars, pipeVars,
                 sessionVars, crashes, terms, sent>>

(* SIGTERM or SIGINT before addsig ends the parent at once. *)
Terminate ==
  /\ terms < MaxTerms
  /\ ppc \in {"setup", "loop"}
  /\ terms' = terms + 1
  /\ IF ppc = "setup"
     THEN ppc' = "killed" /\ UNCHANGED psigs
     ELSE psigs' = psigs \cup {"TERM"} /\ UNCHANGED ppc
  /\ UNCHANGED <<program, listenVars, m_stop, m_pid, sub_process_counter, batch,
                 psigpipe, proc, childVars, csigVars, pipeVars, sessionVars, clients,
                 crashes, sent>>

(* sig_handler in the parent: one byte for a signal, however often it came. *)
Deliver(sig) ==
  /\ ppc = "loop" /\ sig \in psigs
  /\ psigs' = psigs \ {sig}
  /\ psigpipe' = psigpipe \cup {sig}
  /\ UNCHANGED <<program, listenVars, parentVars, proc, childVars, csigVars, pipeVars,
                 sessionVars, envVars, sent>>

(* A process ends: the kernel closes its descriptors and sends SIGCHLD,     *)
(* which is discarded while the parent has no handler.  What the process    *)
(* had in memory is forgotten.                                              *)
Dies(c) ==
  /\ proc' = [proc EXCEPT ![c] = "zombie"]
  /\ psigs' = IF ppc = "loop" THEN psigs \cup {"CHLD"} ELSE psigs
  /\ toChild' = [toChild EXCEPT ![c] = 0]
  /\ childEdge' = [childEdge EXCEPT ![c] = FALSE]
  /\ cbatch' = [cbatch EXCEPT ![c] = {}]
  /\ csigs' = [csigs EXCEPT ![c] = FALSE]
  /\ csigpipe' = [csigpipe EXCEPT ![c] = FALSE]
  /\ sessions' = [sessions EXCEPT ![c] = 0]
  /\ cgis' = [cgis EXCEPT ![c] = 0]
  /\ cpc' = [cpc EXCEPT ![c] = "setup"]
  /\ c_stop' = [c_stop EXCEPT ![c] = FALSE]
  /\ UNCHANGED <<program, listenVars, parentVars, psigpipe, clients, terms, sent>>

Crash(c) ==
  /\ proc[c] = "running"
  /\ crashes < MaxCrashes
  /\ crashes' = crashes + 1
  /\ Dies(c)
-----------------------------------------------------------------------------
(* The child: run_child. *)

(* A signal handler has run: epoll_wait returns, if it had been called.     *)
Interrupt(c) ==
  \/ UNCHANGED cpc
  \/ cpc[c] = "wait" /\ cpc' = [cpc EXCEPT ![c] = "test"]

(* SIGTERM in a child.  The template's handler writes to a pipe that the    *)
(* loop watches; the CGI server's sets stop_child and no more.  Before      *)
(* addsig the child just ends.                                              *)
DeliverToChild(c) ==
  /\ proc[c] = "running" /\ csigs[c]
  /\ \/ /\ cpc[c] = "setup"
        /\ Dies(c)
        /\ UNCHANGED crashes
     \/ /\ cpc[c] # "setup"
        /\ csigs' = [csigs EXCEPT ![c] = FALSE]
        /\ IF cgi
           THEN c_stop' = [c_stop EXCEPT ![c] = TRUE] /\ UNCHANGED csigpipe
           ELSE csigpipe' = [csigpipe EXCEPT ![c] = TRUE] /\ UNCHANGED c_stop
        /\ Interrupt(c)
        /\ UNCHANGED <<program, listenVars, parentVars, psigVars, proc, cbatch,
                       pipeVars, sessionVars, envVars, sent>>

(* A CGI process has ended: child_child_handler. *)
CgiEnds(c) ==
  /\ proc[c] = "running" /\ cgis[c] > 0
  /\ cgis' = [cgis EXCEPT ![c] = @ - 1]
  /\ Interrupt(c)
  /\ UNCHANGED <<program, listenVars, parentVars, psigVars, proc, c_stop, cbatch,
                 csigVars, pipeVars, sessions, envVars, sent>>

(* The epoll instance, addfd on the pipe, and the handlers. *)
ChildSetup(c) ==
  /\ proc[c] = "running" /\ cpc[c] = "setup" /\ ~csigs[c]
  /\ cpc' = [cpc EXCEPT ![c] = "test"]
  /\ childEdge' = [childEdge EXCEPT ![c] = toChild[c] > 0]
  /\ UNCHANGED <<program, listenVars, parentVars, psigVars, proc, c_stop, cbatch,
                 csigVars, toChild, sessionVars, envVars, sent>>

(* while( !stop ): the child leaves, or is about to call epoll_wait or in   *)
(* it, which is "wait".                                                     *)
ChildTests(c) ==
  /\ proc[c] = "running" /\ cpc[c] = "test"
  /\ \/ /\ c_stop[c]
        /\ Dies(c)
        /\ UNCHANGED crashes
     \/ /\ ~c_stop[c]
        /\ cpc' = [cpc EXCEPT ![c] = "wait"]
        /\ UNCHANGED <<program, listenVars, parentVars, psigVars, proc, c_stop, cbatch,
                       csigVars, pipeVars, sessionVars, envVars, sent>>

(* The other end of the child's pipe is closed: the parent was killed, and  *)
(* so are the younger children, which inherited copies of that end.  To the *)
(* template this says nothing.                                              *)
EndOfPipe(c) ==
  cgi /\ ppc = "killed" /\ \A d \in Child : d > c => proc[d] # "running"

(* epoll_wait returns; events are edge-triggered and sockets is what it     *)
(* reports of the sessions.                                                 *)
EpollReturns(c, sockets) ==
  LET ready == sockets
                 \cup (IF (childEdge[c] /\ toChild[c] > 0) \/ EndOfPipe(c)
                       THEN {"pipe"} ELSE {})
                 \cup (IF csigpipe[c] THEN {"sig"} ELSE {})
  IN  /\ proc[c] = "running" /\ cpc[c] = "wait"
      /\ ready # {}
      /\ cbatch' = [cbatch EXCEPT ![c] = ready]
      /\ cpc' = [cpc EXCEPT ![c] = "handle"]
      /\ childEdge' = [childEdge EXCEPT ![c] = FALSE]
      /\ UNCHANGED <<program, listenVars, parentVars, psigVars, proc, c_stop, csigVars,
                     toChild, sessionVars, envVars, sent>>

ChildWakes(c) == EpollReturns(c, {})

(* A client of the child has sent something or closed. *)
ClientActs(c) == sessions[c] > 0 /\ EpollReturns(c, {"client"})

ChildHandles(c, source) ==
  /\ proc[c] = "running" /\ cpc[c] = "handle"
  /\ source \in cbatch[c]
  /\ cbatch' = [cbatch EXCEPT ![c] = @ \ {source}]
  /\ cpc' = [cpc EXCEPT ![c] = IF cbatch'[c] = {} THEN "test" ELSE "handle"]

(* One message is read and one connection accepted, if there is one; the    *)
(* end of the pipe stops the CGI server's child.                            *)
ChildAccepts(c) ==
  /\ ChildHandles(c, "pipe")
  /\ \/ /\ toChild[c] > 0
        /\ toChild' = [toChild EXCEPT ![c] = @ - 1]
        /\ IF backlog > 0
           THEN /\ backlog' = backlog - 1
                /\ sessions' = [sessions EXCEPT ![c] = @ + 1]
           ELSE UNCHANGED <<backlog, sessions>>
        /\ UNCHANGED c_stop
     \/ /\ toChild[c] = 0
        /\ c_stop' = [c_stop EXCEPT ![c] = TRUE]
        /\ UNCHANGED <<toChild, backlog, sessions>>
  /\ UNCHANGED <<program, listenEdge, parentVars, psigVars, proc, csigVars, childEdge,
                 cgis, envVars, sent>>

ChildSignalled(c) ==
  /\ ChildHandles(c, "sig")
  /\ csigpipe' = [csigpipe EXCEPT ![c] = FALSE]
  /\ c_stop' = [c_stop EXCEPT ![c] = TRUE]
  /\ UNCHANGED <<program, listenVars, parentVars, psigVars, proc, csigs, pipeVars,
                 sessionVars, envVars, sent>>

(* process() of the template's T, or the CGI server's reading: the session  *)
(* goes on, or ends, in the CGI server with or without a CGI process.       *)
ChildServes(c) ==
  /\ ChildHandles(c, "client")
  /\ \/ UNCHANGED <<sessions, cgis>>
     \/ /\ sessions' = [sessions EXCEPT ![c] = @ - 1]
        /\ \/ UNCHANGED cgis
           \/ cgi /\ cgis' = [cgis EXCEPT ![c] = @ + 1]
  /\ UNCHANGED <<program, listenVars, parentVars, psigVars, proc, c_stop, csigVars,
                 pipeVars, envVars, sent>>
-----------------------------------------------------------------------------
(* The parent: run_parent, and main of the CGI server. *)

(* The handlers are installed and the listening socket is watched. *)
ParentSetup ==
  /\ ppc = "setup"
  /\ ppc' = "loop"
  /\ UNCHANGED <<program, listenVars, m_stop, m_pid, sub_process_counter, batch,
                 psigVars, proc, childVars, csigVars, pipeVars, sessionVars, envVars,
                 sent>>

ParentWait ==
  LET ready == (IF listenEdge /\ backlog > 0 THEN {Listener} ELSE {})
                 \cup (IF psigpipe # {} THEN {SigPipe} ELSE {})
  IN  /\ ppc = "loop" /\ ~m_stop /\ batch = <<>>
      /\ ready # {}
      /\ \E order \in SetToSeqs(ready) : batch' = order
      /\ listenEdge' = FALSE
      /\ UNCHANGED <<program, backlog, ppc, m_stop, m_pid, sub_process_counter,
                     psigVars, proc, childVars, csigVars, pipeVars, sessionVars, envVars,
                     sent>>

Handling(source) == ppc = "loop" /\ batch # <<>> /\ Head(batch) = source

(* The first child from sub_process_counter on that has a pid. *)
FirstLive ==
  LET at(k) == (sub_process_counter + k) % N
  IN  CHOOSE i \in {at(k) : k \in Child} :
        m_pid[i] # -1 /\ \A k \in Child :
          (\A j \in 0..k : at(j) # i) => m_pid[at(k)] = -1

(* A message sent to a child that is gone is lost. *)
Send(i) ==
  /\ sent' = [sent EXCEPT ![i] = @ + 1]
  /\ IF m_pid[i] # -1 /\ proc[i] = "running"
     THEN /\ toChild' = [toChild EXCEPT ![i] = @ + 1]
          /\ childEdge' = [childEdge EXCEPT ![i] = cpc[i] # "setup"]
     ELSE UNCHANGED pipeVars

(* Variant: the counter goes on by one, as in the line that is commented   *)
(* out beside it.                                                          *)
DispatchCounting ==
  /\ Handling(Listener)
  /\ \/ /\ ~cgi /\ \A c \in Child : m_pid[c] = -1
        /\ m_stop' = TRUE /\ batch' = <<>>
        /\ UNCHANGED <<sub_process_counter, pipeVars, sent>>
     \/ /\ cgi \/ \E c \in Child : m_pid[c] # -1
        /\ Send(IF cgi THEN sub_process_counter ELSE FirstLive)
        /\ sub_process_counter' = (sub_process_counter + 1) % N
        /\ batch' = Tail(batch)
        /\ UNCHANGED m_stop
  /\ UNCHANGED <<program, listenVars, ppc, m_pid, psigVars, proc, childVars, csigVars,
                 sessionVars, envVars>>

(* A new connection.  The template passes over children that are reaped and *)
(* stops when none is left; the CGI server asks nobody.                     *)
Dispatch ==
  /\ Handling(Listener)
  /\ \/ /\ ~cgi /\ \A c \in Child : m_pid[c] = -1
        /\ m_stop' = TRUE /\ batch' = <<>>
        /\ UNCHANGED <<sub_process_counter, pipeVars, sent>>
     \/ /\ cgi \/ \E c \in Child : m_pid[c] # -1
        /\ LET i == IF cgi THEN sub_process_counter ELSE FirstLive
           IN  Send(i) /\ sub_process_counter' = (i + 1) % N
        /\ batch' = Tail(batch)
        /\ UNCHANGED m_stop
  /\ UNCHANGED <<program, listenVars, ppc, m_pid, psigVars, proc, childVars, csigVars,
                 sessionVars, envVars>>

Zombies == {c \in Child : proc[c] = "zombie"}

(* Variant: waitpid is called once per SIGCHLD. *)
ReapOne(chld) ==
  /\ proc' = IF chld /\ Zombies # {}
             THEN [proc EXCEPT ![CHOOSE c \in Zombies : TRUE] = "reaped"] ELSE proc
  /\ m_pid' = [c \in Child |-> IF proc'[c] = "reaped" THEN -1 ELSE m_pid[c]]
  /\ m_stop' = IF chld THEN \A c \in Child : m_pid'[c] = -1 ELSE m_stop

(* The case SIGCHLD: every child that has ended is waited for. *)
Reap(chld) ==
  /\ proc' = [c \in Child |-> IF chld /\ proc[c] = "zombie" THEN "reaped" ELSE proc[c]]
  /\ m_pid' = [c \in Child |-> IF proc'[c] = "reaped" THEN -1 ELSE m_pid[c]]
  /\ m_stop' = IF chld THEN \A c \in Child : m_pid'[c] = -1 ELSE m_stop

(* The switch over the signals.  SIGTERM is passed on to the children, and  *)
(* by the CGI server, for one that is reaped, to everyone else as well.     *)
HandleSignals ==
  /\ Handling(SigPipe)
  /\ batch' = Tail(batch)
  /\ Reap("CHLD" \in psigpipe)
  /\ csigs' = [c \in Child |->
                 csigs[c] \/ ("TERM" \in psigpipe /\ m_pid[c] # -1 /\ proc[c] = "running")]
  /\ psigpipe' = {}
  /\ UNCHANGED <<program, listenVars, ppc, sub_process_counter, psigs, childVars,
                 csigpipe, pipeVars, sessionVars, envVars, sent>>

ParentStops ==
  /\ ppc = "loop" /\ m_stop /\ batch = <<>>
  /\ ppc' = "stopped"
  /\ UNCHANGED <<program, listenVars, m_stop, m_pid, sub_process_counter, batch,
                 psigVars, proc, childVars, csigVars, pipeVars, sessionVars, envVars,
                 sent>>
-----------------------------------------------------------------------------
ParentStep == ParentSetup \/ ParentWait \/ Dispatch \/ HandleSignals \/ ParentStops

ChildStep(c) ==
  \/ ChildSetup(c) \/ ChildTests(c) \/ ChildWakes(c)
  \/ ChildAccepts(c) \/ ChildSignalled(c) \/ ChildServes(c)

Kernel ==
  \/ \E sig \in {"TERM", "CHLD"} : Deliver(sig)
  \/ \E c \in Child : DeliverToChild(c)

Next ==
  \/ ClientConnects
  \/ Terminate
  \/ Kernel
  \/ ParentStep
  \/ \E c \in Child : ChildStep(c) \/ ClientActs(c) \/ CgiEnds(c) \/ Crash(c)

Spec == Init /\ [][Next]_vars

(* Processes are scheduled and signals delivered. *)
Fairness ==
  /\ WF_vars(ParentStep)
  /\ \A c \in Child : WF_vars(ChildStep(c))
  /\ WF_vars(Kernel)

FairSpec == Spec /\ Fairness
-----------------------------------------------------------------------------
(* The connections are shared out evenly among the children that live:      *)
(* whichever others have died, and wherever the counter stood when they     *)
(* did, none is told of two more than another.                              *)
EvenlySpread ==
  \A c, d \in Child : m_pid[c] # -1 /\ m_pid[d] # -1 => sent[c] <= sent[d] + 1

(* A child of the CGI server that was told to stop between its test of      *)
(* stop_child and its call of epoll_wait: it sleeps until something else    *)
(* happens to it.                                                           *)
OversleptTerm == \E c \in Child : cgi /\ proc[c] = "running" /\ cpc[c] = "wait" /\ c_stop[c]

(* A SIGTERM that the parent gets while a child lives ends the whole pool,  *)
(* whichever children crash meanwhile and however signals are merged; only  *)
(* a child of the CGI server that overslept it can stand in the way.        *)
TermStopsAll ==
  (ppc = "loop" /\ "TERM" \in psigs /\ \E c \in Child : proc[c] = "running")
    ~> ((ppc = "stopped" /\ \A c \in Child : proc[c] = "reaped") \/ OversleptTerm)
=============================================================================
