------------------------------ MODULE BalancePool ------------------------------
(***************************************************************************)
(* The process pool of springsnail (processpool.h): a parent that watches  *)
(* the listening socket and tells the least busy child to accept, children *)
(* that accept and report their load, and the signals that end them.       *)
(* Everything is edge-triggered: one event stands for all that happened    *)
(* since the last one, and each handler reads once per event.              *)
(*                                                                         *)
(* Inside a child only the number of its sessions matters here; Mgr.tla    *)
(* models the rest.                                                        *)
(*                                                                         *)
(* A definition marked Variant is no part of the specification: it is what *)
(* the definition after it would be with a defect, kept to see the         *)
(* properties fail.                                                        *)
(***************************************************************************)
EXTENDS Integers, Sequences, FiniteSets, SequencesExt

CONSTANTS
  N,            \* m_process_number
  ConnCnt,      \* m_conncnt: the sessions a child can serve at a time
  MaxClients,   \* bound: how many clients connect
  MaxCrashes,   \* bound: how many children crash
  MaxTerms      \* bound: how many SIGTERM or SIGINT the parent is sent

ASSUME PoolAssumption ==
  /\ N \in 1..16                              \* MAX_PROCESS_NUMBER
  /\ ConnCnt \in Nat \ {0}
  /\ MaxClients \in Nat /\ MaxCrashes \in Nat /\ MaxTerms \in Nat

Child == 0..N-1

(* The parent's descriptors: its end of each child's pipe, and these. *)
Listener == N
SigPipe == N + 1

VARIABLES
  backlog, listenEdge,      \* connections to accept; the listener's edge
  ppc,          \* the parent: "setup", "loop", "stopped" or "killed"
  m_stop,
  m_pid,        \* per child: its pid (here the child itself), or -1
  m_busy_ratio,
  batch,        \* what the parent's last epoll_wait reported, in order
  psigs,        \* signals pending for the parent
  psigpipe, psigEdge,       \* the parent's sig_pipefd
  proc,         \* per child: "running", "zombie" or "reaped"
  cpc,          \* per child: "setup" or "loop"
  c_stop,       \* the child's m_stop
  sessions,     \* per child: how many sessions it serves
  cbatch,       \* what the child's last epoll_wait reported
  csigs,        \* SIGTERM is pending for the child
  csigpipe,     \* SIGTERM is in the child's sig_pipefd
  csigEdge,
  toChild, childEdge,       \* "accept" messages in each pipe; its edge
  toParent, parentEdge,     \* load reports in each pipe; its edge
  clients, crashes, terms,  \* how many there were so far
  merged,       \* arrivals, of a connection at the listener or of a message
                \* in a child's pipe, that found an event pending there
  lost,         \* messages sent to a child that is gone, or died unread
  failed        \* accepts that failed although a connection waited

listenVars == <<backlog, listenEdge>>
parentVars == <<ppc, m_stop, m_pid, m_busy_ratio, batch>>
psigVars == <<psigs, psigpipe, psigEdge>>
childVars == <<cpc, c_stop, sessions, cbatch>>
csigVars == <<csigs, csigpipe, csigEdge>>
pipeVars == <<toChild, childEdge, toParent, parentEdge>>
envVars == <<clients, crashes, terms>>
ghostVars == <<merged, lost, failed>>
vars == <<listenVars, parentVars, psigVars, proc, childVars, csigVars, pipeVars,
          envVars, ghostVars>>

(* The constructor has made the pipes and forked all children. *)
Init ==
  /\ backlog = 0 /\ listenEdge = FALSE
  /\ ppc = "setup"
  /\ m_stop = FALSE
  /\ m_pid = [c \in Child |-> c]
  /\ m_busy_ratio = [c \in Child |-> 0]
  /\ batch = <<>>
  /\ psigs = {} /\ psigpipe = <<>> /\ psigEdge = FALSE
  /\ proc = [c \in Child |-> "running"]
  /\ cpc = [c \in Child |-> "setup"]
  /\ c_stop = [c \in Child |-> FALSE]
  /\ sessions = [c \in Child |-> 0]
  /\ cbatch = [c \in Child |-> {}]
  /\ csigs = [c \in Child |-> FALSE]
  /\ csigpipe = [c \in Child |-> FALSE]
  /\ csigEdge = [c \in Child |-> FALSE]
  /\ toChild = [c \in Child |-> 0]
  /\ childEdge = [c \in Child |-> FALSE]
  /\ toParent = [c \in Child |-> <<>>]
  /\ parentEdge = [c \in Child |-> FALSE]
  /\ clients = 0 /\ crashes = 0 /\ terms = 0
  /\ merged = 0 /\ lost = 0 /\ failed = 0
-----------------------------------------------------------------------------
(* Clients and the operator. *)

ClientConnects ==
  /\ clients < MaxClients
  /\ clients' = clients + 1
  /\ backlog' = backlog + 1
  /\ listenEdge' = TRUE
  /\ merged' = IF listenEdge THEN merged + 1 ELSE merged
  /\ UNCHANGED <<parentVars, psigVars, proc, childVars, csigVars, pipeVars, crashes,
                 terms, lost, failed>>

(* SIGTERM or SIGINT before addsig ends the parent at once. *)
Terminate ==
  /\ terms < MaxTerms
  /\ ppc \in {"setup", "loop"}
  /\ terms' = terms + 1
  /\ IF ppc = "setup"
     THEN ppc' = "killed" /\ UNCHANGED psigs
     ELSE psigs' = psigs \cup {"TERM"} /\ UNCHANGED ppc
  /\ UNCHANGED <<listenVars, m_stop, m_pid, m_busy_ratio, batch, psigpipe, psigEdge,
                 proc, childVars, csigVars, pipeVars, clients, crashes, ghostVars>>
-----------------------------------------------------------------------------
(* sig_handler writes one byte; a signal that is pending twice is delivered *)
(* once.  Without the handler SIGCHLD is discarded.                         *)
Deliver(sig) ==
  /\ ppc = "loop"
  /\ sig \in psigs
  /\ psigs' = psigs \ {sig}
  /\ psigpipe' = Append(psigpipe, sig)
  /\ psigEdge' = TRUE
  /\ UNCHANGED <<listenVars, parentVars, proc, childVars, csigVars, pipeVars, envVars,
                 ghostVars>>

DeliverToChild(c) ==
  /\ proc[c] = "running" /\ cpc[c] = "loop"
  /\ csigs[c]
  /\ csigs' = [csigs EXCEPT ![c] = FALSE]
  /\ csigpipe' = [csigpipe EXCEPT ![c] = TRUE]
  /\ csigEdge' = [csigEdge EXCEPT ![c] = TRUE]
  /\ UNCHANGED <<listenVars, parentVars, psigVars, proc, childVars, pipeVars, envVars,
                 ghostVars>>

(* The child is gone: the kernel closes its end of the pipe (an event for   *)
(* the parent), drops what it had not read and sends SIGCHLD.               *)
Dies(c) ==
  /\ proc' = [proc EXCEPT ![c] = "zombie"]
  /\ psigs' = IF ppc = "loop" THEN psigs \cup {"CHLD"} ELSE psigs
  /\ parentEdge' = [parentEdge EXCEPT ![c] = TRUE]
  /\ lost' = lost + toChild[c]
  /\ toChild' = [toChild EXCEPT ![c] = 0]
  /\ sessions' = [sessions EXCEPT ![c] = 0]
  /\ cbatch' = [cbatch EXCEPT ![c] = {}]
  /\ UNCHANGED <<listenVars, parentVars, psigpipe, psigEdge, cpc, c_stop, csigVars,
                 childEdge, toParent, clients, terms, merged, failed>>

Crash(c) ==
  /\ proc[c] = "running"
  /\ crashes < MaxCrashes
  /\ crashes' = crashes + 1
  /\ Dies(c)

(* SIGTERM that comes before the child's addsig has its default effect. *)
KilledEarly(c) ==
  /\ proc[c] = "running" /\ cpc[c] = "setup"
  /\ csigs[c]
  /\ Dies(c)
  /\ UNCHANGED crashes
-----------------------------------------------------------------------------
(* The child: run_child. *)

InLoop(c) == proc[c] = "running" /\ cpc[c] = "loop"

(* setup_sig_pipe, and add_read_fd on the pipe. *)
ChildSetup(c) ==
  /\ proc[c] = "running" /\ cpc[c] = "setup" /\ ~csigs[c]
  /\ cpc' = [cpc EXCEPT ![c] = "loop"]
  /\ childEdge' = [childEdge EXCEPT ![c] = toChild[c] > 0]
  /\ UNCHANGED <<listenVars, parentVars, psigVars, proc, c_stop, sessions, cbatch,
                 csigVars, toChild, toParent, parentEdge, envVars, ghostVars>>

ChildWait(c) ==
  LET ready == (IF childEdge[c] /\ toChild[c] > 0 THEN {"pipe"} ELSE {})
                 \cup (IF csigEdge[c] THEN {"sig"} ELSE {})
  IN  /\ InLoop(c) /\ ~c_stop[c] /\ cbatch[c] = {}
      /\ ready # {}
      /\ cbatch' = [cbatch EXCEPT ![c] = ready]
      /\ childEdge' = [childEdge EXCEPT ![c] = FALSE]
      /\ csigEdge' = [csigEdge EXCEPT ![c] = FALSE]
      /\ UNCHANGED <<listenVars, parentVars, psigVars, proc, cpc, c_stop, sessions,
                     csigs, csigpipe, toChild, toParent, parentEdge, envVars,
                     ghostVars>>

(* Variant: the size before the change. *)
NotifyEarly(c) ==
  /\ toParent' = [toParent EXCEPT ![c] = Append(@, (2 * sessions[c]) % 256)]
  /\ parentEdge' = [parentEdge EXCEPT ![c] = TRUE]

(* notify_parent_busy_ratio: one byte, the size of m_used, which has two    *)
(* entries per session.                                                     *)
Notify(c) ==
  /\ toParent' = [toParent EXCEPT ![c] = Append(@, (2 * sessions'[c]) % 256)]
  /\ parentEdge' = [parentEdge EXCEPT ![c] = TRUE]

(* Variant: recv takes all messages that wait, and one connection is        *)
(* accepted for them.                                                       *)
ChildReadsAll(c) ==
  /\ InLoop(c) /\ "pipe" \in cbatch[c]
  /\ cbatch' = [cbatch EXCEPT ![c] = @ \ {"pipe"}]
  /\ toChild' = [toChild EXCEPT ![c] = 0]
  /\ backlog' = IF backlog > 0 THEN backlog - 1 ELSE 0
  /\ UNCHANGED <<sessions, toParent, parentEdge>>
  /\ UNCHANGED <<listenEdge, parentVars, psigVars, proc, cpc, c_stop, csigVars,
                 childEdge, envVars, ghostVars>>

(* One message is read, whatever is behind it, and one connection accepted; *)
(* it is turned away when no connection to the logical server is idle.      *)
(* When accept fails (for want of a descriptor, say, or because no          *)
(* connection waits) the child goes on, and the message is gone.            *)
ChildAccepts(c) ==
  /\ InLoop(c) /\ "pipe" \in cbatch[c]
  /\ cbatch' = [cbatch EXCEPT ![c] = @ \ {"pipe"}]
  /\ toChild' = [toChild EXCEPT ![c] = @ - 1]
  /\ \/ /\ backlog > 0 /\ sessions[c] < ConnCnt
        /\ backlog' = backlog - 1
        /\ sessions' = [sessions EXCEPT ![c] = @ + 1]
        /\ Notify(c)
        /\ UNCHANGED failed
     \/ /\ backlog > 0
        /\ backlog' = backlog - 1
        /\ UNCHANGED <<sessions, toParent, parentEdge, failed>>
     \/ /\ failed' = IF backlog > 0 THEN failed + 1 ELSE failed
        /\ UNCHANGED <<backlog, sessions, toParent, parentEdge>>
  /\ UNCHANGED <<listenEdge, parentVars, psigVars, proc, cpc, c_stop, csigVars,
                 childEdge, envVars, merged, lost>>

(* A session ends. *)
ChildFrees(c) ==
  /\ InLoop(c) /\ ~c_stop[c]
  /\ sessions[c] > 0
  /\ sessions' = [sessions EXCEPT ![c] = @ - 1]
  /\ Notify(c)
  /\ UNCHANGED <<listenVars, parentVars, psigVars, proc, cpc, c_stop, cbatch, csigVars,
                 toChild, childEdge, envVars, ghostVars>>

ChildSignalled(c) ==
  /\ InLoop(c) /\ "sig" \in cbatch[c]
  /\ cbatch' = [cbatch EXCEPT ![c] = @ \ {"sig"}]
  /\ csigpipe' = [csigpipe EXCEPT ![c] = FALSE]
  /\ c_stop' = [c_stop EXCEPT ![c] = @ \/ csigpipe[c]]
  /\ UNCHANGED <<listenVars, parentVars, psigVars, proc, cpc, sessions, csigs,
                 csigEdge, pipeVars, envVars, ghostVars>>

ChildExits(c) ==
  /\ InLoop(c) /\ c_stop[c] /\ cbatch[c] = {}
  /\ Dies(c)
  /\ UNCHANGED crashes
-----------------------------------------------------------------------------
(* The parent: run_parent. *)

ParentSetup ==
  /\ ppc = "setup"
  /\ ppc' = "loop"
  /\ UNCHANGED <<listenVars, m_stop, m_pid, m_busy_ratio, batch, psigVars, proc,
                 childVars, csigVars, pipeVars, envVars, ghostVars>>

(* The parent's ends of the pipes that are still open. *)
Pipes == {c \in Child : m_pid[c] # -1}

ParentWait ==
  LET fired == {c \in Pipes : parentEdge[c] /\ (toParent[c] # <<>> \/ proc[c] # "running")}
                 \cup (IF listenEdge /\ backlog > 0 THEN {Listener} ELSE {})
                 \cup (IF psigEdge THEN {SigPipe} ELSE {})
  IN  /\ ppc = "loop" /\ ~m_stop /\ batch = <<>>
      /\ fired # {}
      /\ \E order \in SetToSeqs(fired) : batch' = order
      /\ parentEdge' = [c \in Child |-> parentEdge[c] /\ c \notin fired]
      /\ listenEdge' = (listenEdge /\ Listener \notin fired)
      /\ psigEdge' = FALSE
      /\ UNCHANGED <<backlog, ppc, m_stop, m_pid, m_busy_ratio, psigs, psigpipe, proc,
                     childVars, csigVars, toChild, childEdge, toParent, envVars,
                     ghostVars>>

Handling(source) ==
  /\ ppc = "loop" /\ batch # <<>>
  /\ Head(batch) = source
  /\ batch' = Tail(batch)

(* The first child with the smallest ratio; whether it lives is not asked. *)
get_most_free_srv ==
  CHOOSE c \in Child :
    /\ \A d \in Child : m_busy_ratio[c] <= m_busy_ratio[d]
    /\ \A d \in 0..c-1 : m_busy_ratio[c] < m_busy_ratio[d]

(* The children that have yet to be told of a message in their pipes: by an *)
(* event that is pending, or by the one that add_read_fd will find.         *)
Announced == {c \in Child : toChild[c] > 0 /\ (childEdge[c] \/ cpc[c] = "setup")}

(* One more message is an event of its own only if none is pending.         *)
Dispatch ==
  /\ Handling(Listener)
  /\ LET idx == get_most_free_srv
     IN  IF m_pid[idx] # -1 /\ proc[idx] = "running"
         THEN /\ toChild' = [toChild EXCEPT ![idx] = @ + 1]
              /\ childEdge' = [childEdge EXCEPT ![idx] = cpc[idx] = "loop"]
              /\ merged' = IF idx \in Announced THEN merged + 1 ELSE merged
              /\ UNCHANGED lost
         ELSE lost' = lost + 1 /\ UNCHANGED <<toChild, childEdge, merged>>
  /\ UNCHANGED <<listenVars, ppc, m_stop, m_pid, m_busy_ratio, psigVars, proc,
                 childVars, csigVars, toParent, parentEdge, envVars, failed>>

(* recv of an int: up to four reports at once, the first the lowest byte    *)
(* and the fourth the one with the sign.                                    *)
Taken(c) == IF Len(toParent[c]) < 4 THEN Len(toParent[c]) ELSE 4

AsInt(bytes) ==
  LET byte(i) == IF i \in DOMAIN bytes THEN bytes[i] ELSE 0
      top == IF byte(4) < 128 THEN byte(4) ELSE byte(4) - 256
  IN  byte(1) + 256 * byte(2) + 65536 * byte(3) + 16777216 * top

ReadRatio(c) ==
  /\ Handling(c)
  /\ IF m_pid[c] # -1 /\ Taken(c) > 0
     THEN /\ m_busy_ratio' =
               [m_busy_ratio EXCEPT ![c] = AsInt(SubSeq(toParent[c], 1, Taken(c)))]
          /\ toParent' =
               [toParent EXCEPT ![c] = SubSeq(@, Taken(c) + 1, Len(@))]
     ELSE UNCHANGED <<m_busy_ratio, toParent>>
  /\ UNCHANGED <<listenVars, ppc, m_stop, m_pid, psigVars, proc, childVars, csigVars,
                 toChild, childEdge, parentEdge, envVars, ghostVars>>

Zombies == {c \in Child : proc[c] = "zombie"}

(* Variant: waitpid is called once per SIGCHLD. *)
ReapOne ==
  LET chld == \E i \in DOMAIN psigpipe : psigpipe[i] = "CHLD"
      term == \E i \in DOMAIN psigpipe : psigpipe[i] = "TERM"
      reaped == IF chld /\ Zombies # {} THEN {CHOOSE c \in Zombies : TRUE} ELSE {}
  IN  /\ proc' = [c \in Child |-> IF c \in reaped THEN "reaped" ELSE proc[c]]
      /\ m_pid' = [c \in Child |-> IF c \in reaped THEN -1 ELSE m_pid[c]]
      /\ m_stop' = IF chld THEN \A c \in Child : m_pid'[c] = -1 ELSE m_stop
      /\ csigs' = [c \in Child |->
                     csigs[c] \/ (term /\ m_pid[c] # -1 /\ proc[c] = "running")]

(* What the switch over the signals does.  Several children may have ended  *)
(* for one SIGCHLD: waitpid is repeated.  SIGTERM is passed on to those     *)
(* that have not been waited for.                                           *)
ReapAndKill ==
  LET chld == \E i \in DOMAIN psigpipe : psigpipe[i] = "CHLD"
      term == \E i \in DOMAIN psigpipe : psigpipe[i] = "TERM"
      reaped == IF chld THEN Zombies ELSE {}
  IN  /\ proc' = [c \in Child |-> IF c \in reaped THEN "reaped" ELSE proc[c]]
      /\ m_pid' = [c \in Child |-> IF c \in reaped THEN -1 ELSE m_pid[c]]
      /\ m_stop' = IF chld THEN \A c \in Child : m_pid'[c] = -1 ELSE m_stop
      /\ csigs' = [c \in Child |->
                     csigs[c] \/ (term /\ m_pid[c] # -1 /\ proc[c] = "running")]

HandleSignals ==
  /\ Handling(SigPipe)
  /\ ReapAndKill
  /\ psigpipe' = <<>>
  /\ UNCHANGED <<listenVars, ppc, m_busy_ratio, psigs, psigEdge, childVars, csigpipe,
                 csigEdge, pipeVars, envVars, ghostVars>>

ParentStops ==
  /\ ppc = "loop" /\ m_stop /\ batch = <<>>
  /\ ppc' = "stopped"
  /\ UNCHANGED <<listenVars, m_stop, m_pid, m_busy_ratio, batch, psigVars, proc,
                 childVars, csigVars, pipeVars, envVars, ghostVars>>
-----------------------------------------------------------------------------
ParentStep ==
  \/ ParentSetup
  \/ ParentWait
  \/ Dispatch
  \/ \E c \in Child : ReadRatio(c)
  \/ HandleSignals
  \/ ParentStops

ChildStep(c) ==
  \/ ChildSetup(c)
  \/ ChildWait(c)
  \/ ChildAccepts(c)
  \/ ChildSignalled(c)
  \/ ChildExits(c)

Kernel ==
  \/ \E sig \in {"TERM", "CHLD"} : Deliver(sig)
  \/ \E c \in Child : DeliverToChild(c) \/ KilledEarly(c)

Next ==
  \/ ClientConnects
  \/ Terminate
  \/ Kernel
  \/ ParentStep
  \/ \E c \in Child : ChildStep(c) \/ ChildFrees(c) \/ Crash(c)

Spec == Init /\ [][Next]_vars

(* Processes are scheduled and signals delivered. *)
Fairness ==
  /\ WF_vars(ParentStep)
  /\ \A c \in Child : WF_vars(ChildStep(c))
  /\ WF_vars(Kernel)

FairSpec == Spec /\ Fairness
-----------------------------------------------------------------------------
(* The children that will read a message for an event they have.            *)
Reading == {c \in Child : "pipe" \in cbatch[c]}

(* Every connection that waits to be accepted is accounted for: its event   *)
(* is pending or in the parent's batch, or an event that announces a message*)
(* to a live child is, and the child accepts one for it.  The connections   *)
(* beyond these are no more than the events that were merged with earlier   *)
(* ones, at the listener or in a child's pipe, the messages that a child    *)
(* has not lived to read, and the accepts that failed: this is how many     *)
(* connections may be left with nobody to look at them.                     *)
BacklogAccounted ==
  backlog <= (IF listenEdge THEN 1 ELSE 0)
             + (IF Listener \in ToSet(batch) THEN 1 ELSE 0)
             + Cardinality(Announced) + Cardinality(Reading)
             + merged + lost + failed

(* The parent never takes a child for freer than it is: when it has read    *)
(* all its reports the ratio is at least the child's load, even where recv  *)
(* has taken several reports for one number.  A child of 64 sessions or     *)
(* more could be: its reports are bytes of 128 and above.                   *)
NeverUnderestimated ==
  \A c \in Child :
    proc[c] = "running" /\ toParent[c] = <<>> => 2 * sessions[c] <= m_busy_ratio[c]

(* A SIGTERM the parent gets while a child lives ends the whole pool: every *)
(* child stops, is reaped, and the parent leaves its loop, whichever        *)
(* children crash meanwhile and however the signals are merged.             *)
TermStopsAll ==
  (ppc = "loop" /\ "TERM" \in psigs /\ \E c \in Child : proc[c] = "running")
    ~> (ppc = "stopped" /\ \A c \in Child : proc[c] = "reaped")
=============================================================================
