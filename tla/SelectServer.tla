---------------------------- MODULE SelectServer -----------------------------
(***************************************************************************)
(* The select server of 08_select.cpp.  It keeps its descriptors twice: as *)
(* an fd_set and in an array, which it goes through after every select.    *)
(* All sockets block.  Clients and the kernel are the environment.         *)
(*                                                                         *)
(* A definition marked Variant is no part of the specification: it is what *)
(* the definition after it would be with a defect, kept to see the         *)
(* properties fail.                                                        *)
(***************************************************************************)
EXTENDS Integers, Sequences, FiniteSets

CONSTANTS
  Fd,            \* the descriptors accept may return
  Listener,
  FD_SETSIZE,    \* the length of the array
  MaxClients,    \* bound: the connections made in all
  MaxData        \* bound: the input a socket holds, in pieces

SelectServerAssumption ==
  /\ IsFiniteSet(Fd) /\ Listener \notin Fd
  /\ FD_SETSIZE \in Nat \ {0} /\ MaxClients \in Nat /\ MaxData \in Nat

VARIABLES
  anSelectFdSet,   \* the entries in use; their number is dwSelectFdCnt
  tOldSet, tReadSet,
  i,               \* the entry of the loop over the array; 0 in select
  overrun,         \* something was written behind the array
  open,            \* the descriptors of the accepted connections
  data,            \* the pieces of input that wait in each socket
  ended,           \* whether the client has closed
  backlog,         \* connections that wait to be accepted
  clients          \* how many clients have connected

loopVars == <<anSelectFdSet, tOldSet, tReadSet, i, overrun>>
kernelVars == <<open, data, ended, backlog, clients>>
vars == <<loopVars, kernelVars>>

Init ==
  /\ anSelectFdSet = <<Listener>>
  /\ tOldSet = {Listener} /\ tReadSet = {}
  /\ i = 0 /\ overrun = FALSE
  /\ open = {}
  /\ data = [fd \in Fd |-> 0] /\ ended = [fd \in Fd |-> FALSE]
  /\ backlog = 0 /\ clients = 0
-----------------------------------------------------------------------------
(* No more clients at a time than there are descriptors. *)
ClientConnects ==
  /\ clients < MaxClients /\ backlog + Cardinality(open) < Cardinality(Fd)
  /\ clients' = clients + 1 /\ backlog' = backlog + 1
  /\ UNCHANGED <<loopVars, open, data, ended>>

ClientSends(fd) ==
  /\ fd \in open /\ ~ended[fd] /\ data[fd] < MaxData
  /\ data' = [data EXCEPT ![fd] = @ + 1]
  /\ UNCHANGED <<loopVars, open, ended, backlog, clients>>

ClientCloses(fd) ==
  /\ fd \in open /\ ~ended[fd]
  /\ ended' = [ended EXCEPT ![fd] = TRUE]
  /\ UNCHANGED <<loopVars, open, data, backlog, clients>>

Readable == {fd \in open : data[fd] > 0 \/ ended[fd]}
              \cup (IF backlog > 0 THEN {Listener} ELSE {})
-----------------------------------------------------------------------------
(* Variant: what select left in the set is not looked at. *)
SelectUnread ==
  /\ i = 0 /\ ~overrun
  /\ tOldSet \cap Readable # {}
  /\ tReadSet' = tOldSet
  /\ i' = 1
  /\ UNCHANGED <<anSelectFdSet, tOldSet, overrun, kernelVars>>

Select ==
  /\ i = 0 /\ ~overrun
  /\ tOldSet \cap Readable # {}
  /\ tReadSet' = tOldSet \cap Readable
  /\ i' = 1
  /\ UNCHANGED <<anSelectFdSet, tOldSet, overrun, kernelVars>>

InLoop == i \in 1..Len(anSelectFdSet) /\ ~overrun

Entry == anSelectFdSet[i]

(* The next turn of the loop, or select again. *)
NextEntry == IF i < Len(anSelectFdSet') THEN i + 1 ELSE 0

Skip ==
  /\ InLoop /\ Entry \notin tReadSet
  /\ anSelectFdSet' = anSelectFdSet
  /\ i' = NextEntry
  /\ UNCHANGED <<tOldSet, tReadSet, overrun, kernelVars>>

(* The new descriptor is put behind the last entry, whether or not the      *)
(* array has a cell there.                                                  *)
Accept ==
  /\ InLoop /\ Entry \in tReadSet /\ Entry = Listener
  /\ backlog' = backlog - 1
  /\ \E nAcceptFd \in Fd \ open :
       /\ open' = open \cup {nAcceptFd}
       /\ tOldSet' = tOldSet \cup {nAcceptFd}
       /\ anSelectFdSet' = Append(anSelectFdSet, nAcceptFd)
  /\ overrun' = (Len(anSelectFdSet) = FD_SETSIZE)
  /\ i' = NextEntry
  /\ UNCHANGED <<tReadSet, data, ended, clients>>

Receiving == InLoop /\ Entry \in tReadSet /\ Entry # Listener

(* recv takes some of what is there, or all. *)
ReceiveData ==
  /\ Receiving /\ Entry \in open /\ data[Entry] > 0
  /\ \E k \in 1..data[Entry] : data' = [data EXCEPT ![Entry] = @ - k]
  /\ anSelectFdSet' = anSelectFdSet
  /\ i' = NextEntry
  /\ UNCHANGED <<tOldSet, tReadSet, overrun, open, ended, backlog, clients>>

(* recv would wait for a client that has neither sent anything more nor     *)
(* closed: the server is stopped here until one of these happens.           *)
Blocked == Receiving /\ Entry \in open /\ data[Entry] = 0 /\ ~ended[Entry]

(* Variant: the descriptor is closed but stays in tOldSet. *)
ReceiveEndKeeps ==
  /\ Receiving /\ (Entry \in open => data[Entry] = 0 /\ ended[Entry])
  /\ open' = open \ {Entry}
  /\ ended' = [ended EXCEPT ![Entry] = FALSE]
  /\ anSelectFdSet' = anSelectFdSet
  /\ i' = NextEntry
  /\ UNCHANGED <<tOldSet, tReadSet, overrun, data, backlog, clients>>

(* recv returns 0, or -1 of a descriptor that is closed already.  The loop  *)
(* that is to clear the entries of the descriptor compares it with the cell *)
(* behind the last entry, in which nothing was ever written but 0: no entry *)
(* changes.                                                                 *)
ReceiveEnd ==
  /\ Receiving /\ (Entry \in open => data[Entry] = 0 /\ ended[Entry])
  /\ tOldSet' = tOldSet \ {Entry}
  /\ open' = open \ {Entry}
  /\ ended' = [ended EXCEPT ![Entry] = FALSE]
  /\ anSelectFdSet' = anSelectFdSet
  /\ i' = NextEntry
  /\ UNCHANGED <<tReadSet, overrun, data, backlog, clients>>
-----------------------------------------------------------------------------
ServerStep == Select \/ Skip \/ Accept \/ ReceiveData \/ ReceiveEnd

Next ==
  \/ ClientConnects
  \/ \E fd \in Fd : ClientSends(fd) \/ ClientCloses(fd)
  \/ ServerStep

Spec == Init /\ [][Next]_vars
-----------------------------------------------------------------------------
(* Exactly the open connections are selected on, and each can be found in   *)
(* the array, however often a descriptor was closed and given out again.    *)
SessionsWatched ==
  /\ tOldSet = open \cup {Listener}
  /\ \A fd \in open : \E k \in 1..Len(anSelectFdSet) : anSelectFdSet[k] = fd

(* The server waits in recv only at a descriptor that is twice in the array *)
(* because an entry of an earlier connection was left: one recv of the      *)
(* round takes what select announced, the other finds nothing.  Otherwise   *)
(* no client can keep the server from the others.                           *)
TwiceInArray(fd) ==
  Cardinality({k \in 1..Len(anSelectFdSet) : anSelectFdSet[k] = fd}) > 1

BlocksOnlyAtDuplicate == Blocked => TwiceInArray(Entry)

(* The comment "将本地fd数组对应的fd置0" (line 127): the entries of a descriptor *)
(* that was closed are 0, so that every other entry is an open one.         *)
ClosedCleared ==
  \A k \in 1..Len(anSelectFdSet) : anSelectFdSet[k] \in open \cup {Listener, 0}
=============================================================================
