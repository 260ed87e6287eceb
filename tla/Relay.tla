-------------------------------- MODULE Relay --------------------------------
(***************************************************************************)
(* One session of the springsnail load balancer: a conn object that relays *)
(* bytes between a client socket and a server socket through two buffers,  *)
(* driven by the edge-triggered events mgr::process handles (conn.cpp,     *)
(* mgr.cpp, fdwrapper.cpp).  Mgr.tla models the pool of such objects.      *)
(*                                                                         *)
(* "clt" and "srv" index what the source keeps twice: buf["clt"] is        *)
(* m_clt_buf, the bytes read from the client that the server is to get.    *)
(* The sockets, the peers and epoll are the environment.                   *)
(*                                                                         *)
(* A definition marked Variant is no part of the specification: it is what *)
(* the definition after it would be with a defect, kept to see the         *)
(* properties fail.                                                        *)
(***************************************************************************)
EXTENDS Integers, Sequences, SequencesExt

CONSTANTS
  BUF_SIZE,     \* bytes a conn buffer holds
  SockBuf,      \* bound: bytes a socket takes before send says EAGAIN
  MsgLen,       \* bytes of a request (MsgLen["clt"]) and of an answer
  Rounds,       \* bound: how many requests, and answers, are exchanged
  LooseLen      \* bound: the bytes each of two disorderly peers writes

Side == {"clt", "srv"}

Other(s) == IF s = "clt" THEN "srv" ELSE "clt"

ASSUME RelayAssumption ==
  /\ BUF_SIZE \in Nat \ {0}
  /\ SockBuf \in Nat \ {0}
  /\ MsgLen \in [Side -> Nat \ {0}]
  /\ Rounds \in Nat
  /\ LooseLen \in Nat

VARIABLES
  orderly,       \* how the peers behave, see MayWrite; it never changes
  buf,           \* m_clt_buf, m_srv_buf
  readIdx,       \* m_clt_read_idx, m_srv_read_idx
  writeIdx,      \* m_clt_write_idx, m_srv_write_idx
  m_srv_closed,
  live,          \* the session has not been freed
  interest,      \* what each socket is registered for: "IN" or "OUT"
  edge,          \* the socket is on epoll's ready list
  batch,         \* the events of the last epoll_wait still to be handled
  sent,          \* how many bytes each peer has written
  rcvq,          \* bytes of each peer that wait in our socket
  sndq,          \* bytes we sent to each peer that it has not read
  got,           \* bytes each peer has read
  ended          \* how each peer's direction ended: "open", "fin" or "rst"

connVars == <<buf, readIdx, writeIdx, m_srv_closed, live>>
epollVars == <<interest, edge, batch>>
peerVars == <<sent, rcvq, sndq, got, ended>>
vars == <<orderly, connVars, epollVars, peerVars>>

(* The k-th byte of peer s: distinct for every peer and place. *)
Byte(s, k) == IF s = "clt" THEN k ELSE -k

Stream(s) == [k \in 1..sent[s] |-> Byte(s, k)]

(* The bytes read from s that are still to be sent to the other peer. *)
Pending(s) == SubSeq(buf[s], writeIdx[s] + 1, readIdx[s])

Room(s) == SockBuf - Len(sndq[s])

Smaller(a, b) == IF a < b THEN a ELSE b

(* pick_conn and init_clt have bound a fresh conn; both sockets were just   *)
(* added with EPOLLIN and neither peer has written.                         *)
Init ==
  /\ orderly \in BOOLEAN
  /\ buf = [s \in Side |-> [i \in 1..BUF_SIZE |-> 0]]
  /\ readIdx = [s \in Side |-> 0]
  /\ writeIdx = [s \in Side |-> 0]
  /\ m_srv_closed = FALSE
  /\ live = TRUE
  /\ interest = [s \in Side |-> "IN"]
  /\ edge = [s \in Side |-> FALSE]
  /\ batch = <<>>
  /\ sent = [s \in Side |-> 0]
  /\ rcvq = [s \in Side |-> <<>>]
  /\ sndq = [s \in Side |-> <<>>]
  /\ got = [s \in Side |-> <<>>]
  /\ ended = [s \in Side |-> "open"]
-----------------------------------------------------------------------------
(* The peers and the kernel. *)

(* Orderly peers exchange whole messages in turn: the server answers only   *)
(* when it has read the request, the client asks again only when it has     *)
(* read the answer, and nobody closes.  Others do as they like.             *)
MayWrite(s) ==
  LET read == Len(got[s]) \div MsgLen[Other(s)]   \* whole messages read
  IN  orderly =>
        sent[s] < MsgLen[s] * (IF s = "clt" THEN read + 1 ELSE read)

PeerWrites(s) ==
  /\ live
  /\ ended[s] = "open"
  /\ sent[s] < IF orderly THEN Rounds * MsgLen[s] ELSE LooseLen
  /\ MayWrite(s)
  /\ sent' = [sent EXCEPT ![s] = @ + 1]
  /\ rcvq' = [rcvq EXCEPT ![s] = Append(@, Byte(s, sent[s] + 1))]
  /\ edge' = [edge EXCEPT ![s] = @ \/ interest[s] = "IN"]
  /\ UNCHANGED <<orderly, connVars, interest, batch, sndq, got, ended>>

(* The peer reads a byte; a full send buffer that drains is an edge. *)
PeerReads(s) ==
  /\ sndq[s] # <<>>
  /\ ended[s] # "rst"
  /\ got' = [got EXCEPT ![s] = Append(@, Head(sndq[s]))]
  /\ sndq' = [sndq EXCEPT ![s] = Tail(@)]
  /\ edge' = [edge EXCEPT ![s] = @ \/ (live /\ interest[s] = "OUT" /\ Room(s) = 0)]
  /\ UNCHANGED <<orderly, connVars, interest, batch, sent, rcvq, ended>>

(* The peer ends its stream.  It may still read. *)
PeerCloses(s) ==
  /\ live
  /\ ~orderly
  /\ ended[s] = "open"
  /\ ended' = [ended EXCEPT ![s] = "fin"]
  /\ edge' = [edge EXCEPT ![s] = @ \/ interest[s] = "IN"]
  /\ UNCHANGED <<orderly, connVars, interest, batch, sent, rcvq, sndq, got>>

(* The connection is reset: what it has not read is lost, what we received  *)
(* can still be read, and the error is an event for any interest.           *)
PeerResets(s) ==
  /\ live
  /\ ~orderly
  /\ ended[s] # "rst"
  /\ ended' = [ended EXCEPT ![s] = "rst"]
  /\ sndq' = [sndq EXCEPT ![s] = <<>>]
  /\ edge' = [edge EXCEPT ![s] = TRUE]
  /\ UNCHANGED <<orderly, connVars, interest, batch, sent, rcvq, got>>

(* What epoll finds when it looks at socket s. *)
Ready(s, ev, rq, sq) ==
  \/ ended[s] = "rst"
  \/ ev = "IN" /\ (rq[s] # <<>> \/ ended[s] # "open")
  \/ ev = "OUT" /\ Len(sq[s]) < SockBuf

(* epoll_wait reports the sockets on its ready list that are still ready,   *)
(* in the order they were put there, and empties the list.                  *)
EpollWait ==
  /\ live
  /\ batch = <<>>
  /\ LET fired == {s \in Side : edge[s] /\ Ready(s, interest[s], rcvq, sndq)}
     IN  /\ fired # {}
         /\ \E order \in SetToSeqs(fired) :
              batch' = [i \in DOMAIN order |->
                          [side |-> order[i], type |-> interest[order[i]]]]
  /\ edge' = [s \in Side |-> FALSE]
  /\ UNCHANGED <<orderly, connVars, interest, peerVars>>

(* The calls of modfd in one handler: each sets the interest and puts the   *)
(* socket on the ready list if it is ready now (rq, sq: the queues after    *)
(* the handler's own recv and send).                                        *)
Modfd(mods, rq, sq) ==
  /\ interest' = [s \in Side |-> IF s \in DOMAIN mods THEN mods[s] ELSE interest[s]]
  /\ edge' = [s \in Side |-> IF s \in DOMAIN mods THEN Ready(s, mods[s], rq, sq) ELSE edge[s]]

Event(s, type) ==
  /\ live
  /\ batch # <<>>
  /\ Head(batch) = [side |-> s, type |-> type]

(* mgr::free_conn: both sockets are closed and the object is reset.  Events *)
(* of this batch that are left refer to closed sockets.                     *)
FreeConn ==
  /\ live' = FALSE
  /\ m_srv_closed' = FALSE
  /\ buf' = [s \in Side |-> [i \in 1..BUF_SIZE |-> 0]]
  /\ readIdx' = [s \in Side |-> 0]
  /\ writeIdx' = [s \in Side |-> 0]
  /\ batch' = <<>>
  /\ edge' = [s \in Side |-> FALSE]
  /\ UNCHANGED interest

Continue == batch' = Tail(batch) /\ UNCHANGED live
-----------------------------------------------------------------------------
(* Variant: one recv per event. *)
TakenOnce(s) == Smaller(1, Smaller(BUF_SIZE - readIdx[s], Len(rcvq[s])))

(* read_clt and read_srv: recv until the buffer is full, the socket is      *)
(* empty or the peer has ended.                                             *)
TakenFrom(s) == Smaller(BUF_SIZE - readIdx[s], Len(rcvq[s]))

(* Variants: a single new byte is taken for none; a full buffer is not      *)
(* reported.                                                                *)
ReadResultStrict(s) ==
  IF readIdx[s] + TakenFrom(s) >= BUF_SIZE THEN "BUFFER_FULL"
  ELSE IF ended[s] = "rst" THEN "IOERR"
  ELSE IF ended[s] = "fin" THEN "CLOSED"
  ELSE IF readIdx[s] + TakenFrom(s) > writeIdx[s] + 1 THEN "OK"
  ELSE "NOTHING"

ReadResultFullIgnored(s) ==
  IF readIdx[s] + TakenFrom(s) >= BUF_SIZE THEN "NOTHING"
  ELSE IF ended[s] = "rst" THEN "IOERR"
  ELSE IF ended[s] = "fin" THEN "CLOSED"
  ELSE IF readIdx[s] + TakenFrom(s) > writeIdx[s] THEN "OK"
  ELSE "NOTHING"

ReadResult(s) ==
  IF readIdx[s] + TakenFrom(s) >= BUF_SIZE THEN "BUFFER_FULL"
  ELSE IF ended[s] = "rst" THEN "IOERR"
  ELSE IF ended[s] = "fin" THEN "CLOSED"
  ELSE IF readIdx[s] + TakenFrom(s) > writeIdx[s] THEN "OK"
  ELSE "NOTHING"

RcvqAfterRead(s) == [rcvq EXCEPT ![s] = SubSeq(@, TakenFrom(s) + 1, Len(@))]

ReadInto(s) ==
  /\ buf' = [buf EXCEPT ![s] =
               [i \in 1..BUF_SIZE |->
                  IF i \in readIdx[s] + 1 .. readIdx[s] + TakenFrom(s)
                  THEN rcvq[s][i - readIdx[s]] ELSE @[i]]]
  /\ readIdx' = [readIdx EXCEPT ![s] = @ + TakenFrom(s)]
  /\ UNCHANGED writeIdx

(* write_clt and write_srv: send what was read from the other peer until    *)
(* none is left, the socket is full or it fails.  The result "CLOSED" (send *)
(* returns 0) does not occur for a non-empty buffer.                        *)
Source(s) == Other(s)

GivenTo(s) ==
  IF ended[s] = "rst" THEN 0 ELSE Smaller(Len(Pending(Source(s))), Room(s))

WriteResult(s) ==
  IF Len(Pending(Source(s))) = GivenTo(s) THEN "BUFFER_EMPTY"
  ELSE IF ended[s] = "rst" THEN "IOERR"
  ELSE "TRY_AGAIN"

SndqAfterWrite(s) ==
  [sndq EXCEPT ![s] = @ \o SubSeq(Pending(Source(s)), 1, GivenTo(s))]

(* Variant: the emptied buffer keeps its read index. *)
WriteKeepsReadIdx(s) ==
  LET o == Source(s)
      empty == WriteResult(s) = "BUFFER_EMPTY"
  IN  /\ writeIdx' = [writeIdx EXCEPT ![o] = IF empty THEN 0 ELSE @ + GivenTo(s)]
      /\ UNCHANGED <<buf, readIdx>>

WriteOutOf(s) ==
  LET o == Source(s)
      empty == WriteResult(s) = "BUFFER_EMPTY"
  IN  /\ writeIdx' = [writeIdx EXCEPT ![o] = IF empty THEN 0 ELSE @ + GivenTo(s)]
      /\ readIdx' = [readIdx EXCEPT ![o] = IF empty THEN 0 ELSE @]
      /\ UNCHANGED buf
-----------------------------------------------------------------------------
(* mgr::process, one action per socket and event type. *)

ReadClient ==
  /\ Event("clt", "IN")
  /\ rcvq' = RcvqAfterRead("clt")
  /\ UNCHANGED <<orderly, sent, sndq, got, ended>>
  /\ IF ReadResult("clt") \in {"IOERR", "CLOSED"} \/ m_srv_closed
     THEN FreeConn
     ELSE /\ ReadInto("clt")
          /\ IF ReadResult("clt") \in {"OK", "BUFFER_FULL"}
             THEN Modfd([s \in {"srv"} |-> "OUT"], rcvq', sndq')
             ELSE UNCHANGED <<interest, edge>>
          /\ Continue
          /\ UNCHANGED m_srv_closed

WriteClient ==
  /\ Event("clt", "OUT")
  /\ sndq' = SndqAfterWrite("clt")
  /\ UNCHANGED <<orderly, sent, rcvq, got, ended>>
  /\ IF WriteResult("clt") = "IOERR" \/ m_srv_closed
     THEN FreeConn
     ELSE /\ WriteOutOf("clt")
          /\ IF WriteResult("clt") = "TRY_AGAIN"
             THEN Modfd([s \in {"clt"} |-> "OUT"], rcvq', sndq')
             ELSE Modfd([s \in Side |-> "IN"], rcvq', sndq')
          /\ Continue
          /\ UNCHANGED m_srv_closed

ReadServer ==
  /\ Event("srv", "IN")
  /\ rcvq' = RcvqAfterRead("srv")
  /\ UNCHANGED <<orderly, sent, sndq, got, ended>>
  /\ ReadInto("srv")
  /\ m_srv_closed' = (m_srv_closed \/ ReadResult("srv") \in {"IOERR", "CLOSED"})
  /\ IF ReadResult("srv") = "NOTHING"
     THEN UNCHANGED <<interest, edge>>
     ELSE Modfd([s \in {"clt"} |-> "OUT"], rcvq', sndq')
  /\ Continue

WriteServer ==
  /\ Event("srv", "OUT")
  /\ sndq' = SndqAfterWrite("srv")
  /\ UNCHANGED <<orderly, sent, rcvq, got, ended>>
  /\ WriteOutOf("srv")
  /\ m_srv_closed' = (m_srv_closed \/ WriteResult("srv") = "IOERR")
  /\ CASE WriteResult("srv") = "TRY_AGAIN" ->
            Modfd([s \in {"srv"} |-> "OUT"], rcvq', sndq')
       [] WriteResult("srv") = "BUFFER_EMPTY" ->
            Modfd([s \in Side |-> "IN"], rcvq', sndq')
       [] OTHER ->
            Modfd([s \in {"clt"} |-> "OUT"], rcvq', sndq')
  /\ Continue

Process == ReadClient \/ WriteClient \/ ReadServer \/ WriteServer

Peer(s) == PeerWrites(s) \/ PeerReads(s) \/ PeerCloses(s) \/ PeerResets(s)

Next ==
  \/ \E s \in Side : Peer(s)
  \/ EpollWait
  \/ Process

Spec == Init /\ [][Next]_vars

(* The child runs its event loop, and the peers write what they have to     *)
(* write and read what they are sent.                                       *)
Fairness ==
  /\ WF_vars(EpollWait)
  /\ WF_vars(Process)
  /\ \A s \in Side : WF_vars(PeerWrites(s)) /\ WF_vars(PeerReads(s))

FairSpec == Spec /\ Fairness
-----------------------------------------------------------------------------
(* The type of every variable; the indexes stay inside the buffers. *)
TypeOK ==
  /\ orderly \in BOOLEAN
  /\ buf \in [Side -> [1..BUF_SIZE -> Int]]
  /\ readIdx \in [Side -> 0..BUF_SIZE]
  /\ writeIdx \in [Side -> 0..BUF_SIZE]
  /\ m_srv_closed \in BOOLEAN
  /\ live \in BOOLEAN
  /\ interest \in [Side -> {"IN", "OUT"}]
  /\ edge \in [Side -> BOOLEAN]
  /\ batch \in Seq([side : Side, type : {"IN", "OUT"}])
  /\ sent \in [Side -> Nat]
  /\ rcvq \in [Side -> Seq(Int)]
  /\ sndq \in [Side -> Seq(Int)]
  /\ got \in [Side -> Seq(Int)]
  /\ ended \in [Side -> {"open", "fin", "rst"}]

(* While the session lives, every byte a peer wrote is in exactly one place *)
(* and in order: read by the other peer, sent to it, in the buffer between  *)
(* the two indexes, or still in the socket.  None is lost, sent twice or    *)
(* overtaken, whatever the sizes of the reads and the partial writes.       *)
Conservation ==
  live => \A s \in Side :
    ended[Other(s)] # "rst" =>
      got[Other(s)] \o sndq[Other(s)] \o Pending(s) \o rcvq[s] = Stream(s)

(* What a peer ever gets is a prefix of what the other one wrote, also when *)
(* a connection is reset and after the session is freed.                    *)
OnlyPrefixes ==
  \A s \in Side : IsPrefix(got[Other(s)] \o sndq[Other(s)], Stream(s))

(* Together: the indexes are in the buffers, and the bytes of both          *)
(* directions arrive as they were written, or not at all.                   *)
BytesKept == TypeOK /\ Conservation /\ OnlyPrefixes

(* The edge-triggered discipline: input that no event announces any more    *)
(* (nothing on the ready list, nothing left in the batch) waits only behind *)
(* a full buffer or while the socket is registered for output.              *)
DrainedOrFull ==
  live /\ batch = <<>> =>
    \A s \in Side :
      (rcvq[s] # <<>> \/ ended[s] = "fin") /\ interest[s] = "IN" /\ ~edge[s]
        => readIdx[s] = BUF_SIZE \/ (s = "srv" /\ m_srv_closed)

(* Bytes in a buffer have somebody who will send them: between batches the  *)
(* socket they go to is registered for output.  It needs orderly peers:     *)
(* emptying one buffer registers both sockets for input, whatever the other *)
(* buffer holds.                                                            *)
BufferedIsArmed ==
  orderly /\ live /\ ~m_srv_closed /\ batch = <<>> =>
    \A s \in Side : Pending(s) # <<>> => interest[Other(s)] = "OUT"

(* All requests of orderly peers and the answers get through, however small *)
(* the buffers are and wherever partial reads and writes split them.        *)
AnswersArrive ==
  orderly ~> (\A s \in Side : Len(got[s]) = Rounds * MsgLen[Other(s)])
=============================================================================
