------------------------------ MODULE HttpWrite ------------------------------
(***************************************************************************)
(* The answers of http_conn (15-5http_conn.cpp): do_request, which maps    *)
(* the file that is asked for, process_write, which lays out the response, *)
(* write, which sends it and unmaps the file, and what a hang-up of the    *)
(* client leaves behind.  HttpServer has the threads and the events, here  *)
(* reduced to what one session lets happen in turn; HttpParse has the      *)
(* requests.                                                               *)
(*                                                                         *)
(* A connection is an element of the array users, which serves one session *)
(* after another.  Memory is a row of pages, a file one or more pages of   *)
(* it, and a header HeaderLength units of the object's own m_write_buf.    *)
(***************************************************************************)
EXTENDS Integers, Sequences

CONSTANTS
  Conn,           \* elements of users
  NoConn,
  HeaderLength,   \* what a status line, its headers and an error page take
  MaxSize,        \* of a file
  MaxPage         \* of memory

HttpWriteAssumption ==
  /\ NoConn \notin Conn
  /\ HeaderLength \in Nat \ {0}
  /\ MaxSize \in Nat /\ MaxPage \in Nat

VARIABLES
  phase,              \* "closed", "read" or "write": what epoll waits for
  m_linger, m_write_idx, m_iv, m_iv_count, m_file_address,
  st_size,            \* of m_file_stat
  writing,            \* the connection whose write() runs, or NoConn
  tested,             \* write() has come to the test after writev
  bytes_to_send, bytes_have_send,
  owner,              \* the connection a page is mapped for, or NoConn
  length,             \* history: what mmap was last called with
  taken,              \* history: what the last writev took
  response,           \* history: what is to be sent
  split,              \* history: a writev has not taken all it was given
  abandoned,          \* history: connections hung up with a file mapped
  robbed              \* history: connections whose file another's munmap took pages of

objectVars == <<m_linger, m_write_idx, m_iv, m_iv_count, m_file_address, st_size>>
writeVars == <<writing, tested, bytes_to_send, bytes_have_send, taken>>
memoryVars == <<owner, length, abandoned, robbed>>
historyVars == <<response, split>>
vars == <<phase, objectVars, writeVars, memoryVars, historyVars>>

Page == 1..MaxPage
MAP_FAILED == -1

Pages(address, size) == IF address > 0 THEN address..(address + size - 1) ELSE {}

Buffer == [base |-> 0, len |-> HeaderLength]

Init ==
  /\ phase = [c \in Conn |-> "closed"]
  /\ m_linger = [c \in Conn |-> FALSE]
  /\ m_write_idx = [c \in Conn |-> 0]
  /\ m_iv = [c \in Conn |-> <<Buffer, Buffer>>]
  /\ m_iv_count = [c \in Conn |-> 1]
  /\ m_file_address = [c \in Conn |-> 0]
  /\ st_size = [c \in Conn |-> 0]
  /\ writing = NoConn /\ tested = FALSE
  /\ bytes_to_send = 0 /\ bytes_have_send = 0 /\ taken = <<>>
  /\ owner = [p \in Page |-> NoConn]
  /\ length = [c \in Conn |-> 0]
  /\ response = [c \in Conn |-> <<>>]
  /\ split = [c \in Conn |-> FALSE]
  /\ abandoned = {} /\ robbed = {}
-----------------------------------------------------------------------------
(* What a connection wants sent: the header it has composed, and the file   *)
(* it has mapped.                                                           *)
Header == [n \in 1..HeaderLength |-> <<"m_write_buf", n>>]

File(c, address, size) == [n \in 1..size |-> <<c, address + n - 1>>]

(* What an iovec leads to: the header, or whatever is mapped there now.     *)
Units(iv) ==
  IF iv.base = 0 THEN [n \in 1..iv.len |-> <<"m_write_buf", n>>]
  ELSE [n \in 1..iv.len |-> <<owner[iv.base + n - 1], iv.base + n - 1>>]

Given(iv, count) == IF count = 1 THEN Units(iv[1]) ELSE Units(iv[1]) \o Units(iv[2])

(* A response is over. *)
NothingToSend(c) ==
  /\ response' = [response EXCEPT ![c] = <<>>]
  /\ split' = [split EXCEPT ![c] = FALSE]

(* init(): the file's address and its size are not reset.  What the next    *)
(* response sets is forgotten here, when a session has ended and when a     *)
(* response is over; the size of a file, wherever none is mapped.           *)
Emptied(c) ==
  /\ m_iv' = [m_iv EXCEPT ![c] = <<Buffer, Buffer>>]
  /\ m_iv_count' = [m_iv_count EXCEPT ![c] = 1]
  /\ m_linger' = [m_linger EXCEPT ![c] = FALSE]
  /\ m_write_idx' = [m_write_idx EXCEPT ![c] = 0]

(* init( connfd, addr ), for a new session. *)
Accept(c) ==
  /\ phase[c] = "closed" /\ writing = NoConn
  /\ phase' = [phase EXCEPT ![c] = "read"]
  /\ Emptied(c)
  /\ UNCHANGED <<m_file_address, st_size, writeVars, memoryVars, historyVars>>

(* close_conn(). *)
CloseConn(c) ==
  /\ phase' = [phase EXCEPT ![c] = "closed"]
  /\ Emptied(c)

(* The main loop sees the client hang up: close_conn(). *)
Hangup(c) ==
  /\ phase[c] # "closed" /\ writing = NoConn
  /\ CloseConn(c)
  /\ abandoned' = IF m_file_address[c] > 0 THEN abandoned \cup {c} ELSE abandoned
  /\ NothingToSend(c)
  /\ UNCHANGED <<m_file_address, st_size, writeVars, owner, length, robbed>>
-----------------------------------------------------------------------------
(* A worker has a request: do_request() and process_write(). *)

Compose(c, linger, iv, count) ==
  /\ m_linger' = [m_linger EXCEPT ![c] = linger]
  /\ m_write_idx' = [m_write_idx EXCEPT ![c] = HeaderLength]
  /\ m_iv' = [m_iv EXCEPT ![c] = iv]
  /\ m_iv_count' = [m_iv_count EXCEPT ![c] = count]
  /\ phase' = [phase EXCEPT ![c] = "write"]

(* An error page is in m_write_buf, like the headers. *)
ErrorPage(c, linger) ==
  /\ Compose(c, linger, [m_iv[c] EXCEPT ![1] = Buffer], 1)
  /\ response' = [response EXCEPT ![c] = Header]

(* A bad request, or a file that is not there: stat says nothing. *)
Refuse(c, linger) ==
  /\ phase[c] = "read"
  /\ ErrorPage(c, linger)
  /\ UNCHANGED <<m_file_address, st_size, writeVars, memoryVars, split>>

(* A file others may not read, or a directory: stat gives its size, which   *)
(* is of interest when the address of an earlier file is still there.       *)
RefuseFile(c, linger, size) ==
  /\ phase[c] = "read"
  /\ ErrorPage(c, linger)
  /\ st_size' = [st_size EXCEPT ![c] = IF m_file_address[c] > 0 THEN size ELSE 0]
  /\ UNCHANGED <<m_file_address, writeVars, memoryVars, split>>

(* The file is mapped wherever there is room. *)
Mmap(c, address, size) ==
  /\ \/ /\ address \in Page /\ size > 0
        /\ Pages(address, size) \subseteq {p \in Page : owner[p] = NoConn}
        /\ owner' = [p \in Page |-> IF p \in Pages(address, size) THEN c ELSE owner[p]]
        /\ length' = [length EXCEPT ![c] = size]
        /\ st_size' = [st_size EXCEPT ![c] = size]
     \/ /\ address = MAP_FAILED
        /\ length' = [length EXCEPT ![c] = 0] /\ st_size' = [st_size EXCEPT ![c] = 0]
        /\ UNCHANGED owner
  /\ m_file_address' = [m_file_address EXCEPT ![c] = address]
  /\ robbed' = robbed \ {c}
  /\ UNCHANGED abandoned

(* Variant: m_iv_count is not set for the file. *)
ServeHeader(c, linger, address, size) ==
  LET iv == <<Buffer, [base |-> address, len |-> size]>>
  IN  /\ phase[c] = "read" /\ size > 0
      /\ Mmap(c, address, size)
      /\ Compose(c, linger, iv, 1)
      /\ response' = [response EXCEPT ![c] = Header \o File(c, address, size)]
      /\ UNCHANGED <<writeVars, split>>

(* The result of mmap is not looked at. *)
ServeFile(c, linger, address, size) ==
  LET iv == <<Buffer, [base |-> address, len |-> size]>>
  IN  /\ phase[c] = "read" /\ size > 0
      /\ Mmap(c, address, size)
      /\ Compose(c, linger, iv, 2)
      /\ response' = [response EXCEPT ![c] = Header \o File(c, address, size)]
      /\ UNCHANGED <<writeVars, split>>

(* An empty file cannot be mapped, and the answer made for it is not sent:  *)
(* its case has no break, process_write returns false and process closes.   *)
EmptyFile(c) ==
  /\ phase[c] = "read"
  /\ Mmap(c, MAP_FAILED, 0)
  /\ CloseConn(c)
  /\ UNCHANGED <<writeVars, historyVars>>
-----------------------------------------------------------------------------
(* write(), which the main loop calls when the socket has room. *)

(* munmap() takes the address and the size as they are now, whoever has     *)
(* mapped something there.                                                  *)
Unmap(c) ==
  LET pages == Pages(m_file_address[c], st_size[c]) \cap Page
  IN  /\ m_file_address' = [m_file_address EXCEPT ![c] = 0]
      /\ owner' = [p \in Page |-> IF p \in pages THEN NoConn ELSE owner[p]]
      /\ robbed' = (robbed \cup {owner[p] : p \in pages}) \ {c, NoConn}
      /\ st_size' = [st_size EXCEPT ![c] = 0]
      /\ length' = [length EXCEPT ![c] = 0]
      /\ UNCHANGED abandoned

(* Variant: the file stays mapped. *)
LeaveMapped == UNCHANGED <<m_file_address, st_size, memoryVars>>

Write(c) ==
  /\ phase[c] = "write" /\ writing = NoConn
  /\ writing' = c /\ tested' = FALSE
  /\ bytes_to_send' = m_write_idx[c] /\ bytes_have_send' = 0
  /\ UNCHANGED <<phase, taken, objectVars, memoryVars, historyVars>>

Calling(c) == writing = c /\ ~tested

(* An iovec that leads to no memory makes writev fail. *)
Faults(c) ==
  \E n \in 1..m_iv_count[c] :
    LET iv == m_iv[c][n]
    IN  \/ iv.base = MAP_FAILED
        \/ \E p \in Pages(iv.base, iv.len) : p \notin Page \/ owner[p] = NoConn

(* writev takes n units.  It always is given the response from its start.   *)
Writev(c, n) ==
  LET given == Given(m_iv[c], m_iv_count[c])
  IN  /\ Calling(c) /\ ~Faults(c)
      /\ n \in 1..Len(given)
      /\ taken' = SubSeq(given, 1, n)
      /\ split' = [split EXCEPT ![c] = @ \/ n < Len(given)]
      /\ bytes_to_send' = bytes_to_send - n
      /\ bytes_have_send' = bytes_have_send + n
      /\ tested' = TRUE
      /\ UNCHANGED <<phase, objectVars, writing, memoryVars, response>>

Returned ==
  /\ writing' = NoConn /\ tested' = FALSE
  /\ bytes_to_send' = 0 /\ bytes_have_send' = 0 /\ taken' = <<>>

(* EAGAIN: the next write() begins anew. *)
SocketFull(c) ==
  /\ Calling(c) /\ ~Faults(c)
  /\ Returned
  /\ UNCHANGED <<phase, objectVars, memoryVars, historyVars>>

(* Variant: the error path returns before it has unmapped. *)
WritevFailsMapped(c) ==
  /\ Calling(c)
  /\ LeaveMapped
  /\ CloseConn(c)
  /\ Returned
  /\ NothingToSend(c)

(* Another error: the file is unmapped and the main loop closes. *)
WritevFails(c) ==
  /\ Calling(c)
  /\ Unmap(c)
  /\ CloseConn(c)
  /\ Returned
  /\ NothingToSend(c)

(* bytes_to_send <= bytes_have_send, where the first began as the length of *)
(* the header alone: half a header is taken for the whole response.         *)
Counted == bytes_to_send <= bytes_have_send

KeepWriting(c) ==
  /\ writing = c /\ tested /\ ~Counted
  /\ tested' = FALSE /\ taken' = <<>>
  /\ UNCHANGED <<phase, objectVars, writing, bytes_to_send, bytes_have_send,
                 memoryVars, historyVars>>

(* A session that lingers waits for the next request, another is closed.    *)
WriteDone(c) ==
  /\ writing = c /\ tested /\ Counted
  /\ Unmap(c)
  /\ \/ m_linger[c] /\ Emptied(c) /\ phase' = [phase EXCEPT ![c] = "read"]
     \/ ~m_linger[c] /\ CloseConn(c)
  /\ Returned
  /\ NothingToSend(c)
-----------------------------------------------------------------------------
Answer(c) ==
  \/ EmptyFile(c)
  \/ \E linger \in BOOLEAN :
       \/ Refuse(c, linger)
       \/ \E size \in 0..MaxSize : RefuseFile(c, linger, size)
       \/ \E size \in 1..MaxSize, address \in Page \cup {MAP_FAILED} :
            ServeFile(c, linger, address, size)

Next ==
  \E c \in Conn :
    \/ Accept(c) \/ Hangup(c) \/ Answer(c)
    \/ Write(c) \/ SocketFull(c) \/ WritevFails(c) \/ KeepWriting(c) \/ WriteDone(c)
    \/ \E n \in 1..(HeaderLength + MaxSize) : Writev(c, n)

Spec == Init /\ [][Next]_vars
-----------------------------------------------------------------------------
(* What a client is sent is of its own answer, header or file, and of       *)
(* nobody else's; and what write() counts as the answer is at least half    *)
(* its header, and the whole answer, once and in order, unless a writev was *)
(* cut short.  A connection some page of whose file was unmapped by another *)
(* connection is sent what has been mapped there since.                     *)
ResponseRight ==
  \A c \in Conn : writing = c /\ tested =>
    /\ c \notin robbed =>
         \A n \in 1..Len(taken) : \E k \in 1..Len(response[c]) : taken[n] = response[c][k]
    /\ Counted => /\ 2 * bytes_have_send >= m_write_idx[c]
                  /\ split[c] \/ c \in robbed \/ taken = response[c]

(* A file is mapped only as long as its connection knows its address,       *)
(* unless the client hung up on it; nobody's file is unmapped by another    *)
(* unless some client has hung up; and what a connection is about to send   *)
(* is the file it mapped, mapped for it and for no other, unless it was     *)
(* robbed of it.                                                            *)
MappingsOwned ==
  /\ \A p \in Page : owner[p] # NoConn /\ owner[p] \notin abandoned =>
       p \in Pages(m_file_address[owner[p]], length[owner[p]])
  /\ robbed # {} => abandoned # {}
  /\ \A c \in Conn \ robbed : \A p \in Pages(m_file_address[c], length[c]) : owner[p] = c
  /\ \A c \in Conn :
       phase[c] = "write" /\ m_iv_count[c] = 2 /\ m_iv[c][2].base # MAP_FAILED =>
         m_iv[c][2] = [base |-> m_file_address[c], len |-> length[c]]
=============================================================================
