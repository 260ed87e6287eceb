---------------------------- MODULE Relay_proofs ------------------------------
(***************************************************************************)
(* Proofs about Relay for any size of the buffers, of the sockets and of   *)
(* the messages, and any number of rounds: the relay keeps the bytes of    *)
(* both directions and their order, and between two batches of events      *)
(* nothing it should act on is left without an event that announces it.    *)
(***************************************************************************)
EXTENDS Relay, SequenceTheorems, FunctionTheorems, FiniteSetTheorems, TLAPS

EventType == [side : Side, type : {"IN", "OUT"}]

(* What is to be sent of a buffer lies before its end.                      *)
IndexOrder == \A s \in Side : writeIdx[s] <= readIdx[s]

(* What a peer has been sent is the beginning of what the other one wrote.  *)
Delivered(s) == got[Other(s)] \o sndq[Other(s)]

(* A socket holds no more than it takes.                                    *)
SendFits == \A s \in Side : Len(sndq[s]) <= SockBuf

BeginsStream == \A s \in Side : \E rest \in Seq(Int) : Stream(s) = Delivered(s) \o rest

(* All there is of what a peer wrote, while the session lives.              *)
Held(s) == got[Other(s)] \o sndq[Other(s)] \o Pending(s) \o rcvq[s]

(* The inductive invariant for the bytes.                                   *)
BytesInv == TypeOK /\ IndexOrder /\ SendFits /\ Conservation /\ BeginsStream

(* Some event of the batch still to be handled is e.                        *)
InBatch(e) == \E i \in 1..Len(batch) : batch[i] = e

(* Input of s that nothing announces, and the two reasons there may be for  *)
(* it.                                                                      *)
Unannounced(s) ==
  /\ rcvq[s] # <<>> \/ ended[s] = "fin"
  /\ interest[s] = "IN" /\ ~edge[s]
  /\ ~InBatch([side |-> s, type |-> "IN"])

Excused(s) == readIdx[s] = BUF_SIZE \/ (s = "srv" /\ m_srv_closed)

(* DrainedOrFull inside a batch too.                                        *)
DrainInv == live => \A s \in Side : Unannounced(s) => Excused(s)

(* A buffer that holds bytes to send.                                       *)
Waiting(s) == writeIdx[s] < readIdx[s]

(* An emptied buffer begins anew, and a batch has one event per socket.     *)
PlacesInv ==
  /\ \A s \in Side : Waiting(s) \/ readIdx[s] = 0
  /\ \A i, j \in 1..Len(batch) : batch[i].side = batch[j].side => i = j

(* The session of orderly peers goes on, and they take turns.               *)
Unbroken == live /\ ~m_srv_closed /\ \A s \in Side : ended[s] = "open"

InTurn ==
  /\ sent["clt"] <= MsgLen["clt"] * (Len(got["clt"]) \div MsgLen["srv"] + 1)
  /\ sent["srv"] <= MsgLen["srv"] * (Len(got["srv"]) \div MsgLen["clt"])

(* A socket is registered for output exactly while there is something to    *)
(* send to it, also when that event is already in the batch.                *)
Armed == \A s \in Side : Waiting(s) <=> interest[Other(s)] = "OUT"

OutWaits ==
  \A i \in 1..Len(batch) : batch[i].type = "OUT" => Waiting(Other(batch[i].side))

TurnInv == orderly => Unbroken /\ InTurn /\ Armed /\ OutWaits

(* What Side is, for the provers.                                           *)
LEMMA SideFacts ==
  /\ Side = {"clt", "srv"}
  /\ \A s \in Side : Other(s) \in Side /\ Other(s) # s /\ Other(Other(s)) = s
  /\ \A s, x \in Side : s # x => Other(x) = s
BY DEF Side, Other
-----------------------------------------------------------------------------
(* Sequences of numbers: what the steps do to buffers and queues.           *)

(* Joining sequences is associative.                                        *)
LEMMA Assoc ==
  ASSUME NEW a \in Seq(Int), NEW b \in Seq(Int), NEW c \in Seq(Int)
  PROVE  (a \o b) \o c = a \o (b \o c)
BY ConcatAssociative

(* A part of a sequence cut in two.                                         *)
LEMMA Adjacent ==
  ASSUME NEW q \in Seq(Int), NEW m \in 1..Len(q) + 1, NEW k \in m - 1..Len(q), NEW n \in k..Len(q)
  PROVE  SubSeq(q, m, k) \o SubSeq(q, k + 1, n) = SubSeq(q, m, n)
BY ConcatAdjacentSubSeq

(* Parts with the same elements are the same; like Cat, a name keeps the    *)
(* provers from taking SubSeq apart.                                        *)
Part(x, m, n) == SubSeq(x, m, n)

SameFrom(x, m, n, y, k) == \A i \in 0..(n - m) : x[m + i] = y[k + i] /\ y[k + i] \in Int

(* Two parts of equal length that agree element by element are equal.        *)
LEMMA SameParts ==
  ASSUME NEW x, NEW y, NEW m \in Int, NEW n \in Int, NEW k \in Int, NEW l \in Int,
         n - m = l - k,
         SameFrom(x, m, n, y, k)
  PROVE  Part(x, m, n) = Part(y, k, l)
<1>0. \A i \in 0..(n - m) : x[m + i] = y[k + i] /\ y[k + i] \in Int
  BY DEF SameFrom
<1>1. \A i \in m..n : x[i] \in Int
  <2>1. \A i \in m..n : i - m \in 0..(n - m) /\ m + (i - m) = i
    OBVIOUS
  <2> QED
    BY <1>0, <2>1
<1>2. \A i \in k..l : y[i] \in Int
  <2>1. \A i \in k..l : i - k \in 0..(n - m) /\ k + (i - k) = i
    OBVIOUS
  <2> QED
    BY <1>0, <2>1
<1> DEFINE a == SubSeq(x, m, n)
           b == SubSeq(y, k, l)
<1>3. /\ a \in Seq(Int)
      /\ Len(a) = IF m <= n THEN n - m + 1 ELSE 0
      /\ \A i \in 1..n - m + 1 : a[i] = x[m + i - 1]
  BY <1>1, SubSeqProperties
<1>4. /\ b \in Seq(Int)
      /\ Len(b) = IF k <= l THEN l - k + 1 ELSE 0
      /\ \A i \in 1..l - k + 1 : b[i] = y[k + i - 1]
  BY <1>2, SubSeqProperties
<1> HIDE DEF a, b
<1>5. Len(a) = Len(b)
  BY <1>3, <1>4
<1>6. ASSUME NEW i \in 1..Len(a) PROVE a[i] = b[i]
  <2>1. i \in 1..n - m + 1 /\ i \in 1..l - k + 1
    BY <1>3
  <2>2. a[i] = x[m + i - 1] /\ b[i] = y[k + i - 1]
    BY <2>1, <1>3, <1>4
  <2>3. i - 1 \in 0..(n - m) /\ m + (i - 1) = m + i - 1 /\ k + (i - 1) = k + i - 1
    BY <2>1
  <2>4. x[m + (i - 1)] = y[k + (i - 1)]
    BY <1>0, <2>3
  <2> QED
    BY <2>2, <2>3, <2>4
<1>7. a = b
  BY <1>3, <1>4, <1>5, <1>6, SeqEqual
<1> QED
  BY <1>7 DEF a, b, Part

(* How a sequence is cut in two.                                            *)
LEMMA SplitAt ==
  ASSUME NEW q \in Seq(Int), NEW t \in 0..Len(q)
  PROVE  /\ SubSeq(q, 1, t) \in Seq(Int) /\ Len(SubSeq(q, 1, t)) = t
         /\ SubSeq(q, t + 1, Len(q)) \in Seq(Int)
         /\ Len(SubSeq(q, t + 1, Len(q))) = Len(q) - t
         /\ q = SubSeq(q, 1, t) \o SubSeq(q, t + 1, Len(q))
<1>1. Len(q) \in Nat /\ \A i \in 1..Len(q) : q[i] \in Int
  BY LenProperties, ElementOfSeq
<1>2. SubSeq(q, 1, t) \in Seq(Int) /\ Len(SubSeq(q, 1, t)) = t
  <2>1. \A i \in 1..t : q[i] \in Int
    BY <1>1
  <2>2. /\ SubSeq(q, 1, t) \in Seq(Int)
        /\ Len(SubSeq(q, 1, t)) = IF 1 <= t THEN t - 1 + 1 ELSE 0
    BY <2>1, SubSeqProperties
  <2> QED
    BY <2>2
<1>3. SubSeq(q, t + 1, Len(q)) \in Seq(Int) /\ Len(SubSeq(q, t + 1, Len(q))) = Len(q) - t
  <2>1. \A i \in t + 1..Len(q) : q[i] \in Int
    BY <1>1
  <2>2. /\ SubSeq(q, t + 1, Len(q)) \in Seq(Int)
        /\ Len(SubSeq(q, t + 1, Len(q))) = IF t + 1 <= Len(q) THEN Len(q) - (t + 1) + 1 ELSE 0
    BY <2>1, <1>1, SubSeqProperties
  <2> QED
    BY <2>2, <1>1
<1>4. SubSeq(q, 1, t) \o SubSeq(q, t + 1, Len(q)) = SubSeq(q, 1, Len(q))
  <2>1. 1 \in 1..Len(q) + 1 /\ t \in 1 - 1..Len(q) /\ Len(q) \in t..Len(q)
    BY <1>1
  <2> QED
    BY <2>1, Adjacent
<1>5. SubSeq(q, 1, Len(q)) = q
  BY SubSeqFull
<1> QED
  BY <1>2, <1>3, <1>4, <1>5

(* The part of a buffer between two indexes.                                *)
LEMMA Between ==
  ASSUME NEW n \in Nat, NEW b \in [1..n -> Int], NEW w \in 0..n, NEW r \in 0..n, w <= r
  PROVE  /\ b \in Seq(Int) /\ Len(b) = n
         /\ SubSeq(b, w + 1, r) \in Seq(Int)
         /\ Len(SubSeq(b, w + 1, r)) = r - w
<1>1. \A i \in w + 1..r : b[i] \in Int
  OBVIOUS
<1>2. /\ SubSeq(b, w + 1, r) \in Seq(Int)
      /\ Len(SubSeq(b, w + 1, r)) = IF w + 1 <= r THEN r - (w + 1) + 1 ELSE 0
  BY <1>1, SubSeqProperties
<1>3. b \in Seq(Int)
  BY IsASeq
<1>4. Len(b) = n
  BY <1>3, LenProperties
<1> QED
  BY <1>2, <1>3, <1>4

(* Joining by a name: the provers take \o apart wherever they see it.       *)
Cat(a, b) == a \o b

(* Reading t bytes of q behind index r.                                     *)
Filled(n, b, r, q, t) ==
  [i \in 1..n |-> IF i \in r + 1 .. r + t THEN q[i - r] ELSE b[i]]

ReadArgs(n, b, w, r, q, t) ==
  /\ n \in Nat /\ b \in [1..n -> Int]
  /\ w \in 0..n /\ r \in 0..n /\ w <= r
  /\ q \in Seq(Int) /\ t \in 0..Len(q) /\ r + t <= n

(* Reading t bytes into a buffer appends them to what it holds.              *)
LEMMA ReadAppends ==
  ASSUME NEW n, NEW b, NEW w, NEW r, NEW q, NEW t, NEW c,
         ReadArgs(n, b, w, r, q, t), c = Filled(n, b, r, q, t)
  PROVE  /\ c \in [1..n -> Int]
         /\ Part(c, w + 1, r + t) = Cat(Part(b, w + 1, r), Part(q, 1, t))
<1>a. /\ n \in Nat /\ b \in [1..n -> Int] /\ w \in 0..n /\ r \in 0..n /\ w <= r
      /\ q \in Seq(Int) /\ t \in 0..Len(q) /\ r + t <= n
  BY DEF ReadArgs
<1>0. c = [i \in 1..n |-> IF i \in r + 1 .. r + t THEN q[i - r] ELSE b[i]]
  BY DEF Filled
<1>1. Len(q) \in Nat /\ \A i \in 1..Len(q) : q[i] \in Int
  BY <1>a, LenProperties, ElementOfSeq
<1>2. c \in [1..n -> Int]
  BY <1>a, <1>0, <1>1
<1>3. c \in Seq(Int) /\ Len(c) = n
  BY <1>a, <1>2, Between
<1> DEFINE e == r + t
<1>4. e \in r..n /\ t \in Int
  BY <1>a, <1>1
<1>5. SubSeq(c, w + 1, r) \o SubSeq(c, r + 1, e) = SubSeq(c, w + 1, e)
  <2>1. w + 1 \in 1..Len(c) + 1 /\ r \in (w + 1) - 1..Len(c) /\ e \in r..Len(c)
    BY <1>a, <1>3, <1>4
  <2> HIDE DEF e
  <2> QED
    BY <1>a, <1>3, <2>1, Adjacent
<1>6. SubSeq(c, w + 1, r) = SubSeq(b, w + 1, r)
  <2>1. ASSUME NEW i \in 0..(r - (w + 1)) PROVE c[(w + 1) + i] = b[(w + 1) + i] /\ b[(w + 1) + i] \in Int
    <3>1. (w + 1) + i \in 1..n /\ (w + 1) + i \notin r + 1..r + t
      BY <1>a
    <3> QED
      BY <1>a, <1>0, <3>1
  <2>2. w + 1 \in Int /\ r \in Int
    BY <1>a
  <2> DEFINE m == w + 1
  <2>3. m \in Int /\ r \in Int /\ SameFrom(c, m, r, b, m)
    BY <1>a, <2>1, <2>2 DEF SameFrom
  <2> HIDE DEF m
  <2>4. Part(c, m, r) = Part(b, m, r)
    BY <2>3, SameParts
  <2> QED
    BY <2>4 DEF m, Part
<1>7. SubSeq(c, r + 1, e) = SubSeq(q, 1, t)
  <2>1. ASSUME NEW i \in 0..(e - (r + 1)) PROVE c[(r + 1) + i] = q[1 + i] /\ q[1 + i] \in Int
    <3>1. (r + 1) + i \in 1..n /\ (r + 1) + i \in r + 1..r + t /\ ((r + 1) + i) - r = 1 + i
      BY <1>a, <1>4
    <3>2. 1 + i \in 1..Len(q)
      BY <1>a, <1>1, <1>4
    <3> QED
      BY <1>a, <1>0, <1>1, <3>1, <3>2
  <2> DEFINE m == r + 1
  <2>2. m \in Int /\ e \in Int /\ e - m = t - 1 /\ SameFrom(c, m, e, q, 1)
    BY <1>a, <1>4, <2>1 DEF SameFrom
  <2> HIDE DEF e, m
  <2>3. Part(c, m, e) = Part(q, 1, t)
    BY <1>4, <2>2, SameParts
  <2> QED
    BY <2>3 DEF m, Part
<1> QED
  BY <1>2, <1>5, <1>6, <1>7 DEF e, Cat, Part

(* Sending the first g bytes of what lies between two indexes.              *)
LEMMA WriteSplits ==
  ASSUME NEW n \in Nat, NEW b \in [1..n -> Int], NEW w \in 0..n, NEW r \in 0..n, w <= r,
         NEW g \in 0..(r - w)
  PROVE  SubSeq(b, w + 1, r) =
           SubSeq(SubSeq(b, w + 1, r), 1, g) \o SubSeq(b, w + g + 1, r)
<1>1. b \in Seq(Int) /\ Len(b) = n
  BY Between
<1> DEFINE e == w + g
<1>2. e \in w..r /\ g \in Int /\ w + g + 1 = e + 1
  OBVIOUS
<1>3. SubSeq(b, w + 1, e) \o SubSeq(b, e + 1, r) = SubSeq(b, w + 1, r)
  <2>1. w + 1 \in 1..Len(b) + 1 /\ e \in (w + 1) - 1..Len(b) /\ r \in e..Len(b)
    BY <1>1, <1>2
  <2> HIDE DEF e
  <2> QED
    BY <1>1, <2>1, Adjacent
<1>4. SubSeq(SubSeq(b, w + 1, r), 1, g) = SubSeq(b, w + 1, e)
  <2>1. CASE g = 0
    <3>1. g < 1 /\ e < w + 1 /\ e \in Int /\ w + 1 \in Int
      BY <2>1
    <3>2. SubSeq(SubSeq(b, w + 1, r), 1, g) = <<>>
      BY <3>1, SubSeqEmpty
    <3>3. SubSeq(b, w + 1, e) = <<>>
      BY <3>1, SubSeqEmpty
    <3> QED
      BY <3>2, <3>3
  <2>2. CASE g # 0
    <3> DEFINE k == w + 1
    <3>1. /\ k \in 1..Len(b) /\ r \in 1..Len(b)
          /\ 1 \in 1..r - k + 1 /\ g \in 1..r - k + 1
          /\ k + 1 - 1 = k /\ k + g - 1 = e
      BY <1>1, <2>2
    <3> HIDE DEF k, e
    <3>2. SubSeq(SubSeq(b, k, r), 1, g) = SubSeq(b, k + 1 - 1, k + g - 1)
      BY <1>1, <3>1, SubSeqOfSubSeq
    <3> QED
      BY <3>1, <3>2 DEF k
  <2> QED
    BY <2>1, <2>2
<1> HIDE DEF e
<1> QED
  BY <1>2, <1>3, <1>4

(* Taking a byte from one queue to another keeps what the two hold.         *)
LEMMA MoveHead ==
  ASSUME NEW g \in Seq(Int), NEW q \in Seq(Int), q # <<>>
  PROVE  /\ Append(g, Head(q)) \in Seq(Int) /\ Tail(q) \in Seq(Int)
         /\ Append(g, Head(q)) \o Tail(q) = g \o q
<1>1. Len(q) \in Nat \ {0} /\ Head(q) \in Int /\ Tail(q) \in Seq(Int)
  BY HeadTailProperties, LenProperties, EmptySeq
<1>2. Append(g, Head(q)) \in Seq(Int) /\ Append(g, Head(q)) = g \o <<Head(q)>>
  BY <1>1, AppendProperties, AppendIsConcat
<1>3. q = <<Head(q)>> \o Tail(q)
  <2>1. 1 \in 1..Len(q) /\ Len(q) \in 1..Len(q)
    BY <1>1
  <2>2. SubSeq(q, 1, Len(q)) = <<q[1]>> \o SubSeq(q, 1 + 1, Len(q))
    BY <2>1, SubSeqRecursiveFirst
  <2>3. SubSeq(q, 1, Len(q)) = q
    BY SubSeqFull
  <2>4. Tail(q) = SubSeq(q, 2, Len(q))
    BY TailIsSubSeq
  <2>5. Head(q) = q[1]
    BY <1>1
  <2> QED
    BY <2>2, <2>3, <2>4, <2>5
<1> DEFINE h == <<Head(q)>>
           t == Tail(q)
<1>4. h \in Seq(Int) /\ t \in Seq(Int)
  BY <1>1
<1> HIDE DEF h, t
<1>5. (g \o h) \o t = g \o (h \o t)
  BY <1>4, Assoc
<1> QED
  BY <1>1, <1>2, <1>3, <1>5 DEF h, t

(* What is used of Cat.                                                     *)
LEMMA CatFacts ==
  /\ \A a, b \in Seq(Int) : Cat(a, b) \in Seq(Int) /\ Len(Cat(a, b)) = Len(a) + Len(b)
  /\ \A a, b, c \in Seq(Int) : Cat(Cat(a, b), c) = Cat(a, Cat(b, c))
  /\ \A a \in Seq(Int) : Cat(a, <<>>) = a /\ Cat(<<>>, a) = a
<1>1. ASSUME NEW a \in Seq(Int), NEW b \in Seq(Int)
      PROVE  Cat(a, b) \in Seq(Int) /\ Len(Cat(a, b)) = Len(a) + Len(b)
  BY ConcatProperties DEF Cat
<1>2. ASSUME NEW a \in Seq(Int), NEW b \in Seq(Int), NEW c \in Seq(Int)
      PROVE  Cat(Cat(a, b), c) = Cat(a, Cat(b, c))
  BY Assoc DEF Cat
<1>3. ASSUME NEW a \in Seq(Int)
      PROVE  Cat(a, <<>>) = a /\ Cat(<<>>, a) = a
  BY ConcatEmptySeq DEF Cat
<1> QED
  BY <1>1, <1>2, <1>3

(* Pieces that join to the same are the same behind any others.             *)
LEMMA SameTail ==
  ASSUME NEW d \in Seq(Int), NEW p \in Seq(Int), NEW q \in Seq(Int), NEW r \in Seq(Int),
         NEW t \in Seq(Int), Cat(q, t) = Cat(p, r)
  PROVE  Cat(Cat(d, q), t) = Cat(Cat(d, p), r)
BY CatFacts

(* A piece that moves from the third place to the second.                   *)
LEMMA Resplit ==
  ASSUME NEW g \in Seq(Int), NEW q \in Seq(Int), NEW f \in Seq(Int), NEW e \in Seq(Int),
         NEW r \in Seq(Int)
  PROVE  /\ Cat(e, r) \in Seq(Int)
         /\ Cat(Cat(Cat(g, q), Cat(f, e)), r) = Cat(Cat(g, Cat(q, f)), Cat(e, r))
<1>1. Cat(e, r) \in Seq(Int) /\ Cat(g, q) \in Seq(Int) /\ Cat(Cat(g, q), f) \in Seq(Int)
  BY CatFacts
<1>2. Cat(Cat(g, q), Cat(f, e)) = Cat(Cat(Cat(g, q), f), e)
  BY <1>1, CatFacts
<1>3. Cat(Cat(Cat(Cat(g, q), f), e), r) = Cat(Cat(Cat(g, q), f), Cat(e, r))
  BY <1>1, CatFacts
<1>4. Cat(Cat(g, q), f) = Cat(g, Cat(q, f))
  BY CatFacts
<1> QED
  BY <1>1, <1>2, <1>3, <1>4
-----------------------------------------------------------------------------
(* The bytes. *)

(* What the queues, the buffers and the streams are, as sequences.          *)
LEMMA Contents ==
  ASSUME TypeOK, IndexOrder, NEW s \in Side
  PROVE  /\ Other(s) \in Side
         /\ got[s] \in Seq(Int) /\ sndq[s] \in Seq(Int) /\ rcvq[s] \in Seq(Int)
         /\ Len(sndq[s]) \in Nat /\ Len(rcvq[s]) \in Nat
         /\ Pending(s) \in Seq(Int) /\ Len(Pending(s)) = readIdx[s] - writeIdx[s]
         /\ Stream(s) \in Seq(Int) /\ Len(Stream(s)) = sent[s]
<1>1. Other(s) \in Side
  BY SideFacts
<1>2. got[s] \in Seq(Int) /\ sndq[s] \in Seq(Int) /\ rcvq[s] \in Seq(Int)
  BY DEF TypeOK
<1>3. Len(sndq[s]) \in Nat /\ Len(rcvq[s]) \in Nat
  BY <1>2, LenProperties
<1>4. Pending(s) \in Seq(Int) /\ Len(Pending(s)) = readIdx[s] - writeIdx[s]
  <2>1. /\ BUF_SIZE \in Nat /\ buf[s] \in [1..BUF_SIZE -> Int]
        /\ writeIdx[s] \in 0..BUF_SIZE /\ readIdx[s] \in 0..BUF_SIZE
        /\ writeIdx[s] <= readIdx[s]
    BY RelayAssumption DEF TypeOK, IndexOrder
  <2> QED
    BY <2>1, Between DEF Pending
<1>5. Stream(s) \in Seq(Int) /\ Len(Stream(s)) = sent[s]
  <2>1. sent[s] \in Nat
    BY DEF TypeOK
  <2>2. Stream(s) \in [1..sent[s] -> Int]
    BY <2>1 DEF Stream, Byte
  <2>3. Stream(s) \in Seq(Int)
    BY <2>1, <2>2, IsASeq
  <2> QED
    BY <2>1, <2>2, <2>3, LenProperties
<1> QED
  BY <1>1, <1>2, <1>3, <1>4, <1>5

(* Reading moves bytes from the socket to the end of the buffer.            *)
LEMMA ReadStep ==
  ASSUME TypeOK, IndexOrder, NEW s \in Side, ReadInto(s), rcvq' = RcvqAfterRead(s)
  PROVE  /\ buf' \in [Side -> [1..BUF_SIZE -> Int]]
         /\ readIdx' \in [Side -> 0..BUF_SIZE]
         /\ rcvq' \in [Side -> Seq(Int)]
         /\ IndexOrder'
         /\ Pending(s)' \in Seq(Int) /\ rcvq'[s] \in Seq(Int)
         /\ Pending(s)' \o rcvq'[s] = Pending(s) \o rcvq[s]
         /\ \A x \in Side : x # s => Pending(x)' = Pending(x) /\ rcvq'[x] = rcvq[x]
<1> DEFINE n == BUF_SIZE
           b == buf[s]
           r == readIdx[s]
           w == writeIdx[s]
           q == rcvq[s]
           t == TakenFrom(s)
           c == [i \in 1..n |-> IF i \in r + 1 .. r + t THEN q[i - r] ELSE b[i]]
<1>1. /\ n \in Nat /\ b \in [1..n -> Int] /\ w \in 0..n /\ r \in 0..n /\ w <= r
      /\ q \in Seq(Int) /\ Len(q) \in Nat
  BY RelayAssumption, Contents DEF TypeOK, IndexOrder
<1>2. t \in 0..Len(q) /\ r + t <= n
  BY <1>1 DEF TakenFrom, Smaller
<1>3. /\ buf' = [buf EXCEPT ![s] = c]
      /\ readIdx' = [readIdx EXCEPT ![s] = r + t]
      /\ writeIdx' = writeIdx
      /\ rcvq' = [rcvq EXCEPT ![s] = SubSeq(q, t + 1, Len(q))]
  BY DEF TypeOK, ReadInto, RcvqAfterRead
<1>4. /\ c \in [1..n -> Int]
      /\ SubSeq(c, w + 1, r + t) = SubSeq(b, w + 1, r) \o SubSeq(q, 1, t)
  <2> DEFINE d == c
  <2>1. d = Filled(n, b, r, q, t)
    BY DEF Filled
  <2> HIDE DEF c, d, n, b, r, w, q, t
  <2>2. /\ d \in [1..n -> Int]
        /\ Part(d, w + 1, r + t) = Cat(Part(b, w + 1, r), Part(q, 1, t))
    <3>1. ReadArgs(n, b, w, r, q, t)
      BY <1>1, <1>2 DEF ReadArgs
    <3> QED
      BY <2>1, <3>1, ReadAppends
  <2> QED
    BY <2>2 DEF d, Cat, Part
<1>5. /\ SubSeq(q, 1, t) \in Seq(Int)
      /\ SubSeq(q, t + 1, Len(q)) \in Seq(Int)
      /\ q = SubSeq(q, 1, t) \o SubSeq(q, t + 1, Len(q))
  <2> HIDE DEF n, b, r, w, q, t
  <2> QED
    BY <1>1, <1>2, SplitAt
<1>6. SubSeq(b, w + 1, r) \in Seq(Int)
  <2> HIDE DEF n, b, r, w, q, t
  <2> QED
    BY <1>1, Between
<1>7. buf'[s] = c /\ readIdx'[s] = r + t /\ writeIdx'[s] = w /\ rcvq'[s] = SubSeq(q, t + 1, Len(q))
  BY <1>3 DEF TypeOK
<1>8. Pending(s)' = SubSeq(b, w + 1, r) \o SubSeq(q, 1, t)
  <2>1. Pending(s)' = SubSeq(buf'[s], writeIdx'[s] + 1, readIdx'[s])
    BY DEF Pending
  <2> QED
    BY <2>1, <1>7, <1>4
<1>9. Pending(s) = SubSeq(b, w + 1, r)
  BY DEF Pending
<1> DEFINE old == SubSeq(b, w + 1, r)
           add == SubSeq(q, 1, t)
           left == SubSeq(q, t + 1, Len(q))
<1>10. Pending(s)' \o rcvq'[s] = Pending(s) \o rcvq[s]
  <2>1. (old \o add) \o left = old \o (add \o left)
    <3> HIDE DEF old, add, left, n, b, r, w, q, t
    <3>1. old \in Seq(Int) /\ add \in Seq(Int) /\ left \in Seq(Int)
      BY <1>5, <1>6 DEF old, add, left
    <3> QED
      BY <3>1, Assoc
  <2>2. old \o (add \o left) = old \o q
    <3>1. q = add \o left
      BY <1>5
    <3> HIDE DEF old, add, left, n, b, r, w, q, t
    <3> QED
      BY <3>1
  <2>3. Pending(s)' = old \o add /\ rcvq'[s] = left /\ Pending(s) = old /\ rcvq[s] = q
    BY <1>7, <1>8, <1>9
  <2> HIDE DEF old, add, left, n, b, r, w, q, t
  <2> QED
    BY <2>1, <2>2, <2>3
<1>11. Pending(s)' \in Seq(Int) /\ rcvq'[s] \in Seq(Int)
  <2>1. old \in Seq(Int) /\ add \in Seq(Int)
    BY <1>5, <1>6
  <2>2. old \o add \in Seq(Int)
    <3> HIDE DEF old, add
    <3> QED
      BY <2>1, ConcatProperties
  <2> QED
    BY <2>2, <1>5, <1>7, <1>8
<1>12. \A x \in Side : x # s => Pending(x)' = Pending(x) /\ rcvq'[x] = rcvq[x]
  <2> TAKE x \in Side
  <2> HAVE x # s
  <2>1. buf'[x] = buf[x] /\ readIdx'[x] = readIdx[x] /\ writeIdx'[x] = writeIdx[x] /\ rcvq'[x] = rcvq[x]
    BY <1>3 DEF TypeOK
  <2> QED
    BY <2>1 DEF Pending
<1>13. /\ buf' \in [Side -> [1..BUF_SIZE -> Int]]
       /\ readIdx' \in [Side -> 0..BUF_SIZE]
       /\ rcvq' \in [Side -> Seq(Int)]
  <2>1. r + t \in 0..BUF_SIZE
    BY <1>1, <1>2
  <2>2. readIdx' \in [Side -> 0..BUF_SIZE]
    BY <2>1, <1>3 DEF TypeOK
  <2> HIDE DEF c
  <2>3. buf' \in [Side -> [1..BUF_SIZE -> Int]]
    BY <1>3, <1>4 DEF TypeOK
  <2>4. rcvq' \in [Side -> Seq(Int)]
    BY <1>3, <1>5 DEF TypeOK
  <2> QED
    BY <2>2, <2>3, <2>4
<1>14. IndexOrder'
  <2>1. \A x \in Side : writeIdx'[x] <= readIdx'[x]
    BY <1>1, <1>2, <1>3 DEF TypeOK, IndexOrder
  <2> QED
    BY <2>1 DEF IndexOrder
<1> HIDE DEF c, b, r, w, q, t, old, add, left
<1> QED
  BY <1>10, <1>11, <1>12, <1>13, <1>14

(* Writing moves the oldest bytes of the other buffer to the socket; an     *)
(* emptied buffer begins anew.                                              *)
LEMMA WriteStep ==
  ASSUME TypeOK, IndexOrder, SendFits, NEW s \in Side, WriteOutOf(s), sndq' = SndqAfterWrite(s)
  PROVE  /\ buf' = buf
         /\ readIdx' \in [Side -> 0..BUF_SIZE]
         /\ writeIdx' \in [Side -> 0..BUF_SIZE]
         /\ IndexOrder'
         /\ sndq'[s] \in Seq(Int) /\ Pending(Other(s))' \in Seq(Int)
         /\ Len(sndq'[s]) <= SockBuf
         /\ sndq'[s] \o Pending(Other(s))' = sndq[s] \o Pending(Other(s))
         /\ Pending(s)' = Pending(s)
<1> DEFINE n == BUF_SIZE
           o == Other(s)
           b == buf[o]
           r == readIdx[o]
           w == writeIdx[o]
           g == GivenTo(s)
           p == Pending(o)
           first == SubSeq(p, 1, g)
           later == SubSeq(b, w + g + 1, r)
<1>0. o \in Side /\ o # s
  BY SideFacts
<1>1. /\ n \in Nat /\ b \in [1..n -> Int] /\ w \in 0..n /\ r \in 0..n /\ w <= r
      /\ sndq[s] \in Seq(Int) /\ p \in Seq(Int) /\ Len(p) = r - w
  BY <1>0, RelayAssumption, Contents DEF TypeOK, IndexOrder
<1>2. g \in 0..(r - w)
  <2>1. Len(sndq[s]) \in Nat /\ Len(sndq[s]) <= SockBuf /\ SockBuf \in Nat
    BY Contents, RelayAssumption DEF SendFits
  <2>2. g = IF ended[s] = "rst" THEN 0 ELSE Smaller(r - w, SockBuf - Len(sndq[s]))
    BY <1>1 DEF GivenTo, Room, Source
  <2> QED
    BY <1>1, <2>1, <2>2 DEF Smaller
<1>3. p = first \o later
  <2>1. p = SubSeq(b, w + 1, r)
    BY DEF Pending
  <2> DEFINE x == SubSeq(b, w + 1, r)
  <2>2. x = SubSeq(x, 1, g) \o later
    <3> HIDE DEF n, b, r, w, g, p
    <3> QED
      BY <1>1, <1>2, WriteSplits
  <2> QED
    BY <2>1, <2>2
<1>4. first \in Seq(Int)
  <2> HIDE DEF n, b, r, w, g, p
  <2> QED
    BY <1>1, <1>2, SplitAt
<1>5. later \in Seq(Int) /\ Len(later) = r - (w + g)
  <2> DEFINE e == w + g
  <2>1. e \in 0..n /\ e <= r
    BY <1>1, <1>2
  <2>2. SubSeq(b, e + 1, r) \in Seq(Int) /\ Len(SubSeq(b, e + 1, r)) = r - e
    <3> HIDE DEF n, b, r, w, g, p, e
    <3> QED
      BY <1>1, <2>1, Between
  <2> QED
    BY <2>2
<1>6. /\ sndq' = [sndq EXCEPT ![s] = @ \o first]
      /\ buf' = buf
  BY DEF SndqAfterWrite, WriteOutOf, Source
<1>7. sndq'[s] = sndq[s] \o first /\ sndq'[s] \in Seq(Int) /\ Len(sndq'[s]) <= SockBuf
  <2>1. sndq'[s] = sndq[s] \o first
    BY <1>6 DEF TypeOK
  <2>2. Len(first) = g
    <3> HIDE DEF n, b, r, w, g, p
    <3> QED
      BY <1>1, <1>2, SplitAt
  <2>3. Len(sndq[s]) + g <= SockBuf
    <3>1. Len(sndq[s]) \in Nat /\ Len(sndq[s]) <= SockBuf /\ SockBuf \in Nat
      BY Contents, RelayAssumption DEF SendFits
    <3>2. g = IF ended[s] = "rst" THEN 0 ELSE Smaller(r - w, SockBuf - Len(sndq[s]))
      BY <1>1 DEF GivenTo, Room, Source
    <3> QED
      BY <1>1, <3>1, <3>2 DEF Smaller
  <2> HIDE DEF first, g
  <2>4. sndq[s] \o first \in Seq(Int) /\ Len(sndq[s] \o first) = Len(sndq[s]) + Len(first)
    BY <1>1, <1>4, ConcatProperties
  <2> QED
    BY <2>1, <2>2, <2>3, <2>4
<1>8. /\ writeIdx'[o] \in 0..n /\ readIdx'[o] \in 0..n /\ writeIdx'[o] <= readIdx'[o]
      /\ Pending(o)' = later
      /\ writeIdx' = [writeIdx EXCEPT ![o] = writeIdx'[o]]
      /\ readIdx' = [readIdx EXCEPT ![o] = readIdx'[o]]
  <2>0. Pending(o)' = SubSeq(buf'[o], writeIdx'[o] + 1, readIdx'[o])
    BY DEF Pending
  <2>1. CASE WriteResult(s) = "BUFFER_EMPTY"
    <3>1. g = r - w
      BY <2>1, <1>1 DEF WriteResult, Source
    <3>2. /\ writeIdx' = [writeIdx EXCEPT ![o] = 0]
          /\ readIdx' = [readIdx EXCEPT ![o] = 0]
      BY <2>1 DEF WriteOutOf, Source
    <3>3. writeIdx'[o] = 0 /\ readIdx'[o] = 0
      BY <3>2, <1>0 DEF TypeOK
    <3>4. SubSeq(buf'[o], 0 + 1, 0) = <<>>
      BY SubSeqEmpty
    <3>5. later = <<>>
      <4>1. Len(later) = 0
        BY <1>1, <1>5, <3>1
      <4> HIDE DEF later
      <4> QED
        BY <1>5, <4>1, EmptySeq
    <3>6. Pending(o)' = later
      <4> HIDE DEF later
      <4> QED
        BY <2>0, <3>3, <3>4, <3>5
    <3>7. 0 \in 0..n /\ 0 <= 0
      BY <1>1
    <3> QED
      BY <3>2, <3>3, <3>6, <3>7
  <2>2. CASE WriteResult(s) # "BUFFER_EMPTY"
    <3>1. /\ writeIdx' = [writeIdx EXCEPT ![o] = w + g]
          /\ readIdx' = [readIdx EXCEPT ![o] = r]
      BY <2>2 DEF WriteOutOf, Source
    <3>2. writeIdx'[o] = w + g /\ readIdx'[o] = r
      BY <3>1, <1>0 DEF TypeOK
    <3>3. w + g \in 0..n /\ w + g <= r
      BY <1>1, <1>2
    <3> QED
      BY <2>0, <3>1, <3>2, <3>3, <1>1, <1>6
  <2> QED
    BY <2>1, <2>2
<1>9. /\ readIdx' \in [Side -> 0..BUF_SIZE] /\ writeIdx' \in [Side -> 0..BUF_SIZE]
      /\ \A x \in Side : x # o => readIdx'[x] = readIdx[x] /\ writeIdx'[x] = writeIdx[x]
  BY <1>0, <1>8 DEF TypeOK
<1>10. IndexOrder'
  <2>1. \A x \in Side : writeIdx'[x] <= readIdx'[x]
    BY <1>8, <1>9 DEF IndexOrder
  <2> QED
    BY <2>1 DEF IndexOrder
<1>11. sndq'[s] \o Pending(o)' = sndq[s] \o p
  <2>1. (sndq[s] \o first) \o later = sndq[s] \o (first \o later)
    <3> HIDE DEF first, later
    <3> QED
      BY <1>1, <1>4, <1>5, Assoc
  <2>2. sndq[s] \o (first \o later) = sndq[s] \o p
    BY <1>3
  <2> HIDE DEF first, later, p
  <2> QED
    BY <2>1, <2>2, <1>7, <1>8
<1>12. Pending(s)' = Pending(s)
  BY <1>0, <1>6, <1>9 DEF Pending
<1> QED
  BY <1>5, <1>6, <1>7, <1>8, <1>9, <1>10, <1>11, <1>12

(* A byte more at the end.                                                  *)
LEMMA AppendRight ==
  ASSUME NEW x \in Seq(Int), NEW y \in Seq(Int), NEW e \in Int
  PROVE  x \o Append(y, e) = Append(x \o y, e) /\ Append(y, e) \in Seq(Int)
<1>1. Append(y, e) = y \o <<e>> /\ Append(y, e) \in Seq(Int)
  BY AppendIsConcat, AppendProperties
<1> DEFINE l == <<e>>
           xy == x \o y
<1>2. l \in Seq(Int) /\ xy \in Seq(Int)
  BY ConcatProperties
<1>3. Append(xy, e) = xy \o l
  <2> HIDE DEF xy
  <2> QED
    BY <1>2, AppendIsConcat DEF l
<1>4. xy \o l = x \o (y \o l)
  <2> HIDE DEF l
  <2> QED
    BY <1>2, Assoc DEF xy
<1> QED
  BY <1>1, <1>3, <1>4

(* A peer's stream grows at its end.                                        *)
LEMMA StreamGrows ==
  ASSUME TypeOK, TypeOK', NEW s \in Side, sent' = [sent EXCEPT ![s] = @ + 1]
  PROVE  /\ Byte(s, sent[s] + 1) \in Int
         /\ Stream(s)' = Append(Stream(s), Byte(s, sent[s] + 1))
         /\ \A x \in Side : x # s => Stream(x)' = Stream(x)
<1> DEFINE n == sent[s]
           e == Byte(s, n + 1)
           old == [k \in 1..n |-> Byte(s, k)]
           new == [k \in 1..n + 1 |-> Byte(s, k)]
<1>1. n \in Nat /\ sent'[s] = n + 1 /\ \A x \in Side : x # s => sent'[x] = sent[x]
  BY DEF TypeOK
<1>2. e \in Int /\ old \in [1..n -> Int] /\ new \in [1..n + 1 -> Int]
  BY <1>1 DEF Byte
<1>3. old \in Seq(Int) /\ new \in Seq(Int) /\ Len(old) = n /\ Len(new) = n + 1
  <2> HIDE DEF old, new, n
  <2>1. n + 1 \in Nat
    BY <1>1
  <2>2. old \in Seq(Int)
    BY <1>1, <1>2, IsASeq
  <2>3. new \in Seq(Int)
    BY <1>2, <2>1, IsASeq
  <2>4. Len(old) = n
    BY <1>1, <1>2, <2>2, LenProperties
  <2>5. Len(new) = n + 1
    BY <1>2, <2>1, <2>3, LenProperties
  <2> QED
    BY <2>2, <2>3, <2>4, <2>5
<1>4. /\ Append(old, e) \in Seq(Int) /\ Len(Append(old, e)) = n + 1
      /\ \A i \in 1..n : Append(old, e)[i] = old[i]
      /\ Append(old, e)[n + 1] = e
  <2> HIDE DEF old, n, e
  <2> QED
    BY <1>2, <1>3, AppendProperties
<1> DEFINE app == Append(old, e)
<1>5. ASSUME NEW i \in 1..n + 1 PROVE app[i] = new[i]
  <2>1. CASE i \in 1..n
    <3>1. app[i] = old[i]
      BY <1>4, <2>1
    <3>2. old[i] = Byte(s, i) /\ new[i] = Byte(s, i)
      BY <2>1
    <3> HIDE DEF app, old, new
    <3> QED
      BY <3>1, <3>2
  <2>2. CASE i = n + 1
    <3>1. app[i] = e
      BY <1>4, <2>2
    <3>2. new[i] = e
      BY <2>2
    <3> HIDE DEF app, new, e
    <3> QED
      BY <3>1, <3>2
  <2> QED
    BY <1>1, <2>1, <2>2
<1>6. app = new
  <2>1. app \in Seq(Int) /\ Len(app) = n + 1
    BY <1>4
  <2> HIDE DEF app, new, n
  <2> QED
    BY <1>3, <1>5, <2>1, SeqEqual
<1>7. Stream(s) = old /\ Stream(s)' = new
  BY <1>1 DEF Stream
<1>8. \A x \in Side : x # s => Stream(x)' = Stream(x)
  BY <1>1 DEF Stream
<1> HIDE DEF old, new
<1> QED
  BY <1>2, <1>6, <1>7, <1>8

(* The invariant holds at the start.                                        *)
LEMMA BytesInit == Init => BytesInv
<1> SUFFICES ASSUME Init PROVE BytesInv
  OBVIOUS
<1> USE DEF Init
<1>1. TypeOK
  <2>1. <<>> \in Seq([side : Side, type : {"IN", "OUT"}]) /\ <<>> \in Seq(Int)
    BY EmptySeq
  <2>2. BUF_SIZE \in Nat /\ 0 \in 0..BUF_SIZE
    BY RelayAssumption
  <2>3. buf \in [Side -> [1..BUF_SIZE -> Int]]
    OBVIOUS
  <2>4. /\ batch \in Seq([side : Side, type : {"IN", "OUT"}])
        /\ rcvq \in [Side -> Seq(Int)] /\ sndq \in [Side -> Seq(Int)] /\ got \in [Side -> Seq(Int)]
    BY <2>1
  <2>5. readIdx \in [Side -> 0..BUF_SIZE] /\ writeIdx \in [Side -> 0..BUF_SIZE]
    BY <2>2
  <2> QED
    BY <2>3, <2>4, <2>5 DEF TypeOK
<1>2. IndexOrder /\ SendFits
  <2>1. \A s \in Side : sndq[s] = <<>> /\ Len(<<>>) = 0
    BY EmptySeq
  <2> QED
    BY <2>1, RelayAssumption DEF IndexOrder, SendFits
<1>3. \A s \in Side : /\ got[Other(s)] = <<>> /\ sndq[Other(s)] = <<>> /\ rcvq[s] = <<>>
                      /\ Pending(s) = <<>> /\ Stream(s) = <<>>
  <2> TAKE s \in Side
  <2>1. Other(s) \in Side
    BY SideFacts
  <2>2. Pending(s) = <<>>
    BY SubSeqEmpty DEF Pending
  <2>3. Stream(s) = <<>>
    BY DEF Stream
  <2> QED
    BY <2>1, <2>2, <2>3
<1>4. <<>> \o <<>> = <<>> /\ <<>> \in Seq(Int)
  BY ConcatEmptySeq, EmptySeq
<1>5. Conservation
  BY <1>3, <1>4 DEF Conservation
<1>6. BeginsStream
  BY <1>3, <1>4 DEF BeginsStream, Delivered
<1> QED
  BY <1>1, <1>2, <1>5, <1>6 DEF BytesInv

(* What every step that leaves the session alone keeps of the types.        *)
LEMMA TypesPeer ==
  ASSUME TypeOK, NEW s \in Side, Peer(s)
  PROVE  TypeOK'
<1> USE DEF TypeOK
<1>1. CASE PeerWrites(s)
  <2>1. Byte(s, sent[s] + 1) \in Int
    BY DEF Byte
  <2>2. Append(rcvq[s], Byte(s, sent[s] + 1)) \in Seq(Int)
    BY <2>1, AppendProperties
  <2>3. rcvq' \in [Side -> Seq(Int)]
    BY <1>1, <2>2 DEF PeerWrites
  <2>4. sent' \in [Side -> Nat] /\ edge' \in [Side -> BOOLEAN]
    BY <1>1 DEF PeerWrites
  <2> QED
    BY <1>1, <2>3, <2>4 DEF PeerWrites, connVars
<1>2. CASE PeerReads(s)
  <2>1. Append(got[s], Head(sndq[s])) \in Seq(Int) /\ Tail(sndq[s]) \in Seq(Int)
    BY <1>2, MoveHead DEF PeerReads
  <2>2. got' \in [Side -> Seq(Int)] /\ sndq' \in [Side -> Seq(Int)]
    BY <1>2, <2>1 DEF PeerReads
  <2>3. edge' \in [Side -> BOOLEAN]
    BY <1>2 DEF PeerReads
  <2> QED
    BY <1>2, <2>2, <2>3 DEF PeerReads, connVars
<1>3. CASE PeerCloses(s)
  BY <1>3 DEF PeerCloses, connVars
<1>4. CASE PeerResets(s)
  <2>1. <<>> \in Seq(Int)
    BY EmptySeq
  <2>2. sndq' \in [Side -> Seq(Int)]
    BY <1>4, <2>1 DEF PeerResets
  <2> QED
    BY <1>4, <2>2 DEF PeerResets, connVars
<1> QED
  BY <1>1, <1>2, <1>3, <1>4 DEF Peer

(* A set put in order: each element has one place.                          *)
LEMMA InOrder ==
  ASSUME NEW S, IsFiniteSet(S), NEW order \in SetToSeqs(S)
  PROVE  \E n \in Nat :
           /\ order \in [1..n -> S]
           /\ \A i, j \in 1..n : order[i] = order[j] => i = j
           /\ \A x \in S : \E i \in 1..n : order[i] = x
<1> DEFINE n == Cardinality(S)
           D == 1..n
<1>1. /\ n \in Nat
      /\ order \in [D -> S]
      /\ \A i, j \in D : order[i] = order[j] => i = j
  BY FS_CardinalityType DEF SetToSeqs
<1>2. IsFiniteSet(D) /\ Cardinality(D) = n
  BY <1>1, FS_Interval
<1>3. order \in Injection(D, S)
  BY <1>1, Fun_IsInj
<1>4. order \in Surjection(D, S)
  <2> HIDE DEF D
  <2> QED
    BY <1>2, <1>3, FS_Injection
<1> QED
  BY <1>1, <1>4 DEF Surjection

(* What epoll_wait reports: every ready socket once, with the event it is   *)
(* registered for.                                                          *)
LEMMA Reported ==
  ASSUME TypeOK, EpollWait
  PROVE  /\ batch' \in Seq(EventType)
         /\ \A i \in 1..Len(batch') :
              batch'[i].side \in Side /\ batch'[i].type = interest[batch'[i].side]
         /\ \A i, j \in 1..Len(batch') : batch'[i].side = batch'[j].side => i = j
         /\ \A s \in Side : edge[s] /\ Ready(s, interest[s], rcvq, sndq) =>
              \E i \in 1..Len(batch') : batch'[i] = [side |-> s, type |-> interest[s]]
<1> DEFINE fired == {s \in Side : edge[s] /\ Ready(s, interest[s], rcvq, sndq)}
<1>1. PICK order \in SetToSeqs(fired) :
        batch' = [i \in DOMAIN order |-> [side |-> order[i], type |-> interest[order[i]]]]
  BY DEF EpollWait
<1>2. IsFiniteSet(fired) /\ fired \subseteq Side
  <2>1. Side = {"clt"} \cup {"srv"}
    BY DEF Side
  <2>2. IsFiniteSet({"clt"}) /\ IsFiniteSet({"srv"})
    BY FS_Singleton
  <2>3. IsFiniteSet(Side)
    BY <2>1, <2>2, FS_Union
  <2>4. fired \subseteq Side
    OBVIOUS
  <2> HIDE DEF fired
  <2> QED
    BY <2>3, <2>4, FS_Subset
<1>3. PICK n \in Nat :
           /\ order \in [1..n -> fired]
           /\ \A i, j \in 1..n : order[i] = order[j] => i = j
           /\ \A x \in fired : \E i \in 1..n : order[i] = x
  <2> HIDE DEF fired
  <2> QED
    BY <1>1, <1>2, InOrder
<1>4. DOMAIN order = 1..n /\ \A i \in 1..n : order[i] \in Side /\ interest[order[i]] \in {"IN", "OUT"}
  <2> HIDE DEF fired
  <2> QED
    BY <1>2, <1>3 DEF TypeOK
<1>5. batch' \in [1..n -> EventType]
  <2> HIDE DEF fired
  <2> QED
    BY <1>1, <1>4 DEF EventType
<1>6. batch' \in Seq(EventType)
  BY <1>5, IsASeq
<1>7. Len(batch') = n
  BY <1>5, <1>6, LenProperties
<1>8. \A i \in 1..n : batch'[i] = [side |-> order[i], type |-> interest[order[i]]]
  BY <1>1, <1>4
<1>9. \A i \in 1..n : batch'[i].side = order[i] /\ batch'[i].type = interest[order[i]]
  <2> TAKE i \in 1..n
  <2> DEFINE e == [side |-> order[i], type |-> interest[order[i]]]
  <2>1. e.side = order[i] /\ e.type = interest[order[i]]
    OBVIOUS
  <2>2. batch'[i] = e
    BY <1>8
  <2> HIDE DEF e
  <2> QED
    BY <2>1, <2>2
<1>10. \A s \in Side : edge[s] /\ Ready(s, interest[s], rcvq, sndq) =>
         \E i \in 1..n : batch'[i] = [side |-> s, type |-> interest[s]]
  <2> TAKE s \in Side
  <2> HAVE edge[s] /\ Ready(s, interest[s], rcvq, sndq)
  <2>1. s \in fired
    OBVIOUS
  <2>2. PICK i \in 1..n : order[i] = s
    BY <1>3, <2>1
  <2> QED
    BY <1>8, <2>2
<1> QED
  BY <1>3, <1>4, <1>6, <1>7, <1>9, <1>10

(* The order in which events are reported is a sequence of them.            *)
LEMMA TypesEpollWait == TypeOK /\ EpollWait => TypeOK'
<1> SUFFICES ASSUME TypeOK, EpollWait PROVE TypeOK'
  OBVIOUS
<1>1. batch' \in Seq([side : Side, type : {"IN", "OUT"}])
  BY Reported DEF EventType
<1> QED
  BY <1>1 DEF EpollWait, TypeOK, connVars, peerVars

(* What modfd leaves is well typed.                                         *)
LEMMA TypesModfd ==
  ASSUME TypeOK, NEW mods, NEW rq, NEW sq, DOMAIN mods \subseteq Side,
         \A s \in DOMAIN mods : mods[s] \in {"IN", "OUT"}, Modfd(mods, rq, sq)
  PROVE  interest' \in [Side -> {"IN", "OUT"}] /\ edge' \in [Side -> BOOLEAN]
<1>1. interest' \in [Side -> {"IN", "OUT"}]
  BY DEF Modfd, TypeOK
<1>2. \A s \in Side : Ready(s, mods[s], rq, sq) \in BOOLEAN
  BY DEF Ready
<1> QED
  BY <1>1, <1>2 DEF Modfd, TypeOK

(* The events left and the ended session are well typed.                    *)
LEMMA TypesLeft ==
  ASSUME TypeOK
  PROVE  /\ FreeConn =>
              /\ m_srv_closed' \in BOOLEAN /\ live' \in BOOLEAN
              /\ buf' \in [Side -> [1..BUF_SIZE -> Int]]
              /\ readIdx' \in [Side -> 0..BUF_SIZE] /\ writeIdx' \in [Side -> 0..BUF_SIZE]
              /\ batch' \in Seq([side : Side, type : {"IN", "OUT"}])
              /\ edge' \in [Side -> BOOLEAN] /\ interest' \in [Side -> {"IN", "OUT"}]
         /\ Continue /\ batch # <<>> =>
              batch' \in Seq([side : Side, type : {"IN", "OUT"}]) /\ live' \in BOOLEAN
<1> DEFINE E == [side : Side, type : {"IN", "OUT"}]
<1>1. <<>> \in Seq(E) /\ BUF_SIZE \in Nat
  BY EmptySeq, RelayAssumption
<1>2. ASSUME FreeConn
      PROVE  /\ m_srv_closed' \in BOOLEAN /\ live' \in BOOLEAN
             /\ buf' \in [Side -> [1..BUF_SIZE -> Int]]
             /\ readIdx' \in [Side -> 0..BUF_SIZE] /\ writeIdx' \in [Side -> 0..BUF_SIZE]
             /\ batch' \in Seq(E)
             /\ edge' \in [Side -> BOOLEAN] /\ interest' \in [Side -> {"IN", "OUT"}]
  <2>1. buf' \in [Side -> [1..BUF_SIZE -> Int]]
    BY <1>2 DEF FreeConn
  <2>2. 0 \in 0..BUF_SIZE
    BY <1>1
  <2>3. readIdx' \in [Side -> 0..BUF_SIZE] /\ writeIdx' \in [Side -> 0..BUF_SIZE]
    BY <1>2, <2>2 DEF FreeConn
  <2>4. batch' \in Seq(E)
    BY <1>1, <1>2 DEF FreeConn
  <2> HIDE DEF E
  <2> QED
    BY <1>2, <2>1, <2>3, <2>4 DEF FreeConn, TypeOK
<1>3. ASSUME Continue, batch # <<>>
      PROVE  batch' \in Seq(E) /\ live' \in BOOLEAN
  <2>1. batch \in Seq(E) /\ live \in BOOLEAN
    BY DEF TypeOK
  <2> HIDE DEF E
  <2> QED
    BY <1>3, <2>1, HeadTailProperties DEF Continue
<1> QED
  BY <1>2, <1>3

(* A handler that reads socket s, whatever it does with the session.        *)
Reads(s) ==
  /\ Event(s, "IN")
  /\ rcvq' = RcvqAfterRead(s)
  /\ UNCHANGED <<orderly, sent, sndq, got, ended>>
  /\ \/ FreeConn
     \/ /\ ReadInto(s) /\ Continue /\ m_srv_closed' \in BOOLEAN
        /\ interest' \in [Side -> {"IN", "OUT"}] /\ edge' \in [Side -> BOOLEAN]

(* A handler that writes to socket s.                                       *)
Writes(s) ==
  /\ Event(s, "OUT")
  /\ sndq' = SndqAfterWrite(s)
  /\ UNCHANGED <<orderly, sent, rcvq, got, ended>>
  /\ \/ FreeConn
     \/ /\ WriteOutOf(s) /\ Continue /\ m_srv_closed' \in BOOLEAN
        /\ interest' \in [Side -> {"IN", "OUT"}] /\ edge' \in [Side -> BOOLEAN]

(* The four handlers read or write one socket.                              *)
LEMMA ProcessMoves ==
  ASSUME TypeOK, Process
  PROVE  \E s \in Side : Reads(s) \/ Writes(s)
<1> USE DEF Side
<1>0. /\ m_srv_closed \in BOOLEAN
      /\ interest \in [Side -> {"IN", "OUT"}] /\ edge \in [Side -> BOOLEAN]
  BY DEF TypeOK
<1>1. ASSUME NEW S \in SUBSET Side, NEW v \in {"IN", "OUT"}, Modfd([x \in S |-> v], rcvq', sndq')
      PROVE  interest' \in [Side -> {"IN", "OUT"}] /\ edge' \in [Side -> BOOLEAN]
  <2> DEFINE mods == [x \in S |-> v]
  <2>1. DOMAIN mods \subseteq Side /\ \A x \in DOMAIN mods : mods[x] \in {"IN", "OUT"}
    OBVIOUS
  <2> HIDE DEF mods
  <2>2. Modfd(mods, rcvq', sndq')
    BY <1>1 DEF mods
  <2> HIDE DEF Side
  <2> QED
    BY <2>1, <2>2, TypesModfd
<1>2. CASE ReadClient
  <2>1. \/ FreeConn
        \/ /\ ReadInto("clt") /\ Continue /\ m_srv_closed' = m_srv_closed
           /\ \/ Modfd([s \in {"srv"} |-> "OUT"], rcvq', sndq')
              \/ UNCHANGED <<interest, edge>>
    BY <1>2 DEF ReadClient
  <2>2. Reads("clt")
    BY <1>0, <1>1, <1>2, <2>1 DEF ReadClient, Reads
  <2> QED
    BY <2>2
<1>3. CASE WriteClient
  <2>1. \/ FreeConn
        \/ /\ WriteOutOf("clt") /\ Continue /\ m_srv_closed' = m_srv_closed
           /\ \/ Modfd([s \in {"clt"} |-> "OUT"], rcvq', sndq')
              \/ Modfd([s \in Side |-> "IN"], rcvq', sndq')
    BY <1>3 DEF WriteClient
  <2>2. Writes("clt")
    BY <1>0, <1>1, <1>3, <2>1 DEF WriteClient, Writes
  <2> QED
    BY <2>2
<1>4. CASE ReadServer
  <2>1. /\ ReadInto("srv") /\ Continue /\ m_srv_closed' \in BOOLEAN
        /\ \/ Modfd([s \in {"clt"} |-> "OUT"], rcvq', sndq')
           \/ UNCHANGED <<interest, edge>>
    BY <1>4 DEF ReadServer
  <2>2. Reads("srv")
    BY <1>0, <1>1, <1>4, <2>1 DEF ReadServer, Reads
  <2> QED
    BY <2>2
<1>5. CASE WriteServer
  <2>1. /\ WriteOutOf("srv") /\ Continue /\ m_srv_closed' \in BOOLEAN
        /\ \/ Modfd([s \in {"srv"} |-> "OUT"], rcvq', sndq')
           \/ Modfd([s \in Side |-> "IN"], rcvq', sndq')
           \/ Modfd([s \in {"clt"} |-> "OUT"], rcvq', sndq')
    BY <1>5 DEF WriteServer
  <2>2. Writes("srv")
    BY <1>0, <1>1, <1>5, <2>1 DEF WriteServer, Writes
  <2> QED
    BY <2>2
<1> QED
  BY <1>2, <1>3, <1>4, <1>5 DEF Process

(* The parts, joined by name.                                               *)
LEMMA InParts ==
  ASSUME NEW s \in Side
  PROVE  /\ Delivered(s) = Cat(got[Other(s)], sndq[Other(s)])
         /\ Held(s) = Cat(Cat(Cat(got[Other(s)], sndq[Other(s)]), Pending(s)), rcvq[s])
         /\ Delivered(s)' = Cat(got'[Other(s)], sndq'[Other(s)])
         /\ Held(s)' = Cat(Cat(Cat(got'[Other(s)], sndq'[Other(s)]), Pending(s)'), rcvq'[s])
<1>1. Delivered(s) = Cat(got[Other(s)], sndq[Other(s)])
  BY DEF Delivered, Cat
<1>2. Held(s) = Cat(Cat(Cat(got[Other(s)], sndq[Other(s)]), Pending(s)), rcvq[s])
  BY DEF Held, Cat
<1>3. Delivered(s)' = Cat(got'[Other(s)], sndq'[Other(s)])
  BY DEF Delivered, Cat
<1>4. Held(s)' = Cat(Cat(Cat(got'[Other(s)], sndq'[Other(s)]), Pending(s)'), rcvq'[s])
  BY DEF Held, Cat
<1> QED
  BY <1>1, <1>2, <1>3, <1>4

(* Reading keeps the bytes.                                                 *)
LEMMA BytesReads ==
  ASSUME BytesInv, NEW s \in Side, Reads(s)
  PROVE  BytesInv'
<1>1. /\ TypeOK /\ IndexOrder /\ SendFits /\ Conservation /\ BeginsStream
      /\ batch # <<>>
      /\ UNCHANGED <<orderly, sent, sndq, got, ended>>
      /\ rcvq' = RcvqAfterRead(s)
  BY DEF Reads, Event, BytesInv
<1>2. BeginsStream' /\ SendFits'
  BY <1>1 DEF BeginsStream, Delivered, Stream, SendFits
<1>3. ASSUME FreeConn
      PROVE  TypeOK' /\ IndexOrder' /\ Conservation'
  <2>1. rcvq' \in [Side -> Seq(Int)]
    <3>1. TakenFrom(s) \in 0..Len(rcvq[s])
      <4>1. BUF_SIZE \in Nat /\ readIdx[s] \in 0..BUF_SIZE /\ Len(rcvq[s]) \in Nat
        BY <1>1, RelayAssumption, Contents DEF TypeOK
      <4> QED
        BY <4>1 DEF TakenFrom, Smaller
    <3>2. SubSeq(rcvq[s], TakenFrom(s) + 1, Len(rcvq[s])) \in Seq(Int)
      BY <1>1, <3>1, Contents, SplitAt
    <3> QED
      BY <1>1, <3>2 DEF RcvqAfterRead, TypeOK
  <2>2. TypeOK'
    BY <1>1, <1>3, <2>1, TypesLeft DEF TypeOK
  <2>3. live' = FALSE /\ \A x \in Side : writeIdx'[x] = 0 /\ readIdx'[x] = 0
    BY <1>3 DEF FreeConn
  <2>4. \A x \in Side : writeIdx'[x] <= readIdx'[x]
    BY <2>3
  <2> QED
    BY <2>2, <2>3, <2>4 DEF IndexOrder, Conservation
<1>4. ASSUME ReadInto(s), Continue, m_srv_closed' \in BOOLEAN,
             interest' \in [Side -> {"IN", "OUT"}], edge' \in [Side -> BOOLEAN]
      PROVE  TypeOK' /\ IndexOrder' /\ Conservation'
  <2>1. /\ buf' \in [Side -> [1..BUF_SIZE -> Int]]
        /\ readIdx' \in [Side -> 0..BUF_SIZE]
        /\ rcvq' \in [Side -> Seq(Int)]
        /\ IndexOrder'
        /\ Pending(s)' \in Seq(Int) /\ rcvq'[s] \in Seq(Int)
        /\ Pending(s)' \o rcvq'[s] = Pending(s) \o rcvq[s]
        /\ \A x \in Side : x # s => Pending(x)' = Pending(x) /\ rcvq'[x] = rcvq[x]
    BY <1>1, <1>4, ReadStep
  <2>2. TypeOK'
    <3>1. writeIdx' \in [Side -> 0..BUF_SIZE]
      BY <1>1, <1>4 DEF ReadInto, TypeOK
    <3>2. batch' \in Seq([side : Side, type : {"IN", "OUT"}]) /\ live' \in BOOLEAN
      BY <1>1, <1>4, TypesLeft
    <3> QED
      BY <1>1, <1>4, <2>1, <3>1, <3>2 DEF TypeOK
  <2>3. Held(s)' = Held(s)
    <3> DEFINE d == Cat(got[Other(s)], sndq[Other(s)])
    <3>1. /\ d \in Seq(Int) /\ Pending(s) \in Seq(Int) /\ rcvq[s] \in Seq(Int)
      <4>1. got[Other(s)] \in Seq(Int) /\ sndq[Other(s)] \in Seq(Int)
        BY <1>1, SideFacts DEF TypeOK
      <4> QED
        BY <1>1, <4>1, Contents, CatFacts
    <3>2. Cat(Pending(s)', rcvq'[s]) = Cat(Pending(s), rcvq[s])
      BY <2>1 DEF Cat
    <3>3. Held(s) = Cat(Cat(d, Pending(s)), rcvq[s]) /\ Held(s)' = Cat(Cat(d, Pending(s)'), rcvq'[s])
      BY <1>1, InParts
    <3> HIDE DEF d
    <3> QED
      BY <2>1, <3>1, <3>2, <3>3, SameTail
  <2>4. \A x \in Side : x # s => Held(x)' = Held(x)
    BY <1>1, <2>1 DEF Held
  <2>5. Conservation'
    <3>1. \A x \in Side : Stream(x)' = Stream(x) /\ ended'[Other(x)] = ended[Other(x)]
      BY <1>1 DEF Stream
    <3>2. live => \A x \in Side : ended[Other(x)] # "rst" => Held(x) = Stream(x)
      BY <1>1 DEF Conservation, Held
    <3>3. live' => \A x \in Side : ended'[Other(x)] # "rst" => Held(x)' = Stream(x)'
      BY <1>4, <2>3, <2>4, <3>1, <3>2 DEF Continue
    <3> QED
      BY <3>3 DEF Conservation, Held
  <2> QED
    BY <2>1, <2>2, <2>5
<1> QED
  BY <1>2, <1>3, <1>4 DEF Reads, BytesInv

(* Writing keeps the bytes.                                                 *)
LEMMA BytesWrites ==
  ASSUME BytesInv, NEW s \in Side, Writes(s)
  PROVE  BytesInv'
<1> DEFINE o == Other(s)
           g == got[s]
           q == sndq[s]
           p == Pending(o)
           k == GivenTo(s)
           f == SubSeq(p, 1, k)
           e == SubSeq(p, k + 1, Len(p))
           r == rcvq[o]
<1>0. /\ TypeOK /\ IndexOrder /\ SendFits /\ Conservation /\ BeginsStream
      /\ batch # <<>> /\ live
      /\ UNCHANGED <<orderly, sent, rcvq, got, ended>>
      /\ sndq' = SndqAfterWrite(s)
  BY DEF Writes, Event, BytesInv
<1>1. o \in Side /\ o # s /\ Other(o) = s /\ \A x \in Side : x # o => Other(x) = o /\ x = s
  BY DEF Side, Other
<1>2. /\ g \in Seq(Int) /\ q \in Seq(Int) /\ p \in Seq(Int) /\ r \in Seq(Int)
      /\ Len(q) \in Nat /\ Len(p) \in Nat /\ Len(q) <= SockBuf /\ SockBuf \in Nat
  BY <1>0, <1>1, Contents, LenProperties, RelayAssumption DEF SendFits
<1>3. k \in 0..Len(p) /\ Len(q) + k <= SockBuf /\ (ended[s] = "rst" => k = 0)
  <2>1. k = IF ended[s] = "rst" THEN 0 ELSE Smaller(Len(p), SockBuf - Len(q))
    BY DEF GivenTo, Room, Source
  <2> HIDE DEF p, q, k
  <2> QED
    BY <1>2, <2>1 DEF Smaller
<1>4. f \in Seq(Int) /\ Len(f) = k /\ e \in Seq(Int) /\ p = Cat(f, e)
  <2> HIDE DEF p, k
  <2> QED
    BY <1>2, <1>3, SplitAt DEF Cat
<1>5. sndq' = [sndq EXCEPT ![s] = Cat(q, f)]
  BY <1>0 DEF SndqAfterWrite, Source, Cat
<1>6. Cat(q, f) \in Seq(Int) /\ Len(Cat(q, f)) = Len(q) + k
  <2> HIDE DEF q, f, p, k
  <2> QED
    BY <1>2, <1>4, CatFacts
<1>7. /\ sndq' \in [Side -> Seq(Int)] /\ sndq'[s] = Cat(q, f)
      /\ \A x \in Side : x # s => sndq'[x] = sndq[x]
  <2>1. sndq \in [Side -> Seq(Int)]
    BY <1>0 DEF TypeOK
  <2> HIDE DEF q, f
  <2> QED
    BY <1>5, <1>6, <2>1
<1>8. SendFits'
  <2>1. \A x \in Side : Len(sndq'[x]) <= SockBuf
    <3> HIDE DEF q, f, p, k
    <3> QED
      BY <1>0, <1>3, <1>6, <1>7 DEF SendFits
  <2> QED
    BY <2>1 DEF SendFits
<1>9. BeginsStream'
  <2>1. PICK rest \in Seq(Int) : Stream(o) = Delivered(o) \o rest
    BY <1>0, <1>1 DEF BeginsStream
  <2>2. \E more \in Seq(Int) : Stream(o) = Cat(Cat(g, Cat(q, f)), more)
    <3>1. CASE ended[s] = "rst"
      <4>1. f = <<>>
        <5> HIDE DEF f, p
        <5> QED
          BY <1>3, <1>4, <3>1, EmptySeq
      <4>2. Cat(q, f) = q
        <5> HIDE DEF q, f
        <5> QED
          BY <1>2, <4>1, CatFacts
      <4>3. Stream(o) = Cat(Delivered(o), rest) /\ Delivered(o) = Cat(g, q)
        BY <1>1, <2>1, InParts DEF Cat
      <4> HIDE DEF q, f, g
      <4> QED
        BY <4>2, <4>3
    <3>2. CASE ended[s] # "rst"
      <4>1. Stream(o) = Cat(Cat(Cat(g, q), p), r)
        <5>1. Held(o) = Cat(Cat(Cat(g, q), p), r)
          BY <1>1, InParts
        <5>2. Held(o) = Stream(o)
          BY <1>0, <1>1, <3>2 DEF Conservation, Held
        <5> QED
          BY <5>1, <5>2
      <4> HIDE DEF g, q, p, r, f, e
      <4>2. /\ Cat(Cat(Cat(g, q), Cat(f, e)), r) = Cat(Cat(g, Cat(q, f)), Cat(e, r))
            /\ Cat(e, r) \in Seq(Int)
        BY <1>2, <1>4, Resplit
      <4> QED
        BY <1>4, <4>1, <4>2
    <3> QED
      BY <3>1, <3>2
  <2>3. \A x \in Side : Stream(x)' = Stream(x)
    BY <1>0 DEF Stream
  <2>4. Delivered(o)' = Cat(g, Cat(q, f))
    <3>1. Delivered(o)' = Cat(got'[s], sndq'[s])
      BY <1>1, InParts
    <3> HIDE DEF q, f
    <3> QED
      BY <1>0, <1>7, <3>1
  <2>5. \A x \in Side : x # o => Delivered(x)' = Delivered(x)
    BY <1>0, <1>1, <1>7 DEF Delivered
  <2>6. \A x \in Side : \E more \in Seq(Int) : Stream(x)' = Cat(Delivered(x)', more)
    <3>1. \A x \in Side : \E more \in Seq(Int) : Stream(x) = Cat(Delivered(x), more)
      BY <1>0 DEF BeginsStream, Cat
    <3>2. \E more \in Seq(Int) : Stream(o)' = Cat(Delivered(o)', more)
      <4> HIDE DEF q, f, g
      <4> QED
        BY <1>1, <2>2, <2>3, <2>4
    <3>3. ASSUME NEW x \in Side, x # o
          PROVE  \E more \in Seq(Int) : Stream(x)' = Cat(Delivered(x)', more)
      BY <2>3, <2>5, <3>1, <3>3
    <3> QED
      BY <3>2, <3>3
  <2> QED
    BY <2>6 DEF BeginsStream, Cat
<1>10. ASSUME FreeConn
       PROVE  TypeOK' /\ IndexOrder' /\ Conservation'
  <2>1. TypeOK'
    BY <1>0, <1>7, <1>10, TypesLeft DEF TypeOK
  <2>2. live' = FALSE /\ \A x \in Side : writeIdx'[x] = 0 /\ readIdx'[x] = 0
    BY <1>10 DEF FreeConn
  <2>3. \A x \in Side : writeIdx'[x] <= readIdx'[x]
    BY <2>2
  <2> QED
    BY <2>1, <2>2, <2>3 DEF IndexOrder, Conservation
<1>11. ASSUME WriteOutOf(s), Continue, m_srv_closed' \in BOOLEAN,
              interest' \in [Side -> {"IN", "OUT"}], edge' \in [Side -> BOOLEAN]
       PROVE  TypeOK' /\ IndexOrder' /\ Conservation'
  <2>1. /\ buf' = buf
        /\ readIdx' \in [Side -> 0..BUF_SIZE]
        /\ writeIdx' \in [Side -> 0..BUF_SIZE]
        /\ IndexOrder'
        /\ sndq'[s] \in Seq(Int) /\ Pending(o)' \in Seq(Int)
        /\ sndq'[s] \o Pending(o)' = q \o p
        /\ Pending(s)' = Pending(s)
    BY <1>0, <1>11, WriteStep
  <2>2. TypeOK'
    <3>1. batch' \in Seq([side : Side, type : {"IN", "OUT"}]) /\ live' \in BOOLEAN
      BY <1>0, <1>11, TypesLeft
    <3> QED
      BY <1>0, <1>7, <1>11, <2>1, <3>1 DEF TypeOK
  <2>3. Held(o)' = Held(o)
    <3>1. Cat(sndq'[s], Pending(o)') = Cat(q, p)
      BY <2>1 DEF Cat
    <3>2. Cat(Cat(g, sndq'[s]), Pending(o)') = Cat(g, Cat(sndq'[s], Pending(o)'))
      <4> DEFINE a == sndq'[s]
                 b == Pending(o)'
      <4>1. a \in Seq(Int) /\ b \in Seq(Int)
        BY <2>1
      <4> HIDE DEF a, b, g
      <4>2. Cat(Cat(g, a), b) = Cat(g, Cat(a, b))
        BY <1>2, <4>1, CatFacts
      <4> QED
        BY <4>2 DEF a, b
    <3>3. Cat(Cat(g, q), p) = Cat(g, Cat(q, p))
      <4> HIDE DEF g, q, p
      <4> QED
        BY <1>2, CatFacts
    <3>4. /\ Held(o) = Cat(Cat(Cat(g, q), p), r)
          /\ Held(o)' = Cat(Cat(Cat(g, sndq'[s]), Pending(o)'), r)
      BY <1>0, <1>1, InParts
    <3> HIDE DEF g, q, p, r
    <3> QED
      BY <3>1, <3>2, <3>3, <3>4
  <2>4. \A x \in Side : x # o => Held(x)' = Held(x)
    <3> TAKE x \in Side
    <3> HAVE x # o
    <3>1. x = s /\ Other(x) # s /\ Other(x) \in Side
      BY <1>1
    <3>2. /\ got'[Other(x)] = got[Other(x)] /\ sndq'[Other(x)] = sndq[Other(x)]
          /\ Pending(x)' = Pending(x) /\ rcvq'[x] = rcvq[x]
      BY <1>0, <1>7, <2>1, <3>1
    <3> QED
      BY <3>2 DEF Held
  <2>5. Conservation'
    <3>1. \A x \in Side : Stream(x)' = Stream(x) /\ ended'[Other(x)] = ended[Other(x)]
      BY <1>0 DEF Stream
    <3>2. live => \A x \in Side : ended[Other(x)] # "rst" => Held(x) = Stream(x)
      BY <1>0 DEF Conservation, Held
    <3>3. live' => \A x \in Side : ended'[Other(x)] # "rst" => Held(x)' = Stream(x)'
      BY <1>11, <2>3, <2>4, <3>1, <3>2 DEF Continue
    <3> QED
      BY <3>3 DEF Conservation, Held
  <2> QED
    BY <2>1, <2>2, <2>5
<1> QED
  BY <1>8, <1>9, <1>10, <1>11 DEF Writes, BytesInv

(* A peer that writes, reads, closes or resets keeps the bytes.             *)
LEMMA BytesPeer ==
  ASSUME BytesInv, NEW s \in Side, Peer(s)
  PROVE  BytesInv'
<1> DEFINE o == Other(s)
<1>0. /\ TypeOK /\ IndexOrder /\ SendFits /\ Conservation /\ BeginsStream /\ TypeOK'
      /\ o \in Side /\ o # s /\ Other(o) = s /\ \A x \in Side : x # o => Other(x) = o /\ x = s
  BY SideFacts, TypesPeer DEF BytesInv
<1>1. connVars' = connVars
  BY DEF Peer, PeerWrites, PeerReads, PeerCloses, PeerResets
<1>2. live' = live /\ IndexOrder' /\ \A x \in Side : Pending(x)' = Pending(x)
  BY <1>0, <1>1 DEF connVars, IndexOrder, Pending
<1>3. \A x \in Side : \E rest \in Seq(Int) : Stream(x) = Cat(Delivered(x), rest)
  BY <1>0 DEF BeginsStream, Cat
<1>4. live => \A x \in Side : ended[Other(x)] # "rst" => Held(x) = Stream(x)
  BY <1>0 DEF Conservation, Held
<1>5. /\ (\A x \in Side : \E rest \in Seq(Int) : Stream(x)' = Cat(Delivered(x)', rest))
         => BeginsStream'
      /\ (live' => \A x \in Side : ended'[Other(x)] # "rst" => Held(x)' = Stream(x)')
         => Conservation'
  BY DEF BeginsStream, Cat, Conservation, Held
<1>6. ASSUME NEW x \in Side
      PROVE  /\ got[x] \in Seq(Int) /\ sndq[x] \in Seq(Int) /\ rcvq[x] \in Seq(Int)
             /\ Pending(x) \in Seq(Int) /\ Len(sndq[x]) \in Nat
             /\ Delivered(x) \in Seq(Int)
  <2>1. /\ got[x] \in Seq(Int) /\ sndq[x] \in Seq(Int) /\ rcvq[x] \in Seq(Int)
        /\ Pending(x) \in Seq(Int) /\ Len(sndq[x]) \in Nat
    BY <1>0, Contents
  <2>2. got[Other(x)] \in Seq(Int) /\ sndq[Other(x)] \in Seq(Int)
    BY <1>0, SideFacts DEF TypeOK
  <2>3. Delivered(x) \in Seq(Int)
    BY <2>2, InParts, CatFacts
  <2> QED
    BY <2>1, <2>3
<1>7. CASE PeerWrites(s)
  <2> DEFINE b == Byte(s, sent[s] + 1)
  <2>1. /\ b \in Int
        /\ Stream(s)' = Append(Stream(s), b)
        /\ \A x \in Side : x # s => Stream(x)' = Stream(x)
    BY <1>0, <1>7, StreamGrows DEF PeerWrites
  <2>2. /\ UNCHANGED <<sndq, got, ended>>
        /\ rcvq'[s] = Append(rcvq[s], b)
        /\ \A x \in Side : x # s => rcvq'[x] = rcvq[x]
    BY <1>0, <1>7 DEF PeerWrites, TypeOK
  <2>3. SendFits'
    BY <1>0, <2>2 DEF SendFits
  <2>4. \A x \in Side : Delivered(x)' = Delivered(x)
    BY <2>2 DEF Delivered
  <2> HIDE DEF b
  <2>5. \A y, z \in Seq(Int) : Cat(y, Append(z, b)) = Append(Cat(y, z), b) /\ Append(z, b) \in Seq(Int)
    BY <2>1, AppendRight DEF Cat
  <2>6. \A x \in Side : \E rest \in Seq(Int) : Stream(x)' = Cat(Delivered(x)', rest)
    <3>1. PICK rest \in Seq(Int) : Stream(s) = Cat(Delivered(s), rest)
      BY <1>3
    <3>2. Stream(s)' = Cat(Delivered(s)', Append(rest, b)) /\ Append(rest, b) \in Seq(Int)
      <4>1. Cat(Delivered(s), Append(rest, b)) = Append(Cat(Delivered(s), rest), b)
        BY <1>6, <2>5
      <4> QED
        BY <2>1, <2>4, <2>5, <3>1, <4>1
    <3>3. ASSUME NEW x \in Side, x # s
          PROVE  \E more \in Seq(Int) : Stream(x)' = Cat(Delivered(x)', more)
      BY <1>3, <2>1, <2>4, <3>3
    <3> QED
      BY <3>2, <3>3
  <2>7. Held(s)' = Append(Held(s), b)
    <3> DEFINE y == Cat(Cat(got[o], sndq[o]), Pending(s))
    <3>1. y \in Seq(Int)
      BY <1>0, <1>6, CatFacts
    <3>2. Held(s) = Cat(y, rcvq[s]) /\ Held(s)' = Cat(y, rcvq'[s])
      BY <1>2, <2>2, InParts
    <3> HIDE DEF y
    <3>3. Cat(y, Append(rcvq[s], b)) = Append(Cat(y, rcvq[s]), b)
      BY <1>6, <2>5, <3>1
    <3> QED
      BY <2>2, <3>2, <3>3
  <2>8. \A x \in Side : x # s => Held(x)' = Held(x)
    BY <1>2, <2>2 DEF Held
  <2>9. live' => \A x \in Side : ended'[Other(x)] # "rst" => Held(x)' = Stream(x)'
    <3> SUFFICES ASSUME live, NEW x \in Side, ended[Other(x)] # "rst"
                 PROVE  Held(x)' = Stream(x)'
      BY <1>2, <2>2
    <3>1. CASE x = s
      BY <1>4, <2>1, <2>7, <3>1
    <3>2. CASE x # s
      BY <1>4, <2>1, <2>8, <3>2
    <3> QED
      BY <3>1, <3>2
  <2> QED
    BY <1>0, <1>2, <1>5, <2>3, <2>6, <2>9 DEF BytesInv
<1>8. CASE PeerReads(s)
  <2>1. /\ UNCHANGED <<sent, rcvq, ended>>
        /\ sndq[s] # <<>>
        /\ got'[s] = Append(got[s], Head(sndq[s])) /\ sndq'[s] = Tail(sndq[s])
        /\ \A x \in Side : x # s => got'[x] = got[x] /\ sndq'[x] = sndq[x]
    BY <1>0, <1>8 DEF PeerReads, TypeOK
  <2>2. Cat(got'[s], sndq'[s]) = Cat(got[s], sndq[s])
    BY <1>6, <2>1, MoveHead DEF Cat
  <2>3. Delivered(o)' = Delivered(o) /\ Held(o)' = Held(o)
    <3>1. /\ Delivered(o) = Cat(got[s], sndq[s])
          /\ Held(o) = Cat(Cat(Cat(got[s], sndq[s]), Pending(o)), rcvq[o])
          /\ Delivered(o)' = Cat(got'[s], sndq'[s])
          /\ Held(o)' = Cat(Cat(Cat(got'[s], sndq'[s]), Pending(o)'), rcvq'[o])
      BY <1>0, InParts
    <3>2. Pending(o)' = Pending(o) /\ rcvq'[o] = rcvq[o]
      BY <1>0, <1>2, <2>1
    <3> HIDE DEF o
    <3> QED
      BY <2>2, <3>1, <3>2
  <2>4. \A x \in Side : x # o => Delivered(x)' = Delivered(x) /\ Held(x)' = Held(x)
    BY <1>0, <1>2, <2>1 DEF Delivered, Held
  <2>5. \A x \in Side : Stream(x)' = Stream(x)
    BY <2>1 DEF Stream
  <2>6. SendFits'
    <3>1. Len(Tail(sndq[s])) = Len(sndq[s]) - 1
      BY <1>6, <2>1, HeadTailProperties
    <3>2. \A x \in Side : Len(sndq'[x]) <= SockBuf
      <4> TAKE x \in Side
      <4>1. Len(sndq[x]) <= SockBuf /\ Len(sndq[x]) \in Nat /\ SockBuf \in Nat
        BY <1>0, <1>6, RelayAssumption DEF SendFits
      <4>2. CASE x = s
        <5>1. Len(sndq'[x]) = Len(sndq[x]) - 1
          BY <2>1, <3>1, <4>2
        <5> QED
          BY <4>1, <5>1
      <4>3. CASE x # s
        BY <2>1, <4>1, <4>3
      <4> QED
        BY <4>2, <4>3
    <3> QED
      BY <3>2 DEF SendFits
  <2>7. \A x \in Side : Delivered(x)' = Delivered(x) /\ Held(x)' = Held(x)
    BY <2>3, <2>4
  <2>8. \A x \in Side : \E rest \in Seq(Int) : Stream(x)' = Cat(Delivered(x)', rest)
    BY <1>3, <2>5, <2>7
  <2>9. live' => \A x \in Side : ended'[Other(x)] # "rst" => Held(x)' = Stream(x)'
    BY <1>2, <1>4, <2>1, <2>5, <2>7
  <2> QED
    BY <1>0, <1>2, <1>5, <2>6, <2>8, <2>9 DEF BytesInv
<1>9. CASE PeerCloses(s)
  <2>1. /\ UNCHANGED <<sent, rcvq, sndq, got>>
        /\ \A x \in Side : ended'[x] # "rst" => ended[x] # "rst"
    BY <1>0, <1>9 DEF PeerCloses, TypeOK
  <2>2. \A x \in Side : Delivered(x)' = Delivered(x) /\ Held(x)' = Held(x) /\ Stream(x)' = Stream(x)
    BY <1>2, <2>1 DEF Delivered, Held, Stream
  <2>3. SendFits'
    BY <1>0, <2>1 DEF SendFits
  <2>4. \A x \in Side : \E rest \in Seq(Int) : Stream(x)' = Cat(Delivered(x)', rest)
    BY <1>3, <2>2
  <2>5. live' => \A x \in Side : ended'[Other(x)] # "rst" => Held(x)' = Stream(x)'
    <3> SUFFICES ASSUME live, NEW x \in Side, ended'[Other(x)] # "rst"
                 PROVE  Held(x)' = Stream(x)'
      BY <1>2
    <3>1. Other(x) \in Side
      BY SideFacts
    <3> QED
      BY <1>4, <2>1, <2>2, <3>1
  <2> QED
    BY <1>0, <1>2, <1>5, <2>3, <2>4, <2>5 DEF BytesInv
<1>10. CASE PeerResets(s)
  <2>1. /\ UNCHANGED <<sent, rcvq, got>>
        /\ ended'[s] = "rst" /\ sndq'[s] = <<>>
        /\ \A x \in Side : x # s => ended'[x] = ended[x] /\ sndq'[x] = sndq[x]
    BY <1>0, <1>10 DEF PeerResets, TypeOK
  <2>2. \A x \in Side : Stream(x)' = Stream(x)
    BY <2>1 DEF Stream
  <2>3. \A x \in Side : x # o => Delivered(x)' = Delivered(x) /\ Held(x)' = Held(x)
    BY <1>0, <1>2, <2>1 DEF Delivered, Held
  <2>4. SendFits'
    <3>1. Len(<<>>) = 0 /\ SockBuf \in Nat
      BY EmptySeq, RelayAssumption
    <3>2. \A x \in Side : Len(sndq'[x]) <= SockBuf
      BY <1>0, <2>1, <3>1 DEF SendFits
    <3> QED
      BY <3>2 DEF SendFits
  <2>5. \A x \in Side : \E rest \in Seq(Int) : Stream(x)' = Cat(Delivered(x)', rest)
    <3>1. PICK rest \in Seq(Int) : Stream(o) = Cat(Delivered(o), rest)
      BY <1>0, <1>3
    <3>2. Delivered(o) = Cat(got[s], sndq[s]) /\ Delivered(o)' = Cat(got[s], <<>>)
      BY <1>0, <2>1, InParts
    <3>3. Stream(o)' = Cat(Delivered(o)', Cat(sndq[s], rest)) /\ Cat(sndq[s], rest) \in Seq(Int)
      <4>1. Cat(Cat(got[s], sndq[s]), rest) = Cat(got[s], Cat(sndq[s], rest))
        <5> DEFINE a == got[s]
                   b == sndq[s]
        <5>1. a \in Seq(Int) /\ b \in Seq(Int)
          BY <1>6
        <5> HIDE DEF a, b
        <5>2. Cat(Cat(a, b), rest) = Cat(a, Cat(b, rest))
          BY <5>1, CatFacts
        <5> QED
          BY <5>2 DEF a, b
      <4>2. Cat(got[s], <<>>) = got[s]
        BY <1>6, CatFacts
      <4>3. Cat(sndq[s], rest) \in Seq(Int)
        BY <1>6, CatFacts
      <4> QED
        BY <1>0, <2>2, <3>1, <3>2, <4>1, <4>2, <4>3
    <3>4. ASSUME NEW x \in Side, x # o
          PROVE  \E more \in Seq(Int) : Stream(x)' = Cat(Delivered(x)', more)
      BY <1>3, <2>2, <2>3, <3>4
    <3> QED
      BY <3>3, <3>4
  <2>6. live' => \A x \in Side : ended'[Other(x)] # "rst" => Held(x)' = Stream(x)'
    <3> SUFFICES ASSUME live, NEW x \in Side, ended'[Other(x)] # "rst"
                 PROVE  Held(x)' = Stream(x)'
      BY <1>2
    <3>1. x # o /\ Other(x) = o
      BY <1>0, <2>1
    <3> QED
      BY <1>0, <1>4, <2>1, <2>2, <2>3, <3>1
  <2> QED
    BY <1>0, <1>2, <1>5, <2>4, <2>5, <2>6 DEF BytesInv
<1> QED
  BY <1>7, <1>8, <1>9, <1>10 DEF Peer

(* Looking at the sockets, and doing nothing, moves no byte.                *)
LEMMA BytesStill ==
  ASSUME BytesInv, EpollWait \/ UNCHANGED vars
  PROVE  BytesInv'
<1>1. /\ TypeOK /\ IndexOrder /\ SendFits /\ Conservation /\ BeginsStream
      /\ connVars' = connVars /\ peerVars' = peerVars
  BY DEF BytesInv, EpollWait, vars
<1>2. TypeOK'
  <2>1. CASE EpollWait
    BY <1>1, <2>1, TypesEpollWait
  <2>2. CASE UNCHANGED vars
    BY <1>1, <2>2 DEF vars, connVars, epollVars, peerVars, TypeOK
  <2> QED
    BY <2>1, <2>2
<1>3. /\ UNCHANGED <<buf, readIdx, writeIdx, live>>
      /\ UNCHANGED <<sent, rcvq, sndq, got, ended>>
  BY <1>1 DEF connVars, peerVars
<1>4. IndexOrder' /\ SendFits'
  BY <1>1, <1>3 DEF IndexOrder, SendFits
<1>5. \A x \in Side : /\ Held(x)' = Held(x) /\ Stream(x)' = Stream(x)
                      /\ Delivered(x)' = Delivered(x)
  BY <1>3 DEF Held, Stream, Delivered, Pending
<1>6. Conservation'
  <2>1. live => \A x \in Side : ended[Other(x)] # "rst" => Held(x) = Stream(x)
    BY <1>1 DEF Conservation, Held
  <2>2. live' => \A x \in Side : ended'[Other(x)] # "rst" => Held(x)' = Stream(x)'
    BY <1>3, <1>5, <2>1
  <2> QED
    BY <2>2 DEF Conservation, Held
<1>7. BeginsStream'
  <2>1. \A x \in Side : \E rest \in Seq(Int) : Stream(x) = Cat(Delivered(x), rest)
    BY <1>1 DEF BeginsStream, Cat
  <2>2. \A x \in Side : \E rest \in Seq(Int) : Stream(x)' = Cat(Delivered(x)', rest)
    BY <1>5, <2>1
  <2> QED
    BY <2>2 DEF BeginsStream, Cat
<1> QED
  BY <1>2, <1>4, <1>6, <1>7 DEF BytesInv

(* The inductive invariant for the bytes holds in every state.              *)
THEOREM BytesInvariant == Spec => []BytesInv
<1>1. Init => BytesInv
  BY BytesInit
<1>2. BytesInv /\ [Next]_vars => BytesInv'
  <2> SUFFICES ASSUME BytesInv, [Next]_vars PROVE BytesInv'
    OBVIOUS
  <2>1. CASE \E s \in Side : Peer(s)
    BY <2>1, BytesPeer
  <2>2. CASE EpollWait \/ UNCHANGED vars
    BY <2>2, BytesStill
  <2>3. CASE Process
    <3>1. TypeOK
      BY DEF BytesInv
    <3>2. PICK s \in Side : Reads(s) \/ Writes(s)
      BY <2>3, <3>1, ProcessMoves
    <3> QED
      BY <3>2, BytesReads, BytesWrites
  <2> QED
    BY <2>1, <2>2, <2>3 DEF Next
<1> QED
  BY <1>1, <1>2, PTL DEF Spec

(* What is joined to something begins it.                                   *)
LEMMA JoinedBegins ==
  ASSUME NEW a \in Seq(Int), NEW b \in Seq(Int), NEW c, c = a \o b
  PROVE  IsPrefix(a, c)
<1> DEFINE n == Len(a)
<1>1. Len(c) = n + Len(b) /\ n \in Nat /\ Len(b) \in Nat
  BY ConcatProperties, LenProperties
<1>2. SubSeq(c, 1, n) = SubSeq(a, 1, n)
  <2>1. CASE n = 0
    <3>1. n \in Int /\ 1 \in Int /\ n < 1
      BY <2>1
    <3> HIDE DEF n
    <3>2. SubSeq(c, 1, n) = <<>>
      BY <3>1, SubSeqEmpty
    <3>3. SubSeq(a, 1, n) = <<>>
      BY <3>1, SubSeqEmpty
    <3> QED
      BY <3>2, <3>3
  <2>2. CASE n # 0
    <3>1. 1 \in 1..Len(a) /\ n \in 1..Len(a)
      BY <1>1, <2>2
    <3> HIDE DEF n
    <3>2. SubSeq(a \o b, 1, n) = SubSeq(a, 1, n)
      BY <3>1, SubSeqOfConcat1
    <3> QED
      BY <3>2
  <2> QED
    BY <2>1, <2>2
<1> QED
  BY <1>1, <1>2 DEF IsPrefix

(* The indexes stay in the buffers, no byte of a live session is lost, sent *)
(* twice or overtaken, and no peer ever gets anything but a beginning of    *)
(* what the other one wrote.                                                *)
THEOREM BytesKeptTheorem == Spec => []BytesKept
<1>1. BytesInv => BytesKept
  <2> SUFFICES ASSUME BytesInv PROVE BytesKept
    OBVIOUS
  <2>0. TypeOK /\ Conservation /\ BeginsStream
    BY DEF BytesInv
  <2>1. ASSUME NEW s \in Side PROVE IsPrefix(got[Other(s)] \o sndq[Other(s)], Stream(s))
    <3>1. PICK rest \in Seq(Int) : Stream(s) = Delivered(s) \o rest
      BY <2>0 DEF BeginsStream
    <3>2. got[Other(s)] \in Seq(Int) /\ sndq[Other(s)] \in Seq(Int)
      BY <2>0, SideFacts DEF TypeOK
    <3>3. Delivered(s) \in Seq(Int)
      BY <3>2, ConcatProperties DEF Delivered
    <3>4. IsPrefix(Delivered(s), Stream(s))
      BY <3>1, <3>3, JoinedBegins
    <3> QED
      BY <3>4 DEF Delivered
  <2> QED
    BY <2>0, <2>1 DEF BytesKept, OnlyPrefixes
<1> QED
  BY <1>1, BytesInvariant, PTL
-----------------------------------------------------------------------------
(* The edge-triggered discipline. *)

(* The events left when the first has been handled.                         *)
LEMMA BatchTail ==
  ASSUME TypeOK, Continue, batch # <<>>
  PROVE  /\ batch' \in Seq(EventType) /\ Len(batch') = Len(batch) - 1 /\ Len(batch) \in Nat
         /\ \A i \in 1..Len(batch') : batch'[i] = batch[i + 1]
         /\ Head(batch) = batch[1]
         /\ \A e : InBatch(e) /\ e # Head(batch) => InBatch(e)'
<1>1. batch \in Seq(EventType)
  BY DEF TypeOK, EventType
<1> DEFINE E == EventType
<1>2. /\ Len(batch) \in Nat \ {0}
      /\ Tail(batch) \in Seq(E) /\ Len(Tail(batch)) = Len(batch) - 1
      /\ \A i \in 1..Len(Tail(batch)) : Tail(batch)[i] = batch[i + 1]
      /\ Head(batch) = batch[1]
  <2> HIDE DEF E
  <2>1. batch \in Seq(E)
    BY <1>1 DEF E
  <2> QED
    BY <2>1, HeadTailProperties, LenProperties, EmptySeq
<1>3. batch' = Tail(batch)
  BY DEF Continue
<1>4. ASSUME NEW e, InBatch(e), e # Head(batch) PROVE InBatch(e)'
  <2>1. PICK i \in 1..Len(batch) : batch[i] = e
    BY <1>4 DEF InBatch
  <2>2. i # 1
    BY <1>2, <1>4, <2>1
  <2>3. i - 1 \in 1..Len(batch') /\ (i - 1) + 1 = i
    BY <1>2, <1>3, <2>2
  <2>4. batch'[i - 1] = e
    BY <1>2, <1>3, <2>1, <2>3
  <2> QED
    BY <2>3, <2>4 DEF InBatch
<1> QED
  BY <1>2, <1>3, <1>4

(* A socket that was set to an event, and one that was not.                 *)
LEMMA ModfdSets ==
  ASSUME TypeOK, NEW S \in SUBSET Side, NEW v, NEW rq, NEW sq, Modfd([x \in S |-> v], rq, sq),
         NEW p \in Side
  PROVE  /\ p \in S => interest'[p] = v /\ edge'[p] = Ready(p, v, rq, sq)
         /\ p \notin S => interest'[p] = interest[p] /\ edge'[p] = edge[p]
BY DEF Modfd

(* Reading takes all there is, or fills the buffer.                         *)
LEMMA TakesAll ==
  ASSUME TypeOK, IndexOrder, NEW s \in Side, ReadInto(s), rcvq' = RcvqAfterRead(s)
  PROVE  \/ readIdx'[s] = BUF_SIZE
         \/ /\ rcvq'[s] = <<>>
            /\ ended[s] = "fin" => ReadResult(s) = "CLOSED"
<1> DEFINE t == TakenFrom(s)
           q == rcvq[s]
<1>1. /\ BUF_SIZE \in Nat /\ readIdx[s] \in 0..BUF_SIZE /\ q \in Seq(Int) /\ Len(q) \in Nat
      /\ readIdx'[s] = readIdx[s] + t
      /\ rcvq'[s] = SubSeq(q, t + 1, Len(q))
  BY RelayAssumption, Contents DEF TypeOK, ReadInto, RcvqAfterRead
<1>2. t = IF BUF_SIZE - readIdx[s] < Len(q) THEN BUF_SIZE - readIdx[s] ELSE Len(q)
  BY DEF TakenFrom, Smaller
<1>3. t \in Nat /\ readIdx[s] + t <= BUF_SIZE
  <2> HIDE DEF t, q
  <2> QED
    BY <1>1, <1>2
<1>4. CASE readIdx[s] + t < BUF_SIZE
  <2>1. t = Len(q)
    BY <1>1, <1>2, <1>4
  <2>2. rcvq'[s] = <<>>
    <3>1. t + 1 \in Int /\ Len(q) \in Int /\ Len(q) < t + 1
      BY <1>1, <2>1
    <3> HIDE DEF t, q
    <3>2. SubSeq(q, t + 1, Len(q)) = <<>>
      BY <3>1, SubSeqEmpty
    <3> QED
      BY <1>1, <3>2
  <2>3. ended[s] = "fin" => ReadResult(s) = "CLOSED"
    <3>1. ~(readIdx[s] + t >= BUF_SIZE)
      <4> HIDE DEF t
      <4> QED
        BY <1>1, <1>3, <1>4
    <3> QED
      BY <3>1 DEF ReadResult
  <2> QED
    BY <2>2, <2>3
<1>5. CASE readIdx[s] + t = BUF_SIZE
  BY <1>1, <1>5
<1>6. readIdx[s] + t < BUF_SIZE \/ readIdx[s] + t = BUF_SIZE
  <2>1. readIdx[s] \in Nat /\ BUF_SIZE \in Nat
    BY <1>1
  <2> HIDE DEF t
  <2> QED
    BY <1>3, <2>1
<1> QED
  BY <1>4, <1>5, <1>6

(* A handler that reads s leaves no unannounced input behind.               *)
LEMMA DrainReads ==
  ASSUME TypeOK, IndexOrder, DrainInv, NEW s \in Side,
         Event(s, "IN"), rcvq' = RcvqAfterRead(s), UNCHANGED ended,
         ReadInto(s), Continue,
         m_srv_closed => m_srv_closed',
         ReadResult(s) = "CLOSED" => s = "srv" /\ m_srv_closed',
         interest'[s] = interest[s], edge'[s] = edge[s],
         \/ interest'[Other(s)] = "OUT"
         \/ interest'[Other(s)] = interest[Other(s)] /\ edge'[Other(s)] = edge[Other(s)]
  PROVE  DrainInv'
<1>1. /\ live /\ batch # <<>> /\ Head(batch) = [side |-> s, type |-> "IN"]
      /\ \A x \in Side : x # s => x = Other(s)
  BY SideFacts DEF Event
<1>2. Unannounced(s)' => Excused(s)'
  BY TakesAll DEF Unannounced, Excused
<1>3. ASSUME NEW x \in Side, x # s, Unannounced(x)' PROVE Excused(x)'
  <2>1. interest'[x] = interest[x] /\ edge'[x] = edge[x] /\ interest'[x] = "IN"
    BY <1>1, <1>3 DEF Unannounced
  <2>2. rcvq'[x] = rcvq[x] /\ readIdx'[x] = readIdx[x] /\ ended'[x] = ended[x]
    BY <1>3 DEF RcvqAfterRead, ReadInto, TypeOK
  <2>3. ~InBatch([side |-> x, type |-> "IN"])
    <3> DEFINE e == [side |-> x, type |-> "IN"]
    <3>1. e # Head(batch)
      BY <1>1, <1>3
    <3>2. ~InBatch(e)'
      BY <1>3 DEF Unannounced
    <3> HIDE DEF e
    <3>3. ~InBatch(e)
      BY <1>1, <3>1, <3>2, BatchTail
    <3> QED
      BY <3>3 DEF e
  <2>4. Excused(x)
    BY <1>1, <1>3, <2>1, <2>2, <2>3 DEF DrainInv, Unannounced
  <2> QED
    BY <2>2, <2>4 DEF Excused
<1>4. \A x \in Side : Unannounced(x)' => Excused(x)'
  BY <1>2, <1>3
<1> QED
  BY <1>4 DEF DrainInv

(* A handler that writes to s leaves no unannounced input behind: it makes  *)
(* room in the other buffer only together with a look at both sockets.      *)
LEMMA DrainWrites ==
  ASSUME TypeOK, DrainInv, NEW s \in Side,
         Event(s, "OUT"), UNCHANGED <<rcvq, ended>>, WriteOutOf(s), Continue,
         m_srv_closed => m_srv_closed',
         \/ \A x \in Side : edge'[x] = Ready(x, "IN", rcvq', sndq')
         \/ /\ WriteResult(s) # "BUFFER_EMPTY"
            /\ \A x \in Side : \/ interest'[x] = "OUT"
                               \/ interest'[x] = interest[x] /\ edge'[x] = edge[x]
  PROVE  DrainInv'
<1>1. live /\ batch # <<>> /\ Head(batch) = [side |-> s, type |-> "OUT"]
  BY DEF Event
<1>2. ASSUME NEW x \in Side, Unannounced(x)' PROVE Excused(x)'
  <2>1. CASE edge'[x] = Ready(x, "IN", rcvq', sndq')
    BY <1>2, <2>1 DEF Unannounced, Ready
  <2>2. CASE /\ WriteResult(s) # "BUFFER_EMPTY"
             /\ interest'[x] = interest[x] /\ edge'[x] = edge[x]
    <3>1. readIdx'[x] = readIdx[x]
      BY <2>2 DEF WriteOutOf, TypeOK
    <3>2. ~InBatch([side |-> x, type |-> "IN"])
      <4> DEFINE e == [side |-> x, type |-> "IN"]
      <4>1. e # Head(batch)
        BY <1>1
      <4>2. ~InBatch(e)'
        BY <1>2 DEF Unannounced
      <4> HIDE DEF e
      <4>3. ~InBatch(e)
        BY <1>1, <4>1, <4>2, BatchTail
      <4> QED
        BY <4>3 DEF e
    <3>3. Excused(x)
      BY <1>1, <1>2, <2>2, <3>2 DEF DrainInv, Unannounced
    <3> QED
      BY <3>1, <3>3 DEF Excused
  <2>3. CASE interest'[x] = "OUT"
    BY <1>2, <2>3 DEF Unannounced
  <2> QED
    BY <2>1, <2>2, <2>3
<1> QED
  BY <1>2 DEF DrainInv

(* No step leaves unannounced input behind.                                 *)
LEMMA DrainNext ==
  ASSUME BytesInv, DrainInv, [Next]_vars
  PROVE  DrainInv'
<1>0. TypeOK /\ IndexOrder
  BY DEF BytesInv
<1>1. ASSUME NEW s \in Side, Peer(s)
      PROVE  DrainInv'
  <2>1. /\ connVars' = connVars /\ interest' = interest /\ batch' = batch
        /\ \A x \in Side : x # s => /\ edge'[x] = edge[x]
                                    /\ rcvq'[x] = rcvq[x] /\ ended'[x] = ended[x]
        /\ \/ edge'[s] \/ interest[s] # "IN"
           \/ edge'[s] = edge[s] /\ rcvq'[s] = rcvq[s] /\ ended'[s] = ended[s]
    BY <1>0, <1>1 DEF Peer, PeerWrites, PeerReads, PeerCloses, PeerResets, TypeOK
  <2>2. live' = live /\ readIdx' = readIdx /\ m_srv_closed' = m_srv_closed
    BY <2>1 DEF connVars
  <2>3. \A x \in Side : Unannounced(x)' => Unannounced(x)
    BY <2>1 DEF Unannounced, InBatch
  <2>4. \A x \in Side : Excused(x) => Excused(x)'
    BY <2>2 DEF Excused
  <2> QED
    BY <2>2, <2>3, <2>4 DEF DrainInv
<1>2. CASE EpollWait
  <2>1. /\ UNCHANGED <<rcvq, ended, interest, readIdx, m_srv_closed, live>> /\ batch = <<>>
    BY <1>2 DEF EpollWait, connVars, peerVars
  <2>2. ASSUME NEW x \in Side, Unannounced(x)', live PROVE Excused(x)'
    <3>1. ~InBatch([side |-> x, type |-> "IN"])
      BY <2>1, EmptySeq DEF InBatch
    <3>2. ~edge[x]
      <4> SUFFICES ASSUME edge[x] PROVE FALSE
        <5>1. edge[x] \in BOOLEAN
          BY <1>0 DEF TypeOK
        <5> QED
          BY <5>1
      <4>1. interest[x] = "IN" /\ Ready(x, interest[x], rcvq, sndq)
        BY <2>1, <2>2 DEF Unannounced, Ready
      <4>2. \E i \in 1..Len(batch') : batch'[i] = [side |-> x, type |-> "IN"]
        BY <1>0, <1>2, <4>1, Reported
      <4> QED
        BY <2>2, <4>2 DEF Unannounced, InBatch
    <3>3. Excused(x)
      BY <2>1, <2>2, <3>1, <3>2 DEF DrainInv, Unannounced
    <3> QED
      BY <2>1, <3>3 DEF Excused
  <2> QED
    BY <2>1, <2>2 DEF DrainInv
<1>3. CASE FreeConn
  BY <1>3 DEF FreeConn, DrainInv
<1> DEFINE sv == {"srv"}
           cl == {"clt"}
<1>s. /\ sv \subseteq Side /\ cl \subseteq Side /\ "clt" \in Side /\ "srv" \in Side
      /\ Other("clt") = "srv" /\ Other("srv") = "clt"
      /\ Side \subseteq Side /\ Side = {"clt", "srv"}
  BY DEF Side, Other
<1>4. CASE ReadClient
  <2>1. CASE ReadResult("clt") \in {"IOERR", "CLOSED"} \/ m_srv_closed
    BY <1>3, <1>4, <2>1 DEF ReadClient
  <2>2. CASE ~(ReadResult("clt") \in {"IOERR", "CLOSED"} \/ m_srv_closed)
    <3>1. /\ Event("clt", "IN") /\ rcvq' = RcvqAfterRead("clt") /\ UNCHANGED ended
          /\ ReadInto("clt") /\ Continue
          /\ ReadResult("clt") # "CLOSED" /\ m_srv_closed' = m_srv_closed
          /\ \/ Modfd([s \in sv |-> "OUT"], rcvq', sndq')
             \/ UNCHANGED <<interest, edge>>
      BY <1>4, <2>2 DEF ReadClient
    <3>2. /\ interest'["clt"] = interest["clt"] /\ edge'["clt"] = edge["clt"]
          /\ \/ interest'["srv"] = "OUT"
             \/ interest'["srv"] = interest["srv"] /\ edge'["srv"] = edge["srv"]
      <4>1. CASE Modfd([s \in sv |-> "OUT"], rcvq', sndq')
        <5>1. "srv" \in sv /\ "clt" \notin sv
          OBVIOUS
        <5> HIDE DEF sv
        <5> QED
          BY <1>0, <1>s, <4>1, <5>1, ModfdSets
      <4>2. CASE UNCHANGED <<interest, edge>>
        BY <4>2
      <4> QED
        BY <3>1, <4>1, <4>2
    <3> QED
      BY <1>0, <1>s, <3>1, <3>2, DrainReads
  <2> QED
    BY <2>1, <2>2
<1>5. CASE ReadServer
  <2>1. /\ Event("srv", "IN") /\ rcvq' = RcvqAfterRead("srv") /\ UNCHANGED ended
        /\ ReadInto("srv") /\ Continue
        /\ m_srv_closed' = (m_srv_closed \/ ReadResult("srv") \in {"IOERR", "CLOSED"})
        /\ \/ Modfd([s \in cl |-> "OUT"], rcvq', sndq')
           \/ UNCHANGED <<interest, edge>>
    BY <1>5 DEF ReadServer
  <2>2. /\ interest'["srv"] = interest["srv"] /\ edge'["srv"] = edge["srv"]
        /\ \/ interest'["clt"] = "OUT"
           \/ interest'["clt"] = interest["clt"] /\ edge'["clt"] = edge["clt"]
    <3>1. CASE Modfd([s \in cl |-> "OUT"], rcvq', sndq')
      <4>1. "clt" \in cl /\ "srv" \notin cl
        OBVIOUS
      <4> HIDE DEF cl
      <4> QED
        BY <1>0, <1>s, <3>1, <4>1, ModfdSets
    <3>2. CASE UNCHANGED <<interest, edge>>
      BY <3>2
    <3> QED
      BY <2>1, <3>1, <3>2
  <2>3. (m_srv_closed => m_srv_closed') /\ (ReadResult("srv") = "CLOSED" => m_srv_closed')
    BY <2>1
  <2> QED
    BY <1>0, <1>s, <2>1, <2>2, <2>3, DrainReads
<1>6. CASE WriteClient
  <2>1. CASE WriteResult("clt") = "IOERR" \/ m_srv_closed
    BY <1>3, <1>6, <2>1 DEF WriteClient
  <2>2. CASE ~(WriteResult("clt") = "IOERR" \/ m_srv_closed)
    <3>1. /\ Event("clt", "OUT") /\ UNCHANGED <<rcvq, ended>>
          /\ WriteOutOf("clt") /\ Continue /\ m_srv_closed' = m_srv_closed
          /\ \/ WriteResult("clt") = "TRY_AGAIN" /\ Modfd([s \in cl |-> "OUT"], rcvq', sndq')
             \/ Modfd([s \in Side |-> "IN"], rcvq', sndq')
      BY <1>6, <2>2 DEF WriteClient
    <3>2. \/ \A x \in Side : edge'[x] = Ready(x, "IN", rcvq', sndq')
          \/ /\ WriteResult("clt") # "BUFFER_EMPTY"
             /\ \A x \in Side : \/ interest'[x] = "OUT"
                                \/ interest'[x] = interest[x] /\ edge'[x] = edge[x]
      <4>1. CASE WriteResult("clt") = "TRY_AGAIN" /\ Modfd([s \in cl |-> "OUT"], rcvq', sndq')
        <5>1. "clt" \in cl /\ "srv" \notin cl /\ cl \in SUBSET Side
          BY <1>s
        <5> HIDE DEF cl
        <5>2. interest'["clt"] = "OUT"
          BY <1>0, <1>s, <4>1, <5>1, ModfdSets
        <5>3. interest'["srv"] = interest["srv"] /\ edge'["srv"] = edge["srv"]
          BY <1>0, <1>s, <4>1, <5>1, ModfdSets
        <5> QED
          BY <1>s, <4>1, <5>2, <5>3
      <4>2. CASE Modfd([s \in Side |-> "IN"], rcvq', sndq')
        <5>1. ASSUME NEW x \in Side PROVE edge'[x] = Ready(x, "IN", rcvq', sndq')
          BY <4>2 DEF Modfd
        <5> QED
          BY <5>1
      <4> QED
        BY <3>1, <4>1, <4>2
    <3> QED
      BY <1>0, <1>s, <3>1, <3>2, DrainWrites
  <2> QED
    BY <2>1, <2>2
<1>7. CASE WriteServer
  <2>1. /\ Event("srv", "OUT") /\ UNCHANGED <<rcvq, ended>>
        /\ WriteOutOf("srv") /\ Continue
        /\ m_srv_closed' = (m_srv_closed \/ WriteResult("srv") = "IOERR")
        /\ \/ WriteResult("srv") # "BUFFER_EMPTY" /\ Modfd([s \in sv |-> "OUT"], rcvq', sndq')
           \/ WriteResult("srv") # "BUFFER_EMPTY" /\ Modfd([s \in cl |-> "OUT"], rcvq', sndq')
           \/ Modfd([s \in Side |-> "IN"], rcvq', sndq')
    BY <1>7 DEF WriteServer
  <2>2. \/ \A x \in Side : edge'[x] = Ready(x, "IN", rcvq', sndq')
        \/ /\ WriteResult("srv") # "BUFFER_EMPTY"
           /\ \A x \in Side : \/ interest'[x] = "OUT"
                              \/ interest'[x] = interest[x] /\ edge'[x] = edge[x]
    <3>1. CASE WriteResult("srv") # "BUFFER_EMPTY" /\ Modfd([s \in sv |-> "OUT"], rcvq', sndq')
      <4>1. "srv" \in sv /\ "clt" \notin sv /\ sv \in SUBSET Side
        BY <1>s
      <4> HIDE DEF sv
      <4>2. interest'["srv"] = "OUT"
        BY <1>0, <1>s, <3>1, <4>1, ModfdSets
      <4>3. interest'["clt"] = interest["clt"] /\ edge'["clt"] = edge["clt"]
        BY <1>0, <1>s, <3>1, <4>1, ModfdSets
      <4> QED
        BY <1>s, <3>1, <4>2, <4>3
    <3>2. CASE WriteResult("srv") # "BUFFER_EMPTY" /\ Modfd([s \in cl |-> "OUT"], rcvq', sndq')
      <4>1. "clt" \in cl /\ "srv" \notin cl /\ cl \in SUBSET Side
        BY <1>s
      <4> HIDE DEF cl
      <4>2. interest'["clt"] = "OUT"
        BY <1>0, <1>s, <3>2, <4>1, ModfdSets
      <4>3. interest'["srv"] = interest["srv"] /\ edge'["srv"] = edge["srv"]
        BY <1>0, <1>s, <3>2, <4>1, ModfdSets
      <4> QED
        BY <1>s, <3>2, <4>2, <4>3
    <3>3. CASE Modfd([s \in Side |-> "IN"], rcvq', sndq')
      <4>1. ASSUME NEW x \in Side PROVE edge'[x] = Ready(x, "IN", rcvq', sndq')
        BY <3>3 DEF Modfd
      <4> QED
        BY <4>1
    <3> QED
      BY <2>1, <3>1, <3>2, <3>3
  <2>3. m_srv_closed => m_srv_closed'
    BY <2>1
  <2> QED
    BY <1>0, <1>s, <2>1, <2>2, <2>3, DrainWrites
<1>8. CASE UNCHANGED vars
  <2>1. /\ UNCHANGED <<rcvq, ended, interest, edge, batch, readIdx, m_srv_closed, live>>
    BY <1>8 DEF vars, connVars, epollVars, peerVars
  <2>2. \A x \in Side : Unannounced(x)' = Unannounced(x) /\ Excused(x)' = Excused(x)
    BY <2>1 DEF Unannounced, InBatch, Excused
  <2> QED
    BY <2>1, <2>2 DEF DrainInv
<1> QED
  BY <1>1, <1>2, <1>4, <1>5, <1>6, <1>7, <1>8 DEF Next, Process

(* Between batches, input that no event announces waits only behind a full  *)
(* buffer or, from the server, in a session that is about to end.           *)
THEOREM DrainedOrFullTheorem == Spec => []DrainedOrFull
<1>1. Init => DrainInv
  BY EmptySeq DEF Init, DrainInv, Unannounced
<1>2. BytesInv /\ DrainInv /\ [Next]_vars => DrainInv'
  BY DrainNext
<1>3. DrainInv => DrainedOrFull
  <2> SUFFICES ASSUME DrainInv, live, batch = <<>>, NEW s \in Side,
                      (rcvq[s] # <<>> \/ ended[s] = "fin") /\ interest[s] = "IN" /\ ~edge[s]
               PROVE  readIdx[s] = BUF_SIZE \/ (s = "srv" /\ m_srv_closed)
    BY DEF DrainedOrFull
  <2>1. ~InBatch([side |-> s, type |-> "IN"])
    BY EmptySeq DEF InBatch
  <2> QED
    BY <2>1 DEF DrainInv, Unannounced, Excused
<1> QED
  BY <1>1, <1>2, <1>3, BytesInvariant, PTL DEF Spec
-----------------------------------------------------------------------------
(* Orderly peers. *)

(* Whole messages in a number of bytes.                                     *)
LEMMA DivFacts ==
  ASSUME NEW m \in Nat \ {0}, NEW x \in Nat
  PROVE  x \div m \in Nat /\ m * (x \div m) <= x /\ x < m * (x \div m) + m
OBVIOUS

(* More messages, more bytes.                                               *)
LEMMA MulMono ==
  ASSUME NEW m \in Nat, NEW a \in Nat, NEW b \in Nat, a <= b
  PROVE  m * a <= m * b /\ m * a \in Nat /\ m * b \in Nat
<1>1. PICK c \in Nat : b = a + c
  <2>1. b - a \in Nat /\ b = a + (b - a)
    OBVIOUS
  <2> QED
    BY <2>1
<1>2. m * c \in Nat /\ m * a \in Nat
  OBVIOUS
<1>3. m * b = m * a + m * c
  BY <1>1
<1> QED
  BY <1>2, <1>3

(* Two peers that take turns: while one still has bytes on their way, all   *)
(* of the other have arrived.                                               *)
LEMMA Exclusive ==
  ASSUME NEW mc \in Nat \ {0}, NEW ms \in Nat \ {0}, NEW gc \in Nat, NEW gs \in Nat,
    NEW sc \in Nat, NEW ss \in Nat, 
    sc <= mc * (gc \div ms + 1), ss <= ms * (gs \div mc), gs < sc
  PROVE ss <= gc
<1> DEFINE q == gc \div ms
           p == gs \div mc
<1>1. q \in Nat /\ p \in Nat /\ ms * q <= gc /\ mc * p <= gs
  BY DivFacts
<1> HIDE DEF p, q
<1>2. sc <= mc * (q + 1) /\ ss <= ms * p
  BY DEF p, q
<1>3. p <= q
  <2> SUFFICES ASSUME q + 1 <= p PROVE FALSE
    BY <1>1
  <2>1. mc * (q + 1) <= mc * p /\ mc * (q + 1) \in Nat /\ mc * p \in Nat
    BY <1>1, MulMono
  <2> QED
    BY <1>1, <1>2, <2>1
<1>4. ms * p <= ms * q /\ ms * p \in Nat /\ ms * q \in Nat
  BY <1>1, <1>3, MulMono
<1> QED
  BY <1>1, <1>2, <1>4

(* More bytes, no fewer whole messages.                                     *)
LEMMA DivMono ==
  ASSUME NEW m \in Nat \ {0}, NEW x \in Nat, NEW y \in Nat, x <= y
  PROVE  x \div m <= y \div m
<1> DEFINE q == x \div m
           p == y \div m
<1>1. q \in Nat /\ p \in Nat /\ m * q <= x /\ y < m * p + m
  BY DivFacts
<1> HIDE DEF p, q
<1>2. q <= p
  <2> SUFFICES ASSUME p + 1 <= q PROVE FALSE
    BY <1>1
  <2>1. m * (p + 1) <= m * q /\ m * (p + 1) \in Nat /\ m * q \in Nat
    BY <1>1, MulMono
  <2>2. m * (p + 1) = m * p + m
    BY <1>1
  <2>3. m * p \in Nat
    BY <1>1
  <2> QED
    BY <1>1, <2>1, <2>2, <2>3
<1> QED
  BY <1>2 DEF p, q

(* The indexes are numbers in order.                                        *)
LEMMA IndexTypes ==
  ASSUME TypeOK, IndexOrder, NEW s \in Side
  PROVE  readIdx[s] \in Nat /\ writeIdx[s] \in Nat /\ writeIdx[s] <= readIdx[s]
<1>1. BUF_SIZE \in Nat /\ readIdx[s] \in 0..BUF_SIZE /\ writeIdx[s] \in 0..BUF_SIZE
  BY RelayAssumption DEF TypeOK
<1>2. writeIdx[s] <= readIdx[s]
  BY DEF IndexOrder
<1> QED
  BY <1>1, <1>2

(* Bytes to send, by the indexes.                                           *)
LEMMA WaitingBytes ==
  ASSUME TypeOK, IndexOrder, SendFits, NEW s \in Side
  PROVE  /\ Pending(s) # <<>> <=> Waiting(s)
         /\ GivenTo(s) \in 0..(readIdx[Other(s)] - writeIdx[Other(s)])
         /\ Len(Pending(Other(s))) = readIdx[Other(s)] - writeIdx[Other(s)]
<1>1. /\ Pending(s) \in Seq(Int) /\ Len(Pending(s)) = readIdx[s] - writeIdx[s]
      /\ readIdx[s] \in Nat /\ writeIdx[s] \in Nat /\ writeIdx[s] <= readIdx[s]
  BY Contents, IndexTypes
<1>2. Pending(s) # <<>> <=> Waiting(s)
  <2>1. Pending(s) = <<>> <=> Len(Pending(s)) = 0
    BY <1>1, EmptySeq
  <2> QED
    BY <1>1, <2>1 DEF Waiting
<1> DEFINE o == Other(s)
<1>3. /\ o \in Side /\ Len(Pending(o)) = readIdx[o] - writeIdx[o]
      /\ readIdx[o] \in Nat /\ writeIdx[o] \in Nat /\ writeIdx[o] <= readIdx[o]
  BY SideFacts, Contents, IndexTypes
<1>4. GivenTo(s) \in 0..(readIdx[o] - writeIdx[o])
  <2>1. Len(sndq[s]) \in Nat /\ Len(sndq[s]) <= SockBuf /\ SockBuf \in Nat
    BY Contents, RelayAssumption DEF SendFits
  <2>2. GivenTo(s) = IF ended[s] = "rst" THEN 0
                     ELSE Smaller(readIdx[o] - writeIdx[o], SockBuf - Len(sndq[s]))
    BY <1>3 DEF GivenTo, Room, Source
  <2> HIDE DEF o
  <2> QED
    BY <1>3, <2>1, <2>2 DEF Smaller
<1> QED
  BY <1>2, <1>3, <1>4

(* What reading does to the indexes.                                        *)
LEMMA ReadIndexes ==
  ASSUME TypeOK, IndexOrder, PlacesInv, NEW s \in Side, ReadInto(s)
  PROVE  /\ \A x \in Side : Waiting(x) => Waiting(x)'
         /\ \A x \in Side : x # s => Waiting(x)' = Waiting(x)
         /\ \A x \in Side : Waiting(x)' \/ readIdx'[x] = 0
         /\ ended[s] = "open" =>
              /\ ReadResult(s) \in {"OK", "BUFFER_FULL", "NOTHING"}
              /\ ReadResult(s) = "NOTHING" <=> ~Waiting(s)'
<1> DEFINE t == TakenFrom(s)
           r == readIdx[s]
           w == writeIdx[s]
<1>1. /\ BUF_SIZE \in Nat \ {0} /\ r \in 0..BUF_SIZE /\ w \in 0..BUF_SIZE /\ w <= r
      /\ Len(rcvq[s]) \in Nat
  BY RelayAssumption, Contents DEF TypeOK, IndexOrder
<1>2. t = IF BUF_SIZE - r < Len(rcvq[s]) THEN BUF_SIZE - r ELSE Len(rcvq[s])
  BY DEF TakenFrom, Smaller
<1>3. t \in Nat /\ r + t <= BUF_SIZE
  <2> HIDE DEF t, r, w
  <2> QED
    BY <1>1, <1>2
<1>4. /\ readIdx'[s] = r + t /\ writeIdx'[s] = w
      /\ \A x \in Side : x # s => readIdx'[x] = readIdx[x] /\ writeIdx'[x] = writeIdx[x]
  BY DEF ReadInto, TypeOK
<1>5. \A x \in Side : Waiting(x) \/ readIdx[x] = 0
  BY DEF PlacesInv
<1>6. /\ w < r => w < r + t
      /\ w < r + t \/ r + t = 0
      /\ r + t >= BUF_SIZE => w < r + t
      /\ ~(r + t > w) <=> ~(w < r + t)
  <2>1. w < r \/ r = 0
    BY <1>5 DEF Waiting
  <2> HIDE DEF t, r, w
  <2> QED
    BY <1>1, <1>3, <2>1
<1>7. \A x \in Side : x # s => Waiting(x)' = Waiting(x)
  BY <1>4 DEF Waiting
<1>8. (Waiting(s) <=> w < r) /\ (Waiting(s)' <=> w < r + t)
  BY <1>4 DEF Waiting
<1>9. ended[s] = "open" =>
        ReadResult(s) = IF r + t >= BUF_SIZE THEN "BUFFER_FULL"
                        ELSE IF r + t > w THEN "OK" ELSE "NOTHING"
  BY DEF ReadResult
<1>10. ended[s] = "open" =>
        /\ ReadResult(s) \in {"OK", "BUFFER_FULL", "NOTHING"}
        /\ ReadResult(s) = "NOTHING" <=> ~Waiting(s)'
  <2> HIDE DEF t, r, w
  <2> QED
    BY <1>6, <1>8, <1>9
<1>11. \A x \in Side : Waiting(x)' \/ readIdx'[x] = 0
  BY <1>4, <1>5, <1>6, <1>7, <1>8
<1>12. \A x \in Side : Waiting(x) => Waiting(x)'
  BY <1>6, <1>7, <1>8
<1> QED
  BY <1>7, <1>10, <1>11, <1>12

(* What writing does to the indexes.                                        *)
LEMMA WriteIndexes ==
  ASSUME TypeOK, IndexOrder, SendFits, PlacesInv, NEW s \in Side, WriteOutOf(s)
  PROVE  /\ \A x \in Side : x # Other(s) => Waiting(x)' = Waiting(x)
         /\ \A x \in Side : Waiting(x)' \/ readIdx'[x] = 0
         /\ WriteResult(s) = "BUFFER_EMPTY" <=> ~Waiting(Other(s))'
         /\ ended[s] = "open" => WriteResult(s) \in {"BUFFER_EMPTY", "TRY_AGAIN"}
<1> DEFINE o == Other(s)
           g == GivenTo(s)
           r == readIdx[o]
           w == writeIdx[o]
<1>1. /\ o \in Side /\ r \in Nat /\ w \in Nat /\ w <= r
      /\ g \in 0..(r - w) /\ Len(Pending(o)) = r - w
  BY SideFacts, IndexTypes, WaitingBytes
<1>2. WriteResult(s) = "BUFFER_EMPTY" <=> g = r - w
  BY <1>1 DEF WriteResult, Source
<1>3. \A x \in Side : x # o => readIdx'[x] = readIdx[x] /\ writeIdx'[x] = writeIdx[x]
  BY DEF WriteOutOf, Source, TypeOK
<1>4. /\ WriteResult(s) = "BUFFER_EMPTY" => readIdx'[o] = 0 /\ writeIdx'[o] = 0
      /\ WriteResult(s) # "BUFFER_EMPTY" => readIdx'[o] = r /\ writeIdx'[o] = w + g
  BY <1>1 DEF WriteOutOf, Source, TypeOK
<1>5. WriteResult(s) = "BUFFER_EMPTY" <=> ~Waiting(o)'
  <2>1. CASE WriteResult(s) = "BUFFER_EMPTY"
    <3>1. ~(writeIdx'[o] < readIdx'[o])
      BY <1>4, <2>1
    <3> QED
      BY <2>1, <3>1 DEF Waiting
  <2>2. CASE WriteResult(s) # "BUFFER_EMPTY"
    <3>1. w + g < r
      <4> HIDE DEF o, g, r, w
      <4> QED
        BY <1>1, <1>2, <2>2
    <3>2. writeIdx'[o] < readIdx'[o]
      BY <1>4, <2>2, <3>1
    <3> QED
      BY <2>2, <3>2 DEF Waiting
  <2> QED
    BY <2>1, <2>2
<1>6. \A x \in Side : x # o => Waiting(x)' = Waiting(x)
  BY <1>3 DEF Waiting
<1>7. \A x \in Side : Waiting(x)' \/ readIdx'[x] = 0
  BY <1>3, <1>4, <1>5, <1>6 DEF PlacesInv
<1>8. ended[s] = "open" => WriteResult(s) \in {"BUFFER_EMPTY", "TRY_AGAIN"}
  BY DEF WriteResult
<1> QED
  BY <1>5, <1>6, <1>7, <1>8

(* An emptied buffer begins anew, a socket has one event.                   *)
LEMMA PlacesNext ==
  ASSUME BytesInv, PlacesInv, [Next]_vars
  PROVE  PlacesInv'
<1>0. TypeOK /\ IndexOrder /\ SendFits
  BY DEF BytesInv
<1>1. ASSUME UNCHANGED <<readIdx, writeIdx>>
      PROVE  \A x \in Side : Waiting(x)' \/ readIdx'[x] = 0
  BY <1>1 DEF Waiting, PlacesInv
<1>2. ASSUME UNCHANGED batch
      PROVE  \A i, j \in 1..Len(batch') : batch'[i].side = batch'[j].side => i = j
  BY <1>2 DEF PlacesInv
<1>3. ASSUME Continue, batch # <<>>
      PROVE  \A i, j \in 1..Len(batch') : batch'[i].side = batch'[j].side => i = j
  <2>1. /\ Len(batch') = Len(batch) - 1 /\ Len(batch) \in Nat
        /\ \A i \in 1..Len(batch') : batch'[i] = batch[i + 1]
    BY <1>0, <1>3, BatchTail
  <2>2. ASSUME NEW i \in 1..Len(batch'), NEW j \in 1..Len(batch'), batch'[i].side = batch'[j].side
        PROVE  i = j
    <3>1. i + 1 \in 1..Len(batch) /\ j + 1 \in 1..Len(batch)
      BY <2>1
    <3>2. batch[i + 1].side = batch[j + 1].side
      BY <2>1, <2>2
    <3>3. i + 1 = j + 1
      BY <3>1, <3>2 DEF PlacesInv
    <3> QED
      BY <2>1, <3>3
  <2> QED
    BY <2>2
<1>4. ASSUME FreeConn PROVE PlacesInv'
  <2>1. batch' = <<>> /\ \A x \in Side : readIdx'[x] = 0
    BY <1>4 DEF FreeConn
  <2>2. Len(batch') = 0
    BY <2>1, EmptySeq
  <2> QED
    BY <2>1, <2>2 DEF PlacesInv
<1>5. CASE \E s \in Side : Peer(s)
  <2>1. connVars' = connVars /\ batch' = batch
    BY <1>5 DEF Peer, PeerWrites, PeerReads, PeerCloses, PeerResets
  <2> QED
    BY <1>1, <1>2, <2>1 DEF PlacesInv, connVars
<1>6. CASE EpollWait
  <2>1. connVars' = connVars
    BY <1>6 DEF EpollWait
  <2>2. \A i, j \in 1..Len(batch') : batch'[i].side = batch'[j].side => i = j
    BY <1>0, <1>6, Reported
  <2> QED
    BY <1>1, <2>1, <2>2 DEF PlacesInv, connVars
<1>7. CASE Process
  <2>1. PICK s \in Side : Reads(s) \/ Writes(s)
    BY <1>0, <1>7, ProcessMoves
  <2>2. batch # <<>>
    BY <2>1 DEF Reads, Writes, Event
  <2>3. CASE FreeConn
    BY <1>4, <2>3
  <2>4. CASE ReadInto(s) /\ Continue
    BY <1>0, <1>3, <2>2, <2>4, ReadIndexes DEF PlacesInv
  <2>5. CASE WriteOutOf(s) /\ Continue
    BY <1>0, <1>3, <2>2, <2>5, WriteIndexes DEF PlacesInv
  <2> QED
    BY <2>1, <2>3, <2>4, <2>5 DEF Reads, Writes
<1>8. CASE UNCHANGED vars
  BY <1>1, <1>2, <1>8 DEF PlacesInv, vars, connVars, epollVars
<1> QED
  BY <1>5, <1>6, <1>7, <1>8 DEF Next

(* With orderly peers, one buffer at a time holds bytes.                    *)
LEMMA OneWay ==
  ASSUME BytesInv, Unbroken, InTurn
  PROVE  ~(Waiting("clt") /\ Waiting("srv"))
<1>0. /\ TypeOK /\ IndexOrder /\ Conservation
      /\ "clt" \in Side /\ "srv" \in Side /\ Other("clt") = "srv" /\ Other("srv") = "clt"
  BY DEF BytesInv, Side, Other
<1>1. ASSUME NEW s \in Side, NEW o \in Side, o = Other(s), Waiting(s)
      PROVE  Len(got[o]) < sent[s]
  <2>1. Held(s) = Stream(s)
    BY <1>0, <1>1 DEF Unbroken, Conservation, Held
  <2>2. Len(Stream(s)) = sent[s]
    BY <1>0, Contents
  <2> DEFINE a == got[o]
             b == sndq[o]
             c == Pending(s)
             d == rcvq[s]
  <2>3. /\ a \in Seq(Int) /\ b \in Seq(Int) /\ c \in Seq(Int) /\ d \in Seq(Int)
        /\ Len(c) = readIdx[s] - writeIdx[s]
    BY <1>0, <1>1, Contents
  <2>4. Held(s) = Cat(Cat(Cat(a, b), c), d)
    BY <1>1, InParts
  <2>5. Len(c) > 0
    BY <1>0, <1>1, <2>3, IndexTypes DEF Waiting
  <2> HIDE DEF a, b, c, d
  <2>6. Len(a) \in Nat /\ Len(b) \in Nat /\ Len(c) \in Nat /\ Len(d) \in Nat
    BY <2>3, LenProperties
  <2>7. Cat(a, b) \in Seq(Int) /\ Len(Cat(a, b)) = Len(a) + Len(b)
    BY <2>3, CatFacts
  <2>8. Cat(Cat(a, b), c) \in Seq(Int) /\ Len(Cat(Cat(a, b), c)) = Len(Cat(a, b)) + Len(c)
    BY <2>3, <2>7, CatFacts
  <2>9. Len(Cat(Cat(Cat(a, b), c), d)) = Len(Cat(Cat(a, b), c)) + Len(d)
    BY <2>3, <2>8, CatFacts
  <2>10. Len(a) < sent[s]
    BY <2>1, <2>2, <2>4, <2>5, <2>6, <2>7, <2>8, <2>9
  <2> QED
    BY <2>10 DEF a
<1> SUFFICES ASSUME Waiting("clt"), Waiting("srv") PROVE FALSE
  OBVIOUS
<1> DEFINE mc == MsgLen["clt"]
           ms == MsgLen["srv"]
           gc == Len(got["clt"])
           gs == Len(got["srv"])
           sc == sent["clt"]
           ss == sent["srv"]
<1>2. gs < sc /\ gc < ss
  BY <1>0, <1>1
<1>3. /\ mc \in Nat \ {0} /\ ms \in Nat \ {0} /\ gc \in Nat /\ gs \in Nat
      /\ sc \in Nat /\ ss \in Nat
  BY <1>0, RelayAssumption, LenProperties DEF TypeOK
<1>4. sc <= mc * (gc \div ms + 1) /\ ss <= ms * (gs \div mc)
  BY DEF InTurn
<1> HIDE DEF mc, ms, gc, gs, sc, ss
<1>5. ss <= gc
  BY <1>2, <1>3, <1>4, Exclusive
<1> QED
  BY <1>2, <1>3, <1>5

(* Peers that take turns keep taking turns.                                 *)
LEMMA TurnsPeer ==
  ASSUME BytesInv, TurnInv, orderly, NEW s \in Side, Peer(s)
  PROVE  Unbroken' /\ InTurn' /\ Armed' /\ OutWaits'
<1>0. /\ TypeOK /\ Unbroken /\ InTurn /\ Armed /\ OutWaits
      /\ PeerWrites(s) \/ PeerReads(s)
      /\ Side = {"clt", "srv"} /\ Other("clt") = "srv" /\ Other("srv") = "clt"
  BY DEF BytesInv, TurnInv, Peer, PeerCloses, PeerResets, Side, Other
<1>1. /\ connVars' = connVars /\ interest' = interest /\ batch' = batch /\ ended' = ended
  BY <1>0 DEF PeerWrites, PeerReads
<1>2. Unbroken' /\ Armed' /\ OutWaits'
  <2>1. \A x : Waiting(x)' = Waiting(x)
    BY <1>1 DEF connVars, Waiting
  <2>2. Unbroken' /\ Armed'
    BY <1>0, <1>1, <2>1 DEF connVars, Unbroken, Armed
  <2>3. OutWaits'
    BY <1>0, <1>1, <2>1 DEF OutWaits
  <2> QED
    BY <2>2, <2>3
<1> DEFINE mc == MsgLen["clt"]
           ms == MsgLen["srv"]
           gc == Len(got["clt"])
           gs == Len(got["srv"])
           sc == sent["clt"]
           ss == sent["srv"]
<1>3. /\ mc \in Nat \ {0} /\ ms \in Nat \ {0} /\ gc \in Nat /\ gs \in Nat
      /\ sc \in Nat /\ ss \in Nat
  BY <1>0, RelayAssumption, LenProperties DEF TypeOK
<1>4. sc <= mc * (gc \div ms + 1) /\ ss <= ms * (gs \div mc)
  BY <1>0 DEF InTurn
<1>5. CASE PeerWrites(s)
  <2>1. /\ got' = got
        /\ sent' = [sent EXCEPT ![s] = @ + 1]
        /\ MayWrite(s)
    BY <1>5 DEF PeerWrites
  <2>2. CASE s = "clt"
    <3>1. sc < mc * (gc \div ms + 1) /\ sent'["clt"] = sc + 1 /\ sent'["srv"] = ss
      BY <1>0, <2>1, <2>2 DEF MayWrite, TypeOK
    <3>2. mc * (gc \div ms + 1) \in Nat
      <4> DEFINE q == gc \div ms
      <4>1. q \in Nat
        BY <1>3, DivFacts
      <4> HIDE DEF q, mc
      <4>2. mc * (q + 1) \in Nat
        BY <1>3, <4>1
      <4> QED
        BY <4>2 DEF q
    <3>3. InTurn' <=> sent'["clt"] <= mc * (gc \div ms + 1) /\ sent'["srv"] <= ms * (gs \div mc)
      BY <2>1 DEF InTurn
    <3> HIDE DEF mc, ms, gc, gs, sc, ss
    <3>4. sc + 1 <= mc * (gc \div ms + 1)
      BY <1>3, <3>1, <3>2
    <3> QED
      BY <1>2, <1>4, <3>1, <3>3, <3>4
  <2>3. CASE s = "srv"
    <3>1. ss < ms * (gs \div mc) /\ sent'["clt"] = sc /\ sent'["srv"] = ss + 1
      BY <1>0, <2>1, <2>3 DEF MayWrite, TypeOK
    <3>2. ms * (gs \div mc) \in Nat
      <4> DEFINE q == gs \div mc
      <4>1. q \in Nat
        BY <1>3, DivFacts
      <4> HIDE DEF q, ms
      <4>2. ms * q \in Nat
        BY <1>3, <4>1
      <4> QED
        BY <4>2 DEF q
    <3>3. InTurn' <=> sent'["clt"] <= mc * (gc \div ms + 1) /\ sent'["srv"] <= ms * (gs \div mc)
      BY <2>1 DEF InTurn
    <3> HIDE DEF mc, ms, gc, gs, sc, ss
    <3>4. ss + 1 <= ms * (gs \div mc)
      BY <1>3, <3>1, <3>2
    <3> QED
      BY <1>2, <1>4, <3>1, <3>3, <3>4
  <2> QED
    BY <1>0, <2>2, <2>3
<1>6. CASE PeerReads(s)
  <2>1. /\ sent' = sent
        /\ \A x \in Side : Len(got'[x]) \in Nat /\ Len(got[x]) <= Len(got'[x])
    <3>1. got' = [got EXCEPT ![s] = Append(@, Head(sndq[s]))] /\ sent' = sent
      BY <1>6 DEF PeerReads
    <3>2. ASSUME NEW x \in Side PROVE Len(got'[x]) \in Nat /\ Len(got[x]) <= Len(got'[x])
      <4>1. got[x] \in Seq(Int) /\ Len(got[x]) \in Nat
        BY <1>0, LenProperties DEF TypeOK
      <4>2. CASE x = s
        <5>1. got'[x] = Append(got[x], Head(sndq[s]))
          BY <1>0, <3>1, <4>2 DEF TypeOK
        <5>2. Head(sndq[s]) \in Int
          BY <1>0, <1>6, HeadTailProperties DEF PeerReads, TypeOK
        <5>3. Len(got'[x]) = Len(got[x]) + 1
          BY <4>1, <5>1, <5>2, AppendProperties
        <5> QED
          BY <4>1, <5>3
      <4>3. CASE x # s
        <5>1. got'[x] = got[x]
          BY <1>0, <3>1, <4>3 DEF TypeOK
        <5> QED
          BY <4>1, <5>1
      <4> QED
        BY <4>2, <4>3
    <3> QED
      BY <3>1, <3>2
  <2> DEFINE hc == Len(got'["clt"])
             hs == Len(got'["srv"])
  <2>2. hc \in Nat /\ hs \in Nat /\ gc <= hc /\ gs <= hs
    BY <1>0, <2>1
  <2>3. InTurn' <=> sc <= mc * (hc \div ms + 1) /\ ss <= ms * (hs \div mc)
    BY <2>1 DEF InTurn
  <2> HIDE DEF mc, ms, gc, gs, sc, ss, hc, hs
  <2>4. /\ gc \div ms <= hc \div ms /\ gs \div mc <= hs \div mc
        /\ gc \div ms \in Nat /\ hc \div ms \in Nat /\ gs \div mc \in Nat /\ hs \div mc \in Nat
    BY <1>3, <2>2, DivMono, DivFacts
  <2> DEFINE a == gc \div ms + 1
             b == hc \div ms + 1
             c == gs \div mc
             d == hs \div mc
  <2>5. a \in Nat /\ b \in Nat /\ c \in Nat /\ d \in Nat /\ a <= b /\ c <= d
    BY <2>4
  <2>6. sc <= mc * a /\ ss <= ms * c /\ (InTurn' <=> sc <= mc * b /\ ss <= ms * d)
    BY <1>4, <2>3
  <2> HIDE DEF a, b, c, d
  <2>7. mc * a <= mc * b /\ mc * a \in Nat /\ mc * b \in Nat
    BY <1>3, <2>5, MulMono
  <2>8. ms * c <= ms * d /\ ms * c \in Nat /\ ms * d \in Nat
    BY <1>3, <2>5, MulMono
  <2>9. sc <= mc * b /\ ss <= ms * d
    BY <1>3, <2>6, <2>7, <2>8
  <2> QED
    BY <1>2, <2>6, <2>9
<1> QED
  BY <1>0, <1>5, <1>6

(* A handler that reads s keeps the sockets armed.                          *)
LEMMA TurnsRead ==
  ASSUME BytesInv, PlacesInv, TurnInv, orderly, NEW s \in Side,
         Event(s, "IN"), UNCHANGED <<sent, got, ended>>, ReadInto(s), Continue,
         m_srv_closed' = m_srv_closed,
         interest'[s] = interest[s],
         ReadResult(s) \in {"OK", "BUFFER_FULL"} => interest'[Other(s)] = "OUT",
         ReadResult(s) = "NOTHING" => interest'[Other(s)] = interest[Other(s)]
  PROVE  Unbroken' /\ InTurn' /\ Armed' /\ OutWaits'
<1> DEFINE o == Other(s)
<1>0. /\ TypeOK /\ IndexOrder /\ Unbroken /\ InTurn /\ Armed /\ OutWaits /\ batch # <<>>
      /\ o \in Side /\ o # s /\ Other(o) = s /\ \A x \in Side : x # s => x = o
      /\ ended[s] = "open"
  BY SideFacts DEF BytesInv, TurnInv, Event, Unbroken
<1>1. Unbroken' /\ InTurn'
  BY <1>0 DEF Unbroken, InTurn, Continue
<1>2. /\ \A x \in Side : Waiting(x) => Waiting(x)'
      /\ \A x \in Side : x # s => Waiting(x)' = Waiting(x)
      /\ ReadResult(s) \in {"OK", "BUFFER_FULL", "NOTHING"}
      /\ ReadResult(s) = "NOTHING" <=> ~Waiting(s)'
  BY <1>0, ReadIndexes
<1>3. Waiting(s)' <=> interest'[o] = "OUT"
  <2>1. Waiting(s) <=> interest[o] = "OUT"
    BY <1>0 DEF Armed
  <2>2. CASE ReadResult(s) = "NOTHING"
    BY <1>2, <2>1, <2>2
  <2>3. CASE ReadResult(s) # "NOTHING"
    BY <1>2, <2>3
  <2> QED
    BY <2>2, <2>3
<1>4. Waiting(o)' <=> interest'[s] = "OUT"
  <2>1. Waiting(o) <=> interest[s] = "OUT"
    BY <1>0 DEF Armed
  <2> QED
    BY <1>0, <1>2, <2>1
<1>5. Armed'
  <2>1. \A x \in Side : Waiting(x)' <=> interest'[Other(x)] = "OUT"
    BY <1>0, <1>3, <1>4
  <2> QED
    BY <2>1 DEF Armed
<1>6. OutWaits'
  <2>1. /\ Len(batch') = Len(batch) - 1 /\ Len(batch) \in Nat
        /\ \A i \in 1..Len(batch') : batch'[i] = batch[i + 1]
        /\ batch' \in Seq(EventType)
    BY <1>0, BatchTail
  <2>2. ASSUME NEW i \in 1..Len(batch'), batch'[i].type = "OUT"
        PROVE  writeIdx'[Other(batch'[i].side)] < readIdx'[Other(batch'[i].side)]
    <3>1. i + 1 \in 1..Len(batch) /\ batch'[i] = batch[i + 1]
      BY <2>1
    <3>2. Waiting(Other(batch[i + 1].side))
      BY <1>0, <2>2, <3>1 DEF OutWaits
    <3>3. batch'[i] \in EventType
      BY <2>1, ElementOfSeq
    <3>4. Other(batch'[i].side) \in Side
      BY <3>3, SideFacts DEF EventType
    <3>5. \A x \in Side : Waiting(x) => writeIdx'[x] < readIdx'[x]
      BY <1>2 DEF Waiting
    <3> QED
      BY <3>1, <3>2, <3>4, <3>5
  <2> QED
    BY <2>2 DEF OutWaits, Waiting
<1> QED
  BY <1>1, <1>5, <1>6

(* A handler that writes to s keeps the sockets armed: when it has emptied  *)
(* a buffer and registers both sockets for input, the other buffer is empty *)
(* too.                                                                     *)
LEMMA TurnsWrite ==
  ASSUME BytesInv, PlacesInv, TurnInv, orderly, NEW s \in Side,
         Event(s, "OUT"), UNCHANGED <<sent, got, ended>>, WriteOutOf(s), Continue,
         m_srv_closed' = m_srv_closed,
         WriteResult(s) = "TRY_AGAIN" =>
           interest'[s] = "OUT" /\ interest'[Other(s)] = interest[Other(s)],
         WriteResult(s) = "BUFFER_EMPTY" => \A x \in Side : interest'[x] = "IN"
  PROVE  Unbroken' /\ InTurn' /\ Armed' /\ OutWaits'
<1> DEFINE o == Other(s)
<1>0. /\ TypeOK /\ IndexOrder /\ SendFits /\ Unbroken /\ InTurn /\ Armed /\ OutWaits
      /\ batch # <<>> /\ Head(batch) = [side |-> s, type |-> "OUT"]
      /\ o \in Side /\ o # s /\ Other(o) = s /\ \A x \in Side : x # s => x = o
      /\ ended[s] = "open"
  BY SideFacts DEF BytesInv, TurnInv, Event, Unbroken
<1>1. Unbroken' /\ InTurn'
  BY <1>0 DEF Unbroken, InTurn, Continue
<1>2. /\ Waiting(s)' = Waiting(s)
      /\ WriteResult(s) = "BUFFER_EMPTY" <=> ~Waiting(o)'
      /\ WriteResult(s) \in {"BUFFER_EMPTY", "TRY_AGAIN"}
  BY <1>0, WriteIndexes
<1>3. /\ Len(batch') = Len(batch) - 1 /\ Len(batch) \in Nat
      /\ \A i \in 1..Len(batch') : batch'[i] = batch[i + 1]
      /\ batch' \in Seq(EventType)
      /\ Head(batch) = batch[1]
  BY <1>0, BatchTail
<1>4. Len(batch) >= 1
  <2>1. batch \in Seq(EventType)
    BY <1>0 DEF TypeOK, EventType
  <2> QED
    BY <1>0, <1>3, <2>1, EmptySeq
<1>5. batch[1].side = s /\ batch[1].type = "OUT" /\ 1 \in 1..Len(batch)
  BY <1>0, <1>3, <1>4
<1>6. Waiting(o)
  BY <1>0, <1>5 DEF OutWaits
<1>7. ~Waiting(s)
  <2>1. {s, o} = {"clt", "srv"}
    BY <1>0 DEF Side
  <2> QED
    BY <1>0, <1>6, <2>1, OneWay
<1>8. Armed'
  <2>1. \A x \in Side : Waiting(x) <=> interest[Other(x)] = "OUT"
    BY <1>0 DEF Armed
  <2>2. (Waiting(o)' <=> interest'[s] = "OUT") /\ (Waiting(s)' <=> interest'[o] = "OUT")
    BY <1>0, <1>2, <1>7, <2>1
  <2>3. \A x \in Side : Waiting(x)' <=> interest'[Other(x)] = "OUT"
    BY <1>0, <2>2
  <2> QED
    BY <2>3 DEF Armed
<1>9. OutWaits'
  <2>1. ASSUME NEW i \in 1..Len(batch'), batch'[i].type = "OUT"
        PROVE  writeIdx'[Other(batch'[i].side)] < readIdx'[Other(batch'[i].side)]
    <3>1. i + 1 \in 1..Len(batch) /\ batch'[i] = batch[i + 1] /\ i + 1 # 1
      BY <1>3
    <3>2. Waiting(Other(batch[i + 1].side))
      BY <1>0, <2>1, <3>1 DEF OutWaits
    <3>3. batch[i + 1].side # s
      BY <1>5, <3>1 DEF PlacesInv
    <3>4. batch'[i] \in EventType
      BY <1>3, ElementOfSeq
    <3>5. batch'[i].side \in Side
      BY <3>4 DEF EventType
    <3>6. Other(batch[i + 1].side) = s
      BY <1>0, <3>1, <3>3, <3>5
    <3> QED
      BY <1>7, <3>2, <3>6
  <2> QED
    BY <2>1 DEF OutWaits, Waiting
<1> QED
  BY <1>1, <1>8, <1>9

(* Every step keeps orderly peers in turn and their sockets armed.          *)
LEMMA TurnsNext ==
  ASSUME BytesInv, PlacesInv, TurnInv, [Next]_vars
  PROVE  TurnInv'
<1> SUFFICES ASSUME orderly, orderly' = orderly PROVE Unbroken' /\ InTurn' /\ Armed' /\ OutWaits'
  <2>1. orderly' = orderly
    <3>1. CASE \E s \in Side : Peer(s)
      BY <3>1 DEF Peer, PeerWrites, PeerReads, PeerCloses, PeerResets
    <3>2. CASE EpollWait
      BY <3>2 DEF EpollWait
    <3>3. CASE Process
      BY <3>3 DEF Process, ReadClient, WriteClient, ReadServer, WriteServer
    <3>4. CASE UNCHANGED vars
      BY <3>4 DEF vars
    <3> QED
      BY <3>1, <3>2, <3>3, <3>4 DEF Next
  <2> QED
    BY <2>1 DEF TurnInv
<1>0. /\ TypeOK /\ IndexOrder /\ SendFits /\ Unbroken /\ InTurn /\ Armed /\ OutWaits
      /\ "clt" \in Side /\ "srv" \in Side /\ Other("clt") = "srv" /\ Other("srv") = "clt"
      /\ ended["clt"] = "open" /\ ended["srv"] = "open" /\ ~m_srv_closed
  BY DEF BytesInv, TurnInv, Unbroken, Side, Other
<1>1. /\ ReadResult("clt") \in {"OK", "BUFFER_FULL", "NOTHING"}
      /\ ReadResult("srv") \in {"OK", "BUFFER_FULL", "NOTHING"}
      /\ WriteResult("clt") \in {"BUFFER_EMPTY", "TRY_AGAIN"}
      /\ WriteResult("srv") \in {"BUFFER_EMPTY", "TRY_AGAIN"}
  BY <1>0 DEF ReadResult, WriteResult
<1> DEFINE sv == {"srv"}
           cl == {"clt"}
<1>s. /\ sv \in SUBSET Side /\ "srv" \in sv /\ "clt" \notin sv
      /\ cl \in SUBSET Side /\ "clt" \in cl /\ "srv" \notin cl
  BY DEF Side
<1>m. /\ Modfd([s \in sv |-> "OUT"], rcvq', sndq') =>
           interest'["srv"] = "OUT" /\ interest'["clt"] = interest["clt"]
      /\ Modfd([s \in cl |-> "OUT"], rcvq', sndq') =>
           interest'["clt"] = "OUT" /\ interest'["srv"] = interest["srv"]
      /\ Modfd([s \in Side |-> "IN"], rcvq', sndq') => \A x \in Side : interest'[x] = "IN"
  <2>1. ASSUME Modfd([s \in sv |-> "OUT"], rcvq', sndq')
        PROVE  interest'["srv"] = "OUT" /\ interest'["clt"] = interest["clt"]
    <3>1. interest'["srv"] = "OUT"
      BY <1>0, <2>1 DEF Modfd
    <3>2. interest'["clt"] = interest["clt"]
      BY <1>0, <2>1 DEF Modfd
    <3> QED
      BY <3>1, <3>2
  <2>2. ASSUME Modfd([s \in cl |-> "OUT"], rcvq', sndq')
        PROVE  interest'["clt"] = "OUT" /\ interest'["srv"] = interest["srv"]
    <3>1. interest'["clt"] = "OUT"
      BY <1>0, <2>2 DEF Modfd
    <3>2. interest'["srv"] = interest["srv"]
      BY <1>0, <2>2 DEF Modfd
    <3> QED
      BY <3>1, <3>2
  <2>3. ASSUME Modfd([s \in Side |-> "IN"], rcvq', sndq'), NEW x \in Side
        PROVE  interest'[x] = "IN"
    BY <2>3 DEF Modfd
  <2> QED
    BY <2>1, <2>2, <2>3
<1>2. CASE \E s \in Side : Peer(s)
  BY <1>2, TurnsPeer
<1>3. CASE EpollWait
  <2>1. connVars' = connVars /\ peerVars' = peerVars /\ interest' = interest
    BY <1>3 DEF EpollWait
  <2>2. \A x : Waiting(x)' = Waiting(x)
    BY <2>1 DEF connVars, Waiting
  <2>3. Unbroken' /\ InTurn' /\ Armed'
    BY <1>0, <2>1, <2>2 DEF connVars, peerVars, Unbroken, InTurn, Armed
  <2>4. ASSUME NEW i \in 1..Len(batch'), batch'[i].type = "OUT"
        PROVE  writeIdx'[Other(batch'[i].side)] < readIdx'[Other(batch'[i].side)]
    <3>1. batch'[i].side \in Side /\ interest[batch'[i].side] = "OUT"
      BY <1>0, <1>3, <2>4, Reported
    <3>2. /\ Other(batch'[i].side) \in Side
          /\ Other(Other(batch'[i].side)) = batch'[i].side
      BY <3>1, SideFacts
    <3>3. Waiting(Other(batch'[i].side))
      BY <1>0, <3>1, <3>2 DEF Armed
    <3>4. writeIdx' = writeIdx /\ readIdx' = readIdx
      BY <2>1 DEF connVars
    <3> QED
      BY <3>3, <3>4 DEF Waiting
  <2> QED
    BY <2>3, <2>4 DEF OutWaits, Waiting
<1>4. CASE ReadClient
  <2>1. /\ Event("clt", "IN") /\ UNCHANGED <<sent, got, ended>> /\ ReadInto("clt") /\ Continue
        /\ m_srv_closed' = m_srv_closed
        /\ ReadResult("clt") \in {"OK", "BUFFER_FULL"} => Modfd([s \in sv |-> "OUT"], rcvq', sndq')
        /\ ReadResult("clt") = "NOTHING" => UNCHANGED <<interest, edge>>
    BY <1>0, <1>1, <1>4 DEF ReadClient
  <2>2. /\ interest'["clt"] = interest["clt"]
        /\ ReadResult("clt") \in {"OK", "BUFFER_FULL"} => interest'["srv"] = "OUT"
        /\ ReadResult("clt") = "NOTHING" => interest'["srv"] = interest["srv"]
    BY <1>1, <1>m, <2>1
  <2> QED
    BY <1>0, <2>1, <2>2, TurnsRead
<1>5. CASE ReadServer
  <2>1. /\ Event("srv", "IN") /\ UNCHANGED <<sent, got, ended>> /\ ReadInto("srv") /\ Continue
        /\ m_srv_closed' = (m_srv_closed \/ ReadResult("srv") \in {"IOERR", "CLOSED"})
        /\ ReadResult("srv") \in {"OK", "BUFFER_FULL"} => Modfd([s \in cl |-> "OUT"], rcvq', sndq')
        /\ ReadResult("srv") = "NOTHING" => UNCHANGED <<interest, edge>>
    BY <1>0, <1>1, <1>5 DEF ReadServer
  <2>2. /\ interest'["srv"] = interest["srv"]
        /\ ReadResult("srv") \in {"OK", "BUFFER_FULL"} => interest'["clt"] = "OUT"
        /\ ReadResult("srv") = "NOTHING" => interest'["clt"] = interest["clt"]
    BY <1>1, <1>m, <2>1
  <2>3. m_srv_closed' = m_srv_closed
    <3>1. m_srv_closed \in BOOLEAN
      BY <1>0 DEF TypeOK
    <3>2. ReadResult("srv") \notin {"IOERR", "CLOSED"}
      BY <1>1
    <3> QED
      BY <2>1, <3>1, <3>2
  <2> QED
    BY <1>0, <2>1, <2>2, <2>3, TurnsRead
<1>6. CASE WriteClient
  <2>1. /\ Event("clt", "OUT") /\ UNCHANGED <<sent, got, ended>> /\ WriteOutOf("clt") /\ Continue
        /\ m_srv_closed' = m_srv_closed
        /\ WriteResult("clt") = "TRY_AGAIN" => Modfd([s \in cl |-> "OUT"], rcvq', sndq')
        /\ WriteResult("clt") = "BUFFER_EMPTY" => Modfd([s \in Side |-> "IN"], rcvq', sndq')
    BY <1>0, <1>1, <1>6 DEF WriteClient
  <2>2. /\ WriteResult("clt") = "TRY_AGAIN" =>
             interest'["clt"] = "OUT" /\ interest'["srv"] = interest["srv"]
        /\ WriteResult("clt") = "BUFFER_EMPTY" => \A x \in Side : interest'[x] = "IN"
    BY <1>m, <2>1
  <2> QED
    BY <1>0, <2>1, <2>2, TurnsWrite
<1>7. CASE WriteServer
  <2>1. /\ Event("srv", "OUT") /\ UNCHANGED <<sent, got, ended>> /\ WriteOutOf("srv") /\ Continue
        /\ m_srv_closed' = (m_srv_closed \/ WriteResult("srv") = "IOERR")
        /\ WriteResult("srv") = "TRY_AGAIN" => Modfd([s \in sv |-> "OUT"], rcvq', sndq')
        /\ WriteResult("srv") = "BUFFER_EMPTY" => Modfd([s \in Side |-> "IN"], rcvq', sndq')
    BY <1>0, <1>1, <1>7 DEF WriteServer
  <2>2. /\ WriteResult("srv") = "TRY_AGAIN" =>
             interest'["srv"] = "OUT" /\ interest'["clt"] = interest["clt"]
        /\ WriteResult("srv") = "BUFFER_EMPTY" => \A x \in Side : interest'[x] = "IN"
    BY <1>m, <2>1
  <2>3. m_srv_closed' = m_srv_closed
    <3>1. m_srv_closed \in BOOLEAN
      BY <1>0 DEF TypeOK
    <3>2. WriteResult("srv") # "IOERR"
      BY <1>1
    <3> QED
      BY <2>1, <3>1, <3>2
  <2> QED
    BY <1>0, <2>1, <2>2, <2>3, TurnsWrite
<1>8. CASE UNCHANGED vars
  <2>1. UNCHANGED <<readIdx, writeIdx, live, m_srv_closed, ended, sent, got, interest, batch>>
    BY <1>8 DEF vars, connVars, epollVars, peerVars
  <2>2. \A x : Waiting(x)' = Waiting(x)
    BY <2>1 DEF Waiting
  <2> QED
    BY <1>0, <2>1, <2>2 DEF Unbroken, InTurn, Armed, OutWaits
<1> QED
  BY <1>2, <1>3, <1>4, <1>5, <1>6, <1>7, <1>8 DEF Next, Process

(* With orderly peers, bytes in a buffer have somebody who will send them:  *)
(* the socket they go to is registered for output.                          *)
THEOREM BufferedIsArmedTheorem == Spec => []BufferedIsArmed
<1>1. Init => PlacesInv /\ TurnInv
  <2> SUFFICES ASSUME Init PROVE PlacesInv /\ TurnInv
    OBVIOUS
  <2>0. Len(<<>>) = 0
    BY EmptySeq
  <2>1. PlacesInv /\ OutWaits
    BY <2>0 DEF Init, PlacesInv, OutWaits
  <2>2. Unbroken
    BY DEF Init, Unbroken
  <2>3. Armed
    <3>1. \A x \in Side : Other(x) \in Side
      BY SideFacts
    <3> QED
      BY <3>1 DEF Init, Armed, Waiting
  <2>4. InTurn
    <3>1. MsgLen["clt"] \in Nat \ {0} /\ MsgLen["srv"] \in Nat \ {0}
      BY RelayAssumption DEF Side
    <3>2. sent["clt"] = 0 /\ sent["srv"] = 0 /\ Len(got["clt"]) = 0 /\ Len(got["srv"]) = 0
      BY <2>0 DEF Init, Side
    <3>3. 0 <= MsgLen["clt"] * (0 \div MsgLen["srv"] + 1) /\ 0 <= MsgLen["srv"] * (0 \div MsgLen["clt"])
      <4> DEFINE a == 0 \div MsgLen["srv"]
                 b == 0 \div MsgLen["clt"]
                 m == MsgLen["clt"]
                 k == MsgLen["srv"]
      <4>1. a \in Nat /\ b \in Nat /\ m \in Nat /\ k \in Nat
        BY <3>1, DivFacts
      <4> HIDE DEF a, b, m, k
      <4>2. m * (a + 1) \in Nat /\ k * b \in Nat
        BY <4>1
      <4> QED
        BY <4>2 DEF a, b, m, k
    <3> QED
      BY <3>2, <3>3 DEF InTurn
  <2> QED
    BY <2>1, <2>2, <2>3, <2>4 DEF TurnInv
<1>2. BytesInv /\ PlacesInv /\ TurnInv /\ [Next]_vars => PlacesInv' /\ TurnInv'
  BY PlacesNext, TurnsNext
<1>3. BytesInv /\ TurnInv => BufferedIsArmed
  <2> SUFFICES ASSUME BytesInv, TurnInv, orderly, NEW s \in Side, Pending(s) # <<>>
               PROVE  interest[Other(s)] = "OUT"
    BY DEF BufferedIsArmed
  <2>1. Waiting(s)
    BY WaitingBytes DEF BytesInv
  <2> QED
    BY <2>1 DEF TurnInv, Armed
<1> QED
  BY <1>1, <1>2, <1>3, BytesInvariant, PTL DEF Spec
=============================================================================
