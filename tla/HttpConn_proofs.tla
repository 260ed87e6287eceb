---------------------------- MODULE HttpConn_proofs ----------------------------
(***************************************************************************)
(* Proofs about http_conn: its parser and those it is compared with        *)
(* (HttpParse), for any set of requests, any sizes of the buffer and the   *)
(* body and however a request is cut into pieces; and its answers          *)
(* (HttpWrite), for any number of connections, sizes of files and amount   *)
(* of memory.  At the end the theorems about the specification that the    *)
(* run checks.                                                             *)
(***************************************************************************)
EXTENDS MCHttpConn, Integers, SequenceTheorems, WellFoundedInduction, TLAPS
-----------------------------------------------------------------------------
(* process_read, and the parsers of 8-3httpparser.cpp and chap8.            *)

(* What was received at index i of the buffer, before anything is erased.   *)
At(i) == r_input[i + 1]

EndAt(i) == At(i) = "CR" /\ At(i + 1) = "LF"

Whole(i, k) ==
  /\ At(i) = "CR" => i + 1 < k /\ At(i + 1) = "LF"
  /\ At(i) = "LF" => i > 0 /\ At(i - 1) = "CR"

(* Up to k there are whole lines, none blank, and the beginning of one that *)
(* starts at st.                                                            *)
WholeLines(k, st) ==
  /\ \A i \in 0..k - 1 : Whole(i, k)
  /\ st = 0 \/ (st >= 2 /\ EndAt(st - 2))
  /\ \A i \in st..k - 1 : At(i) \notin {"CR", "LF"}
  /\ \A i \in 0..st - 4 : ~(EndAt(i) /\ EndAt(i + 2))

(* The first line is a good request line. *)
Requested == At(0) = "R" /\ EndAt(1)

(* The head of the request ends at h. *)
HeadDone(h) ==
  /\ \A i \in 0..h - 1 : Whole(i, h)
  /\ \A i \in 0..h - 1 : ~(EndAt(i) /\ EndAt(i + 2))
  /\ Requested /\ h >= 1 /\ EndAt(h) /\ EndAt(h + 2)

Types ==
  /\ r_program \in {"http_conn", "httpparser", "chap8"}
  /\ r_input \in Seq(R!Token \ {"NUL"})
  /\ r_m_read_buf \in [R!Index -> R!Token]
  /\ r_m_read_idx \in 0..Len(r_input) /\ r_m_read_idx <= READ_BUFFER_SIZE
  /\ r_m_checked_idx \in 0..r_m_read_idx /\ r_m_start_line \in 0..r_m_checked_idx
  /\ r_m_check_state \in {"REQUESTLINE", "HEADER", "CONTENT"}
  /\ r_m_content_length \in {0, BodyLength}
  /\ r_pc \in {"recv", "parse", "done"}
  /\ r_pc # "done" => r_result = "NO_REQUEST"
  /\ r_bodySplit \in BOOLEAN

(* What has not been checked is in the buffer as it came. *)
Unchecked ==
  /\ \A i \in r_m_checked_idx..r_m_read_idx - 1 : r_m_read_buf[i] = At(i)
  /\ \A i \in r_m_read_idx..READ_BUFFER_SIZE - 1 : r_m_read_buf[i] = "NUL"

(* The head, while it is parsed. *)
HeadSoFar ==
  /\ WholeLines(r_m_checked_idx, r_m_start_line)
  /\ \A i \in 0..r_m_checked_idx - 1 : r_m_read_buf[i] # "CR"
  /\ \A i \in r_m_start_line..r_m_checked_idx - 1 : r_m_read_buf[i] = At(i)
  /\ r_m_check_state = "REQUESTLINE" => r_m_start_line = 0
  /\ r_m_check_state = "HEADER" => r_m_start_line >= 3 /\ Requested
  /\ r_program = "http_conn" /\ (\E i \in 0..r_m_start_line - 3 : EndAt(i) /\ At(i + 2) = "L") =>
       r_m_content_length = BodyLength
  /\ r_program = "http_conn" /\ r_m_content_length # 0 =>
       \E i \in 0..r_m_start_line - 3 : EndAt(i) /\ At(i + 2) = "L"

HeadRead == r_program # "chap8" /\ r_pc # "done" /\ r_m_check_state # "CONTENT" => HeadSoFar

(* A header of the head that ends at h gives the length of a body.  As long *)
(* as no call has begun inside the body, the first turn of a call looks at  *)
(* all of it, and a later turn has not found enough of it.                  *)
BodyAt(h) ==
  /\ \E i \in 0..h - 1 : EndAt(i) /\ At(i + 2) = "L"
  /\ ~r_bodySplit =>
       /\ r_pc = "parse" /\ r_line_status = "OK" => r_m_checked_idx = h + 4
       /\ r_pc = "recv" \/ r_line_status # "OK" => r_m_read_idx < h + 4 + BodyLength

(* The body, while it is waited for. *)
BodyRead ==
  r_m_check_state = "CONTENT" /\ r_pc # "done" =>
    /\ r_program = "http_conn" /\ r_m_content_length = BodyLength
    /\ \E h \in 0..r_m_checked_idx - 4 : HeadDone(h) /\ BodyAt(h)

(* chap8 waits for nothing but what follows a CR at the very beginning.     *)
Chap8Waits ==
  r_program = "chap8" /\ r_pc # "done" =>
    /\ r_m_check_state = "REQUESTLINE" /\ r_m_checked_idx = 0 /\ r_m_start_line = 0
    /\ r_pc = "recv" => r_m_read_idx = 0 \/ (r_m_read_idx = 1 /\ At(0) = "CR")

ParseInv ==
  /\ Types /\ Unchecked /\ HeadRead /\ BodyRead /\ Chap8Waits
  /\ R!VerdictRight /\ R!WaitJustified
  /\ r_program = "chap8" => r_result # "GET_REQUEST"

(* Every set of numbers that has members has a least one, which is First.   *)
LEMMA Least ==
  ASSUME NEW Q \in SUBSET Nat, Q # {}
  PROVE  R!First(Q) \in Q /\ \A y \in Q : R!First(Q) <= y
<1> DEFINE Less == {ss \in Nat \X Nat : ss[1] < ss[2]}
<1>1. IsWellFoundedOn(Less, Nat)
  BY NatLessThanWellFounded DEF OpToRel
<1>2. PICK x \in Q : \A y \in Q : ~(<<y, x>> \in Less)
  <2> HIDE DEF Less
  <2> QED
    BY <1>1, WFMin
<1>3. \A y \in Q : ~(y < x)
  BY <1>2
<1> HIDE DEF Less
<1>4. \A y \in Q : x <= y
  BY <1>3
<1> QED
  BY <1>4 DEF R!First

(* What has been received. *)
LEMMA ReceivedIs ==
  ASSUME Types
  PROVE  /\ Len(R!Received) = r_m_read_idx /\ r_m_read_idx \in Nat
         /\ \A i \in 1..r_m_read_idx : R!Received[i] = At(i - 1) /\ R!Received[i] = r_input[i]
         /\ R!LineEnds(R!Received) = {i \in 1..(r_m_read_idx - 1) : EndAt(i - 1)}
         /\ R!Received \in Seq(R!Token \ {"NUL"})
<1>1. /\ Len(R!Received) = r_m_read_idx /\ r_m_read_idx \in Nat
      /\ \A i \in 1..r_m_read_idx : R!Received[i] = r_input[i]
      /\ R!Received \in Seq(R!Token \ {"NUL"})
  BY DEF Types, R!Received
<1>2. \A i \in 1..r_m_read_idx : R!Received[i] = At(i - 1)
  BY <1>1 DEF At
<1>3. R!LineEnds(R!Received) = {i \in 1..(r_m_read_idx - 1) : EndAt(i - 1)}
  <2>1. \A i \in 1..(r_m_read_idx - 1) :
          R!Received[i] = At(i - 1) /\ R!Received[i + 1] = At((i - 1) + 1)
    BY <1>1, <1>2
  <2> QED
    BY <1>1, <2>1 DEF R!LineEnds, EndAt
<1> QED
  BY <1>1, <1>2, <1>3

(* A member that no other is below is the first. *)
LEMMA FirstIs ==
  ASSUME NEW S \in SUBSET Nat, NEW x \in S, \A y \in S : x <= y
  PROVE  R!First(S) = x
<1>1. R!First(S) \in S /\ R!First(S) <= x
  BY Least
<1>2. R!First(S) \in Nat /\ x \in Nat /\ x <= R!First(S)
  BY <1>1
<1> QED
  BY <1>1, <1>2

(* The good request line. *)
LEMMA JustR ==
  ASSUME NEW S, NEW q \in Seq(S)
  PROVE  q = <<"R">> <=> Len(q) = 1 /\ q[1] = "R"
<1>1. ASSUME Len(q) = 1, q[1] = "R" PROVE q = <<"R">>
  <2>1. q \in Seq(S \cup {"R"}) /\ <<"R">> \in Seq(S \cup {"R"}) /\ Len(<<"R">>) = 1
    BY SeqMonotonic
  <2>2. \A i \in 1..Len(q) : q[i] = <<"R">>[i]
    BY <1>1
  <2> QED
    BY <1>1, <2>1, <2>2, SeqEqual
<1> QED
  BY <1>1

(* A good request line, received to its end. *)
LEMMA RequestedIsGood ==
  ASSUME Types, Requested, r_m_read_idx >= 3
  PROVE  ~R!BadRequestLine(R!Received)
<1> DEFINE s == R!Received
           n == r_m_read_idx
<1>0. /\ Len(s) = n /\ n \in Nat
      /\ \A i \in 1..n : s[i] = At(i - 1)
      /\ R!LineEnds(s) = {i \in 1..(n - 1) : EndAt(i - 1)}
      /\ s \in Seq(R!Token \ {"NUL"})
  BY ReceivedIs
<1> HIDE DEF s
<1>1. 2 \in R!LineEnds(s)
  <2>1. EndAt(2 - 1) /\ 2 \in 1..(n - 1)
    BY <1>0 DEF Requested
  <2> QED
    BY <2>1, <1>0
<1>2. \A i \in R!LineEnds(s) : 2 <= i
  <2>1. 1 \notin R!LineEnds(s)
    BY <1>0 DEF Requested, EndAt
  <2> QED
    BY <2>1, <1>0
<1>3. R!First(R!LineEnds(s)) = 2
  BY <1>0, <1>1, <1>2, FirstIs
<1>4. SubSeq(s, 1, 1) = <<"R">>
  <2>1. s[1] = "R" /\ 1 \in 1..Len(s)
    BY <1>0 DEF Requested
  <2>2. \A i \in 1..1 : s[i] \in {"R"}
    BY <2>1
  <2>3. SubSeq(s, 1, 1) \in Seq({"R"}) /\ Len(SubSeq(s, 1, 1)) = 1
    BY <2>2, SubSeqProperties
  <2>4. SubSeq(s, 1, 1)[1] = "R"
    BY <2>3, ElementOfSeq
  <2> QED
    BY <2>3, <2>4, JustR
<1> QED
  BY <1>3, <1>4 DEF R!BadRequestLine, s

(* Where the head ends and the body begins. *)
LEMMA BodyStartIs ==
  ASSUME Types, NEW h \in 0..r_m_read_idx - 4, HeadDone(h)
  PROVE  /\ h + 1 \in R!HeadEnds(R!Received) /\ R!First(R!HeadEnds(R!Received)) = h + 1
         /\ R!BodyStart(R!Received) = h + 4
<1> DEFINE s == R!Received
           n == r_m_read_idx
<1>0. /\ Len(s) = n /\ n \in Nat /\ h \in Nat
      /\ \A i \in 1..n : s[i] = At(i - 1)
      /\ R!LineEnds(s) = {i \in 1..(n - 1) : EndAt(i - 1)}
  BY ReceivedIs
<1> HIDE DEF s
<1>1. R!HeadEnds(s) \in SUBSET Nat /\ h + 1 \in R!HeadEnds(s)
  <2>1. (h + 1) - 1 = h /\ (h + 3) - 1 = h + 2 /\ (h + 1) + 2 = h + 3
    BY <1>0
  <2>2. EndAt((h + 1) - 1) /\ EndAt((h + 3) - 1)
    BY <2>1 DEF HeadDone
  <2>3. h + 1 \in R!LineEnds(s) /\ h + 3 \in R!LineEnds(s)
    BY <1>0, <2>2
  <2> QED
    BY <1>0, <2>1, <2>3 DEF R!HeadEnds
<1>2. \A i \in R!HeadEnds(s) : h + 1 <= i
  <2> SUFFICES ASSUME NEW i \in R!HeadEnds(s), i < h + 1 PROVE FALSE
    BY <1>0, <1>1
  <2>1. i \in 1..(n - 1) /\ EndAt(i - 1) /\ EndAt((i + 2) - 1)
    BY <1>0 DEF R!HeadEnds
  <2>2. i - 1 \in 0..h - 1 /\ (i + 2) - 1 = (i - 1) + 2
    BY <2>1, <1>0
  <2> QED
    BY <2>1, <2>2 DEF HeadDone
<1>3. R!First(R!HeadEnds(s)) = h + 1
  BY <1>0, <1>1, <1>2, FirstIs
<1> QED
  BY <1>0, <1>1, <1>3 DEF R!BodyStart, s

(* A request is complete when its head is and the body, if there is one, is.*)
LEMMA CompleteIs ==
  ASSUME R!HttpParseAssumption, Types, NEW h \in 0..r_m_read_idx - 4, HeadDone(h),
         r_program = "http_conn" /\ R!HasBody(R!Received) => r_m_read_idx >= h + 4 + BodyLength
  PROVE  R!Complete(R!Received)
<1> DEFINE s == R!Received
           n == r_m_read_idx
<1>0. /\ Len(s) = n /\ n \in Nat
      /\ \A i \in 1..n : s[i] = At(i - 1)
      /\ R!LineEnds(s) = {i \in 1..(n - 1) : EndAt(i - 1)}
      /\ s \in Seq(R!Token \ {"NUL"})
  BY ReceivedIs
<1>1. h + 1 \in R!HeadEnds(s) /\ R!BodyStart(s) = h + 4
  BY BodyStartIs
<1> HIDE DEF s
<1>4. \A i \in 1..n : R!InHead(s, i) => i < h + 1
  BY <1>1 DEF R!InHead
<1>5. ~R!BadLineEnd(s)
  <2> SUFFICES ASSUME NEW i \in 1..n, R!InHead(s, i),
                      \/ s[i] = "CR" /\ i < n /\ i \notin R!LineEnds(s)
                      \/ s[i] = "LF" /\ i - 1 \notin R!LineEnds(s)
               PROVE  FALSE
    BY <1>0 DEF R!BadLineEnd
  <2>1. i - 1 \in 0..h - 1
    BY <1>4
  <2>2. Whole(i - 1, h) /\ s[i] = At(i - 1)
    BY <1>0, <2>1 DEF HeadDone
  <2>3. CASE s[i] = "CR"
    BY <1>0, <2>2, <2>3 DEF Whole, EndAt
  <2>4. CASE s[i] = "LF"
    <3>1. i - 1 > 0 /\ At((i - 1) - 1) = "CR" /\ At(((i - 1) - 1) + 1) = "LF"
      <4>1. ((i - 1) - 1) + 1 = i - 1
        OBVIOUS
      <4> QED
        BY <4>1, <2>2, <2>4 DEF Whole
    <3>2. EndAt((i - 1) - 1) /\ i - 1 \in 1..(n - 1)
      BY <3>1, <1>0 DEF EndAt
    <3> QED
      BY <1>0, <2>4, <3>2
  <2> QED
    BY <2>3, <2>4
<1>6. ~R!BadRequestLine(s)
  BY <1>0, RequestedIsGood DEF HeadDone, s
<1>7. r_program = "http_conn" /\ R!HasBody(s) => Len(s) >= R!BodyStart(s) + BodyLength
  BY <1>0, <1>1 DEF s, R!HttpParseAssumption
<1> QED
  BY <1>1, <1>5, <1>6, <1>7 DEF R!Complete, s

(* A request of http_conn whose head gives the length of a body is not      *)
(* complete without it.                                                     *)
LEMMA IncompleteIs ==
  ASSUME R!HttpParseAssumption, Types, r_program = "http_conn",
         NEW h \in 0..r_m_read_idx - 4, HeadDone(h),
         NEW e \in 0..h - 1, EndAt(e), At(e + 2) = "L", r_m_read_idx < h + 4 + BodyLength
  PROVE  ~R!Complete(R!Received)
<1> DEFINE s == R!Received
           n == r_m_read_idx
<1>0. /\ Len(s) = n /\ n \in Nat /\ h \in Nat /\ e \in Nat /\ BodyLength \in Nat
      /\ \A i \in 1..n : s[i] = At(i - 1)
      /\ R!LineEnds(s) = {i \in 1..(n - 1) : EndAt(i - 1)}
  BY ReceivedIs DEF R!HttpParseAssumption
<1>1. R!First(R!HeadEnds(s)) = h + 1 /\ R!BodyStart(s) = h + 4 /\ h + 1 \in R!HeadEnds(s)
  BY BodyStartIs
<1> HIDE DEF s
<1>2. \A j \in R!HeadEnds(s) : h + 1 <= j
  <2>1. R!HeadEnds(s) \in SUBSET Nat
    BY <1>0 DEF R!HeadEnds
  <2> QED
    BY <1>1, <2>1, Least
<1>3. (e + 1) - 1 = e /\ (e + 3) - 1 = e + 2 /\ (e + 1) + 2 = e + 3
  BY <1>0
<1>4. e + 1 \in R!LineEnds(s) /\ R!InHead(s, e + 1)
  <2>1. e + 1 \in 1..(n - 1) /\ EndAt((e + 1) - 1)
    BY <1>0, <1>3
  <2>2. \A j \in R!HeadEnds(s) : j \in Nat /\ e + 1 < j
    BY <1>0, <1>2 DEF R!HeadEnds
  <2> QED
    BY <1>0, <2>1, <2>2 DEF R!InHead
<1>5. (e + 1) + 2 <= Len(s) /\ s[(e + 1) + 2] = "L"
  <2>1. e + 3 \in 1..n
    BY <1>0
  <2>2. s[e + 3] = At((e + 3) - 1)
    BY <1>0, <2>1
  <2> QED
    BY <1>0, <1>3, <2>1, <2>2
<1>6. R!HasBody(s)
  BY <1>4, <1>5 DEF R!HasBody
<1>7. ~(Len(s) >= R!BodyStart(s) + BodyLength)
  BY <1>0, <1>1
<1> QED
  BY <1>6, <1>7 DEF R!Complete, s

(* Nothing but whole lines, none of them blank, has been received before p. *)
LEMMA LinesEnds ==
  ASSUME Types, NEW p \in 0..r_m_read_idx, NEW st \in 0..p, WholeLines(p, st),
         NEW i \in R!LineEnds(R!Received), i - 1 < p
  PROVE  i + 1 <= st
<1>1. i \in 1..(r_m_read_idx - 1) /\ EndAt(i - 1) /\ r_m_read_idx \in Nat
  BY ReceivedIs
<1>2. i - 1 \in 0..p - 1 /\ i - 1 + 1 < p
  BY <1>1 DEF WholeLines, Whole, EndAt
<1>3. (i - 1) + 1 = i /\ i \in 0..p - 1
  BY <1>1, <1>2
<1>4. At(i - 1) = "CR" /\ At(i) = "LF"
  BY <1>1, <1>3 DEF EndAt
<1>5. i \notin st..p - 1
  BY <1>4 DEF WholeLines
<1> QED
  BY <1>1, <1>2, <1>3, <1>5

(* A request of which only lines have been received, and the beginning of   *)
(* one, is neither complete nor wrong.                                      *)
LEMMA OpenIsFine ==
  ASSUME Types, NEW p \in 0..r_m_read_idx, NEW st \in 0..p, WholeLines(p, st),
         p = r_m_read_idx \/ (p = r_m_read_idx - 1 /\ At(p) = "CR"),
         st = 0 \/ (st >= 3 /\ Requested)
  PROVE  ~R!Complete(R!Received) /\ ~R!BadRequestLine(R!Received) /\ ~R!BadLineEnd(R!Received)
<1> DEFINE s == R!Received
           n == r_m_read_idx
<1>0. /\ Len(s) = n /\ n \in Nat
      /\ \A i \in 1..n : s[i] = At(i - 1)
      /\ R!LineEnds(s) = {i \in 1..(n - 1) : EndAt(i - 1)}
      /\ s \in Seq(R!Token \ {"NUL"})
  BY ReceivedIs
<1> HIDE DEF s
<1>1. \A i \in R!LineEnds(s) : i + 1 <= st
  <2> SUFFICES ASSUME NEW i \in R!LineEnds(s) PROVE i + 1 <= st
    OBVIOUS
  <2>1. i \in 1..(n - 1)
    BY <1>0
  <2>2. i - 1 < p
    BY <2>1
  <2> QED
    BY <2>2, LinesEnds DEF s
<1>2. R!HeadEnds(s) = {}
  <2> SUFFICES ASSUME NEW i \in R!HeadEnds(s) PROVE FALSE
    OBVIOUS
  <2>1. /\ i \in 1..(n - 1) /\ EndAt(i - 1) /\ EndAt((i + 2) - 1)
        /\ i + 2 \in R!LineEnds(s) /\ i \in Nat
    BY <1>0 DEF R!HeadEnds
  <2>2. i + 3 <= st
    BY <2>1, <1>1
  <2>3. i - 1 \in 0..st - 4 /\ (i + 2) - 1 = (i - 1) + 2
    BY <2>1, <2>2
  <2> QED
    BY <2>1, <2>3 DEF WholeLines
<1>3. ~R!BadLineEnd(s)
  <2> SUFFICES ASSUME NEW i \in 1..n,
                      \/ s[i] = "CR" /\ i < n /\ i \notin R!LineEnds(s)
                      \/ s[i] = "LF" /\ i - 1 \notin R!LineEnds(s)
               PROVE  FALSE
    BY <1>0 DEF R!BadLineEnd
  <2>1. CASE i - 1 = p
    BY <1>0, <2>1
  <2>2. CASE i - 1 # p
    <3>1. i - 1 \in 0..p - 1
      BY <2>2, <1>0
    <3>2. Whole(i - 1, p) /\ s[i] = At(i - 1)
      BY <3>1, <1>0 DEF WholeLines
    <3>3. CASE s[i] = "CR"
      BY <1>0, <3>2, <3>3 DEF Whole, EndAt
    <3>4. CASE s[i] = "LF"
      <4>1. i - 1 > 0 /\ At((i - 1) - 1) = "CR" /\ At(((i - 1) - 1) + 1) = "LF"
        <5>1. ((i - 1) - 1) + 1 = i - 1
          OBVIOUS
        <5> QED
          BY <5>1, <3>2, <3>4 DEF Whole
      <4>2. EndAt((i - 1) - 1) /\ i - 1 \in 1..(n - 1)
        BY <4>1, <1>0 DEF EndAt
      <4> QED
        BY <1>0, <3>4, <4>2
    <3> QED
      BY <3>3, <3>4
  <2> QED
    BY <2>1, <2>2
<1>4. ~R!BadRequestLine(s)
  <2>1. CASE st = 0
    <3>1. R!LineEnds(s) = {}
      BY <1>0, <1>1, <2>1
    <3> QED
      BY <3>1 DEF R!BadRequestLine
  <2>2. CASE st >= 3 /\ Requested
    BY <2>2, <1>0, RequestedIsGood DEF s
  <2> QED
    BY <2>1, <2>2
<1> QED
  BY <1>2, <1>3, <1>4 DEF R!Complete, s

(* A line end that is not whole makes the request a wrong one. *)
LEMMA BadIsBad ==
  ASSUME Types, NEW p \in 0..r_m_read_idx - 1, NEW st \in 0..p, WholeLines(p, st),
         \/ At(p) = "CR" /\ p + 1 < r_m_read_idx /\ At(p + 1) # "LF"
         \/ At(p) = "LF" /\ (p = 0 \/ At(p - 1) # "CR")
  PROVE  R!BadLineEnd(R!Received) /\ ~R!Complete(R!Received)
<1> DEFINE s == R!Received
           n == r_m_read_idx
<1>0. /\ Len(s) = n /\ n \in Nat
      /\ \A i \in 1..n : s[i] = At(i - 1)
      /\ R!LineEnds(s) = {i \in 1..(n - 1) : EndAt(i - 1)}
  BY ReceivedIs
<1> HIDE DEF s
<1>1. p + 1 \in 1..n /\ s[p + 1] = At(p) /\ (p + 1) - 1 = p /\ p \in 0..n
  BY <1>0
<1>2. p + 1 \notin R!LineEnds(s)
  BY <1>0, <1>1 DEF EndAt
<1>3. R!InHead(s, p + 1)
  <2> SUFFICES ASSUME NEW j \in R!HeadEnds(s), j <= p + 1 PROVE FALSE
    BY <1>0, <1>1 DEF R!InHead, R!HeadEnds
  <2>1. /\ j \in R!LineEnds(s) /\ j \in 1..(n - 1) /\ j + 2 \in R!LineEnds(s)
        /\ EndAt(j - 1) /\ EndAt((j + 2) - 1)
    BY <1>0 DEF R!HeadEnds
  <2>2. j <= p /\ j - 1 < p
    BY <2>1, <1>2
  <2>3. j + 1 <= st
    BY <1>1, <2>1, <2>2, LinesEnds DEF s
  <2>4. (j + 2) - 1 <= p
    BY <2>1, <2>3
  <2>5. (j + 2) - 1 # p
    BY <1>1, <1>2, <2>1
  <2>6. (j + 2) - 1 < p
    BY <2>1, <2>4, <2>5
  <2>7. (j + 2) + 1 <= st
    BY <1>1, <2>1, <2>6, LinesEnds DEF s
  <2>8. j - 1 \in 0..st - 4 /\ (j + 2) - 1 = (j - 1) + 2
    BY <2>1, <2>7
  <2> QED
    BY <2>1, <2>8 DEF WholeLines
<1>4. R!BadLineEnd(s)
  <2>1. CASE At(p) = "CR" /\ p + 1 < n /\ At(p + 1) # "LF"
    BY <2>1, <1>0, <1>1, <1>2, <1>3 DEF R!BadLineEnd
  <2>2. CASE At(p) = "LF" /\ (p = 0 \/ At(p - 1) # "CR")
    <3>1. p \notin R!LineEnds(s)
      BY <2>2, <1>0 DEF EndAt
    <3> QED
      BY <2>2, <3>1, <1>0, <1>1, <1>3 DEF R!BadLineEnd
  <2> QED
    BY <2>1, <2>2
<1> QED
  BY <1>4 DEF R!Complete, s

(* Where the loop of parse_line stops. *)
LEMMA StopIs ==
  ASSUME Types, Unchecked, r_program # "chap8"
  PROVE  /\ R!Stop \in r_m_checked_idx..r_m_read_idx
         /\ \A i \in r_m_checked_idx..R!Stop - 1 : At(i) \notin {"CR", "LF"}
         /\ R!Stop < r_m_read_idx => At(R!Stop) \in {"CR", "LF"} /\ r_m_read_buf[R!Stop] = At(R!Stop)
<1> DEFINE ends == {i \in r_m_checked_idx..(r_m_read_idx - 1) : r_m_read_buf[i] \in {"CR", "LF"}}
<1>0. r_m_checked_idx \in Nat /\ r_m_read_idx \in Nat /\ r_m_checked_idx <= r_m_read_idx
  BY DEF Types
<1>1. \A i \in r_m_checked_idx..(r_m_read_idx - 1) : r_m_read_buf[i] = At(i)
  BY DEF Unchecked
<1>2. R!Stop = IF ends = {} THEN r_m_read_idx ELSE R!First(ends)
  BY DEF R!Stop
<1>3. CASE ends = {}
  <2>1. R!Stop = r_m_read_idx
    BY <1>2, <1>3
  <2>2. \A i \in r_m_checked_idx..(r_m_read_idx - 1) : r_m_read_buf[i] \notin {"CR", "LF"}
    BY <1>3
  <2> QED
    BY <2>1, <2>2, <1>0, <1>1
<1>4. CASE ends # {}
  <2>1. ends \in SUBSET Nat
    BY <1>0
  <2>2. R!Stop \in ends /\ \A j \in ends : R!Stop <= j
    <3> HIDE DEF ends
    <3> QED
      BY <2>1, <1>2, <1>4, Least
  <2>3. \A i \in r_m_checked_idx..R!Stop - 1 : At(i) \notin {"CR", "LF"}
    <3> SUFFICES ASSUME NEW i \in r_m_checked_idx..R!Stop - 1, At(i) \in {"CR", "LF"} PROVE FALSE
      OBVIOUS
    <3>1. i \in r_m_checked_idx..(r_m_read_idx - 1) /\ i < R!Stop
      BY <2>2, <1>0
    <3>2. i \in ends
      BY <3>1, <1>1
    <3> QED
      BY <3>1, <3>2, <2>1, <2>2
  <2> QED
    BY <2>2, <2>3, <1>0, <1>1
<1> QED
  BY <1>3, <1>4

(* In the head, a line ends at a CR; a line that is open has nothing wrong  *)
(* yet, and one that is bad ends wrongly.                                   *)
LEMMA HeadStatus ==
  ASSUME Types, Unchecked, HeadRead, r_program # "chap8", r_pc = "parse", r_m_check_state # "CONTENT"
  PROVE  /\ R!LineStatus \in {"OK", "OPEN", "BAD"}
         /\ R!LineStatus = "OK" => R!AtCR /\ R!Stop + 1 < r_m_read_idx /\ EndAt(R!Stop)
         /\ R!LineStatus = "OPEN" =>
              R!Stop = r_m_read_idx \/ (R!Stop = r_m_read_idx - 1 /\ At(R!Stop) = "CR")
         /\ R!LineStatus = "BAD" =>
              /\ R!Stop < r_m_read_idx
              /\ \/ At(R!Stop) = "CR" /\ R!Stop + 1 < r_m_read_idx /\ At(R!Stop + 1) # "LF"
                 \/ At(R!Stop) = "LF" /\ (R!Stop = 0 \/ At(R!Stop - 1) # "CR")
<1> DEFINE n == r_m_read_idx
           k == r_m_checked_idx
<1>0. k \in Nat /\ n \in Nat /\ R!Stop \in k..n
  BY StopIs DEF Types
<1>1. \A i \in k..(n - 1) : r_m_read_buf[i] = At(i)
  BY DEF Unchecked
<1>2. WholeLines(k, r_m_start_line) /\ \A i \in 0..k - 1 : r_m_read_buf[i] # "CR"
  BY DEF HeadRead, HeadSoFar
<1>3. R!Stop < n => At(R!Stop) \in {"CR", "LF"} /\ r_m_read_buf[R!Stop] = At(R!Stop)
  BY StopIs
<1>4. R!Stop + 1 < n => r_m_read_buf[R!Stop + 1] = At(R!Stop + 1)
  BY <1>0, <1>1
<1>5. R!Stop < n => ~R!AtLF
  <2> SUFFICES ASSUME R!Stop < n, R!AtLF PROVE FALSE
    OBVIOUS
  <2>1. r_m_read_buf[R!Stop - 1] = "CR" /\ R!Stop > 1
    BY DEF R!AtLF
  <2>2. CASE R!Stop > k
    <3>1. R!Stop - 1 \in k..R!Stop - 1 /\ R!Stop - 1 \in k..n - 1
      BY <1>0, <2>2
    <3> QED
      BY <3>1, <2>1, <1>1, StopIs
  <2>3. CASE R!Stop = k
    BY <2>1, <2>3, <1>0, <1>2
  <2> QED
    BY <2>2, <2>3, <1>0
<1>6. At(R!Stop) = "LF" /\ R!Stop < n => R!Stop = 0 \/ At(R!Stop - 1) # "CR"
  <2> SUFFICES ASSUME At(R!Stop) = "LF", R!Stop < n, R!Stop > 0, At(R!Stop - 1) = "CR" PROVE FALSE
    BY <1>0
  <2>2. CASE R!Stop > k
    <3>1. R!Stop - 1 \in k..R!Stop - 1
      BY <1>0, <2>2
    <3> QED
      BY <3>1, StopIs
  <2>3. CASE R!Stop = k
    <3>1. R!Stop - 1 \in 0..k - 1 /\ ~((R!Stop - 1) + 1 < k)
      BY <1>0, <2>3
    <3> QED
      BY <3>1, <1>2 DEF WholeLines, Whole
  <2> QED
    BY <2>2, <2>3, <1>0
<1>7. R!LineStatus = IF R!Stop = n THEN "OPEN"
                   ELSE IF At(R!Stop) = "CR" /\ R!Stop + 1 = n THEN "OPEN"
                   ELSE IF R!AtCR THEN "OK" ELSE "BAD"
  BY <1>0, <1>3, <1>5 DEF R!LineStatus
<1>8. R!Stop < n => (R!AtCR <=> At(R!Stop) = "CR" /\ R!Stop + 1 < n /\ At(R!Stop + 1) = "LF")
  BY <1>3, <1>4 DEF R!AtCR
<1> HIDE DEF n, k
<1> QED
  BY <1>0, <1>3, <1>6, <1>7, <1>8 DEF EndAt, n

(* The reference does not change while what was received is parsed.         *)
LEMMA SameReference ==
  ASSUME UNCHANGED <<r_program, r_input, r_m_read_idx>>
  PROVE  /\ R!Complete(R!Received)' <=> R!Complete(R!Received)
         /\ R!BadRequestLine(R!Received)' <=> R!BadRequestLine(R!Received)
         /\ R!BadLineEnd(R!Received)' <=> R!BadLineEnd(R!Received)
<1>1. R!Received' = R!Received
  BY DEF R!Received
<1> QED
  BY <1>1 DEF R!Complete

(* The lines depend on nothing but the input. *)
LEMMA SameLines ==
  ASSUME UNCHANGED r_input
  PROVE  /\ \A k, st : WholeLines(k, st)' <=> WholeLines(k, st)
         /\ \A h : HeadDone(h)' <=> HeadDone(h)
         /\ \A i : At(i)' = At(i) /\ (EndAt(i)' <=> EndAt(i))
         /\ Requested' <=> Requested
BY DEF WholeLines, HeadDone, Requested, Whole, EndAt, At

(* Lines stay what they are up to the place where parse_line stops.         *)
LEMMA LinesToStop ==
  ASSUME Types, Unchecked, r_program # "chap8", WholeLines(r_m_checked_idx, r_m_start_line)
  PROVE  WholeLines(R!Stop, r_m_start_line)
<1> DEFINE n == r_m_read_idx
           k == r_m_checked_idx
           st == r_m_start_line
<1>0. k \in Nat /\ n \in Nat /\ R!Stop \in k..n /\ st \in 0..k
  BY StopIs DEF Types
<1>1. \A i \in k..R!Stop - 1 : At(i) \notin {"CR", "LF"}
  BY StopIs
<1>2. \A i \in 0..R!Stop - 1 : Whole(i, R!Stop)
  <2> TAKE i \in 0..R!Stop - 1
  <2>1. CASE i < k
    <3>1. Whole(i, k)
      BY <2>1, <1>0 DEF WholeLines
    <3> QED
      BY <3>1, <1>0 DEF Whole
  <2>2. CASE i >= k
    <3>1. At(i) \notin {"CR", "LF"}
      BY <1>0, <1>1, <2>2
    <3> QED
      BY <3>1 DEF Whole
  <2> QED
    BY <2>1, <2>2, <1>0
<1>3. \A i \in st..R!Stop - 1 : At(i) \notin {"CR", "LF"}
  <2> TAKE i \in st..R!Stop - 1
  <2>1. i \in st..k - 1 \/ i \in k..R!Stop - 1
    BY <1>0
  <2> QED
    BY <2>1, <1>1 DEF WholeLines
<1> QED
  BY <1>2, <1>3 DEF WholeLines

(* The invariant holds before anything is received. *)
LEMMA ParseInvInit == ASSUME R!HttpParseAssumption, R!Init PROVE ParseInv
<1>1. r_m_read_buf \in [R!Index -> R!Token] /\ \A i \in R!Index : r_m_read_buf[i] = "NUL"
  BY DEF R!Init, R!Token
<1>2. Types
  <2>1. r_bodySplit \in BOOLEAN
    BY Zenon DEF R!Init
  <2> QED
    BY <1>1, <2>1 DEF Types, R!Init, R!HttpParseAssumption
<1>3. Unchecked
  BY <1>1 DEF Unchecked, R!Init, R!Index
<1>4. HeadRead
  BY DEF HeadRead, HeadSoFar, R!Init, WholeLines
<1>5. BodyRead /\ Chap8Waits /\ R!VerdictRight
  BY DEF BodyRead, Chap8Waits, R!VerdictRight, R!Init
<1>6. R!WaitJustified
  <2>1. WholeLines(0, 0) /\ r_m_read_idx = 0 /\ 0 \in 0..r_m_read_idx /\ 0 \in 0..0
    BY DEF WholeLines, R!Init
  <2>2. ~R!Complete(R!Received) /\ ~R!BadRequestLine(R!Received) /\ ~R!BadLineEnd(R!Received)
    BY <1>2, <2>1, OpenIsFine
  <2> QED
    BY <2>2 DEF R!WaitJustified
<1> QED
  BY <1>2, <1>3, <1>4, <1>5, <1>6 DEF ParseInv, R!Init

(* More arrives, or there is no room for it. *)
LEMMA ParseInvReceives ==
  ASSUME R!HttpParseAssumption, ParseInv, NEW d \in 1..Len(r_input),
         R!HttpConnReads(d) \/ R!MainReceives(d)
  PROVE  ParseInv'
<1> USE DEF ParseInv
<1>1. /\ r_pc = "recv" /\ r_result = "NO_REQUEST" /\ r_m_read_idx + d <= Len(r_input)
      /\ UNCHANGED <<r_program, r_input, r_m_checked_idx, r_m_start_line, r_m_check_state,
                     r_m_content_length>>
      /\ r_m_read_idx \in Nat /\ d \in Nat \ {0} /\ Len(r_input) \in Nat
      /\ r_line_status' = "OK"
  BY DEF R!HttpConnReads, R!MainReceives, R!fixedVars, Types
<1>7. r_bodySplit' \in BOOLEAN
  <2>1. r_bodySplit \in BOOLEAN
    BY DEF Types
  <2> QED
    BY <2>1, Zenon DEF R!HttpConnReads, R!MainReceives
<1>8. r_m_check_state = "CONTENT" /\ ~r_bodySplit' =>
        ~r_bodySplit /\ ~(r_m_checked_idx > R!BodyStart(R!Received))
  <2>1. CASE R!HttpConnReads(d)
    BY <2>1, Zenon DEF R!HttpConnReads
  <2>2. CASE R!MainReceives(d)
    BY <1>1, <2>2 DEF R!MainReceives, BodyRead
  <2> QED
    BY <2>1, <2>2
<1>2. CASE /\ r_pc' = "done" /\ r_result' = "CLOSED_CONNECTION"
           /\ UNCHANGED <<r_m_read_buf, r_m_read_idx>>
  <2>1. Types'
    BY <1>1, <1>2, <1>7 DEF Types
  <2>2. Unchecked'
    BY <1>1, <1>2 DEF Unchecked, At
  <2>3. HeadRead' /\ BodyRead' /\ Chap8Waits' /\ R!VerdictRight' /\ R!WaitJustified'
    BY <1>2 DEF HeadRead, BodyRead, Chap8Waits, R!VerdictRight, R!WaitJustified
  <2> QED
    BY <1>2, <2>1, <2>2, <2>3
<1>3. CASE /\ r_pc' = "parse" /\ r_result' = r_result /\ R!Copied(r_m_read_idx + d)
           /\ r_m_read_idx' = r_m_read_idx + d /\ r_m_read_idx + d <= READ_BUFFER_SIZE
  <2>0. \A i \in R!Index : r_m_read_buf'[i] = IF i \in r_m_read_idx..(r_m_read_idx + d - 1)
                                          THEN r_input[i + 1] ELSE r_m_read_buf[i]
    <3>1. R!Copied(r_m_read_idx + d)
      BY <1>3
    <3> QED
      BY <1>1, <3>1 DEF R!Copied
  <2>1. Types'
    <3>1. \A i \in r_m_read_idx..(r_m_read_idx + d - 1) : r_input[i + 1] \in R!Token
      <4> TAKE i \in r_m_read_idx..(r_m_read_idx + d - 1)
      <4>1. i + 1 \in 1..Len(r_input)
        BY <1>1
      <4>2. r_input[i + 1] \in R!Token \ {"NUL"}
        BY <4>1, ElementOfSeq DEF Types
      <4> QED
        BY <4>2
    <3>2. r_m_read_buf' \in [R!Index -> R!Token]
      BY <1>3, <3>1 DEF R!Copied, Types
    <3> QED
      BY <1>1, <1>3, <1>7, <3>2 DEF Types, R!HttpParseAssumption
  <2>2. Unchecked'
    <3>1. ASSUME NEW i \in r_m_checked_idx..r_m_read_idx + d - 1 PROVE r_m_read_buf'[i] = At(i)'
      <4>1. i \in R!Index /\ r_m_checked_idx \in Nat /\ r_m_checked_idx <= r_m_read_idx
        BY <1>1, <1>3 DEF Types, R!Index, R!HttpParseAssumption
      <4>2. CASE i \in r_m_checked_idx..r_m_read_idx - 1
        BY <1>1, <2>0, <4>1, <4>2 DEF Unchecked, At
      <4>3. CASE i \in r_m_read_idx..r_m_read_idx + d - 1
        BY <1>1, <2>0, <4>1, <4>3 DEF At
      <4> QED
        BY <4>1, <4>2, <4>3, <1>1
    <3>2. ASSUME NEW i \in r_m_read_idx + d..READ_BUFFER_SIZE - 1 PROVE r_m_read_buf'[i] = "NUL"
      <4>1. i \in R!Index /\ i \in r_m_read_idx..READ_BUFFER_SIZE - 1
        BY <1>1 DEF R!Index, R!HttpParseAssumption
      <4> QED
        BY <1>1, <2>0, <4>1 DEF Unchecked
    <3> QED
      BY <1>1, <1>3, <3>1, <3>2 DEF Unchecked
  <2>3. HeadRead'
    <3>0. \A i \in 0..r_m_checked_idx - 1 : r_m_read_buf'[i] = r_m_read_buf[i]
      <4> TAKE i \in 0..r_m_checked_idx - 1
      <4>1. i \in R!Index /\ i < r_m_read_idx
        BY <1>1 DEF Types, R!Index, R!HttpParseAssumption
      <4> QED
        BY <1>1, <2>0, <4>1
    <3> SUFFICES ASSUME r_program # "chap8", r_m_check_state # "CONTENT" PROVE HeadRead'
      BY <1>1 DEF HeadRead
    <3>1. HeadSoFar
      BY <1>1 DEF HeadRead
    <3>2. r_m_start_line \in Nat /\ r_m_checked_idx \in Nat
      BY DEF Types
    <3>3. WholeLines(r_m_checked_idx, r_m_start_line)'
      BY <1>1, <3>1 DEF HeadSoFar, WholeLines, Whole, EndAt, At
    <3>4. /\ \A i \in 0..r_m_checked_idx - 1 : r_m_read_buf'[i] # "CR"
          /\ \A i \in r_m_start_line..r_m_checked_idx - 1 : r_m_read_buf'[i] = At(i)'
      BY <1>1, <3>0, <3>1, <3>2, SameLines DEF HeadSoFar
    <3>5. r_m_check_state = "HEADER" => r_m_start_line >= 3 /\ Requested'
      BY <1>1, <3>1, SameLines DEF HeadSoFar
    <3>6. /\ r_program = "http_conn" /\ (\E i \in 0..r_m_start_line - 3 : EndAt(i)' /\ At(i + 2)' = "L") =>
               r_m_content_length = BodyLength
          /\ r_program = "http_conn" /\ r_m_content_length # 0 =>
               \E i \in 0..r_m_start_line - 3 : EndAt(i)' /\ At(i + 2)' = "L"
      BY <1>1, <3>1, SameLines DEF HeadSoFar
    <3> QED
      BY <1>1, <3>1, <3>3, <3>4, <3>5, <3>6 DEF HeadRead, HeadSoFar
  <2>4. BodyRead'
    <3> SUFFICES ASSUME r_m_check_state = "CONTENT" PROVE BodyRead'
      BY <1>1 DEF BodyRead
    <3>1. PICK h \in 0..r_m_checked_idx - 4 : HeadDone(h) /\ BodyAt(h)
      BY <1>1 DEF BodyRead
    <3>2. h \in 0..r_m_read_idx - 4 /\ h \in Nat /\ r_m_checked_idx \in Nat /\ h + 4 <= r_m_checked_idx
      BY <1>1, <3>1 DEF Types
    <3>3. R!BodyStart(R!Received) = h + 4
      BY <3>1, <3>2, BodyStartIs
    <3>4. ~r_bodySplit' => r_m_checked_idx = h + 4
      BY <1>8, <3>2, <3>3
    <3>5. \E i \in 0..h - 1 : EndAt(i)' /\ At(i + 2)' = "L"
      BY <1>1, <3>1, SameLines DEF BodyAt
    <3>6. BodyAt(h)'
      BY <1>1, <1>3, <3>4, <3>5 DEF BodyAt
    <3>7. HeadDone(h)'
      BY <1>1, <3>1, SameLines
    <3> QED
      BY <1>1, <3>1, <3>6, <3>7 DEF BodyRead
  <2>5. Chap8Waits'
    BY <1>1, <1>3 DEF Chap8Waits
  <2>6. R!VerdictRight' /\ R!WaitJustified'
    BY <1>1, <1>3 DEF R!VerdictRight, R!WaitJustified
  <2> QED
    BY <1>1, <1>3, <2>1, <2>2, <2>3, <2>4, <2>5, <2>6
<1>4. READ_BUFFER_SIZE \in Nat
  BY DEF R!HttpParseAssumption
<1>5. CASE R!HttpConnReads(d)
  BY <1>1, <1>2, <1>3, <1>4, <1>5 DEF R!HttpConnReads
<1>6. CASE R!MainReceives(d)
  BY <1>1, <1>2, <1>3, <1>4, <1>6 DEF R!MainReceives
<1> QED
  BY <1>5, <1>6

(* No line is found in the head: it is open, or bad for those who can tell. *)
LEMMA ParseInvNoLine ==
  ASSUME R!HttpParseAssumption, ParseInv, R!HttpConnNoLine \/ R!ParserNoLine,
         r_program # "chap8", r_m_check_state # "CONTENT"
  PROVE  ParseInv'
<1> USE DEF ParseInv
<1>1. /\ r_pc = "parse" /\ R!LineStatus # "OK" /\ r_m_checked_idx' = R!Stop
      /\ UNCHANGED <<r_program, r_input, r_m_read_idx, r_m_read_buf, r_m_start_line, r_m_check_state,
                     r_m_content_length>>
  BY DEF R!HttpConnNoLine, R!ParserNoLine, R!Turn, R!NoLine, R!fixedVars
<1>2. \/ /\ r_program = "http_conn" \/ R!LineStatus = "OPEN"
         /\ r_result' = "NO_REQUEST" /\ r_pc' = "recv"
      \/ /\ r_program # "http_conn" /\ R!LineStatus = "BAD"
         /\ r_result' = "BAD_REQUEST" /\ r_pc' = "done"
  <2>1. R!LineStatus \in {"OK", "OPEN", "BAD"}
    BY <1>1, HeadStatus
  <2>2. CASE R!HttpConnNoLine
    BY <2>2 DEF R!HttpConnNoLine, R!Return
  <2>3. CASE R!ParserNoLine
    BY <1>1, <2>1, <2>3 DEF R!ParserNoLine, R!Return
  <2> QED
    BY <2>2, <2>3
<1>3. /\ R!Stop \in r_m_checked_idx..r_m_read_idx /\ r_m_checked_idx \in Nat /\ r_m_read_idx \in Nat
      /\ r_m_start_line \in 0..r_m_checked_idx
      /\ R!Stop \in 0..r_m_read_idx /\ r_m_start_line \in 0..R!Stop
  BY StopIs DEF Types
<1>4. r_bodySplit' \in BOOLEAN
  BY DEF Types, R!HttpConnNoLine, R!ParserNoLine
<1>5. Types'
  BY <1>1, <1>2, <1>3, <1>4 DEF Types
<1>6. Unchecked'
  BY <1>1, <1>3, SameLines DEF Unchecked
<1>7. HeadSoFar
  BY <1>1 DEF HeadRead
<1>8. WholeLines(R!Stop, r_m_start_line)
  BY <1>7, LinesToStop DEF HeadSoFar
<1>9. HeadSoFar'
  <2>0. PICK p, st : p = R!Stop /\ st = r_m_start_line
    OBVIOUS
  <2>1. WholeLines(p, st)'
    BY <1>1, <1>8, <2>0, SameLines
  <2>2. \A i \in r_m_checked_idx..R!Stop - 1 : At(i) \notin {"CR", "LF"} /\ r_m_read_buf[i] = At(i)
    BY <1>3, StopIs DEF Unchecked
  <2>3. /\ \A i \in 0..R!Stop - 1 : r_m_read_buf[i] # "CR"
        /\ \A i \in r_m_start_line..R!Stop - 1 : r_m_read_buf[i] = At(i)
    BY <1>3, <1>7, <2>2 DEF HeadSoFar
  <2>4. WholeLines(r_m_checked_idx, r_m_start_line)'
    BY <1>1, <2>0, <2>1 DEF WholeLines, Whole, EndAt, At
  <2> QED
    BY <1>1, <1>7, <2>3, <2>4, SameLines DEF HeadSoFar
<1>10. HeadRead'
  BY <1>9 DEF HeadRead
<1>11. BodyRead' /\ Chap8Waits'
  BY <1>1 DEF BodyRead, Chap8Waits
<1>12. CASE R!LineStatus = "OPEN"
  <2>1. ~R!Complete(R!Received) /\ ~R!BadRequestLine(R!Received) /\ ~R!BadLineEnd(R!Received)
    <3>1. R!Stop = r_m_read_idx \/ (R!Stop = r_m_read_idx - 1 /\ At(R!Stop) = "CR")
      BY <1>1, <1>12, HeadStatus
    <3>2. r_m_start_line = 0 \/ (r_m_start_line >= 3 /\ Requested)
      BY <1>7 DEF HeadSoFar, Types
    <3> QED
      BY <1>3, <1>8, <3>1, <3>2, OpenIsFine
  <2>2. r_result' = "NO_REQUEST"
    BY <1>2, <1>12
  <2>3. R!VerdictRight' /\ R!WaitJustified'
    BY <1>1, <2>1, <2>2, SameReference DEF R!VerdictRight, R!WaitJustified
  <2> QED
    BY <1>1, <1>2, <1>5, <1>6, <1>10, <1>11, <2>2, <2>3
<1>13. CASE R!LineStatus = "BAD"
  <2>1. R!BadLineEnd(R!Received) /\ ~R!Complete(R!Received)
    <3>1. /\ R!Stop < r_m_read_idx
          /\ \/ At(R!Stop) = "CR" /\ R!Stop + 1 < r_m_read_idx /\ At(R!Stop + 1) # "LF"
             \/ At(R!Stop) = "LF" /\ (R!Stop = 0 \/ At(R!Stop - 1) # "CR")
      BY <1>1, <1>13, HeadStatus
    <3>2. R!Stop \in 0..r_m_read_idx - 1
      BY <1>3, <3>1
    <3> QED
      BY <1>3, <1>8, <3>1, <3>2, BadIsBad
  <2>2. R!VerdictRight'
    BY <1>1, <1>2, <2>1, SameReference DEF R!VerdictRight
  <2>3. R!WaitJustified'
    BY <1>1, <1>2, <1>13, <2>1, SameReference DEF R!WaitJustified
  <2> QED
    BY <1>1, <1>2, <1>5, <1>6, <1>10, <1>11, <2>2, <2>3
<1> QED
  BY <1>1, <1>12, <1>13, HeadStatus

(* The body of a request is waited for. *)
LEMMA ParseInvNoLineInBody ==
  ASSUME R!HttpParseAssumption, ParseInv, R!HttpConnNoLine, r_m_check_state = "CONTENT"
  PROVE  ParseInv'
<1> USE DEF ParseInv
<1>1. /\ r_pc = "parse" /\ r_m_checked_idx' = R!Stop /\ r_program = "http_conn"
      /\ UNCHANGED <<r_program, r_input, r_m_read_idx, r_m_read_buf, r_m_start_line, r_m_check_state,
                     r_m_content_length>>
      /\ r_pc' = "recv" /\ r_result' = "NO_REQUEST" /\ r_line_status # "OK"
  BY DEF R!HttpConnNoLine, R!Turn, R!NoLine, R!fixedVars, R!Return, R!BodyTurn
<1>2. r_bodySplit' = r_bodySplit /\ r_bodySplit' \in BOOLEAN
  BY Zenon DEF R!HttpConnNoLine, Types
<1>3. /\ R!Stop \in r_m_checked_idx..r_m_read_idx /\ r_m_checked_idx \in Nat /\ r_m_read_idx \in Nat
      /\ r_m_start_line \in 0..r_m_checked_idx
  BY <1>1, StopIs DEF Types
<1>4. Types'
  BY <1>1, <1>2, <1>3 DEF Types
<1>5. Unchecked'
  BY <1>1, <1>3, SameLines DEF Unchecked
<1>6. PICK h \in 0..r_m_checked_idx - 4 : HeadDone(h) /\ BodyAt(h)
  BY <1>1 DEF BodyRead
<1>11. ~r_bodySplit => r_m_read_idx < h + 4 + BodyLength
  BY <1>1, <1>6 DEF BodyAt
<1>7. BodyRead'
  <2>1. h \in 0..R!Stop - 4 /\ HeadDone(h)'
    BY <1>1, <1>3, <1>6, SameLines
  <2>2. r_m_content_length = BodyLength
    BY <1>1 DEF BodyRead
  <2>3. \E i \in 0..h - 1 : EndAt(i)' /\ At(i + 2)' = "L"
    BY <1>1, <1>6, SameLines DEF BodyAt
  <2>4. BodyAt(h)'
    BY <1>1, <1>2, <1>11, <2>3 DEF BodyAt
  <2> QED
    BY <1>1, <2>1, <2>2, <2>4 DEF BodyRead
<1>8. HeadRead' /\ Chap8Waits'
  BY <1>1 DEF HeadRead, Chap8Waits
<1>9. R!WaitJustified'
  <2>1. ~R!BadRequestLine(R!Received)
    BY <1>3, <1>6, RequestedIsGood DEF HeadDone
  <2>2. ~r_bodySplit => ~R!Complete(R!Received)
    <3>1. PICK e \in 0..h - 1 : EndAt(e) /\ At(e + 2) = "L"
      BY <1>6 DEF BodyAt
    <3>2. h \in 0..r_m_read_idx - 4
      BY <1>3
    <3> QED
      BY <1>1, <1>6, <1>11, <3>1, <3>2, IncompleteIs
  <2> QED
    BY <1>1, <1>2, <2>1, <2>2, SameReference DEF R!WaitJustified
<1>10. R!VerdictRight'
  BY <1>1 DEF R!VerdictRight
<1> QED
  BY <1>1, <1>4, <1>5, <1>7, <1>8, <1>9, <1>10

(* A line that is not blank is one line more. *)
LEMMA LinesNext ==
  ASSUME NEW p \in Nat, NEW st \in 0..p, WholeLines(p, st), EndAt(p), p > st
  PROVE  WholeLines(p + 2, p + 2)
<1>0. At(p) = "CR" /\ At(p + 1) = "LF" /\ st \in Nat /\ (p + 1) - 1 = p /\ (p + 2) - 2 = p
  BY DEF EndAt
<1>1. \A i \in 0..(p + 2) - 1 : Whole(i, p + 2)
  <2> TAKE i \in 0..(p + 2) - 1
  <2>1. CASE i < p
    <3>1. Whole(i, p)
      BY <2>1 DEF WholeLines
    <3> QED
      BY <3>1, <2>1 DEF Whole
  <2>2. CASE i = p
    BY <1>0, <2>2 DEF Whole
  <2>3. CASE i = p + 1
    BY <1>0, <2>3 DEF Whole
  <2> QED
    BY <2>1, <2>2, <2>3
<1>2. \A i \in 0..(p + 2) - 4 : ~(EndAt(i) /\ EndAt(i + 2))
  <2> SUFFICES ASSUME NEW i \in 0..p - 2, EndAt(i), EndAt(i + 2) PROVE FALSE
    BY <1>0
  <2>1. At(i + 2) = "CR" /\ At(i + 1) = "LF"
    BY DEF EndAt
  <2>2. i \notin 0..st - 4
    BY DEF WholeLines
  <2>3. i + 2 \notin st..p - 1 /\ i + 1 \notin st..p - 1
    BY <2>1 DEF WholeLines
  <2>4. CASE st = 0
    BY <2>3, <2>4
  <2>5. CASE st # 0
    <3>1. st >= 2 /\ At((st - 2) + 1) = "LF" /\ (st - 2) + 1 = st - 1
      BY <2>5 DEF WholeLines, EndAt
    <3>2. i + 2 # st - 1
      BY <2>1, <3>1
    <3> QED
      BY <1>0, <2>2, <2>3, <3>1, <3>2
  <2> QED
    BY <2>4, <2>5
<1>3. \A i \in p + 2..(p + 2) - 1 : FALSE
  OBVIOUS
<1>4. p + 2 = 0 \/ (p + 2 >= 2 /\ EndAt((p + 2) - 2))
  BY <1>0
<1> QED
  BY <1>1, <1>2, <1>3, <1>4 DEF WholeLines

(* A blank line ends the head. *)
LEMMA LinesDone ==
  ASSUME NEW p \in Nat, WholeLines(p, p), EndAt(p), p >= 3, Requested
  PROVE  HeadDone(p - 2)
<1> DEFINE h == p - 2
<1>0. /\ At(p) = "CR" /\ h \in Nat /\ h >= 1 /\ h + 2 = p /\ (p - 2) + 1 = p - 1
      /\ EndAt(h) /\ At(h) = "CR" /\ At(p - 1) = "LF"
  BY DEF EndAt, WholeLines
<1> HIDE DEF h
<1>1. \A i \in 0..h - 1 : Whole(i, h)
  <2> TAKE i \in 0..h - 1
  <2>1. Whole(i, p)
    BY <1>0 DEF WholeLines
  <2>2. At(i) = "CR" => i + 1 # h
    BY <1>0, <2>1 DEF Whole
  <2> QED
    BY <1>0, <2>1, <2>2 DEF Whole
<1>2. \A i \in 0..h - 1 : ~(EndAt(i) /\ EndAt(i + 2))
  <2> TAKE i \in 0..h - 1
  <2>1. CASE i \in 0..p - 4
    BY <2>1 DEF WholeLines
  <2>2. CASE i = h - 1
    <3>1. i + 2 = p - 1
      BY <1>0, <2>2
    <3> QED
      BY <1>0, <3>1 DEF EndAt
  <2> QED
    BY <1>0, <2>1, <2>2
<1> QED
  BY <1>0, <1>1, <1>2 DEF HeadDone, h

(* The line that parse_line found in the head: what it is and what it says. *)
LEMMA HeadLine ==
  ASSUME R!HttpParseAssumption, ParseInv, R!Turn, r_program # "chap8", r_m_check_state # "CONTENT",
         R!LineFound
  PROVE  /\ R!Stop \in r_m_checked_idx..r_m_read_idx /\ R!Stop + 1 < r_m_read_idx /\ EndAt(R!Stop)
         /\ HeadSoFar /\ WholeLines(R!Stop, r_m_start_line)
         /\ r_m_checked_idx' = R!Stop + 2
         /\ r_m_read_buf' \in [R!Index -> R!Token]
         /\ \A i \in R!Index : r_m_read_buf'[i] =
              IF i \in {R!Stop, R!Stop + 1} THEN "NUL" ELSE r_m_read_buf[i]
         /\ \A i \in 0..R!Stop + 1 : r_m_read_buf'[i] # "CR"
         /\ R!Text = [x \in 1..(R!Stop - r_m_start_line) |-> At(r_m_start_line + x - 1)]
<1> USE DEF ParseInv
<1> DEFINE n == r_m_read_idx
           k == r_m_checked_idx
           st == r_m_start_line
<1>0. /\ k \in Nat /\ n \in Nat /\ st \in 0..k /\ R!Stop \in k..n /\ r_pc = "parse"
      /\ n <= READ_BUFFER_SIZE /\ READ_BUFFER_SIZE \in Nat /\ n <= Len(r_input) /\ Len(r_input) \in Nat
      /\ Len(r_input) = n \/ Len(r_input) > n
  BY StopIs DEF Types, R!HttpParseAssumption, R!Turn
<1>1. R!LineStatus = "OK" /\ R!AtCR /\ R!Stop + 1 < n /\ EndAt(R!Stop)
  BY <1>0, HeadStatus DEF R!LineFound, R!TakesLine
<1>2. HeadSoFar
  BY <1>0 DEF HeadRead
<1>3. WholeLines(R!Stop, st)
  BY <1>2, LinesToStop DEF HeadSoFar
<1>4. R!Overwritten = {R!Stop, R!Stop + 1}
  BY <1>1 DEF R!Overwritten
<1>5. r_m_checked_idx' = R!Stop + 2
  BY <1>1 DEF R!LineFound, R!TakesLine
<1>6. r_m_read_buf' = [i \in R!Index |-> IF i \in {R!Stop, R!Stop + 1} THEN "NUL" ELSE r_m_read_buf[i]]
  BY <1>4 DEF R!LineFound, R!TakesLine
<1>7. \A i \in R!Index : r_m_read_buf'[i] = IF i \in {R!Stop, R!Stop + 1} THEN "NUL" ELSE r_m_read_buf[i]
  BY <1>6
<1>8. r_m_read_buf' \in [R!Index -> R!Token]
  BY <1>6 DEF Types, R!Token
<1>9. \A i \in st..R!Stop - 1 : r_m_read_buf[i] = At(i) /\ At(i) \in R!Token \ {"NUL"}
  <2> TAKE i \in st..R!Stop - 1
  <2>1. i < k => r_m_read_buf[i] = At(i)
    BY <1>0, <1>2 DEF HeadSoFar
  <2>2. i >= k => r_m_read_buf[i] = At(i)
    BY <1>0 DEF Unchecked
  <2>3. i + 1 \in 1..Len(r_input) /\ r_input \in Seq(R!Token \ {"NUL"})
    BY <1>0 DEF Types
  <2>4. r_input[i + 1] \in R!Token \ {"NUL"}
    BY <2>3, ElementOfSeq
  <2> QED
    BY <1>0, <2>1, <2>2, <2>4 DEF At
<1>10. \A i \in 0..R!Stop + 1 : r_m_read_buf'[i] # "CR"
  <2> TAKE i \in 0..R!Stop + 1
  <2>0. i \in R!Index
    BY <1>0, <1>1 DEF R!Index
  <2>1. CASE i < k
    <3>1. r_m_read_buf[i] # "CR"
      BY <1>0, <1>2, <2>1 DEF HeadSoFar
    <3> QED
      BY <3>1, <2>0, <1>7
  <2>2. CASE i >= k /\ i < R!Stop
    <3>1. r_m_read_buf[i] = At(i) /\ At(i) # "CR"
      BY <1>0, <2>2, <1>9, StopIs
    <3> QED
      BY <3>1, <2>0, <1>7
  <2>3. CASE i \in {R!Stop, R!Stop + 1}
    BY <2>0, <2>3, <1>7
  <2> QED
    BY <2>1, <2>2, <2>3, <1>0
<1>11. R!Text = [x \in 1..(R!Stop - st) |-> At(st + x - 1)]
  <2> DEFINE nuls == {j \in st..(READ_BUFFER_SIZE - 1) : r_m_read_buf'[j] = "NUL"}
  <2>0. \A j \in st..(READ_BUFFER_SIZE - 1) : j \in R!Index /\ j \in Nat
    BY <1>0 DEF R!Index
  <2>1. R!Stop \in nuls
    <3>1. R!Stop \in st..(READ_BUFFER_SIZE - 1)
      BY <1>0, <1>1
    <3>2. r_m_read_buf'[R!Stop] = "NUL"
      BY <3>1, <2>0, <1>7
    <3> QED
      BY <3>1, <3>2
  <2>2. \A j \in st..R!Stop - 1 : r_m_read_buf'[j] = At(j) /\ r_m_read_buf'[j] # "NUL"
    <3> TAKE j \in st..R!Stop - 1
    <3>1. j \in R!Index /\ j \notin {R!Stop, R!Stop + 1}
      BY <1>0, <1>1 DEF R!Index
    <3> QED
      BY <3>1, <1>7, <1>9
  <2>3. \A j \in nuls : R!Stop <= j
    <3> TAKE j \in nuls
    <3>1. j \in st..(READ_BUFFER_SIZE - 1) /\ r_m_read_buf'[j] = "NUL"
      OBVIOUS
    <3>2. ~(j < R!Stop)
      BY <3>1, <2>2, <1>0
    <3> QED
      BY <3>1, <3>2, <1>0
  <2>4. nuls \in SUBSET Nat
    BY <2>0
  <2>5. nuls # {} /\ R!First(nuls) = R!Stop
    <3> HIDE DEF nuls
    <3> QED
      BY <2>1, <2>3, <2>4, FirstIs
  <2>6. R!Text = [x \in 1..(R!Stop - st) |-> r_m_read_buf'[st + x - 1]]
    <3>1. R!Text = [x \in 1..((IF nuls = {} THEN READ_BUFFER_SIZE ELSE R!First(nuls)) - st) |->
                    r_m_read_buf'[st + x - 1]]
      BY DEF R!Text, R!TextFrom
    <3> HIDE DEF nuls
    <3> QED
      BY <3>1, <2>5
  <2>7. \A x \in 1..(R!Stop - st) : r_m_read_buf'[st + x - 1] = At(st + x - 1)
    <3> TAKE x \in 1..(R!Stop - st)
    <3>1. st + x - 1 \in st..R!Stop - 1
      BY <1>0
    <3> QED
      BY <3>1, <2>2
  <2> HIDE DEF nuls
  <2> QED
    BY <2>6, <2>7
<1> QED
  BY <1>0, <1>1, <1>2, <1>3, <1>5, <1>7, <1>8, <1>10, <1>11

(* A line is parsed, and what comes after it is not touched.                *)
LEMMA TypesNext ==
  ASSUME R!HttpParseAssumption, ParseInv, R!Turn, NEW q \in r_m_checked_idx..r_m_read_idx,
         r_m_checked_idx' = q, r_m_start_line' = q,
         r_m_read_buf' \in [R!Index -> R!Token],
         \A i \in q..READ_BUFFER_SIZE - 1 : r_m_read_buf'[i] = r_m_read_buf[i],
         r_m_check_state' \in {"REQUESTLINE", "HEADER", "CONTENT"},
         r_m_content_length' \in {0, BodyLength},
         r_pc' \in {"recv", "parse", "done"}, r_pc' # "done" => r_result' = "NO_REQUEST",
         UNCHANGED r_bodySplit
  PROVE  Types' /\ Unchecked'
<1> USE DEF ParseInv
<1>1. r_m_checked_idx \in Nat /\ r_m_read_idx \in Nat /\ UNCHANGED <<r_program, r_input, r_m_read_idx>>
      /\ q \in Nat /\ READ_BUFFER_SIZE \in Nat /\ r_m_read_idx <= READ_BUFFER_SIZE
  BY DEF Types, R!Turn, R!fixedVars, R!HttpParseAssumption
<1>2. Types'
  <2>1. r_bodySplit' \in BOOLEAN
    BY Zenon DEF Types
  <2> QED
    BY <1>1, <2>1 DEF Types
<1>3. Unchecked'
  <2>1. ASSUME NEW i \in q..r_m_read_idx - 1 PROVE r_m_read_buf'[i] = At(i)'
    BY <1>1, SameLines DEF Unchecked
  <2>2. ASSUME NEW i \in r_m_read_idx..READ_BUFFER_SIZE - 1 PROVE r_m_read_buf'[i] = "NUL"
    BY <1>1 DEF Unchecked
  <2> QED
    BY <1>1, <2>1, <2>2 DEF Unchecked
<1> QED
  BY <1>2, <1>3

(* After a line that is not blank the head goes on.                         *)
LEMMA HeadNext ==
  ASSUME R!HttpParseAssumption, ParseInv, R!Turn, r_program # "chap8", r_m_check_state # "CONTENT",
         R!LineFound, R!Stop > r_m_start_line, r_m_start_line' = r_m_checked_idx',
         r_m_check_state' = "HEADER", Requested,
         r_program = "http_conn" /\ (\E i \in 0..R!Stop - 1 : EndAt(i) /\ At(i + 2) = "L") =>
           r_m_content_length' = BodyLength,
         r_program = "http_conn" /\ r_m_content_length' # 0 =>
           \E i \in 0..R!Stop - 1 : EndAt(i) /\ At(i + 2) = "L"
  PROVE  HeadSoFar'
<1> USE DEF ParseInv
<1>0. /\ R!Stop \in r_m_checked_idx..r_m_read_idx /\ R!Stop + 1 < r_m_read_idx /\ EndAt(R!Stop)
      /\ HeadSoFar /\ WholeLines(R!Stop, r_m_start_line) /\ r_m_checked_idx' = R!Stop + 2
      /\ \A i \in 0..R!Stop + 1 : r_m_read_buf'[i] # "CR"
  BY HeadLine
<1>1. r_m_checked_idx \in Nat /\ r_m_read_idx \in Nat /\ r_m_start_line \in 0..r_m_checked_idx
      /\ UNCHANGED <<r_program, r_input>>
  BY DEF Types, R!Turn, R!fixedVars
<1>2. R!Stop \in Nat /\ r_m_start_line \in 0..R!Stop
  BY <1>0, <1>1
<1>3. WholeLines(R!Stop + 2, R!Stop + 2)
  BY <1>0, <1>2, LinesNext
<1>4. WholeLines(r_m_checked_idx, r_m_start_line)'
  <2>0. PICK q : q = R!Stop + 2
    OBVIOUS
  <2>1. WholeLines(q, q)'
    BY <1>1, <1>3, <2>0, SameLines
  <2> QED
    BY <1>0, <2>0, <2>1 DEF WholeLines, Whole, EndAt, At
<1>5. R!Stop + 2 >= 3
  BY <1>2
<1>6. \A i \in R!Stop + 2..(R!Stop + 2) - 1 : FALSE
  BY <1>2
<1>7. ASSUME r_program = "http_conn", NEW i \in 0..(R!Stop + 2) - 3, EndAt(i), At(i + 2) = "L"
      PROVE  r_m_content_length' = BodyLength
  BY <1>2, <1>7
<1>8. (R!Stop + 2) - 3 = R!Stop - 1
  BY <1>2
<1> QED
  BY <1>0, <1>1, <1>2, <1>4, <1>5, <1>6, <1>7, <1>8, SameLines DEF HeadSoFar

(* The request line is read. *)
LEMMA ParseInvRequestLine ==
  ASSUME R!HttpParseAssumption, ParseInv, R!RequestLine, r_program # "chap8"
  PROVE  ParseInv'
<1> USE DEF ParseInv
<1>0. /\ R!Turn /\ R!LineFound /\ r_m_check_state = "REQUESTLINE" /\ r_m_start_line' = r_m_checked_idx'
      /\ UNCHANGED <<r_m_content_length, r_bodySplit>> /\ r_pc = "parse"
      /\ UNCHANGED <<r_program, r_input, r_m_read_idx>>
  BY DEF R!RequestLine, R!Turn, R!fixedVars
<1>1. /\ R!Stop \in r_m_checked_idx..r_m_read_idx /\ R!Stop + 1 < r_m_read_idx /\ EndAt(R!Stop)
      /\ HeadSoFar /\ WholeLines(R!Stop, r_m_start_line) /\ r_m_checked_idx' = R!Stop + 2
      /\ r_m_read_buf' \in [R!Index -> R!Token]
      /\ \A i \in R!Index : r_m_read_buf'[i] =
           IF i \in {R!Stop, R!Stop + 1} THEN "NUL" ELSE r_m_read_buf[i]
      /\ R!Text = [x \in 1..(R!Stop - r_m_start_line) |-> At(r_m_start_line + x - 1)]
  BY <1>0, HeadLine
<1>2. r_m_checked_idx \in Nat /\ r_m_read_idx \in Nat /\ r_m_start_line = 0 /\ R!Stop \in Nat
      /\ r_m_read_idx <= Len(r_input) /\ Len(r_input) \in Nat /\ READ_BUFFER_SIZE \in Nat
      /\ r_input \in Seq(R!Token \ {"NUL"}) /\ r_m_read_idx <= READ_BUFFER_SIZE
  BY <1>0, <1>1 DEF Types, HeadSoFar, R!HttpParseAssumption
<1>3. \/ /\ R!Text = <<"R">> /\ r_m_check_state' = "HEADER" /\ r_result' = "NO_REQUEST" /\ r_pc' = "parse"
      \/ /\ R!Text # <<"R">> /\ r_m_check_state' = r_m_check_state
         /\ r_result' = "BAD_REQUEST" /\ r_pc' = "done"
  BY DEF R!RequestLine, R!Continue, R!Return
<1>4. Types' /\ Unchecked'
  <2>1. R!Stop + 2 \in r_m_checked_idx..r_m_read_idx
    BY <1>1, <1>2
  <2>2. \A i \in R!Stop + 2..READ_BUFFER_SIZE - 1 : r_m_read_buf'[i] = r_m_read_buf[i]
    <3> TAKE i \in R!Stop + 2..READ_BUFFER_SIZE - 1
    <3>1. i \in R!Index /\ i \notin {R!Stop, R!Stop + 1}
      BY <1>2 DEF R!Index
    <3> QED
      BY <3>1, <1>1
  <2>3. r_m_content_length' \in {0, BodyLength}
        /\ r_m_check_state' \in {"REQUESTLINE", "HEADER", "CONTENT"}
    BY <1>0, <1>3 DEF Types
  <2> QED
    BY <1>0, <1>1, <1>3, <2>1, <2>2, <2>3, TypesNext
<1>5. BodyRead' /\ Chap8Waits'
  BY <1>0, <1>3 DEF BodyRead, Chap8Waits
<1>6. R!Text \in Seq(R!Token) /\ Len(R!Text) = R!Stop /\ \A x \in 1..R!Stop : R!Text[x] = At(x - 1)
  <2>1. \A x \in 1..R!Stop : At(0 + x - 1) \in R!Token
    <3> TAKE x \in 1..R!Stop
    <3>1. x \in 1..Len(r_input) /\ (0 + x - 1) + 1 = x
      BY <1>1, <1>2
    <3>2. r_input[x] \in R!Token
      BY <1>2, <3>1, ElementOfSeq
    <3> QED
      BY <3>1, <3>2 DEF At
  <2>2. R!Text = [x \in 1..R!Stop |-> At(0 + x - 1)]
    BY <1>1, <1>2
  <2>3. R!Text \in Seq(R!Token)
    BY <1>2, <2>1, <2>2
  <2> QED
    BY <1>2, <2>2, <2>3
<1>7. CASE R!Text = <<"R">>
  <2>1. R!Stop = 1 /\ At(0) = "R"
    <3> DEFINE t == R!Text
    <3>1. t = <<"R">> /\ Len(t) = R!Stop /\ \A x \in 1..R!Stop : t[x] = At(x - 1)
      BY <1>6, <1>7
    <3> HIDE DEF t
    <3>2. R!Stop = 1
      BY <3>1
    <3> QED
      BY <3>1, <3>2
  <2>2. Requested
    BY <1>1, <2>1 DEF Requested
  <2>3. HeadSoFar'
    <3>1. ~(\E i \in 0..R!Stop - 1 : EndAt(i) /\ At(i + 2) = "L")
      BY <2>1 DEF EndAt
    <3>2. r_program = "http_conn" => r_m_content_length' = 0
      BY <1>0, <1>1, <1>2 DEF HeadSoFar
    <3> QED
      BY <1>0, <1>2, <1>3, <1>7, <2>1, <2>2, <3>1, <3>2, HeadNext
  <2> QED
    BY <1>3, <1>4, <1>5, <1>7, <2>3 DEF HeadRead, R!VerdictRight, R!WaitJustified
<1>8. CASE R!Text # <<"R">>
  <2>1. r_pc' = "done" /\ r_result' = "BAD_REQUEST"
    BY <1>3, <1>8
  <2>2. R!BadRequestLine(R!Received)
    <3> DEFINE s == R!Received
    <3>0. /\ Len(s) = r_m_read_idx
          /\ \A i \in 1..r_m_read_idx : s[i] = At(i - 1)
          /\ R!LineEnds(s) = {i \in 1..(r_m_read_idx - 1) : EndAt(i - 1)}
          /\ s \in Seq(R!Token \ {"NUL"})
      BY ReceivedIs
    <3> HIDE DEF s
    <3>1. R!Stop + 1 \in R!LineEnds(s) /\ (R!Stop + 1) - 1 = R!Stop
      <4>1. R!Stop + 1 \in 1..(r_m_read_idx - 1) /\ (R!Stop + 1) - 1 = R!Stop
        BY <1>1, <1>2
      <4> QED
        BY <4>1, <1>1, <3>0
    <3>2. \A i \in R!LineEnds(s) : R!Stop + 1 <= i
      <4> SUFFICES ASSUME NEW i \in R!LineEnds(s), i < R!Stop + 1 PROVE FALSE
        BY <3>0, <1>2
      <4>1. i - 1 < R!Stop /\ i \in 1..(r_m_read_idx - 1) /\ R!Stop \in 0..r_m_read_idx /\ 0 \in 0..R!Stop
        BY <3>0, <1>1, <1>2
      <4>2. i + 1 <= 0
        BY <1>1, <1>2, <4>1, LinesEnds DEF s
      <4> QED
        BY <4>1, <4>2
    <3>3. R!First(R!LineEnds(s)) = R!Stop + 1
      BY <3>0, <3>1, <3>2, FirstIs
    <3>4. SubSeq(s, 1, R!Stop) # <<"R">>
      <4> SUFFICES ASSUME SubSeq(s, 1, R!Stop) = <<"R">> PROVE FALSE
        OBVIOUS
      <4>1. Len(SubSeq(s, 1, R!Stop)) = R!Stop /\ \A i \in 1..R!Stop : SubSeq(s, 1, R!Stop)[i] = s[i]
        <5>1. \A i \in 1..R!Stop : s[i] \in R!Token
          <6> TAKE i \in 1..R!Stop
          <6>1. i \in 1..Len(s)
            BY <1>1, <1>2, <3>0
          <6> QED
            BY <6>1, <3>0, ElementOfSeq
        <5>2. R!Stop <= Len(s) /\ Len(s) \in Nat
          BY <1>1, <1>2, <3>0
        <5> QED
          BY <1>2, <3>0, <5>1, <5>2, SubSeqProperties
      <4>2. R!Stop = 1
        BY <4>1
      <4>3. s[1] = "R"
        <5>0. PICK w : w = SubSeq(s, 1, R!Stop)
          OBVIOUS
        <5>2. w = <<"R">>
          BY <5>0, Zenon
        <5>1. w[1] = "R" /\ 1 \in 1..R!Stop
          BY <4>2, <5>2
        <5> HIDE DEF s
        <5> QED
          BY <5>0, <5>1, <4>1
      <4>4. At(0) = "R"
        BY <1>1, <3>0, <4>2, <4>3
      <4>5. Len(R!Text) = 1 /\ R!Text[1] = "R"
        BY <1>6, <4>2, <4>4
      <4> QED
        BY <1>6, <1>8, <4>5, JustR
    <3> QED
      BY <3>1, <3>3, <3>4 DEF R!BadRequestLine, s
  <2>3. R!VerdictRight'
    BY <1>0, <2>1, <2>2, SameReference DEF R!VerdictRight
  <2> QED
    BY <1>4, <1>5, <2>1, <2>3 DEF HeadRead, R!WaitJustified
<1> QED
  BY <1>7, <1>8

(* What the header of a request that has a body says. *)
LEMMA BodyIsKnown ==
  ASSUME Types, NEW h \in 0..r_m_read_idx, HeadDone(h), h + 3 < r_m_read_idx, R!HasBody(R!Received)
  PROVE  \E i \in 0..h - 1 : EndAt(i) /\ At(i + 2) = "L"
<1> DEFINE s == R!Received
           n == r_m_read_idx
<1>0. /\ Len(s) = n /\ n \in Nat
      /\ \A i \in 1..n : s[i] = At(i - 1)
      /\ R!LineEnds(s) = {i \in 1..(n - 1) : EndAt(i - 1)}
  BY ReceivedIs
<1> HIDE DEF s
<1>1. h + 1 \in R!HeadEnds(s)
  <2>1. (h + 1) - 1 = h /\ (h + 3) - 1 = h + 2 /\ (h + 1) + 2 = h + 3
    BY <1>0
  <2>2. EndAt((h + 1) - 1) /\ EndAt((h + 3) - 1)
    BY <2>1 DEF HeadDone
  <2>3. h + 1 \in 1..(n - 1) /\ h + 3 \in 1..(n - 1)
    BY <1>0
  <2> QED
    BY <1>0, <2>1, <2>2, <2>3 DEF R!HeadEnds
<1>2. PICK i \in R!LineEnds(s) : R!InHead(s, i) /\ i + 2 <= Len(s) /\ s[i + 2] = "L"
  BY DEF R!HasBody, s
<1>3. i \in 1..(n - 1) /\ EndAt(i - 1) /\ i < h + 1
  BY <1>0, <1>1, <1>2 DEF R!InHead
<1>4. i - 1 \in 0..h - 1 /\ i + 2 \in 1..n /\ (i + 2) - 1 = (i - 1) + 2
  BY <1>0, <1>2, <1>3
<1>5. At((i - 1) + 2) = "L"
  BY <1>0, <1>2, <1>4
<1> QED
  BY <1>3, <1>4, <1>5

(* A header is read: the next one follows, or the head is done.             *)
LEMMA ParseInvHeader ==
  ASSUME R!HttpParseAssumption, ParseInv, R!HttpConnHeader \/ R!ParserHeader, r_program # "chap8"
  PROVE  ParseInv'
<1> USE DEF ParseInv
<1>0. /\ R!Turn /\ R!LineFound /\ r_m_check_state = "HEADER" /\ r_m_start_line' = r_m_checked_idx'
      /\ UNCHANGED r_bodySplit /\ r_pc = "parse"
      /\ UNCHANGED <<r_program, r_input, r_m_read_idx>>
  BY DEF R!HttpConnHeader, R!ParserHeader, R!Turn, R!fixedVars
<1>1. /\ R!Stop \in r_m_checked_idx..r_m_read_idx /\ R!Stop + 1 < r_m_read_idx /\ EndAt(R!Stop)
      /\ HeadSoFar /\ WholeLines(R!Stop, r_m_start_line) /\ r_m_checked_idx' = R!Stop + 2
      /\ r_m_read_buf' \in [R!Index -> R!Token]
      /\ \A i \in R!Index : r_m_read_buf'[i] =
           IF i \in {R!Stop, R!Stop + 1} THEN "NUL" ELSE r_m_read_buf[i]
      /\ R!Text = [x \in 1..(R!Stop - r_m_start_line) |-> At(r_m_start_line + x - 1)]
  BY <1>0, HeadLine
<1>2. r_m_checked_idx \in Nat /\ r_m_read_idx \in Nat /\ r_m_start_line \in 0..r_m_checked_idx
      /\ r_m_start_line \in Nat /\ R!Stop \in Nat /\ r_m_start_line <= R!Stop /\ r_m_start_line >= 3
      /\ Requested /\ READ_BUFFER_SIZE \in Nat /\ r_m_content_length \in {0, BodyLength}
      /\ BodyLength \in Nat \ {0}
  BY <1>0, <1>1 DEF Types, HeadSoFar, R!HttpParseAssumption
<1>3. /\ R!Text = <<>> <=> R!Stop = r_m_start_line
      /\ R!Text # <<>> => Head(R!Text) = At(r_m_start_line)
  <2>1. Len(R!Text) = R!Stop - r_m_start_line /\ (R!Stop > r_m_start_line => R!Text[1] = At(r_m_start_line))
    BY <1>1, <1>2
  <2>2. R!Stop = r_m_start_line => R!Text = <<>>
    <3>1. ASSUME R!Stop = r_m_start_line PROVE 1..(R!Stop - r_m_start_line) = {}
      BY <1>2, <3>1
    <3>2. ASSUME R!Stop = r_m_start_line PROVE DOMAIN R!Text = {} /\ Len(R!Text) = 0
      BY <1>1, <2>1, <3>1, <3>2, <1>2
    <3>3. ASSUME R!Stop = r_m_start_line PROVE R!Text \in Seq({})
      BY <1>1, <1>2, <3>3
    <3> QED
      BY <3>2, <3>3, EmptySeq
  <2>3. R!Text # <<>> => R!Stop > r_m_start_line
    BY <2>2, <1>2
  <2>4. R!Stop > r_m_start_line => R!Text # <<>>
    <3> DEFINE t == R!Text
    <3>1. Len(t) = R!Stop - r_m_start_line
      BY <2>1
    <3> HIDE DEF t
    <3>2. R!Stop > r_m_start_line => t # <<>>
      BY <3>1, <1>2
    <3> QED
      BY <3>2 DEF t
  <2>5. R!Text # <<>> => Head(R!Text) = R!Text[1]
    <3> DEFINE S == {At(i) : i \in Nat}
    <3>1. \A x \in 1..(R!Stop - r_m_start_line) : At(r_m_start_line + x - 1) \in S
      BY <1>2
    <3> HIDE DEF S
    <3>2. R!Text \in Seq(S)
      BY <1>1, <1>2, <3>1
    <3> QED
      BY <3>2
  <2> QED
    BY <2>1, <2>2, <2>3, <2>4, <2>5, <1>2
<1>4. ASSUME r_m_content_length' \in {0, BodyLength}, r_pc' \in {"recv", "parse", "done"},
             r_m_check_state' \in {"HEADER", "CONTENT"}, r_pc' # "done" => r_result' = "NO_REQUEST"
      PROVE  Types' /\ Unchecked'
  <2>1. R!Stop + 2 \in r_m_checked_idx..r_m_read_idx
    BY <1>1, <1>2
  <2>2. \A i \in R!Stop + 2..READ_BUFFER_SIZE - 1 : r_m_read_buf'[i] = r_m_read_buf[i]
    <3> TAKE i \in R!Stop + 2..READ_BUFFER_SIZE - 1
    <3>1. i \in R!Index /\ i \notin {R!Stop, R!Stop + 1}
      BY <1>2 DEF R!Index
    <3> QED
      BY <3>1, <1>1
  <2>3. r_m_check_state' \in {"REQUESTLINE", "HEADER", "CONTENT"}
    BY <1>4
  <2> QED
    BY <1>0, <1>1, <1>4, <2>1, <2>2, <2>3, TypesNext
<1>5. (Chap8Waits' /\ R!WaitJustified') \/ r_pc' \notin {"parse", "done"}
  BY <1>0 DEF Chap8Waits, R!WaitJustified
<1>6. CASE R!Text # <<>>
  <2>1. /\ r_pc' = "parse" /\ r_result' = "NO_REQUEST" /\ r_m_check_state' = "HEADER"
        /\ r_m_content_length' = IF r_program = "http_conn" /\ Head(R!Text) = "L" THEN BodyLength
                               ELSE r_m_content_length
    BY <1>0, <1>6 DEF R!HttpConnHeader, R!ParserHeader, R!Continue, R!Return
  <2>2. R!Stop > r_m_start_line /\ Head(R!Text) = At(r_m_start_line)
    BY <1>2, <1>3, <1>6
  <2>3. r_m_content_length' \in {0, BodyLength}
    BY <1>2, <2>1
  <2>4. ASSUME r_program = "http_conn", NEW i \in 0..R!Stop - 1, EndAt(i), At(i + 2) = "L"
        PROVE  r_m_content_length' = BodyLength
    <3>1. CASE i \in 0..r_m_start_line - 3
      <4>1. r_m_content_length = BodyLength
        BY <1>1, <2>4, <3>1 DEF HeadSoFar
      <4> QED
        BY <2>1, <4>1
    <3>2. CASE i = r_m_start_line - 2
      <4>1. At(r_m_start_line) = "L"
        BY <1>2, <2>4, <3>2
      <4> QED
        BY <2>1, <2>2, <2>4, <4>1
    <3>3. CASE i = r_m_start_line - 1
      <4>1. At((r_m_start_line - 2) + 1) = "LF" /\ (r_m_start_line - 2) + 1 = i
        BY <1>1, <1>2, <3>3 DEF WholeLines, EndAt
      <4> QED
        BY <2>4, <4>1 DEF EndAt
    <3>4. CASE i \in r_m_start_line..R!Stop - 1
      BY <1>1, <2>4, <3>4 DEF WholeLines, EndAt
    <3> QED
      BY <1>2, <3>1, <3>2, <3>3, <3>4
  <2>8. ASSUME r_program = "http_conn", r_m_content_length' # 0
        PROVE  \E i \in 0..R!Stop - 1 : EndAt(i) /\ At(i + 2) = "L"
    <3>1. CASE Head(R!Text) = "L"
      <4>1. r_m_start_line - 2 \in 0..R!Stop - 1 /\ (r_m_start_line - 2) + 2 = r_m_start_line
        BY <1>2
      <4>2. EndAt(r_m_start_line - 2) /\ At(r_m_start_line) = "L"
        BY <1>1, <1>2, <2>2, <3>1 DEF WholeLines
      <4> QED
        BY <4>1, <4>2
    <3>2. CASE Head(R!Text) # "L"
      <4>1. r_m_content_length # 0
        BY <2>1, <2>8, <3>2
      <4>2. PICK i \in 0..r_m_start_line - 3 : EndAt(i) /\ At(i + 2) = "L"
        BY <1>1, <2>8, <4>1 DEF HeadSoFar
      <4>3. i \in 0..R!Stop - 1
        BY <1>2
      <4> QED
        BY <4>2, <4>3
    <3> QED
      BY <3>1, <3>2
  <2>5. HeadSoFar'
    BY <1>0, <1>2, <2>1, <2>2, <2>4, <2>8, HeadNext
  <2>6. Types' /\ Unchecked'
    BY <1>4, <2>1, <2>3
  <2>7. HeadRead' /\ BodyRead' /\ R!VerdictRight'
    BY <2>1, <2>5 DEF HeadRead, BodyRead, R!VerdictRight
  <2> QED
    BY <1>0, <1>5, <2>1, <2>6, <2>7
<1>7. CASE R!Text = <<>>
  <2> DEFINE h == r_m_start_line - 2
  <2>1. R!Stop = r_m_start_line /\ h \in 0..r_m_read_idx - 4 /\ h + 4 = R!Stop + 2 /\ h + 3 < r_m_read_idx
        /\ h \in 0..r_m_read_idx /\ h - 1 = r_m_start_line - 3
    BY <1>1, <1>2, <1>3, <1>7
  <2>2. HeadDone(h)
    BY <1>1, <1>2, <2>1, LinesDone
  <2> HIDE DEF h
  <2>3. CASE r_program = "http_conn" /\ r_m_content_length # 0
    <3>1. r_pc' = "parse" /\ r_result' = "NO_REQUEST" /\ r_m_check_state' = "CONTENT"
          /\ r_m_content_length' = BodyLength
      BY <1>0, <1>2, <1>7, <2>3 DEF R!HttpConnHeader, R!ParserHeader, R!Continue, R!Return
    <3>2. Types' /\ Unchecked'
      BY <1>4, <3>1
    <3>3. BodyRead'
      <4>1. PICK g : g = h
        OBVIOUS
      <4>2. g \in 0..r_m_checked_idx' - 4
        BY <1>1, <1>2, <2>1, <4>1
      <4>3. HeadDone(g)'
        BY <1>0, <2>2, <4>1, SameLines
      <4>4. \E i \in 0..g - 1 : EndAt(i)' /\ At(i + 2)' = "L"
        BY <1>0, <1>1, <2>1, <2>3, <4>1, SameLines DEF HeadSoFar
      <4>5. r_line_status' = "OK" /\ r_m_checked_idx' = g + 4
        BY <1>0, <1>1, <2>1, <4>1 DEF R!LineFound
      <4>6. BodyAt(g)'
        BY <3>1, <4>4, <4>5 DEF BodyAt
      <4> QED
        BY <1>0, <2>3, <3>1, <4>2, <4>3, <4>6 DEF BodyRead
    <3>4. HeadRead' /\ R!VerdictRight'
      BY <3>1 DEF HeadRead, R!VerdictRight
    <3> QED
      BY <1>0, <1>5, <3>1, <3>2, <3>3, <3>4
  <2>4. CASE ~(r_program = "http_conn" /\ r_m_content_length # 0)
    <3>1. r_pc' = "done" /\ r_result' = "GET_REQUEST" /\ r_m_check_state' = "HEADER"
          /\ r_m_content_length' = r_m_content_length
      BY <1>0, <1>2, <1>7, <2>4 DEF R!HttpConnHeader, R!ParserHeader, R!Continue, R!Return
    <3>2. Types' /\ Unchecked'
      BY <1>2, <1>4, <3>1
    <3>3. ~(r_program = "http_conn" /\ R!HasBody(R!Received))
      <4> SUFFICES ASSUME r_program = "http_conn", R!HasBody(R!Received) PROVE FALSE
        OBVIOUS
      <4>1. \E i \in 0..h - 1 : EndAt(i) /\ At(i + 2) = "L"
        BY <2>1, <2>2, BodyIsKnown
      <4>2. r_m_content_length = BodyLength
        BY <1>1, <2>1, <4>1 DEF HeadSoFar
      <4> QED
        BY <1>2, <2>4, <4>2
    <3>4. R!Complete(R!Received)
      BY <2>1, <2>2, <3>3, CompleteIs
    <3>5. R!VerdictRight'
      BY <1>0, <3>1, <3>4, SameReference DEF R!VerdictRight
    <3>6. HeadRead' /\ BodyRead'
      BY <3>1 DEF HeadRead, BodyRead
    <3> QED
      BY <1>0, <1>5, <3>1, <3>2, <3>5, <3>6
  <2> QED
    BY <2>3, <2>4
<1> QED
  BY <1>6, <1>7

(* Another turn in the body. *)
LEMMA ParseInvContent ==
  ASSUME R!HttpParseAssumption, ParseInv, R!Content
  PROVE  ParseInv'
<1> USE DEF ParseInv
<1>0. /\ R!Turn /\ r_m_check_state = "CONTENT" /\ r_m_start_line' = r_m_checked_idx'
      /\ UNCHANGED <<r_m_check_state, r_m_content_length, r_bodySplit>>
      /\ r_pc = "parse" /\ r_program = "http_conn"
      /\ UNCHANGED <<r_program, r_input, r_m_read_idx>>
  BY DEF R!Content, R!Turn, R!fixedVars
<1>1. /\ R!Stop \in r_m_checked_idx..r_m_read_idx /\ r_m_checked_idx \in Nat /\ r_m_read_idx \in Nat
      /\ r_m_read_idx <= READ_BUFFER_SIZE /\ READ_BUFFER_SIZE \in Nat /\ R!Stop \in Nat
      /\ BodyLength \in Nat \ {0} /\ r_m_content_length \in {0, BodyLength}
      /\ r_m_read_buf \in [R!Index -> R!Token]
  BY <1>0, StopIs DEF Types, R!HttpParseAssumption
<1>2. PICK h \in 0..r_m_checked_idx - 4 : HeadDone(h) /\ BodyAt(h)
  BY <1>0 DEF BodyRead
<1>11. h \in Nat /\ h + 4 <= r_m_checked_idx
  BY <1>1, <1>2
<1>3. r_m_content_length = BodyLength
  BY <1>0 DEF BodyRead
<1>4. /\ r_m_checked_idx' \in r_m_checked_idx..r_m_read_idx /\ r_m_read_buf' \in [R!Index -> R!Token]
      /\ \A i \in r_m_checked_idx'..READ_BUFFER_SIZE - 1 : r_m_read_buf'[i] = r_m_read_buf[i]
  <2>1. CASE R!BodyTurn /\ UNCHANGED <<r_m_read_buf, r_m_checked_idx>>
    BY <1>1, <2>1 DEF Types
  <2>2. CASE R!TakesLine
    <3>1. R!Stop # r_m_read_idx
      BY <2>2 DEF R!TakesLine, R!LineStatus
    <3>2. R!AtCR => R!Stop + 1 < r_m_read_idx
      BY DEF R!AtCR
    <3>3. r_m_checked_idx' = IF R!AtCR THEN R!Stop + 2 ELSE R!Stop + 1
      BY <2>2 DEF R!TakesLine
    <3>4. r_m_read_buf' = [i \in R!Index |-> IF i \in R!Overwritten THEN "NUL" ELSE r_m_read_buf[i]]
      BY <2>2 DEF R!TakesLine
    <3>5. \A i \in R!Overwritten : i < r_m_checked_idx'
      BY <1>1, <3>3 DEF R!Overwritten
    <3>6. r_m_read_buf' \in [R!Index -> R!Token]
      BY <1>1, <3>4 DEF R!Token
    <3>7. \A i \in r_m_checked_idx'..READ_BUFFER_SIZE - 1 : r_m_read_buf'[i] = r_m_read_buf[i]
      <4> TAKE i \in r_m_checked_idx'..READ_BUFFER_SIZE - 1
      <4>1. r_m_checked_idx' \in Nat
        BY <1>1, <3>3
      <4>2. i \in R!Index /\ i \notin R!Overwritten
        BY <1>1, <3>5, <4>1 DEF R!Index
      <4> QED
        BY <3>4, <4>2
    <3>8. r_m_checked_idx' \in r_m_checked_idx..r_m_read_idx
      BY <1>1, <3>1, <3>2, <3>3
    <3> QED
      BY <3>6, <3>7, <3>8
  <2> QED
    BY <2>1, <2>2 DEF R!Content
<1>5. PICK q \in r_m_checked_idx..r_m_read_idx : q = r_m_checked_idx'
  BY <1>4
<1>6. \/ r_m_read_idx >= r_m_content_length + q /\ r_result' = "GET_REQUEST" /\ r_pc' = "done"
      \/ r_m_read_idx < r_m_content_length + q /\ r_result' = "NO_REQUEST" /\ r_pc' = "parse"
  BY <1>5 DEF R!Content, R!Return, R!Continue
<1>7. Types' /\ Unchecked'
  <2>1. r_m_check_state' \in {"REQUESTLINE", "HEADER", "CONTENT"} /\ r_m_content_length' \in {0, BodyLength}
        /\ r_pc' \in {"recv", "parse", "done"} /\ (r_pc' # "done" => r_result' = "NO_REQUEST")
    BY <1>0, <1>1, <1>6
  <2> QED
    BY <1>0, <1>4, <1>5, <2>1, TypesNext
<1>8. HeadRead' /\ Chap8Waits' /\ R!WaitJustified'
  BY <1>0, <1>6 DEF HeadRead, Chap8Waits, R!WaitJustified
<1>9. BodyRead'
  <2>0. h \in 0..q - 4
    BY <1>1, <1>11
  <2>1. h \in 0..r_m_checked_idx' - 4
    BY <1>5, <2>0, Zenon
  <2>2. HeadDone(h)'
    BY <1>0, <1>2, SameLines
  <2>3. \E i \in 0..h - 1 : EndAt(i)' /\ At(i + 2)' = "L"
    BY <1>0, <1>2, SameLines DEF BodyAt
  <2>4. r_line_status' = "OPEN" /\ (r_bodySplit' <=> r_bodySplit)
    <3>1. r_line_status' = "OPEN"
      BY DEF R!Content
    <3>2. r_bodySplit' = r_bodySplit
      BY <1>0
    <3> QED
      BY <3>1, <3>2, Zenon
  <2>5. r_pc' = "parse" /\ ~r_bodySplit => r_m_read_idx < h + 4 + BodyLength
    <3>1. CASE r_line_status = "OK"
      <4>1. R!BodyTurn
        BY <1>0, <3>1 DEF R!BodyTurn
      <4>2. q = r_m_checked_idx
        BY <1>5, <4>1 DEF R!Content
      <4> QED
        BY <1>0, <1>1, <1>2, <1>3, <1>6, <3>1, <4>2 DEF BodyAt
    <3>2. CASE r_line_status # "OK"
      BY <1>2, <3>2 DEF BodyAt
    <3> QED
      BY <3>1, <3>2
  <2>6. BodyAt(h)' \/ r_pc' = "done"
    BY <1>0, <1>6, <2>3, <2>4, <2>5 DEF BodyAt
  <2> QED
    BY <1>0, <1>3, <1>6, <2>1, <2>2, <2>6 DEF BodyRead
<1>10. R!VerdictRight'
  <2>1. CASE r_result' = "GET_REQUEST"
    <3>0. r_m_read_idx >= BodyLength + q /\ h + 4 <= q /\ h \in Nat /\ q \in Nat
      BY <1>1, <1>3, <1>6, <1>11, <2>1
    <3>1. r_m_read_idx >= h + 4 + BodyLength /\ h \in 0..r_m_read_idx - 4
      BY <1>1, <3>0
    <3>2. R!Complete(R!Received)
      BY <1>2, <3>1, CompleteIs
    <3> QED
      BY <1>0, <2>1, <3>2, SameReference DEF R!VerdictRight
  <2>2. CASE r_result' # "GET_REQUEST"
    BY <1>6, <2>2 DEF R!VerdictRight
  <2> QED
    BY <2>1, <2>2
<1> QED
  BY <1>0, <1>7, <1>8, <1>9, <1>10

(* chap8 stops at the first byte: a CR it takes for a blank line, which is  *)
(* no request line, anything else is a bad one.                             *)
LEMMA ParseInvChap8 ==
  ASSUME R!HttpParseAssumption, ParseInv, r_program = "chap8",
         \/ R!HttpConnNoLine \/ R!ParserNoLine \/ R!RequestLine \/ R!HttpConnHeader \/ R!ParserHeader
         \/ R!Content
  PROVE  ParseInv'
<1> USE DEF ParseInv
<1>0. /\ r_pc = "parse" /\ r_m_check_state = "REQUESTLINE" /\ r_m_checked_idx = 0 /\ r_m_start_line = 0
      /\ UNCHANGED <<r_program, r_input, r_m_read_idx, r_m_content_length, r_bodySplit>>
      /\ R!ParserNoLine \/ R!RequestLine
  <2>1. R!Turn /\ r_pc = "parse" /\ UNCHANGED <<r_program, r_input, r_m_read_idx>>
    BY DEF R!HttpConnNoLine, R!ParserNoLine, R!RequestLine, R!HttpConnHeader, R!ParserHeader, R!Content,
           R!Turn, R!fixedVars
  <2>2. r_m_check_state = "REQUESTLINE" /\ r_m_checked_idx = 0 /\ r_m_start_line = 0
    BY <2>1 DEF Chap8Waits
  <2>3. R!ParserNoLine \/ R!RequestLine
    BY <2>2 DEF R!HttpConnNoLine, R!HttpConnHeader, R!ParserHeader, R!Content
  <2>4. UNCHANGED r_m_content_length
    BY <2>3 DEF R!ParserNoLine, R!NoLine, R!RequestLine
  <2>5. UNCHANGED r_bodySplit
    BY <2>3, Zenon DEF R!ParserNoLine, R!RequestLine
  <2> QED
    BY <2>1, <2>2, <2>3, <2>4, <2>5
<1>1. /\ r_m_read_idx \in Nat /\ r_m_read_idx <= READ_BUFFER_SIZE /\ READ_BUFFER_SIZE \in Nat \ {0}
      /\ r_m_read_buf \in [R!Index -> R!Token] /\ r_m_read_idx <= Len(r_input) /\ Len(r_input) \in Nat
  BY DEF Types, R!HttpParseAssumption
<1>2. R!Stop = 0
  BY <1>0 DEF R!Stop
<1>3. r_bodySplit' \in BOOLEAN
  BY <1>0, Zenon DEF Types
<1>4. CASE R!ParserNoLine
  <2>1. r_m_checked_idx' = 0 /\ UNCHANGED <<r_m_read_buf, r_m_start_line, r_m_check_state>>
        /\ R!LineStatus # "OK"
    BY <1>2, <1>4 DEF R!ParserNoLine, R!NoLine
  <2>2. \/ R!LineStatus = "OPEN" /\ r_result' = "NO_REQUEST" /\ r_pc' = "recv"
        \/ r_result' = "BAD_REQUEST" /\ r_pc' = "done"
    BY <1>4 DEF R!ParserNoLine, R!Return
  <2>3. Types'
    BY <1>0, <1>3, <2>1, <2>2 DEF Types
  <2>4. Unchecked'
    BY <1>0, <2>1, SameLines DEF Unchecked
  <2>5. HeadRead' /\ BodyRead' /\ R!VerdictRight'
    BY <1>0, <2>1, <2>2 DEF HeadRead, BodyRead, R!VerdictRight
  <2>6. CASE R!LineStatus = "OPEN" /\ r_result' = "NO_REQUEST" /\ r_pc' = "recv"
    <3>1. r_m_read_idx = 0 \/ (r_m_read_idx = 1 /\ At(0) = "CR")
      <4>1. 0 = r_m_read_idx \/ (r_m_read_buf[0] = "CR" /\ 0 + 1 = r_m_read_idx)
        BY <1>2, <2>6 DEF R!LineStatus
      <4>2. r_m_read_idx = 1 => r_m_read_buf[0] = At(0)
        BY <1>0 DEF Unchecked
      <4> QED
        BY <4>1, <4>2
    <3>2. WholeLines(0, 0) /\ 0 \in 0..r_m_read_idx /\ 0 \in 0..0
      BY <1>1 DEF WholeLines
    <3>3. ~R!Complete(R!Received) /\ ~R!BadRequestLine(R!Received) /\ ~R!BadLineEnd(R!Received)
      BY <3>1, <3>2, OpenIsFine
    <3>4. R!WaitJustified'
      BY <1>0, <3>3, SameReference DEF R!WaitJustified
    <3>5. Chap8Waits'
      BY <1>0, <2>1, <3>1, SameLines DEF Chap8Waits
    <3> QED
      BY <2>3, <2>4, <2>5, <2>6, <3>4, <3>5
  <2>7. CASE r_result' = "BAD_REQUEST" /\ r_pc' = "done"
    BY <2>3, <2>4, <2>5, <2>7 DEF Chap8Waits, R!WaitJustified
  <2> QED
    BY <2>2, <2>6, <2>7
<1>5. CASE R!RequestLine
  <2>1. R!LineStatus = "OK" /\ ~R!AtLF
    BY <1>2, <1>5 DEF R!RequestLine, R!LineFound, R!TakesLine, R!AtLF
  <2>2. R!AtCR /\ r_m_read_buf[0] = "CR" /\ 1 < r_m_read_idx
    BY <1>2, <2>1 DEF R!LineStatus, R!AtCR
  <2>3. r_m_checked_idx' = 2 /\ r_m_start_line' = 2
    BY <1>2, <1>5, <2>2 DEF R!RequestLine, R!LineFound, R!TakesLine
  <2>4. r_m_read_buf' = r_m_read_buf
    <3>1. r_m_read_buf' = [i \in R!Index |-> r_m_read_buf[i]]
      BY <1>0, <1>5, <2>2 DEF R!RequestLine, R!LineFound, R!TakesLine, R!Overwritten
    <3> QED
      BY <1>1, <3>1
  <2>5. R!Text # <<"R">>
    <3> SUFFICES ASSUME R!Text = <<"R">> PROVE FALSE
      OBVIOUS
    <3> DEFINE nuls == {j \in 0..(READ_BUFFER_SIZE - 1) : r_m_read_buf[j] = "NUL"}
               last == IF nuls = {} THEN READ_BUFFER_SIZE ELSE R!First(nuls)
    <3>1. R!Text = [x \in 1..(last - 0) |-> r_m_read_buf[0 + x - 1]]
      BY <1>0, <2>4 DEF R!Text, R!TextFrom
    <3>2. last \in Nat
      <4>1. nuls \in SUBSET Nat
        BY <1>1
      <4>2. nuls # {} => R!First(nuls) \in nuls
        <5> HIDE DEF nuls
        <5> QED
          BY <4>1, Least
      <4> HIDE DEF nuls
      <4> QED
        BY <1>1, <4>1, <4>2
    <3> HIDE DEF last
    <3>3. PICK w : w = R!Text
      OBVIOUS
    <3>4. w = <<"R">>
      BY <3>3, Zenon
    <3>5. DOMAIN w = 1..1 /\ w[1] = "R"
      BY <3>4
    <3>6. DOMAIN w = 1..last /\ (1 \in 1..last => w[1] = r_m_read_buf[0])
      BY <3>1, <3>2, <3>3
    <3> QED
      BY <2>2, <3>5, <3>6
  <2>6. r_result' = "BAD_REQUEST" /\ r_pc' = "done" /\ r_m_check_state' = r_m_check_state
    BY <1>5, <2>5 DEF R!RequestLine, R!Return
  <2>7. Types'
    BY <1>0, <1>1, <1>3, <2>2, <2>3, <2>4, <2>6 DEF Types
  <2>8. Unchecked'
    BY <1>0, <1>1, <2>2, <2>3, <2>4, SameLines DEF Unchecked
  <2>9. HeadRead' /\ BodyRead' /\ Chap8Waits' /\ R!VerdictRight' /\ R!WaitJustified'
    BY <1>0, <2>6 DEF HeadRead, BodyRead, Chap8Waits, R!VerdictRight, R!WaitJustified
  <2> QED
    BY <2>6, <2>7, <2>8, <2>9
<1> QED
  BY <1>0, <1>4, <1>5

(* Every step keeps the invariant. *)
LEMMA ParseInvNext ==
  ASSUME R!HttpParseAssumption, ParseInv, [R!Next]_(R!vars)
  PROVE  ParseInv'
<1>1. CASE UNCHANGED R!vars
  <2>1. /\ UNCHANGED <<r_program, r_input, r_m_read_buf, r_m_read_idx, r_m_checked_idx, r_m_start_line,
                       r_m_check_state, r_m_content_length, r_line_status, r_pc, r_result>>
        /\ r_bodySplit' = r_bodySplit
    BY <1>1 DEF R!vars, R!fixedVars
  <2>2. Types'
    <3>1. r_bodySplit' \in BOOLEAN
      BY <2>1, Zenon DEF ParseInv, Types
    <3> QED
      BY <2>1, <3>1 DEF ParseInv, Types
  <2>3. Unchecked'
    BY <2>1, SameLines DEF ParseInv, Unchecked
  <2>4. HeadRead'
    <3>1. HeadSoFar => HeadSoFar'
      BY <2>1 DEF HeadSoFar, WholeLines, Whole, EndAt, At, Requested
    <3> QED
      BY <2>1, <3>1 DEF ParseInv, HeadRead
  <2>5. BodyRead' /\ Chap8Waits'
    <3>1. \A h : BodyAt(h) => BodyAt(h)'
      BY <2>1, SameLines DEF BodyAt
    <3> QED
      BY <2>1, <3>1, SameLines DEF ParseInv, BodyRead, Chap8Waits
  <2>6. R!VerdictRight' /\ R!WaitJustified'
    BY <2>1, SameReference DEF ParseInv, R!VerdictRight, R!WaitJustified
  <2> QED
    BY <2>1, <2>2, <2>3, <2>4, <2>5, <2>6 DEF ParseInv
<1>2. CASE R!Receives
  BY <1>2, ParseInvReceives DEF R!Receives
<1>3. CASE r_program = "chap8" /\ ~R!Receives /\ R!Next
  BY <1>3, ParseInvChap8 DEF R!Next
<1>4. CASE r_program # "chap8" /\ ~R!Receives /\ R!Next
  <2>1. CASE R!HttpConnNoLine \/ R!ParserNoLine
    <3>1. R!ParserNoLine => r_m_check_state # "CONTENT"
      BY DEF R!ParserNoLine, ParseInv, BodyRead, R!Turn
    <3> QED
      BY <1>4, <2>1, <3>1, ParseInvNoLine, ParseInvNoLineInBody
  <2>2. CASE R!RequestLine
    BY <1>4, <2>2, ParseInvRequestLine
  <2>3. CASE R!HttpConnHeader \/ R!ParserHeader
    BY <1>4, <2>3, ParseInvHeader
  <2>4. CASE R!Content
    BY <1>4, <2>4, ParseInvContent
  <2> QED
    BY <1>4, <2>1, <2>2, <2>3, <2>4 DEF R!Next
<1> QED
  BY <1>1, <1>2, <1>3, <1>4 DEF R!Next
-----------------------------------------------------------------------------
(* do_request, process_write and write.                                     *)

(* What can be sent: of a header, and of the files of connections. *)
Unit == ({"m_write_buf"} \cup Conn) \X Int

(* An iovec: a place in memory, or m_write_buf, and how much of it. *)
Iovec == [base : W!Page \cup {0, W!MAP_FAILED}, len : Nat]

(* Of the objects and of memory. *)
ObjectTypes ==
  /\ w_phase \in [Conn -> {"closed", "read", "write"}]
  /\ w_m_linger \in [Conn -> BOOLEAN]
  /\ w_m_write_idx \in [Conn -> {0, HeaderLength}]
  /\ w_m_iv \in [Conn -> Seq(Iovec)] /\ \A c \in Conn : Len(w_m_iv[c]) = 2
  /\ w_m_iv_count \in [Conn -> 1..2]
  /\ w_m_file_address \in [Conn -> W!Page \cup {0, W!MAP_FAILED}]
  /\ w_st_size \in [Conn -> Nat]

MemoryTypes ==
  /\ w_owner \in [W!Page -> Conn \cup {NoConn}]
  /\ w_length \in [Conn -> Nat]
  /\ w_abandoned \in SUBSET Conn
  /\ w_robbed \in SUBSET Conn
  /\ \A c \in Conn : W!Pages(w_m_file_address[c], w_length[c]) \subseteq W!Page

WriteTypes ==
  /\ w_writing \in Conn \cup {NoConn}
  /\ w_tested \in BOOLEAN
  /\ w_bytes_to_send \in Int /\ w_bytes_have_send \in Nat
  /\ w_response \in [Conn -> Seq(Unit)]
  /\ w_split \in [Conn -> BOOLEAN]

(* A file that is mapped without being sent, or not with the size of its    *)
(* mapping, was left behind by a hang-up.                                   *)
LeftByHangup ==
  \A c \in Conn : w_m_file_address[c] > 0 /\ c \notin w_abandoned =>
    w_phase[c] = "write" /\ w_st_size[c] = w_length[c]

(* The iovecs of c lead to its answer: a header, alone or with a file.      *)
LaidOut(c) ==
  /\ w_m_iv[c][1] = W!Buffer
  /\ \/ w_m_iv_count[c] = 1 /\ w_response[c] = W!Header
     \/ /\ w_m_iv_count[c] = 2 /\ w_m_iv[c][2].base # 0
        /\ w_response[c] = W!Header \o W!File(c, w_m_iv[c][2].base, w_m_iv[c][2].len)

(* The connection that is written to has an answer.                         *)
AnswerLaidOut ==
  /\ w_writing # NoConn => w_phase[w_writing] = "write"
  /\ \A c \in Conn : w_phase[c] = "write" => LaidOut(c)

(* What was counted is the header, and what was taken is as long as a       *)
(* beginning of the answer, all of it unless a writev was cut short, and is *)
(* that beginning unless the connection was robbed.                         *)
TakenFromStart ==
  w_writing # NoConn =>
    /\ w_bytes_to_send + w_bytes_have_send = w_m_write_idx[w_writing]
    /\ w_tested => \E n \in 1..Len(w_response[w_writing]) :
         /\ w_writing \notin w_robbed => w_taken = SubSeq(w_response[w_writing], 1, n)
         /\ n = Len(w_response[w_writing]) \/ w_split[w_writing]

ResponseInv == WriteTypes /\ AnswerLaidOut /\ TakenFromStart

(* The objects are well typed at the start ... *)
LEMMA ObjectTypesInit == ASSUME W!HttpWriteAssumption, W!Init PROVE ObjectTypes
<1>1. W!Buffer \in Iovec
  BY DEF W!Buffer, Iovec, W!HttpWriteAssumption
<1>2. <<W!Buffer, W!Buffer>> \in Seq(Iovec) /\ Len(<<W!Buffer, W!Buffer>>) = 2
  <2> HIDE DEF W!Buffer
  <2> QED
    BY <1>1
<1> HIDE DEF W!Buffer
<1> QED
  BY <1>2 DEF W!Init, ObjectTypes, W!HttpWriteAssumption

(* ... after init has emptied one ... *)
LEMMA ObjectTypesEmptied ==
  ASSUME W!HttpWriteAssumption, ObjectTypes, NEW c \in Conn, W!Emptied(c),
         w_phase' \in [Conn -> {"closed", "read", "write"}],
         w_m_file_address' \in [Conn -> W!Page \cup {0, W!MAP_FAILED}],
         w_st_size' \in [Conn -> Nat]
  PROVE  ObjectTypes'
<1>1. W!Buffer \in Iovec
  BY DEF W!Buffer, Iovec, W!HttpWriteAssumption
<1>2. <<W!Buffer, W!Buffer>> \in Seq(Iovec) /\ Len(<<W!Buffer, W!Buffer>>) = 2
  <2> HIDE DEF W!Buffer
  <2> QED
    BY <1>1
<1> HIDE DEF W!Buffer
<1>3. w_m_iv' \in [Conn -> Seq(Iovec)] /\ \A d \in Conn : Len(w_m_iv'[d]) = 2
  BY <1>2 DEF W!Emptied, ObjectTypes
<1>4. /\ w_m_iv_count' \in [Conn -> 1..2]
      /\ w_m_linger' \in [Conn -> BOOLEAN]
      /\ w_m_write_idx' \in [Conn -> {0, HeaderLength}]
  BY DEF W!Emptied, ObjectTypes
<1> QED
  BY <1>3, <1>4 DEF ObjectTypes

(* ... and after an answer is laid out in one, with whatever iovecs. *)
LEMMA ObjectTypesCompose ==
  ASSUME W!HttpWriteAssumption, ObjectTypes, NEW c \in Conn, NEW linger \in BOOLEAN,
         NEW iv \in Seq(Iovec), Len(iv) = 2, NEW count \in 1..2,
         W!Compose(c, linger, iv, count),
         w_m_file_address' \in [Conn -> W!Page \cup {0, W!MAP_FAILED}],
         w_st_size' \in [Conn -> Nat]
  PROVE  ObjectTypes'
BY DEF W!Compose, ObjectTypes, W!HttpWriteAssumption

(* mmap leaves memory and the objects well typed ... *)
LEMMA MmapTypes ==
  ASSUME W!HttpWriteAssumption, ObjectTypes, MemoryTypes, NEW c \in Conn, NEW size \in Nat,
         NEW address \in W!Page \cup {W!MAP_FAILED}, W!Mmap(c, address, size)
  PROVE  /\ w_m_file_address' \in [Conn -> W!Page \cup {0, W!MAP_FAILED}]
         /\ w_st_size' \in [Conn -> Nat]
         /\ MemoryTypes'
<1>0. /\ w_m_file_address \in [Conn -> W!Page \cup {0, W!MAP_FAILED}]
      /\ w_st_size \in [Conn -> Nat] /\ w_length \in [Conn -> Nat]
  BY DEF ObjectTypes, MemoryTypes
<1>1. /\ w_m_file_address' \in [Conn -> W!Page \cup {0, W!MAP_FAILED}]
      /\ w_st_size' \in [Conn -> Nat]
      /\ w_length' \in [Conn -> Nat]
  BY <1>0 DEF W!Mmap
<1>2. w_owner' \in [W!Page -> Conn \cup {NoConn}]
  BY DEF W!Mmap, MemoryTypes
<1>3. ASSUME NEW d \in Conn PROVE W!Pages(w_m_file_address'[d], w_length'[d]) \subseteq W!Page
  BY DEF W!Mmap, ObjectTypes, MemoryTypes, W!Pages, W!Page, W!MAP_FAILED
<1>4. w_abandoned' \in SUBSET Conn /\ w_robbed' \in SUBSET Conn
  BY DEF W!Mmap, MemoryTypes
<1> QED
  BY <1>1, <1>2, <1>3, <1>4 DEF MemoryTypes

(* ... and so does unmap. *)
LEMMA UnmapTypes ==
  ASSUME W!HttpWriteAssumption, ObjectTypes, MemoryTypes, NEW c \in Conn, W!Unmap(c)
  PROVE  /\ w_m_file_address' \in [Conn -> W!Page \cup {0, W!MAP_FAILED}]
         /\ w_st_size' \in [Conn -> Nat]
         /\ MemoryTypes'
<1>1. ASSUME NEW d \in Conn PROVE W!Pages(w_m_file_address'[d], w_length'[d]) \subseteq W!Page
  BY DEF W!Unmap, ObjectTypes, MemoryTypes, W!Pages
<1>2. w_robbed' \in SUBSET Conn
  BY DEF W!Unmap, MemoryTypes
<1>3. w_owner' \in [W!Page -> Conn \cup {NoConn}]
  BY DEF W!Unmap, MemoryTypes
<1> QED
  BY <1>1, <1>2, <1>3 DEF W!Unmap, ObjectTypes, MemoryTypes

(* The error page leaves the second iovec as it was. *)
LEMMA ErrorPageTypes ==
  ASSUME W!HttpWriteAssumption, ObjectTypes, NEW c \in Conn
  PROVE  /\ [w_m_iv[c] EXCEPT ![1] = W!Buffer] \in Seq(Iovec)
         /\ Len([w_m_iv[c] EXCEPT ![1] = W!Buffer]) = 2
         /\ [w_m_iv[c] EXCEPT ![1] = W!Buffer][1] = W!Buffer
<1>1. W!Buffer \in Iovec
  BY DEF W!Buffer, Iovec, W!HttpWriteAssumption
<1>2. w_m_iv[c] \in Seq(Iovec) /\ Len(w_m_iv[c]) = 2
  BY DEF ObjectTypes
<1> HIDE DEF W!Buffer
<1> QED
  BY <1>1, <1>2, ExceptSeq

(* The iovecs of a header and a file. *)
LEMMA ServeFileTypes ==
  ASSUME W!HttpWriteAssumption, NEW address \in W!Page \cup {W!MAP_FAILED}, NEW size \in Nat
  PROVE  /\ <<W!Buffer, [base |-> address, len |-> size]>> \in Seq(Iovec)
         /\ Len(<<W!Buffer, [base |-> address, len |-> size]>>) = 2
<1> DEFINE b == W!Buffer
           f == [base |-> address, len |-> size]
<1>1. b \in Iovec /\ f \in Iovec
  BY DEF W!Buffer, Iovec, W!HttpWriteAssumption
<1> HIDE DEF b, f
<1>2. <<b, f>> \in Seq(Iovec) /\ Len(<<b, f>>) = 2
  BY <1>1
<1> QED
  BY <1>2 DEF b, f

(* The parts of MappingsOwned. *)
PagesKnown ==
  \A p \in W!Page : w_owner[p] # NoConn /\ w_owner[p] \notin w_abandoned =>
    p \in W!Pages(w_m_file_address[w_owner[p]], w_length[w_owner[p]])

PagesOwned ==
  \A c \in Conn \ w_robbed : \A p \in W!Pages(w_m_file_address[c], w_length[c]) : w_owner[p] = c

FileToSend ==
  \A c \in Conn :
    w_phase[c] = "write" /\ w_m_iv_count[c] = 2 /\ w_m_iv[c][2].base # W!MAP_FAILED =>
      w_m_iv[c][2] = [base |-> w_m_file_address[c], len |-> w_length[c]]

RobbedAfterHangup == w_robbed # {} => w_abandoned # {}

(* The parts of the invariant that are the property. *)
LEMMA MappingsOwnedParts ==
  PagesKnown /\ RobbedAfterHangup /\ PagesOwned /\ FileToSend => W!MappingsOwned
BY DEF PagesKnown, RobbedAfterHangup, PagesOwned, FileToSend, W!MappingsOwned

(* The inductive invariant of the mapped files. *)
MapInv ==
  /\ ObjectTypes /\ MemoryTypes /\ LeftByHangup
  /\ PagesKnown /\ RobbedAfterHangup /\ PagesOwned /\ FileToSend

(* A step that maps and unmaps nothing. *)
LEMMA MapInvUnmoved ==
  ASSUME W!HttpWriteAssumption, MapInv, ObjectTypes', LeftByHangup', FileToSend',
         UNCHANGED <<w_m_file_address, w_owner, w_length, w_robbed>>,
         w_abandoned \subseteq w_abandoned', w_abandoned' \subseteq Conn
  PROVE  MapInv'
BY DEF MapInv, MemoryTypes, PagesKnown, RobbedAfterHangup, PagesOwned

(* A file is mapped on pages that were free. *)
LEMMA MapInvMmap ==
  ASSUME W!HttpWriteAssumption, MapInv, NEW c \in Conn, NEW size \in Nat,
         NEW address \in W!Page \cup {W!MAP_FAILED}, W!Mmap(c, address, size),
         w_phase[c] = "read"
  PROVE  PagesKnown' /\ PagesOwned' /\ RobbedAfterHangup'
<1> USE DEF MapInv, ObjectTypes, MemoryTypes
<1>0. w_m_file_address[c] > 0 => c \in w_abandoned
  BY DEF LeftByHangup
<1>1. PagesKnown'
  <2> SUFFICES ASSUME NEW p \in W!Page, w_owner'[p] # NoConn, w_owner'[p] \notin w_abandoned
               PROVE  p \in W!Pages(w_m_file_address'[w_owner'[p]], w_length'[w_owner'[p]])
    BY DEF PagesKnown, W!Mmap
  <2>1. CASE address = W!MAP_FAILED
    <3>1. w_owner' = w_owner /\ w_owner[p] \in Conn
      BY <2>1 DEF W!Mmap, W!Page, W!MAP_FAILED, W!HttpWriteAssumption
    <3>2. p \in W!Pages(w_m_file_address[w_owner[p]], w_length[w_owner[p]])
      BY <3>1 DEF PagesKnown
    <3>3. w_owner[p] # c
      BY <1>0, <3>1, <3>2 DEF W!Pages
    <3> QED
      BY <3>1, <3>2, <3>3, <2>1 DEF W!Mmap, W!Page, W!MAP_FAILED, W!HttpWriteAssumption
  <2>2. CASE address # W!MAP_FAILED
    <3>1. /\ w_owner' = [q \in W!Page |-> IF q \in W!Pages(address, size) THEN c ELSE w_owner[q]]
          /\ w_length' = [w_length EXCEPT ![c] = size]
          /\ w_m_file_address' = [w_m_file_address EXCEPT ![c] = address]
      BY <2>2 DEF W!Mmap
    <3>2. CASE p \in W!Pages(address, size)
      BY <3>1, <3>2
    <3>3. CASE p \notin W!Pages(address, size)
      <4>1. w_owner'[p] = w_owner[p] /\ p \in W!Pages(w_m_file_address[w_owner[p]], w_length[w_owner[p]])
        BY <3>1, <3>3 DEF PagesKnown
      <4>2. w_owner[p] # c
        BY <1>0, <4>1 DEF W!Pages
      <4> QED
        BY <4>1, <4>2, <3>1
    <3> QED
      BY <3>2, <3>3
  <2> QED
    BY <2>1, <2>2
<1>2. PagesOwned'
  <2> SUFFICES ASSUME NEW d \in Conn, d = c \/ d \notin w_robbed,
                      NEW p \in W!Pages(w_m_file_address'[d], w_length'[d])
               PROVE  w_owner'[p] = d
    BY DEF PagesOwned, W!Mmap
  <2>1. CASE d = c
    BY <2>1 DEF W!Mmap, W!Pages, W!Page, W!MAP_FAILED, W!HttpWriteAssumption
  <2>2. CASE d # c
    <3>1. p \in W!Pages(w_m_file_address[d], w_length[d])
      BY <2>2 DEF W!Mmap
    <3>2. w_owner[p] = d
      BY <2>2, <3>1 DEF PagesOwned
    <3>3. p \in W!Page /\ w_owner[p] # NoConn
      BY <3>1, <3>2 DEF W!HttpWriteAssumption
    <3> QED
      BY <3>2, <3>3 DEF W!Mmap
  <2> QED
    BY <2>1, <2>2
<1>3. RobbedAfterHangup'
  BY DEF RobbedAfterHangup, W!Mmap
<1> QED
  BY <1>1, <1>2, <1>3

(* A file is unmapped with the size it was mapped with, as long as nobody   *)
(* has hung up; whose pages are taken otherwise is known to be robbed.      *)
LEMMA MapInvUnmap ==
  ASSUME W!HttpWriteAssumption, MapInv, NEW c \in Conn, W!Unmap(c), w_phase[c] = "write"
  PROVE  PagesKnown' /\ PagesOwned' /\ RobbedAfterHangup'
<1> USE DEF MapInv, ObjectTypes, MemoryTypes
<1>0. w_m_file_address[c] > 0 /\ c \notin w_abandoned => w_st_size[c] = w_length[c]
  BY DEF LeftByHangup
<1>1. RobbedAfterHangup'
  <2> SUFFICES ASSUME w_abandoned = {}, NEW d \in w_robbed' PROVE FALSE
    BY DEF RobbedAfterHangup, W!Unmap
  <2>1. w_robbed = {}
    BY DEF RobbedAfterHangup
  <2>2. PICK p \in W!Pages(w_m_file_address[c], w_st_size[c]) \cap W!Page : d = w_owner[p] /\ d # c
    BY <2>1 DEF W!Unmap
  <2>3. p \in W!Pages(w_m_file_address[c], w_length[c])
    BY <1>0, <2>2 DEF W!Pages
  <2> QED
    BY <2>1, <2>2, <2>3 DEF PagesOwned
<1>2. PagesKnown'
  <2> SUFFICES ASSUME NEW p \in W!Page, w_owner'[p] # NoConn, w_owner'[p] \notin w_abandoned
               PROVE  p \in W!Pages(w_m_file_address'[w_owner'[p]], w_length'[w_owner'[p]])
    BY DEF PagesKnown, W!Unmap
  <2>1. w_owner'[p] = w_owner[p] /\ p \notin W!Pages(w_m_file_address[c], w_st_size[c])
    BY DEF W!Unmap
  <2>2. p \in W!Pages(w_m_file_address[w_owner[p]], w_length[w_owner[p]])
    BY <2>1 DEF PagesKnown
  <2>3. w_owner[p] # c
    BY <2>1, <2>2, <1>0 DEF W!Pages
  <2> QED
    BY <2>1, <2>2, <2>3 DEF W!Unmap
<1>3. PagesOwned'
  <2> SUFFICES ASSUME NEW d \in Conn \ w_robbed',
                      NEW p \in W!Pages(w_m_file_address'[d], w_length'[d])
               PROVE  w_owner'[p] = d
    BY DEF PagesOwned
  <2>1. d # c /\ p \in W!Pages(w_m_file_address[d], w_length[d])
    BY DEF W!Unmap, W!Pages
  <2>2. d \notin w_robbed /\ d # NoConn
    BY <2>1 DEF W!Unmap, W!HttpWriteAssumption
  <2>3. w_owner[p] = d /\ p \in W!Page
    BY <2>1, <2>2 DEF PagesOwned
  <2>4. p \notin W!Pages(w_m_file_address[c], w_st_size[c])
    BY <2>1, <2>2, <2>3 DEF W!Unmap
  <2> QED
    BY <2>3, <2>4 DEF W!Unmap
<1> QED
  BY <1>1, <1>2, <1>3

(* A session begins, or the client hangs up. *)
LEMMA MapInvSession ==
  ASSUME W!HttpWriteAssumption, MapInv, NEW c \in Conn, W!Accept(c) \/ W!Hangup(c)
  PROVE  MapInv'
<1> USE DEF MapInv, ObjectTypes
<1>1. ObjectTypes'
  <2>1. W!Emptied(c) /\ UNCHANGED <<w_m_file_address, w_st_size>>
    BY DEF W!Accept, W!Hangup, W!CloseConn
  <2>2. w_phase' \in [Conn -> {"closed", "read", "write"}]
    BY DEF W!Accept, W!Hangup, W!CloseConn
  <2> QED
    BY <2>1, <2>2, ObjectTypesEmptied
<1>2. UNCHANGED <<w_m_file_address, w_owner, w_length, w_robbed>>
  BY DEF W!Accept, W!Hangup, W!memoryVars
<1>3. w_abandoned \subseteq w_abandoned' /\ w_abandoned' \subseteq Conn
  BY DEF W!Accept, W!Hangup, W!memoryVars, MemoryTypes
<1>4. LeftByHangup'
  BY DEF W!Accept, W!Hangup, W!CloseConn, W!memoryVars, LeftByHangup, MemoryTypes
<1>5. FileToSend'
  BY DEF W!Accept, W!Hangup, W!CloseConn, W!Emptied, W!memoryVars, FileToSend
<1> QED
  BY <1>1, <1>2, <1>3, <1>4, <1>5, MapInvUnmoved

(* A request is answered. *)
LEMMA MapInvAnswer ==
  ASSUME W!HttpWriteAssumption, MapInv, NEW c \in Conn, W!Answer(c)
  PROVE  MapInv'
<1>1. ASSUME NEW linger \in BOOLEAN, NEW size \in Nat,
             W!Refuse(c, linger) \/ W!RefuseFile(c, linger, size)
      PROVE  MapInv'
  <2> DEFINE iv == [w_m_iv[c] EXCEPT ![1] = W!Buffer]
  <2>1. iv \in Seq(Iovec) /\ Len(iv) = 2 /\ W!Compose(c, linger, iv, 1)
    BY <1>1, ErrorPageTypes DEF MapInv, W!Refuse, W!RefuseFile, W!ErrorPage
  <2> HIDE DEF iv
  <2>2. w_m_file_address' = w_m_file_address /\ w_st_size' \in [Conn -> Nat]
    BY <1>1 DEF W!Refuse, W!RefuseFile, MapInv, ObjectTypes
  <2>3. ObjectTypes'
    BY <2>1, <2>2, ObjectTypesCompose DEF MapInv, ObjectTypes
  <2>4. UNCHANGED <<w_m_file_address, w_owner, w_length, w_robbed, w_abandoned>>
    BY <1>1 DEF W!Refuse, W!RefuseFile, W!memoryVars
  <2>5. w_phase[c] = "read" /\ (w_m_file_address[c] > 0 => c \in w_abandoned)
    BY <1>1 DEF W!Refuse, W!RefuseFile, MapInv, LeftByHangup
  <2>6. \A d \in Conn \ {c} : /\ w_phase'[d] = w_phase[d] /\ w_st_size'[d] = w_st_size[d]
                             /\ w_m_iv'[d] = w_m_iv[d] /\ w_m_iv_count'[d] = w_m_iv_count[d]
    BY <1>1, <2>1 DEF W!Compose, MapInv, ObjectTypes, W!Refuse, W!RefuseFile
  <2>7. LeftByHangup'
    BY <2>4, <2>5, <2>6 DEF MapInv, LeftByHangup
  <2>8. w_m_iv_count'[c] = 1
    BY <2>1 DEF W!Compose, MapInv, ObjectTypes
  <2>9. FileToSend'
    BY <2>4, <2>6, <2>8 DEF MapInv, FileToSend
  <2> QED
    BY <2>3, <2>4, <2>7, <2>9, MapInvUnmoved DEF MapInv, MemoryTypes
<1>2. ASSUME NEW linger \in BOOLEAN, NEW size \in Nat,
             NEW address \in W!Page \cup {W!MAP_FAILED}, W!ServeFile(c, linger, address, size)
      PROVE  MapInv'
  <2> DEFINE iv == <<W!Buffer, [base |-> address, len |-> size]>>
  <2>1. iv \in Seq(Iovec) /\ Len(iv) = 2 /\ W!Compose(c, linger, iv, 2)
    BY <1>2, ServeFileTypes DEF W!ServeFile
  <2>2. iv[2] = [base |-> address, len |-> size]
    OBVIOUS
  <2> HIDE DEF iv
  <2>3. W!Mmap(c, address, size) /\ w_phase[c] = "read"
    BY <1>2 DEF W!ServeFile
  <2>4. /\ w_m_file_address' \in [Conn -> W!Page \cup {0, W!MAP_FAILED}]
        /\ w_st_size' \in [Conn -> Nat]
        /\ MemoryTypes'
    BY <2>3, MmapTypes DEF MapInv
  <2>5. ObjectTypes'
    BY <2>1, <2>4, ObjectTypesCompose DEF MapInv
  <2>6. PagesKnown' /\ PagesOwned' /\ RobbedAfterHangup'
    BY <2>3, MapInvMmap
  <2>7. \A d \in Conn \ {c} :
          /\ w_phase'[d] = w_phase[d] /\ w_st_size'[d] = w_st_size[d] /\ w_length'[d] = w_length[d]
          /\ w_m_file_address'[d] = w_m_file_address[d]
          /\ w_m_iv'[d] = w_m_iv[d] /\ w_m_iv_count'[d] = w_m_iv_count[d]
    BY <2>1, <2>3 DEF W!Compose, W!Mmap, MapInv, ObjectTypes, MemoryTypes
  <2>8. w_phase'[c] = "write" /\ w_m_iv'[c] = iv /\ w_m_file_address'[c] = address
    BY <2>1, <2>3 DEF W!Compose, W!Mmap, MapInv, ObjectTypes
  <2>9. address # W!MAP_FAILED => w_st_size'[c] = size /\ w_length'[c] = size
    BY <2>3 DEF W!Mmap, MapInv, ObjectTypes, MemoryTypes
  <2>10. LeftByHangup'
    <3>1. w_abandoned' = w_abandoned
      BY <2>3 DEF W!Mmap
    <3> QED
      BY <2>7, <2>8, <2>9, <3>1 DEF MapInv, LeftByHangup, W!MAP_FAILED
  <2>11. FileToSend'
    BY <2>2, <2>7, <2>8, <2>9 DEF MapInv, FileToSend
  <2> QED
    BY <2>4, <2>5, <2>6, <2>10, <2>11 DEF MapInv
<1>3. CASE W!EmptyFile(c)
  <2>1. W!Mmap(c, W!MAP_FAILED, 0) /\ w_phase[c] = "read"
    BY <1>3 DEF W!EmptyFile
  <2>2. /\ w_m_file_address' \in [Conn -> W!Page \cup {0, W!MAP_FAILED}]
        /\ w_st_size' \in [Conn -> Nat]
        /\ MemoryTypes'
    BY <2>1, MmapTypes DEF MapInv
  <2>3. W!Emptied(c) /\ w_phase' = [w_phase EXCEPT ![c] = "closed"]
    BY <1>3 DEF W!EmptyFile, W!CloseConn
  <2>4. ObjectTypes'
    BY <2>2, <2>3, ObjectTypesEmptied DEF MapInv, ObjectTypes
  <2>5. PagesKnown' /\ PagesOwned' /\ RobbedAfterHangup'
    BY <2>1, MapInvMmap
  <2>6. /\ \A d \in Conn \ {c} :
             /\ w_phase'[d] = w_phase[d] /\ w_st_size'[d] = w_st_size[d] /\ w_length'[d] = w_length[d]
             /\ w_m_file_address'[d] = w_m_file_address[d]
             /\ w_m_iv'[d] = w_m_iv[d] /\ w_m_iv_count'[d] = w_m_iv_count[d]
        /\ w_phase'[c] = "closed" /\ w_m_file_address'[c] = W!MAP_FAILED
    BY <2>1, <2>3 DEF W!Emptied, W!Mmap, MapInv, ObjectTypes, MemoryTypes
  <2>7. LeftByHangup'
    <3>1. w_abandoned' = w_abandoned
      BY <2>1 DEF W!Mmap
    <3> QED
      BY <2>6, <3>1 DEF MapInv, LeftByHangup, W!MAP_FAILED
  <2>8. FileToSend'
    BY <2>6 DEF MapInv, FileToSend
  <2> QED
    BY <2>2, <2>4, <2>5, <2>7, <2>8 DEF MapInv
<1>4. 0..MaxSize \subseteq Nat /\ 1..MaxSize \subseteq Nat
  BY DEF W!HttpWriteAssumption
<1> QED
  BY <1>1, <1>2, <1>3, <1>4 DEF W!Answer

(* write() begins, goes on, or waits. *)
LEMMA MapInvWriting ==
  ASSUME W!HttpWriteAssumption, MapInv, NEW c \in Conn,
         \/ W!Write(c) \/ W!SocketFull(c) \/ W!KeepWriting(c)
         \/ \E n \in 1..(HeaderLength + MaxSize) : W!Writev(c, n)
  PROVE  MapInv'
<1>1. UNCHANGED <<w_phase, W!objectVars, W!memoryVars>>
  BY DEF W!Write, W!SocketFull, W!KeepWriting, W!Writev
<1> QED
  BY <1>1 DEF W!objectVars, W!memoryVars, MapInv, ObjectTypes, MemoryTypes, LeftByHangup,
              PagesKnown, RobbedAfterHangup, PagesOwned, FileToSend

(* write() is done with the answer, or gives up. *)
LEMMA MapInvWritten ==
  ASSUME W!HttpWriteAssumption, MapInv, NEW c \in Conn, W!WritevFails(c) \/ W!WriteDone(c),
         w_phase[c] = "write"
  PROVE  MapInv'
<1>1. W!Unmap(c) /\ W!Emptied(c)
  BY DEF W!WritevFails, W!WriteDone, W!CloseConn
<1>2. \E p \in {"closed", "read"} : w_phase' = [w_phase EXCEPT ![c] = p]
  BY DEF W!WritevFails, W!WriteDone, W!CloseConn
<1>3. /\ w_m_file_address' \in [Conn -> W!Page \cup {0, W!MAP_FAILED}]
      /\ w_st_size' \in [Conn -> Nat]
      /\ MemoryTypes'
  BY <1>1, UnmapTypes DEF MapInv
<1>4. ObjectTypes'
  <2>1. w_phase' \in [Conn -> {"closed", "read", "write"}]
    BY <1>2 DEF MapInv, ObjectTypes
  <2> QED
    BY <1>1, <1>3, <2>1, ObjectTypesEmptied DEF MapInv
<1>5. PagesKnown' /\ PagesOwned' /\ RobbedAfterHangup'
  BY <1>1, MapInvUnmap
<1>6. /\ \A d \in Conn \ {c} :
           /\ w_phase'[d] = w_phase[d] /\ w_st_size'[d] = w_st_size[d] /\ w_length'[d] = w_length[d]
           /\ w_m_file_address'[d] = w_m_file_address[d]
           /\ w_m_iv'[d] = w_m_iv[d] /\ w_m_iv_count'[d] = w_m_iv_count[d]
      /\ w_phase'[c] # "write" /\ w_m_file_address'[c] = 0
  BY <1>1, <1>2 DEF W!Emptied, W!Unmap, MapInv, ObjectTypes, MemoryTypes
<1>7. LeftByHangup'
  BY <1>1, <1>6 DEF W!Unmap, MapInv, LeftByHangup
<1>8. FileToSend'
  BY <1>6 DEF MapInv, FileToSend
<1> QED
  BY <1>3, <1>4, <1>5, <1>7, <1>8 DEF MapInv

(* What a connection wants sent is a sequence of units. *)
LEMMA AnswerTypes ==
  ASSUME W!HttpWriteAssumption, NEW c \in Conn, NEW address \in Int, NEW size \in Nat
  PROVE  /\ W!Header \in Seq(Unit) /\ Len(W!Header) = HeaderLength
         /\ W!Units(W!Buffer) = W!Header
         /\ W!File(c, address, size) \in Seq(Unit) /\ Len(W!File(c, address, size)) = size
         /\ W!Header \o W!File(c, address, size) \in Seq(Unit)
         /\ Len(W!Header \o W!File(c, address, size)) = HeaderLength + size
<1>1. W!Header \in Seq(Unit) /\ Len(W!Header) = HeaderLength
  BY DEF W!Header, Unit, W!HttpWriteAssumption
<1>2. W!Units(W!Buffer) = W!Header
  BY DEF W!Units, W!Buffer, W!Header
<1>3. W!File(c, address, size) \in Seq(Unit) /\ Len(W!File(c, address, size)) = size
  BY DEF W!File, Unit
<1> HIDE DEF Unit
<1> QED
  BY <1>1, <1>2, <1>3

(* What writev is given, when it does not fault, is as long as the answer   *)
(* of its connection, and is the answer unless the connection was robbed.   *)
LEMMA GivenIs ==
  ASSUME W!HttpWriteAssumption, MapInv, NEW c \in Conn, w_phase[c] = "write", LaidOut(c), ~W!Faults(c)
  PROVE  /\ Len(W!Given(w_m_iv[c], w_m_iv_count[c])) = Len(w_response[c])
         /\ c \notin w_robbed => W!Given(w_m_iv[c], w_m_iv_count[c]) = w_response[c]
<1>1. CASE w_m_iv_count[c] = 1
  <2>1. W!Units(W!Buffer) = W!Header
    BY DEF W!Units, W!Buffer, W!Header
  <2> QED
    BY <1>1, <2>1 DEF LaidOut, W!Given
<1>2. CASE w_m_iv_count[c] = 2
  <2>1. PICK iv : iv = w_m_iv[c][2]
    OBVIOUS
  <2>2. iv \in Iovec
    <3>1. w_m_iv[c] \in Seq(Iovec) /\ Len(w_m_iv[c]) = 2
      BY DEF MapInv, ObjectTypes
    <3> QED
      BY <2>1, <3>1, ElementOfSeq
  <2>3. iv.base # W!MAP_FAILED /\ \A p \in W!Pages(iv.base, iv.len) : p \in W!Page /\ w_owner[p] # NoConn
    BY <1>2, <2>1 DEF W!Faults
  <2>4. iv.base # 0 /\ iv.base \in W!Page /\ iv.base \in Nat /\ iv.len \in Nat /\ iv.base > 0
    BY <1>2, <2>1, <2>2, <2>3 DEF LaidOut, Iovec, W!Page, W!HttpWriteAssumption
  <2>5. iv = [base |-> w_m_file_address[c], len |-> w_length[c]]
    BY <1>2, <2>1, <2>3 DEF MapInv, FileToSend
  <2> DEFINE u == W!Units(iv)
             f == W!File(c, iv.base, iv.len)
  <2>6. u = [n \in 1..iv.len |-> <<w_owner[iv.base + n - 1], iv.base + n - 1>>]
    BY <2>4 DEF W!Units
  <2>7. \A n \in 1..iv.len : w_owner[iv.base + n - 1] \in Conn /\ iv.base + n - 1 \in W!Pages(iv.base, iv.len)
    <3> TAKE n \in 1..iv.len
    <3>1. iv.base + n - 1 \in W!Pages(iv.base, iv.len)
      BY <2>4 DEF W!Pages
    <3> QED
      BY <2>3, <3>1 DEF MapInv, MemoryTypes
  <2>8. u \in Seq(Unit) /\ Len(u) = iv.len
    <3>1. \A n \in 1..iv.len : <<w_owner[iv.base + n - 1], iv.base + n - 1>> \in Unit
      BY <2>4, <2>7 DEF Unit
    <3> HIDE DEF Unit
    <3> QED
      BY <2>4, <2>6, <3>1
  <2>9. c \notin w_robbed => u = f
    <3> SUFFICES ASSUME c \notin w_robbed PROVE u = f
      OBVIOUS
    <3>1. \A n \in 1..iv.len : w_owner[iv.base + n - 1] = c
      BY <2>5, <2>7 DEF MapInv, PagesOwned
    <3> QED
      BY <2>6, <3>1 DEF W!File
  <2>10. /\ W!Header \in Seq(Unit) /\ Len(W!Header) = HeaderLength /\ W!Units(W!Buffer) = W!Header
         /\ Len(W!Header \o f) = HeaderLength + iv.len
    BY <2>4, AnswerTypes
  <2>11. W!Given(w_m_iv[c], w_m_iv_count[c]) = W!Header \o u
    BY <1>2, <2>1, <2>10 DEF W!Given, LaidOut
  <2>12. w_response[c] = W!Header \o f
    BY <1>2, <2>1 DEF LaidOut
  <2> HIDE DEF u, f
  <2>13. Len(W!Header \o u) = HeaderLength + iv.len
    BY <2>8, <2>10
  <2> QED
    BY <2>9, <2>10, <2>11, <2>12, <2>13
<1> QED
  BY <1>1, <1>2 DEF MapInv, ObjectTypes

(* A prefix of a sequence, and the longest of them. *)
LEMMA GivenPrefix ==
  ASSUME NEW s \in Seq(Unit), NEW n \in 1..Len(s)
  PROVE  /\ \A k \in 1..Len(SubSeq(s, 1, n)) : k \in 1..Len(s) /\ SubSeq(s, 1, n)[k] = s[k]
         /\ SubSeq(s, 1, Len(s)) = s
  OBVIOUS

(* Nothing is answered at the start. *)
LEMMA ResponseInvInit == ASSUME W!HttpWriteAssumption, W!Init PROVE ResponseInv
<1>1. w_response \in [Conn -> Seq(Unit)]
  BY DEF W!Init
<1>2. /\ w_writing = NoConn /\ w_tested \in BOOLEAN /\ w_split \in [Conn -> BOOLEAN]
      /\ w_phase = [c \in Conn |-> "closed"]
  BY DEF W!Init
<1>3. w_bytes_to_send \in Int /\ w_bytes_have_send \in Nat
  BY DEF W!Init
<1> QED
  BY <1>1, <1>2, <1>3 DEF ResponseInv, WriteTypes, AnswerLaidOut, TakenFromStart

(* Nothing is being written to c, whose answer is not yet made or is over.  *)
LEMMA ResponseInvIdle ==
  ASSUME W!HttpWriteAssumption, ObjectTypes, ResponseInv, NEW c \in Conn,
         W!Accept(c) \/ W!Hangup(c) \/ W!EmptyFile(c)
  PROVE  ResponseInv'
<1> USE DEF ResponseInv, ObjectTypes, W!historyVars, W!writeVars
<1>1. /\ UNCHANGED <<w_writing, w_tested, w_bytes_to_send, w_bytes_have_send, w_taken>>
      /\ w_phase'[c] # "write" /\ w_writing # c
      /\ \A d \in Conn \ {c} :
           /\ w_phase'[d] = w_phase[d] /\ w_m_write_idx'[d] = w_m_write_idx[d]
           /\ w_m_iv'[d] = w_m_iv[d] /\ w_m_iv_count'[d] = w_m_iv_count[d]
           /\ w_response'[d] = w_response[d] /\ w_split'[d] = w_split[d]
  BY DEF W!Accept, W!Hangup, W!EmptyFile, W!CloseConn, W!Emptied, W!NothingToSend, W!HttpWriteAssumption, AnswerLaidOut, WriteTypes
<1>5. w_writing \notin w_robbed' => w_writing \notin w_robbed
  BY <1>1 DEF W!Accept, W!Hangup, W!EmptyFile, W!Mmap, W!memoryVars
<1>2. WriteTypes'
  <2>1. w_response' \in [Conn -> Seq(Unit)]
    <3>1. w_response' = w_response \/ w_response' = [w_response EXCEPT ![c] = <<>>]
      BY Zenon DEF W!Accept, W!Hangup, W!EmptyFile, W!NothingToSend
    <3>2. w_response \in [Conn -> Seq(Unit)] /\ <<>> \in Seq(Unit)
      BY DEF WriteTypes
    <3> QED
      BY <3>1, <3>2
  <2>2. w_split' \in [Conn -> BOOLEAN]
    <3>1. w_split' = w_split \/ w_split' = [w_split EXCEPT ![c] = FALSE]
      BY Zenon DEF W!Accept, W!Hangup, W!EmptyFile, W!NothingToSend
    <3>2. w_split \in [Conn -> BOOLEAN]
      BY DEF WriteTypes
    <3> QED
      BY <3>1, <3>2, Zenon
  <2> QED
    BY <1>1, <2>1, <2>2 DEF WriteTypes
<1>3. AnswerLaidOut'
  BY <1>1 DEF AnswerLaidOut, LaidOut, WriteTypes
<1>4. TakenFromStart'
  BY <1>1, <1>5 DEF TakenFromStart, WriteTypes
<1> QED
  BY <1>2, <1>3, <1>4

(* An answer is made for c. *)
LEMMA ResponseInvCompose ==
  ASSUME W!HttpWriteAssumption, ObjectTypes, ResponseInv, NEW c \in Conn,
         NEW iv \in Seq(Iovec), Len(iv) = 2, NEW count \in 1..2, NEW linger \in BOOLEAN,
         W!Compose(c, linger, iv, count), w_phase[c] = "read",
         NEW answer \in Seq(Unit), w_response' = [w_response EXCEPT ![c] = answer],
         iv[1] = W!Buffer,
         \/ count = 1 /\ answer = W!Header
         \/ count = 2 /\ iv[2].base # 0 /\ answer = W!Header \o W!File(c, iv[2].base, iv[2].len),
         w_writing \notin w_robbed' \/ w_writing = c => w_writing \notin w_robbed \/ w_writing = c,
         UNCHANGED <<W!writeVars, w_split>>
  PROVE  ResponseInv'
<1> USE DEF ResponseInv, ObjectTypes, W!writeVars
<1>1. /\ w_writing # c
      /\ \A d \in Conn \ {c} :
           /\ w_phase'[d] = w_phase[d] /\ w_m_write_idx'[d] = w_m_write_idx[d]
           /\ w_m_iv'[d] = w_m_iv[d] /\ w_m_iv_count'[d] = w_m_iv_count[d]
           /\ w_response'[d] = w_response[d]
      /\ w_m_iv'[c] = iv /\ w_m_iv_count'[c] = count /\ w_response'[c] = answer
  BY DEF W!Compose, W!HttpWriteAssumption, AnswerLaidOut, WriteTypes
<1>2. WriteTypes'
  <2>1. w_response' \in [Conn -> Seq(Unit)]
    BY DEF WriteTypes
  <2> QED
    BY <2>1 DEF WriteTypes
<1>3. AnswerLaidOut'
  <2>1. LaidOut(c)'
    BY <1>1 DEF LaidOut
  <2>2. \A d \in Conn \ {c} : LaidOut(d)' <=> LaidOut(d)
    BY <1>1 DEF LaidOut
  <2> QED
    BY <1>1, <2>1, <2>2 DEF AnswerLaidOut, WriteTypes
<1>4. TakenFromStart'
  BY <1>1 DEF TakenFromStart, WriteTypes
<1> QED
  BY <1>2, <1>3, <1>4

(* An answer is laid out, and its iovecs lead to what is to be sent. *)
LEMMA ResponseInvAnswer ==
  ASSUME W!HttpWriteAssumption, ObjectTypes, ResponseInv, NEW c \in Conn, W!Answer(c)
  PROVE  ResponseInv'
<1>1. ASSUME NEW linger \in BOOLEAN, NEW size \in Nat,
             W!Refuse(c, linger) \/ W!RefuseFile(c, linger, size)
      PROVE  ResponseInv'
  <2> DEFINE iv == [w_m_iv[c] EXCEPT ![1] = W!Buffer]
  <2>0. 1 \in 1..2
    OBVIOUS
  <2>1. iv \in Seq(Iovec) /\ Len(iv) = 2 /\ W!Compose(c, linger, iv, 1) /\ iv[1] = W!Buffer
    BY <1>1, ErrorPageTypes DEF W!Refuse, W!RefuseFile, W!ErrorPage
  <2> HIDE DEF iv
  <2>2. w_phase[c] = "read" /\ UNCHANGED <<W!writeVars, w_split, w_robbed>>
    BY <1>1 DEF W!Refuse, W!RefuseFile, W!memoryVars
  <2>3. w_response' = [w_response EXCEPT ![c] = W!Header]
    BY <1>1 DEF W!Refuse, W!RefuseFile, W!ErrorPage
  <2>4. W!Header \in Seq(Unit)
    BY AnswerTypes
  <2> QED
    BY <2>0, <2>1, <2>2, <2>3, <2>4, ResponseInvCompose
<1>2. ASSUME NEW linger \in BOOLEAN, NEW size \in Nat,
             NEW address \in W!Page \cup {W!MAP_FAILED}, W!ServeFile(c, linger, address, size)
      PROVE  ResponseInv'
  <2> DEFINE iv == <<W!Buffer, [base |-> address, len |-> size]>>
  <2>0. 2 \in 1..2
    OBVIOUS
  <2>1. iv \in Seq(Iovec) /\ Len(iv) = 2 /\ W!Compose(c, linger, iv, 2)
    BY <1>2, ServeFileTypes DEF W!ServeFile
  <2>2. w_phase[c] = "read" /\ UNCHANGED <<W!writeVars, w_split>> /\ w_robbed' = w_robbed \ {c}
    BY <1>2 DEF W!ServeFile, W!Mmap
  <2>3. w_response' = [w_response EXCEPT ![c] = W!Header \o W!File(c, iv[2].base, iv[2].len)]
    BY <1>2 DEF W!ServeFile
  <2>4. iv[1] = W!Buffer /\ iv[2].base = address /\ iv[2].len = size /\ address # 0 /\ address \in Int
    BY DEF W!Page, W!MAP_FAILED, W!HttpWriteAssumption
  <2>5. W!Header \o W!File(c, iv[2].base, iv[2].len) \in Seq(Unit)
    BY <2>4, AnswerTypes
  <2>6. iv[2].base # 0 /\ (w_writing \notin w_robbed' \/ w_writing = c => w_writing \notin w_robbed \/ w_writing = c)
    BY <2>2, <2>4
  <2> HIDE DEF iv
  <2> QED
    BY <2>0, <2>1, <2>2, <2>3, <2>4, <2>5, <2>6, ResponseInvCompose
<1>3. CASE W!EmptyFile(c)
  BY <1>3, ResponseInvIdle
<1>4. 0..MaxSize \subseteq Nat /\ 1..MaxSize \subseteq Nat
  BY DEF W!HttpWriteAssumption
<1> QED
  BY <1>1, <1>2, <1>3, <1>4 DEF W!Answer

(* write() begins, is told to wait, or goes on: the answer stays what it    *)
(* was.                                                                     *)
LEMMA ResponseInvWrite ==
  ASSUME W!HttpWriteAssumption, ObjectTypes, ResponseInv, NEW c \in Conn,
         W!Write(c) \/ W!SocketFull(c) \/ W!KeepWriting(c)
  PROVE  ResponseInv'
<1> USE DEF ResponseInv, W!historyVars, W!writeVars, W!objectVars
<1>1. CASE W!Write(c)
  <2>1. w_m_write_idx[c] \in Nat
    <3>1. w_m_write_idx \in [Conn -> {0, HeaderLength}]
      BY DEF ObjectTypes
    <3> QED
      BY <3>1 DEF W!HttpWriteAssumption
  <2>2. /\ w_phase[c] = "write" /\ w_writing' = c /\ w_tested' = FALSE
        /\ w_bytes_to_send' = w_m_write_idx[c] /\ w_bytes_have_send' = 0
        /\ UNCHANGED <<w_phase, w_m_write_idx, w_m_iv, w_m_iv_count, w_response, w_split>>
    BY <1>1 DEF W!Write
  <2>3. WriteTypes'
    <3>1. w_tested' \in BOOLEAN
      BY <2>2, Zenon
    <3> QED
      BY <2>1, <2>2, <3>1 DEF WriteTypes
  <2>4. AnswerLaidOut'
    BY <2>2 DEF AnswerLaidOut, LaidOut
  <2>5. TakenFromStart'
    BY <2>1, <2>2 DEF TakenFromStart
  <2> QED
    BY <2>3, <2>4, <2>5
<1>2. CASE W!SocketFull(c)
  <2>1. /\ w_writing' = NoConn /\ w_tested' = FALSE
        /\ w_bytes_to_send' = 0 /\ w_bytes_have_send' = 0
        /\ UNCHANGED <<w_phase, w_m_write_idx, w_m_iv, w_m_iv_count, w_response, w_split>>
    BY <1>2 DEF W!SocketFull, W!Returned
  <2>2. WriteTypes'
    <3>1. w_tested' \in BOOLEAN
      BY <2>1, Zenon
    <3> QED
      BY <2>1, <3>1 DEF WriteTypes
  <2>3. AnswerLaidOut' /\ TakenFromStart'
    BY <2>1 DEF AnswerLaidOut, LaidOut, TakenFromStart
  <2> QED
    BY <2>2, <2>3
<1>3. CASE W!KeepWriting(c)
  BY <1>3 DEF W!KeepWriting, WriteTypes, AnswerLaidOut, LaidOut, TakenFromStart, W!HttpWriteAssumption
<1> QED
  BY <1>1, <1>2, <1>3

(* A writev takes a beginning of the answer, all of it unless it is cut     *)
(* short.                                                                   *)
LEMMA ResponseInvWritev ==
  ASSUME W!HttpWriteAssumption, MapInv, ResponseInv, NEW c \in Conn,
         NEW n \in Nat, W!Writev(c, n)
  PROVE  ResponseInv'
<1> USE DEF ResponseInv, W!objectVars
<1> DEFINE given == W!Given(w_m_iv[c], w_m_iv_count[c])
<1>1. w_writing = c /\ w_phase[c] = "write" /\ c # NoConn /\ LaidOut(c) /\ ~W!Faults(c)
  BY DEF W!Writev, W!Calling, AnswerLaidOut, W!HttpWriteAssumption
<1>11. Len(given) = Len(w_response[c]) /\ (c \notin w_robbed => given = w_response[c])
  BY <1>1, GivenIs
<1>12. /\ n \in 1..Len(given) /\ w_taken' = SubSeq(given, 1, n)
       /\ w_split' = [w_split EXCEPT ![c] = @ \/ n < Len(given)]
  BY DEF W!Writev
<1> HIDE DEF given
<1>2. /\ n \in 1..Len(w_response[c]) /\ (c \notin w_robbed => w_taken' = SubSeq(w_response[c], 1, n))
      /\ w_split' = [w_split EXCEPT ![c] = @ \/ n < Len(w_response[c])]
      /\ w_bytes_to_send' = w_bytes_to_send - n
      /\ w_bytes_have_send' = w_bytes_have_send + n
      /\ w_tested' = TRUE
      /\ UNCHANGED <<w_phase, w_m_iv, w_m_iv_count, w_m_write_idx, w_writing, w_response, w_robbed>>
  BY <1>11, <1>12 DEF W!Writev, W!memoryVars
<1>3. w_response[c] \in Seq(Unit)
  BY DEF WriteTypes
<1>4. Len(w_response[c]) \in Nat
  BY <1>3
<1>5. WriteTypes'
  BY <1>2 DEF WriteTypes
<1>6. AnswerLaidOut'
  BY <1>2 DEF AnswerLaidOut, LaidOut
<1>7. w_split'[c] = (w_split[c] \/ n < Len(w_response[c])) /\ w_split[c] \in BOOLEAN
  BY <1>2 DEF WriteTypes
<1>8. n = Len(w_response[c]) \/ w_split'[c]
  <2>1. n = Len(w_response[c]) \/ n < Len(w_response[c])
    BY <1>2, <1>4
  <2> QED
    BY <2>1, <1>7, Zenon
<1>9. w_bytes_to_send' + w_bytes_have_send' = w_m_write_idx'[c]
  BY <1>1, <1>2 DEF TakenFromStart, WriteTypes
<1>10. TakenFromStart'
  BY <1>1, <1>2, <1>8, <1>9 DEF TakenFromStart
<1> QED
  BY <1>5, <1>6, <1>10

(* write() is done with the answer, or gives it up. *)
LEMMA ResponseInvWritten ==
  ASSUME W!HttpWriteAssumption, ObjectTypes, ResponseInv, NEW c \in Conn,
         W!WritevFails(c) \/ W!WriteDone(c)
  PROVE  ResponseInv' /\ w_phase[c] = "write"
<1> USE DEF ResponseInv
<1>1. w_writing = c /\ c # NoConn /\ W!Emptied(c) /\ W!Returned /\ W!NothingToSend(c)
  BY DEF W!WritevFails, W!WriteDone, W!Calling, W!CloseConn, W!HttpWriteAssumption
<1>2. \E p \in {"closed", "read"} : w_phase' = [w_phase EXCEPT ![c] = p]
  BY DEF W!WritevFails, W!WriteDone, W!CloseConn
<1>3. /\ \A d \in Conn \ {c} :
           /\ w_phase'[d] = w_phase[d] /\ w_m_iv'[d] = w_m_iv[d] /\ w_m_iv_count'[d] = w_m_iv_count[d]
           /\ w_response'[d] = w_response[d]
      /\ w_phase'[c] # "write"
  BY <1>1, <1>2 DEF W!Emptied, W!NothingToSend, ObjectTypes, WriteTypes
<1>4. WriteTypes'
  <2>1. w_response' \in [Conn -> Seq(Unit)] /\ w_split' \in [Conn -> BOOLEAN]
    BY <1>1 DEF W!NothingToSend, WriteTypes
  <2>2. w_writing' = NoConn /\ w_tested' = FALSE /\ w_bytes_to_send' = 0 /\ w_bytes_have_send' = 0
    BY <1>1 DEF W!Returned
  <2>3. w_tested' \in BOOLEAN
    BY <2>2, Zenon
  <2> QED
    BY <2>1, <2>2, <2>3 DEF WriteTypes
<1> QED
  BY <1>1, <1>3, <1>4 DEF AnswerLaidOut, LaidOut, TakenFromStart, W!Returned

(* The inductive invariant. *)
WriteInv == MapInv /\ ResponseInv

(* Every step keeps the invariant. *)
LEMMA WriteInvNext == ASSUME W!HttpWriteAssumption, WriteInv, [W!Next]_(W!vars) PROVE WriteInv'
<1>0. ObjectTypes
  BY DEF WriteInv, MapInv
<1>1. ASSUME NEW c \in Conn, W!Accept(c) \/ W!Hangup(c) PROVE WriteInv'
  BY <1>0, <1>1, MapInvSession, ResponseInvIdle DEF WriteInv
<1>2. ASSUME NEW c \in Conn, W!Answer(c) PROVE WriteInv'
  BY <1>0, <1>2, MapInvAnswer, ResponseInvAnswer DEF WriteInv
<1>3. ASSUME NEW c \in Conn, W!Write(c) \/ W!SocketFull(c) \/ W!KeepWriting(c) PROVE WriteInv'
  BY <1>0, <1>3, MapInvWriting, ResponseInvWrite DEF WriteInv
<1>4. ASSUME NEW c \in Conn, NEW n \in 1..(HeaderLength + MaxSize), W!Writev(c, n)
      PROVE  WriteInv'
  <2>1. n \in Nat
    BY DEF W!HttpWriteAssumption
  <2>2. MapInv'
    BY <1>4, MapInvWriting DEF WriteInv
  <2>3. ResponseInv'
    BY <1>4, <2>1, ResponseInvWritev DEF WriteInv
  <2> QED
    BY <2>2, <2>3 DEF WriteInv
<1>5. ASSUME NEW c \in Conn, W!WritevFails(c) \/ W!WriteDone(c) PROVE WriteInv'
  BY <1>0, <1>5, MapInvWritten, ResponseInvWritten DEF WriteInv
<1>6. CASE UNCHANGED W!vars
  BY <1>6 DEF W!vars, W!objectVars, W!writeVars, W!memoryVars, W!historyVars, WriteInv, MapInv, ResponseInv,
              ObjectTypes, MemoryTypes, LeftByHangup, PagesKnown, RobbedAfterHangup, PagesOwned,
              FileToSend, WriteTypes, AnswerLaidOut, LaidOut, TakenFromStart
<1> QED
  BY <1>1, <1>2, <1>3, <1>4, <1>5, <1>6 DEF W!Next

(* The invariant holds at the start. *)
LEMMA WriteInvInit == ASSUME W!HttpWriteAssumption, W!Init PROVE WriteInv
<1>1. ObjectTypes /\ ResponseInv
  BY ObjectTypesInit, ResponseInvInit
<1>2. /\ w_m_file_address = [c \in Conn |-> 0] /\ w_owner = [p \in W!Page |-> NoConn] /\ w_robbed = {}
      /\ w_phase = [c \in Conn |-> "closed"] /\ w_abandoned = {} /\ w_length = [c \in Conn |-> 0]
  BY DEF W!Init
<1>3. MemoryTypes
  <2>1. w_owner \in [W!Page -> Conn \cup {NoConn}] /\ w_length \in [Conn -> Nat]
    BY <1>2
  <2>2. w_robbed \in SUBSET Conn /\ w_abandoned \in SUBSET Conn
    BY <1>2
  <2>3. \A c \in Conn : W!Pages(w_m_file_address[c], w_length[c]) \subseteq W!Page
    <3> TAKE c \in Conn
    <3>1. w_m_file_address[c] = 0
      BY <1>2
    <3>2. W!Pages(0, w_length[c]) = {}
      BY DEF W!Pages
    <3> QED
      BY <3>1, <3>2
  <2> QED
    BY <2>1, <2>2, <2>3 DEF MemoryTypes
<1>4. LeftByHangup /\ PagesKnown /\ RobbedAfterHangup /\ PagesOwned /\ FileToSend
  BY <1>2 DEF LeftByHangup, PagesKnown, RobbedAfterHangup, PagesOwned, FileToSend, W!Pages
<1> QED
  BY <1>1, <1>2, <1>3, <1>4 DEF WriteInv, MapInv

(* What the invariant says of the answers is the property. *)
LEMMA WriteInvResponse == ASSUME W!HttpWriteAssumption, WriteInv PROVE W!ResponseRight
<1> SUFFICES ASSUME NEW c \in Conn, w_writing = c, w_tested
             PROVE  /\ c \notin w_robbed =>
                         \A n \in 1..Len(w_taken) :
                           \E k \in 1..Len(w_response[c]) : w_taken[n] = w_response[c][k]
                    /\ W!Counted => /\ 2 * w_bytes_have_send >= w_m_write_idx[c]
                                    /\ w_split[c] \/ c \in w_robbed \/ w_taken = w_response[c]
  BY DEF W!ResponseRight
<1> USE DEF WriteInv, ResponseInv
<1>1. w_writing # NoConn
  BY DEF W!HttpWriteAssumption
<1>2. PICK n \in 1..Len(w_response[c]) :
        /\ c \notin w_robbed => w_taken = SubSeq(w_response[c], 1, n)
        /\ n = Len(w_response[c]) \/ w_split[c]
  BY <1>1 DEF TakenFromStart
<1>3. w_response[c] \in Seq(Unit)
  BY DEF WriteTypes
<1>4. w_bytes_to_send + w_bytes_have_send = w_m_write_idx[c]
  BY <1>1 DEF TakenFromStart
<1>5. W!Counted => 2 * w_bytes_have_send >= w_m_write_idx[c]
  BY <1>4 DEF W!Counted, WriteTypes
<1>6. c \notin w_robbed =>
        /\ \A k \in 1..Len(w_taken) : k \in 1..Len(w_response[c]) /\ w_taken[k] = w_response[c][k]
        /\ SubSeq(w_response[c], 1, Len(w_response[c])) = w_response[c]
  BY <1>2, <1>3, GivenPrefix
<1> QED
  BY <1>2, <1>5, <1>6
-----------------------------------------------------------------------------
(* Of the two parts one is at work and the other stays as it began.         *)
ConnInv == ParseInv /\ WriteInv

(* Both parts keep their invariants, whichever is at work. *)
LEMMA ConnInvNext == ASSUME ConnInv, [Next]_<<which, readVars, writeVars>> PROVE ConnInv'
<1>0. R!HttpParseAssumption /\ W!HttpWriteAssumption
  BY MCHttpConnAssumption DEF MCHttpConnAssumption
<1>1. [R!Next]_(R!vars)
  BY DEF Next, readVars, R!vars, R!fixedVars
<1>2. [W!Next]_(W!vars)
  BY DEF Next, writeVars, W!vars, W!objectVars, W!writeVars, W!memoryVars, W!historyVars
<1> QED
  BY <1>0, <1>1, <1>2, ParseInvNext, WriteInvNext DEF ConnInv

(* The invariant of the parsers and the one of the answers, together: they  *)
(* hold of every reachable state.                                           *)
THEOREM ConnInvariant == Spec => []ConnInv
<1>1. Init => ConnInv
  BY MCHttpConnAssumption, ParseInvInit, WriteInvInit DEF MCHttpConnAssumption, Init, ConnInv
<1>2. ConnInv /\ [Next]_<<which, readVars, writeVars>> => ConnInv'
  BY ConnInvNext
<1> QED
  BY <1>1, <1>2, PTL DEF Spec

(* A request is taken for complete only when it is and refused only when it *)
(* is wrong, in however many pieces it came, by process_read and by the     *)
(* parser it grew out of.                                                   *)
THEOREM VerdictRightTheorem == Spec => []VerdictRight
<1>1. ConnInv => VerdictRight
  BY DEF ConnInv, ParseInv, VerdictRight
<1> QED
  BY <1>1, ConnInvariant, PTL

(* A parser that waits for more has received neither a complete request nor *)
(* a wrong one, but for what http_conn does in the body and with bad lines. *)
THEOREM WaitJustifiedTheorem == Spec => []WaitJustified
<1>1. ConnInv => WaitJustified
  BY DEF ConnInv, ParseInv, WaitJustified
<1> QED
  BY <1>1, ConnInvariant, PTL

(* write() sends a connection its own answer, from its beginning, and no    *)
(* part of another's, unless another unmapped its file, and has sent all of *)
(* it when it stops, unless a writev was cut short.                         *)
THEOREM ResponseRightTheorem == Spec => []ResponseRight
<1>1. ConnInv => ResponseRight
  BY MCHttpConnAssumption, WriteInvResponse DEF MCHttpConnAssumption, ConnInv, ResponseRight
<1> QED
  BY <1>1, ConnInvariant, PTL

(* A page is mapped for one connection, which needs it and unmaps it with   *)
(* the size it was mapped with, unless a client hung up on its answer; and  *)
(* who sends a file sends the one that was mapped for it.                   *)
THEOREM MappingsOwnedTheorem == Spec => []MappingsOwned
<1>1. ConnInv => MappingsOwned
  BY MappingsOwnedParts DEF ConnInv, WriteInv, MapInv, MappingsOwned
<1> QED
  BY <1>1, ConnInvariant, PTL
=============================================================================
