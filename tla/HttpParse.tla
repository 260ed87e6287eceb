------------------------------ MODULE HttpParse ------------------------------
(***************************************************************************)
(* Parsing an HTTP request that arrives in pieces, in three programs:      *)
(* process_read of http_conn (15-5http_conn.cpp), which knows bodies; the  *)
(* parser it grew out of (8-3httpparser.cpp); and the annotated exercise   *)
(* chap8 (chap8/有限状态机.cpp), a variation of the second.  Requests       *)
(* are sequences of tokens: "CR" and "LF", "R", a good request line, "L",  *)
(* a Content-Length header, and "x", any other text.                       *)
(*                                                                         *)
(* A definition marked Variant is no part of the specification: it is what *)
(* the definition after it would be with a defect, kept to see the         *)
(* properties fail.                                                        *)
(***************************************************************************)
EXTENDS Integers, Sequences

CONSTANTS
  Programs,           \* those of "http_conn", "httpparser", "chap8" to look at
  Inputs,             \* what a client may send
  BodyLength,         \* the number every "L" gives
  READ_BUFFER_SIZE

Token == {"R", "L", "x", "CR", "LF", "NUL"}

HttpParseAssumption ==
  /\ Programs \subseteq {"http_conn", "httpparser", "chap8"}
  /\ Inputs \subseteq Seq(Token \ {"NUL"})
  /\ BodyLength \in Nat \ {0} /\ READ_BUFFER_SIZE \in Nat \ {0}

VARIABLES
  program, input,       \* fixed: who parses what
  m_read_buf, m_read_idx, m_checked_idx, m_start_line,
  m_check_state, m_content_length,
  line_status,
  pc,                   \* "recv", "parse" or "done"
  result,               \* the HTTP_CODE returned last
  bodySplit             \* history: a call began with m_checked_idx inside the body

fixedVars == <<program, input>>
vars == <<fixedVars, m_read_buf, m_read_idx, m_checked_idx, m_start_line, m_check_state,
          m_content_length, line_status, pc, result, bodySplit>>

Index == 0..(READ_BUFFER_SIZE - 1)

First(S) == CHOOSE i \in S : \A j \in S : i <= j

(* What has arrived, the line ends of a request, the blank lines, and where *)
(* in the buffer the body begins.                                           *)
Received == SubSeq(input, 1, m_read_idx)

LineEnds(s) == {i \in 1..(Len(s) - 1) : s[i] = "CR" /\ s[i + 1] = "LF"}

HeadEnds(s) == {i \in LineEnds(s) : i + 2 \in LineEnds(s)}

BodyStart(s) == First(HeadEnds(s)) + 3

Init ==
  /\ program \in Programs /\ input \in Inputs
  /\ m_read_buf = [i \in Index |-> "NUL"]
  /\ m_read_idx = 0 /\ m_checked_idx = 0 /\ m_start_line = 0
  /\ m_check_state = "REQUESTLINE"
  /\ m_content_length = 0
  /\ line_status = "OK"
  /\ pc = "recv"
  /\ result = "NO_REQUEST"
  /\ bodySplit = FALSE
-----------------------------------------------------------------------------
(* parse_line. *)

(* Where its loop stops: at the first CR or LF that has not been checked,   *)
(* or at the end of what has been read; that of chap8 looks at one byte.    *)
Stop ==
  LET ends == {i \in m_checked_idx..(m_read_idx - 1) : m_read_buf[i] \in {"CR", "LF"}}
  IN  IF program = "chap8" THEN m_checked_idx
      ELSE IF ends = {} THEN m_read_idx ELSE First(ends)

(* A CR and the LF behind it; or an LF and the CR before it. *)
AtCR == m_read_buf[Stop] = "CR" /\ Stop + 1 < m_read_idx /\ m_read_buf[Stop + 1] = "LF"

AtLF == m_read_buf[Stop] = "LF" /\ Stop > 1 /\ m_read_buf[Stop - 1] = "CR"

(* Variant: a CR at the end of what has been read is an error at once. *)
StatusNoLookahead ==
  IF Stop = m_read_idx THEN "OPEN"
  ELSE IF AtCR \/ AtLF THEN "OK"
  ELSE "BAD"

LineStatus ==
  IF Stop = m_read_idx THEN "OPEN"
  ELSE IF m_read_buf[Stop] = "CR" /\ Stop + 1 = m_read_idx THEN "OPEN"
  ELSE IF AtCR \/ AtLF THEN "OK"
  ELSE "BAD"

(* The line end is overwritten, except that chap8 has == for = in one case. *)
Overwritten ==
  IF AtCR THEN IF program = "chap8" THEN {} ELSE {Stop, Stop + 1}
  ELSE {Stop - 1, Stop}

(* What a call of parse_line does that finds a line, and one that does not. *)
TakesLine ==
  /\ LineStatus = "OK"
  /\ m_read_buf' = [i \in Index |-> IF i \in Overwritten THEN "NUL" ELSE m_read_buf[i]]
  /\ m_checked_idx' = IF AtCR THEN Stop + 2 ELSE Stop + 1

LineFound == TakesLine /\ line_status' = "OK"

NoLine ==
  /\ LineStatus # "OK"
  /\ line_status' = LineStatus
  /\ m_checked_idx' = Stop
  /\ UNCHANGED <<m_read_buf, m_start_line, m_check_state, m_content_length>>

(* The string at i, up to the first NUL. *)
TextFrom(i, b) ==
  LET nuls == {j \in i..(READ_BUFFER_SIZE - 1) : b[j] = "NUL"}
      end  == IF nuls = {} THEN READ_BUFFER_SIZE ELSE First(nuls)
  IN  [k \in 1..(end - i) |-> b[i + k - 1]]

Text == TextFrom(m_start_line, m_read_buf')

Return(code) ==
  /\ result' = code
  /\ pc' = IF code = "NO_REQUEST" THEN "recv" ELSE "done"

Continue == result' = "NO_REQUEST" /\ pc' = "parse"
-----------------------------------------------------------------------------
(* What of the input has arrived after the next read. *)
Copied(n) ==
  m_read_buf' = [i \in Index |-> IF i \in m_read_idx..(n - 1) THEN input[i + 1]
                                 ELSE m_read_buf[i]]

(* read() drains the socket.  When the buffer gets full, its next recv has  *)
(* no room and returns 0, which counts as the client's close.               *)
HttpConnReads(k) ==
  /\ program = "http_conn" /\ pc = "recv"
  /\ m_read_idx + k <= Len(input)
  /\ \/ /\ m_read_idx + k < READ_BUFFER_SIZE
        /\ Copied(m_read_idx + k)
        /\ m_read_idx' = m_read_idx + k
        /\ pc' = "parse" /\ UNCHANGED result
     \/ /\ m_read_idx + k >= READ_BUFFER_SIZE
        /\ pc' = "done" /\ result' = "CLOSED_CONNECTION"
        /\ UNCHANGED <<m_read_buf, m_read_idx>>
  /\ line_status' = "OK"
  /\ bodySplit' = (bodySplit \/ (m_check_state = "CONTENT" /\ m_checked_idx > BodyStart(Received)))
  /\ UNCHANGED <<fixedVars, m_checked_idx, m_start_line, m_check_state, m_content_length>>

(* The other programs parse after every recv, also when it fills the buffer. *)
MainReceives(k) ==
  /\ program # "http_conn" /\ pc = "recv"
  /\ m_read_idx + k <= Len(input)
  /\ \/ /\ m_read_idx + k <= READ_BUFFER_SIZE
        /\ Copied(m_read_idx + k)
        /\ m_read_idx' = m_read_idx + k
        /\ pc' = "parse" /\ UNCHANGED result
     \/ /\ m_read_idx = READ_BUFFER_SIZE
        /\ pc' = "done" /\ result' = "CLOSED_CONNECTION"
        /\ UNCHANGED <<m_read_buf, m_read_idx>>
  /\ line_status' = "OK"
  /\ UNCHANGED <<fixedVars, m_checked_idx, m_start_line, m_check_state,
                 m_content_length, bodySplit>>

(* The first turn in the body needs no line. *)
BodyTurn == program = "http_conn" /\ m_check_state = "CONTENT" /\ line_status = "OK"

Turn == pc = "parse" /\ UNCHANGED <<fixedVars, m_read_idx>>

(* No line: process_read returns NO_REQUEST, whether the line is open or    *)
(* bad.                                                                     *)
HttpConnNoLine ==
  /\ program = "http_conn" /\ Turn /\ ~BodyTurn /\ NoLine
  /\ Return("NO_REQUEST")
  /\ UNCHANGED bodySplit

(* The other programs tell the two apart. *)
ParserNoLine ==
  /\ program # "http_conn" /\ Turn /\ NoLine
  /\ Return(IF LineStatus = "OPEN" THEN "NO_REQUEST" ELSE "BAD_REQUEST")
  /\ UNCHANGED bodySplit

RequestLine ==
  /\ Turn /\ m_check_state = "REQUESTLINE" /\ LineFound
  /\ m_start_line' = m_checked_idx'
  /\ \/ Text = <<"R">> /\ m_check_state' = "HEADER" /\ Continue
     \/ Text # <<"R">> /\ UNCHANGED m_check_state /\ Return("BAD_REQUEST")
  /\ UNCHANGED <<m_content_length, bodySplit>>

(* A header of http_conn: the blank line ends the request or starts the     *)
(* body.                                                                    *)
HttpConnHeader ==
  /\ program = "http_conn" /\ Turn /\ m_check_state = "HEADER" /\ LineFound
  /\ m_start_line' = m_checked_idx'
  /\ \/ /\ Text = <<>> /\ m_content_length # 0
        /\ m_check_state' = "CONTENT" /\ Continue
        /\ UNCHANGED m_content_length
     \/ /\ Text = <<>> /\ m_content_length = 0
        /\ Return("GET_REQUEST")
        /\ UNCHANGED <<m_check_state, m_content_length>>
     \/ /\ Text # <<>>
        /\ m_content_length' = IF Head(Text) = "L" THEN BodyLength ELSE m_content_length
        /\ Continue
        /\ UNCHANGED m_check_state
  /\ UNCHANGED bodySplit

ParserHeader ==
  /\ program # "http_conn" /\ Turn /\ m_check_state = "HEADER" /\ LineFound
  /\ m_start_line' = m_checked_idx'
  /\ \/ Text = <<>> /\ Return("GET_REQUEST")
     \/ Text # <<>> /\ Continue
  /\ UNCHANGED <<m_check_state, m_content_length, bodySplit>>

(* Variant: one byte more than the body must have come. *)
ContentMore ==
  /\ program = "http_conn" /\ Turn /\ m_check_state = "CONTENT"
  /\ \/ BodyTurn /\ UNCHANGED <<m_read_buf, m_checked_idx>>
     \/ ~BodyTurn /\ TakesLine
  /\ m_start_line' = m_checked_idx'
  /\ \/ m_read_idx > m_content_length + m_checked_idx' /\ Return("GET_REQUEST")
     \/ m_read_idx <= m_content_length + m_checked_idx' /\ Continue
  /\ line_status' = "OPEN"
  /\ UNCHANGED <<m_check_state, m_content_length, bodySplit>>

(* The body is complete when content_length bytes follow what has been      *)
(* checked.  If it is not, the loop goes on to look for lines in it, and    *)
(* asks again behind each it finds: m_checked_idx moves into the body.      *)
Content ==
  /\ program = "http_conn" /\ Turn /\ m_check_state = "CONTENT"
  /\ \/ BodyTurn /\ UNCHANGED <<m_read_buf, m_checked_idx>>
     \/ ~BodyTurn /\ TakesLine
  /\ m_start_line' = m_checked_idx'
  /\ \/ m_read_idx >= m_content_length + m_checked_idx' /\ Return("GET_REQUEST")
     \/ m_read_idx < m_content_length + m_checked_idx' /\ Continue
  /\ line_status' = "OPEN"
  /\ UNCHANGED <<m_check_state, m_content_length, bodySplit>>
-----------------------------------------------------------------------------
Receives == \E k \in 1..Len(input) : HttpConnReads(k) \/ MainReceives(k)

Next ==
  \/ Receives
  \/ HttpConnNoLine
  \/ ParserNoLine
  \/ RequestLine
  \/ HttpConnHeader
  \/ ParserHeader
  \/ Content

Spec == Init /\ [][Next]_vars
-----------------------------------------------------------------------------
(* The reference: what a sequence of tokens is, in whatever pieces it came. *)

InHead(s, i) == \A j \in HeadEnds(s) : i < j

(* A CR without its LF or an LF without its CR, before the head has ended. *)
BadLineEnd(s) ==
  \E i \in 1..Len(s) :
    /\ InHead(s, i)
    /\ \/ s[i] = "CR" /\ i < Len(s) /\ i \notin LineEnds(s)
       \/ s[i] = "LF" /\ i - 1 \notin LineEnds(s)

BadRequestLine(s) ==
  LineEnds(s) # {} /\ SubSeq(s, 1, First(LineEnds(s)) - 1) # <<"R">>

HasBody(s) ==
  \E i \in LineEnds(s) : InHead(s, i) /\ i + 2 <= Len(s) /\ s[i + 2] = "L"

Complete(s) ==
  /\ HeadEnds(s) # {}
  /\ ~BadRequestLine(s) /\ ~BadLineEnd(s)
  /\ program = "http_conn" /\ HasBody(s) => Len(s) >= BodyStart(s) + BodyLength

(* The verdict is right however the request was split: a request is never   *)
(* taken for complete before it is, and none is refused that is not wrong   *)
(* (chap8 refuses all; see LineOpenWithoutCR).                              *)
VerdictRight ==
  /\ result = "GET_REQUEST" => Complete(Received)
  /\ result = "BAD_REQUEST" /\ program # "chap8" =>
       BadRequestLine(Received) \/ BadLineEnd(Received)

(* A parser that waits for more has a reason to: what it has is not a       *)
(* complete request, unless an earlier call of process_read has left        *)
(* m_checked_idx inside the body, however little of it, from where later    *)
(* calls count the whole body once more; and not a wrong one, unless the    *)
(* line ends are wrong and it is http_conn's, which takes a bad line for    *)
(* an open one.                                                             *)
WaitJustified ==
  pc = "recv" =>
    /\ ~bodySplit => ~Complete(Received)
    /\ BadRequestLine(Received) => program = "http_conn" /\ BadLineEnd(Received)
    /\ BadLineEnd(Received) => program = "http_conn"

(* The comment at the end of chap8's parse_line: when everything has been   *)
(* analysed and no CR was met, the line is open.                            *)
LineOpenWithoutCR ==
  line_status = "BAD" => \E i \in 1..m_read_idx : input[i] = "CR"
=============================================================================
