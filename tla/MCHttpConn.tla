----------------------------- MODULE MCHttpConn ------------------------------
(* http_conn at work on a request or on its answers, one of the two: which  *)
(* says whose behaviour this is; the other stays as it began.  Requests     *)
(* have up to two lines and a blank one, with right and wrong line ends,    *)
(* and something behind them.  Answers are those of two connections, with   *)
(* files of one or two pages in a memory of three.                          *)
EXTENDS Sequences, FiniteSets, TLC

CONSTANTS
  Which,                             \* the parts to look at
  Programs, Inputs, BodyLength, READ_BUFFER_SIZE,
  c1, c2, Conn, NoConn, HeaderLength, MaxSize, MaxPage

VARIABLES
  which,
  r_program, r_input, r_m_read_buf, r_m_read_idx, r_m_checked_idx,
  r_m_start_line, r_m_check_state, r_m_content_length, r_line_status, r_pc,
  r_result, r_bodySplit,
  w_phase, w_m_linger, w_m_write_idx, w_m_iv, w_m_iv_count,
  w_m_file_address, w_st_size, w_writing, w_tested, w_bytes_to_send,
  w_bytes_have_send, w_owner, w_length, w_taken, w_response, w_split,
  w_abandoned, w_robbed

readVars == <<r_program, r_input, r_m_read_buf, r_m_read_idx,
  r_m_checked_idx, r_m_start_line, r_m_check_state, r_m_content_length,
  r_line_status, r_pc, r_result, r_bodySplit>>
writeVars == <<w_phase, w_m_linger, w_m_write_idx, w_m_iv, w_m_iv_count,
  w_m_file_address, w_st_size, w_writing, w_tested, w_bytes_to_send,
  w_bytes_have_send, w_owner, w_length, w_taken, w_response, w_split,
  w_abandoned, w_robbed>>

R == INSTANCE HttpParse WITH
  program <- r_program, input <- r_input, m_read_buf <- r_m_read_buf,
  m_read_idx <- r_m_read_idx, m_checked_idx <- r_m_checked_idx,
  m_start_line <- r_m_start_line, m_check_state <- r_m_check_state,
  m_content_length <- r_m_content_length, line_status <- r_line_status,
  pc <- r_pc, result <- r_result, bodySplit <- r_bodySplit

W == INSTANCE HttpWrite WITH
  phase <- w_phase, m_linger <- w_m_linger, m_write_idx <- w_m_write_idx,
  m_iv <- w_m_iv, m_iv_count <- w_m_iv_count,
  m_file_address <- w_m_file_address, st_size <- w_st_size,
  writing <- w_writing, tested <- w_tested,
  bytes_to_send <- w_bytes_to_send, bytes_have_send <- w_bytes_have_send,
  owner <- w_owner, length <- w_length, taken <- w_taken,
  response <- w_response, split <- w_split, abandoned <- w_abandoned,
  robbed <- w_robbed

ASSUME MCHttpConnAssumption ==
  /\ Which \subseteq {"parse", "write"}
  /\ R!HttpParseAssumption /\ W!HttpWriteAssumption

CRLF == <<"CR", "LF">>

Lines == {<<t>> \o e : t \in {"R", "L", "x"}, e \in {CRLF, <<"CR">>, <<"LF">>}}

(* What follows: bodies too short, long enough and too long, with line ends *)
(* in them or without.                                                      *)
Rests == {<<>>, <<"x">>, <<"x", "x">>, <<"x", "x", "x">>, <<"x", "x", "CR">>,
          CRLF, CRLF \o <<"x">>, <<"x">> \o CRLF, <<"x", "LF">>}

MCInputs == {a \o b \o c \o d : a \in Lines, b \in Lines \cup {<<>>},
                               c \in {CRLF, <<"CR", "x">>, <<"LF">>, <<"x", "x", "x">>}, d \in Rests}

(* While answers are looked at there is one request, and it is not read.    *)
Init ==
  /\ which \in Which
  /\ R!Init /\ W!Init
  /\ which = "write" => /\ r_program = CHOOSE p \in Programs : TRUE
                        /\ r_input = CHOOSE s \in Inputs : TRUE

(* A parser stops when it has its verdict or there is nothing left to read; *)
(* it may not stop anywhere else.                                           *)
AtRest ==
  /\ which = "parse"
  /\ r_pc = "done" \/ (r_pc = "recv" /\ r_m_read_idx = Len(r_input))

Next ==
  \/ which = "parse" /\ R!Next /\ UNCHANGED <<which, writeVars>>
  \/ which = "write" /\ W!Next /\ UNCHANGED <<which, readVars>>
  \/ AtRest /\ UNCHANGED <<which, readVars, writeVars>>

Spec == Init /\ [][Next]_<<which, readVars, writeVars>>

ConnSymmetry == Permutations(Conn)
-----------------------------------------------------------------------------
(* 15-5http_conn.cpp, 8-3httpparser.cpp: the verdict on a request is right  *)
(* however the request was split.                                           *)
VerdictRight == R!VerdictRight

(* A parser that waits for more has a reason to.                            *)
WaitJustified == R!WaitJustified

(* chap8: a line without CR is open, as a comment of its parse_line says.   *)
LineOpenWithoutCR == R!LineOpenWithoutCR

(* 15-5http_conn.cpp: a client is sent its own answer, and all of it unless *)
(* a writev was cut short, or the file was unmapped by another connection.  *)
ResponseRight == W!ResponseRight

(* Files are mapped as long as they are needed, for one connection each,    *)
(* unless a client hung up on its answer, and as a whole for whoever sends  *)
(* them, unless another connection has unmapped them.                       *)
MappingsOwned == W!MappingsOwned
=============================================================================
