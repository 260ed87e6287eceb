------------------------------- MODULE MCRelay -------------------------------
(* An answer is longer than the conn's buffer, a message as long or longer  *)
(* than the sockets' buffers, so reads and writes are split everywhere.     *)
EXTENDS Relay

MCMsgLen == [clt |-> 2, srv |-> 3]
=============================================================================
