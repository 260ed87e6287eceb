------------------------------ MODULE MCShmTalk ------------------------------
(* Two slots and three clients: one can leave, one move and one take the    *)
(* slot and the process number that have become free.                       *)
EXTENDS ShmTalk

CONSTANTS p1, p2
=============================================================================
