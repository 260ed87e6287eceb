---------------------------- MODULE MCBalancePool ----------------------------
(* Two children with one connection each, and clients for both and one more. *)
EXTENDS BalancePool
=============================================================================
