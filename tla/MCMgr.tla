-------------------------------- MODULE MCMgr --------------------------------
(* Two connections, one descriptor to spare: numbers are used again at once. *)
EXTENDS Mgr, TLC

CONSTANTS c1, c2

MCSymmetry == Permutations(Conns)
=============================================================================
