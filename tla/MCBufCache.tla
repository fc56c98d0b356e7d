----------------------------- MODULE MCBufCache -----------------------------
(* Instances of BufCache for TLC. *)
EXTENDS BufCache, TLC

CONSTANTS k1, k2, k3

(* A block of the log, an indirect block and another one. *)
BufBlocks == {k1, k2, k3}
BufRank == (k1 :> 0) @@ (k2 :> 1) @@ (k3 :> 2)

BufSymmetry == Permutations(Procs) \cup Permutations(Vals)
=============================================================================
