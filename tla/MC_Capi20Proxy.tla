--------------------------- MODULE MC_Capi20Proxy ---------------------------
(* Instances of Capi20Proxy for TLC: see the .cfg files. *)
EXTENDS Capi20Proxy, TLC

CONSTANTS f1, f2, t1, t2

Symmetry == Permutations(Threads) \cup Permutations(Files)
=============================================================================
