------------------------------- MODULE MCMRSW -------------------------------
(* Instances of MRSW for TLC. *)
EXTENDS MRSWInvariant, TLC

CONSTANTS c1, c2, s1, k1, v1, v2, v3

(* The use LazyDBCacheFn makes of it: one value per key, never empty. *)
MemoWritable == (k1 :> {v1})

(* A mapping whose values are overwritten. *)
FreeWritable == (k1 :> {v1, v2})

ClientSymmetry == Permutations(Clients)
=============================================================================
