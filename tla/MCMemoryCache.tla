--------------------------- MODULE MCMemoryCache ----------------------------
(* Small instances of MemoryCache for TLC. *)
EXTENDS MemoryCache, TLC

(* Page contents are interchangeable. *)
ValueSymmetry == Permutations(Values)
=============================================================================
