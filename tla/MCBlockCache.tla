---------------------------- MODULE MCBlockCache ----------------------------
(* BlockCache with the symmetry of its buckets and callers, for safety runs. *)
EXTENDS BlockCache, TLC

Symmetry == Permutations(Key) \union Permutations(Request)
=============================================================================
