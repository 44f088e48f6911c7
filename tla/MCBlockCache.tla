---------------------------- MODULE MCBlockCache ----------------------------
(* Instances of BlockCache. *)
EXTENDS BlockCache, TLC

Symmetric == Permutations(Block) \cup Permutations(Value) \cup Permutations(Addr)
=============================================================================
