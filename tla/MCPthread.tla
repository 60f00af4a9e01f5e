----------------------------- MODULE MCPthread ------------------------------
(* TLC instances of Pthread. *)
EXTENDS Pthread, TLC

\* Blocks, stacks, thread ids and values are told apart by nothing.
Symmetry ==
    Permutations(Tids) \cup Permutations(Blocks) \cup Permutations(Stacks) \cup Permutations(Values)
=============================================================================
