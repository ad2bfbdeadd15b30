--------------------------- MODULE MCObjectService ---------------------------
(* Instances of ObjectService for TLC. *)
EXTENDS ObjectService, TLC

CONSTANTS id1, id2, id3, h1, h2, u1, u2

SharedBlocks == {<<h1>>, <<h1, h2>>, <<h1, h1>>}

Symmetry == Permutations({id1, id2, id3}) \cup Permutations({u1, u2})

=============================================================================
