---------------------------- MODULE MCObjectReads ----------------------------
(* Instances of ObjectReads for TLC. *)
EXTENDS ObjectReads, TLC

CONSTANTS o1, o2, o3, h1, h2, r1, r2

Symmetry == Permutations({o1, o2, o3}) \cup Permutations({r1, r2})

MCManifests == {<<>>, <<h1>>, <<h1, h2, h1>>}

MCTwoManifests == {<<h1>>, <<h2, h1>>}

MCSizeOf == h1 :> 1 @@ h2 :> 2

MCNumbers == -1 .. 5 \cup {Nothing}

MCHeaders == [first : MCNumbers, last : MCNumbers] \cup {Malformed}

=============================================================================
