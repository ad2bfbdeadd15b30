------------------------------ MODULE MCChunker ------------------------------
(* Chunker on every body of up to MaxLength bytes of two kinds. *)
EXTENDS Chunker, FiniteSets

CONSTANT MaxLength

MCInputs == UNION {[1 .. n -> {0, 1}] : n \in 0 .. MaxLength}

Sizes(min, avg, max, threshold) ==
  {[MinSize |-> min, AvgSize |-> avg, MaxSize |-> max, SmallFileThreshold |-> threshold,
    Engine |-> engine] : engine \in {"builtin", ""}}

(* In order; above and below a threshold; to be put in order; all default. *)
MCOptionSets ==
  Sizes(2, 3, 4, 0) \cup Sizes(1, 3, 4, 3) \cup Sizes(3, 2, 1, 0) \cup Sizes(0, 0, 0, -1)

MCDefaults == [MinSize |-> 1, AvgSize |-> 2, MaxSize |-> 3, SmallFileThreshold |-> 4]
MCGear == [byte \in {0, 1} |-> IF byte = 0 THEN 1 ELSE 6]
=============================================================================
