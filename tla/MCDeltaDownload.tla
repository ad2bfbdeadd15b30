--------------------------- MODULE MCDeltaDownload ---------------------------
(* DeltaDownload on two objects that share a chunk; the second was put     *)
(* together from parts and has no MD5.                                     *)
EXTENDS DeltaDownload

CONSTANTS first, second

MCChunksOf == [object \in {first, second} |->
                 IF object = first THEN <<"a", "b", "a">> ELSE <<"b", "c">>]
=============================================================================
