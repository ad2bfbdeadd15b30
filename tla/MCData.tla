-------------------------------- MODULE MCData --------------------------------
(***************************************************************************)
(* Instance for TLC of what becomes of an object between its sender and    *)
(* its reader: the requests for it, the stream that is cut into chunks,    *)
(* and the reads that put chunks together.  A behaviour is about one of    *)
(* the three; the others wait.                                             *)
(***************************************************************************)
EXTENDS MCObjectReads, MCChunker, MCGateway

VARIABLE about

DataSymmetry == Symmetry \cup Permutations(Senders)

(* A behaviour that is not about a stream or requests has a fixed one.     *)
MCInit ==
  /\ about \in {"reads", "stream", "gateway"}
  /\ ReadsInit
  /\ StreamInit
  /\ about # "stream" => input = <<>> /\ splitter = New(CHOOSE o \in OptionSets : TRUE)
  /\ IF about = "gateway" THEN MCGatewayInit
     ELSE /\ GatewayInit /\ DOMAIN stored = {}
          /\ settings = CHOOSE x \in Settings : TRUE

ReadsAlone    == about = "reads" /\ ReadsNext /\ UNCHANGED <<streamVars, gatewayVars, about>>
StreamAlone   == about = "stream" /\ StreamNext /\ UNCHANGED <<vars, gatewayVars, about>>
RequestsAlone == about = "gateway" /\ GatewayNext /\ UNCHANGED <<vars, streamVars, about>>

MCSpec ==
  /\ MCInit
  /\ [][ReadsAlone \/ StreamAlone \/ RequestsAlone]_<<vars, streamVars, gatewayVars, about>>
=============================================================================
