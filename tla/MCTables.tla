------------------------------- MODULE MCTables -------------------------------
(***************************************************************************)
(* Instance for TLC of what a gateway keeps in its metadata store: the     *)
(* objects and blocks of MetadataStore together with those of MemoryStore, *)
(* and the sessions of multipart uploads, with their copies in memory and  *)
(* their files, in the scopes of MCMultipart.  A behaviour is about        *)
(* objects or about uploads; the others wait.  The manifests have up to    *)
(* two chunks, the empty object and a repeated block among them.           *)
(***************************************************************************)
EXTENDS MemoryStore, MCMultipart, TLC

CONSTANTS id1, id2, id3, h1, h2, k1, k2

VARIABLE about

MCManifests == {<<>>, <<h1>>, <<h2>>, <<h1, h1>>, <<h1, h2>>}

MCInit ==
  /\ BothInit /\ MultipartInit
  /\ about \in {"objects", "uploads"}
  /\ IF about = "uploads" THEN scope \in Scopes ELSE scope = CHOOSE s \in Scopes : TRUE

ObjectsAlone ==
  about = "objects" /\ BothNext /\ UNCHANGED <<multipartVars, scope, about>>

UploadsAlone ==
  about = "uploads" /\ MultipartNext /\ UNCHANGED <<bothVars, scope, about>> /\ InScope'

MCSpec == MCInit /\ [][ObjectsAlone \/ UploadsAlone]_<<bothVars, multipartVars, scope, about>>

Symmetry ==
  Permutations({id1, id2, id3}) \cup Permutations({k1, k2})
    \cup Permutations({r1, r2}) \cup Permutations({x1, x2})

=============================================================================
