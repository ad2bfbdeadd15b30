--------------------------- MODULE MCPostgresStore ---------------------------
(* PostgresStore on two transactions, two blocks and three objects of one  *)
(* key; the manifests name the blocks in both orders.                      *)
EXTENDS PostgresStore

CONSTANTS a, b, o1, o2, o3, t1, t2

MCObjectIds == {o1, o2, o3}
MCManifests == {<<a, b>>, <<b, a>>}
MCBatches == {<<a, b>>}
=============================================================================
