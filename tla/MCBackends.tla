----------------------------- MODULE MCBackends -----------------------------
(***************************************************************************)
(* Instance of BlockBackends for TLC.  A behaviour stays in one of three   *)
(* scopes: two callers who put, look for, get and delete one block; one    *)
(* who puts a block against one who deletes it with another; and deletes   *)
(* of three blocks.  late are the requests that may arrive late; where it  *)
(* has no puts, a put is one attempt; most is how many of them there are.  *)
(***************************************************************************)
EXTENDS BlockBackends

CONSTANTS k1, k2, b1, b2, b3

MCDeletes == {{b1}, {b1, b2}, {b1, b2, b3}}

VARIABLE scope

Scope(blocks, single, clients, sweepers, remains, most) ==
  [blocks |-> blocks, single |-> single, clients |-> clients, sweepers |-> sweepers,
   late |-> remains, most |-> most]

Scopes ==
  {Scope({b1}, {"put", "has", "get"}, {k1, k2}, {k1, k2}, {"put", "delete", "purge"}, 2),
   Scope({b1, b2}, {"put"}, {k1}, {k2}, {"delete", "purge"}, 1),
   Scope({b1, b2, b3}, {}, {}, {k2}, {"purge"}, 1)}

InScope ==
  /\ Cardinality(late) <= scope.most /\ \A r \in late : r.asks \in scope.late
  /\ \A c \in CloudCallers : InProgress(c) =>
       IF calls[c].op = "delete"
         THEN c \in scope.sweepers /\ calls[c].keys = scope.blocks
         ELSE /\ c \in scope.clients /\ calls[c].keys = {b1} /\ calls[c].op \in scope.single
              /\ "put" \notin scope.late =>
                   \A u \in DOMAIN task[c] : task[c][u].pc = "ready" => task[c][u].attempt = 0

MCInit == CloudInit /\ scope \in Scopes /\ remote \in {{}, scope.blocks}
MCSpec == MCInit /\ [][CloudNext /\ UNCHANGED scope /\ InScope']_<<cloudVars, scope>>
=============================================================================
