----------------------------- MODULE MCMultipart -----------------------------
(***************************************************************************)
(* Instance of MultipartManager for TLC.  A behaviour stays in one of four *)
(* scopes, each small in what the others are large in: one part sent with  *)
(* two bodies, two parts of one upload, two uploads that compete for the   *)
(* capacity, and an upload beside one of another gateway.  Where there are *)
(* two parts, one of them is sent again or assembled while it is sent.     *)
(***************************************************************************)
EXTENDS MultipartManager

CONSTANTS x1, x2, y, r1, r2

MCSent == {<<1, 1>>, <<1, 2>>, <<2, 2>>}

VARIABLE scope

Scope(own, elsewhere, sent, expected, restarts, disputes) ==
  [own |-> own, elsewhere |-> elsewhere, sent |-> sent, expected |-> expected,
   restarts |-> restarts, disputes |-> disputes]

Scopes ==
  {Scope(1, 0, {<<1, 1>>, <<1, 2>>}, {0, 2}, 1, 1),
   Scope(1, 0, {<<1, 1>>, <<2, 2>>}, {0}, 0, 1),
   Scope(2, 0, {<<1, 1>>}, {2}, 0, 2),
   Scope(1, 1, {<<1, 1>>}, {0}, 0, 2)}

Known(uploads) == Cardinality({u \in uploads : issued[u] # "new"})

InScope ==
  /\ Known(Uploads \ Foreign) <= scope.own
  /\ Known(Foreign) <= scope.elsewhere
  /\ crashes <= scope.restarts
  /\ Cardinality(contended) <= scope.disputes
  /\ \A r \in Requests :
       /\ req[r].pc = "insertrow" => req[r].total \in scope.expected
       /\ req[r].body # NoPart => <<req[r].number, req[r].body>> \in scope.sent
  /\ \A u \in Foreign : rows[u] # NoSession =>
       /\ rows[u].parts = NoParts => rows[u].reserved \in scope.expected
       /\ \A n \in Numbers :
            rows[u].parts[n] = NoPart \/ <<n, rows[u].parts[n]>> \in scope.sent

=============================================================================
