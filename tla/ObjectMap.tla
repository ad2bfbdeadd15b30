------------------------------ MODULE ObjectMap ------------------------------
(***************************************************************************)
(* What the metadata store promises its callers, one tenant at a time: a   *)
(* map from object keys to the manifest that is live under the key.        *)
(* Publishing an object replaces the whole manifest of one key in one      *)
(* step, deleting one removes it in one step, and nothing else changes     *)
(* what a key names.  (metadata.Store, src/internal/metadata/store.go.)    *)
(***************************************************************************)
CONSTANTS
  Keys,        \* bucket/key pairs
  Manifests,   \* chunk lists an object may have
  NoObject     \* "no committed object under this key"

VARIABLE live  \* live[k]: the manifest a GET of k is answered from

Init == live = [k \in Keys |-> NoObject]

Publish(k, m) == live' = [live EXCEPT ![k] = m]

Remove(k) ==
  /\ live[k] # NoObject
  /\ live' = [live EXCEPT ![k] = NoObject]

Next ==
  \E k \in Keys :
    \/ \E m \in Manifests : Publish(k, m)
    \/ Remove(k)

Spec == Init /\ [][Next]_live

=============================================================================
