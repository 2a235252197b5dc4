----------------------------- MODULE MCAttester -----------------------------
(* Small instances of the attester against an arbitrary network. *)
EXTENDS Attester

CONSTANTS n1, me, anchor, other, none
OneNonce == {n1}
=============================================================================
