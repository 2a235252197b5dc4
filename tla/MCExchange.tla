----------------------------- MODULE MCExchange -----------------------------
(* Small instances of the exchange between one attester and one anchor. *)
EXTENDS Exchange, TLC

CONSTANTS n1, n2, n3, n4, me, a, anchor, other, none

OneKey == {me}
OneIP == {a}
TheNonces == {n1, n2, n3, n4}
NonceSymmetry == Permutations(Nonces)

\* referenceOffset of cmd/anchor: one blob, no upstream hop.
AnchorOffsets == {<< [size |-> LocationOffsetSize, slot |-> 1, rtt |-> 0] >>}
NoLists == {}

\* Reloads of an allowlist that keeps the attester.
KeepingLists == {OneKey}
ProbeSize == {ProbePacketSize}
=============================================================================
