------------------------------ MODULE MCAnchor ------------------------------
(* A small instance of the anchor program. *)
EXTENDS Anchor, TLC

CONSTANTS k1, k2, n1, a, anchor, blank, bad

TwoKeys == {k1, k2}
OneIP == {a}
OneNonce == {n1}
StampedOffsets == {<< [size |-> LocationOffsetSize, slot |-> t, rtt |-> 0] >> :
                   t \in 0 .. MaxClock}
SomeFiles == {<<k1>>, <<k1, k2>>, <<blank, k2>>, <<bad, k1>>}
NoLists == {}
ProbeSize == {ProbePacketSize}
=============================================================================
