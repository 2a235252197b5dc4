---------------------------- MODULE MCReflector ----------------------------
(* Small instances of Reflector. *)
EXTENDS ReflectorChallenge, TLC

CONSTANTS k1, k2, n1, n2, n3, a, b, anchor

\* The offsets of cmd/anchor: one blob of the required size, RttNs 0.
GoodOffsets == << [size |-> LocationOffsetSize, slot |-> 1, rtt |-> 0] >>
\* An upstream hop, and one blob more than NewReplyPacket accepts.
HopOffsets == << [size |-> LocationOffsetSize, slot |-> 2, rtt |-> 3] >>
ManyOffsets == [i \in 1 .. MaxOffsets + 1 |-> GoodOffsets[1]]

AnchorOffsets == {GoodOffsets}
OddOffsets == {HopOffsets, ManyOffsets}

NoLists == {}
AllLists == SUBSET Keys
ProbeSize == {ProbePacketSize}
AnySize == {ProbePacketSize - 1, ProbePacketSize}

OneKey == {k1}
TwoKeys == {k1, k2}
OneIP == {a}
TwoIPs == {a, b}
TwoNonces == {n1, n2}
ThreeNonces == {n1, n2, n3}

PairSymmetry == Permutations(Nonces) \cup Permutations(IPs)
ReloadSymmetry == Permutations(Nonces) \cup Permutations(Keys)
============================================================================
