------------------------------- MODULE Wire -------------------------------
(***************************************************************************)
(* The packets of internal/signed/packet.go as values: what the two ends   *)
(* put in a probe and in a reply, and the fixed-width arithmetic of their  *)
(* fields.  Bytes, coordinates and signatures are abstracted: a packet is  *)
(* a record of the fields the protocol's decisions depend on, and a        *)
(* signature is the key that made it.                                      *)
(* Time is counted in ticks.                                               *)
(***************************************************************************)
EXTENDS Integers, Sequences

CONSTANTS
    Nonces,     \* the nonzero values randomNonce may return
    Word        \* number of values of a uint64 field, scaled down

\* A drawn nonce never equals a number: a 64-bit random value does not collide
\* with a timestamp, an interval or the reserved value 0.
ASSUME NonceAssumption == \A n \in Nonces : n \notin Int
\* A field has more than one value.
ASSUME WordAssumption == Word \in Nat \ {0, 1}

ProbePacketSize == 108
LocationOffsetSize == 174
MaxOffsets == 5

\* Go's uint64(x) of a signed 64-bit value, and int64(u) of an unsigned one.
Uint64(x) == x % Word
Int64(u) == IF 2 * u < Word THEN u ELSE u - Word

\* Ticks between the NTP and the Unix epoch, scaled down.
NtpEpochOffset == 3

\* The pair (Sec, Frac) of ntpTimestamp as one field, which wraps.
ntpTimestamp(t) == (t + NtpEpochOffset) % Word

NewProbePacket(seq, t, key) ==
    [seq |-> seq, stamp |-> ntpTimestamp(t), key |-> key, sig |-> key]

\* Wrong variant: the nonce is not echoed.
newChallengedProbePacket_Time(seq, nonce, key) == NewProbePacket(seq, 0, key)

\* Sec and Frac carry the two halves of the nonce instead of the time.
newChallengedProbePacket(seq, nonce, key) ==
    [seq |-> seq, stamp |-> nonce, key |-> key, sig |-> key]

ProbeVerify(probe) == probe.sig = probe.key

\* An offset blob is its length and the two fields the reflector reads from it.
OffsetInfo(slot, rtt) == [slot |-> slot, rtt |-> rtt]

\* The information of the first blob, when there is one and it is long enough.
ParseOffsetInfo(blobs) ==
    IF blobs # << >> /\ blobs[1].size >= LocationOffsetSize
    THEN OffsetInfo(blobs[1].slot, blobs[1].rtt)
    ELSE OffsetInfo(0, 0)

\* NewReplyPacket succeeds exactly on such vectors of blobs.
Sendable(blobs) ==
    /\ Len(blobs) <= MaxOffsets
    /\ \A i \in DOMAIN blobs : blobs[i].size = LocationOffsetSize

NewReplyPacket(probe, signer, slot, since, rtt, challenged) ==
    [probe |-> probe, authority |-> signer, slot |-> slot,
     since |-> since, rtt |-> rtt, challenged |-> challenged, sig |-> signer]

ReplyVerify(reply) == reply.sig = reply.authority
===========================================================================
