------------------------------- MODULE Codec -------------------------------
(***************************************************************************)
(* Signed location offsets (internal/offset/offset.go) and the replies     *)
(* that carry them (internal/signed/packet.go), from the structures in     *)
(* memory to bytes and back, as the anchor and the attester use them.      *)
(*                                                                         *)
(* An encoded offset is a sequence in which the two parts of an offset     *)
(* alternate: its Signature (64 bytes) and its header (110 bytes, all      *)
(* other fields and the number of references).  Coordinates, times and     *)
(* the target of an offset are one value, "fields".                        *)
(***************************************************************************)
EXTENDS Integers, Sequences, FiniteSets, SequencesExt

CONSTANTS
    Keys,           \* keys that sign offsets
    NoKey,          \* the zero value of a public key
    RefWord,        \* values of the reference count, a uint8, scaled down
    Offsets,        \* the offsets a program may start from, none signed
    MaxSteps,       \* bound: offsets signed and fields changed
    MaxSignedNodes  \* bound: nodes of an offset whose signing is explored

Version == 1
MaxReferenceDepth == 2
MaxTotalReferences == 5
MaxOffsets == 5

\* Size in parts: the bytes of one offset are a signature and a header.
Parts == 2

\* More values than the references a decoder accepts, as 256 is.
ASSUME RefWordAssumption == RefWord \in Nat /\ RefWord > MaxTotalReferences
ASSUME BoundAssumption == MaxSteps \in Nat /\ MaxSignedNodes \in Nat

VARIABLES
    o,          \* the offset in memory
    blob,       \* its encoding, perhaps damaged since
    read,       \* what Unmarshal made of it
    wire,       \* a reply on the wire, perhaps damaged
    seen,       \* what the attester made of that
    stage,      \* "memory", "encoded", "decoded", "sent" or "received"
    intact,     \* history: nothing has been damaged
    steps,      \* offsets signed and fields changed so far
    signed,     \* history: every offset as Sign left it
    replies     \* history: every reply NewReplyPacket returned

vars == <<o, blob, read, wire, seen, stage, intact, steps, signed, replies>>

\* ed25519, taken as ideal: a signature is the key and the message it was made
\* for, and verifies for nothing else.
Ed25519Sign(key, msg) == [key |-> key, msg |-> msg]
Ed25519Verify(key, msg, sig) == sig = Ed25519Sign(key, msg)
NoSignature == Ed25519Sign(NoKey, << >>)

\* A LocationOffset that has not been signed.
NewOffset(fields, refs) ==
    [Signature |-> NoSignature, AuthorityPubkey |-> NoKey,
     SenderPubkey |-> NoKey, fields |-> fields, References |-> refs]

----------------------------------------------------------------------------
(* Encoding. *)

RECURSIVE Marshal(_)

\* The header of an offset.  The count of references is truncated to a byte.
Header(x) ==
    [version |-> Version, AuthorityPubkey |-> x.AuthorityPubkey,
     SenderPubkey |-> x.SenderPubkey, fields |-> x.fields,
     numRefs |-> Len(x.References) % RefWord]

appendSigned(x) ==
    <<Header(x)>> \o FlattenSeq([i \in DOMAIN x.References |-> Marshal(x.References[i])])

Marshal(x) == <<x.Signature>> \o appendSigned(x)

\* The length of the encoding, in parts.
RECURSIVE EncodedLen(_)
EncodedLen(x) == FoldLeft(LAMBDA n, ref : n + EncodedLen(ref), Parts, x.References)

\* Wrong variant: an offset signs its own fields only.
SigningBytes_Own(x) == <<Header(x)>>

SigningBytes(x) == appendSigned(x)

----------------------------------------------------------------------------
(* Decoding. *)

Failed(why) == [err |-> why]
Drop(data, n) == SubSeq(data, n + 1, Len(data))

RECURSIVE unmarshal(_, _), unmarshalReferences(_, _, _)

\* Wrong variant: one level more.
TooDeep_OffByOne(depth) == depth > MaxReferenceDepth + 1

TooDeep(depth) == depth > MaxReferenceDepth

\* One offset from the front of data, and the number of parts it took.
unmarshal(data, depth) ==
    IF TooDeep(depth) THEN Failed("depth")
    ELSE IF Len(data) < Parts THEN Failed("short")
    ELSE IF data[2].version # Version THEN Failed("version")
    ELSE LET refs == unmarshalReferences(Drop(data, Parts), depth + 1, data[2].numRefs)
         IN IF refs.err # "none" THEN refs
            ELSE [err |-> "none", n |-> Parts + refs.n,
                  offset |-> [Signature |-> data[1],
                              AuthorityPubkey |-> data[2].AuthorityPubkey,
                              SenderPubkey |-> data[2].SenderPubkey,
                              fields |-> data[2].fields,
                              References |-> refs.offsets]]

\* The loop over the numRefs references, which ends at the first error.
unmarshalReferences(data, depth, numRefs) ==
    IF numRefs = 0 THEN [err |-> "none", n |-> 0, offsets |-> << >>]
    ELSE LET first == unmarshal(data, depth)
         IN IF first.err # "none" THEN first
            ELSE LET rest == unmarshalReferences(Drop(data, first.n), depth, numRefs - 1)
                 IN IF rest.err # "none" THEN rest
                    ELSE [err |-> "none", n |-> first.n + rest.n,
                          offsets |-> <<first.offset>> \o rest.offsets]

RECURSIVE countReferences(_)
countReferences(x) ==
    FoldLeft(LAMBDA n, ref : n + 1 + countReferences(ref), 0, x.References)

\* Wrong variant: what follows the decoded offset is ignored.
Unmarshal_Prefix(data) ==
    LET d == unmarshal(data, 0)
    IN IF d.err # "none" THEN d
       ELSE IF countReferences(d.offset) > MaxTotalReferences THEN Failed("references")
       ELSE d

Unmarshal(data) ==
    LET d == unmarshal(data, 0)
    IN IF d.err # "none" THEN d
       ELSE IF countReferences(d.offset) > MaxTotalReferences THEN Failed("references")
       ELSE IF d.n # Len(data) THEN Failed("trailing")
       ELSE d

----------------------------------------------------------------------------
(* Signing and verifying. *)

\* The offset after Sign: the keys are set first, then all of it is signed.
Signed(x, key, sender) ==
    LET y == [x EXCEPT !.AuthorityPubkey = key, !.SenderPubkey = sender]
    IN [y EXCEPT !.Signature = Ed25519Sign(key, SigningBytes(y))]

Verify(x) == Ed25519Verify(x.AuthorityPubkey, SigningBytes(x), x.Signature)

RECURSIVE VerifyChain(_)
VerifyChain(x) ==
    Verify(x) /\ \A i \in DOMAIN x.References : VerifyChain(x.References[i])

----------------------------------------------------------------------------
(* Replies. *)

challengedBit == 128

\* marshalPayload: what a reply's signature covers.
marshalPayload(r) ==
    [AuthorityPubkey |-> r.AuthorityPubkey, info |-> r.info,
     numOffsets |-> Len(r.Offsets) + (IF r.Challenged THEN challengedBit ELSE 0),
     blobs |-> FlattenSeq(r.Offsets)]

\* NewReplyPacket refuses too many offsets and offsets of another size.
Sendable(blobs) ==
    /\ Len(blobs) <= MaxOffsets
    /\ \A i \in DOMAIN blobs : Len(blobs[i]) = Parts

\* The reply repeats what ParseOffsetInfo finds in the first offset.
NewReplyPacket(blobs, key, challenged) ==
    LET r == [AuthorityPubkey |-> key, Offsets |-> blobs, Challenged |-> challenged,
              Signature |-> NoSignature,
              info |-> IF blobs = << >> THEN 0 ELSE blobs[1][2].fields]
    IN [r EXCEPT !.Signature = Ed25519Sign(key, marshalPayload(r))]

ReplyVerify(r) == Ed25519Verify(r.AuthorityPubkey, marshalPayload(r), r.Signature)

ReplyMarshal(r) == [payload |-> marshalPayload(r), Signature |-> r.Signature]

\* Wrong variant: the count is read without masking the Challenged bit.
numOffsets_Unmasked(w) == w.payload.numOffsets

numOffsets(w) == w.payload.numOffsets % challengedBit

\* A datagram whose length is not the one its count of offsets calls for is
\* refused; the rest is cut into blobs of one offset each.
UnmarshalReplyPacket(w) ==
    IF numOffsets(w) > MaxOffsets \/ Len(w.payload.blobs) # Parts * numOffsets(w)
    THEN Failed("invalid packet")
    ELSE [err |-> "none",
          reply |->
            [AuthorityPubkey |-> w.payload.AuthorityPubkey, info |-> w.payload.info,
             Offsets |-> [i \in 1 .. numOffsets(w) |->
                            SubSeq(w.payload.blobs, Parts * (i - 1) + 1, Parts * i)],
             Challenged |-> w.payload.numOffsets >= challengedBit,
             Signature |-> w.Signature]]

\* observe: what the attester reports of a reply's offsets.
offsetView(b) ==
    LET d == Unmarshal(b)
    IN IF d.err # "none" THEN [Valid |-> FALSE]
       ELSE [Authority |-> d.offset.AuthorityPubkey, fields |-> d.offset.fields,
             Valid |-> VerifyChain(d.offset)]

----------------------------------------------------------------------------
(* The offsets of a chain, by the path of indices that leads to each. *)

RECURSIVE Paths(_), At(_, _), Put(_, _, _)
Paths(x) == {<< >>} \cup
    UNION {{<<i>> \o p : p \in Paths(x.References[i])} : i \in DOMAIN x.References}
At(x, p) == IF p = << >> THEN x ELSE At(x.References[Head(p)], Tail(p))
Put(x, p, y) ==
    IF p = << >> THEN y
    ELSE [x EXCEPT !.References[Head(p)] = Put(@, Tail(p), y)]

Nodes(x) == {At(x, p) : p \in Paths(x)}

WithinLimits(x) ==
    /\ \A p \in Paths(x) : Len(p) <= MaxReferenceDepth
    /\ Cardinality(Paths(x)) - 1 <= MaxTotalReferences

----------------------------------------------------------------------------
(* The life of an offset: built, signed and changed in any order, encoded, *)
(* decoded, or sent in a reply and read by the attester.                   *)

MayChange == stage = "memory" /\ steps < MaxSteps /\ Cardinality(Paths(o)) <= MaxSignedNodes

Sign(p, key) ==
    /\ MayChange
    /\ LET x == Signed(At(o, p), key, key)
       IN o' = Put(o, p, x) /\ signed' = signed \cup {x}
    /\ steps' = steps + 1
    /\ UNCHANGED <<blob, read, wire, seen, stage, intact, replies>>

\* A field of an offset in the chain is assigned.
Assign(p) ==
    /\ MayChange
    /\ o' = Put(o, p, [At(o, p) EXCEPT !.fields = 0])
    /\ steps' = steps + 1
    /\ UNCHANGED <<blob, read, wire, seen, stage, intact, signed, replies>>

Encode ==
    /\ stage = "memory"
    /\ blob' = Marshal(o)
    /\ stage' = "encoded"
    /\ UNCHANGED <<o, read, wire, seen, intact, steps, signed, replies>>

\* A header of which one field has changed.
Garbled(h) ==
    {[h EXCEPT !.version = 0], [h EXCEPT !.fields = 0]}
      \cup {[h EXCEPT !.AuthorityPubkey = key] : key \in Keys}
      \cup {[h EXCEPT !.numRefs = n] : n \in 0 .. RefWord - 1}

\* One part of an encoding has changed, or it was cut or extended by a part.
Damaged(data) ==
    {[data EXCEPT ![i] = NoSignature] : i \in {j \in DOMAIN data : j % Parts = 1}}
      \cup UNION {{[data EXCEPT ![i] = h] : h \in Garbled(data[i])} :
                  i \in {j \in DOMAIN data : j % Parts = 0}}
      \cup {SubSeq(data, 1, n) : n \in {0, Len(data) - 1, Len(data) - Parts} \cap Nat}
      \cup {Append(data, NoSignature)}

DamageBlob ==
    /\ stage = "encoded" /\ intact
    /\ blob' \in Damaged(blob) \ {blob}
    /\ intact' = FALSE
    /\ UNCHANGED <<o, read, wire, seen, stage, steps, signed, replies>>

Decode ==
    /\ stage = "encoded"
    /\ read' = Unmarshal(blob)
    /\ stage' = "decoded"
    /\ UNCHANGED <<o, blob, wire, seen, intact, steps, signed, replies>>

\* An offset signed by key, to fill a vector with.
Filler(key) == Marshal(Signed(NewOffset(0, << >>), key, key))

Vectors(key) ==
    {<< >>, <<blob>>, <<Filler(key), blob>>}
      \cup {[i \in 1 .. n |-> Filler(key)] : n \in MaxOffsets .. MaxOffsets + 1}

\* The reflector answers with these offsets; nothing is sent on an error.
Reply(key, challenged) ==
    /\ stage = "encoded" /\ intact
    /\ \E v \in Vectors(key) :
        /\ Sendable(v)
        /\ LET r == NewReplyPacket(v, key, challenged)
           IN wire' = ReplyMarshal(r) /\ replies' = replies \cup {r}
    /\ stage' = "sent"
    /\ UNCHANGED <<o, blob, read, seen, intact, steps, signed>>

\* One field of the datagram has changed, or its length has.
DamageWire ==
    /\ stage = "sent" /\ intact
    /\ \/ \E n \in 0 .. MaxOffsets + 1, c \in {0, challengedBit} :
            /\ n + c # wire.payload.numOffsets
            /\ wire' = [wire EXCEPT !.payload.numOffsets = n + c]
       \/ \E b \in Damaged(wire.payload.blobs) \ {wire.payload.blobs} :
            wire' = [wire EXCEPT !.payload.blobs = b]
       \/ wire' = [wire EXCEPT !.Signature = NoSignature]
    /\ intact' = FALSE
    /\ UNCHANGED <<o, blob, read, seen, stage, steps, signed, replies>>

\* The attester: decode, verify, report.
Receive ==
    /\ stage = "sent"
    /\ LET d == UnmarshalReplyPacket(wire)
       IN seen' = IF d.err # "none" THEN d
                  ELSE [err |-> "none", reply |-> d.reply,
                        valid |-> ReplyVerify(d.reply),
                        views |-> [i \in DOMAIN d.reply.Offsets |->
                                    offsetView(d.reply.Offsets[i])]]
    /\ stage' = "received"
    /\ UNCHANGED <<o, blob, read, wire, intact, steps, signed, replies>>

Init ==
    /\ o \in Offsets
    /\ blob = << >> /\ wire = << >>
    /\ read = Failed("not decoded") /\ seen = Failed("not received")
    /\ stage = "memory" /\ intact = TRUE /\ steps = 0
    /\ signed = {} /\ replies = {}

Next ==
    \/ \E p \in Paths(o) : Assign(p) \/ \E key \in Keys : Sign(p, key)
    \/ Encode
    \/ DamageBlob
    \/ Decode
    \/ \E key \in Keys, challenged \in BOOLEAN : Reply(key, challenged)
    \/ DamageWire
    \/ Receive

Spec == Init /\ [][Next]_vars

----------------------------------------------------------------------------
(* Properties. *)

\* An offset comes back from its encoding exactly, when its chain is within the
\* limits of the decoder; every other offset is refused, also one whose number
\* of references does not fit the byte it is written in: no offset comes back
\* as another.  (LocationOffset.Marshal and Unmarshal.)
RoundTrip ==
    stage = "decoded" /\ intact =>
        /\ Len(blob) = EncodedLen(o)
        /\ IF WithinLimits(o) THEN read.err = "none" /\ read.offset = o
                              ELSE read.err # "none"

\* Whatever the bytes, what Unmarshal accepts is within the limits on depth and
\* references and encodes to those very bytes, so no two encodings, damaged or
\* not, are read as the same offset.
OneEncoding ==
    read.err = "none" =>
        /\ WithinLimits(read.offset)
        /\ Marshal(read.offset) = blob

\* "A valid chain proves each hop was signed by the key it names" (VerifyChain):
\* of an offset that was decoded, the chain verifies if and only if every offset
\* in it is one that Sign left exactly so, references and their signatures
\* included, in whatever order they were signed, changed and signed again, and
\* whatever happened to the bytes.
ChainAsSigned ==
    read.err = "none" =>
        (VerifyChain(read.offset) <=> Nodes(read.offset) \subseteq signed)

\* A reply that the attester decodes and verifies is one that NewReplyPacket
\* made, with its Challenged flag and its offsets, and a reply that was not
\* damaged is decoded and verified.  Each of its offsets is reported valid if
\* and only if it was signed, and the position in the reply is its first
\* offset's.  (UnmarshalReplyPacket, ReplyPacket.Verify, observe.)
ReplyAsMade ==
    stage = "received" =>
        /\ intact => seen.err = "none" /\ seen.valid
        /\ seen.err = "none" /\ seen.valid =>
            /\ seen.reply \in replies
            /\ seen.views # << >> => seen.views[1].fields = seen.reply.info
            /\ \A i \in DOMAIN seen.views :
                seen.views[i].Valid <=>
                    seen.reply.Offsets[i] \in {Marshal(x) : x \in signed}
                                                \cup {Filler(key) : key \in Keys}
============================================================================
