-------------------------- MODULE ReflectorProofs --------------------------
(***************************************************************************)
(* Theorems about Reflector, for every value of its constants.             *)
(***************************************************************************)
EXTENDS Reflector, SequenceTheorems, TLAPS

----------------------------------------------------------------------------
(* Facts about the operators. *)

\* The first element of a sequence that is not empty.
LEMMA FirstElement ==
  ASSUME NEW S, NEW q \in Seq(S), q # << >>
  PROVE  1 \in DOMAIN q /\ q[1] \in S /\ Head(q) = q[1] /\ Tail(q) \in Seq(S)
  BY SMT

\* Appending keeps the old elements in place.
LEMMA AppendElements ==
  ASSUME NEW S, NEW q \in Seq(S), NEW e \in S
  PROVE  /\ Append(q, e) \in Seq(S)
         /\ Len(Append(q, e)) = Len(q) + 1
         /\ \A i \in 1 .. Len(q) : Append(q, e)[i] = q[i]
         /\ Append(q, e)[Len(q) + 1] = e
  BY AppendProperties, SMT

\* The conversion to an unsigned field stays within the field.
LEMMA Uint64Type == \A x \in Int : Uint64(x) \in Stamps
  BY WordAssumption, SMT DEF Uint64, Stamps

\* A timestamp is a value of its field.
LEMMA NtpType == \A t \in Int : ntpTimestamp(t) \in Stamps
  BY WordAssumption, SMT DEF ntpTimestamp, Stamps, NtpEpochOffset

\* Zero is a value of every field.
LEMMA ZeroIsStamp == 0 \in Stamps
  BY WordAssumption, SMT DEF Stamps

\* The state of a key that has never been seen, or was deleted.
LEMMA FreshType == Fresh \in States
  BY SMT DEF Fresh, States, NoIP, ZeroTime

\* The resets, and the two ways to go on, keep a pair state well typed.
LEMMA PairTypes ==
  ASSUME NEW s \in States, NEW now \in Nat
  PROVE  /\ AfterResets(s, now) \in States
         /\ ClosePair(s) \in States
         /\ \A ip \in IPs, n \in Nonces \cup {0} : OpenPair(s, ip, now, n) \in States
         /\ \A t \in Nat : [s EXCEPT !.lastTx = t] \in States
         /\ SinceLastTx(s, now) \in Stamps
<1>1. AfterResets(s, now) \in States
  <2>1. [s EXCEPT !.pairCount = 0, !.nonce = 0] \in States
    BY Zenon DEF States
  <2>2. QED
    BY <2>1 DEF AfterResets
<1>2. ClosePair(s) \in States
  <2>1. s.pairCount + 1 \in Nat
    BY SMT DEF States
  <2>2. QED
    BY <2>1, Zenon DEF ClosePair, States
<1>3. \A ip \in IPs, n \in Nonces \cup {0} : OpenPair(s, ip, now, n) \in States
  <2>1. 1 \in Nat
    OBVIOUS
  <2>2. QED
    BY <2>1, Zenon DEF OpenPair, States
<1>4. \A t \in Nat : [s EXCEPT !.lastTx = t] \in States
  BY SMT DEF States
<1>5. SinceLastTx(s, now) \in Stamps
  <2>1. CASE s.lastTx # ZeroTime
    <3>1. now - s.lastTx \in Int
      BY <2>1, SMT DEF States
    <3>2. QED
      BY <2>1, <3>1, Uint64Type DEF SinceLastTx
  <2>2. CASE s.lastTx = ZeroTime
    BY <2>2, ZeroIsStamp DEF SinceLastTx
  <2>3. QED
    BY <2>1, <2>2
<1>6. QED
  BY <1>1, <1>2, <1>3, <1>4, <1>5

\* What the reflector reads from a vector of offsets.
LEMMA InfoType ==
  ASSUME NEW v \in OffsetVectors
  PROVE  ParseOffsetInfo(v).slot \in Nat /\ ParseOffsetInfo(v).rtt \in Stamps
<1>1. v \in Seq([size : Nat, slot : Nat, rtt : Stamps])
  BY OffsetAssumption DEF Stamps
<1>2. CASE v = << >>
  BY <1>2, ZeroIsStamp DEF ParseOffsetInfo, OffsetInfo
<1>3. CASE v # << >>
  <2>1. v[1] \in [size : Nat, slot : Nat, rtt : Stamps]
    BY <1>1, <1>3, FirstElement
  <2>2. QED
    BY <2>1, <1>3, ZeroIsStamp DEF ParseOffsetInfo, OffsetInfo
<1>4. QED
  BY <1>2, <1>3

----------------------------------------------------------------------------
(* Type correctness. *)

\* A step of Reply in a well-typed state.
LEMMA ReplyType ==
  ASSUME TypeOK, NEW d \in Datagrams, NEW s \in States, s.pairStart \in Nat,
         s.pairCount \in Nat \ {0},
         NEW since \in Stamps \cup Nonces, NEW rtt \in Stamps,
         NEW challenged \in BOOLEAN, Reply(d, s, since, rtt, challenged)
  PROVE  /\ states' \in [Keys -> States]
         /\ sent' \in Seq(SentReplies)
         /\ late' \in [Keys -> Nat]
<1> DEFINE key == d.probe.key
           info == ParseOffsetInfo(offsets)
           reply == NewReplyPacket(d.probe, AnchorKey, info.slot, since, rtt, challenged)
           entry == [reply |-> reply, to |-> d.from, role |-> s.pairCount - 1,
                     rx |-> d.rx, tx |-> wall, start |-> s.pairStart,
                     gen |-> gen[key]]
<1>1. key \in Keys /\ d.probe \in Probes /\ d.from \in IPs /\ d.rx \in Nat
  BY DEF Datagrams, Probes
<1>2. CASE Sendable(offsets)
  <2>1. states' = [states EXCEPT ![key] = [s EXCEPT !.lastTx = wall]]
    BY <1>2 DEF Reply
  <2>2. [s EXCEPT !.lastTx = wall] \in States
    BY PairTypes DEF TypeOK
  <2>3. reply \in Replies
    <3>1. info.slot \in Nat
      BY InfoType DEF TypeOK
    <3>2. QED
      BY <1>1, <3>1 DEF NewReplyPacket, Replies
  <2>4. entry \in SentReplies
    <3>1. s.pairCount - 1 \in Nat /\ wall \in Nat /\ gen[key] \in Nat
      BY <1>1 DEF TypeOK
    <3>2. QED
      BY <1>1, <2>3, <3>1 DEF SentReplies
  <2>5. sent' = Append(sent, entry)
    BY <1>2 DEF Reply
  <2>6. late' = [late EXCEPT ![key] = IF key \in authorizedKeys THEN 0 ELSE @ + 1]
    BY <1>2 DEF Reply
  <2>7. sent' \in Seq(SentReplies)
    BY <2>4, <2>5, AppendElements DEF TypeOK
  <2>8. late' \in [Keys -> Nat]
    BY <2>6, <1>1 DEF TypeOK
  <2>9. QED
    BY <1>1, <2>1, <2>2, <2>7, <2>8 DEF TypeOK
<1>3. CASE ~Sendable(offsets)
  BY <1>1, <1>3 DEF Reply, TypeOK
<1>4. QED
  BY <1>2, <1>3

\* A state in which a pair is under way or complete knows when it started.
PairStarted ==
    \A k \in Keys : states[k].pairCount # 0 => states[k].pairStart \in Nat

TypeInv == TypeOK /\ PairStarted

\* The probe in hand is a datagram of an authorized or a just revoked key.
LEMMA InHandType ==
  ASSUME TypeOK, NEW d \in {inHand[i] : i \in DOMAIN inHand}
  PROVE  d \in Datagrams /\ d.probe.key \in Keys /\ d.from \in IPs /\ d.rx \in Nat
<1>1. d \in Datagrams
  BY ElementOfSeq DEF TypeOK
<1>2. QED
  BY <1>1 DEF Datagrams, Probes

\* What the two answers hand to Reply: a state in which a pair has started.
LEMMA AnswerTypes ==
  ASSUME TypeInv, NEW d \in Datagrams, NEW nonce \in Nonces \cup {0}
  PROVE  LET s == AfterResets(states[d.probe.key], d.rx)
             open == OpenPair(s, d.from, d.rx, nonce)
         IN  /\ s \in States
             /\ open \in States /\ open.pairCount = 1 /\ open.pairStart = d.rx
             /\ open.nonce = nonce /\ open.ip = d.from /\ open.lastTx = s.lastTx
             /\ s.pairCount # 0 =>
                   /\ s = states[d.probe.key]
                   /\ s.pairStart \in Nat
                   /\ ClosePair(s) \in States
                   /\ ClosePair(s).pairCount = s.pairCount + 1
                   /\ ClosePair(s).pairStart = s.pairStart
                   /\ ClosePair(s).nonce = 0
                   /\ ClosePair(s).ip = s.ip
                   /\ ClosePair(s).lastTx = s.lastTx
<1> DEFINE key == d.probe.key
           s == AfterResets(states[key], d.rx)
           open == OpenPair(s, d.from, d.rx, nonce)
<1>1. key \in Keys /\ d.from \in IPs /\ d.rx \in Nat /\ states[key] \in States
  BY DEF Datagrams, Probes, TypeInv, TypeOK
<1>2. s \in States
  BY <1>1, PairTypes
<1>3. open \in States
  BY <1>1, <1>2, PairTypes
<1>4. /\ open.pairCount = 1 /\ open.pairStart = d.rx /\ open.nonce = nonce
      /\ open.ip = d.from /\ open.lastTx = s.lastTx
  BY <1>2 DEF OpenPair, States
<1>5. ASSUME s.pairCount # 0
      PROVE  /\ s = states[key] /\ s.pairStart \in Nat
             /\ ClosePair(s) \in States
             /\ ClosePair(s).pairCount = s.pairCount + 1
             /\ ClosePair(s).pairStart = s.pairStart
             /\ ClosePair(s).nonce = 0
             /\ ClosePair(s).ip = s.ip
             /\ ClosePair(s).lastTx = s.lastTx
  <2>1. s = states[key]
    <3>1. CASE WindowOver(states[key]) \/ StalePair(states[key], d.rx)
      <4>1. s = [states[key] EXCEPT !.pairCount = 0, !.nonce = 0]
        BY <3>1 DEF AfterResets
      <4>2. s.pairCount = 0
        BY <4>1, <1>1 DEF States
      <4>3. QED
        BY <4>2, <1>5
    <3>2. QED
      BY <3>1 DEF AfterResets
  <2>2. s.pairStart \in Nat
    BY <2>1, <1>1, <1>5 DEF TypeInv, PairStarted
  <2>3. ClosePair(s) \in States
    BY <1>1, <1>2, PairTypes
  <2>4. /\ ClosePair(s).pairCount = s.pairCount + 1
        /\ ClosePair(s).pairStart = s.pairStart
        /\ ClosePair(s).nonce = 0
        /\ ClosePair(s).ip = s.ip
        /\ ClosePair(s).lastTx = s.lastTx
    BY <1>2 DEF ClosePair, States
  <2>5. QED
    BY <2>1, <2>2, <2>3, <2>4
<1>6. QED
  BY <1>2, <1>3, <1>4, <1>5

\* What a step of Reply does to the pair states.
LEMMA ReplyStates ==
  ASSUME TypeOK, NEW d \in Datagrams, NEW s \in States,
         NEW since, NEW rtt, NEW challenged, Reply(d, s, since, rtt, challenged)
  PROVE  LET key == d.probe.key IN
         /\ \A k \in Keys \ {key} : states'[k] = states[k]
         /\ states'[key].pairCount = s.pairCount
         /\ states'[key].pairStart = s.pairStart
         /\ states'[key].nonce = s.nonce
         /\ states'[key].ip = s.ip
         /\ states'[key].lastTx = IF Sendable(offsets) THEN wall ELSE s.lastTx
<1>1. d.probe.key \in Keys
  BY DEF Datagrams, Probes
<1>2. CASE Sendable(offsets)
  <2>1. states' = [states EXCEPT ![d.probe.key] = [s EXCEPT !.lastTx = wall]]
    BY <1>2 DEF Reply
  <2>2. QED
    BY <1>1, <1>2, <2>1 DEF TypeOK, States
<1>3. CASE ~Sendable(offsets)
  BY <1>1, <1>3 DEF Reply, TypeOK
<1>4. QED
  BY <1>2, <1>3

\* The type invariant holds initially.
LEMMA TypeInit == Init => TypeInv
<1> SUFFICES ASSUME Init PROVE TypeInv
  OBVIOUS
<1>1. states \in [Keys -> States] /\ \A k \in Keys : states[k].pairCount = 0
  BY FreshType DEF Init, Fresh
<1>2. << >> \in Seq(Datagrams) /\ << >> \in Seq(SentReplies) /\ Len(<< >>) = 0
  OBVIOUS
<1>3. reload \in Reloads
  BY DEF Init, Idle, Reloads
<1>4. QED
  BY <1>1, <1>2, <1>3 DEF Init, TypeInv, TypeOK, PairStarted

\* Every step of the reflector goroutine on an authorized probe preserves it.
LEMMA TypeHandle == TypeInv /\ Handle => TypeInv'
<1> SUFFICES ASSUME TypeInv, NEW d \in {inHand[i] : i \in DOMAIN inHand},
                    \/ DropRateLimited(d) \/ DropOtherSource(d)
                    \/ (\E nonce \in randomNonce : AnswerProbe0(d, nonce))
                    \/ AnswerProbe1(d)
             PROVE  TypeInv'
  BY DEF Handle
<1> DEFINE key == d.probe.key
           s == AfterResets(states[key], d.rx)
<1>1. TypeOK /\ PairStarted
  BY DEF TypeInv
<1>2. d \in Datagrams /\ key \in Keys /\ d.from \in IPs /\ d.rx \in Nat
  BY <1>1, InHandType
<1>3. << >> \in Seq(Datagrams) /\ Len(<< >>) = 0
  OBVIOUS
<1>4. CASE DropRateLimited(d) \/ DropOtherSource(d)
  <2>1. /\ inHand' = << >>
        /\ UNCHANGED <<wall, inbox, authorizedKeys, states, offsets, reload, sent,
                       gen, late, drawn>>
    BY <1>4 DEF DropRateLimited, DropOtherSource, ghostVars
  <2>2. QED
    BY <1>1, <1>3, <2>1 DEF TypeInv, TypeOK, PairStarted
<1>5. ASSUME NEW nonce \in randomNonce, AnswerProbe0(d, nonce)
      PROVE  TypeInv'
  <2> DEFINE open == OpenPair(s, d.from, d.rx, nonce)
  <2>1. nonce \in Nonces \cup {0}
    BY DEF randomNonce
  <2>2. open \in States /\ open.pairCount = 1 /\ open.pairStart = d.rx
    BY <1>2, <2>1, AnswerTypes
  <2>3. Reply(d, open, nonce, ParseOffsetInfo(offsets).rtt, FALSE)
    BY <1>5 DEF AnswerProbe0
  <2>4. nonce \in Stamps \cup Nonces /\ ParseOffsetInfo(offsets).rtt \in Stamps
    BY <1>1, <2>1, ZeroIsStamp, InfoType DEF TypeOK
  <2>5. /\ states' \in [Keys -> States] /\ sent' \in Seq(SentReplies)
        /\ late' \in [Keys -> Nat]
    <3>1. open.pairStart \in Nat /\ open.pairCount \in Nat \ {0}
      BY <1>2, <2>2
    <3>2. FALSE \in BOOLEAN
      OBVIOUS
    <3> HIDE DEF open
    <3>3. QED
      BY <1>1, <1>2, <2>2, <2>3, <2>4, <3>1, <3>2, ReplyType
  <2>6. drawn' \in SUBSET Nonces
    BY <1>1, <1>5, <2>1 DEF AnswerProbe0, TypeOK
  <2>7. PairStarted'
    <3>1. states'[key].pairStart = d.rx /\ \A k \in Keys \ {key} : states'[k] = states[k]
      <4> HIDE DEF open
      <4>1. QED
        BY <1>1, <1>2, <2>2, <2>3, ReplyStates
    <3>2. QED
      BY <1>1, <1>2, <3>1 DEF PairStarted
  <2>8. QED
    BY <1>1, <1>3, <1>5, <2>5, <2>6, <2>7 DEF AnswerProbe0, TypeInv, TypeOK
<1>6. CASE AnswerProbe1(d)
  <2> DEFINE close == ClosePair(s)
             since == SinceLastTx(s, d.rx)
             rtt == Uint64(ParseOffsetInfo(offsets).rtt + since)
  <2>1. s.pairCount # 0
    BY <1>6 DEF AnswerProbe1
  <2>2. /\ s \in States /\ close \in States /\ s.pairStart \in Nat
        /\ close.pairCount = s.pairCount + 1 /\ close.pairStart = s.pairStart
    BY <1>2, <2>1, AnswerTypes
  <2>3. since \in Stamps
    BY <1>2, <2>2, PairTypes
  <2>4. rtt \in Stamps
    <3>1. ParseOffsetInfo(offsets).rtt \in Stamps
      BY <1>1, InfoType DEF TypeOK
    <3>2. ParseOffsetInfo(offsets).rtt + since \in Int
      BY <3>1, <2>3, WordAssumption DEF Stamps
    <3>3. QED
      BY <3>2, Uint64Type
  <2>5. Reply(d, close, since, rtt, Challenged(s, d.probe))
    BY <1>6 DEF AnswerProbe1
  <2>6. Challenged(s, d.probe) \in BOOLEAN
    BY DEF Challenged
  <2>7. close.pairStart \in Nat /\ close.pairCount \in Nat \ {0}
    BY <2>2 DEF States
  <2>8. /\ states' \in [Keys -> States] /\ sent' \in Seq(SentReplies)
        /\ late' \in [Keys -> Nat]
    <3> HIDE DEF close, since, rtt
    <3>1. QED
      BY <1>1, <1>2, <2>2, <2>3, <2>4, <2>5, <2>6, <2>7, ReplyType
  <2>9. PairStarted'
    <3>1. states'[key].pairStart = close.pairStart /\ \A k \in Keys \ {key} : states'[k] = states[k]
      <4> HIDE DEF close, since, rtt
      <4>1. QED
        BY <1>1, <1>2, <2>2, <2>5, ReplyStates
    <3>2. QED
      BY <1>1, <1>2, <2>7, <3>1 DEF PairStarted
  <2>10. QED
    BY <1>1, <1>3, <1>6, <2>8, <2>9 DEF AnswerProbe1, TypeInv, TypeOK
<1>7. QED
  BY <1>4, <1>5, <1>6

\* So does the arrival of a datagram.
LEMMA TypeArrive ==
  ASSUME TypeInv, NEW size \in Nat, NEW probe \in Probes, NEW ip \in IPs,
         Arrive(size, probe, ip)
  PROVE  TypeInv'
<1>1. TypeOK /\ PairStarted
  BY DEF TypeInv
<1>2. [size |-> size, probe |-> probe, from |-> ip, rx |-> wall] \in Datagrams
  BY <1>1 DEF Datagrams, TypeOK
<1>3. inbox' \in Seq(Datagrams)
  BY <1>1, <1>2, AppendElements DEF Arrive, TypeOK
<1>4. QED
  BY <1>1, <1>3 DEF Arrive, TypeInv, TypeOK, PairStarted, ghostVars

\* So does every other step.
LEMMA TypeStep == TypeInv /\ [Next]_vars => TypeInv'
<1> SUFFICES ASSUME TypeInv, [Next]_vars PROVE TypeInv'
  OBVIOUS
<1>1. TypeOK /\ PairStarted
  BY DEF TypeInv
<1>2. CASE Handle
  BY <1>2, TypeHandle
<1>3. CASE Receive
  <2>1. inbox # << >> /\ inHand = << >>
    BY <1>3 DEF Receive, DropMalformed, DropUnauthorized, Authorize, Reading
  <2>2. Tail(inbox) \in Seq(Datagrams) /\ Head(inbox) \in Datagrams
    BY <1>1, <2>1, FirstElement DEF TypeOK
  <2>3. <<Head(inbox)>> \in Seq(Datagrams) /\ Len(<<Head(inbox)>>) = 1
    BY <2>2
  <2>4. /\ inbox' = Tail(inbox)
        /\ inHand' = inHand \/ inHand' = <<Head(inbox)>>
        /\ UNCHANGED <<wall, authorizedKeys, states, offsets, reload, sent,
                       gen, late, drawn>>
    BY <1>3 DEF Receive, DropMalformed, DropUnauthorized, Authorize, ghostVars
  <2>5. inHand' \in Seq(Datagrams) /\ Len(inHand') <= 1
    <3>1. CASE inHand' = inHand
      BY <1>1, <3>1 DEF TypeOK
    <3>2. CASE inHand' = <<Head(inbox)>>
      <4> DEFINE q == <<Head(inbox)>>
      <4>1. q \in Seq(Datagrams) /\ Len(q) <= 1
        BY <2>3
      <4> HIDE DEF q
      <4>2. inHand' = q
        BY <3>2 DEF q
      <4>3. QED
        BY <4>1, <4>2
    <3>3. QED
      BY <2>4, <3>1, <3>2
  <2>6. QED
    BY <1>1, <2>2, <2>4, <2>5 DEF TypeInv, TypeOK, PairStarted
<1>4. CASE Reload
  <2>1. ASSUME NEW keys \in AllowLists, SetAuthorizedKeys(keys)
        PROVE  TypeInv'
    BY <1>1, <2>1, AllowListAssumption
    DEF SetAuthorizedKeys, TypeInv, TypeOK, PairStarted, Reloads, ghostVars
  <2>2. ASSUME NEW key \in Keys, RangeKey(key)
        PROVE  TypeInv'
    BY <1>1, <2>2 DEF RangeKey, TypeInv, TypeOK, PairStarted, Reloads, ghostVars
  <2>3. ASSUME NEW key \in Keys, DeleteState(key)
        PROVE  TypeInv'
    <3>1. states' \in [Keys -> States] /\ gen' \in [Keys -> Nat]
      BY <1>1, <2>3, FreshType DEF DeleteState, TypeOK
    <3>2. PairStarted'
      BY <1>1, <2>3 DEF DeleteState, TypeOK, PairStarted, Fresh
    <3>3. QED
      BY <1>1, <2>3, <3>1, <3>2 DEF DeleteState, TypeInv, TypeOK, Reloads
  <2>4. ASSUME NEW key \in Keys, StoreKey(key)
        PROVE  TypeInv'
    BY <1>1, <2>4 DEF StoreKey, TypeInv, TypeOK, PairStarted, Reloads
  <2>5. QED
    BY <1>4, <2>1, <2>2, <2>3, <2>4 DEF Reload
<1>5. CASE Environment
  <2>1. ASSUME NEW size \in Sizes, NEW probe \in Probes, NEW ip \in IPs,
               Arrive(size, probe, ip)
        PROVE  TypeInv'
    BY <2>1, SizeAssumption, TypeArrive
  <2>2. \A key \in Keys : NewProbePacket(0, wall, key) \in Probes
    <3>1. ntpTimestamp(wall) \in Stamps
      BY <1>1, NtpType DEF TypeOK
    <3>2. QED
      BY <3>1 DEF NewProbePacket, Probes
  <2>3. \A key \in Keys, n \in Published : newChallengedProbePacket(0, n, key) \in Probes
    BY DEF newChallengedProbePacket, Probes, Published
  <2>4. ASSUME NEW v \in OffsetVectors, SetOffsets(v)
        PROVE  TypeInv'
    BY <1>1, <2>4 DEF SetOffsets, TypeInv, TypeOK, PairStarted, ghostVars
  <2>5. CASE Tick
    BY <1>1, <2>5 DEF Tick, TypeInv, TypeOK, PairStarted, ghostVars
  <2>6. QED
    BY <1>5, <2>1, <2>2, <2>3, <2>4, <2>5 DEF Environment
<1>6. CASE UNCHANGED vars
  BY <1>1, <1>6 DEF vars, TypeInv, TypeOK, PairStarted
<1>7. QED
  BY <1>2, <1>3, <1>4, <1>5, <1>6 DEF Next

\* Every reachable state is well typed; in particular each signed interval and
\* each accumulated RTT is a value of its unsigned field, whatever the order of
\* arrivals, refused replies and reloads.
THEOREM TypeCorrect == Spec => []TypeOK
<1>1. TypeInv => TypeOK
  BY DEF TypeInv
<1>2. QED
  BY <1>1, TypeInit, TypeStep, PTL DEF Spec

----------------------------------------------------------------------------
(* The allowlist. *)

\* What a step of Handle leaves alone.
LEMMA HandleFrame ==
  Handle => /\ inHand' = << >>
            /\ UNCHANGED <<wall, inbox, authorizedKeys, offsets, reload, gen>>
  BY DEF Handle, DropRateLimited, DropOtherSource, AnswerProbe0, AnswerProbe1, ghostVars

\* What a step of the environment leaves alone.
LEMMA EnvironmentFrame ==
  Environment => UNCHANGED <<inHand, authorizedKeys, states, reload, sent, gen, late, drawn>>
  BY DEF Environment, Arrive, SetOffsets, Tick, ghostVars

\* What a step of Receive leaves alone, and what it takes in hand.
LEMMA ReceiveFrame ==
  ASSUME Receive
  PROVE  /\ UNCHANGED <<wall, authorizedKeys, states, offsets, reload, sent, gen, late, drawn>>
         /\ inHand = << >> /\ inbox # << >> /\ inbox' = Tail(inbox)
         /\ \/ inHand' = << >>
            \/ inHand' = <<Head(inbox)>> /\ Head(inbox).probe.key \in authorizedKeys
  BY DEF Receive, DropMalformed, DropUnauthorized, Authorize, Reading, IsAuthorized,
         ghostVars

\* While SetAuthorizedKeys runs: keys still to be visited are in the map, the
\* others that are in it are on the new list, and those stored are in it.
ReloadInv ==
    /\ reload.range \subseteq authorizedKeys
    /\ authorizedKeys \ reload.range \subseteq reload.new
    /\ reload.new \ reload.store \subseteq authorizedKeys
    /\ reload.store \subseteq reload.new

\* Every step keeps the progress of the reload.
LEMMA ReloadStep == TypeInv /\ ReloadInv /\ [Next]_vars => ReloadInv'
<1> SUFFICES ASSUME TypeInv, ReloadInv, [Next]_vars PROVE ReloadInv'
  OBVIOUS
<1>1. TypeOK /\ reload \in Reloads
  BY DEF TypeInv, TypeOK
<1>2. CASE UNCHANGED <<authorizedKeys, reload>>
  BY <1>2 DEF ReloadInv
<1>3. CASE Reload
  <2>1. ASSUME NEW keys \in AllowLists, SetAuthorizedKeys(keys)
        PROVE  ReloadInv'
    BY <2>1 DEF SetAuthorizedKeys, ReloadInv
  <2>2. ASSUME NEW key \in Keys, RangeKey(key)
        PROVE  ReloadInv'
    <3>1. /\ reload'.new = reload.new /\ reload'.store = reload.store
          /\ reload'.range = reload.range \ {key}
      BY <1>1, <2>2 DEF RangeKey, Reloads
    <3>2. /\ key \in reload.range
          /\ authorizedKeys' = IF key \in reload.new THEN authorizedKeys
                                                     ELSE authorizedKeys \ {key}
      BY <2>2 DEF RangeKey
    <3>3. QED
      BY <3>1, <3>2 DEF ReloadInv
  <2>3. ASSUME NEW key \in Keys, DeleteState(key)
        PROVE  ReloadInv'
    BY <1>1, <2>3 DEF DeleteState, ReloadInv, Reloads
  <2>4. ASSUME NEW key \in Keys, StoreKey(key)
        PROVE  ReloadInv'
    <3>1. /\ reload'.new = reload.new /\ reload'.range = reload.range
          /\ reload'.store = reload.store \ {key}
      BY <1>1, <2>4 DEF StoreKey, Reloads
    <3>2. key \in reload.store /\ authorizedKeys' = authorizedKeys \cup {key}
      BY <2>4 DEF StoreKey
    <3>3. QED
      BY <3>1, <3>2 DEF ReloadInv
  <2>5. QED
    BY <1>3, <2>1, <2>2, <2>3, <2>4 DEF Reload
<1>4. QED
  BY <1>2, <1>3, HandleFrame, EnvironmentFrame, ReceiveFrame DEF Next, vars

\* Whenever no reload is under way the allowlist is exactly the list last given
\* to SetAuthorizedKeys, although Range and Store are separate map operations.
THEOREM ReloadCorrect == Spec => []AllowlistReplaced
<1>1. Init => ReloadInv
  BY DEF Init, Idle, ReloadInv
<1>2. ReloadInv => AllowlistReplaced
  BY DEF ReloadInv, AllowlistReplaced, Reloading
<1>3. QED
  BY <1>1, <1>2, TypeInit, TypeStep, ReloadStep, PTL DEF Spec

\* No step takes a key off the allowlist that the list being installed keeps.
THEOREM KeptKeysCorrect == Spec => KeptKeysStayAuthorized
<1> DEFINE Keeps == \A k \in authorizedKeys :
                        k \notin authorizedKeys' => k \notin reload.new
<1>1. Next => Keeps
  <2> SUFFICES ASSUME Next PROVE Keeps
    OBVIOUS
  <2>1. CASE Reload
    BY <2>1 DEF Reload, SetAuthorizedKeys, RangeKey, DeleteState, StoreKey
  <2>2. CASE ~Reload
    BY <2>2, HandleFrame, EnvironmentFrame, ReceiveFrame DEF Next
  <2>3. QED
    BY <2>1, <2>2
<1>2. [Next]_vars => [Keeps]_vars
  BY <1>1
<1>3. QED
  BY <1>2, PTL DEF Spec, KeptKeysStayAuthorized

\* A key that got its late reply is revoked, and no probe of it is in hand.
LateInv ==
    \A k \in Keys :
        /\ late[k] <= 1
        /\ late[k] # 0 =>
              /\ k \notin authorizedKeys
              /\ inHand # << >> => inHand[1].probe.key # k

\* Every step keeps the bound on late replies.
LEMMA LateStep == TypeInv /\ LateInv /\ [Next]_vars => LateInv'
<1> SUFFICES ASSUME TypeInv, LateInv, [Next]_vars PROVE LateInv'
  OBVIOUS
<1>1. TypeOK
  BY DEF TypeInv
<1>2. CASE Handle
  <2>1. inHand' = << >> /\ authorizedKeys' = authorizedKeys
    BY <1>2, HandleFrame
  <2>2. CASE late' = late
    BY <2>1, <2>2 DEF LateInv
  <2>3. CASE late' # late
    <3>1. PICK d \in {inHand[i] : i \in DOMAIN inHand} :
             /\ inHand = <<d>>
             /\ late' = [late EXCEPT ![d.probe.key] =
                           IF d.probe.key \in authorizedKeys THEN 0 ELSE @ + 1]
      BY <1>2, <2>3 DEF Handle, DropRateLimited, DropOtherSource, AnswerProbe0,
                        AnswerProbe1, Reply, ghostVars
    <3>2. d.probe.key \in Keys /\ inHand # << >> /\ inHand[1] = d
      BY <1>1, <3>1, InHandType
    <3>3. late[d.probe.key] = 0
      <4>1. late[d.probe.key] \in Nat
        BY <1>1, <3>2 DEF TypeOK
      <4>2. QED
        BY <3>2, <4>1 DEF LateInv
    <3>4. QED
      BY <1>1, <2>1, <3>1, <3>2, <3>3 DEF LateInv, TypeOK
  <2>4. QED
    BY <2>2, <2>3
<1>3. CASE Receive
  <2>1. late' = late /\ authorizedKeys' = authorizedKeys
    BY <1>3, ReceiveFrame
  <2>2. CASE inHand' = << >>
    BY <2>1, <2>2 DEF LateInv
  <2>3. CASE inHand' # << >>
    <3>1. inHand' = <<Head(inbox)>> /\ Head(inbox).probe.key \in authorizedKeys
      BY <1>3, <2>3, ReceiveFrame
    <3>2. inHand'[1].probe.key \in authorizedKeys
      BY <3>1
    <3>3. QED
      BY <2>1, <3>2 DEF LateInv
  <2>4. QED
    BY <2>2, <2>3
<1>4. CASE Reload
  <2>1. ASSUME NEW keys \in AllowLists, SetAuthorizedKeys(keys)
        PROVE  LateInv'
    BY <2>1 DEF SetAuthorizedKeys, LateInv, ghostVars
  <2>2. ASSUME NEW key \in Keys, RangeKey(key)
        PROVE  LateInv'
    BY <2>2 DEF RangeKey, LateInv, ghostVars
  <2>3. ASSUME NEW key \in Keys, DeleteState(key)
        PROVE  LateInv'
    BY <2>3 DEF DeleteState, LateInv
  <2>4. ASSUME NEW key \in Keys, StoreKey(key)
        PROVE  LateInv'
    BY <1>1, <2>4 DEF StoreKey, LateInv, TypeOK
  <2>5. QED
    BY <1>4, <2>1, <2>2, <2>3, <2>4 DEF Reload
<1>5. CASE Environment \/ UNCHANGED vars
  <2>1. UNCHANGED <<late, inHand, authorizedKeys>>
    BY <1>5, EnvironmentFrame DEF vars
  <2>2. QED
    BY <2>1 DEF LateInv
<1>6. QED
  BY <1>2, <1>3, <1>4, <1>5 DEF Next

\* Deleting a key from the allowlist races with at most one reply to it.
THEOREM RevocationCorrect == Spec => []RevocationBounded
<1>1. Init => LateInv
  BY DEF Init, LateInv
<1>2. LateInv => RevocationBounded
  BY DEF LateInv, RevocationBounded
<1>3. QED
  BY <1>1, <1>2, TypeInit, TypeStep, LateStep, PTL DEF Spec
============================================================================
