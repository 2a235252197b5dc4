------------------------ MODULE ReflectorPairProofs ------------------------
(***************************************************************************)
(* Theorems about the pairs of Reflector: the spacing of completed pairs,  *)
(* what a challenged reply proves, and that the reflector implements       *)
(* Challenge, for every value of the constants.                            *)
(***************************************************************************)
EXTENDS ReflectorProofs, ReflectorChallenge

----------------------------------------------------------------------------
(* Facts about sequences and about a step of Reply. *)

\* The elements of a tail.
LEMMA TailElements ==
  ASSUME NEW S, NEW q \in Seq(S), q # << >>
  PROVE  /\ Len(q) \in Nat \ {0} /\ DOMAIN q = 1 .. Len(q)
         /\ DOMAIN Tail(q) = 1 .. Len(q) - 1
         /\ \A i \in 1 .. Len(q) - 1 : Tail(q)[i] = q[i + 1]
  BY HeadTailProperties, LenProperties, EmptySeq, SMT

\* What a step of Reply does to the history of replies.
LEMMA ReplySent ==
  ASSUME TypeOK, NEW d \in Datagrams, NEW s \in States, s.pairStart \in Nat,
         s.pairCount \in Nat \ {0},
         NEW since \in Stamps \cup Nonces, NEW rtt \in Stamps,
         NEW challenged \in BOOLEAN, Reply(d, s, since, rtt, challenged)
  PROVE  /\ Len(sent) \in Nat /\ DOMAIN sent = 1 .. Len(sent)
         /\ Sendable(offsets) =>
              LET n == Len(sent) + 1 IN
              /\ DOMAIN sent' = 1 .. n
              /\ \A i \in 1 .. Len(sent) : sent'[i] = sent[i]
              /\ sent'[n].role = s.pairCount - 1 /\ sent'[n].start = s.pairStart
              /\ sent'[n].rx = d.rx /\ sent'[n].tx = wall
              /\ sent'[n].to = d.from /\ sent'[n].gen = gen[d.probe.key]
              /\ sent'[n].reply.probe = d.probe
              /\ sent'[n].reply.since = since /\ sent'[n].reply.rtt = rtt
              /\ sent'[n].reply.challenged = challenged
         /\ ~Sendable(offsets) => sent' = sent
<1> DEFINE reply == NewReplyPacket(d.probe, AnchorKey, ParseOffsetInfo(offsets).slot,
                                   since, rtt, challenged)
           entry == [reply |-> reply, to |-> d.from, role |-> s.pairCount - 1,
                     rx |-> d.rx, tx |-> wall, start |-> s.pairStart,
                     gen |-> gen[d.probe.key]]
<1>1. Len(sent) \in Nat /\ DOMAIN sent = 1 .. Len(sent) /\ sent \in Seq(SentReplies)
  BY LenProperties DEF TypeOK
<1>2. CASE ~Sendable(offsets)
  BY <1>1, <1>2 DEF Reply
<1>3. CASE Sendable(offsets)
  <2>1. sent' = Append(sent, entry)
    BY <1>3 DEF Reply
  <2>2. /\ sent' \in Seq(SentReplies) /\ Len(sent') = Len(sent) + 1
        /\ \A i \in 1 .. Len(sent) : sent'[i] = sent[i]
        /\ sent'[Len(sent) + 1] = entry
    <3>1. sent' \in Seq(SentReplies)
      BY ReplyType
    <3> HIDE DEF entry
    <3>2. QED
      BY <1>1, <2>1, <3>1, AppendProperties
  <2>3. DOMAIN sent' = 1 .. Len(sent) + 1
    BY <2>2, LenProperties
  <2>4. /\ reply.probe = d.probe /\ reply.since = since /\ reply.rtt = rtt
        /\ reply.challenged = challenged
    BY DEF NewReplyPacket
  <2>5. QED
    BY <1>1, <1>3, <2>2, <2>3, <2>4
<1>4. QED
  BY <1>2, <1>3

\* The n-th reply of sent' is new, the others are those of sent.
Grows(n) ==
    /\ n = Len(sent) + 1 /\ DOMAIN sent' = 1 .. n
    /\ \A i \in 1 .. Len(sent) : sent'[i] = sent[i]

\* The new reply answers datagram d of key.
NewReplyTo(n, d) ==
    /\ sent'[n].rx = d.rx /\ sent'[n].tx = wall /\ sent'[n].to = d.from
    /\ sent'[n].gen = gen[d.probe.key] /\ sent'[n].reply.probe = d.probe

\* The whole effect of answering the first probe of a pair.
LEMMA Answer0Effect ==
  ASSUME TypeInv, NEW d \in {inHand[i] : i \in DOMAIN inHand},
         NEW nonce \in randomNonce, AnswerProbe0(d, nonce)
  PROVE  LET key == d.probe.key
             st == states[key]
             n == Len(sent) + 1
         IN  /\ nonce \in Nonces \cup {0} /\ (nonce \notin drawn \/ nonce = 0)
             /\ drawn' = drawn \cup ({nonce} \ {0})
             /\ \/ st.pairCount = 0
                \/ st.pairCount = 1
                \/ VerifyInterval > 0 /\ d.rx - st.pairStart >= VerifyInterval
             /\ \A k \in Keys \ {key} : states'[k] = states[k]
             /\ states'[key].pairCount = 1 /\ states'[key].pairStart = d.rx
             /\ states'[key].nonce = nonce /\ states'[key].ip = d.from
             /\ states'[key].lastTx = IF Sendable(offsets) THEN wall ELSE st.lastTx
             /\ Len(sent) \in Nat /\ DOMAIN sent = 1 .. Len(sent)
             /\ \/ sent' = sent
                \/ /\ Sendable(offsets) /\ Grows(n) /\ NewReplyTo(n, d)
                   /\ sent'[n].role = 0 /\ sent'[n].start = d.rx
                   /\ sent'[n].reply.since = nonce
                   /\ sent'[n].reply.challenged = FALSE
<1> DEFINE key == d.probe.key
           s == AfterResets(states[key], d.rx)
           open == OpenPair(s, d.from, d.rx, nonce)
           rtt == ParseOffsetInfo(offsets).rtt
<1>1. TypeOK /\ PairStarted
  BY DEF TypeInv
<1>2. d \in Datagrams /\ key \in Keys /\ d.rx \in Nat
  BY <1>1, InHandType
<1>3. nonce \in Nonces \cup {0} /\ (nonce \notin drawn \/ nonce = 0)
  BY DEF randomNonce
<1>4. drawn' = drawn \cup ({nonce} \ {0})
  BY DEF AnswerProbe0
<1>5. /\ s \in States /\ open \in States /\ open.pairCount = 1 /\ open.pairStart = d.rx
      /\ open.nonce = nonce /\ open.ip = d.from /\ open.lastTx = s.lastTx
  BY <1>2, <1>3, AnswerTypes
<1>6. /\ s.lastTx = states[key].lastTx
      /\ \/ states[key].pairCount = 0
         \/ states[key].pairCount = 1
         \/ VerifyInterval > 0 /\ d.rx - states[key].pairStart >= VerifyInterval
  <2>1. states[key] \in States
    BY <1>1, <1>2 DEF TypeOK
  <2>2. s.pairCount = 0 /\ ~RateLimited(states[key], d.rx)
    BY DEF AnswerProbe0
  <2>3. s.lastTx = states[key].lastTx
    <3>1. [states[key] EXCEPT !.pairCount = 0, !.nonce = 0].lastTx = states[key].lastTx
      BY <2>1 DEF States
    <3>2. QED
      BY <3>1 DEF AfterResets
  <2>4. CASE WindowOver(states[key])
    BY <2>1, <2>2, <2>3, <2>4, <1>2, TimingAssumption DEF WindowOver, RateLimited, States, ZeroTime
  <2>5. CASE StalePair(states[key], d.rx)
    BY <2>3, <2>5 DEF StalePair
  <2>6. CASE ~WindowOver(states[key]) /\ ~StalePair(states[key], d.rx)
    BY <2>2, <2>3, <2>6 DEF AfterResets
  <2>7. QED
    BY <2>4, <2>5, <2>6
<1>7. Reply(d, open, nonce, rtt, FALSE)
  BY DEF AnswerProbe0
<1>8. nonce \in Stamps \cup Nonces /\ rtt \in Stamps /\ FALSE \in BOOLEAN
  BY <1>1, <1>3, ZeroIsStamp, InfoType DEF TypeOK
<1>9. open.pairStart \in Nat /\ open.pairCount \in Nat \ {0} /\ open.pairCount - 1 = 0
  BY <1>2, <1>5
<1> HIDE DEF open, rtt
<1>10. /\ \A k \in Keys \ {key} : states'[k] = states[k]
       /\ states'[key].pairCount = 1 /\ states'[key].pairStart = d.rx
       /\ states'[key].nonce = nonce /\ states'[key].ip = d.from
       /\ states'[key].lastTx = IF Sendable(offsets) THEN wall ELSE states[key].lastTx
  BY <1>1, <1>2, <1>5, <1>6, <1>7, ReplyStates
<1>11. /\ Len(sent) \in Nat /\ DOMAIN sent = 1 .. Len(sent)
       /\ \/ sent' = sent
          \/ /\ Sendable(offsets) /\ Grows(Len(sent) + 1) /\ NewReplyTo(Len(sent) + 1, d)
             /\ sent'[Len(sent) + 1].role = 0 /\ sent'[Len(sent) + 1].start = d.rx
             /\ sent'[Len(sent) + 1].reply.since = nonce
             /\ sent'[Len(sent) + 1].reply.challenged = FALSE
  BY <1>1, <1>2, <1>5, <1>7, <1>8, <1>9, ReplySent DEF Grows, NewReplyTo
<1>12. QED
  BY <1>3, <1>4, <1>6, <1>10, <1>11

\* The whole effect of answering a later probe.
LEMMA Answer1Effect ==
  ASSUME TypeInv, NEW d \in {inHand[i] : i \in DOMAIN inHand}, AnswerProbe1(d)
  PROVE  LET key == d.probe.key
             st == states[key]
             n == Len(sent) + 1
         IN  /\ drawn' = drawn
             /\ st.pairCount # 0 /\ d.from = st.ip
             /\ \A k \in Keys \ {key} : states'[k] = states[k]
             /\ states'[key].pairCount = st.pairCount + 1
             /\ states'[key].pairStart = st.pairStart
             /\ states'[key].nonce = 0 /\ states'[key].ip = st.ip
             /\ states'[key].lastTx = IF Sendable(offsets) THEN wall ELSE st.lastTx
             /\ Len(sent) \in Nat /\ DOMAIN sent = 1 .. Len(sent)
             /\ \/ sent' = sent
                \/ /\ Sendable(offsets) /\ Grows(n) /\ NewReplyTo(n, d)
                   /\ sent'[n].role = st.pairCount /\ sent'[n].start = st.pairStart
                   /\ sent'[n].reply.since = SinceLastTx(st, d.rx)
                   /\ sent'[n].reply.rtt = Uint64(ParseOffsetInfo(offsets).rtt
                                                  + SinceLastTx(st, d.rx))
                   /\ sent'[n].reply.challenged = Challenged(st, d.probe)
<1> DEFINE key == d.probe.key
           s == AfterResets(states[key], d.rx)
           close == ClosePair(s)
           since == SinceLastTx(s, d.rx)
           rtt == Uint64(ParseOffsetInfo(offsets).rtt + since)
<1>1. TypeOK /\ PairStarted
  BY DEF TypeInv
<1>2. d \in Datagrams /\ key \in Keys /\ d.rx \in Nat
  BY <1>1, InHandType
<1>3. s.pairCount # 0 /\ ~OtherSource(s, d.from) /\ drawn' = drawn
  BY DEF AnswerProbe1
<1>4. /\ s \in States /\ s = states[key] /\ s.pairStart \in Nat /\ close \in States
      /\ close.pairCount = s.pairCount + 1 /\ close.pairStart = s.pairStart
      /\ close.nonce = 0 /\ close.ip = s.ip /\ close.lastTx = s.lastTx
  <2>1. 0 \in Nonces \cup {0}
    OBVIOUS
  <2>2. QED
    BY <1>2, <1>3, <2>1, AnswerTypes
<1>5. Reply(d, close, since, rtt, Challenged(s, d.probe))
  BY DEF AnswerProbe1
<1>6. since \in Stamps /\ rtt \in Stamps /\ Challenged(s, d.probe) \in BOOLEAN
  <2>1. since \in Stamps
    BY <1>2, <1>4, PairTypes
  <2>2. ParseOffsetInfo(offsets).rtt \in Stamps
    BY <1>1, InfoType DEF TypeOK
  <2>3. ParseOffsetInfo(offsets).rtt + since \in Int
    BY <2>1, <2>2, WordAssumption DEF Stamps
  <2>4. QED
    BY <2>1, <2>3, Uint64Type DEF Challenged
<1>7. close.pairStart \in Nat /\ close.pairCount \in Nat \ {0} /\ close.pairCount - 1 = s.pairCount
  BY <1>4 DEF States
<1>8. d.from = s.ip
  BY <1>3 DEF OtherSource
<1> HIDE DEF close, since, rtt
<1>9. /\ \A k \in Keys \ {key} : states'[k] = states[k]
      /\ states'[key].pairCount = s.pairCount + 1 /\ states'[key].pairStart = s.pairStart
      /\ states'[key].nonce = 0 /\ states'[key].ip = s.ip
      /\ states'[key].lastTx = IF Sendable(offsets) THEN wall ELSE s.lastTx
  BY <1>1, <1>2, <1>4, <1>5, ReplyStates
<1>10. /\ Len(sent) \in Nat /\ DOMAIN sent = 1 .. Len(sent)
       /\ \/ sent' = sent
          \/ /\ Sendable(offsets) /\ Grows(Len(sent) + 1) /\ NewReplyTo(Len(sent) + 1, d)
             /\ sent'[Len(sent) + 1].role = s.pairCount
             /\ sent'[Len(sent) + 1].start = s.pairStart
             /\ sent'[Len(sent) + 1].reply.since = since
             /\ sent'[Len(sent) + 1].reply.rtt = rtt
             /\ sent'[Len(sent) + 1].reply.challenged = Challenged(s, d.probe)
  BY <1>1, <1>2, <1>4, <1>5, <1>6, <1>7, ReplySent DEF Grows, NewReplyTo
<1>11. QED
  BY <1>3, <1>4, <1>8, <1>9, <1>10 DEF since, rtt

\* What a step of SetAuthorizedKeys does to the pair states.
LEMMA ReloadFrame ==
  ASSUME Reload
  PROVE  /\ UNCHANGED <<wall, inbox, inHand, offsets, sent, drawn>>
         /\ \/ UNCHANGED <<states, gen>>
            \/ \E key \in Keys : /\ states' = [states EXCEPT ![key] = Fresh]
                                 /\ gen' = [gen EXCEPT ![key] = @ + 1]
<1>1. ASSUME NEW keys \in AllowLists, SetAuthorizedKeys(keys)
      PROVE  UNCHANGED <<wall, inbox, inHand, offsets, sent, drawn, states, gen>>
  BY <1>1 DEF SetAuthorizedKeys, ghostVars
<1>2. ASSUME NEW key \in Keys, RangeKey(key) \/ StoreKey(key)
      PROVE  UNCHANGED <<wall, inbox, inHand, offsets, sent, drawn, states, gen>>
  BY <1>2 DEF RangeKey, StoreKey, ghostVars
<1>3. ASSUME NEW key \in Keys, DeleteState(key)
      PROVE  /\ UNCHANGED <<wall, inbox, inHand, offsets, sent, drawn>>
             /\ states' = [states EXCEPT ![key] = Fresh]
             /\ gen' = [gen EXCEPT ![key] = @ + 1]
  BY <1>3 DEF DeleteState
<1>4. QED
  BY <1>1, <1>2, <1>3, Zenon DEF Reload

\* Handle answers a first probe, answers a later one, or changes no pair.
LEMMA HandleCases ==
  ASSUME Handle
  PROVE  \/ UNCHANGED <<states, sent, drawn>>
         \/ \E d \in {inHand[i] : i \in DOMAIN inHand} :
               \/ \E nonce \in randomNonce : AnswerProbe0(d, nonce)
               \/ AnswerProbe1(d)
  BY DEF Handle, DropRateLimited, DropOtherSource, ghostVars

\* A step of the clock keeps the types.
LEMMA ClockType == TypeInv /\ ClockStep => TypeInv'
<1> SUFFICES ASSUME TypeInv, ClockStep PROVE TypeInv'
  OBVIOUS
<1>1. /\ UNCHANGED <<inbox, inHand, authorizedKeys, states, offsets, reload, sent, gen, late, drawn>>
      /\ wall' \in Nat
  BY BoundAssumption DEF ClockStep, ghostVars
<1>2. QED
  BY <1>1 DEF TypeInv, TypeOK, PairStarted

----------------------------------------------------------------------------
(* A nonce is accepted once. *)

\* Live nonces have been drawn, are live for one key only, and are not those of
\* challenged replies.
NonceInv ==
    /\ \A k \in Keys : states[k].nonce # 0 => states[k].nonce \in drawn
    /\ \A k, l \in Keys :
          states[k].nonce # 0 /\ states[k].nonce = states[l].nonce => k = l
    /\ \A i \in DOMAIN sent : sent[i].reply.challenged =>
          /\ sent[i].reply.probe.stamp \in drawn
          /\ \A k \in Keys : states[k].nonce # sent[i].reply.probe.stamp
    /\ NonceAcceptedOnce

\* A step that sends nothing and draws nothing keeps the invariant when the only
\* nonces it changes are cleared.
LEMMA NonceQuiet ==
  ASSUME TypeOK, NonceInv, UNCHANGED <<sent, drawn>>,
         \A k \in Keys : states'[k].nonce \in {states[k].nonce, 0}
  PROVE  NonceInv'
<1>1. \A i \in DOMAIN sent : sent[i].reply.challenged => sent[i].reply.probe.stamp # 0
  <2>1. \A n \in drawn : n # 0
    BY NonceAssumption DEF TypeOK
  <2>2. QED
    BY <2>1 DEF NonceInv
<1>2. QED
  BY <1>1 DEF NonceInv, NonceAcceptedOnce

\* Handling a probe keeps live and accepted nonces apart.
LEMMA NonceHandle == TypeInv /\ NonceInv /\ Handle => NonceInv'
<1> SUFFICES ASSUME TypeInv, NonceInv, Handle PROVE NonceInv'
  OBVIOUS
<1>1. TypeOK /\ \A n \in drawn : n # 0
  BY NonceAssumption DEF TypeInv, TypeOK
<1>2. CASE UNCHANGED <<states, sent, drawn>>
  BY <1>2 DEF NonceInv, NonceAcceptedOnce
<1>3. ASSUME NEW d \in {inHand[i] : i \in DOMAIN inHand},
             NEW nonce \in randomNonce, AnswerProbe0(d, nonce)
      PROVE  NonceInv'
  <2> DEFINE key == d.probe.key
             n == Len(sent) + 1
  <2>1. /\ nonce \notin drawn \/ nonce = 0
        /\ drawn' = drawn \cup ({nonce} \ {0})
        /\ \A k \in Keys \ {key} : states'[k] = states[k]
        /\ states'[key].nonce = nonce
        /\ Len(sent) \in Nat /\ DOMAIN sent = 1 .. Len(sent)
        /\ \/ sent' = sent
           \/ Grows(n) /\ sent'[n].reply.challenged = FALSE
    BY <1>3, Answer0Effect
  <2>2. key \in Keys
    BY <1>1, InHandType
  <2>3. \A i \in DOMAIN sent' : sent'[i].reply.challenged =>
           i \in DOMAIN sent /\ sent'[i] = sent[i]
    BY <2>1 DEF Grows
  <2> HIDE DEF key, n
  <2>4. QED
    BY <1>1, <2>1, <2>2, <2>3 DEF NonceInv, NonceAcceptedOnce
<1>4. ASSUME NEW d \in {inHand[i] : i \in DOMAIN inHand}, AnswerProbe1(d)
      PROVE  NonceInv'
  <2> DEFINE key == d.probe.key
             n == Len(sent) + 1
  <2>1. /\ drawn' = drawn
        /\ \A k \in Keys \ {key} : states'[k] = states[k]
        /\ states'[key].nonce = 0
        /\ Len(sent) \in Nat /\ DOMAIN sent = 1 .. Len(sent)
        /\ \/ sent' = sent
           \/ /\ Grows(n) /\ sent'[n].reply.probe = d.probe
              /\ sent'[n].reply.challenged = Challenged(states[key], d.probe)
    BY <1>4, Answer1Effect DEF NewReplyTo
  <2>2. key \in Keys
    BY <1>1, InHandType
  <2> HIDE DEF key, n
  <2>3. CASE sent' = sent
    <3>1. \A k \in Keys : states'[k].nonce \in {states[k].nonce, 0}
      BY <2>1, <2>2
    <3>2. QED
      BY <1>1, <2>1, <2>3, <3>1, NonceQuiet
  <2>4. CASE /\ Grows(n) /\ sent'[n].reply.probe = d.probe
             /\ sent'[n].reply.challenged = Challenged(states[key], d.probe)
    <3>1. /\ DOMAIN sent' = DOMAIN sent \cup {n} /\ n \notin DOMAIN sent
          /\ \A i \in DOMAIN sent : sent'[i] = sent[i]
      BY <2>1, <2>4 DEF Grows
    <3>2. sent'[n].reply.challenged =>
             /\ states[key].nonce # 0
             /\ sent'[n].reply.probe.stamp = states[key].nonce
      BY <2>4 DEF Challenged
    <3>3. \A i \in DOMAIN sent : sent'[n].reply.challenged /\ sent[i].reply.challenged
             => sent[i].reply.probe.stamp # sent'[n].reply.probe.stamp
      BY <2>2, <3>2 DEF NonceInv
    <3>4. NonceAcceptedOnce'
      BY <3>1, <3>3 DEF NonceInv, NonceAcceptedOnce
    <3>5. \A i \in DOMAIN sent' : sent'[i].reply.challenged =>
             /\ sent'[i].reply.probe.stamp \in drawn
             /\ \A k \in Keys : states'[k].nonce # sent'[i].reply.probe.stamp
      <4>1. ASSUME NEW i \in DOMAIN sent, sent[i].reply.challenged
            PROVE  /\ sent[i].reply.probe.stamp \in drawn
                   /\ \A k \in Keys : states'[k].nonce # sent[i].reply.probe.stamp
        BY <1>1, <2>1, <4>1 DEF NonceInv
      <4>2. ASSUME sent'[n].reply.challenged
            PROVE  /\ sent'[n].reply.probe.stamp \in drawn
                   /\ \A k \in Keys : states'[k].nonce # sent'[n].reply.probe.stamp
        BY <1>1, <2>1, <2>2, <3>2, <4>2 DEF NonceInv
      <4>3. QED
        BY <3>1, <4>1, <4>2
    <3>6. QED
      BY <2>1, <2>2, <3>4, <3>5 DEF NonceInv
  <2>5. QED
    BY <2>1, <2>3, <2>4
<1>5. QED
  BY <1>2, <1>3, <1>4, HandleCases

\* So does every step, a step of the clock included.
LEMMA NonceStep == TypeInv /\ NonceInv /\ [Next \/ ClockStep]_vars => NonceInv'
<1> SUFFICES ASSUME TypeInv, NonceInv, [Next \/ ClockStep]_vars PROVE NonceInv'
  OBVIOUS
<1>1. TypeOK
  BY DEF TypeInv
<1>2. CASE Handle
  BY <1>2, NonceHandle
<1>3. CASE Reload
  <2>1. sent' = sent /\ drawn' = drawn
    BY <1>3, ReloadFrame
  <2>2. \A k \in Keys : states'[k].nonce \in {states[k].nonce, 0}
    <3>1. CASE states' = states
      BY <3>1
    <3>2. CASE \E key \in Keys : states' = [states EXCEPT ![key] = Fresh]
      BY <1>1, <3>2 DEF Fresh, TypeOK
    <3>3. QED
      BY <1>3, <3>1, <3>2, ReloadFrame
  <2>3. QED
    BY <1>1, <2>1, <2>2, NonceQuiet
<1>4. CASE Receive \/ Environment \/ ClockStep \/ UNCHANGED vars
  <2>1. UNCHANGED <<states, sent, drawn>>
    BY <1>4, ReceiveFrame, EnvironmentFrame DEF ClockStep, vars, ghostVars
  <2>2. QED
    BY <2>1 DEF NonceInv, NonceAcceptedOnce
<1>5. QED
  BY <1>2, <1>3, <1>4 DEF Next

\* Even on a machine whose wall clock is stepped at will, and with rate limiting
\* off, a nonce buys at most one challenged reply.
THEOREM NonceCorrect == SteppedSpec => []NonceAcceptedOnce
<1>1. Init => NonceInv
  <2> SUFFICES ASSUME Init PROVE NonceInv
    OBVIOUS
  <2>1. states = [k \in Keys |-> Fresh] /\ sent = << >>
    BY DEF Init
  <2>2. (\A k \in Keys : states[k].nonce = 0) /\ DOMAIN sent = {}
    BY <2>1 DEF Fresh
  <2>3. QED
    BY <2>2 DEF NonceInv, NonceAcceptedOnce
<1>2. TypeInv /\ [Next \/ ClockStep]_vars => TypeInv'
  BY TypeStep, ClockType
<1>3. NonceInv => NonceAcceptedOnce
  BY DEF NonceInv
<1>4. QED
  BY <1>1, <1>2, <1>3, TypeInit, NonceStep, PTL DEF SteppedSpec

----------------------------------------------------------------------------
(* The order of arrivals, when the clock is not stepped. *)

\* The datagrams that have arrived and are not handled.
Pending == {inbox[i] : i \in DOMAIN inbox} \cup {inHand[i] : i \in DOMAIN inHand}

\* Datagrams are read in the order of their stamps.
InOrder ==
    /\ \A i, j \in DOMAIN inbox : i <= j => inbox[i].rx <= inbox[j].rx
    /\ \A i \in DOMAIN inHand : \A j \in DOMAIN inbox : inHand[i].rx <= inbox[j].rx

\* Nothing is stamped in the future, and no pending probe arrived before the
\* start of a pair.
TimeInv ==
    /\ wall <= MaxClock
    /\ InOrder
    /\ \A d \in Pending : d.rx <= wall
    /\ \A i \in DOMAIN sent : sent[i].tx <= wall
    /\ \A k \in Keys : /\ states[k].pairStart <= wall
                       /\ \A d \in Pending : states[k].pairStart <= d.rx

\* What is pending has the type of a datagram.
LEMMA PendingType == TypeOK => \A d \in Pending : d \in Datagrams /\ d.rx \in Nat
<1> SUFFICES ASSUME TypeOK PROVE \A d \in Pending : d \in Datagrams /\ d.rx \in Nat
  OBVIOUS
<1>1. inbox \in Seq(Datagrams) /\ inHand \in Seq(Datagrams)
  BY DEF TypeOK
<1>2. /\ \A i \in DOMAIN inbox : inbox[i] \in Datagrams
      /\ \A i \in DOMAIN inHand : inHand[i] \in Datagrams
  BY <1>1, ElementOfSeq, LenProperties
<1>3. QED
  BY <1>2 DEF Pending, Datagrams

\* Reading a datagram moves it from the buffer to the hand, or drops it.
LEMMA PendingReceive ==
  ASSUME TypeOK, Receive
  PROVE  /\ Pending' \subseteq Pending
         /\ InOrder => InOrder'
<1> DEFINE n == Len(inbox)
<1>1. /\ inHand = << >> /\ inbox' = Tail(inbox)
      /\ inHand' = << >> \/ inHand' = <<Head(inbox)>>
      /\ inbox # << >> /\ inbox \in Seq(Datagrams)
  BY ReceiveFrame DEF TypeOK
<1>2. /\ n \in Nat \ {0} /\ DOMAIN inbox = 1 .. n /\ DOMAIN inbox' = 1 .. n - 1
      /\ \A i \in 1 .. n - 1 : inbox'[i] = inbox[i + 1]
  BY <1>1, TailElements
<1>3. Head(inbox) = inbox[1]
  BY <1>1
<1>4. \A i \in DOMAIN inHand' : inHand'[i] = inbox[1]
  BY <1>1, <1>3
<1> HIDE DEF n
<1>5. 1 \in DOMAIN inbox /\ \A i \in DOMAIN inbox' : i + 1 \in DOMAIN inbox
  BY <1>2
<1>6. Pending' \subseteq Pending
  BY <1>2, <1>4, <1>5 DEF Pending
<1>7. InOrder => InOrder'
  <2> SUFFICES ASSUME InOrder PROVE InOrder'
    OBVIOUS
  <2>1. \A i, j \in DOMAIN inbox' : i <= j => inbox'[i].rx <= inbox'[j].rx
    BY <1>2, <1>5 DEF InOrder
  <2>2. \A i \in DOMAIN inHand' : \A j \in DOMAIN inbox' : inHand'[i].rx <= inbox'[j].rx
    BY <1>2, <1>4, <1>5 DEF InOrder
  <2>3. QED
    BY <2>1, <2>2 DEF InOrder
<1>8. QED
  BY <1>6, <1>7

\* An arriving datagram is stamped with the time of its arrival.
LEMMA PendingArrive ==
  ASSUME TypeOK, NEW size, NEW probe, NEW from, Arrive(size, probe, from)
  PROVE  /\ \A d \in Pending' \ Pending : d.rx = wall /\ d.probe = probe
         /\ InOrder /\ (\A d \in Pending : d.rx <= wall) => InOrder'
<1> DEFINE d == [size |-> size, probe |-> probe, from |-> from, rx |-> wall]
           n == Len(inbox)
<1>1. inbox' = Append(inbox, d) /\ inHand' = inHand /\ inbox \in Seq(Datagrams)
  BY DEF Arrive, TypeOK
<1>2. /\ n \in Nat /\ DOMAIN inbox = 1 .. n /\ DOMAIN inbox' = 1 .. n + 1
      /\ \A i \in 1 .. n : inbox'[i] = inbox[i]
      /\ inbox'[n + 1] = d
  BY <1>1, AppendElements
<1>3. d.rx = wall /\ d.probe = probe
  OBVIOUS
<1> HIDE DEF d, n
<1>4. Pending' \subseteq Pending \cup {d}
  BY <1>1, <1>2 DEF Pending
<1>5. ASSUME InOrder, \A e \in Pending : e.rx <= wall
      PROVE  InOrder'
  <2>1. /\ \A i \in 1 .. n : inbox[i].rx <= wall
        /\ \A i \in DOMAIN inHand : inHand[i].rx <= wall
    BY <1>2, <1>5 DEF Pending
  <2>2. wall <= wall
    BY DEF TypeOK
  <2>3. QED
    BY <1>1, <1>2, <1>3, <1>5, <2>1, <2>2 DEF InOrder
<1>6. QED
  BY <1>3, <1>4, <1>5

\* Handling a datagram takes it out of the hand.
LEMMA PendingHandle ==
  ASSUME Handle
  PROVE  /\ Pending' = {inbox[i] : i \in DOMAIN inbox}
         /\ Pending' \subseteq Pending
         /\ InOrder => InOrder'
  BY HandleFrame DEF Pending, InOrder

\* A step that answers datagram d moves a pair's start to its arrival, if at
\* all, and sends at most one reply, now.
LEMMA TimeAnswer ==
  ASSUME TypeInv, TimeInv, Handle, NEW d \in {inHand[i] : i \in DOMAIN inHand},
         \A k \in Keys : \/ states'[k].pairStart = states[k].pairStart
                         \/ states'[k].pairStart = d.rx,
         DOMAIN sent = 1 .. Len(sent), Len(sent) \in Nat,
         \/ sent' = sent
         \/ Grows(Len(sent) + 1) /\ sent'[Len(sent) + 1].tx = wall
  PROVE  TimeInv'
<1>1. TypeOK /\ wall \in Nat
  BY DEF TypeInv, TypeOK
<1>2. wall' = wall /\ Pending' = {inbox[i] : i \in DOMAIN inbox}
  BY HandleFrame, PendingHandle
<1>3. InOrder' /\ \A e \in Pending' : e.rx <= wall
  BY PendingHandle DEF TimeInv
<1>4. \A i \in DOMAIN sent' : sent'[i].tx <= wall
  BY <1>1 DEF TimeInv, Grows
<1>5. d.rx <= wall
  BY DEF TimeInv, Pending
<1>6. \A e \in Pending' : d.rx <= e.rx
  BY <1>2 DEF TimeInv, InOrder
<1>7. \A k \in Keys : /\ states'[k].pairStart <= wall
                      /\ \A e \in Pending' : states'[k].pairStart <= e.rx
  BY <1>5, <1>6, PendingHandle DEF TimeInv
<1>8. QED
  BY <1>2, <1>3, <1>4, <1>7 DEF TimeInv

\* Handling a probe keeps the order of the times.
LEMMA TimeHandle == TypeInv /\ TimeInv /\ Handle => TimeInv'
<1> SUFFICES ASSUME TypeInv, TimeInv, Handle PROVE TimeInv'
  OBVIOUS
<1>1. CASE UNCHANGED <<states, sent, drawn>>
  <2>1. wall' = wall /\ InOrder' /\ Pending' \subseteq Pending
    BY HandleFrame, PendingHandle DEF TimeInv
  <2>2. QED
    BY <1>1, <2>1 DEF TimeInv
<1>2. ASSUME NEW d \in {inHand[i] : i \in DOMAIN inHand},
             NEW nonce \in randomNonce, AnswerProbe0(d, nonce)
      PROVE  TimeInv'
  <2>1. /\ \A k \in Keys \ {d.probe.key} : states'[k] = states[k]
        /\ states'[d.probe.key].pairStart = d.rx
        /\ DOMAIN sent = 1 .. Len(sent) /\ Len(sent) \in Nat
        /\ \/ sent' = sent
           \/ Grows(Len(sent) + 1) /\ sent'[Len(sent) + 1].tx = wall
    BY <1>2, Answer0Effect DEF NewReplyTo
  <2>2. QED
    BY <2>1, TimeAnswer
<1>3. ASSUME NEW d \in {inHand[i] : i \in DOMAIN inHand}, AnswerProbe1(d)
      PROVE  TimeInv'
  <2>1. /\ \A k \in Keys \ {d.probe.key} : states'[k] = states[k]
        /\ states'[d.probe.key].pairStart = states[d.probe.key].pairStart
        /\ DOMAIN sent = 1 .. Len(sent) /\ Len(sent) \in Nat
        /\ \/ sent' = sent
           \/ Grows(Len(sent) + 1) /\ sent'[Len(sent) + 1].tx = wall
    BY <1>3, Answer1Effect DEF NewReplyTo
  <2>2. QED
    BY <2>1, TimeAnswer
<1>4. QED
  BY <1>1, <1>2, <1>3, HandleCases

\* The environment sends a probe that carries a time or a published nonce, or it
\* leaves the socket alone.
LEMMA EnvironmentCases ==
  ASSUME TypeOK, Environment
  PROVE  \/ \E size, probe, from : /\ Arrive(size, probe, from)
                                   /\ probe.stamp \in Stamps \cup Published
         \/ /\ UNCHANGED <<inbox, inHand>>
            /\ wall' = wall \/ (wall < MaxClock /\ wall' = wall + 1)
<1> DEFINE Sends == \E size, probe, from : /\ Arrive(size, probe, from)
                                          /\ probe.stamp \in Stamps \cup Published
           Quiet == /\ UNCHANGED <<inbox, inHand>>
                    /\ wall' = wall \/ (wall < MaxClock /\ wall' = wall + 1)
<1>1. ASSUME NEW size \in Sizes, NEW key \in Keys, NEW ip \in IPs,
             Arrive(size, NewProbePacket(0, wall, key), ip)
      PROVE  Sends
  <2>1. NewProbePacket(0, wall, key).stamp = ntpTimestamp(wall) /\ wall \in Int
    BY DEF NewProbePacket, TypeOK
  <2>2. NewProbePacket(0, wall, key).stamp \in Stamps
    BY <2>1, NtpType
  <2>3. QED
    BY <1>1, <2>2, Zenon
<1>2. ASSUME NEW size \in Sizes, NEW key \in Keys, NEW ip \in IPs, NEW nonce \in Published,
             Arrive(size, newChallengedProbePacket(0, nonce, key), ip)
      PROVE  Sends
  <2>1. newChallengedProbePacket(0, nonce, key).stamp = nonce
    BY DEF newChallengedProbePacket
  <2>2. newChallengedProbePacket(0, nonce, key).stamp \in Published
    BY <2>1
  <2>3. QED
    BY <1>2, <2>2, Zenon
<1>3. ASSUME NEW v \in OffsetVectors, SetOffsets(v)
      PROVE  Quiet
  BY <1>3 DEF SetOffsets
<1>4. ASSUME Tick
      PROVE  Quiet
  BY <1>4 DEF Tick
<1> HIDE DEF Sends, Quiet
<1>5. Sends \/ Quiet
  BY <1>1, <1>2, <1>3, <1>4 DEF Environment
<1>6. QED
  BY <1>5 DEF Sends, Quiet

\* So does the arrival of a datagram.
LEMMA TimeArrive ==
  ASSUME TypeOK, TimeInv, NEW size, NEW probe, NEW from, Arrive(size, probe, from)
  PROVE  TimeInv'
<1>1. wall' = wall /\ InOrder' /\ UNCHANGED <<states, sent>>
  BY PendingArrive DEF Arrive, TimeInv
<1>2. wall <= wall /\ \A d \in Pending' \ Pending : d.rx = wall
  BY PendingArrive DEF TypeOK
<1>3. \A d \in Pending' : d.rx <= wall
  BY <1>2 DEF TimeInv
<1>4. \A k \in Keys : \A d \in Pending' : states[k].pairStart <= d.rx
  BY <1>2 DEF TimeInv
<1>5. QED
  BY <1>1, <1>3, <1>4 DEF TimeInv

\* So does every step that leaves the clock monotone.
LEMMA TimeStep == TypeInv /\ TimeInv /\ [Next]_vars => TimeInv'
<1> SUFFICES ASSUME TypeInv, TimeInv, [Next]_vars PROVE TimeInv'
  OBVIOUS
<1>1. TypeOK /\ wall \in Nat /\ \A d \in Pending : d.rx \in Nat
  BY PendingType DEF TypeInv, TypeOK
<1>2. CASE Handle
  BY <1>2, TimeHandle
<1>3. CASE Receive
  <2>1. /\ UNCHANGED <<wall, states, sent>> /\ Pending' \subseteq Pending
        /\ InOrder => InOrder'
    BY <1>1, <1>3, ReceiveFrame, PendingReceive
  <2>2. QED
    BY <2>1 DEF TimeInv
<1>4. CASE Reload
  <2>1. UNCHANGED <<wall, sent>> /\ Pending' = Pending /\ (InOrder => InOrder')
    BY <1>4, ReloadFrame DEF Pending, InOrder
  <2>2. \A k \in Keys : states'[k].pairStart \in {states[k].pairStart, -1}
    <3>1. CASE states' = states
      BY <3>1
    <3>2. CASE \E key \in Keys : states' = [states EXCEPT ![key] = Fresh]
      BY <1>1, <3>2 DEF Fresh, ZeroTime, TypeOK
    <3>3. QED
      BY <1>4, <3>1, <3>2, ReloadFrame
  <2>3. -1 <= wall /\ \A d \in Pending : -1 <= d.rx
    BY <1>1
  <2>4. QED
    BY <2>1, <2>2, <2>3 DEF TimeInv
<1>5. CASE Environment
  <2>1. UNCHANGED <<states, sent>>
    BY <1>5, EnvironmentFrame
  <2>2. ASSUME NEW size, NEW probe, NEW from, Arrive(size, probe, from)
        PROVE  TimeInv'
    BY <1>1, <2>2, TimeArrive
  <2>3. CASE /\ UNCHANGED <<inbox, inHand>>
             /\ wall' = wall \/ (wall < MaxClock /\ wall' = wall + 1)
    <3>1. Pending' = Pending /\ InOrder' = InOrder
      BY <2>3 DEF Pending, InOrder
    <3>2. wall' \in Nat /\ wall <= wall' /\ wall' <= MaxClock
      BY <1>1, <2>3, BoundAssumption DEF TimeInv
    <3>3. \A k \in Keys : states[k].pairStart <= wall'
      <4>1. \A k \in Keys : states[k].pairStart \in Int
        BY <1>1 DEF TypeOK, States, ZeroTime
      <4>2. QED
        BY <1>1, <3>2, <4>1 DEF TimeInv
    <3>4. \A i \in DOMAIN sent : sent[i].tx <= wall'
      <4>1. \A i \in DOMAIN sent : sent[i].tx \in Nat
        <5>1. \A i \in DOMAIN sent : sent[i] \in SentReplies
          BY <1>1, ElementOfSeq, LenProperties DEF TypeOK
        <5>2. QED
          BY <5>1 DEF SentReplies
      <4>2. QED
        BY <1>1, <3>2, <4>1 DEF TimeInv
    <3>5. \A d \in Pending : d.rx <= wall'
      BY <1>1, <3>2 DEF TimeInv
    <3>6. QED
      BY <2>1, <3>1, <3>2, <3>3, <3>4, <3>5 DEF TimeInv
  <2>4. QED
    BY <1>1, <1>5, <2>2, <2>3, EnvironmentCases, Zenon
<1>6. CASE UNCHANGED vars
  BY <1>6 DEF vars, TimeInv, Pending, InOrder
<1>7. QED
  BY <1>2, <1>3, <1>4, <1>5, <1>6 DEF Next

\* The order of the times holds at first.
LEMMA TimeInit == Init => TimeInv
<1> SUFFICES ASSUME Init PROVE TimeInv
  OBVIOUS
<1>1. /\ wall = 0 /\ inbox = << >> /\ inHand = << >> /\ sent = << >>
      /\ states = [k \in Keys |-> Fresh]
  BY DEF Init
<1>2. Pending = {} /\ InOrder
  BY <1>1 DEF Pending, InOrder
<1>3. \A k \in Keys : states[k].pairStart <= wall
  BY <1>1 DEF Fresh, ZeroTime
<1>4. QED
  BY <1>1, <1>2, <1>3, BoundAssumption DEF TimeInv

----------------------------------------------------------------------------
(* The spacing of completed pairs. *)

\* Reply i completed a pair of the state that key still has.
CompletedFor(i, key) ==
    /\ sent[i].reply.probe.key = key
    /\ sent[i].role = 1
    /\ sent[i].gen = gen[key]

\* The replies of deleted states are told apart by gen.  A completed pair lies a
\* whole window before a pair that is open, and not after one that is complete.
SpacedInv ==
    /\ \A i \in DOMAIN sent : sent[i].gen <= gen[sent[i].reply.probe.key]
    /\ \A k \in Keys : \A i \in DOMAIN sent : CompletedFor(i, k) =>
          \/ /\ states[k].pairCount = 1
             /\ sent[i].start + VerifyInterval <= states[k].pairStart
          \/ /\ states[k].pairCount >= 2
             /\ sent[i].start <= states[k].pairStart
    /\ CompletedPairsSpaced

\* The types of the fields of a reply in the history.
LEMMA SentType ==
  ASSUME TypeOK
  PROVE  \A i \in DOMAIN sent :
            /\ sent[i].start \in Nat /\ sent[i].gen \in Nat /\ sent[i].tx \in Nat
            /\ sent[i].reply.probe.key \in Keys
            /\ sent[i].reply.since \in Stamps \cup Nonces
<1>1. \A i \in DOMAIN sent : sent[i] \in SentReplies
  BY ElementOfSeq, LenProperties DEF TypeOK
<1>2. QED
  BY <1>1 DEF SentReplies, Replies, Probes

\* A new pair starts once the window of the last completed one is over.
LEMMA SpacedAnswer0 ==
  ASSUME TypeInv, TimeInv, SpacedInv, Handle,
         NEW d \in {inHand[i] : i \in DOMAIN inHand},
         NEW nonce \in randomNonce, AnswerProbe0(d, nonce)
  PROVE  SpacedInv'
<1> DEFINE key == d.probe.key
           st == states[key]
           n == Len(sent) + 1
<1>1. /\ \/ st.pairCount = 0
         \/ st.pairCount = 1
         \/ d.rx - st.pairStart >= VerifyInterval
      /\ \A k \in Keys \ {key} : states'[k] = states[k]
      /\ states'[key].pairCount = 1 /\ states'[key].pairStart = d.rx
      /\ Len(sent) \in Nat /\ DOMAIN sent = 1 .. Len(sent)
      /\ \/ sent' = sent
         \/ /\ Grows(n) /\ sent'[n].gen = gen[key] /\ sent'[n].reply.probe.key = key
            /\ sent'[n].role = 0
  BY Answer0Effect DEF NewReplyTo
<1>2. TypeOK /\ key \in Keys /\ d.rx \in Nat /\ gen' = gen
  BY InHandType, HandleFrame DEF TypeInv
<1>3. st.pairStart <= d.rx /\ st.pairStart \in Int /\ st.pairCount \in Nat
  BY <1>2 DEF TimeInv, Pending, TypeOK, States, ZeroTime
<1>4. \A i \in DOMAIN sent : sent[i].start \in Nat /\ sent[i].gen \in Nat
  BY <1>2, SentType
<1>5. gen \in [Keys -> Nat]
  BY <1>2 DEF TypeOK
<1> HIDE DEF key, n
<1>6. \A i \in DOMAIN sent' : sent'[i].role = 1 => i \in DOMAIN sent /\ sent'[i] = sent[i]
  BY <1>1 DEF Grows
<1>7. \A k \in Keys : \A i \in DOMAIN sent' : CompletedFor(i, k)' =>
          \/ /\ states'[k].pairCount = 1
             /\ sent'[i].start + VerifyInterval <= states'[k].pairStart
          \/ /\ states'[k].pairCount >= 2
             /\ sent'[i].start <= states'[k].pairStart
  <2> SUFFICES ASSUME NEW k \in Keys, NEW i \in DOMAIN sent', CompletedFor(i, k)'
               PROVE  \/ /\ states'[k].pairCount = 1
                         /\ sent'[i].start + VerifyInterval <= states'[k].pairStart
                      \/ /\ states'[k].pairCount >= 2
                         /\ sent'[i].start <= states'[k].pairStart
    OBVIOUS
  <2>1. i \in DOMAIN sent /\ sent'[i] = sent[i] /\ CompletedFor(i, k)
    BY <1>2, <1>6 DEF CompletedFor
  <2>2. CASE k # key
    BY <1>1, <2>1, <2>2 DEF SpacedInv
  <2>3. CASE k = key
    <3>1. \/ st.pairCount = 1 /\ sent[i].start + VerifyInterval <= st.pairStart
          \/ st.pairCount >= 2 /\ sent[i].start <= st.pairStart
      BY <2>1, <2>3 DEF SpacedInv
    <3>2. sent[i].start + VerifyInterval <= d.rx
      BY <1>1, <1>2, <1>3, <1>4, <2>1, <3>1, TimingAssumption
    <3>3. QED
      BY <1>1, <2>1, <2>3, <3>2
  <2>4. QED
    BY <2>2, <2>3
<1>8. \A i \in DOMAIN sent' : sent'[i].gen <= gen[sent'[i].reply.probe.key]
  <2>1. CASE sent' = sent
    BY <2>1 DEF SpacedInv
  <2>2. CASE Grows(n) /\ sent'[n].gen = gen[key] /\ sent'[n].reply.probe.key = key
    <3>1. gen[key] <= gen[key]
      BY <1>2, <1>5
    <3>2. QED
      BY <1>1, <2>2, <3>1 DEF SpacedInv, Grows
  <2>3. QED
    BY <1>1, <2>1, <2>2
<1>9. CompletedPairsSpaced'
  BY <1>6 DEF SpacedInv, CompletedPairsSpaced
<1>10. QED
  BY <1>2, <1>7, <1>8, <1>9 DEF SpacedInv

\* A pair is completed in its own window.
LEMMA SpacedAnswer1 ==
  ASSUME TypeInv, SpacedInv, Handle,
         NEW d \in {inHand[i] : i \in DOMAIN inHand}, AnswerProbe1(d)
  PROVE  SpacedInv'
<1> DEFINE key == d.probe.key
           st == states[key]
           n == Len(sent) + 1
<1>1. /\ st.pairCount # 0
      /\ \A k \in Keys \ {key} : states'[k] = states[k]
      /\ states'[key].pairCount = st.pairCount + 1
      /\ states'[key].pairStart = st.pairStart
      /\ Len(sent) \in Nat /\ DOMAIN sent = 1 .. Len(sent)
      /\ \/ sent' = sent
         \/ /\ Grows(n) /\ sent'[n].gen = gen[key] /\ sent'[n].reply.probe.key = key
            /\ sent'[n].role = st.pairCount /\ sent'[n].start = st.pairStart
  BY Answer1Effect DEF NewReplyTo
<1>2. TypeOK /\ key \in Keys /\ gen' = gen /\ gen \in [Keys -> Nat]
  BY InHandType, HandleFrame DEF TypeInv, TypeOK
<1>3. st.pairCount \in Nat /\ (st.pairCount # 0 => st.pairStart \in Nat)
  BY <1>2 DEF TypeInv, PairStarted, TypeOK, States
<1>4. \A i \in DOMAIN sent : sent[i].start \in Nat
  BY <1>2, SentType
<1> HIDE DEF n, key
<1>5. ASSUME NEW k \in Keys, NEW i \in DOMAIN sent, CompletedFor(i, k)
      PROVE  \/ /\ states'[k].pairCount = 1
                /\ sent[i].start + VerifyInterval <= states'[k].pairStart
             \/ /\ states'[k].pairCount >= 2
                /\ sent[i].start <= states'[k].pairStart
  <2>1. CASE k # key
    BY <1>1, <1>5, <2>1 DEF SpacedInv
  <2>2. CASE k = key
    <3>1. \/ st.pairCount = 1 /\ sent[i].start + VerifyInterval <= st.pairStart
          \/ st.pairCount >= 2 /\ sent[i].start <= st.pairStart
      BY <1>5, <2>2 DEF SpacedInv
    <3>2. QED
      BY <1>1, <1>3, <1>4, <2>2, <3>1, TimingAssumption
  <2>3. QED
    BY <2>1, <2>2
<1>6. CASE sent' = sent
  BY <1>2, <1>5, <1>6 DEF SpacedInv, CompletedFor, CompletedPairsSpaced
<1>7. CASE /\ Grows(n) /\ sent'[n].gen = gen[key] /\ sent'[n].reply.probe.key = key
           /\ sent'[n].role = st.pairCount /\ sent'[n].start = st.pairStart
  <2>1. /\ DOMAIN sent' = DOMAIN sent \cup {n} /\ n \notin DOMAIN sent
        /\ \A i \in DOMAIN sent : sent'[i] = sent[i] /\ i < n
    BY <1>1, <1>7 DEF Grows
  <2>2. \A i \in DOMAIN sent' : sent'[i].gen <= gen[sent'[i].reply.probe.key]
    <3>1. gen[key] <= gen[key]
      BY <1>2
    <3>2. QED
      BY <1>7, <2>1, <3>1 DEF SpacedInv
  <2>3. \A k \in Keys : \A i \in DOMAIN sent' : CompletedFor(i, k)' =>
            \/ /\ states'[k].pairCount = 1
               /\ sent'[i].start + VerifyInterval <= states'[k].pairStart
            \/ /\ states'[k].pairCount >= 2
               /\ sent'[i].start <= states'[k].pairStart
    <3>1. ASSUME NEW k \in Keys, NEW i \in DOMAIN sent, CompletedFor(i, k)'
          PROVE  CompletedFor(i, k)
      BY <1>2, <2>1, <3>1 DEF CompletedFor
    <3>2. ASSUME NEW k \in Keys, NEW i \in DOMAIN sent', i = n, CompletedFor(i, k)'
          PROVE  k = key /\ st.pairCount = 1
      BY <1>7, <3>2 DEF CompletedFor
    <3>3. st.pairCount = 1 => /\ states'[key].pairCount >= 2
                              /\ sent'[n].start <= states'[key].pairStart
      BY <1>1, <1>3, <1>7
    <3>4. SUFFICES ASSUME NEW k \in Keys, NEW i \in DOMAIN sent', CompletedFor(i, k)'
                   PROVE  \/ /\ states'[k].pairCount = 1
                             /\ sent'[i].start + VerifyInterval <= states'[k].pairStart
                          \/ /\ states'[k].pairCount >= 2
                             /\ sent'[i].start <= states'[k].pairStart
      OBVIOUS
    <3>5. CASE i = n
      BY <3>2, <3>3, <3>4, <3>5
    <3>6. CASE i \in DOMAIN sent
      BY <1>5, <2>1, <3>1, <3>4, <3>6
    <3>7. QED
      BY <2>1, <3>5, <3>6
  <2>4. CompletedPairsSpaced'
    <3>1. ASSUME NEW i \in DOMAIN sent, sent[i].role = 1, sent'[n].role = 1,
                 sent[i].reply.probe.key = sent'[n].reply.probe.key,
                 sent[i].gen = sent'[n].gen
          PROVE  sent'[n].start - sent[i].start >= VerifyInterval
      <4>1. CompletedFor(i, key) /\ st.pairCount = 1
        BY <1>7, <3>1 DEF CompletedFor
      <4>2. sent[i].start + VerifyInterval <= st.pairStart
        BY <1>2, <4>1 DEF SpacedInv
      <4>3. QED
        BY <1>3, <1>4, <1>7, <4>1, <4>2, TimingAssumption
    <3>2. \A i, j \in DOMAIN sent' : i < j => i \in DOMAIN sent /\ (j \in DOMAIN sent \/ j = n)
      BY <1>1, <1>7 DEF Grows
    <3>3. SUFFICES ASSUME NEW i \in DOMAIN sent', NEW j \in DOMAIN sent', i < j,
                          sent'[i].role = 1, sent'[j].role = 1,
                          sent'[i].reply.probe.key = sent'[j].reply.probe.key,
                          sent'[i].gen = sent'[j].gen
                   PROVE  sent'[j].start - sent'[i].start >= VerifyInterval
      BY DEF CompletedPairsSpaced
    <3>4. CASE j = n
      BY <2>1, <3>1, <3>2, <3>3, <3>4
    <3>5. CASE j \in DOMAIN sent
      BY <2>1, <3>2, <3>3, <3>5 DEF SpacedInv, CompletedPairsSpaced
    <3>6. QED
      BY <3>2, <3>3, <3>4, <3>5
  <2>5. QED
    BY <1>2, <2>2, <2>3, <2>4 DEF SpacedInv
<1>8. QED
  BY <1>1, <1>6, <1>7

\* Every step keeps the spacing.
LEMMA SpacedStep == TypeInv /\ TimeInv /\ SpacedInv /\ [Next]_vars => SpacedInv'
<1> SUFFICES ASSUME TypeInv, TimeInv, SpacedInv, [Next]_vars PROVE SpacedInv'
  OBVIOUS
<1>1. TypeOK /\ gen \in [Keys -> Nat]
  BY DEF TypeInv, TypeOK
<1>2. CASE UNCHANGED <<states, sent, gen>>
  BY <1>2 DEF SpacedInv, CompletedFor, CompletedPairsSpaced
<1>3. CASE Handle
  <2>1. CASE UNCHANGED <<states, sent, drawn>>
    BY <1>2, <1>3, <2>1, HandleFrame
  <2>2. QED
    BY <1>3, <2>1, SpacedAnswer0, SpacedAnswer1, HandleCases
<1>4. ASSUME NEW key \in Keys, sent' = sent, states' = [states EXCEPT ![key] = Fresh],
             gen' = [gen EXCEPT ![key] = @ + 1]
      PROVE  SpacedInv'
  <2>1. /\ gen'[key] = gen[key] + 1
        /\ \A k \in Keys \ {key} : gen'[k] = gen[k] /\ states'[k] = states[k]
    BY <1>1, <1>4 DEF TypeOK
  <2>2. \A i \in DOMAIN sent : /\ sent[i].gen \in Nat
                               /\ sent[i].reply.probe.key \in Keys
    BY <1>1, SentType
  <2>3. \A i \in DOMAIN sent : sent[i].gen <= gen'[sent[i].reply.probe.key]
    BY <1>1, <2>1, <2>2 DEF SpacedInv
  <2>4. \A i \in DOMAIN sent : ~CompletedFor(i, key)'
    BY <1>1, <1>4, <2>1, <2>2 DEF SpacedInv, CompletedFor
  <2>5. \A k \in Keys \ {key} : \A i \in DOMAIN sent :
            CompletedFor(i, k)' => CompletedFor(i, k)
    BY <1>4, <2>1 DEF CompletedFor
  <2>6. QED
    BY <1>4, <2>1, <2>3, <2>4, <2>5 DEF SpacedInv, CompletedPairsSpaced
<1>5. CASE Reload
  BY <1>2, <1>4, <1>5, ReloadFrame
<1>6. CASE Receive \/ Environment \/ UNCHANGED vars
  BY <1>2, <1>6, ReceiveFrame, EnvironmentFrame DEF vars
<1>7. QED
  BY <1>3, <1>5, <1>6 DEF Next

\* The rate limit: whatever the order of arrivals, duplicates, stale resets,
\* refused replies and changes of address, two pairs of one state of a key that
\* both got their second reply started at least VerifyInterval apart.
THEOREM SpacingCorrect == Spec => []CompletedPairsSpaced
<1>1. Init => SpacedInv
  <2> SUFFICES ASSUME Init PROVE SpacedInv
    OBVIOUS
  <2>1. DOMAIN sent = {}
    BY DEF Init
  <2>2. QED
    BY <2>1 DEF SpacedInv, CompletedPairsSpaced
<1>2. SpacedInv => CompletedPairsSpaced
  BY DEF SpacedInv
<1>3. QED
  BY <1>1, <1>2, TypeInit, TypeStep, TimeInit, TimeStep, SpacedStep, PTL DEF Spec

----------------------------------------------------------------------------
(* What a challenged reply proves. *)

\* Reply i opened the pair of key k that is still open, and was its last reply.
OpenedBy(i, k) ==
    /\ sent[i].reply.probe.key = k /\ sent[i].to = states[k].ip
    /\ sent[i].gen = gen[k] /\ sent[i].start = states[k].pairStart
    /\ sent[i].tx = states[k].lastTx

\* Reply i published the nonce.
Publishes(i, nonce) == sent[i].role = 0 /\ sent[i].reply.since = nonce

\* Every published nonce was drawn.
PublishedDrawn ==
    \A i \in DOMAIN sent :
        sent[i].role = 0 /\ sent[i].reply.since \in Nonces => sent[i].reply.since \in drawn

\* A live nonce was published, if at all, by the reply that opened its pair.
LiveNonces ==
    \A k \in Keys : states[k].nonce # 0 =>
        /\ states[k].nonce \in drawn
        /\ \A i \in DOMAIN sent : Publishes(i, states[k].nonce) => OpenedBy(i, k)

\* A pending probe that carries a nonce arrived after a reply that published it.
PendingCaused ==
    \A d \in Pending : d.probe.stamp \in Nonces =>
        \E i \in DOMAIN sent : Publishes(i, d.probe.stamp) /\ sent[i].tx <= d.rx

ChallengeInv == PublishedDrawn /\ LiveNonces /\ PendingCaused /\ ChallengeIsCausal

\* The replies sent before stay caused, so only a new one has to be looked at.
LEMMA CausalGrows ==
  ASSUME ChallengeIsCausal, Len(sent) \in Nat, DOMAIN sent = 1 .. Len(sent),
         NEW n, Grows(n),
         sent'[n].reply.challenged =>
            \E i \in DOMAIN sent :
                /\ sent[i].role = 0
                /\ sent[i].reply.probe.key = sent'[n].reply.probe.key
                /\ sent[i].to = sent'[n].to /\ sent[i].gen = sent'[n].gen
                /\ sent[i].start = sent'[n].start
                /\ sent[i].reply.since = sent'[n].reply.probe.stamp
                /\ sent[i].tx <= sent'[n].rx
                /\ sent'[n].reply.since = sent'[n].rx - sent[i].tx
  PROVE  ChallengeIsCausal'
<1>1. /\ DOMAIN sent' = 1 .. n /\ n = Len(sent) + 1
      /\ \A i \in DOMAIN sent : sent'[i] = sent[i]
  BY DEF Grows
<1> SUFFICES ASSUME NEW j \in DOMAIN sent', sent'[j].reply.challenged
             PROVE  \E i \in 1 .. j - 1 :
                      /\ Opens(i, j)'
                      /\ sent'[i].reply.since = sent'[j].reply.probe.stamp
                      /\ sent'[i].tx <= sent'[j].rx
                      /\ sent'[j].reply.since = sent'[j].rx - sent'[i].tx
  BY DEF ChallengeIsCausal
<1>2. CASE j = n
  <2>1. PICK i \in DOMAIN sent :
            /\ sent[i].role = 0
            /\ sent[i].reply.probe.key = sent'[n].reply.probe.key
            /\ sent[i].to = sent'[n].to /\ sent[i].gen = sent'[n].gen
            /\ sent[i].start = sent'[n].start
            /\ sent[i].reply.since = sent'[n].reply.probe.stamp
            /\ sent[i].tx <= sent'[n].rx
            /\ sent'[n].reply.since = sent'[n].rx - sent[i].tx
    BY <1>2
  <2>2. i \in 1 .. j - 1 /\ sent'[i] = sent[i]
    BY <1>1, <1>2
  <2>3. QED
    BY <1>2, <2>1, <2>2 DEF Opens
<1>3. CASE j \in DOMAIN sent
  <2>1. PICK i \in 1 .. j - 1 :
            /\ Opens(i, j)
            /\ sent[i].reply.since = sent[j].reply.probe.stamp
            /\ sent[i].tx <= sent[j].rx
            /\ sent[j].reply.since = sent[j].rx - sent[i].tx
    BY <1>1, <1>3 DEF ChallengeIsCausal
  <2>2. sent'[i] = sent[i] /\ sent'[j] = sent[j]
    BY <1>1, <1>3
  <2>3. QED
    BY <2>1, <2>2 DEF Opens
<1>4. QED
  BY <1>1, <1>2, <1>3

\* A nonce's publication is not forgotten when replies are added.
LEMMA CausedGrows ==
  ASSUME PendingCaused, Pending' \subseteq Pending,
         \A i \in DOMAIN sent : i \in DOMAIN sent' /\ sent'[i] = sent[i]
  PROVE  PendingCaused'
<1> SUFFICES ASSUME NEW d \in Pending', d.probe.stamp \in Nonces
             PROVE  \E i \in DOMAIN sent' : Publishes(i, d.probe.stamp)' /\ sent'[i].tx <= d.rx
  BY DEF PendingCaused
<1>1. PICK i \in DOMAIN sent : Publishes(i, d.probe.stamp) /\ sent[i].tx <= d.rx
  BY DEF PendingCaused
<1>2. i \in DOMAIN sent' /\ sent'[i] = sent[i]
  OBVIOUS
<1>3. QED
  BY <1>1, <1>2 DEF Publishes

\* The first reply of a pair publishes a nonce nobody has seen.
LEMMA ChallengeAnswer0 ==
  ASSUME TypeInv, ChallengeInv, Handle,
         NEW d \in {inHand[i] : i \in DOMAIN inHand},
         NEW nonce \in randomNonce, AnswerProbe0(d, nonce)
  PROVE  ChallengeInv'
<1> DEFINE key == d.probe.key
           n == Len(sent) + 1
<1>1. /\ nonce \in Nonces \cup {0} /\ (nonce \notin drawn \/ nonce = 0)
      /\ drawn' = drawn \cup ({nonce} \ {0})
      /\ \A k \in Keys \ {key} : states'[k] = states[k]
      /\ states'[key].pairStart = d.rx /\ states'[key].nonce = nonce
      /\ states'[key].ip = d.from
      /\ Sendable(offsets) => states'[key].lastTx = wall
      /\ Len(sent) \in Nat /\ DOMAIN sent = 1 .. Len(sent)
      /\ \/ sent' = sent
         \/ /\ Sendable(offsets) /\ Grows(n) /\ sent'[n].tx = wall /\ sent'[n].to = d.from
            /\ sent'[n].gen = gen[key] /\ sent'[n].reply.probe.key = key
            /\ sent'[n].role = 0 /\ sent'[n].start = d.rx
            /\ sent'[n].reply.since = nonce /\ sent'[n].reply.challenged = FALSE
  BY Answer0Effect DEF NewReplyTo
<1>2. TypeOK /\ key \in Keys /\ gen' = gen /\ drawn \subseteq Nonces
  BY InHandType, HandleFrame DEF TypeInv, TypeOK
<1>3. Pending' \subseteq Pending
  BY PendingHandle
<1> HIDE DEF key, n
<1>4. \A i \in DOMAIN sent : i \in DOMAIN sent' /\ sent'[i] = sent[i]
  BY <1>1 DEF Grows
<1>5. \A i \in DOMAIN sent' :
         \/ i \in DOMAIN sent /\ sent'[i] = sent[i]
         \/ /\ i = n /\ sent' # sent /\ Sendable(offsets)
  BY <1>1 DEF Grows
<1>6. PublishedDrawn'
  BY <1>1, <1>5, NonceAssumption DEF ChallengeInv, PublishedDrawn
<1>7. LiveNonces'
  <2> SUFFICES ASSUME NEW k \in Keys, states'[k].nonce # 0
               PROVE  /\ states'[k].nonce \in drawn'
                      /\ \A i \in DOMAIN sent' :
                            sent'[i].role = 0 /\ sent'[i].reply.since = states'[k].nonce =>
                            OpenedBy(i, k)'
    BY DEF LiveNonces, Publishes
  <2>1. CASE k = key
    <3>1. nonce \in Nonces /\ nonce \notin drawn /\ states'[k].nonce = nonce
      BY <1>1, <2>1
    <3>2. \A i \in DOMAIN sent : ~(sent[i].role = 0 /\ sent[i].reply.since = nonce)
      BY <3>1 DEF ChallengeInv, PublishedDrawn
    <3>3. ASSUME NEW i \in DOMAIN sent', i = n, sent' # sent, Sendable(offsets)
          PROVE  OpenedBy(i, k)'
      BY <1>1, <1>2, <2>1, <3>3 DEF OpenedBy
    <3>4. \A i \in DOMAIN sent' :
             sent'[i].role = 0 /\ sent'[i].reply.since = nonce => OpenedBy(i, k)'
      BY <1>5, <3>2, <3>3
    <3>5. QED
      BY <1>1, <3>1, <3>4
  <2>2. CASE k # key
    <3>1. /\ states'[k] = states[k] /\ states[k].nonce \in drawn
          /\ states[k].nonce # nonce
      BY <1>1, <2>2 DEF ChallengeInv, LiveNonces
    <3>2. ASSUME NEW i \in DOMAIN sent', sent'[i].role = 0,
                 sent'[i].reply.since = states'[k].nonce
          PROVE  OpenedBy(i, k)'
      <4>1. i \in DOMAIN sent /\ sent'[i] = sent[i]
        BY <1>1, <1>5, <3>1, <3>2
      <4>2. OpenedBy(i, k)
        BY <3>1, <3>2, <4>1 DEF ChallengeInv, LiveNonces, Publishes
      <4>3. QED
        BY <1>2, <3>1, <4>1, <4>2 DEF OpenedBy
    <3>3. QED
      BY <1>1, <3>1, <3>2
  <2>3. QED
    BY <2>1, <2>2
<1>8. PendingCaused'
  BY <1>3, <1>4, CausedGrows DEF ChallengeInv
<1>9. ChallengeIsCausal'
  <2>1. CASE sent' = sent
    BY <2>1 DEF ChallengeInv, ChallengeIsCausal, Opens
  <2>2. CASE Grows(n) /\ ~sent'[n].reply.challenged
    BY <1>1, <2>2, CausalGrows DEF ChallengeInv
  <2>3. QED
    BY <1>1, <2>1, <2>2
<1>10. QED
  BY <1>6, <1>7, <1>8, <1>9 DEF ChallengeInv

\* A value that fits the width is its own remainder.
LEMMA SmallRemainder == ASSUME NEW m \in Nat \ {0}, NEW x \in 0 .. m - 1 PROVE x % m = x
  BY SMT

\* The interval signed into a reply whose predecessor left before the probe came.
LEMMA SinceExact ==
  ASSUME NEW st, NEW now \in Nat, st.lastTx \in Nat, st.lastTx <= now, now <= MaxClock
  PROVE  SinceLastTx(st, now) = now - st.lastTx
<1>1. now - st.lastTx \in 0 .. Word - 1
  BY WordAssumption, WidthAssumption, BoundAssumption
<1>2. (now - st.lastTx) % Word = now - st.lastTx
  BY <1>1, WordAssumption, SmallRemainder, Zenon
<1>3. QED
  BY <1>2 DEF SinceLastTx, Uint64, ZeroTime

\* A challenged reply is caused by the one that published its nonce.
LEMMA ChallengeAnswer1 ==
  ASSUME TypeInv, TimeInv, ChallengeInv, Handle,
         NEW d \in {inHand[i] : i \in DOMAIN inHand}, AnswerProbe1(d)
  PROVE  ChallengeInv'
<1> DEFINE key == d.probe.key
           st == states[key]
           n == Len(sent) + 1
<1>1. /\ drawn' = drawn /\ st.pairCount # 0 /\ d.from = st.ip
      /\ \A k \in Keys \ {key} : states'[k] = states[k]
      /\ states'[key].nonce = 0
      /\ Len(sent) \in Nat /\ DOMAIN sent = 1 .. Len(sent)
      /\ \/ sent' = sent
         \/ /\ Grows(n) /\ sent'[n].rx = d.rx /\ sent'[n].to = d.from
            /\ sent'[n].gen = gen[key] /\ sent'[n].reply.probe = d.probe
            /\ sent'[n].role = st.pairCount /\ sent'[n].start = st.pairStart
            /\ sent'[n].reply.since = SinceLastTx(st, d.rx)
            /\ sent'[n].reply.challenged = Challenged(st, d.probe)
  BY Answer1Effect DEF NewReplyTo
<1>2. TypeOK /\ key \in Keys /\ gen' = gen /\ drawn \subseteq Nonces /\ d.rx \in Nat
  BY InHandType, HandleFrame DEF TypeInv, TypeOK
<1>3. Pending' \subseteq Pending /\ d \in Pending /\ d.rx <= MaxClock
  <2>1. Pending' \subseteq Pending /\ d \in Pending
    BY PendingHandle DEF Pending
  <2>2. d.rx <= wall /\ wall <= MaxClock /\ wall \in Nat
    BY <1>2, <2>1 DEF TimeInv, TypeOK
  <2>3. QED
    BY <1>2, <2>1, <2>2, BoundAssumption
<1> HIDE DEF n
<1>4. \A i \in DOMAIN sent : i \in DOMAIN sent' /\ sent'[i] = sent[i]
  BY <1>1 DEF Grows
<1>5. \A i \in DOMAIN sent' : sent'[i].role = 0 => i \in DOMAIN sent /\ sent'[i] = sent[i]
  BY <1>1 DEF Grows
<1>6. PublishedDrawn'
  BY <1>1, <1>5 DEF ChallengeInv, PublishedDrawn
<1>7. LiveNonces'
  <2> SUFFICES ASSUME NEW k \in Keys, states'[k].nonce # 0
               PROVE  /\ states'[k].nonce \in drawn'
                      /\ \A i \in DOMAIN sent' :
                            sent'[i].role = 0 /\ sent'[i].reply.since = states'[k].nonce =>
                            OpenedBy(i, k)'
    BY DEF LiveNonces, Publishes
  <2>1. states'[k] = states[k] /\ states[k].nonce \in drawn
    BY <1>1 DEF ChallengeInv, LiveNonces
  <2>2. ASSUME NEW i \in DOMAIN sent', sent'[i].role = 0,
               sent'[i].reply.since = states'[k].nonce
        PROVE  OpenedBy(i, k)'
    <3>1. i \in DOMAIN sent /\ sent'[i] = sent[i]
      BY <1>5, <2>2
    <3>2. OpenedBy(i, k)
      BY <2>1, <2>2, <3>1 DEF ChallengeInv, LiveNonces, Publishes
    <3>3. QED
      BY <1>2, <2>1, <3>1, <3>2 DEF OpenedBy
  <2>3. QED
    BY <1>1, <2>1, <2>2
<1>8. PendingCaused'
  BY <1>3, <1>4, CausedGrows DEF ChallengeInv
<1>9. ASSUME Challenged(st, d.probe)
      PROVE  \E i \in DOMAIN sent :
                /\ sent[i].role = 0 /\ sent[i].reply.probe.key = key
                /\ sent[i].to = d.from /\ sent[i].gen = gen[key]
                /\ sent[i].start = st.pairStart
                /\ sent[i].reply.since = d.probe.stamp /\ sent[i].tx <= d.rx
                /\ SinceLastTx(st, d.rx) = d.rx - sent[i].tx
  <2>1. st.nonce # 0 /\ d.probe.stamp = st.nonce /\ st.nonce \in drawn
    BY <1>2, <1>9 DEF Challenged, ChallengeInv, LiveNonces
  <2>2. PICK i \in DOMAIN sent : Publishes(i, d.probe.stamp) /\ sent[i].tx <= d.rx
    BY <1>2, <1>3, <2>1 DEF ChallengeInv, PendingCaused
  <2>3. OpenedBy(i, key)
    BY <1>2, <2>1, <2>2 DEF ChallengeInv, LiveNonces
  <2>4. st.lastTx = sent[i].tx /\ sent[i].tx \in Nat
    BY <1>2, <2>3, SentType DEF OpenedBy
  <2>5. SinceLastTx(st, d.rx) = d.rx - sent[i].tx
    BY <1>2, <1>3, <2>2, <2>4, SinceExact
  <2>6. QED
    BY <1>1, <2>2, <2>3, <2>5 DEF OpenedBy, Publishes
<1>10. ChallengeIsCausal'
  <2>1. CASE sent' = sent
    BY <2>1 DEF ChallengeInv, ChallengeIsCausal, Opens
  <2>2. CASE /\ Grows(n) /\ sent'[n].rx = d.rx /\ sent'[n].to = d.from
             /\ sent'[n].gen = gen[key] /\ sent'[n].reply.probe = d.probe
             /\ sent'[n].start = st.pairStart
             /\ sent'[n].reply.since = SinceLastTx(st, d.rx)
             /\ sent'[n].reply.challenged = Challenged(st, d.probe)
    <3>1. sent'[n].reply.challenged =>
            \E i \in DOMAIN sent :
                /\ sent[i].role = 0
                /\ sent[i].reply.probe.key = sent'[n].reply.probe.key
                /\ sent[i].to = sent'[n].to /\ sent[i].gen = sent'[n].gen
                /\ sent[i].start = sent'[n].start
                /\ sent[i].reply.since = sent'[n].reply.probe.stamp
                /\ sent[i].tx <= sent'[n].rx
                /\ sent'[n].reply.since = sent'[n].rx - sent[i].tx
      BY <1>9, <2>2
    <3>2. QED
      BY <1>1, <2>2, <3>1, CausalGrows DEF ChallengeInv
  <2>3. QED
    BY <1>1, <2>1, <2>2
<1>11. QED
  BY <1>6, <1>7, <1>8, <1>10 DEF ChallengeInv

\* A probe that carries a time or a published nonce may arrive.
LEMMA ChallengeArrive ==
  ASSUME TypeOK, TimeInv, ChallengeInv, NEW size, NEW probe, NEW from,
         Arrive(size, probe, from), probe.stamp \in Stamps \cup Published
  PROVE  ChallengeInv'
<1>1. UNCHANGED <<states, sent, gen, drawn>>
  BY DEF Arrive, ghostVars
<1>2. \A d \in Pending' \ Pending : d.rx = wall /\ d.probe = probe
  BY PendingArrive
<1>3. ASSUME probe.stamp \in Nonces
      PROVE  \E i \in DOMAIN sent : Publishes(i, probe.stamp) /\ sent[i].tx <= wall
  <2>1. probe.stamp \in Published
    BY <1>3, NonceAssumption, WordAssumption DEF Stamps
  <2>2. QED
    BY <2>1 DEF Published, Publishes, TimeInv
<1>4. ASSUME NEW d \in Pending', d.probe.stamp \in Nonces
      PROVE  \E i \in DOMAIN sent : Publishes(i, d.probe.stamp) /\ sent[i].tx <= d.rx
  BY <1>2, <1>3, <1>4 DEF ChallengeInv, PendingCaused
<1>5. PendingCaused'
  BY <1>1, <1>4 DEF PendingCaused, Publishes
<1>6. LiveNonces'
  BY <1>1 DEF ChallengeInv, LiveNonces, OpenedBy, Publishes
<1>7. PublishedDrawn' /\ ChallengeIsCausal'
  BY <1>1 DEF ChallengeInv, PublishedDrawn, ChallengeIsCausal, Opens
<1>8. QED
  BY <1>5, <1>6, <1>7 DEF ChallengeInv

\* Every step keeps the causes of challenged replies.
LEMMA ChallengeStep == TypeInv /\ TimeInv /\ ChallengeInv /\ [Next]_vars => ChallengeInv'
<1> SUFFICES ASSUME TypeInv, TimeInv, ChallengeInv, [Next]_vars PROVE ChallengeInv'
  OBVIOUS
<1>1. TypeOK
  BY DEF TypeInv
<1>2. ASSUME UNCHANGED <<states, sent, gen, drawn>>, Pending' \subseteq Pending
      PROVE  ChallengeInv'
  <2>1. PendingCaused'
    BY <1>2, CausedGrows DEF ChallengeInv
  <2>2. LiveNonces'
    BY <1>2 DEF ChallengeInv, LiveNonces, OpenedBy, Publishes
  <2>3. PublishedDrawn' /\ ChallengeIsCausal'
    BY <1>2 DEF ChallengeInv, PublishedDrawn, ChallengeIsCausal, Opens
  <2>4. QED
    BY <2>1, <2>2, <2>3 DEF ChallengeInv
<1>3. CASE Handle
  <2>1. CASE UNCHANGED <<states, sent, drawn>>
    BY <1>2, <1>3, <2>1, HandleFrame, PendingHandle
  <2>2. QED
    BY <1>3, <2>1, ChallengeAnswer0, ChallengeAnswer1, HandleCases
<1>4. CASE Receive
  BY <1>1, <1>2, <1>4, ReceiveFrame, PendingReceive
<1>5. CASE Reload
  <2>1. UNCHANGED <<inbox, inHand, sent, drawn>> /\ Pending' = Pending
    BY <1>5, ReloadFrame DEF Pending
  <2>2. ASSUME NEW key \in Keys, states' = [states EXCEPT ![key] = Fresh],
               gen' = [gen EXCEPT ![key] = @ + 1]
        PROVE  ChallengeInv'
    <3>1. /\ states'[key].nonce = 0
          /\ \A k \in Keys \ {key} : gen'[k] = gen[k] /\ states'[k] = states[k]
      BY <1>1, <2>2 DEF TypeOK, Fresh
    <3>2. LiveNonces'
      BY <2>1, <3>1 DEF ChallengeInv, LiveNonces, OpenedBy, Publishes
    <3>3. PendingCaused'
      BY <2>1, CausedGrows DEF ChallengeInv
    <3>4. PublishedDrawn' /\ ChallengeIsCausal'
      BY <2>1 DEF ChallengeInv, PublishedDrawn, ChallengeIsCausal, Opens
    <3>5. QED
      BY <3>2, <3>3, <3>4 DEF ChallengeInv
  <2>3. QED
    BY <1>2, <1>5, <2>1, <2>2, ReloadFrame
<1>6. CASE Environment
  <2>1. UNCHANGED <<states, sent, gen, drawn>>
    BY <1>6, EnvironmentFrame
  <2>2. ASSUME NEW size, NEW probe, NEW from, Arrive(size, probe, from),
               probe.stamp \in Stamps \cup Published
        PROVE  ChallengeInv'
    BY <1>1, <2>2, ChallengeArrive
  <2>3. CASE UNCHANGED <<inbox, inHand>>
    BY <1>2, <2>1, <2>3 DEF Pending
  <2>4. QED
    BY <1>1, <1>6, <2>2, <2>3, EnvironmentCases
<1>7. CASE UNCHANGED vars
  BY <1>2, <1>7 DEF vars, Pending
<1>8. QED
  BY <1>3, <1>4, <1>5, <1>6, <1>7 DEF Next

\* No reply has been sent.
LEMMA ChallengeInitially == Init => ChallengeInv
<1> SUFFICES ASSUME Init PROVE ChallengeInv
  OBVIOUS
<1>1. /\ DOMAIN sent = {} /\ inbox = << >> /\ inHand = << >>
      /\ states = [k \in Keys |-> Fresh]
  BY DEF Init
<1>2. Pending = {} /\ \A k \in Keys : states[k].nonce = 0
  BY <1>1 DEF Pending, Fresh
<1>3. QED
  BY <1>1, <1>2 DEF ChallengeInv, PublishedDrawn, LiveNonces, PendingCaused,
                    ChallengeIsCausal

\* A challenged reply proves a causal round trip: its probe presented the nonce
\* of the reply that opened its pair, arrived after that reply had left for the
\* same key and address, and the signed interval is exactly the time between.
THEOREM ChallengeCorrect == Spec => []ChallengeIsCausal
<1>1. ChallengeInv => ChallengeIsCausal
  BY DEF ChallengeInv
<1>2. QED
  BY <1>1, ChallengeInitially, TypeInit, TypeStep, TimeInit, TimeStep, ChallengeStep,
     PTL DEF Spec

----------------------------------------------------------------------------
(* The reflector implements Challenge.  First, the published nonces and the *)
(* receipts, as replies are added.                                          *)

\* A reply that opens a pair publishes its nonce.
LEMMA PublishedMember ==
  \A n : n \in Published <=> n \in Nonces /\ \E i \in DOMAIN sent : Publishes(i, n)
  BY DEF Published, Publishes

\* A challenged reply is a receipt.
LEMMA ReceiptMember ==
  \A r : r \in Receipts <=>
    \E i \in DOMAIN sent : sent[i].reply.challenged /\ r = Receipt(sent[i])
  BY DEF Receipts

\* The reserved value 0 is no nonce, and a nonce not drawn is not published.
LEMMA Unpublished ==
  ASSUME PublishedDrawn
  PROVE  0 \notin Published /\ \A n : n \notin drawn => n \notin Published
<1>1. 0 \notin Nonces
  BY NonceAssumption
<1>2. QED
  BY <1>1, PublishedMember DEF PublishedDrawn, Publishes

\* A reply publishes its nonce if it opens a pair and carries one, and is a
\* receipt if it is challenged.
LEMMA PublishedGrows ==
  ASSUME NEW n, Grows(n), Len(sent) \in Nat, DOMAIN sent = 1 .. Len(sent)
  PROVE  /\ Published' = Published \cup
                         ({x \in {sent'[n].reply.since} : sent'[n].role = 0} \cap Nonces)
         /\ Receipts' = Receipts \cup
                        {x \in {Receipt(sent'[n])} : sent'[n].reply.challenged}
<1>1. /\ DOMAIN sent' = DOMAIN sent \cup {n} /\ n \in DOMAIN sent'
      /\ \A i \in DOMAIN sent : sent'[i] = sent[i]
  BY DEF Grows
<1>2. ASSUME NEW x
      PROVE  x \in Published' <=>
               x \in Published \cup
                     ({y \in {sent'[n].reply.since} : sent'[n].role = 0} \cap Nonces)
  <2>1. x \in Published' <=>
          x \in Nonces /\ \E i \in DOMAIN sent' : sent'[i].role = 0 /\ sent'[i].reply.since = x
    BY DEF Published
  <2>2. QED
    BY <1>1, <2>1, PublishedMember DEF Publishes
<1>3. ASSUME NEW r
      PROVE  r \in Receipts' <=>
               r \in Receipts \cup {x \in {Receipt(sent'[n])} : sent'[n].reply.challenged}
  <2>1. r \in Receipts' <=>
          \E i \in DOMAIN sent' : sent'[i].reply.challenged /\ r = Receipt(sent'[i])
    BY DEF Receipts
  <2>2. QED
    BY <1>1, <2>1, ReceiptMember
<1>4. QED
  BY <1>2, <1>3

\* A key whose state does not change keeps its challenge, or keeps having none.
LEMMA LiveUnchanged ==
  ASSUME NEW k, states'[k] = states[k],
         states[k].nonce \in Published' <=> states[k].nonce \in Published
  PROVE  LiveChallenge(k)' = LiveChallenge(k)
  BY DEF LiveChallenge

----------------------------------------------------------------------------
(* The steps of Challenge that the steps of the reflector implement. *)

\* A pair is reset, deleted, or replaced by one whose nonce nobody has seen.
LEMMA StepForgets ==
  ASSUME NEW key \in Keys, UNCHANGED <<Published, Receipts>>,
         \A k \in Keys \ {key} : states'[k] = states[k],
         states'[key].nonce \notin Published
  PROVE  Promise!Forget(key)
<1>1. LiveChallenge(key)' = NoChallenge
  BY DEF LiveChallenge
<1>2. \A k \in Keys \ {key} : LiveChallenge(k)' = LiveChallenge(k)
  BY LiveUnchanged
<1>3. [k \in Keys |-> LiveChallenge(k)]' = [[k \in Keys |-> LiveChallenge(k)] EXCEPT ![key] = NoChallenge]
  BY <1>1, <1>2
<1>4. QED
  BY <1>3 DEF Promise!Forget

\* Reply 0 leaves with a fresh nonce.
LEMMA StepIssues ==
  ASSUME NEW key \in Keys, NEW ip, NEW nonce, NEW t,
         nonce \notin Published, Published' = Published \cup {nonce},
         Receipts' = Receipts,
         \A k \in Keys \ {key} : states'[k] = states[k] /\ states[k].nonce # nonce,
         states'[key].nonce = nonce, states'[key].ip = ip, states'[key].lastTx = t
  PROVE  Promise!Issue(key, ip, nonce, t)
<1>1. LiveChallenge(key)' = [ip |-> ip, nonce |-> nonce, at |-> t]
  BY DEF LiveChallenge
<1>2. \A k \in Keys \ {key} : LiveChallenge(k)' = LiveChallenge(k)
  BY LiveUnchanged
<1>3. [k \in Keys |-> LiveChallenge(k)]'
        = [[k \in Keys |-> LiveChallenge(k)]
             EXCEPT ![key] = [ip |-> ip, nonce |-> nonce, at |-> t]]
  BY <1>1, <1>2
<1>4. QED
  BY <1>3 DEF Promise!Issue

\* Probe 1 arrived at t with the live nonce, and reply 1 leaves as challenged.
LEMMA StepRedeems ==
  ASSUME NEW key \in Keys, NEW t, states[key].nonce \in Published,
         0 \notin Published,
         Published' = Published,
         Receipts' = Receipts \cup {[key |-> key, ip |-> states[key].ip,
                                     nonce |-> states[key].nonce,
                                     interval |-> t - states[key].lastTx]},
         states[key].lastTx <= t,
         \A k \in Keys \ {key} : states'[k] = states[k],
         states'[key].nonce = 0
  PROVE  Promise!Redeem(key, t)
<1> DEFINE live == [k \in Keys |-> LiveChallenge(k)]
<1>1. LiveChallenge(key)' = NoChallenge
  BY DEF LiveChallenge
<1>2. \A k \in Keys \ {key} : LiveChallenge(k)' = LiveChallenge(k)
  BY LiveUnchanged
<1>3. live' = [live EXCEPT ![key] = NoChallenge]
  BY <1>1, <1>2
<1>4. /\ live[key].ip = states[key].ip /\ live[key].nonce = states[key].nonce
      /\ live[key].at = states[key].lastTx /\ live[key] # NoChallenge
  <2>1. live[key] = [ip |-> states[key].ip, nonce |-> states[key].nonce,
                     at |-> states[key].lastTx]
    BY DEF LiveChallenge
  <2>2. NoChallenge.nonce = 0
    BY DEF NoChallenge
  <2>3. QED
    BY <2>1, <2>2
<1> HIDE DEF live
<1>5. QED
  BY <1>3, <1>4 DEF Promise!Redeem, live

----------------------------------------------------------------------------
(* Every step of the reflector implements a step of Challenge. *)

\* Answering probe 0 issues a challenge, or lets one lapse.
LEMMA AbstractAnswer0 ==
  ASSUME TypeInv, TimeInv, ChallengeInv,
         NEW d \in {inHand[i] : i \in DOMAIN inHand},
         NEW nonce \in randomNonce, AnswerProbe0(d, nonce)
  PROVE  Promise!ChallengeNext
<1> DEFINE key == d.probe.key
           n == Len(sent) + 1
<1>1. /\ nonce \in Nonces \cup {0} /\ (nonce \notin drawn \/ nonce = 0)
      /\ \A k \in Keys \ {key} : states'[k] = states[k]
      /\ states'[key].nonce = nonce /\ states'[key].ip = d.from
      /\ Sendable(offsets) => states'[key].lastTx = wall
      /\ Len(sent) \in Nat /\ DOMAIN sent = 1 .. Len(sent)
      /\ \/ sent' = sent
         \/ /\ Sendable(offsets) /\ Grows(n) /\ sent'[n].role = 0
            /\ sent'[n].reply.since = nonce /\ sent'[n].reply.challenged = FALSE
  BY Answer0Effect
<1>2. TypeOK /\ key \in Keys /\ d.from \in IPs
  BY InHandType DEF TypeInv
<1>3. 0 \notin Published /\ nonce \notin Published /\ 0 \notin Nonces
  BY <1>1, Unpublished, NonceAssumption DEF ChallengeInv
<1> HIDE DEF key, n
<1>4. CASE sent' = sent
  <2>1. UNCHANGED <<Published, Receipts>>
    BY <1>4 DEF Published, Receipts
  <2>2. Promise!Forget(key)
    BY <1>1, <1>2, <1>3, <2>1, StepForgets
  <2>3. QED
    BY <1>2, <2>2 DEF Promise!ChallengeNext
<1>5. CASE /\ Sendable(offsets) /\ Grows(n) /\ sent'[n].role = 0
           /\ sent'[n].reply.since = nonce /\ sent'[n].reply.challenged = FALSE
  <2>1. Published' = Published \cup ({nonce} \cap Nonces) /\ Receipts' = Receipts
    BY <1>1, <1>5, PublishedGrows
  <2>2. CASE nonce = 0
    <3>1. UNCHANGED <<Published, Receipts>>
      BY <1>3, <2>1, <2>2
    <3>2. Promise!Forget(key)
      BY <1>1, <1>2, <1>3, <3>1, StepForgets
    <3>3. QED
      BY <1>2, <3>2 DEF Promise!ChallengeNext
  <2>3. CASE nonce # 0
    <3>1. nonce \in Nonces /\ nonce \notin drawn /\ Published' = Published \cup {nonce}
      BY <1>1, <2>1, <2>3
    <3>2. \A k \in Keys \ {key} : states[k].nonce # nonce
      BY <2>3, <3>1 DEF ChallengeInv, LiveNonces
    <3>3. wall \in 0 .. MaxClock
      BY <1>2, BoundAssumption DEF TimeInv, TypeOK
    <3>4. states'[key].lastTx = wall
      BY <1>1, <1>5
    <3>5. Promise!Issue(key, d.from, nonce, wall)
      BY <1>1, <1>2, <1>3, <2>1, <3>1, <3>2, <3>4, StepIssues
    <3>6. QED
      BY <1>2, <3>1, <3>3, <3>5 DEF Promise!ChallengeNext
  <2>4. QED
    BY <2>2, <2>3
<1>6. QED
  BY <1>1, <1>4, <1>5

\* Answering a later probe redeems the challenge, or lets it lapse.
LEMMA AbstractAnswer1 ==
  ASSUME TypeInv, TimeInv, ChallengeInv,
         NEW d \in {inHand[i] : i \in DOMAIN inHand}, AnswerProbe1(d)
  PROVE  Promise!ChallengeNext
<1> DEFINE key == d.probe.key
           st == states[key]
           n == Len(sent) + 1
<1>1. /\ st.pairCount # 0 /\ d.from = st.ip
      /\ \A k \in Keys \ {key} : states'[k] = states[k]
      /\ states'[key].nonce = 0
      /\ Len(sent) \in Nat /\ DOMAIN sent = 1 .. Len(sent)
      /\ \/ sent' = sent
         \/ /\ Grows(n) /\ sent'[n].to = d.from /\ sent'[n].reply.probe = d.probe
            /\ sent'[n].role = st.pairCount
            /\ sent'[n].reply.since = SinceLastTx(st, d.rx)
            /\ sent'[n].reply.challenged = Challenged(st, d.probe)
  BY Answer1Effect DEF NewReplyTo
<1>2. TypeOK /\ key \in Keys /\ d.rx \in Nat
  BY InHandType DEF TypeInv
<1>3. 0 \notin Published
  BY Unpublished DEF ChallengeInv
<1> HIDE DEF n
<1>4. ASSUME UNCHANGED <<Published, Receipts>>
      PROVE  Promise!ChallengeNext
  <2>1. Promise!Forget(key)
    BY <1>1, <1>2, <1>3, <1>4, StepForgets
  <2>2. QED
    BY <1>2, <2>1 DEF Promise!ChallengeNext
<1>5. CASE sent' = sent
  BY <1>4, <1>5 DEF Published, Receipts
<1>6. CASE /\ Grows(n) /\ sent'[n].to = d.from /\ sent'[n].reply.probe = d.probe
           /\ sent'[n].role = st.pairCount
           /\ sent'[n].reply.since = SinceLastTx(st, d.rx)
           /\ sent'[n].reply.challenged = Challenged(st, d.probe)
  <2>1. /\ Published' = Published
        /\ Receipts' = Receipts \cup
                       {x \in {Receipt(sent'[n])} : Challenged(st, d.probe)}
    BY <1>1, <1>6, PublishedGrows
  <2>2. CASE ~Challenged(st, d.probe)
    BY <1>4, <2>1, <2>2
  <2>3. CASE Challenged(st, d.probe)
    <3>1. st.nonce # 0 /\ d.probe.stamp = st.nonce /\ st.nonce \in Nonces
      BY <1>2, <2>3 DEF Challenged, ChallengeInv, LiveNonces, TypeOK
    <3>2. d \in Pending
      BY DEF Pending
    <3>3. PICK i \in DOMAIN sent : Publishes(i, st.nonce) /\ sent[i].tx <= d.rx
      BY <3>1, <3>2 DEF ChallengeInv, PendingCaused
    <3>4. st.nonce \in Published
      BY <3>1, <3>3, PublishedMember
    <3>5. st.lastTx = sent[i].tx /\ sent[i].tx \in Nat
      <4>1. OpenedBy(i, key)
        BY <1>2, <3>1, <3>3 DEF ChallengeInv, LiveNonces
      <4>2. QED
        BY <1>2, <4>1, SentType DEF OpenedBy
    <3>6. d.rx <= MaxClock /\ d.rx \in 0 .. MaxClock
      <4>1. d.rx <= wall /\ wall <= MaxClock /\ wall \in Nat
        BY <1>2, <3>2 DEF TimeInv, TypeOK
      <4>2. QED
        BY <1>2, <4>1, BoundAssumption
    <3>7. SinceLastTx(st, d.rx) = d.rx - st.lastTx /\ st.lastTx <= d.rx
      BY <1>2, <3>3, <3>5, <3>6, SinceExact
    <3>8. Receipt(sent'[n]) = [key |-> key, ip |-> st.ip, nonce |-> st.nonce,
                               interval |-> d.rx - st.lastTx]
      BY <1>1, <1>6, <3>1, <3>7 DEF Receipt
    <3>9. Receipts' = Receipts \cup {[key |-> key, ip |-> st.ip, nonce |-> st.nonce,
                                      interval |-> d.rx - st.lastTx]}
      BY <2>1, <2>3, <3>8
    <3>10. Promise!Redeem(key, d.rx)
      <4> HIDE DEF key
      <4>1. QED
        BY <1>1, <1>2, <1>3, <2>1, <3>4, <3>7, <3>9, StepRedeems
    <3>11. QED
      BY <1>2, <3>6, <3>10 DEF Promise!ChallengeNext
  <2>4. QED
    BY <2>2, <2>3
<1>7. QED
  BY <1>1, <1>5, <1>6

\* Every step of the reflector is one of the abstract specification or none.
LEMMA AbstractStep ==
  TypeInv /\ TimeInv /\ ChallengeInv /\ [Next]_vars
    => [Promise!ChallengeNext]_(Promise!challengeVars)
<1> SUFFICES ASSUME TypeInv, TimeInv, ChallengeInv, [Next]_vars
             PROVE  Promise!ChallengeNext \/ UNCHANGED Promise!challengeVars
  OBVIOUS
<1>1. CASE UNCHANGED <<states, sent>>
  <2>1. UNCHANGED <<Published, Receipts>>
    BY <1>1 DEF Published, Receipts
  <2>2. \A k \in Keys : LiveChallenge(k)' = LiveChallenge(k)
    BY <1>1, <2>1 DEF LiveChallenge
  <2>3. QED
    BY <2>1, <2>2 DEF Promise!challengeVars
<1>2. CASE Handle
  BY <1>1, <1>2, HandleCases, AbstractAnswer0, AbstractAnswer1
<1>3. CASE Reload
  <2>1. ASSUME NEW key \in Keys, states' = [states EXCEPT ![key] = Fresh]
        PROVE  Promise!ChallengeNext
    <3>1. UNCHANGED <<Published, Receipts>>
      BY <1>3, ReloadFrame DEF Published, Receipts
    <3>2. states'[key].nonce = 0 /\ \A k \in Keys \ {key} : states'[k] = states[k]
      BY <2>1 DEF TypeInv, TypeOK, Fresh
    <3>3. 0 \notin Published
      BY Unpublished DEF ChallengeInv
    <3>4. Promise!Forget(key)
      BY <3>1, <3>2, <3>3, StepForgets
    <3>5. QED
      BY <3>4 DEF Promise!ChallengeNext
  <2>2. QED
    BY <1>1, <1>3, <2>1, ReloadFrame
<1>4. CASE Receive \/ Environment
  BY <1>1, <1>4, ReceiveFrame, EnvironmentFrame
<1>5. QED
  BY <1>1, <1>2, <1>3, <1>4 DEF Next, vars

\* The reflector starts where the abstract specification does.
LEMMA AbstractInit == Init => Promise!ChallengeInit
<1> SUFFICES ASSUME Init PROVE Promise!ChallengeInit
  OBVIOUS
<1>1. DOMAIN sent = {} /\ states = [k \in Keys |-> Fresh]
  BY DEF Init
<1>2. Published = {} /\ Receipts = {}
  BY <1>1 DEF Published, Receipts
<1>3. \A k \in Keys : LiveChallenge(k) = NoChallenge
  BY <1>2 DEF LiveChallenge
<1>4. QED
  BY <1>2, <1>3 DEF Promise!ChallengeInit

\* The reflector implements the one-use challenge of Challenge, whatever probes
\* arrive in whatever order and however often, and while keys are revoked and
\* restored and offsets refused: a challenged reply redeems the nonce that is
\* live for its key and address, once, for the time since the nonce left.
THEOREM ChallengeImplemented == Spec => ImplementsChallenge
<1>1. QED
  BY AbstractInit, AbstractStep, ChallengeInitially, TypeInit, TypeStep, TimeInit,
     TimeStep, ChallengeStep, PTL DEF Spec, ImplementsChallenge, Promise!ChallengeSpec
============================================================================
