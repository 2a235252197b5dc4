--------------------------- MODULE ExchangeProofs ---------------------------
(***************************************************************************)
(* What a challenged report proves about the two machines, for every value *)
(* of the constants of Exchange: every cadence, timeout, delay and number  *)
(* of losses and duplicates.                                               *)
(***************************************************************************)
EXTENDS Exchange, AttesterProofs, ReflectorPairProofs

----------------------------------------------------------------------------
(* The invariants. *)

\* What the anchor's history of replies says of itself.  A nonce is published
\* once and lives as long as its pair waits for the second probe; a reply that
\* does not open a pair carries an interval, and accumulates it.
Accumulates(reply) ==
    /\ reply.since \in Stamps
    /\ \E v \in OffsetVectors : reply.rtt = Uint64(ParseOffsetInfo(v).rtt + reply.since)

SentInv ==
    /\ \A j \in DOMAIN sent : sent[j].rx <= MaxClock
    /\ \A j \in DOMAIN sent : sent[j].reply.challenged => sent[j].role = 1
    /\ \A j \in DOMAIN sent : sent[j].role # 0 => Accumulates(sent[j].reply)
    /\ \A i, j \in DOMAIN sent : \A n \in Nonces : Publishes(i, n) /\ Publishes(j, n) => i = j
    /\ \A k \in Keys : states[k].nonce # 0 => states[k].pairCount = 1

AnchorInv == TypeInv /\ TimeInv /\ ChallengeInv /\ NonceInv /\ SentInv

\* Whoever sends stamp at time t can have it from the network, when the anchor
\* has sent the replies in log: if the stamp is a nonce, the reply that published
\* it left at least MinDelay before.
Released(log, stamp, t) ==
    stamp \in Nonces =>
        \E h \in DOMAIN log : /\ log[h].role = 0 /\ log[h].reply.since = stamp
                             /\ log[h].tx + MinDelay <= t

RepliesIn(log) == {log[i].reply : i \in DOMAIN log}

\* A reply in the attester's socket left the anchor at least MinDelay before.
Delivered(log, reply, t) ==
    \E i \in DOMAIN log : reply = log[i].reply /\ log[i].tx + MinDelay <= t
SocketInv == \A q \in DOMAIN sockbuf : Delivered(sent, sockbuf[q].reply, clock)

\* The attester's probes.  Without a challenge they carry times.
ProbeInv ==
    /\ \A p \in DOMAIN emitted : Released(sent, emitted[p].stamp, clock)
    /\ ~challengedMode =>
          /\ \A p \in DOMAIN emitted : emitted[p].stamp \in Stamps
          /\ call.pc = "wait0" => call.p1.stamp \in Stamps

\* A datagram in flight.
Flies(probes, log, m) ==
    /\ m.at \in Nat
    /\ \/ /\ m.kind = "probe" /\ m.index \in DOMAIN probes
          /\ Released(log, probes[m.index].stamp, m.at)
       \/ m.kind = "reply" /\ m.index \in DOMAIN log /\ m.at = log[m.index].tx
FlightInv == \A m \in net : Flies(emitted, sent, m)

\* A probe that has reached the anchor took another MinDelay.
ArrivedInv ==
    /\ \A d \in Pending : Released(sent, d.probe.stamp, d.rx - MinDelay)
    /\ \A j \in DOMAIN sent : Released(sent, sent[j].reply.probe.stamp, sent[j].rx - MinDelay)

\* What the attester works with and reports are replies of the anchor.
AnsweredInv ==
    /\ call.pc = "wait1" => call.reply0 \in RepliesIn(sent)
    /\ Succeeded => call.reply0 \in RepliesIn(sent) /\ call.reply1 \in RepliesIn(sent)

Faithful(log, r) ==
    /\ r.reply0 \in RepliesIn(log) /\ r.reply1 \in RepliesIn(log)
    /\ r.bound = ProvableMaxDistance(Int64(r.reply1.rtt))
    /\ r.challenged = r.reply1.challenged
ReportInv == \A i \in Successes : Faithful(sent, reports[i])

NetworkInv == SocketInv /\ ProbeInv /\ FlightInv /\ ArrivedInv /\ AnsweredInv /\ ReportInv

ExchangeInv == AttesterInv(Replies) /\ AnchorInv /\ wall = clock /\ NetworkInv

----------------------------------------------------------------------------
(* The anchor. *)

\* A step that sends nothing and at most forgets nonces keeps the invariant.
LEMMA SentQuiet ==
  ASSUME SentInv, sent' = sent,
         \A k \in Keys : states'[k] = states[k] \/ states'[k].nonce = 0
  PROVE  SentInv'
<1>1. \A k \in Keys : states'[k].nonce # 0 => states'[k].pairCount = 1
  BY DEF SentInv
<1>2. \A j \in DOMAIN sent, n \in Nonces : Publishes(j, n)' = Publishes(j, n)
  BY DEF Publishes
<1>3. QED
  BY <1>1, <1>2 DEF SentInv

\* A new reply keeps it when it satisfies it itself.
LEMMA SentGrows ==
  ASSUME SentInv, NEW n, n \notin DOMAIN sent, DOMAIN sent' = DOMAIN sent \cup {n},
         \A i \in DOMAIN sent : sent'[i] = sent[i],
         sent'[n].rx <= MaxClock,
         sent'[n].reply.challenged => sent'[n].role = 1,
         sent'[n].role # 0 => Accumulates(sent'[n].reply),
         sent'[n].role = 0 => \A i \in DOMAIN sent, x \in Nonces :
             Publishes(i, x) => x # sent'[n].reply.since,
         \A k \in Keys : states'[k].nonce # 0 => states'[k].pairCount = 1
  PROVE  SentInv'
<1>1. /\ \A j \in DOMAIN sent, x \in Nonces : Publishes(j, x)' = Publishes(j, x)
      /\ \A i \in DOMAIN sent, x \in Nonces : ~(Publishes(i, x) /\ Publishes(n, x)')
  BY DEF Publishes
<1>2. \A j \in DOMAIN sent' : sent'[j].rx <= MaxClock
  BY DEF SentInv
<1>3. \A j \in DOMAIN sent' : sent'[j].reply.challenged => sent'[j].role = 1
  BY DEF SentInv
<1>4. \A j \in DOMAIN sent' : sent'[j].role # 0 => Accumulates(sent'[j].reply)
  BY DEF SentInv
<1>5. \A i, j \in DOMAIN sent' : \A x \in Nonces : Publishes(i, x)' /\ Publishes(j, x)' => i = j
  BY <1>1 DEF SentInv
<1>6. QED
  BY <1>2, <1>3, <1>4, <1>5 DEF SentInv

\* The datagram in hand is one of the pending ones.
LEMMA InHandPending ==
  ASSUME TypeOK, TimeInv, NEW d \in {inHand[i] : i \in DOMAIN inHand}
  PROVE  d \in Pending /\ d \in Datagrams /\ d.rx \in Nat /\ d.rx <= MaxClock
<1>1. d \in Pending
  BY DEF Pending
<1>2. d.rx <= wall /\ wall <= MaxClock /\ wall \in Nat
  BY <1>1 DEF TimeInv, TypeOK
<1>3. d \in Datagrams /\ d.rx \in Nat
  BY <1>1, PendingType
<1>4. QED
  BY <1>1, <1>2, <1>3, BoundAssumption

\* The first reply of a pair publishes a nonce nobody has published.
LEMMA SentAnswer0 ==
  ASSUME TypeInv, TimeInv, ChallengeInv, SentInv,
         NEW d \in {inHand[i] : i \in DOMAIN inHand},
         NEW nonce \in randomNonce, AnswerProbe0(d, nonce)
  PROVE  SentInv'
<1> DEFINE key == d.probe.key
           n == Len(sent) + 1
<1>1. /\ nonce \notin drawn \/ nonce = 0
      /\ \A k \in Keys \ {key} : states'[k] = states[k]
      /\ states'[key].pairCount = 1
      /\ Len(sent) \in Nat /\ DOMAIN sent = 1 .. Len(sent)
      /\ \/ sent' = sent
         \/ /\ Grows(n) /\ sent'[n].rx = d.rx /\ sent'[n].role = 0
            /\ sent'[n].reply.since = nonce /\ sent'[n].reply.challenged = FALSE
  BY Answer0Effect DEF NewReplyTo
<1>2. d.rx <= MaxClock /\ TypeOK
  BY InHandPending DEF TypeInv
<1>3. \A k \in Keys : states'[k].nonce # 0 => states'[k].pairCount = 1
  BY <1>1 DEF SentInv
<1>4. CASE sent' = sent
  <2>1. \A j \in DOMAIN sent, x \in Nonces : Publishes(j, x)' = Publishes(j, x)
    BY <1>4 DEF Publishes
  <2>2. QED
    BY <1>3, <1>4, <2>1 DEF SentInv
<1>5. CASE /\ Grows(n) /\ sent'[n].rx = d.rx /\ sent'[n].role = 0
           /\ sent'[n].reply.since = nonce /\ sent'[n].reply.challenged = FALSE
  <2>1. /\ n \notin DOMAIN sent /\ DOMAIN sent' = DOMAIN sent \cup {n}
        /\ \A i \in DOMAIN sent : sent'[i] = sent[i]
    BY <1>1, <1>5 DEF Grows
  <2> HIDE DEF n
  <2>2. \A i \in DOMAIN sent, x \in Nonces : Publishes(i, x) => x # sent'[n].reply.since
    <3>1. \A i \in DOMAIN sent, x \in Nonces : Publishes(i, x) => x \in drawn
      BY DEF ChallengeInv, PublishedDrawn, Publishes
    <3>2. 0 \notin Nonces
      BY NonceAssumption
    <3>3. QED
      BY <1>1, <1>5, <3>1, <3>2
  <2>3. sent'[n].rx <= MaxClock
    BY <1>2, <1>5
  <2>4. /\ sent'[n].reply.challenged => sent'[n].role = 1
        /\ sent'[n].role # 0 => Accumulates(sent'[n].reply)
    BY <1>5
  <2>5. QED
    BY <1>3, <2>1, <2>2, <2>3, <2>4, SentGrows
<1>6. QED
  BY <1>1, <1>4, <1>5

\* A later reply accumulates its interval, and only the second is challenged.
LEMMA SentAnswer1 ==
  ASSUME TypeInv, TimeInv, SentInv, NEW d \in {inHand[i] : i \in DOMAIN inHand},
         AnswerProbe1(d)
  PROVE  SentInv'
<1> DEFINE key == d.probe.key
           st == states[key]
           since == SinceLastTx(st, d.rx)
           n == Len(sent) + 1
<1>1. /\ st.pairCount # 0
      /\ \A k \in Keys \ {key} : states'[k] = states[k]
      /\ states'[key].nonce = 0
      /\ Len(sent) \in Nat /\ DOMAIN sent = 1 .. Len(sent)
      /\ \/ sent' = sent
         \/ /\ Grows(n) /\ sent'[n].rx = d.rx /\ sent'[n].role = st.pairCount
            /\ sent'[n].reply.since = since
            /\ sent'[n].reply.rtt = Uint64(ParseOffsetInfo(offsets).rtt + since)
            /\ sent'[n].reply.challenged = Challenged(st, d.probe)
  BY Answer1Effect DEF NewReplyTo
<1>2. TypeOK /\ d.rx <= MaxClock /\ d.rx \in Nat /\ key \in Keys
  BY InHandPending, InHandType DEF TypeInv
<1>3. \A k \in Keys : states'[k] = states[k] \/ states'[k].nonce = 0
  BY <1>1
<1>4. CASE sent' = sent
  BY <1>3, <1>4, SentQuiet
<1>5. CASE /\ Grows(n) /\ sent'[n].rx = d.rx /\ sent'[n].role = st.pairCount
           /\ sent'[n].reply.since = since
           /\ sent'[n].reply.rtt = Uint64(ParseOffsetInfo(offsets).rtt + since)
           /\ sent'[n].reply.challenged = Challenged(st, d.probe)
  <2>1. /\ n \notin DOMAIN sent /\ DOMAIN sent' = DOMAIN sent \cup {n}
        /\ \A i \in DOMAIN sent : sent'[i] = sent[i]
    BY <1>1, <1>5 DEF Grows
  <2>2. since \in Stamps /\ offsets \in OffsetVectors
    BY <1>2, PairTypes DEF TypeOK
  <2> HIDE DEF n, since
  <2>3. Accumulates(sent'[n].reply)
    BY <1>5, <2>2 DEF Accumulates
  <2>4. sent'[n].reply.challenged => sent'[n].role = 1
    BY <1>2, <1>5 DEF Challenged, SentInv
  <2>5. sent'[n].role # 0
    BY <1>1, <1>5
  <2>6. \A k \in Keys : states'[k].nonce # 0 => states'[k].pairCount = 1
    BY <1>3 DEF SentInv
  <2>7. sent'[n].rx <= MaxClock
    BY <1>2, <1>5
  <2>8. QED
    BY <2>1, <2>3, <2>4, <2>5, <2>6, <2>7, SentGrows
<1>6. QED
  BY <1>1, <1>4, <1>5

\* Every step of the reflector keeps what the replies say.
LEMMA SentStep == TypeInv /\ TimeInv /\ ChallengeInv /\ SentInv /\ [Next]_vars => SentInv'
<1> SUFFICES ASSUME TypeInv, TimeInv, ChallengeInv, SentInv, [Next]_vars PROVE SentInv'
  OBVIOUS
<1>1. CASE UNCHANGED <<states, sent>>
  BY <1>1, SentQuiet
<1>2. CASE Handle
  BY <1>1, <1>2, HandleCases, SentAnswer0, SentAnswer1
<1>3. CASE Reload
  <2>1. sent' = sent /\ states \in [Keys -> States]
    BY <1>3, ReloadFrame DEF TypeInv, TypeOK
  <2>2. \A k \in Keys : states'[k] = states[k] \/ states'[k].nonce = 0
    <3>1. CASE states' = states
      BY <3>1
    <3>2. CASE \E key \in Keys : states' = [states EXCEPT ![key] = Fresh]
      BY <2>1, <3>2 DEF Fresh
    <3>3. QED
      BY <1>3, <3>1, <3>2, ReloadFrame
  <2>3. QED
    BY <2>1, <2>2, SentQuiet
<1>4. CASE Receive \/ Environment \/ UNCHANGED vars
  <2>1. UNCHANGED <<states, sent>>
    BY <1>4, ReceiveFrame, EnvironmentFrame DEF vars
  <2>2. QED
    BY <1>1, <2>1
<1>5. QED
  BY <1>2, <1>3, <1>4 DEF Next

\* The steps of the reflector keep the anchor's invariant.
LEMMA AnchorStep == AnchorInv /\ [Next]_vars => AnchorInv'
<1>1. TypeInv /\ NonceInv /\ [Next]_vars => NonceInv'
  BY NonceStep
<1>2. QED
  BY <1>1, TypeStep, TimeStep, ChallengeStep, SentStep, Zenon DEF AnchorInv

\* So does a probe that carries a time or a published nonce.
LEMMA AnchorArrive ==
  ASSUME AnchorInv, NEW size \in Nat, NEW probe \in Probes, NEW ip \in IPs,
         Arrive(size, probe, ip), probe.stamp \in Stamps \cup Published
  PROVE  AnchorInv'
<1>1. TypeInv /\ TypeOK /\ TimeInv /\ ChallengeInv /\ NonceInv /\ SentInv
  BY DEF AnchorInv, TypeInv
<1>2. TypeInv' /\ TimeInv' /\ ChallengeInv'
  BY <1>1, TypeArrive, TimeArrive, ChallengeArrive, Zenon
<1>3. UNCHANGED <<states, sent, drawn>>
  BY DEF Arrive, ghostVars
<1>4. SentInv' /\ NonceInv'
  BY <1>1, <1>3, SentQuiet, NonceQuiet
<1>5. QED
  BY <1>2, <1>4 DEF AnchorInv

----------------------------------------------------------------------------
(* The logs only grow. *)

Keeps(log, more) ==
    DOMAIN log \subseteq DOMAIN more /\ \A i \in DOMAIN log : more[i] = log[i]

\* What was released, delivered or sent stays so.
LEMMA ReleasedLater ==
  ASSUME NEW log, NEW more, \A h \in DOMAIN log : log[h].tx \in Nat, Keeps(log, more),
         NEW t \in Int, NEW u \in Int, t <= u
  PROVE  /\ \A x : Released(log, x, t) => Released(more, x, u)
         /\ \A r : Delivered(log, r, t) => Delivered(more, r, u)
         /\ RepliesIn(log) \subseteq RepliesIn(more)
         /\ \A r : Faithful(log, r) => Faithful(more, r)
<1>1. \A h \in DOMAIN log : log[h].tx + MinDelay <= t => log[h].tx + MinDelay <= u
  BY NetworkAssumption
<1>2. \A x : Released(log, x, t) => Released(more, x, u)
  BY <1>1 DEF Released, Keeps
<1>3. \A r : Delivered(log, r, t) => Delivered(more, r, u)
  BY <1>1 DEF Delivered, Keeps
<1>4. RepliesIn(log) \subseteq RepliesIn(more)
  BY DEF RepliesIn, Keeps
<1>5. QED
  BY <1>2, <1>3, <1>4 DEF Faithful

\* The replies in the history are well typed.
LEMMA LogType ==
  ASSUME TypeInv
  PROVE  \A h \in DOMAIN sent :
            /\ sent[h] \in SentReplies /\ sent[h].reply \in Replies
            /\ sent[h].tx \in Nat /\ sent[h].rx \in Nat
<1>1. \A h \in DOMAIN sent : sent[h] \in SentReplies
  BY ElementOfSeq, LenProperties DEF TypeInv, TypeOK
<1>2. QED
  BY <1>1 DEF SentReplies

\* What the anchor signs is what the attester can compute with.
LEMMA AnchorRepliesOK == RepliesOK(Replies)
<1>1. ASSUME NEW r \in Replies
      PROVE  r.since \in FieldValues /\ r.rtt \in Int /\ r.challenged \in BOOLEAN
  <2>1. r.since \in Stamps \cup Nonces /\ r.rtt \in Stamps /\ r.challenged \in BOOLEAN
    BY DEF Replies
  <2>2. QED
    BY <2>1, WordAssumption DEF FieldValues, Stamps
<1>2. QED
  BY <1>1 DEF RepliesOK

----------------------------------------------------------------------------
(* The attester's steps. *)

\* A nonce in a delivered reply has been released.
LEMMA DeliveredReleases ==
  ASSUME TypeInv, SentInv, NEW r, NEW t \in Int, Delivered(sent, r, t)
  PROVE  Released(sent, r.since, t) /\ r \in RepliesIn(sent)
<1>1. PICK i \in DOMAIN sent : r = sent[i].reply /\ sent[i].tx + MinDelay <= t
  BY DEF Delivered
<1>2. ASSUME r.since \in Nonces
      PROVE  sent[i].role = 0
  <2>1. r.since \notin Stamps
    BY <1>2, NonceAssumption DEF Stamps
  <2>2. QED
    BY <1>1, <2>1 DEF SentInv, Accumulates
<1>3. QED
  BY <1>1, <1>2 DEF Released, RepliesIn

\* The next reply in the socket.
LEMMA HeadDelivered ==
  ASSUME AttesterInv(Replies), SocketInv, sockbuf # << >>
  PROVE  Delivered(sent, Head(sockbuf).reply, clock)
<1>1. sockbuf \in Seq(Deliveries(Replies))
  BY DEF AttesterInv, SenderTypes
<1>2. 1 \in DOMAIN sockbuf /\ Head(sockbuf) = sockbuf[1]
  BY <1>1, TailElements
<1>3. QED
  BY <1>2 DEF SocketInv

\* What a step of the sender does to the network: it may take a reply off the
\* socket and send one probe, whose stamp is a time or the nonce of a reply.
SenderSends ==
    /\ UNCHANGED <<challengedMode, clock>>
    /\ sockbuf' = sockbuf \/ (sockbuf # << >> /\ sockbuf' = Tail(sockbuf))
    /\ \/ emitted' = emitted
       \/ \E p \in OwnProbes : /\ emitted' = Append(emitted, p)
                               /\ Released(sent, p.stamp, clock)
                               /\ ~challengedMode => p.stamp \in Stamps
    /\ ~challengedMode /\ call'.pc = "wait0" => call'.p1.stamp \in Stamps
    /\ AnsweredInv'

\* A time needs no release.
LEMMA TimesReleased ==
  \A x \in Stamps : \A t : Released(sent, x, t)
  BY NonceAssumption DEF Released, Stamps

\* The start of a call.
LEMMA ProbePairSends ==
  ASSUME AttesterInv(Replies), ProbePair
  PROVE  SenderSends
<1> DEFINE s0 == NextSeq(seq)
           q0 == NewProbePacket(s0, clock, SelfKey)
           q1 == NewProbePacket(NextSeq(s0), clock, SelfKey)
           next == IF challengedMode THEN None ELSE q1
           deadline == clock + Timeout
           poll == clock + BusyPoll
           c == [NoCall EXCEPT !.pc = "wait0", !.p0 = q0, !.p1 = next,
                            !.deadline = deadline, !.poll = poll, !.sentAt = clock]
<1>1. SenderTypes(Replies) /\ clock \in Nat
  BY DEF AttesterInv, SenderTypes
<1>2. s0 \in 0 .. SeqWord - 1 /\ NextSeq(s0) \in 0 .. SeqWord - 1
  BY <1>1, SeqNumbers DEF SenderTypes
<1>3. q0 \in OwnProbes /\ q1 \in OwnProbes
  BY <1>1, <1>2, ProbeTypes
<1>4. q0.stamp \in Stamps /\ q1.stamp \in Stamps
  BY <1>1, NtpType DEF NewProbePacket
<1>5. /\ \/ emitted' = Append(emitted, q0) /\ call' = c
         \/ emitted' = emitted /\ call' = Return(c, "send")
      /\ UNCHANGED <<challengedMode, clock, sockbuf>>
  BY DEF ProbePair, Sendto
<1>6. c.pc = "wait0" /\ (~challengedMode => c.p1 = q1)
  BY DEF NoCall
<1>7. Return(c, "send").pc = "done" /\ Return(c, "send").err = "send"
  BY DEF Return, NoCall
<1> HIDE DEF c, q0, q1, s0
<1>8. /\ call'.pc \in {"wait0", "done"} /\ (call'.pc = "done" => call'.err = "send")
      /\ ~challengedMode /\ call'.pc = "wait0" => call'.p1 = q1
  BY <1>5, <1>6, <1>7
<1>9. AnsweredInv'
  BY <1>8 DEF AnsweredInv, Succeeded
<1>10. Released(sent, q0.stamp, clock)
  BY <1>4, TimesReleased
<1>11. QED
  BY <1>3, <1>4, <1>5, <1>8, <1>9, <1>10 DEF SenderSends

\* A call that returns with an error, or that stays as it is.
LEMMA ReturnAnswered ==
  ASSUME NEW c \in Calls(Replies), NEW e \in Errors \ {"none"}, call' = Return(c, e)
  PROVE  call'.pc = "done" /\ AnsweredInv'
<1>1. call'.pc = "done" /\ call'.err # "none"
  BY ReturnType
<1>2. QED
  BY <1>1 DEF AnsweredInv, Succeeded

\* A datagram that is not the awaited reply, and a call that gives up.
LEMMA QuietSends ==
  ASSUME AttesterInv(Replies), ProbeInv, AnsweredInv, sent' = sent,
         Ignore \/ DeadlineExceeded \/ ContextDone
  PROVE  SenderSends
<1>1. call \in Calls(Replies)
  BY DEF AttesterInv, SenderTypes
<1>2. CASE Ignore
  <2>1. /\ UNCHANGED <<challengedMode, clock, call, emitted>>
        /\ sockbuf # << >> /\ sockbuf' = Tail(sockbuf)
    BY <1>2 DEF Ignore
  <2>2. QED
    BY <2>1 DEF SenderSends, AnsweredInv, Succeeded, ProbeInv
<1>3. CASE DeadlineExceeded \/ ContextDone
  <2>1. /\ UNCHANGED <<challengedMode, clock, sockbuf, emitted>>
        /\ \E e \in Errors \ {"none"} : call' = Return(call, e)
    BY <1>3 DEF DeadlineExceeded, ContextDone, Errors
  <2>2. call'.pc = "done" /\ AnsweredInv'
    BY <1>1, <2>1, ReturnAnswered
  <2>3. QED
    BY <2>1, <2>2 DEF SenderSends
<1>4. QED
  BY <1>2, <1>3

\* Reply 0 in challenged mode: probe 1 carries its nonce back.
LEMMA ChallengedSends ==
  ASSUME AttesterInv(Replies), TypeInv, SentInv, SocketInv, sent' = sent,
         ReceiveReply0Challenged
  PROVE  SenderSends
<1> DEFINE d == Head(sockbuf)
           r == d.reply
           rtt == decideRTT(call.sentAt, d.rx, clock)
           p == newChallengedProbePacket(NextSeq(seq), r.since, SelfKey)
           poll == clock + BusyPoll
           c == [call EXCEPT !.pc = "wait1", !.reply0 = r, !.rtt0 = rtt, !.p1 = p,
                             !.sentAt = clock, !.poll = poll]
<1>1. /\ challengedMode /\ sockbuf # << >> /\ sockbuf' = Tail(sockbuf)
      /\ UNCHANGED <<challengedMode, clock>>
  BY DEF ReceiveReply0Challenged
<1>2. \/ emitted' = Append(emitted, c.p1) /\ call' = c
      \/ emitted' = emitted /\ call' = Return(c, "send")
  BY DEF ReceiveReply0Challenged, Sendto
<1>3. SenderTypes(Replies) /\ call \in Calls(Replies) /\ poll \in Nat /\ clock \in Nat
  BY SenderTimingAssumption DEF AttesterInv, SenderTypes
<1>4. r \in Replies /\ r.since \in FieldValues /\ rtt \in Nat
  BY <1>1, <1>3, AnchorRepliesOK, HeadTypes
<1>5. p \in OwnProbes /\ p.stamp = r.since
  BY <1>3, <1>4, SeqNumbers, ProbeTypes DEF SenderTypes
<1>6. Released(sent, r.since, clock) /\ r \in RepliesIn(sent)
  BY <1>1, <1>3, HeadDelivered, DeliveredReleases
<1>7. c = Half(call, r, rtt, p, clock, poll)
  BY DEF Half
<1> HIDE DEF c, p, poll, rtt, r, d
<1>8. c \in Calls(Replies) /\ c.pc = "wait1" /\ c.p1 = p /\ c.reply0 = r
  BY <1>3, <1>4, <1>5, <1>7, HalfType
<1>9. CASE emitted' = Append(emitted, c.p1) /\ call' = c
  <2>1. AnsweredInv'
    BY <1>6, <1>8, <1>9 DEF AnsweredInv, Succeeded
  <2>2. emitted' = Append(emitted, p) /\ Released(sent, p.stamp, clock)
    BY <1>5, <1>6, <1>8, <1>9
  <2>3. QED
    BY <1>1, <1>5, <2>1, <2>2 DEF SenderSends
<1>10. CASE emitted' = emitted /\ call' = Return(c, "send")
  <2>1. AnsweredInv'
    BY <1>8, <1>10, ReturnAnswered DEF Errors
  <2>2. QED
    BY <1>1, <1>10, <2>1 DEF SenderSends
<1>11. QED
  BY <1>2, <1>9, <1>10

\* Reply 0 in unchallenged mode: probe 1 was made when the call began.
LEMMA UnchallengedSends ==
  ASSUME AttesterInv(Replies), TypeInv, SentInv, SocketInv, ProbeInv, sent' = sent,
         ReceiveReply0Unchallenged
  PROVE  SenderSends
<1> DEFINE d == Head(sockbuf)
           r == d.reply
           rtt == decideRTT(call.sentAt, d.rx, clock)
           c == [call EXCEPT !.pc = "wait1", !.reply0 = r, !.rtt0 = rtt,
                             !.sentAt = clock, !.poll = 0]
<1>1. /\ ~challengedMode /\ call.pc = "wait0" /\ sockbuf # << >>
      /\ sockbuf' = Tail(sockbuf)
      /\ UNCHANGED <<challengedMode, clock>>
  BY DEF ReceiveReply0Unchallenged
<1>2. \/ emitted' = Append(emitted, call.p1) /\ call' = c
      \/ emitted' = Append(emitted, call.p1) /\ call' = Return(call, "mismatch")
      \/ emitted' = emitted /\ call' = Return(call, "send")
  BY DEF ReceiveReply0Unchallenged, Sendto
<1>3. /\ SenderTypes(Replies) /\ call \in Calls(Replies) /\ clock \in Nat /\ 0 \in Nat
      /\ call.p1 \in OwnProbes /\ call.p1.stamp \in Stamps
  BY <1>1 DEF AttesterInv, SenderTypes, CallInv, ProbeInv
<1>4. r \in Replies /\ rtt \in Nat
  BY <1>1, <1>3, AnchorRepliesOK, HeadTypes
<1>5. r \in RepliesIn(sent)
  BY <1>1, <1>3, HeadDelivered, DeliveredReleases
<1>6. c = Half(call, r, rtt, call.p1, clock, 0)
  BY <1>3 DEF Half, Calls
<1> HIDE DEF c, rtt, r, d
<1>7. c \in Calls(Replies) /\ c.pc = "wait1" /\ c.reply0 = r
  BY <1>3, <1>4, <1>6, HalfType
<1>8. Released(sent, call.p1.stamp, clock)
  BY <1>3, TimesReleased
<1>9. call'.pc \in {"wait1", "done"} /\ AnsweredInv'
  <2>1. CASE call' = c
    BY <1>5, <1>7, <2>1 DEF AnsweredInv, Succeeded
  <2>2. CASE \E e \in Errors \ {"none"} : call' = Return(call, e)
    BY <1>3, <2>2, ReturnAnswered
  <2>3. QED
    BY <1>2, <2>1, <2>2 DEF Errors
<1>10. emitted' = emitted \/ emitted' = Append(emitted, call.p1)
  BY <1>2
<1>11. QED
  BY <1>1, <1>3, <1>8, <1>9, <1>10 DEF SenderSends

\* Reply 1 completes the call.
LEMMA Reply1Sends ==
  ASSUME AttesterInv(Replies), TypeInv, SentInv, SocketInv, AnsweredInv, sent' = sent,
         ReceiveReply1
  PROVE  SenderSends
<1> DEFINE d == Head(sockbuf)
           r == d.reply
           rtt == decideRTT(call.sentAt, d.rx, clock)
           c == [call EXCEPT !.reply1 = r, !.rtt1 = rtt]
<1>1. /\ call.pc = "wait1" /\ sockbuf # << >> /\ sockbuf' = Tail(sockbuf)
      /\ UNCHANGED <<challengedMode, clock, emitted>>
      /\ call' = Return(c, "none")
  BY DEF ReceiveReply1
<1>2. SenderTypes(Replies) /\ call \in Calls(Replies) /\ clock \in Nat
  BY DEF AttesterInv, SenderTypes
<1>3. r \in Replies /\ rtt \in Nat
  BY <1>1, <1>2, AnchorRepliesOK, HeadTypes
<1>4. r \in RepliesIn(sent) /\ call.reply0 \in RepliesIn(sent)
  BY <1>1, <1>2, HeadDelivered, DeliveredReleases DEF AnsweredInv
<1>5. c = Whole(call, r, rtt)
  BY DEF Whole
<1> HIDE DEF c, rtt, r, d
<1>6. c \in Calls(Replies) /\ c.reply0 = call.reply0 /\ c.reply1 = r
  BY <1>2, <1>3, <1>5, WholeType
<1>7. call'.pc = "done" /\ call'.reply0 = call.reply0 /\ call'.reply1 = r
  BY <1>1, <1>6, ReturnType DEF Errors
<1>8. AnsweredInv'
  BY <1>4, <1>7 DEF AnsweredInv
<1>9. QED
  BY <1>1, <1>7, <1>8 DEF SenderSends

\* A report of a success repeats the replies of the call.
LEMMA ReportFaithful ==
  ASSUME AttesterInv(Replies), AnsweredInv, ReportInv, sent' = sent, report
  PROVE  ReportInv'
<1> DEFINE k == Len(reports)
           entry == IF call.err = "none" THEN observe(call) ELSE failure(call)
<1>1. call.pc = "done" /\ reports' = Append(reports, entry)
  BY DEF report
<1>2. entry \in Observations(Replies) \cup Failures
  BY <1>1, AnchorRepliesOK, ReportType
<1>3. ASSUME entry.err = "none"
      PROVE  Faithful(sent, entry)
  <2>1. call.err = "none"
    BY <1>3 DEF failure
  <2>2. call.reply0 \in RepliesIn(sent) /\ call.reply1 \in RepliesIn(sent)
    BY <1>1, <2>1 DEF AnsweredInv, Succeeded
  <2>3. QED
    BY <2>1, <2>2 DEF Faithful, observe
<1> HIDE DEF entry
<1>4. /\ k \in Nat /\ DOMAIN reports = 1 .. k /\ DOMAIN reports' = 1 .. k + 1
      /\ \A i \in 1 .. k : reports'[i] = reports[i]
      /\ reports'[k + 1] = entry
  BY <1>1, <1>2, LogAppend DEF AttesterInv, LoopTypes
<1> HIDE DEF k
<1>5. \A i \in Successes' :
         (i \in Successes /\ reports'[i] = reports[i]) \/ reports'[i] = entry
  BY <1>4 DEF Successes
<1>6. \A i \in Successes' : reports'[i].err = "none"
  BY DEF Successes
<1>7. QED
  BY <1>3, <1>5, <1>6, Zenon DEF ReportInv

\* Every step of the attester.
LEMMA AttesterSends ==
  ASSUME AttesterInv(Replies), TypeInv, SentInv, SocketInv, ProbeInv, AnsweredInv,
         ReportInv, sent' = sent, AttesterStep
  PROVE  SenderSends /\ ReportInv'
<1>1. ASSUME reports' = reports
      PROVE  ReportInv'
  BY <1>1 DEF ReportInv, Successes
<1>2. CASE measure
  BY <1>1, <1>2, ProbePairSends DEF measure
<1>3. CASE SenderStep /\ UNCHANGED loopVars
  BY <1>1, <1>3, QuietSends, ChallengedSends, UnchallengedSends, Reply1Sends
  DEF SenderStep, loopVars
<1>4. CASE report
  <2>1. call'.pc = "idle" /\ UNCHANGED <<challengedMode, clock, sockbuf, emitted>>
    BY <1>4 DEF report, NoCall
  <2>2. AnsweredInv'
    BY <2>1 DEF AnsweredInv, Succeeded
  <2>3. QED
    BY <1>4, <2>1, <2>2, ReportFaithful DEF SenderSends
<1>5. CASE Abandon
  BY <1>1, <1>5, QuietSends DEF Abandon, loopVars
<1>6. CASE Shutdown
  <2>1. UNCHANGED <<challengedMode, clock, call, sockbuf, emitted, reports>>
    BY <1>6 DEF Shutdown, senderVars
  <2>2. QED
    BY <1>1, <2>1 DEF SenderSends, AnsweredInv, Succeeded, ProbeInv
<1>7. QED
  BY <1>2, <1>3, <1>4, <1>5, <1>6 DEF AttesterStep

\* The attester's steps keep the invariant.
LEMMA AttesterMovesKeep ==
  ASSUME ExchangeInv, AttesterMoves
  PROVE  ExchangeInv'
<1>1. /\ AttesterStep /\ UNCHANGED vars /\ Carry
      /\ AttesterInv(Replies) /\ AnchorInv /\ TypeInv /\ SentInv /\ NetworkInv
  BY DEF ExchangeInv, AttesterMoves, AnchorInv
<1>2. UNCHANGED <<wall, inbox, inHand, sent>>
  BY <1>1 DEF vars
<1>3. AttesterInv(Replies)'
  BY <1>1, AnchorRepliesOK, AttesterStepKeeps
<1>4. AnchorInv'
  BY <1>1, AnchorStep
<1>5. SenderSends /\ ReportInv'
  BY <1>1, <1>2, AttesterSends DEF NetworkInv
<1>6. clock' = clock /\ challengedMode' = challengedMode /\ AnsweredInv' /\ clock \in Nat
  BY <1>1, <1>5 DEF SenderSends, AttesterInv, SenderTypes
<1>7. wall' = clock'
  BY <1>2, <1>6 DEF ExchangeInv
<1>8. SocketInv'
  <2>1. sockbuf \in Seq(Deliveries(Replies))
    BY <1>1 DEF AttesterInv, SenderTypes
  <2>2. CASE sockbuf' = sockbuf
    BY <1>1, <1>2, <1>6, <2>2 DEF NetworkInv, SocketInv
  <2>3. CASE sockbuf # << >> /\ sockbuf' = Tail(sockbuf)
    <3>1. \A q \in DOMAIN sockbuf' : q + 1 \in DOMAIN sockbuf /\ sockbuf'[q] = sockbuf[q + 1]
      BY <2>1, <2>3, TailElements
    <3>2. QED
      BY <1>1, <1>2, <1>6, <3>1 DEF NetworkInv, SocketInv
  <2>4. QED
    BY <1>5, <2>2, <2>3 DEF SenderSends
<1>9. /\ DOMAIN emitted \subseteq DOMAIN emitted'
      /\ \A p \in DOMAIN emitted : emitted'[p] = emitted[p]
      /\ \A p \in DOMAIN emitted' \ DOMAIN emitted :
            /\ Released(sent, emitted'[p].stamp, clock)
            /\ ~challengedMode => emitted'[p].stamp \in Stamps
  <2>1. emitted \in Seq(OwnProbes)
    BY <1>1 DEF AttesterInv, SenderTypes
  <2>2. CASE emitted' = emitted
    BY <2>2
  <2>3. ASSUME NEW e \in OwnProbes, emitted' = Append(emitted, e),
               Released(sent, e.stamp, clock), ~challengedMode => e.stamp \in Stamps
        PROVE  /\ DOMAIN emitted \subseteq DOMAIN emitted'
               /\ \A p \in DOMAIN emitted : emitted'[p] = emitted[p]
               /\ \A p \in DOMAIN emitted' \ DOMAIN emitted :
                     /\ Released(sent, emitted'[p].stamp, clock)
                     /\ ~challengedMode => emitted'[p].stamp \in Stamps
    <3>1. /\ Len(emitted) \in Nat
          /\ DOMAIN emitted = 1 .. Len(emitted) /\ DOMAIN emitted' = 1 .. Len(emitted) + 1
          /\ \A i \in 1 .. Len(emitted) : emitted'[i] = emitted[i]
          /\ emitted'[Len(emitted) + 1] = e
      BY <2>1, <2>3, LogAppend
    <3>2. QED
      BY <2>3, <3>1
  <2>4. QED
    BY <1>5, <2>2, <2>3 DEF SenderSends
<1>10. ProbeInv'
  <2>1. \A p \in DOMAIN emitted' : Released(sent, emitted'[p].stamp, clock)
    BY <1>1, <1>9 DEF NetworkInv, ProbeInv
  <2>2. ~challengedMode => \A p \in DOMAIN emitted' : emitted'[p].stamp \in Stamps
    BY <1>1, <1>9 DEF NetworkInv, ProbeInv
  <2>3. QED
    BY <1>2, <1>5, <1>6, <2>1, <2>2 DEF ProbeInv, SenderSends
<1>11. FlightInv'
  <2>1. net' = net \cup {InFlight("probe", i) : i \in DOMAIN emitted' \ DOMAIN emitted}
    BY <1>1, <1>2 DEF Carry
  <2>2. \A m \in net : Flies(emitted', sent, m)
    BY <1>1, <1>9 DEF NetworkInv, FlightInv, Flies
  <2>3. ASSUME NEW i \in DOMAIN emitted' \ DOMAIN emitted
        PROVE  Flies(emitted', sent, InFlight("probe", i))
    BY <1>6, <1>9 DEF Flies, InFlight
  <2>4. QED
    BY <1>2, <2>1, <2>2, <2>3 DEF FlightInv
<1>12. ArrivedInv'
  BY <1>1, <1>2 DEF NetworkInv, ArrivedInv, Pending
<1>13. QED
  BY <1>3, <1>4, <1>5, <1>6, <1>7, <1>8, <1>10, <1>11, <1>12 DEF ExchangeInv, NetworkInv

----------------------------------------------------------------------------
(* The anchor's steps. *)

\* What a step of the anchor does to the network: it may send one reply, now, to
\* a probe that was pending.
AnchorSends ==
    /\ wall' = wall /\ Pending' \subseteq Pending
    /\ Keeps(sent, sent')
    /\ \A n \in DOMAIN sent' \ DOMAIN sent :
          /\ sent'[n].tx = wall
          /\ \E d \in Pending : sent'[n].reply.probe = d.probe /\ sent'[n].rx = d.rx

\* Answering a datagram.
LEMMA HandleSends ==
  ASSUME AnchorInv, Handle
  PROVE  AnchorSends
<1>1. wall' = wall /\ Pending' \subseteq Pending /\ TypeInv /\ TypeOK /\ TimeInv
  BY HandleFrame, PendingHandle DEF AnchorInv, TypeInv
<1>2. ASSUME sent' = sent
      PROVE  AnchorSends
  BY <1>1, <1>2 DEF AnchorSends, Keeps
<1>3. ASSUME NEW d \in {inHand[i] : i \in DOMAIN inHand},
             Len(sent) \in Nat, DOMAIN sent = 1 .. Len(sent),
             Grows(Len(sent) + 1), NewReplyTo(Len(sent) + 1, d)
      PROVE  AnchorSends
  <2>1. d \in Pending
    BY <1>1, InHandPending
  <2>2. Keeps(sent, sent') /\ DOMAIN sent' \ DOMAIN sent \subseteq {Len(sent) + 1}
    BY <1>3 DEF Grows, Keeps
  <2>3. /\ sent'[Len(sent) + 1].tx = wall /\ sent'[Len(sent) + 1].rx = d.rx
        /\ sent'[Len(sent) + 1].reply.probe = d.probe
    BY <1>3 DEF NewReplyTo
  <2>4. QED
    BY <1>1, <2>1, <2>2, <2>3 DEF AnchorSends
<1>4. ASSUME NEW d \in {inHand[i] : i \in DOMAIN inHand},
             NEW nonce \in randomNonce, AnswerProbe0(d, nonce)
      PROVE  AnchorSends
  BY <1>1, <1>2, <1>3, <1>4, Answer0Effect
<1>5. ASSUME NEW d \in {inHand[i] : i \in DOMAIN inHand}, AnswerProbe1(d)
      PROVE  AnchorSends
  BY <1>1, <1>2, <1>3, <1>5, Answer1Effect
<1>6. QED
  BY <1>2, <1>4, <1>5, HandleCases

\* Every step of the anchor.
LEMMA AnchorStepSends ==
  ASSUME AnchorInv, Receive \/ Handle \/ Reload \/ \E v \in OffsetVectors : SetOffsets(v)
  PROVE  AnchorSends
<1>1. TypeOK
  BY DEF AnchorInv, TypeInv
<1>2. ASSUME UNCHANGED <<wall, sent>>, Pending' \subseteq Pending
      PROVE  AnchorSends
  BY <1>2 DEF AnchorSends, Keeps
<1>3. CASE Receive
  BY <1>1, <1>2, <1>3, ReceiveFrame, PendingReceive
<1>4. CASE Reload
  BY <1>2, <1>4, ReloadFrame DEF Pending
<1>5. CASE \E v \in OffsetVectors : SetOffsets(v)
  BY <1>2, <1>5 DEF SetOffsets, Pending
<1>6. QED
  BY <1>3, <1>4, <1>5, HandleSends

\* The part of the network's invariant that only a growing history and passing
\* time can touch.
LEMMA HistoryGrows ==
  ASSUME NetworkInv, TypeInv, AttesterInv(Replies), Keeps(sent, sent'),
         UNCHANGED <<challengedMode, call, sockbuf, emitted, reports>>,
         clock' \in Nat, clock <= clock'
  PROVE  SocketInv' /\ ProbeInv' /\ AnsweredInv' /\ ReportInv'
<1>1. clock \in Int /\ clock' \in Int /\ \A h \in DOMAIN sent : sent[h].tx \in Nat
  BY LogType DEF AttesterInv, SenderTypes
<1>2. /\ \A x : Released(sent, x, clock) => Released(sent', x, clock')
      /\ \A r : Delivered(sent, r, clock) => Delivered(sent', r, clock')
      /\ RepliesIn(sent) \subseteq RepliesIn(sent')
      /\ \A r : Faithful(sent, r) => Faithful(sent', r)
  BY <1>1, ReleasedLater
<1>3. SocketInv'
  BY <1>2 DEF NetworkInv, SocketInv
<1>4. ProbeInv'
  BY <1>2 DEF NetworkInv, ProbeInv
<1>5. AnsweredInv'
  BY <1>2 DEF NetworkInv, AnsweredInv, Succeeded
<1>6. ReportInv'
  BY <1>2 DEF NetworkInv, ReportInv, Successes
<1>7. QED
  BY <1>3, <1>4, <1>5, <1>6

\* A datagram stays in flight, a probe stays arrived.
LEMMA FlightGrows ==
  ASSUME TypeInv, Keeps(sent, sent')
  PROVE  /\ \A m : Flies(emitted, sent, m) => Flies(emitted, sent', m)
         /\ \A x : \A t \in Int : Released(sent, x, t) => Released(sent', x, t)
<1>1. \A h \in DOMAIN sent : sent[h].tx \in Nat
  BY LogType
<1>2. ASSUME NEW x, NEW t \in Int, Released(sent, x, t)
      PROVE  Released(sent', x, t)
  BY <1>1, <1>2, ReleasedLater
<1>3. ASSUME NEW m, Flies(emitted, sent, m)
      PROVE  Flies(emitted, sent', m)
  <2>1. m.at \in Int
    BY <1>3 DEF Flies
  <2>2. QED
    BY <1>2, <1>3, <2>1 DEF Flies, Keeps
<1>4. QED
  BY <1>2, <1>3

\* The anchor's steps keep the invariant.
LEMMA AnchorMovesKeep ==
  ASSUME ExchangeInv, AnchorMoves
  PROVE  ExchangeInv'
<1>1. /\ Receive \/ Handle \/ Reload \/ \E v \in OffsetVectors : SetOffsets(v)
      /\ UNCHANGED attesterVars /\ Carry
  BY DEF AnchorMoves
<1>2. /\ AttesterInv(Replies) /\ AnchorInv /\ TypeInv /\ TypeOK /\ wall = clock /\ NetworkInv
      /\ clock \in Nat
  BY DEF ExchangeInv, AnchorInv, TypeInv, AttesterInv, SenderTypes
<1>3. AttesterInv(Replies)'
  BY <1>1, <1>2, SurroundingsKeep
<1>4. AnchorInv'
  BY <1>1, <1>2, AnchorStep DEF Next, Environment
<1>5. AnchorSends
  BY <1>1, <1>2, AnchorStepSends
<1>6. /\ UNCHANGED <<challengedMode, call, sockbuf, emitted, reports, clock>>
      /\ clock' \in Nat /\ clock <= clock' /\ wall' = clock' /\ Keeps(sent, sent')
  BY <1>1, <1>2, <1>5 DEF attesterVars, senderVars, loopVars, AnchorSends
<1>7. SocketInv' /\ ProbeInv' /\ AnsweredInv' /\ ReportInv'
  BY <1>2, <1>6, HistoryGrows
<1>8. /\ \A m : Flies(emitted, sent, m) => Flies(emitted, sent', m)
      /\ \A x : \A t \in Int : Released(sent, x, t) => Released(sent', x, t)
  BY <1>2, <1>6, FlightGrows
<1>9. FlightInv'
  <2>1. net' = net \cup {InFlight("reply", i) : i \in DOMAIN sent' \ DOMAIN sent}
    BY <1>1, <1>6 DEF Carry
  <2>2. \A m \in net : Flies(emitted, sent', m)
    BY <1>2, <1>8 DEF NetworkInv, FlightInv
  <2>3. ASSUME NEW i \in DOMAIN sent' \ DOMAIN sent
        PROVE  Flies(emitted, sent', InFlight("reply", i))
    BY <1>2, <1>5 DEF Flies, InFlight, AnchorSends
  <2>4. QED
    BY <1>6, <2>1, <2>2, <2>3 DEF FlightInv
<1>10. ArrivedInv'
  <2>1. /\ \A d \in Pending : d.rx - MinDelay \in Int
        /\ \A j \in DOMAIN sent : sent[j].rx - MinDelay \in Int
    BY <1>2, PendingType, LogType, NetworkAssumption
  <2>2. \A d \in Pending : Released(sent', d.probe.stamp, d.rx - MinDelay)
    BY <1>2, <1>8, <2>1 DEF NetworkInv, ArrivedInv
  <2>3. ASSUME NEW j \in DOMAIN sent'
        PROVE  Released(sent', sent'[j].reply.probe.stamp, sent'[j].rx - MinDelay)
    <3>1. CASE j \in DOMAIN sent
      <4>1. sent'[j] = sent[j]
        BY <1>6, <3>1 DEF Keeps
      <4>2. QED
        BY <1>2, <1>8, <2>1, <3>1, <4>1 DEF NetworkInv, ArrivedInv
    <3>2. CASE j \notin DOMAIN sent
      BY <1>5, <2>2, <2>3, <3>2 DEF AnchorSends
    <3>3. QED
      BY <3>1, <3>2
  <2>4. QED
    BY <1>5, <2>2, <2>3 DEF ArrivedInv, AnchorSends
<1>11. QED
  BY <1>3, <1>4, <1>6, <1>7, <1>9, <1>10 DEF ExchangeInv, NetworkInv

----------------------------------------------------------------------------
(* The network and time. *)

\* What the attester sent has the type of a probe the anchor reads, and its
\* nonce has been published.
LEMMA EmittedTypes ==
  ASSUME ExchangeInv, NEW p \in DOMAIN emitted
  PROVE  emitted[p] \in Probes /\ emitted[p].stamp \in Stamps \cup Published
<1>1. emitted[p] \in OwnProbes
  BY ElementOfSeq, LenProperties DEF ExchangeInv, AttesterInv, SenderTypes
<1>2. emitted[p] \in Probes
  BY <1>1, PartiesAssumption, SeqAssumption DEF OwnProbes, Probes, Stamps
<1>3. Released(sent, emitted[p].stamp, clock)
  BY DEF ExchangeInv, NetworkInv, ProbeInv
<1>4. emitted[p].stamp \in Nonces => emitted[p].stamp \in Published
  BY <1>3 DEF Released, Published
<1>5. QED
  BY <1>1, <1>2, <1>4 DEF OwnProbes, Stamps

\* A datagram that arrives, the original or a copy, keeps the invariant.
LEMMA ArrivesKeep ==
  ASSUME ExchangeInv, NEW m \in net, Arrives(m), net' \subseteq net
  PROVE  ExchangeInv'
<1>1. /\ AttesterInv(Replies) /\ AnchorInv /\ TypeInv /\ TypeOK /\ wall = clock /\ NetworkInv
      /\ clock \in Nat /\ wall \in Nat
  BY DEF ExchangeInv, AnchorInv, TypeInv, AttesterInv, SenderTypes
<1>2. Flies(emitted, sent, m) /\ m.at \in Nat /\ clock >= m.at + MinDelay
  BY <1>1 DEF Arrives, NetworkInv, FlightInv, Flies
<1>3. CASE /\ m.kind = "probe" /\ UNCHANGED attesterVars
           /\ Arrive(ProbePacketSize, emitted[m.index], AttesterIP)
  <2>1. m.index \in DOMAIN emitted /\ Released(sent, emitted[m.index].stamp, m.at)
    BY <1>2, <1>3 DEF Flies
  <2>2. AnchorInv'
    <3>1. emitted[m.index] \in Probes /\ emitted[m.index].stamp \in Stamps \cup Published
      BY <2>1, EmittedTypes
    <3>2. ProbePacketSize \in Nat
      BY DEF ProbePacketSize
    <3>3. QED
      BY <1>1, <1>3, <3>1, <3>2, PartiesAssumption, AnchorArrive
  <2>3. AttesterInv(Replies)'
    BY <1>1, <1>3, SurroundingsKeep
  <2>4. /\ UNCHANGED <<challengedMode, call, sockbuf, emitted, reports, clock>>
        /\ UNCHANGED <<sent, wall>> /\ Keeps(sent, sent')
    BY <1>3 DEF attesterVars, senderVars, loopVars, Arrive, Keeps
  <2>5. clock' \in Nat /\ clock <= clock' /\ wall' = clock'
    BY <1>1, <2>4
  <2>6. SocketInv' /\ ProbeInv' /\ AnsweredInv' /\ ReportInv'
    BY <1>1, <2>4, <2>5, HistoryGrows
  <2>7. FlightInv'
    BY <1>1, <2>4 DEF NetworkInv, FlightInv
  <2>8. ArrivedInv'
    <3>1. \A d \in Pending' \ Pending : d.rx = wall /\ d.probe = emitted[m.index]
      BY <1>1, <1>3, PendingArrive
    <3>2. Released(sent, emitted[m.index].stamp, wall - MinDelay)
      <4>1. /\ wall - MinDelay \in Int /\ m.at \in Int /\ m.at <= wall - MinDelay
            /\ \A h \in DOMAIN sent : sent[h].tx \in Nat
        BY <1>1, <1>2, NetworkAssumption, LogType
      <4>2. QED
        BY <2>1, <4>1, ReleasedLater DEF Keeps
    <3>3. \A d \in Pending' : Released(sent, d.probe.stamp, d.rx - MinDelay)
      BY <1>1, <3>1, <3>2 DEF NetworkInv, ArrivedInv
    <3>4. QED
      BY <1>1, <2>4, <3>3 DEF NetworkInv, ArrivedInv
  <2>9. QED
    BY <2>2, <2>3, <2>5, <2>6, <2>7, <2>8 DEF ExchangeInv, NetworkInv
<1>4. CASE /\ m.kind = "reply" /\ UNCHANGED <<loopVars, vars>>
           /\ Deliver(sent[m.index].reply, "reply")
  <2>1. m.index \in DOMAIN sent /\ m.at = sent[m.index].tx
    BY <1>2, <1>4 DEF Flies
  <2>2. sent[m.index].reply \in Replies /\ Delivered(sent, sent[m.index].reply, clock)
    BY <1>1, <1>2, <2>1, LogType DEF Delivered
  <2>3. AnchorInv'
    <3>1. UNCHANGED vars
      BY <1>4
    <3>2. QED
      BY <1>1, <3>1, AnchorStep
  <2>4. AttesterInv(Replies)'
    <3>1. UNCHANGED loopVars
      BY <1>4
    <3>2. \E r \in Replies, shape \in {"reply", "odd", "short"} : Deliver(r, shape)
      BY <1>4, <2>2
    <3>3. QED
      BY <1>1, <3>1, <3>2, SurroundingsKeep
  <2>5. /\ UNCHANGED <<challengedMode, call, emitted, reports, clock>>
        /\ UNCHANGED <<sent, wall, inbox, inHand>>
    BY <1>4 DEF Deliver, loopVars, vars
  <2>6. SocketInv'
    <3> DEFINE e == [reply |-> sent[m.index].reply, shape |-> "reply", rx |-> clock]
    <3>1. /\ sockbuf' = Append(sockbuf, e)
          /\ e \in Deliveries(Replies) /\ e.reply = sent[m.index].reply
      BY <1>1, <1>4, <2>2 DEF Deliver, Deliveries
    <3> HIDE DEF e
    <3>2. \A q \in DOMAIN sockbuf' :
             (q \in DOMAIN sockbuf /\ sockbuf'[q] = sockbuf[q]) \/ sockbuf'[q] = e
      BY <1>1, <3>1, LogAppend DEF AttesterInv, SenderTypes
    <3>3. \A q \in DOMAIN sockbuf' : Delivered(sent, sockbuf'[q].reply, clock)
      BY <1>1, <2>2, <3>1, <3>2 DEF NetworkInv, SocketInv
    <3>4. QED
      BY <2>5, <3>3 DEF SocketInv
  <2>7. ProbeInv' /\ AnsweredInv' /\ ReportInv'
    BY <1>1, <2>5 DEF NetworkInv, ProbeInv, AnsweredInv, ReportInv, Successes, Succeeded
  <2>8. FlightInv' /\ ArrivedInv'
    BY <1>1, <2>5 DEF NetworkInv, FlightInv, ArrivedInv, Pending
  <2>9. wall' = clock'
    BY <1>1, <2>5
  <2>10. QED
    BY <2>3, <2>4, <2>6, <2>7, <2>8, <2>9 DEF ExchangeInv, NetworkInv
<1>5. QED
  BY <1>3, <1>4 DEF Arrives

\* Losing a datagram keeps it.
LEMMA LossKeeps ==
  ASSUME ExchangeInv, UNCHANGED <<attesterVars, vars>>, net' \subseteq net
  PROVE  ExchangeInv'
<1>1. AttesterInv(Replies) /\ AnchorInv /\ wall = clock /\ NetworkInv
  BY DEF ExchangeInv
<1>2. UNCHANGED attesterVars /\ UNCHANGED vars
  OBVIOUS
<1>3. AttesterInv(Replies)' /\ AnchorInv'
  BY <1>1, <1>2, SurroundingsKeep, AnchorStep
<1>4. UNCHANGED <<challengedMode, clock, call, sockbuf, emitted, reports, wall,
                  inbox, inHand, sent>>
  BY <1>2 DEF attesterVars, senderVars, loopVars, vars
<1>5. SocketInv' /\ ProbeInv' /\ AnsweredInv' /\ ReportInv'
  BY <1>1, <1>4 DEF NetworkInv, SocketInv, ProbeInv, AnsweredInv, ReportInv, Successes, Succeeded
<1>6. FlightInv' /\ ArrivedInv'
  BY <1>1, <1>4 DEF NetworkInv, FlightInv, ArrivedInv, Pending
<1>7. wall' = clock'
  BY <1>1, <1>4
<1>8. QED
  BY <1>3, <1>5, <1>6, <1>7 DEF ExchangeInv, NetworkInv

\* So does time, which passes on both machines.
LEMMA PassingKeeps ==
  ASSUME ExchangeInv, Passing
  PROVE  ExchangeInv'
<1>1. /\ AttesterInv(Replies) /\ AnchorInv /\ TypeInv /\ wall = clock /\ NetworkInv
      /\ clock \in Nat
  BY DEF ExchangeInv, AnchorInv, AttesterInv, SenderTypes
<1>2. SenderTick /\ Tick /\ UNCHANGED loopVars /\ net' = net
  BY DEF Passing, networkVars
<1>3. AttesterInv(Replies)' /\ AnchorInv'
  BY <1>1, <1>2, SurroundingsKeep, AnchorStep DEF Next, Environment
<1>4. /\ UNCHANGED <<challengedMode, call, sockbuf, emitted, reports, inbox, inHand, sent>>
      /\ clock' = clock + 1 /\ wall' = wall + 1
  BY <1>2 DEF SenderTick, Tick, loopVars
<1>5. clock' \in Nat /\ clock <= clock' /\ wall' = clock' /\ Keeps(sent, sent')
  BY <1>1, <1>4 DEF Keeps
<1>6. SocketInv' /\ ProbeInv' /\ AnsweredInv' /\ ReportInv'
  BY <1>1, <1>4, <1>5, HistoryGrows
<1>7. FlightInv' /\ ArrivedInv'
  BY <1>1, <1>2, <1>4 DEF NetworkInv, FlightInv, ArrivedInv, Pending
<1>8. QED
  BY <1>3, <1>5, <1>6, <1>7 DEF ExchangeInv, NetworkInv

\* The invariant holds at first.
LEMMA ExchangeInitially == ExchangeInit => ExchangeInv
<1> SUFFICES ASSUME ExchangeInit PROVE ExchangeInv
  OBVIOUS
<1>1. AttesterInit /\ Init /\ net = {}
  BY DEF ExchangeInit
<1>2. AttesterInv(Replies)
  BY <1>1, AttesterInitially
<1>3. /\ sent = << >> /\ inbox = << >> /\ inHand = << >> /\ wall = 0
      /\ states = [k \in Keys |-> Fresh]
  BY <1>1 DEF Init
<1>4. DOMAIN sent = {} /\ Pending = {} /\ \A k \in Keys : states[k].nonce = 0
  BY <1>3 DEF Pending, Fresh
<1>5. AnchorInv
  <2>1. SentInv
    BY <1>4 DEF SentInv
  <2>2. NonceInv
    BY <1>4 DEF NonceInv, NonceAcceptedOnce
  <2>3. QED
    BY <1>1, <2>1, <2>2, TypeInit, TimeInit, ChallengeInitially DEF AnchorInv
<1>6. /\ DOMAIN sockbuf = {} /\ DOMAIN emitted = {} /\ DOMAIN reports = {}
      /\ call.pc = "idle" /\ clock = 0
  BY <1>1 DEF AttesterInit, SenderInit, NoCall
<1>7. SocketInv /\ ProbeInv /\ AnsweredInv /\ ReportInv
  BY <1>6 DEF SocketInv, ProbeInv, AnsweredInv, ReportInv, Successes, Succeeded
<1>8. FlightInv /\ ArrivedInv
  BY <1>1, <1>4 DEF FlightInv, ArrivedInv
<1>9. QED
  BY <1>2, <1>3, <1>5, <1>6, <1>7, <1>8 DEF ExchangeInv, NetworkInv

\* Every step of the exchange keeps the invariant.
LEMMA ExchangeStep == ExchangeInv /\ [ExchangeNext]_exchangeVars => ExchangeInv'
<1> SUFFICES ASSUME ExchangeInv, [ExchangeNext]_exchangeVars PROVE ExchangeInv'
  OBVIOUS
<1>1. CASE AttesterMoves
  BY <1>1, AttesterMovesKeep
<1>2. CASE AnchorMoves
  BY <1>2, AnchorMovesKeep
<1>3. CASE Delivery
  <2>1. PICK m \in net : Arrives(m) /\ net' = net \ {m}
    BY <1>3 DEF Delivery
  <2>2. QED
    BY <2>1, ArrivesKeep
<1>4. CASE Duplication
  <2>1. PICK m \in net : Arrives(m) /\ UNCHANGED <<net, losses, cleanRounds>>
    BY <1>4, Zenon DEF Duplication
  <2>2. QED
    BY <2>1, ArrivesKeep
<1>5. CASE Loss
  <2>1. net' \subseteq net /\ UNCHANGED <<attesterVars, vars>>
    BY <1>5 DEF Loss
  <2>2. QED
    BY <2>1, LossKeeps
<1>6. CASE Passing
  BY <1>6, PassingKeeps
<1>7. CASE UNCHANGED exchangeVars
  <2>1. net' \subseteq net /\ UNCHANGED <<attesterVars, vars>>
    BY <1>7 DEF exchangeVars, networkVars
  <2>2. QED
    BY <2>1, LossKeeps
<1>8. QED
  BY <1>1, <1>2, <1>3, <1>4, <1>5, <1>6, <1>7 DEF ExchangeNext

----------------------------------------------------------------------------
(* What a challenged report proves. *)

\* Two replies that published a nonce are one.
LEMMA OnePublisher ==
  ASSUME SentInv, NEW h \in DOMAIN sent, NEW i \in DOMAIN sent, NEW x \in Nonces,
         sent[h].role = 0, sent[h].reply.since = x,
         sent[i].reply.since = x
  PROVE  h = i
<1>1. x \notin Stamps
  BY NonceAssumption DEF Stamps
<1>2. sent[i].role = 0
  BY <1>1 DEF SentInv, Accumulates
<1>3. QED
  BY <1>2 DEF SentInv, Publishes

\* An accumulated round trip keeps its value on its way to the bound.
LEMMA BoundOfInterval ==
  ASSUME NEW v \in OffsetVectors, NEW since \in Nat, since <= MaxClock
  PROVE  ProvableMaxDistance(Int64(Uint64(ParseOffsetInfo(v).rtt + since))) >= since
<1> DEFINE a == ParseOffsetInfo(v).rtt
<1>1. a \in Nat /\ 2 * (a + MaxClock) < Word
  BY InfoType, DurationAssumption, WordAssumption DEF Stamps
<1> HIDE DEF a
<1>2. Word \in Nat \ {0} /\ MaxClock \in Nat
  BY WordAssumption, BoundAssumption
<1>3. a + since \in 0 .. Word - 1 /\ 2 * (a + since) < Word
  BY <1>1, <1>2
<1>4. Uint64(a + since) = a + since
  BY <1>2, <1>3, SmallRemainder DEF Uint64
<1>5. Int64(a + since) = a + since
  BY <1>3 DEF Int64
<1>6. ProvableMaxDistance(a + since) >= since
  BY <1>1 DEF ProvableMaxDistance
<1>7. QED
  BY <1>4, <1>5, <1>6 DEF a

\* The invariant gives the property.
LEMMA ReportSound == ExchangeInv => ChallengedReportSound
<1> SUFFICES ASSUME ExchangeInv, NEW i \in Successes, reports[i].challenged
             PROVE  /\ \E h, j \in DOMAIN sent : MeasuredBy(i, h, j)
                    /\ reports[i].bound >= 2 * MinDelay
  BY DEF ChallengedReportSound
<1> DEFINE r0 == reports[i].reply0
           r1 == reports[i].reply1
           x == r1.probe.stamp
<1>1. /\ TypeInv /\ TypeOK /\ ChallengeIsCausal /\ NonceInv /\ SentInv
      /\ NetworkInv /\ ReportIsOneExchange /\ EchoesNonce
  BY DEF ExchangeInv, AnchorInv, TypeInv, ChallengeInv, AttesterInv
<1>2. Faithful(sent, reports[i])
  BY <1>1 DEF NetworkInv, ReportInv
<1>3. PICK j \in DOMAIN sent : sent[j].reply = r1
  BY <1>2 DEF Faithful, RepliesIn
<1>4. PICK g \in DOMAIN sent : sent[g].reply = r0
  BY <1>2 DEF Faithful, RepliesIn
<1>5. sent[j].reply.challenged
  BY <1>2, <1>3 DEF Faithful
<1>6. PICK h \in 1 .. j - 1 : /\ Opens(h, j) /\ sent[h].reply.since = sent[j].reply.probe.stamp
                             /\ sent[j].reply.since = sent[j].rx - sent[h].tx
  BY <1>1, <1>5 DEF ChallengeIsCausal
<1>7. h \in DOMAIN sent
  BY <1>1, <1>6, LenProperties DEF TypeOK
<1>8. x \in Nonces /\ sent[h].role = 0 /\ sent[h].reply.since = x
  BY <1>1, <1>3, <1>5, <1>6 DEF NonceInv, TypeOK, Opens
<1>9. challengedMode
  <2>1. PICK m \in 1 .. Len(emitted) - 1 : Echoes(r1, emitted[m + 1])
    BY <1>1 DEF ReportIsOneExchange
  <2>2. m + 1 \in DOMAIN emitted
    BY <2>1, LenProperties DEF ExchangeInv, AttesterInv, SenderTypes
  <2>3. x = emitted[m + 1].stamp
    BY <2>1 DEF Echoes
  <2>4. x \notin Stamps
    BY <1>8, NonceAssumption DEF Stamps
  <2>5. QED
    BY <1>1, <2>2, <2>3, <2>4 DEF NetworkInv, ProbeInv
<1>10. x = r0.since
  BY <1>1, <1>9 DEF EchoesNonce
<1>11. h = g
  BY <1>1, <1>4, <1>7, <1>8, <1>10, OnePublisher
<1>12. MeasuredBy(i, h, j)
  BY <1>1, <1>3, <1>4, <1>5, <1>6, <1>11 DEF MeasuredBy, SentInv
<1>13. reports[i].bound >= 2 * MinDelay
  <2>1. PICK k \in DOMAIN sent : /\ sent[k].role = 0 /\ sent[k].reply.since = x
                                /\ sent[k].tx + MinDelay <= sent[j].rx - MinDelay
    BY <1>1, <1>3, <1>8 DEF NetworkInv, ArrivedInv, Released
  <2>2. k = h
    BY <1>1, <1>7, <1>8, <2>1, OnePublisher
  <2>3. sent[h].tx \in Nat /\ sent[j].rx \in Nat /\ sent[j].rx <= MaxClock
    BY <1>1, <1>7, LogType DEF SentInv
  <2>4. r1.since \in Nat /\ r1.since <= MaxClock /\ r1.since >= 2 * MinDelay
    BY <1>3, <1>6, <2>1, <2>2, <2>3, NetworkAssumption, BoundAssumption
  <2>5. PICK v \in OffsetVectors : r1.rtt = Uint64(ParseOffsetInfo(v).rtt + r1.since)
    BY <1>1, <1>3, <1>5 DEF SentInv, Accumulates
  <2>6. reports[i].bound = ProvableMaxDistance(Int64(r1.rtt))
    BY <1>2 DEF Faithful
  <2>7. reports[i].bound >= r1.since
    BY <2>4, <2>5, <2>6, BoundOfInterval
  <2>8. reports[i].bound \in Int
    <3>1. r1.rtt \in Stamps
      BY <1>1, <1>3, LogType DEF Replies
    <3>2. QED
      BY <2>6, <3>1, WordAssumption DEF Stamps, Int64, ProvableMaxDistance
  <2>9. QED
    BY <2>4, <2>7, <2>8, NetworkAssumption
<1>14. QED
  BY <1>7, <1>12, <1>13

\* The promise of the protocol, end to end and at every cadence: a report signed
\* as challenged carries the interval between its own two exchanges, and the
\* bound on the distance computed from it is never below the true distance.
\* (Reflector.Run, LinuxSender.ProbePair, observe and geo.ProvableMaxDistance.)
THEOREM ChallengedReportCorrect == Exchange => []ChallengedReportSound
  BY ExchangeInitially, ExchangeStep, ReportSound, PTL DEF Exchange

\* The two parts keep in each other's company what each promises on its own: the
\* attester against a network that answers its probes at will, the anchor
\* against senders that present any published nonce.
THEOREM PartsCorrect ==
  Exchange => [](TypeOK /\ AttesterTypeOK /\ ReportIsOneExchange /\ EchoesNonce
                 /\ ChallengeIsCausal /\ NonceAcceptedOnce)
<1>1. ExchangeInv => /\ TypeOK /\ ReportIsOneExchange /\ EchoesNonce
                     /\ ChallengeIsCausal /\ NonceAcceptedOnce
  BY DEF ExchangeInv, AnchorInv, TypeInv, ChallengeInv, NonceInv, AttesterInv
<1>2. ExchangeInv => AttesterTypeOK
  BY DEF ExchangeInv, AttesterInv, SenderTypes, LoopTypes, Calls, AttesterTypeOK
<1>3. QED
  BY <1>1, <1>2, ExchangeInitially, ExchangeStep, PTL DEF Exchange
=============================================================================
