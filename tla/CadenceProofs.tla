--------------------------- MODULE CadenceProofs ---------------------------
(***************************************************************************)
(* What the order of the default timeouts adds to ExchangeProofs: every    *)
(* success is measured, sound and challenged, and a round in which the     *)
(* network misbehaves spoils no later one.                                 *)
(***************************************************************************)
EXTENDS ExchangeProofs

----------------------------------------------------------------------------
(* The invariants: what is where, and since when. *)

\* Neither the network nor the anchor keeps a datagram for longer than it may.
DueInv ==
    /\ \A m \in net : m.at <= clock /\ clock <= m.at + MaxDelay
    /\ \A d \in Pending : clock <= d.rx + MaxLag

\* The attester sends nothing after LastSend until its next round.
LastSend == IF call.pc = "idle" THEN nextAt - Interval ELSE clock

Mine == states[SelfKey]

\* The pair s was last touched by a probe sent at t or before.
TouchedBy(s, t) ==
    s.pairCount # 0 => /\ s.lastTx \in Nat
                       /\ s.pairStart <= t + MaxDelay
                       /\ s.lastTx <= t + MaxDelay + MaxLag

SettledInv ==
    /\ \A m \in net : m.kind = "probe" => m.at <= LastSend
    /\ \A d \in Pending : d.rx <= LastSend + MaxDelay
    /\ TouchedBy(Mine, LastSend)

\* The attester's key is never revoked.
KeptInv ==
    SelfKey \in reload.new /\ SelfKey \in authorizedKeys /\ SelfKey \notin reload.doomed

\* The sequence numbers of the probes increase: two are used in a round, and
\* rounds are Interval apart.
PaceInv ==
    /\ seq <= 2 * round /\ 2 * round < SeqWord
    /\ call.pc = "wait0" /\ challengedMode => seq < 2 * round
    /\ IF call.pc = "idle" THEN round * Interval <= nextAt
                           ELSE round > 0 /\ (round - 1) * Interval <= clock
SeqInv ==
    /\ \A p \in DOMAIN emitted : emitted[p].seq <= seq
    /\ \A p, q \in DOMAIN emitted : p < q => emitted[p].seq < emitted[q].seq
    /\ call.pc = "wait0" /\ ~challengedMode =>
          call.p1.seq = seq /\ \A p \in DOMAIN emitted : emitted[p].seq < seq

\* The anchor has to do with probes of the attester only.
Known(log, probe) == \E p \in DOMAIN log : probe = log[p]
KnownInv ==
    /\ \A d \in Pending :
          Known(emitted, d.probe) /\ d.from = AttesterIP /\ d.size = ProbePacketSize
    /\ \A j \in DOMAIN sent : Known(emitted, sent[j].reply.probe)

\* The times of a call under way: Start is when it sent probe 0.
Start == call.deadline - Timeout
CallTimes ==
    Waiting => /\ 0 <= Start /\ Start <= call.sentAt
               /\ call.sentAt <= clock /\ call.sentAt <= call.deadline
               /\ call.pc = "wait0" => call.sentAt = Start /\ call.poll <= call.deadline

\* During a call only its own probes are on their way or pending.
OwnFlight(m) ==
    \/ emitted[m.index] = call.p0 /\ m.at = Start
    \/ call.pc = "wait1" /\ emitted[m.index] = call.p1 /\ m.at = call.sentAt
OwnArrival(d) ==
    /\ Start + MinDelay <= d.rx /\ d.rx <= call.deadline + MaxDelay
    /\ \/ d.probe = call.p0
       \/ call.pc = "wait1" /\ d.probe = call.p1 /\ call.sentAt + MinDelay <= d.rx
AroundInv ==
    Waiting => /\ \A m \in net : m.kind = "probe" => OwnFlight(m)
               /\ \A d \in Pending : OwnArrival(d)

----------------------------------------------------------------------------
(* The invariants: the anchor's pair state during a call. *)

AnswersTo(p) == {j \in DOMAIN sent : sent[j].reply.probe = p}

\* The pair s, whatever became of it, is over for a probe that arrives at t.
Lapsed(s, t) ==
    s.pairCount # 0 => /\ s.lastTx \in Nat /\ s.lastTx + StaleTimeout < t
                       /\ s.pairStart + VerifyInterval <= t

\* Reply j closes the pair reply h opened, two delays after h left.
Completes(h, j) ==
    /\ sent[j].role = 1 /\ Opens(h, j)
    /\ sent[j].reply.since = sent[j].rx - sent[h].tx
    /\ sent[h].tx + 2 * MinDelay <= sent[j].rx
    /\ challengedMode => sent[j].reply.challenged

\* No probe of this call has been handled; probe 0 has, once; two probes have.
Untouched ==
    call.pc = "wait0" /\ AnswersTo(call.p0) = {} /\ Lapsed(Mine, Start + MinDelay)
OpenedWith(h) ==
    /\ AnswersTo(call.p0) = {h}
    /\ sent[h].role = 0 /\ sent[h].reply.since = Mine.nonce /\ sent[h].tx = Mine.lastTx
    /\ sent[h].start = Mine.pairStart /\ sent[h].to = AttesterIP
    /\ sent[h].gen = gen[SelfKey]
Opened ==
    /\ Mine.pairCount = 1 /\ Mine.nonce \in Nonces /\ Mine.ip = AttesterIP
    /\ Start + MinDelay <= Mine.pairStart /\ Start + MinDelay <= Mine.lastTx
    /\ \E h \in DOMAIN sent : OpenedWith(h)
    /\ call.pc = "wait1" => AnswersTo(call.p1) = {}
Closed ==
    /\ Mine.pairCount >= 2 /\ Start + MinDelay <= Mine.pairStart
    /\ call.pc = "wait1" => \A j \in AnswersTo(call.p1) :
          \E h \in DOMAIN sent : sent[h].reply = call.reply0 /\ Completes(h, j)
RoundInv == Waiting => Untouched \/ Opened \/ Closed

\* The reply 0 of the call answers its probe 0, and took MinDelay.
Reply0Inv ==
    call.pc = "wait1" => \E h \in AnswersTo(call.p0) :
        sent[h].reply = call.reply0 /\ sent[h].tx + MinDelay <= call.sentAt

\* A success rests on a pair of replies.
Rests(r0, r1) ==
    \E h, j \in DOMAIN sent : sent[h].reply = r0 /\ sent[j].reply = r1 /\ Completes(h, j)
OutcomeInv ==
    /\ Succeeded => Rests(call.reply0, call.reply1)
    /\ \A i \in Successes : Rests(reports[i].reply0, reports[i].reply1)

CadenceInv ==
    /\ Deployed
    /\ DueInv /\ SettledInv /\ KeptInv /\ PaceInv /\ SeqInv /\ KnownInv
    /\ CallTimes /\ AroundInv /\ RoundInv /\ Reply0Inv /\ OutcomeInv

----------------------------------------------------------------------------
(* Numbers. *)

\* The constants.
LEMMA Durations ==
  /\ Timeout \in Nat /\ BusyPoll \in Nat /\ Interval \in Nat /\ MaxLag \in Nat
  /\ MinDelay \in Nat /\ MaxDelay \in Nat /\ MinDelay <= MaxDelay
  /\ VerifyInterval \in Nat /\ StaleTimeout \in Nat /\ MaxClock \in Nat
  /\ SeqWord \in Nat \ {0} /\ Word \in Nat
  BY SenderTimingAssumption, LoopAssumption, NetworkAssumption, TimingAssumption,
     BoundAssumption, SeqAssumption, WordAssumption

\* As many rounds as fit the clock do not use up the sequence numbers.
LEMMA RoundsFit ==
  ASSUME Deployed, NEW n \in Nat, n * Interval <= MaxClock
  PROVE  2 * (n + 1) < SeqWord
<1> DEFINE k == MaxClock \div Interval
<1>1. Interval \in Nat \ {0} /\ MaxClock \in Nat /\ 2 * (k + 1) < SeqWord
  BY Durations DEF Deployed, DefaultSetting, DefaultCadence
<1>2. k \in Nat /\ MaxClock < (k + 1) * Interval
  BY <1>1
<1> HIDE DEF k
<1>3. n < k + 1
  <2>1. SUFFICES ASSUME n >= k + 1 PROVE FALSE
    BY <1>2
  <2>2. n * Interval >= (k + 1) * Interval
    BY <1>1, <1>2, <2>1
  <2>3. QED
    BY <1>1, <1>2, <2>2
<1>4. QED
  BY <1>1, <1>2, <1>3, Durations

\* One more round is one more interval.
LEMMA NextRound == \A n \in Nat \ {0} : (n - 1) * Interval + Interval = n * Interval
  BY Durations

\* A sequence number that is not the last has a successor.
LEMMA Successor ==
  ASSUME NEW n \in Nat, n + 1 < SeqWord
  PROVE  NextSeq(n) = n + 1
<1>1. n + 1 \in 0 .. SeqWord - 1 /\ SeqWord \in Nat \ {0}
  BY Durations
<1>2. QED
  BY <1>1, SmallRemainder DEF NextSeq

----------------------------------------------------------------------------
(* The attester's steps, as far as the invariants can tell them apart. *)

\* A round begins: probe 0 is sent.
SeqsTaken ==
    /\ challengedMode => seq' = NextSeq(seq)
    /\ ~challengedMode => seq' = NextSeq(NextSeq(seq))
Begins ==
    /\ call.pc = "idle" /\ clock >= nextAt
    /\ call'.pc = "wait0" /\ call'.p0 \in OwnProbes /\ call'.p0.seq = NextSeq(seq)
    /\ emitted' = Append(emitted, call'.p0)
    /\ ~challengedMode => call'.p1.seq = NextSeq(NextSeq(seq))
    /\ call'.deadline = clock + Timeout /\ call'.poll = clock + BusyPoll
    /\ call'.sentAt = clock
    /\ SeqsTaken /\ round' = round + 1
    /\ UNCHANGED <<sockbuf, nextAt, reports>>

\* Reply 0 fires probe 1.
Fires ==
    /\ call.pc = "wait0" /\ Polling /\ sockbuf # << >> /\ sockbuf' = Tail(sockbuf)
    /\ Matches(Head(sockbuf).reply, call.p0)
    /\ call'.pc = "wait1" /\ call'.p0 = call.p0 /\ call'.reply0 = Head(sockbuf).reply
    /\ call'.deadline = call.deadline /\ call'.sentAt = clock
    /\ call'.p1 \in OwnProbes /\ emitted' = Append(emitted, call'.p1)
    /\ challengedMode => /\ call'.p1.seq = NextSeq(seq) /\ seq' = NextSeq(seq)
                         /\ call'.p1.stamp = call'.reply0.since
    /\ ~challengedMode => call'.p1 = call.p1 /\ seq' = seq
    /\ UNCHANGED <<round, nextAt, reports>>

\* Reply 1 completes the call.
Wins ==
    /\ call.pc = "wait1" /\ sockbuf # << >> /\ sockbuf' = Tail(sockbuf)
    /\ Matches(Head(sockbuf).reply, call.p1)
    /\ call'.pc = "done" /\ call'.err = "none"
    /\ call'.reply0 = call.reply0 /\ call'.reply1 = Head(sockbuf).reply
    /\ UNCHANGED <<seq, emitted, round, nextAt, reports>>

\* The call ends in an error: Sendto fails, reply 0 is none, time is up.
FailsToSend ==
    /\ SendMayFail /\ emitted' = emitted
    /\ \/ call.pc = "idle" /\ clock >= nextAt /\ SeqsTaken /\ round' = round + 1
       \/ /\ call.pc = "wait0" /\ round' = round
          /\ seq' = seq \/ (challengedMode /\ seq' = NextSeq(seq))
Mismatches ==
    /\ call.pc = "wait0" /\ ~challengedMode /\ sockbuf # << >>
    /\ Head(sockbuf).reply.probe.seq = call.p0.seq
    /\ ~(WellFormed(Head(sockbuf)) /\ Matches(Head(sockbuf).reply, call.p0))
    /\ call.p1 \in OwnProbes /\ emitted' = Append(emitted, call.p1)
    /\ UNCHANGED <<seq, round>>
GivesUp ==
    /\ Waiting /\ (~Polling \/ cancelled)
    /\ UNCHANGED <<sockbuf, seq, emitted, round>>
Fails ==
    /\ FailsToSend \/ Mismatches \/ GivesUp
    /\ call'.pc = "done" /\ call'.err # "none"
    /\ sockbuf' = sockbuf \/ (sockbuf # << >> /\ sockbuf' = Tail(sockbuf))
    /\ UNCHANGED <<nextAt, reports>>

\* The round is reported.
Reports ==
    /\ call.pc = "done" /\ call'.pc = "idle" /\ nextAt' = clock + Interval
    /\ reports' = Append(reports, IF call.err = "none" THEN observe(call) ELSE failure(call))
    /\ UNCHANGED <<sockbuf, seq, emitted, round>>

\* A datagram is read and forgotten, or the loop stops.
Skips == /\ Waiting /\ sockbuf # << >> /\ sockbuf' = Tail(sockbuf)
          /\ \/ call.pc = "wait0" /\ Ignored0(Head(sockbuf))
             \/ call.pc = "wait1" /\ Ignored1(Head(sockbuf))
Forgets ==
    /\ sockbuf' = sockbuf \/ Skips
    /\ UNCHANGED <<call, seq, emitted, round, nextAt, reports>>

\* The fields of the call after each of its replies, and when it ends.
LEMMA CallFields ==
  ASSUME NEW c \in Calls(Replies)
  PROVE  /\ \A e : /\ Return(c, e).pc = "done" /\ Return(c, e).err = e
                   /\ Return(c, e).reply0 = c.reply0 /\ Return(c, e).reply1 = c.reply1
         /\ \A r, rtt, p, t, poll :
               LET h == Half(c, r, rtt, p, t, poll)
               IN  /\ h.pc = "wait1" /\ h.p0 = c.p0 /\ h.p1 = p /\ h.reply0 = r
                   /\ h.deadline = c.deadline /\ h.sentAt = t
         /\ \A r, rtt : LET w == Whole(c, r, rtt)
                        IN  w.reply0 = c.reply0 /\ w.reply1 = r
  BY DEF Calls, Return, Half, Whole

\* The start of a round.
LEMMA MeasureKinds ==
  ASSUME AttesterInv(Replies), measure
  PROVE  Begins \/ Fails
<1> DEFINE s0 == NextSeq(seq)
           q0 == NewProbePacket(s0, clock, SelfKey)
           q1 == NewProbePacket(NextSeq(s0), clock, SelfKey)
           next == IF challengedMode THEN None ELSE q1
           deadline == clock + Timeout
           poll == clock + BusyPoll
           c == [NoCall EXCEPT !.pc = "wait0", !.p0 = q0, !.p1 = next,
                            !.deadline = deadline, !.poll = poll, !.sentAt = clock]
<1>1. SenderTypes(Replies) /\ clock \in Nat
  BY DEF AttesterInv, SenderTypes
<1>2. s0 \in 0 .. SeqWord - 1 /\ NextSeq(s0) \in 0 .. SeqWord - 1
  BY <1>1, SeqNumbers DEF SenderTypes
<1>3. q0 \in OwnProbes /\ q0.seq = s0 /\ q1.seq = NextSeq(s0)
  BY <1>1, <1>2, ProbeTypes DEF NewProbePacket
<1>4. /\ \/ emitted' = Append(emitted, q0) /\ call' = c
         \/ SendMayFail /\ emitted' = emitted /\ call' = Return(c, "send")
      /\ seq' = IF challengedMode THEN s0 ELSE NextSeq(s0)
      /\ call.pc = "idle" /\ clock >= nextAt /\ round' = round + 1
      /\ UNCHANGED <<sockbuf, nextAt, reports>>
  BY DEF measure, ProbePair, Sendto
<1>5. /\ c.pc = "wait0" /\ c.p0 = q0 /\ (~challengedMode => c.p1 = q1)
      /\ c.deadline = deadline /\ c.poll = poll /\ c.sentAt = clock
  BY DEF NoCall
<1>6. Return(c, "send").pc = "done" /\ Return(c, "send").err = "send"
  BY DEF Return, NoCall
<1>7. SeqsTaken
  BY <1>4 DEF SeqsTaken
<1> HIDE DEF c, q0, q1
<1>8. CASE emitted' = Append(emitted, q0) /\ call' = c
  <2>1. call'.p0 \in OwnProbes /\ emitted' = Append(emitted, call'.p0)
    BY <1>3, <1>5, <1>8
  <2>2. QED
    BY <1>3, <1>4, <1>5, <1>7, <1>8, <2>1 DEF Begins
<1>9. CASE SendMayFail /\ emitted' = emitted /\ call' = Return(c, "send")
  BY <1>4, <1>6, <1>7, <1>9 DEF Fails, FailsToSend
<1>10. QED
  BY <1>4, <1>8, <1>9

\* Reply 0 in challenged mode.
LEMMA ChallengedKinds ==
  ASSUME AttesterInv(Replies), ReceiveReply0Challenged, UNCHANGED loopVars
  PROVE  Fires \/ Fails
<1> DEFINE d == Head(sockbuf)
           r == d.reply
           rtt == decideRTT(call.sentAt, d.rx, clock)
           p == newChallengedProbePacket(NextSeq(seq), r.since, SelfKey)
           poll == clock + BusyPoll
           c == [call EXCEPT !.pc = "wait1", !.reply0 = r, !.rtt0 = rtt, !.p1 = p,
                             !.sentAt = clock, !.poll = poll]
<1>1. /\ challengedMode /\ call.pc = "wait0" /\ sockbuf # << >> /\ Polling
      /\ sockbuf' = Tail(sockbuf) /\ Matches(r, call.p0) /\ seq' = NextSeq(seq)
      /\ UNCHANGED <<round, nextAt, reports>>
  BY DEF ReceiveReply0Challenged, loopVars, Ignored0
<1>2. \/ emitted' = Append(emitted, c.p1) /\ call' = c
      \/ SendMayFail /\ emitted' = emitted /\ call' = Return(c, "send")
  BY DEF ReceiveReply0Challenged, Sendto
<1>3. SenderTypes(Replies) /\ call \in Calls(Replies) /\ poll \in Nat /\ clock \in Nat
  BY SenderTimingAssumption DEF AttesterInv, SenderTypes
<1>4. r \in Replies /\ r.since \in FieldValues /\ rtt \in Nat
  BY <1>1, <1>3, AnchorRepliesOK, HeadTypes
<1>5. p \in OwnProbes /\ p.stamp = r.since /\ p.seq = NextSeq(seq)
  BY <1>3, <1>4, SeqNumbers, ProbeTypes DEF SenderTypes, newChallengedProbePacket
<1>6. c = Half(call, r, rtt, p, clock, poll)
  BY DEF Half
<1> HIDE DEF c, p, poll, rtt, r, d
<1>7. /\ c \in Calls(Replies) /\ c.pc = "wait1" /\ c.p0 = call.p0 /\ c.p1 = p
      /\ c.reply0 = r /\ c.deadline = call.deadline /\ c.sentAt = clock
  BY <1>3, <1>4, <1>5, <1>6, HalfType, CallFields
<1>8. CASE emitted' = Append(emitted, c.p1) /\ call' = c
  <2>1. call'.p1 = p /\ call'.reply0 = r
    BY <1>7, <1>8
  <2>2. QED
    BY <1>1, <1>5, <1>7, <1>8, <2>1 DEF Fires, r, d
<1>9. CASE SendMayFail /\ emitted' = emitted /\ call' = Return(c, "send")
  <2>1. call'.pc = "done" /\ call'.err = "send"
    BY <1>7, <1>9, CallFields
  <2>2. QED
    BY <1>1, <1>9, <2>1 DEF Fails, FailsToSend
<1>10. QED
  BY <1>2, <1>8, <1>9

\* Reply 0 in unchallenged mode.
LEMMA UnchallengedKinds ==
  ASSUME AttesterInv(Replies), ReceiveReply0Unchallenged, UNCHANGED loopVars
  PROVE  Fires \/ Fails
<1> DEFINE d == Head(sockbuf)
           r == d.reply
           rtt == decideRTT(call.sentAt, d.rx, clock)
           c == [call EXCEPT !.pc = "wait1", !.reply0 = r, !.rtt0 = rtt,
                             !.sentAt = clock, !.poll = 0]
<1>1. /\ ~challengedMode /\ call.pc = "wait0" /\ sockbuf # << >> /\ Polling
      /\ sockbuf' = Tail(sockbuf) /\ seq' = seq /\ r.probe.seq = call.p0.seq
      /\ UNCHANGED <<round, nextAt, reports>>
  BY DEF ReceiveReply0Unchallenged, loopVars, Ignored0
<1>2. \/ /\ emitted' = Append(emitted, call.p1) /\ call' = c
         /\ Matches(r, call.p0)
      \/ /\ emitted' = Append(emitted, call.p1) /\ call' = Return(call, "mismatch")
         /\ ~(WellFormed(d) /\ Matches(r, call.p0))
      \/ SendMayFail /\ emitted' = emitted /\ call' = Return(call, "send")
  BY DEF ReceiveReply0Unchallenged, Sendto
<1>3. /\ SenderTypes(Replies) /\ call \in Calls(Replies) /\ clock \in Nat /\ 0 \in Nat
      /\ call.p1 \in OwnProbes
  BY <1>1 DEF AttesterInv, SenderTypes, CallInv
<1>4. r \in Replies /\ rtt \in Nat
  BY <1>1, <1>3, AnchorRepliesOK, HeadTypes
<1>5. c = Half(call, r, rtt, call.p1, clock, 0)
  BY <1>3 DEF Half, Calls
<1> HIDE DEF c, rtt, r, d
<1>6. /\ c.pc = "wait1" /\ c.p0 = call.p0 /\ c.p1 = call.p1
      /\ c.reply0 = r /\ c.deadline = call.deadline /\ c.sentAt = clock
  BY <1>3, <1>5, CallFields
<1>7. CASE emitted' = Append(emitted, call.p1) /\ call' = c /\ Matches(r, call.p0)
  <2>1. call'.p1 = call.p1 /\ call'.reply0 = r
    BY <1>6, <1>7
  <2>2. QED
    BY <1>1, <1>3, <1>6, <1>7, <2>1 DEF Fires, r, d
<1>8. CASE /\ emitted' = Append(emitted, call.p1) /\ call' = Return(call, "mismatch")
           /\ ~(WellFormed(d) /\ Matches(r, call.p0))
  <2>1. call'.pc = "done" /\ call'.err = "mismatch"
    BY <1>3, <1>8, CallFields
  <2>2. QED
    BY <1>1, <1>3, <1>8, <2>1 DEF Fails, Mismatches, r, d
<1>9. CASE SendMayFail /\ emitted' = emitted /\ call' = Return(call, "send")
  <2>1. call'.pc = "done" /\ call'.err = "send"
    BY <1>3, <1>9, CallFields
  <2>2. QED
    BY <1>1, <1>9, <2>1 DEF Fails, FailsToSend
<1>10. QED
  BY <1>2, <1>7, <1>8, <1>9

\* Every step of the attester is of one of these kinds.
LEMMA AttesterKinds ==
  ASSUME AttesterInv(Replies), AttesterStep
  PROVE  /\ UNCHANGED <<clock, challengedMode, cancelled>>
         /\ Begins \/ Fires \/ Wins \/ Fails \/ Reports \/ Forgets
<1>1. call \in Calls(Replies)
  BY DEF AttesterInv, SenderTypes
<1>2. CASE measure
  BY <1>2, MeasureKinds DEF measure, ProbePair
<1>3. ASSUME SenderStep, UNCHANGED loopVars
      PROVE  /\ UNCHANGED <<clock, challengedMode, cancelled>>
             /\ Fires \/ Wins \/ Fails \/ Forgets
  <2>1. UNCHANGED <<round, nextAt, reports, cancelled>>
    BY <1>3 DEF loopVars
  <2>2. CASE Ignore
    BY <2>1, <2>2 DEF Ignore, Forgets, Skips, Waiting
  <2>3. CASE ReceiveReply0Challenged
    BY <1>3, <2>1, <2>3, ChallengedKinds DEF ReceiveReply0Challenged
  <2>4. CASE ReceiveReply0Unchallenged
    BY <1>3, <2>1, <2>4, UnchallengedKinds DEF ReceiveReply0Unchallenged
  <2>5. CASE ReceiveReply1
    <3> DEFINE d == Head(sockbuf)
               rtt == decideRTT(call.sentAt, d.rx, clock)
               c == [call EXCEPT !.reply1 = d.reply, !.rtt1 = rtt]
    <3>1. /\ call.pc = "wait1" /\ sockbuf # << >> /\ sockbuf' = Tail(sockbuf)
          /\ Matches(d.reply, call.p1) /\ call' = Return(c, "none")
          /\ UNCHANGED <<challengedMode, clock, seq, emitted>>
      BY <2>5 DEF ReceiveReply1, Ignored1
    <3>2. SenderTypes(Replies) /\ c = Whole(call, d.reply, rtt)
      BY DEF Whole, AttesterInv
    <3>3. d.reply \in Replies /\ rtt \in Nat
      BY <3>1, <3>2, AnchorRepliesOK, HeadTypes
    <3> HIDE DEF c, d, rtt
    <3>4. c \in Calls(Replies) /\ c.reply0 = call.reply0 /\ c.reply1 = d.reply
      BY <1>1, <3>2, <3>3, WholeType
    <3>5. /\ call'.pc = "done" /\ call'.err = "none"
          /\ call'.reply0 = call.reply0 /\ call'.reply1 = d.reply
      BY <3>1, <3>4, CallFields
    <3>6. QED
      BY <2>1, <3>1, <3>5 DEF Wins, d
  <2>6. CASE DeadlineExceeded
    <3>1. call'.pc = "done" /\ call'.err = "timeout"
      BY <1>1, <2>6, CallFields DEF DeadlineExceeded
    <3>2. QED
      BY <2>1, <2>6, <3>1 DEF DeadlineExceeded, Fails, GivesUp, Waiting
  <2>7. QED
    BY <1>3, <2>2, <2>3, <2>4, <2>5, <2>6 DEF SenderStep
<1>4. CASE report
  BY <1>4 DEF report, Reports, NoCall
<1>5. CASE Abandon
  <2>1. call'.pc = "done" /\ call'.err = "cancelled"
    BY <1>1, <1>5, CallFields DEF Abandon, ContextDone
  <2>2. QED
    BY <1>5, <2>1 DEF Abandon, ContextDone, loopVars, Fails, GivesUp, Waiting
<1>6. CASE Shutdown
  BY <1>6 DEF Shutdown, senderVars, Forgets
<1>7. QED
  BY <1>2, <1>3, <1>4, <1>5, <1>6 DEF AttesterStep

----------------------------------------------------------------------------
(* Facts of the invariants. *)

\* The types the arithmetic below needs.
LEMMA Types ==
  ASSUME ExchangeInv
  PROVE  /\ AttesterInv(Replies) /\ AnchorInv /\ TypeInv /\ TypeOK /\ TimeInv /\ NetworkInv
         /\ clock \in Nat /\ wall = clock /\ clock <= MaxClock /\ nextAt \in Nat
         /\ seq \in Nat /\ round \in Nat /\ challengedMode \in BOOLEAN
         /\ call \in Calls(Replies) /\ call.pc \in {"idle", "wait0", "wait1", "done"}
         /\ call.deadline \in Nat /\ call.sentAt \in Nat /\ call.poll \in Nat
         /\ Start \in Int /\ LastSend \in Int
         /\ emitted \in Seq(OwnProbes) /\ Mine \in States
         /\ \A m \in net : m.at \in Nat
         /\ \A d \in Pending : d.rx \in Nat
<1>1. /\ AttesterInv(Replies) /\ AnchorInv /\ TypeInv /\ TypeOK /\ TimeInv /\ NetworkInv
      /\ wall = clock
  BY DEF ExchangeInv, AnchorInv, TypeInv
<1>2. /\ clock \in Nat /\ clock <= MaxClock /\ nextAt \in Nat
      /\ seq \in Nat /\ round \in Nat /\ challengedMode \in BOOLEAN
      /\ call \in Calls(Replies) /\ emitted \in Seq(OwnProbes)
  BY <1>1, Durations DEF AttesterInv, SenderTypes, LoopTypes, TimeInv
<1>3. /\ call.pc \in {"idle", "wait0", "wait1", "done"}
      /\ call.deadline \in Nat /\ call.sentAt \in Nat /\ call.poll \in Nat
  BY <1>2 DEF Calls
<1>4. Start \in Int /\ LastSend \in Int
  BY <1>2, <1>3, Durations DEF Start, LastSend
<1>5. Mine \in States
  BY <1>1, PartiesAssumption DEF TypeOK, Mine
<1>6. \A m \in net : m.at \in Nat
  BY <1>1 DEF NetworkInv, FlightInv, Flies
<1>7. \A d \in Pending : d.rx \in Nat
  BY <1>1, PendingType
<1>8. QED
  BY <1>1, <1>2, <1>3, <1>4, <1>5, <1>6, <1>7

\* A probe is known by its sequence number.
LEMMA OneOfSeq ==
  ASSUME ExchangeInv, SeqInv, NEW a, NEW b, Known(emitted, a), Known(emitted, b), a.seq = b.seq
  PROVE  a = b
<1>1. PICK p \in DOMAIN emitted : a = emitted[p]
  BY DEF Known
<1>2. PICK q \in DOMAIN emitted : b = emitted[q]
  BY DEF Known
<1>3. /\ p \in Int /\ q \in Int
      /\ emitted[p] \in OwnProbes /\ emitted[q] \in OwnProbes
  BY ElementOfSeq, LenProperties, Types
<1>4. emitted[p].seq \in Nat /\ emitted[q].seq \in Nat
  BY <1>3, Durations DEF OwnProbes
<1>5. p < q => emitted[p].seq < emitted[q].seq
  BY DEF SeqInv
<1>6. q < p => emitted[q].seq < emitted[p].seq
  BY DEF SeqInv
<1>7. QED
  BY <1>1, <1>2, <1>3, <1>4, <1>5, <1>6

\* The probes of a call under way are known.
LEMMA OwnKnown ==
  ASSUME ExchangeInv
  PROVE  /\ Waiting => Known(emitted, call.p0) /\ call.p0 \in OwnProbes
         /\ call.pc = "wait1" => Known(emitted, call.p1) /\ call.p1 \in OwnProbes
<1>1. emitted \in Seq(OwnProbes) /\ CallInv(Replies)
  BY Types DEF AttesterInv
<1>2. \A p \in DOMAIN emitted : emitted[p] \in OwnProbes
  BY <1>1, ElementOfSeq, LenProperties
<1>3. Len(emitted) \in Nat /\ DOMAIN emitted = 1 .. Len(emitted)
  BY <1>1, LenProperties
<1>4. CASE call.pc = "wait0"
  BY <1>1, <1>2, <1>3, <1>4 DEF CallInv, Sent0, Known, Waiting
<1>5. CASE call.pc = "wait1"
  <2>1. /\ Len(emitted) \in DOMAIN emitted /\ Len(emitted) - 1 \in DOMAIN emitted
        /\ emitted[Len(emitted) - 1] = call.p0 /\ emitted[Len(emitted)] = call.p1
    BY <1>1, <1>3, <1>5 DEF CallInv, Sent1
  <2>2. QED
    BY <1>2, <1>5, <2>1 DEF Known, Waiting
<1>6. QED
  BY <1>4, <1>5 DEF Waiting

\* A probe the attester has yet to send has no answer.
LEMMA FreshUnanswered ==
  ASSUME ExchangeInv, KnownInv, NEW p, \A q \in DOMAIN emitted : emitted[q].seq < p.seq,
         p.seq \in Nat
  PROVE  AnswersTo(p) = {}
<1>1. SUFFICES ASSUME NEW j \in DOMAIN sent, sent[j].reply.probe = p PROVE FALSE
  BY DEF AnswersTo
<1>2. PICK q \in DOMAIN emitted : p = emitted[q]
  BY <1>1 DEF KnownInv, Known
<1>3. QED
  BY <1>2

\* A pair that was touched by t was touched by any later time.
LEMMA TouchedLater ==
  ASSUME NEW s, s.pairStart \in Int, NEW t \in Int, NEW u \in Int, t <= u, TouchedBy(s, t)
  PROVE  TouchedBy(s, u)
  BY Durations DEF TouchedBy

----------------------------------------------------------------------------
(* Steps that leave the logs, the attester and its pair state alone. *)

\* What is true of a pair of replies stays true.
LEMMA RestsLater ==
  ASSUME Keeps(sent, sent'), challengedMode' = challengedMode
  PROVE  /\ \A h, j \in DOMAIN sent : Completes(h, j) => Completes(h, j)'
         /\ \A r0, r1 : Rests(r0, r1) => Rests(r0, r1)'
<1>1. \A h, j \in DOMAIN sent : Completes(h, j) => Completes(h, j)'
  BY DEF Completes, Opens, Keeps
<1>2. QED
  BY <1>1 DEF Rests, Keeps

\* The round stays where it is.
LEMMA StageUndisturbed ==
  ASSUME UNCHANGED <<challengedMode, call, sent>>,
         Mine' = Mine, gen'[SelfKey] = gen[SelfKey]
  PROVE  Untouched' = Untouched /\ Opened' = Opened /\ Closed' = Closed
<1>1. Start' = Start
  BY DEF Start
<1>2. \A h, j : Completes(h, j)' = Completes(h, j)
  BY DEF Completes, Opens
<1>3. Untouched' = Untouched
  BY <1>1 DEF Untouched, Lapsed, AnswersTo
<1>4. Opened' = Opened
  BY <1>1 DEF Opened, OpenedWith, AnswersTo
<1>5. Closed' = Closed
  BY <1>1, <1>2 DEF Closed, AnswersTo
<1>6. QED
  BY <1>3, <1>4, <1>5

\* What they leave of the invariant.
LEMMA PairUndisturbed ==
  ASSUME CadenceInv, UNCHANGED <<challengedMode, call, sent, reports>>,
         Mine' = Mine, gen'[SelfKey] = gen[SelfKey]
  PROVE  RoundInv' /\ Reply0Inv' /\ OutcomeInv' /\ Deployed'
<1>1. \A h, j : Completes(h, j)' = Completes(h, j)
  BY DEF Completes, Opens
<1>2. RoundInv'
  BY StageUndisturbed DEF CadenceInv, RoundInv, Waiting
<1>3. Reply0Inv'
  BY DEF CadenceInv, Reply0Inv, AnswersTo
<1>4. OutcomeInv'
  BY <1>1 DEF CadenceInv, OutcomeInv, Rests, Succeeded, Successes
<1>5. Deployed'
  BY DEF CadenceInv, Deployed, DefaultSetting, DefaultCadence
<1>6. QED
  BY <1>2, <1>3, <1>4, <1>5

\* They keep the invariant.
LEMMA QuietKeeps ==
  ASSUME CadenceInv,
         UNCHANGED <<challengedMode, clock, seq, call, emitted, round, nextAt, reports>>,
         sent' = sent, Mine' = Mine, gen'[SelfKey] = gen[SelfKey], KeptInv',
         net' \subseteq net, Pending' \subseteq Pending
  PROVE  CadenceInv'
<1>1. DueInv'
  BY DEF CadenceInv, DueInv
<1>2. LastSend' = LastSend /\ Start' = Start
  BY DEF LastSend, Start
<1>3. SettledInv'
  <2>1. TouchedBy(Mine, LastSend)
    BY DEF CadenceInv, SettledInv
  <2>2. TouchedBy(Mine, LastSend)'
    BY <1>2, <2>1 DEF TouchedBy
  <2>3. QED
    BY <1>2, <2>2 DEF CadenceInv, SettledInv
<1>4. PaceInv' /\ SeqInv' /\ CallTimes'
  BY <1>2 DEF CadenceInv, PaceInv, SeqInv, CallTimes, Waiting
<1>5. KnownInv'
  BY DEF CadenceInv, KnownInv
<1>6. AroundInv'
  BY <1>2 DEF CadenceInv, AroundInv, OwnFlight, OwnArrival, Waiting
<1>7. RoundInv' /\ Reply0Inv' /\ OutcomeInv' /\ Deployed'
  BY PairUndisturbed
<1>8. QED
  BY <1>1, <1>3, <1>4, <1>5, <1>6, <1>7 DEF CadenceInv

----------------------------------------------------------------------------
(* Time and the network. *)

\* Time passes when nothing is due.
LEMMA PassingCadence ==
  ASSUME ExchangeInv, CadenceInv, Passing
  PROVE  CadenceInv'
<1>1. /\ clock' = clock + 1 /\ clock \in Nat /\ wall = clock
      /\ UNCHANGED <<challengedMode, seq, call, emitted, round, nextAt, reports, net>>
      /\ UNCHANGED <<inbox, inHand, authorizedKeys, states, reload, sent, gen>>
  BY Types DEF Passing, SenderTick, Tick, loopVars, networkVars, ghostVars
<1>2. Pending' = Pending /\ Mine' = Mine /\ Start' = Start /\ LastSend <= LastSend'
      /\ LastSend' \in Int
  BY <1>1, Types, Durations DEF Pending, Mine, Start, LastSend
<1>3. call.pc # "done"
  BY DEF Passing, Prompt
<1>4. DueInv'
  <2>1. /\ \A m \in net : ~(clock >= m.at + MaxDelay)
        /\ \A d \in Pending : ~(wall >= d.rx + MaxLag)
    BY DEF Passing, Overdue, Pending
  <2>2. ASSUME NEW m \in net PROVE m.at <= clock + 1 /\ clock + 1 <= m.at + MaxDelay
    BY <1>1, <2>1, Types, Durations DEF CadenceInv, DueInv
  <2>3. ASSUME NEW d \in Pending PROVE clock + 1 <= d.rx + MaxLag
    BY <1>1, <2>1, Types, Durations
  <2>4. QED
    BY <1>1, <1>2, <2>2, <2>3 DEF DueInv
<1>5. SettledInv'
  <2>1. \A m \in net : m.kind = "probe" => m.at <= LastSend'
    BY <1>2, Types DEF CadenceInv, SettledInv
  <2>2. ASSUME NEW d \in Pending PROVE d.rx <= LastSend' + MaxDelay
    <3>1. d.rx \in Nat /\ d.rx <= LastSend + MaxDelay /\ LastSend \in Int
      BY Types DEF CadenceInv, SettledInv
    <3>2. QED
      BY <1>2, <3>1, Durations
  <2>3. TouchedBy(Mine, LastSend')
    <3>1. TouchedBy(Mine, LastSend) /\ Mine.pairStart \in Int
      BY Types DEF CadenceInv, SettledInv, States, ZeroTime
    <3>2. QED
      BY <1>2, <3>1, Types, TouchedLater
  <2>4. TouchedBy(Mine, LastSend)'
    BY <1>2, <2>3 DEF TouchedBy
  <2>5. QED
    BY <1>1, <1>2, <2>1, <2>2, <2>4 DEF SettledInv
<1>6. KeptInv' /\ SeqInv' /\ KnownInv'
  BY <1>1, <1>2 DEF CadenceInv, KeptInv, SeqInv, KnownInv
<1>7. PaceInv'
  <2>1. (round - 1) * Interval \in Int
    BY Types, Durations
  <2>2. (round - 1) * Interval <= clock => (round - 1) * Interval <= clock + 1
    BY <1>1, <2>1
  <2>3. QED
    BY <1>1, <2>2 DEF CadenceInv, PaceInv
<1>8. CallTimes'
  BY <1>1, <1>2, Types DEF CadenceInv, CallTimes, Waiting
<1>9. AroundInv'
  BY <1>1, <1>2 DEF CadenceInv, AroundInv, OwnFlight, OwnArrival, Waiting
<1>10. RoundInv' /\ Reply0Inv' /\ OutcomeInv' /\ Deployed'
  BY <1>1, <1>2, PairUndisturbed
<1>11. QED
  BY <1>4, <1>5, <1>6, <1>7, <1>8, <1>9, <1>10 DEF CadenceInv

\* A probe, or a copy of it, arrives in time and is the current call's.
LEMMA ProbeArrives ==
  ASSUME ExchangeInv, CadenceInv, NEW m \in net, m.kind = "probe", net' \subseteq net,
         clock >= m.at + MinDelay, UNCHANGED attesterVars,
         Arrive(ProbePacketSize, emitted[m.index], AttesterIP)
  PROVE  CadenceInv'
<1>1. /\ UNCHANGED <<challengedMode, clock, seq, call, emitted, round, nextAt, reports>>
      /\ UNCHANGED <<wall, authorizedKeys, states, reload, sent, gen>>
      /\ m.at \in Nat /\ clock \in Nat /\ wall = clock
  BY Types DEF attesterVars, senderVars, loopVars, Arrive, ghostVars
<1>2. Mine' = Mine /\ LastSend' = LastSend /\ Start' = Start
  BY <1>1 DEF Mine, LastSend, Start
<1>3. \A d \in Pending' \ Pending :
         /\ d.rx = clock /\ d.probe = emitted[m.index]
         /\ d.from = AttesterIP /\ d.size = ProbePacketSize
  <2> DEFINE e == [size |-> ProbePacketSize, probe |-> emitted[m.index],
                   from |-> AttesterIP, rx |-> wall]
  <2>1. e.rx = clock /\ e.probe = emitted[m.index] /\ e.from = AttesterIP
        /\ e.size = ProbePacketSize
    BY <1>1
  <2>2. inbox' = Append(inbox, e) /\ inHand' = inHand /\ inbox \in Seq(Datagrams)
    BY Types DEF Arrive, TypeOK
  <2> HIDE DEF e
  <2>3. \A i \in DOMAIN inbox' : inbox'[i] = e \/ (i \in DOMAIN inbox /\ inbox'[i] = inbox[i])
    BY <2>2
  <2>4. \A d \in Pending' \ Pending : d = e
    BY <2>2, <2>3 DEF Pending
  <2>5. QED
    BY <2>1, <2>4
<1>4. clock <= m.at + MaxDelay /\ m.at <= LastSend /\ m.index \in DOMAIN emitted
  <2>1. Flies(emitted, sent, m)
    BY Types DEF NetworkInv, FlightInv
  <2>2. QED
    BY <2>1 DEF CadenceInv, DueInv, SettledInv, Flies
<1>5. DueInv'
  <2>1. clock <= clock + MaxLag
    BY <1>1, Durations
  <2>2. \A d \in Pending' : clock <= d.rx + MaxLag
    BY <1>3, <2>1 DEF CadenceInv, DueInv
  <2>3. QED
    BY <1>1, <2>2 DEF CadenceInv, DueInv
<1>6. SettledInv'
  <2>0. LastSend \in Int
    BY Types
  <2>1. ASSUME NEW d \in Pending' PROVE d.rx <= LastSend + MaxDelay
    <3>1. CASE d \in Pending
      BY <3>1 DEF CadenceInv, SettledInv
    <3>2. CASE d \notin Pending
      <4>1. d.rx = clock
        BY <1>3, <2>1, <3>2
      <4>2. QED
        BY <1>1, <1>4, <2>0, <4>1, Durations
    <3>3. QED
      BY <3>1, <3>2
  <2>2. TouchedBy(Mine, LastSend)'
    BY <1>2 DEF CadenceInv, SettledInv, TouchedBy
  <2>3. QED
    BY <1>2, <2>1, <2>2 DEF CadenceInv, SettledInv
<1>7. KnownInv'
  BY <1>1, <1>3, <1>4 DEF CadenceInv, KnownInv, Known
<1>8. AroundInv'
  <2>1. ASSUME Waiting, NEW d \in Pending'
        PROVE  OwnArrival(d)
    <3>1. CASE d \in Pending
      BY <2>1, <3>1 DEF CadenceInv, AroundInv
    <3>2. CASE d \notin Pending
      <4>1. d.rx = clock /\ d.probe = emitted[m.index]
        BY <1>3, <2>1, <3>2
      <4>2. OwnFlight(m) /\ Start <= call.sentAt /\ call.sentAt <= call.deadline
        BY <2>1 DEF CadenceInv, AroundInv, CallTimes
      <4>3. Start \in Int /\ call.sentAt \in Nat /\ call.deadline \in Nat
        BY Types
      <4>4. CASE emitted[m.index] = call.p0 /\ m.at = Start
        BY <1>1, <1>4, <4>1, <4>2, <4>3, <4>4, Durations DEF OwnArrival
      <4>5. CASE call.pc = "wait1" /\ emitted[m.index] = call.p1 /\ m.at = call.sentAt
        BY <1>1, <1>4, <4>1, <4>2, <4>3, <4>5, Durations DEF OwnArrival
      <4>6. QED
        BY <4>2, <4>4, <4>5 DEF OwnFlight
    <3>3. QED
      BY <3>1, <3>2
  <2>2. QED
    BY <1>1, <1>2, <2>1 DEF CadenceInv, AroundInv, OwnFlight, OwnArrival, Waiting
<1>9. KeptInv' /\ SeqInv' /\ PaceInv' /\ CallTimes'
  BY <1>1, <1>2 DEF CadenceInv, KeptInv, SeqInv, PaceInv, CallTimes, Waiting
<1>10. RoundInv' /\ Reply0Inv' /\ OutcomeInv' /\ Deployed'
  BY <1>1, <1>2, PairUndisturbed
<1>11. QED
  BY <1>5, <1>6, <1>7, <1>8, <1>9, <1>10 DEF CadenceInv

----------------------------------------------------------------------------
(* The anchor. *)

\* When a probe is answered as the first of a pair, and when as the second.
LEMMA AnswerGuards ==
  ASSUME Deployed, TypeInv, NEW d \in {inHand[i] : i \in DOMAIN inHand}
  PROVE  LET st == states[d.probe.key] IN
         /\ (\E nonce \in randomNonce : AnswerProbe0(d, nonce)) =>
               \/ st.pairCount = 0
               \/ st.pairCount = 1 /\ st.lastTx # ZeroTime /\ d.rx - st.lastTx > StaleTimeout
               \/ st.pairCount >= 2 /\ d.rx - st.pairStart >= VerifyInterval
         /\ AnswerProbe1(d) =>
               /\ st.pairCount = 1
               /\ st.lastTx # ZeroTime => d.rx - st.lastTx <= StaleTimeout
<1> DEFINE st == states[d.probe.key]
<1>1. st \in States /\ d.rx \in Nat
  BY InHandType DEF TypeInv, TypeOK
<1>2. /\ st.pairCount \in Nat /\ st.lastTx \in Int /\ st.pairStart \in Int
      /\ StaleTimeout \in Nat /\ VerifyInterval \in Nat /\ VerifyInterval > 0
  BY <1>1, Durations DEF States, ZeroTime, Deployed, DefaultCadence
<1>3. WindowOver(st) \/ StalePair(st, d.rx) => AfterResets(st, d.rx).pairCount = 0
  BY <1>1 DEF AfterResets, States
<1>4. ~(WindowOver(st) \/ StalePair(st, d.rx)) => AfterResets(st, d.rx) = st
  BY DEF AfterResets
<1>5. ASSUME NEW nonce \in randomNonce, AnswerProbe0(d, nonce)
      PROVE  \/ st.pairCount = 0
             \/ st.pairCount = 1 /\ st.lastTx # ZeroTime /\ d.rx - st.lastTx > StaleTimeout
             \/ st.pairCount >= 2 /\ d.rx - st.pairStart >= VerifyInterval
  <2>1. ~RateLimited(st, d.rx) /\ AfterResets(st, d.rx).pairCount = 0
    BY <1>5 DEF AnswerProbe0
  <2> HIDE DEF st
  <2>2. QED
    BY <1>1, <1>2, <1>4, <2>1 DEF RateLimited, WindowOver, StalePair
<1>6. ASSUME AnswerProbe1(d)
      PROVE  st.pairCount = 1 /\ (st.lastTx # ZeroTime => d.rx - st.lastTx <= StaleTimeout)
  <2>1. AfterResets(st, d.rx).pairCount # 0
    BY <1>6 DEF AnswerProbe1
  <2> HIDE DEF st
  <2>2. QED
    BY <1>1, <1>2, <1>3, <1>4, <2>1 DEF WindowOver, StalePair
<1>7. QED
  BY <1>5, <1>6

\* With offsets that fit a reply, an answer is sent.
LEMMA AnswerSent ==
  ASSUME TypeOK, Sendable(offsets), NEW d,
         AnswerProbe1(d) \/ \E nonce \in randomNonce : AnswerProbe0(d, nonce)
  PROVE  sent' # sent
<1>1. PICK e : sent' = Append(sent, e)
  BY DEF AnswerProbe0, AnswerProbe1, Reply
<1>2. Len(sent) \in Nat /\ Len(Append(sent, e)) = Len(sent) + 1
  BY DEF TypeOK
<1>3. QED
  BY <1>1, <1>2

\* Datagram d in hand is a probe of the attester, handled soon after it arrived.
LEMMA OwnInHand ==
  ASSUME ExchangeInv, CadenceInv, NEW d \in {inHand[i] : i \in DOMAIN inHand}
  PROVE  /\ d \in Pending /\ d.rx \in Nat /\ d.rx <= clock /\ clock <= d.rx + MaxLag
         /\ d.rx <= MaxClock /\ d.rx <= LastSend + MaxDelay
         /\ Known(emitted, d.probe) /\ d.from = AttesterIP /\ d.probe.key = SelfKey
         /\ Waiting => OwnArrival(d)
<1>1. d \in Pending /\ d.rx \in Nat /\ d.rx <= MaxClock
  BY InHandPending, Types
<1>2. d.rx <= clock
  BY <1>1, Types DEF TimeInv
<1>3. clock <= d.rx + MaxLag /\ d.rx <= LastSend + MaxDelay
  BY <1>1 DEF CadenceInv, DueInv, SettledInv
<1>4. Known(emitted, d.probe) /\ d.from = AttesterIP
  BY <1>1 DEF CadenceInv, KnownInv
<1>5. \A p \in DOMAIN emitted : emitted[p] \in OwnProbes
  BY Types, ElementOfSeq, LenProperties
<1>6. d.probe.key = SelfKey
  BY <1>4, <1>5 DEF Known, OwnProbes
<1>7. Waiting => OwnArrival(d)
  BY <1>1 DEF CadenceInv, AroundInv
<1>8. QED
  BY <1>1, <1>2, <1>3, <1>4, <1>6, <1>7

\* An answer to d, reply n, is sent, and the pair state moves on.
Responds(d, n) ==
    /\ Handle /\ UNCHANGED attesterVars /\ Carry
    /\ n = Len(sent) + 1 /\ n \notin DOMAIN sent /\ DOMAIN sent' = DOMAIN sent \cup {n}
    /\ \A i \in DOMAIN sent : sent'[i] = sent[i]
    /\ NewReplyTo(n, d)
    /\ Mine'.lastTx = wall

\* What that leaves of the invariant.
LEMMA AnswerKeeps ==
  ASSUME ExchangeInv, CadenceInv, NEW d \in {inHand[i] : i \in DOMAIN inHand}, NEW n,
         Responds(d, n), Mine'.pairStart <= LastSend + MaxDelay, RoundInv'
  PROVE  CadenceInv'
<1>1. /\ UNCHANGED <<challengedMode, clock, seq, call, emitted, round, nextAt, reports>>
      /\ UNCHANGED <<wall, authorizedKeys, reload, gen>> /\ Pending' \subseteq Pending
      /\ clock \in Nat /\ wall = clock
  BY Types, HandleFrame, PendingHandle DEF Responds, attesterVars, senderVars, loopVars
<1>2. LastSend' = LastSend /\ Start' = Start /\ Keeps(sent, sent')
  BY <1>1 DEF LastSend, Start, Keeps, Responds
<1>3. \A m \in net' : m \in net \/ (m.kind = "reply" /\ m.at = clock)
  BY <1>1 DEF Responds, Carry, InFlight
<1>4. DueInv'
  BY <1>1, <1>3, Durations DEF CadenceInv, DueInv
<1>5. SettledInv'
  <2>1. Mine'.lastTx \in Nat /\ Mine'.lastTx <= LastSend + MaxDelay + MaxLag
    <3>1. LastSend \in Int /\ d.rx \in Nat /\ d.rx <= LastSend + MaxDelay
          /\ clock <= d.rx + MaxLag
      BY Types, OwnInHand
    <3>2. QED
      BY <1>1, <3>1, Durations DEF Responds
  <2>2. TouchedBy(Mine, LastSend)'
    BY <1>2, <2>1 DEF TouchedBy
  <2>3. QED
    BY <1>1, <1>2, <1>3, <2>2 DEF CadenceInv, SettledInv
<1>6. KeptInv' /\ PaceInv' /\ SeqInv' /\ CallTimes'
  BY <1>1, <1>2 DEF CadenceInv, KeptInv, PaceInv, SeqInv, CallTimes, Waiting
<1>7. KnownInv'
  <2>1. Known(emitted, sent'[n].reply.probe)
    BY OwnInHand DEF Responds, NewReplyTo
  <2>2. \A j \in DOMAIN sent' : Known(emitted, sent'[j].reply.probe)
    BY <2>1 DEF Responds, CadenceInv, KnownInv
  <2>3. QED
    BY <1>1, <2>2 DEF CadenceInv, KnownInv
<1>8. AroundInv'
  BY <1>1, <1>2, <1>3 DEF CadenceInv, AroundInv, OwnFlight, OwnArrival, Waiting
<1>9. Reply0Inv'
  BY <1>1, <1>2 DEF CadenceInv, Reply0Inv, AnswersTo, Keeps
<1>10. OutcomeInv'
  BY <1>1, <1>2, RestsLater DEF CadenceInv, OutcomeInv, Succeeded, Successes
<1>11. Deployed'
  BY DEF CadenceInv, Deployed, DefaultSetting, DefaultCadence
<1>12. QED
  BY <1>4, <1>5, <1>6, <1>7, <1>8, <1>9, <1>10, <1>11 DEF CadenceInv

\* Until the call is over, its pair is neither stale nor past its window.
LEMMA PairLasts ==
  ASSUME ExchangeInv, CadenceInv, NEW d \in {inHand[i] : i \in DOMAIN inHand}, Waiting
  PROVE  /\ Opened => d.rx - Mine.lastTx <= StaleTimeout
         /\ Closed => d.rx - Mine.pairStart < VerifyInterval
<1>1. Start + MinDelay <= d.rx /\ d.rx <= call.deadline + MaxDelay /\ d.rx \in Nat
  BY OwnInHand DEF OwnArrival
<1>2. /\ Timeout + MaxDelay <= StaleTimeout + MinDelay /\ StaleTimeout < VerifyInterval
      /\ Mine.lastTx \in Int /\ Mine.pairStart \in Int /\ call.deadline \in Nat
  BY Types DEF CadenceInv, Deployed, DefaultCadence, States, ZeroTime
<1>3. d.rx <= Start + StaleTimeout + MinDelay
  BY <1>1, <1>2, Durations DEF Start
<1>4. Start \in Int
  BY Types
<1>5. ASSUME Opened PROVE d.rx - Mine.lastTx <= StaleTimeout
  <2>1. Start + MinDelay <= Mine.lastTx
    BY <1>5 DEF Opened
  <2>2. QED
    BY <1>1, <1>2, <1>3, <1>4, <2>1, Durations
<1>6. ASSUME Closed PROVE d.rx - Mine.pairStart < VerifyInterval
  <2>1. Start + MinDelay <= Mine.pairStart
    BY <1>6 DEF Closed
  <2>2. QED
    BY <1>1, <1>2, <1>3, <1>4, <2>1, Durations
<1>7. QED
  BY <1>5, <1>6

\* The first probe of a pair: the round was untouched, and is opened.
LEMMA Answer0Cadence ==
  ASSUME ExchangeInv, CadenceInv, Handle, UNCHANGED attesterVars, Carry,
         NEW d \in {inHand[i] : i \in DOMAIN inHand},
         NEW nonce \in randomNonce, AnswerProbe0(d, nonce)
  PROVE  CadenceInv' /\ (\E n : Responds(d, n)) /\ (Waiting => Untouched /\ Opened')
<1>0. PICK n : n = Len(sent) + 1
  OBVIOUS
<1>1. TypeInv /\ TypeOK /\ wall = clock /\ Deployed /\ d.probe.key = SelfKey
      /\ d.from = AttesterIP /\ d.rx \in Nat /\ d.rx <= clock
      /\ offsets \in OffsetVectors
  BY Types, OwnInHand DEF CadenceInv, TypeOK
<1>2. Sendable(offsets) /\ nonce \in Nonces
  BY <1>1 DEF Deployed, DefaultSetting, randomNonce
<1>3. /\ Mine'.pairCount = 1 /\ Mine'.pairStart = d.rx /\ Mine'.nonce = nonce
      /\ Mine'.ip = d.from /\ Mine'.lastTx = wall
      /\ Len(sent) \in Nat /\ DOMAIN sent = 1 .. Len(sent)
  BY <1>1, <1>2, Answer0Effect DEF Mine
<1>4. Grows(n) /\ NewReplyTo(n, d) /\ sent'[n].role = 0 /\ sent'[n].start = d.rx
      /\ sent'[n].reply.since = nonce
  BY <1>0, <1>1, <1>2, Answer0Effect, AnswerSent
<1>5. Responds(d, n)
  BY <1>0, <1>3, <1>4 DEF Responds, Grows
<1>6. gen' = gen /\ call' = call /\ Start' = Start
  BY HandleFrame DEF attesterVars, senderVars, Start
<1>7. ASSUME Waiting PROVE Untouched /\ Opened'
  <2>1. Waiting
    BY <1>7
  <2>2. Untouched
    <3>1. \/ Mine.pairCount = 0
          \/ Mine.pairCount = 1 /\ d.rx - Mine.lastTx > StaleTimeout
          \/ Mine.pairCount >= 2 /\ d.rx - Mine.pairStart >= VerifyInterval
      BY <1>1, AnswerGuards DEF Mine
    <3>2. /\ Mine.pairCount \in Nat /\ d.rx - Mine.lastTx \in Int
          /\ d.rx - Mine.pairStart \in Int
      <4>1. Mine \in States
        BY Types
      <4>2. QED
        BY <1>1, <4>1 DEF States, ZeroTime
    <3>3. ~Opened
      <4>1. Opened => Mine.pairCount = 1 /\ d.rx - Mine.lastTx <= StaleTimeout
        BY <2>1, PairLasts DEF Opened
      <4>2. QED
        BY <3>1, <3>2, <4>1, Durations
    <3>4. ~Closed
      <4>1. Closed => Mine.pairCount >= 2 /\ d.rx - Mine.pairStart < VerifyInterval
        BY <2>1, PairLasts DEF Closed
      <4>2. QED
        BY <3>1, <3>2, <4>1, Durations
    <3>5. QED
      BY <2>1, <3>3, <3>4 DEF CadenceInv, RoundInv
  <2>3. OwnArrival(d) /\ call.pc = "wait0"
    BY <2>1, <2>2, OwnInHand DEF Untouched
  <2>4. d.probe = call.p0 /\ Start + MinDelay <= d.rx
    BY <2>3 DEF OwnArrival
  <2>5. AnswersTo(call.p0)' = {n}
    BY <1>4, <1>5, <1>6, <2>2, <2>4 DEF AnswersTo, Untouched, Responds, NewReplyTo
  <2>6. OpenedWith(n)'
    BY <1>1, <1>3, <1>4, <1>6, <2>5 DEF OpenedWith, NewReplyTo
  <2>7. n \in DOMAIN sent'
    BY <1>5 DEF Responds
  <2>8. Start + MinDelay <= clock
    <3>1. Start \in Int /\ clock \in Nat
      BY Types
    <3>2. QED
      BY <1>1, <2>4, <3>1, Durations
  <2>9. QED
    BY <1>1, <1>2, <1>3, <1>6, <2>2, <2>3, <2>4, <2>6, <2>7, <2>8 DEF Opened
<1>8. RoundInv'
  BY <1>6, <1>7 DEF RoundInv, Waiting
<1>9. CadenceInv'
  BY <1>3, <1>5, <1>8, OwnInHand, AnswerKeeps
<1>10. QED
  BY <1>5, <1>7, <1>9

\* The second probe of a pair: the round was opened, and is closed.
LEMMA Answer1Cadence ==
  ASSUME ExchangeInv, CadenceInv, Handle, UNCHANGED attesterVars, Carry,
         NEW d \in {inHand[i] : i \in DOMAIN inHand}, AnswerProbe1(d)
  PROVE  CadenceInv' /\ \E n : Responds(d, n)
<1>0. PICK n : n = Len(sent) + 1
  OBVIOUS
<1>1. TypeInv /\ TypeOK /\ wall = clock /\ Deployed /\ d.probe.key = SelfKey
      /\ d.from = AttesterIP /\ d.rx \in Nat /\ d.rx <= clock /\ d.rx <= MaxClock
      /\ offsets \in OffsetVectors /\ Mine \in States
  BY Types, OwnInHand DEF CadenceInv, TypeOK
<1>2. Sendable(offsets)
  BY <1>1 DEF Deployed, DefaultSetting
<1>3. /\ Mine.pairCount = 1
      /\ Mine.lastTx # ZeroTime => d.rx - Mine.lastTx <= StaleTimeout
  BY <1>1, AnswerGuards DEF Mine
<1>4. /\ Mine'.pairCount = 2 /\ Mine'.pairStart = Mine.pairStart /\ Mine'.lastTx = wall
      /\ Len(sent) \in Nat /\ DOMAIN sent = 1 .. Len(sent)
  BY <1>1, <1>2, <1>3, Answer1Effect DEF Mine
<1>5. Grows(n) /\ NewReplyTo(n, d) /\ sent'[n].role = 1 /\ sent'[n].start = Mine.pairStart
      /\ sent'[n].reply.since = SinceLastTx(Mine, d.rx)
      /\ sent'[n].reply.challenged = Challenged(Mine, d.probe)
  BY <1>0, <1>1, <1>2, <1>3, Answer1Effect, AnswerSent DEF Mine
<1>6. Responds(d, n)
  BY <1>0, <1>4, <1>5 DEF Responds, Grows
<1>7. gen' = gen /\ call' = call /\ Start' = Start /\ challengedMode' = challengedMode
  BY HandleFrame DEF attesterVars, senderVars, Start
<1>8. RoundInv'
  <2>1. SUFFICES ASSUME Waiting PROVE Closed'
    BY <1>7 DEF RoundInv, Waiting
  <2>2. OwnArrival(d) /\ Start + MinDelay <= d.rx /\ Start \in Int
    BY <2>1, OwnInHand, Types DEF OwnArrival
  <2>3. Opened
    <3>1. ~Untouched
      BY <1>1, <1>3, <2>2, Durations DEF Untouched, Lapsed, ZeroTime
    <3>2. QED
      BY <1>3, <2>1, <3>1 DEF CadenceInv, RoundInv, Closed
  <2>4. PICK h \in DOMAIN sent : OpenedWith(h)
    BY <2>3 DEF Opened
  <2>5. ASSUME call.pc = "wait1", NEW j \in AnswersTo(call.p1)'
        PROVE  \E g \in DOMAIN sent' : sent'[g].reply = call.reply0 /\ Completes(g, j)'
    <3>1. j = n /\ d.probe = call.p1
      BY <1>6, <1>7, <2>3, <2>5 DEF Opened, AnswersTo, Responds, NewReplyTo
    <3>2. sent[h].reply = call.reply0 /\ sent[h].tx + MinDelay <= call.sentAt
      BY <2>4, <2>5 DEF CadenceInv, Reply0Inv, OpenedWith
    <3>3. call.sentAt + MinDelay <= d.rx
      <4>1. call.p0 # call.p1
        BY <2>4, <2>3, <2>5 DEF OpenedWith, Opened
      <4>2. QED
        BY <2>2, <3>1, <4>1 DEF OwnArrival
    <3>4. /\ h \in DOMAIN sent' /\ sent'[h] = sent[h] /\ sent[h].role = 0
          /\ sent[h].tx = Mine.lastTx /\ sent[h].tx \in Nat /\ call.sentAt \in Nat
      BY <1>1, <1>6, <2>4, LogType, Types DEF Responds, OpenedWith
    <3>5. sent[h].tx + 2 * MinDelay <= d.rx
      BY <1>1, <3>2, <3>3, <3>4, Durations
    <3>6. sent'[n].reply.since = d.rx - sent[h].tx
      BY <1>1, <1>5, <3>4, <3>5, SinceExact, Durations
    <3>7. sent[h].reply.probe = call.p0 /\ call.p0.key = SelfKey
      <4>1. call.p0 \in OwnProbes
        BY <2>1, OwnKnown
      <4>2. QED
        BY <2>4, <4>1 DEF OpenedWith, AnswersTo, OwnProbes
    <3>8. (challengedMode => sent'[n].reply.challenged)
      <4>1. challengedMode => call.p1.stamp = call.reply0.since
        BY <2>5, Types DEF AttesterInv, CallInv, Got0
      <4>2. call.reply0.since = Mine.nonce /\ Mine.nonce \in Nonces
        BY <2>3, <2>4, <3>2 DEF OpenedWith, Opened
      <4>3. Mine.nonce # 0
        BY <4>2, NonceAssumption
      <4>4. QED
        BY <1>5, <3>1, <4>1, <4>2, <4>3 DEF Challenged
    <3>9. Opens(h, n)'
      BY <1>1, <1>5, <2>4, <3>4, <3>7 DEF Opens, OpenedWith, NewReplyTo
    <3>10. Completes(h, n)'
      BY <1>5, <1>7, <3>4, <3>5, <3>6, <3>8, <3>9 DEF Completes, NewReplyTo
    <3>11. QED
      BY <3>1, <3>2, <3>4, <3>10
  <2>6. QED
    BY <1>4, <1>7, <2>3, <2>5 DEF Closed, Opened
<1>9. Mine.pairStart <= LastSend + MaxDelay
  BY <1>3 DEF CadenceInv, SettledInv, TouchedBy
<1>10. QED
  BY <1>4, <1>6, <1>8, <1>9, AnswerKeeps

\* No reload touches the attester's key.
LEMMA ReloadKeeps ==
  ASSUME CadenceInv, TypeOK, Reload
  PROVE  KeptInv' /\ Mine' = Mine /\ gen'[SelfKey] = gen[SelfKey]
<1>1. /\ SelfKey \in reload.new /\ SelfKey \in authorizedKeys /\ SelfKey \notin reload.doomed
      /\ SelfKey \in Keys /\ \A keys \in AllowLists : SelfKey \in keys
  BY PartiesAssumption DEF CadenceInv, KeptInv, Deployed, DefaultSetting
<1>2. reload \in Reloads /\ states \in [Keys -> States] /\ gen \in [Keys -> Nat]
  BY DEF TypeOK
<1>3. ASSUME NEW keys \in AllowLists, SetAuthorizedKeys(keys)
      PROVE  KeptInv' /\ Mine' = Mine /\ gen'[SelfKey] = gen[SelfKey]
  BY <1>1, <1>3 DEF SetAuthorizedKeys, KeptInv, Mine, ghostVars
<1>4. ASSUME NEW key \in Keys, RangeKey(key)
      PROVE  KeptInv' /\ Mine' = Mine /\ gen'[SelfKey] = gen[SelfKey]
  <2>1. /\ reload'.new = reload.new /\ reload'.doomed = {key} \ reload.new
        /\ SelfKey \in authorizedKeys' /\ UNCHANGED <<states, gen>>
    BY <1>1, <1>2, <1>4 DEF RangeKey, Reloads, ghostVars
  <2>2. QED
    BY <1>1, <2>1 DEF KeptInv, Mine
<1>5. ASSUME NEW key \in Keys, DeleteState(key)
      PROVE  KeptInv' /\ Mine' = Mine /\ gen'[SelfKey] = gen[SelfKey]
  <2>1. /\ reload'.new = reload.new /\ reload'.doomed = {} /\ key # SelfKey
        /\ authorizedKeys' = authorizedKeys
        /\ states' = [states EXCEPT ![key] = Fresh] /\ gen' = [gen EXCEPT ![key] = @ + 1]
    BY <1>1, <1>2, <1>5 DEF DeleteState, Reloads
  <2>2. QED
    BY <1>1, <1>2, <2>1 DEF KeptInv, Mine
<1>6. ASSUME NEW key \in Keys, StoreKey(key)
      PROVE  KeptInv' /\ Mine' = Mine /\ gen'[SelfKey] = gen[SelfKey]
  <2>1. /\ reload'.new = reload.new /\ reload'.doomed = reload.doomed
        /\ authorizedKeys' = authorizedKeys \cup {key} /\ UNCHANGED <<states, gen>>
    BY <1>2, <1>6 DEF StoreKey, Reloads
  <2>2. QED
    BY <1>1, <2>1 DEF KeptInv, Mine
<1>7. QED
  BY <1>3, <1>4, <1>5, <1>6 DEF Reload

\* Every step of the anchor.
LEMMA AnchorCadence ==
  ASSUME ExchangeInv, CadenceInv, AnchorMoves
  PROVE  CadenceInv'
<1>1. /\ AnchorInv /\ TypeInv /\ TypeOK /\ KeptInv
      /\ UNCHANGED attesterVars /\ Carry
  BY Types DEF CadenceInv, AnchorMoves
<1>2. UNCHANGED <<challengedMode, clock, seq, call, emitted, round, nextAt, reports>>
  BY <1>1 DEF attesterVars, senderVars, loopVars
<1>3. ASSUME sent' = sent, Mine' = Mine, gen'[SelfKey] = gen[SelfKey], KeptInv',
             Pending' \subseteq Pending
      PROVE  CadenceInv'
  <2>1. net' = net
    BY <1>1, <1>2, <1>3 DEF Carry
  <2>2. QED
    BY <1>2, <1>3, <2>1, QuietKeeps
<1>4. CASE Receive
  BY <1>1, <1>3, <1>4, ReceiveFrame, PendingReceive DEF Mine, KeptInv
<1>5. CASE Reload
  <2>1. Pending' = Pending /\ sent' = sent
    BY <1>5, ReloadFrame DEF Pending
  <2>2. QED
    BY <1>1, <1>3, <1>5, <2>1, ReloadKeeps
<1>6. CASE \E v \in OffsetVectors : SetOffsets(v)
  <2>1. UNCHANGED <<inbox, inHand, authorizedKeys, states, reload, sent, gen>>
    BY <1>6 DEF SetOffsets, ghostVars
  <2>2. QED
    BY <1>1, <1>3, <2>1 DEF Pending, Mine, KeptInv
<1>7. CASE Handle
  <2>1. /\ UNCHANGED <<authorizedKeys, reload, gen>> /\ Pending' \subseteq Pending
    BY <1>7, HandleFrame, PendingHandle
  <2>2. CASE UNCHANGED <<states, sent, drawn>>
    BY <1>1, <1>3, <2>1, <2>2 DEF Mine, KeptInv
  <2>3. QED
    BY <1>1, <1>7, <2>2, HandleCases, Answer0Cadence, Answer1Cadence
<1>8. QED
  BY <1>4, <1>5, <1>6, <1>7 DEF AnchorMoves

----------------------------------------------------------------------------
(* The attester. *)

\* A step of the attester changes nothing of the anchor.
Apart ==
    /\ UNCHANGED <<clock, challengedMode>>
    /\ UNCHANGED <<wall, inbox, inHand, authorizedKeys, states, reload, sent, gen>>
    /\ Carry

LEMMA ApartFacts ==
  ASSUME Apart
  PROVE  /\ Pending' = Pending /\ Mine' = Mine
         /\ \A p : AnswersTo(p)' = AnswersTo(p)
         /\ \A h, j : Completes(h, j)' = Completes(h, j)
         /\ \A r0, r1 : Rests(r0, r1)' = Rests(r0, r1)
         /\ \A s, t : Lapsed(s, t)' = Lapsed(s, t)
<1>1. Pending' = Pending /\ Mine' = Mine
  BY DEF Apart, Pending, Mine
<1>2. \A p : AnswersTo(p)' = AnswersTo(p)
  BY DEF Apart, AnswersTo
<1>3. \A h, j : Completes(h, j)' = Completes(h, j)
  BY DEF Apart, Completes, Opens
<1>4. \A r0, r1 : Rests(r0, r1)' = Rests(r0, r1)
  BY <1>3 DEF Apart, Rests
<1>5. QED
  BY <1>1, <1>2, <1>3, <1>4 DEF Lapsed

\* What it sends enters the network now; nothing else does.
LEMMA Emission ==
  ASSUME ExchangeInv, Apart
  PROVE  /\ emitted' = emitted => net' = net
         /\ \A e \in OwnProbes : emitted' = Append(emitted, e) =>
               LET n == Len(emitted) + 1 IN
               /\ n \notin DOMAIN emitted /\ DOMAIN emitted' = DOMAIN emitted \cup {n}
               /\ \A p \in DOMAIN emitted : p < n /\ emitted'[p] = emitted[p]
               /\ emitted'[n] = e
               /\ net' = net \cup {InFlight("probe", n)}
<1>1. emitted' = emitted => net' = net
  BY DEF Apart, Carry
<1>2. ASSUME NEW e \in OwnProbes, emitted' = Append(emitted, e)
      PROVE  LET n == Len(emitted) + 1 IN
             /\ n \notin DOMAIN emitted /\ DOMAIN emitted' = DOMAIN emitted \cup {n}
             /\ \A p \in DOMAIN emitted : p < n /\ emitted'[p] = emitted[p]
             /\ emitted'[n] = e
             /\ net' = net \cup {InFlight("probe", n)}
  <2> DEFINE n == Len(emitted) + 1
  <2>1. /\ Len(emitted) \in Nat /\ DOMAIN emitted = 1 .. Len(emitted)
        /\ DOMAIN emitted' = 1 .. Len(emitted) + 1
        /\ \A p \in 1 .. Len(emitted) : emitted'[p] = emitted[p]
        /\ emitted'[n] = e
    BY <1>2, Types, LogAppend
  <2>2. /\ n \notin DOMAIN emitted /\ DOMAIN emitted' = DOMAIN emitted \cup {n}
        /\ \A p \in DOMAIN emitted : p < n
    BY <2>1
  <2> HIDE DEF n
  <2>3. net' = net \cup {InFlight("probe", i) : i \in {n}}
    BY <2>2 DEF Apart, Carry
  <2>4. net' = net \cup {InFlight("probe", n)}
    BY <2>3
  <2>5. QED
    BY <2>1, <2>2, <2>4 DEF n
<1>3. QED
  BY <1>1, <1>2

\* A step after which the attester has last sent now.
LEMMA SendsNow ==
  ASSUME ExchangeInv, CadenceInv, Apart, LastSend' = clock, LastSend <= clock,
         \A m \in net' : m \in net \/ m.at = clock
  PROVE  DueInv' /\ SettledInv' /\ KeptInv' /\ Deployed'
<1>1. Pending' = Pending /\ Mine' = Mine /\ clock' = clock
  BY ApartFacts DEF Apart
<1>2. DueInv'
  BY <1>1, Types, Durations DEF CadenceInv, DueInv
<1>3. SettledInv'
  <2>1. \A m \in net' : m.at <= clock
    BY <1>2, <1>1 DEF DueInv
  <2>2. \A d \in Pending : d.rx <= clock + MaxDelay
    BY Types, Durations DEF TimeInv
  <2>3. TouchedBy(Mine, clock)
    <3>1. TouchedBy(Mine, LastSend) /\ Mine.pairStart \in Int
      BY Types DEF CadenceInv, SettledInv, States, ZeroTime
    <3>2. QED
      BY <3>1, Types, TouchedLater
  <2>4. TouchedBy(Mine, LastSend)'
    BY <1>1, <2>3 DEF TouchedBy
  <2>5. QED
    BY <1>1, <2>1, <2>2, <2>4 DEF SettledInv
<1>4. KeptInv' /\ Deployed'
  BY DEF CadenceInv, KeptInv, Apart, Deployed, DefaultSetting, DefaultCadence
<1>5. QED
  BY <1>2, <1>3, <1>4

\* What is known stays known.
LEMMA KnownLater ==
  ASSUME KnownInv, Apart, Keeps(emitted, emitted')
  PROVE  KnownInv'
<1>1. \A a : Known(emitted, a) => Known(emitted', a)
  BY DEF Known, Keeps
<1>2. QED
  BY <1>1, ApartFacts DEF KnownInv, Apart

\* There are sequence numbers left for a new round.
LEMMA RoomForRound ==
  ASSUME ExchangeInv, CadenceInv, call.pc = "idle", clock >= nextAt
  PROVE  /\ 2 * (round + 1) < SeqWord /\ seq <= 2 * round
         /\ round * Interval <= clock
         /\ NextSeq(seq) = seq + 1 /\ NextSeq(NextSeq(seq)) = seq + 2
<1>1. round * Interval <= nextAt /\ seq <= 2 * round /\ Deployed
  BY DEF CadenceInv, PaceInv
<1>2. /\ round \in Nat /\ seq \in Nat /\ clock \in Nat /\ nextAt \in Nat
      /\ clock <= MaxClock /\ SeqWord \in Nat /\ MaxClock \in Nat
  BY Types, Durations
<1>3. round * Interval \in Int
  BY <1>2, Durations
<1>4. round * Interval <= clock /\ round * Interval <= MaxClock
  BY <1>1, <1>2, <1>3
<1>5. 2 * (round + 1) < SeqWord
  BY <1>1, <1>2, <1>4, RoundsFit
<1>6. seq + 1 < SeqWord /\ seq + 2 < SeqWord /\ seq + 1 \in Nat
  BY <1>1, <1>2, <1>5
<1>7. NextSeq(seq) = seq + 1 /\ NextSeq(seq + 1) = seq + 1 + 1
  BY <1>2, <1>6, Successor
<1>8. QED
  BY <1>1, <1>2, <1>4, <1>5, <1>7

\* A step that sends a probe with a new sequence number.
LEMMA SeqMore ==
  ASSUME ExchangeInv, SeqInv, Apart, NEW e \in OwnProbes, emitted' = Append(emitted, e),
         \A p \in DOMAIN emitted : emitted[p].seq < e.seq
  PROVE  /\ \A p \in DOMAIN emitted' : emitted'[p].seq <= e.seq
         /\ \A p, q \in DOMAIN emitted' : p < q => emitted'[p].seq < emitted'[q].seq
<1> DEFINE n == Len(emitted) + 1
<1>1. /\ n \notin DOMAIN emitted /\ DOMAIN emitted' = DOMAIN emitted \cup {n}
      /\ \A p \in DOMAIN emitted : p < n /\ emitted'[p] = emitted[p]
      /\ emitted'[n] = e
  BY Emission
<1>2. n \in Nat /\ DOMAIN emitted \subseteq Nat /\ e.seq \in Nat
      /\ \A p \in DOMAIN emitted : emitted[p].seq \in Nat
  <2>1. \A p \in DOMAIN emitted : emitted[p] \in OwnProbes
    BY Types, ElementOfSeq, LenProperties
  <2>2. n \in Nat /\ DOMAIN emitted \subseteq Nat
    BY Types, LenProperties
  <2>3. QED
    BY <2>1, <2>2, Durations DEF OwnProbes
<1> HIDE DEF n
<1>3. \A p \in DOMAIN emitted' : emitted'[p].seq <= e.seq
  BY <1>1, <1>2
<1>4. ASSUME NEW p \in DOMAIN emitted', NEW q \in DOMAIN emitted', p < q
      PROVE  emitted'[p].seq < emitted'[q].seq
  <2>1. p # n
    <3>1. SUFFICES ASSUME p = n PROVE FALSE
      OBVIOUS
    <3>2. q <= n
      BY <1>1, <1>2
    <3>3. QED
      BY <1>1, <1>2, <1>4, <3>1, <3>2
  <2>2. QED
    BY <1>1, <1>2, <1>4, <2>1 DEF SeqInv
<1>5. QED
  BY <1>3, <1>4

\* When a round begins, nothing of the rounds before it is on its way to the
\* anchor or at the anchor, and the pair they left behind is over.
LEMMA NothingLeft ==
  ASSUME ExchangeInv, CadenceInv, call.pc = "idle", clock >= nextAt
  PROVE  /\ \A m \in net : m.kind # "probe"
         /\ Pending = {}
         /\ Lapsed(Mine, clock + MinDelay)
         /\ LastSend <= clock
<1>1. LastSend = nextAt - Interval /\ nextAt \in Nat /\ clock \in Nat
  BY Types DEF LastSend
<1>2. /\ StaleTimeout + MaxDelay + MaxLag < Interval
      /\ VerifyInterval + MaxDelay <= Interval + MinDelay
  BY DEF CadenceInv, Deployed, DefaultCadence
<1>3. ASSUME NEW m \in net, m.kind = "probe"
      PROVE  FALSE
  <2>1. m.at \in Nat /\ m.at <= LastSend /\ clock <= m.at + MaxDelay
    BY <1>3, Types DEF CadenceInv, DueInv, SettledInv
  <2>2. QED
    BY <1>1, <1>2, <2>1, Durations
<1>4. ASSUME NEW d \in Pending
      PROVE  FALSE
  <2>1. d.rx \in Nat /\ d.rx <= LastSend + MaxDelay /\ clock <= d.rx + MaxLag
    BY <1>4, Types DEF CadenceInv, DueInv, SettledInv
  <2>2. QED
    BY <1>1, <1>2, <2>1, Durations
<1>5. Lapsed(Mine, clock + MinDelay)
  <2>1. TouchedBy(Mine, LastSend) /\ Mine.pairStart \in Int
    BY Types DEF CadenceInv, SettledInv, States, ZeroTime
  <2>2. QED
    BY <1>1, <1>2, <2>1, Durations DEF TouchedBy, Lapsed
<1>6. QED
  BY <1>1, <1>3, <1>4, <1>5, Durations

\* No probe of a new round has been handled.
LEMMA BeginsUntouched ==
  ASSUME ExchangeInv, CadenceInv, Apart, Begins
  PROVE  Untouched' /\ \A p \in DOMAIN emitted : emitted[p].seq < call'.p0.seq
<1>1. /\ call.pc = "idle" /\ clock >= nextAt /\ call'.pc = "wait0"
      /\ call'.p0.seq = NextSeq(seq) /\ call'.deadline = clock + Timeout
      /\ clock \in Nat /\ seq \in Nat
  BY Types DEF Begins
<1>2. NextSeq(seq) = seq + 1
  BY <1>1, RoomForRound
<1>3. \A p \in DOMAIN emitted : emitted[p].seq < call'.p0.seq
  <2>1. \A p \in DOMAIN emitted : emitted[p] \in OwnProbes
    BY Types, ElementOfSeq, LenProperties
  <2>2. \A p \in DOMAIN emitted : emitted[p].seq \in Nat /\ emitted[p].seq <= seq
    BY <2>1, Durations DEF OwnProbes, CadenceInv, SeqInv
  <2>3. QED
    BY <1>1, <1>2, <2>2
<1>4. AnswersTo(call'.p0) = {}
  BY <1>1, <1>2, <1>3, FreshUnanswered DEF CadenceInv
<1>5. AnswersTo(call.p0)' = {}
  BY <1>4 DEF AnswersTo, Apart
<1>6. Mine' = Mine /\ Start' = clock /\ Lapsed(Mine, clock + MinDelay)
  BY <1>1, ApartFacts, NothingLeft, Durations DEF Start
<1>7. Lapsed(Mine, Start + MinDelay)'
  BY <1>6 DEF Lapsed
<1>8. QED
  BY <1>1, <1>3, <1>5, <1>7 DEF Untouched

\* The start of a round.
LEMMA BeginsKeeps ==
  ASSUME ExchangeInv, CadenceInv, Apart, Begins
  PROVE  CadenceInv'
<1> DEFINE n == Len(emitted) + 1
<1>1. /\ call.pc = "idle" /\ clock >= nextAt /\ call'.pc = "wait0" /\ call'.p0 \in OwnProbes
      /\ call'.p0.seq = NextSeq(seq) /\ emitted' = Append(emitted, call'.p0)
      /\ call'.deadline = clock + Timeout /\ call'.poll = clock + BusyPoll
      /\ call'.sentAt = clock /\ round' = round + 1
      /\ UNCHANGED <<nextAt, reports, clock, challengedMode, sent>>
  BY DEF Begins, Apart
<1>2. /\ 2 * (round + 1) < SeqWord /\ seq <= 2 * round /\ round * Interval <= clock
      /\ NextSeq(seq) = seq + 1 /\ NextSeq(NextSeq(seq)) = seq + 2
  BY <1>1, RoomForRound
<1>3. /\ \A m \in net : m.kind # "probe"
      /\ Pending = {} /\ Lapsed(Mine, clock + MinDelay) /\ LastSend <= clock
  BY <1>1, NothingLeft
<1>4. /\ seq \in Nat /\ round \in Nat /\ clock \in Nat /\ nextAt \in Nat
      /\ challengedMode \in BOOLEAN
  BY Types
<1>5. /\ n \notin DOMAIN emitted /\ DOMAIN emitted' = DOMAIN emitted \cup {n}
      /\ \A p \in DOMAIN emitted : p < n /\ emitted'[p] = emitted[p]
      /\ emitted'[n] = call'.p0
      /\ \A m \in net' : m \in net \/ (m.kind = "probe" /\ m.index = n /\ m.at = clock)
  BY <1>1, Emission DEF InFlight
<1> HIDE DEF n
<1>6. Pending' = Pending /\ Mine' = Mine /\ \A p : AnswersTo(p)' = AnswersTo(p)
  BY ApartFacts
<1>7. LastSend' = clock /\ Start' = clock /\ Waiting'
  BY <1>1, <1>4, Durations DEF LastSend, Start, Waiting
<1>8. DueInv' /\ SettledInv' /\ KeptInv' /\ Deployed'
  BY <1>3, <1>5, <1>7, SendsNow
<1>9. seq' = IF challengedMode THEN seq + 1 ELSE seq + 2
  BY <1>2, <1>4 DEF Begins, SeqsTaken
<1>10. PaceInv'
  <2>1. seq' <= 2 * round' /\ 2 * round' < SeqWord /\ (challengedMode => seq' < 2 * round')
    BY <1>1, <1>2, <1>4, <1>9
  <2>2. round' > 0 /\ (round' - 1) * Interval <= clock
    <3>1. round' - 1 = round /\ round' > 0
      BY <1>1, <1>4
    <3>2. QED
      BY <1>2, <3>1
  <2>3. QED
    BY <1>1, <2>1, <2>2 DEF PaceInv
<1>11. /\ \A p \in DOMAIN emitted : emitted[p].seq < call'.p0.seq
       /\ call'.p0.seq = seq + 1
  BY <1>1, <1>2, BeginsUntouched
<1>12. SeqInv'
  <2>1. /\ \A p \in DOMAIN emitted' : emitted'[p].seq <= seq + 1
        /\ \A p, q \in DOMAIN emitted' : p < q => emitted'[p].seq < emitted'[q].seq
    BY <1>1, <1>11, SeqMore DEF CadenceInv
  <2>2. ~challengedMode => call'.p1.seq = seq'
    BY <1>2, <1>9 DEF Begins
  <2>3. \A p \in DOMAIN emitted' : emitted'[p].seq \in Nat
    <3>1. \A p \in DOMAIN emitted : emitted[p] \in OwnProbes
      BY Types, ElementOfSeq, LenProperties
    <3>2. \A p \in DOMAIN emitted' : emitted'[p] \in OwnProbes
      BY <1>1, <1>5, <3>1
    <3>3. QED
      BY <3>2, Durations DEF OwnProbes
  <2>4. \A p \in DOMAIN emitted' : emitted'[p].seq <= seq' /\ emitted'[p].seq < seq + 2
    BY <1>4, <1>9, <2>1, <2>3
  <2>5. QED
    BY <1>1, <1>9, <2>1, <2>2, <2>4 DEF SeqInv
<1>13. KnownInv'
  BY <1>5, KnownLater DEF CadenceInv, Keeps
<1>14. CallTimes'
  <2>1. BusyPoll <= Timeout
    BY DEF CadenceInv, Deployed, DefaultCadence
  <2>2. QED
    BY <1>1, <1>4, <1>7, <2>1, Durations DEF CallTimes
<1>15. AroundInv'
  <2>1. \A m \in net' : m.kind = "probe" => emitted'[m.index] = call'.p0 /\ m.at = clock
    BY <1>3, <1>5
  <2>2. QED
    BY <1>3, <1>6, <1>7, <2>1 DEF AroundInv, OwnFlight
<1>16. RoundInv'
  BY BeginsUntouched DEF RoundInv
<1>17. Reply0Inv' /\ OutcomeInv'
  <2>1. ~Succeeded' /\ Successes' = Successes
    BY <1>1 DEF Succeeded, Successes
  <2>2. QED
    BY <1>1, <2>1, ApartFacts DEF CadenceInv, Reply0Inv, OutcomeInv
<1>18. QED
  BY <1>8, <1>10, <1>12, <1>13, <1>14, <1>15, <1>16, <1>17 DEF CadenceInv

\* A reply in the socket that has the number of a probe answers that probe.
LEMMA HeadAnswers ==
  ASSUME ExchangeInv, CadenceInv, sockbuf # << >>, NEW p, Known(emitted, p),
         Head(sockbuf).reply.probe.seq = p.seq
  PROVE  \E i \in AnswersTo(p) : /\ Head(sockbuf).reply = sent[i].reply
                                 /\ sent[i].tx + MinDelay <= clock
<1>1. PICK i \in DOMAIN sent : /\ Head(sockbuf).reply = sent[i].reply
                               /\ sent[i].tx + MinDelay <= clock
  BY Types, HeadDelivered DEF NetworkInv, Delivered
<1>2. Known(emitted, sent[i].reply.probe) /\ SeqInv
  BY DEF CadenceInv, KnownInv
<1>3. sent[i].reply.probe = p
  BY <1>1, <1>2, OneOfSeq
<1>4. QED
  BY <1>1, <1>3 DEF AnswersTo

\* The number of probe 1 is new.
LEMMA SecondIsNew ==
  ASSUME ExchangeInv, CadenceInv, call.pc = "wait0"
  PROVE  /\ challengedMode =>
               /\ NextSeq(seq) = seq + 1 /\ seq + 1 <= 2 * round
               /\ \A p \in DOMAIN emitted : emitted[p].seq < seq + 1
         /\ ~challengedMode =>
               call.p1.seq = seq /\ \A p \in DOMAIN emitted : emitted[p].seq < seq
<1>1. seq \in Nat /\ round \in Nat
  BY Types
<1>2. \A p \in DOMAIN emitted : emitted[p].seq \in Nat /\ emitted[p].seq <= seq
  <2>1. \A p \in DOMAIN emitted : emitted[p] \in OwnProbes
    BY Types, ElementOfSeq, LenProperties
  <2>2. QED
    BY <2>1, Durations DEF OwnProbes, CadenceInv, SeqInv
<1>3. ASSUME challengedMode
      PROVE  NextSeq(seq) = seq + 1 /\ seq + 1 <= 2 * round
  <2>1. seq < 2 * round /\ 2 * round < SeqWord
    BY <1>3 DEF CadenceInv, PaceInv
  <2>2. seq + 1 < SeqWord /\ seq + 1 <= 2 * round
    BY <1>1, <2>1, Durations
  <2>3. QED
    BY <1>1, <2>2, Successor
<1>4. QED
  BY <1>1, <1>2, <1>3 DEF CadenceInv, SeqInv

\* The number of the probe that reply 0 fires is new, and reply 0 answers probe 0.
LEMMA FiresNew ==
  ASSUME ExchangeInv, CadenceInv, Apart, Fires
  PROVE  /\ call'.p1.seq = seq' /\ seq' \in Nat /\ seq' <= 2 * round
         /\ \A p \in DOMAIN emitted : emitted[p].seq < seq'
         /\ AnswersTo(call.p0)' = AnswersTo(call.p0) /\ AnswersTo(call.p1)' = {}
         /\ \E i \in AnswersTo(call.p0) : /\ Head(sockbuf).reply = sent[i].reply
                                          /\ sent[i].tx + MinDelay <= clock
<1>1. /\ call.pc = "wait0" /\ sockbuf # << >> /\ Matches(Head(sockbuf).reply, call.p0)
      /\ call'.p0 = call.p0 /\ sent' = sent
      /\ seq \in Nat /\ challengedMode \in BOOLEAN /\ seq <= 2 * round /\ Waiting
  BY Types DEF Fires, Apart, Waiting, CadenceInv, PaceInv
<1>2. /\ call'.p1.seq = seq' /\ seq' \in Nat /\ seq' <= 2 * round
      /\ \A p \in DOMAIN emitted : emitted[p].seq < seq'
  BY <1>1, SecondIsNew DEF Fires
<1>3. AnswersTo(call'.p1) = {}
  BY <1>2, FreshUnanswered DEF CadenceInv
<1>4. AnswersTo(call.p0)' = AnswersTo(call.p0) /\ AnswersTo(call.p1)' = {}
  BY <1>1, <1>3 DEF AnswersTo
<1>5. QED
  BY <1>1, <1>2, <1>4, OwnKnown, HeadAnswers DEF Matches

\* Firing probe 1 leaves an opened round opened.
LEMMA FiresOpened ==
  ASSUME ExchangeInv, CadenceInv, Apart, Fires, AnswersTo(call.p1)' = {}, Opened
  PROVE  Opened'
<1>1. /\ call'.p0 = call.p0 /\ call'.deadline = call.deadline
      /\ Mine' = Mine /\ UNCHANGED <<sent, gen>>
  BY ApartFacts DEF Fires, Apart
<1>2. PICK h \in DOMAIN sent : OpenedWith(h)
  BY DEF Opened
<1>3. OpenedWith(h)'
  BY <1>1, <1>2 DEF OpenedWith, AnswersTo
<1>4. Start' = Start
  BY <1>1 DEF Start
<1>5. QED
  BY <1>1, <1>3, <1>4 DEF Opened

\* Reply 0 fires probe 1: the round has been opened, and probe 1 has no answer.
LEMMA FiresKeeps ==
  ASSUME ExchangeInv, CadenceInv, Apart, Fires
  PROVE  CadenceInv'
<1> DEFINE n == Len(emitted) + 1
<1>1. /\ call.pc = "wait0" /\ Polling /\ sockbuf # << >>
      /\ Matches(Head(sockbuf).reply, call.p0)
      /\ call'.pc = "wait1" /\ call'.p0 = call.p0 /\ call'.reply0 = Head(sockbuf).reply
      /\ call'.deadline = call.deadline /\ call'.sentAt = clock
      /\ call'.p1 \in OwnProbes /\ emitted' = Append(emitted, call'.p1)
      /\ UNCHANGED <<round, nextAt, reports, clock, challengedMode, sent, gen>>
  BY DEF Fires, Apart
<1>2. /\ seq \in Nat /\ clock \in Nat /\ challengedMode \in BOOLEAN /\ Waiting
      /\ call.deadline \in Nat /\ call.poll \in Nat
  BY <1>1, Types DEF Waiting
<1>3. /\ n \notin DOMAIN emitted /\ DOMAIN emitted' = DOMAIN emitted \cup {n}
      /\ \A p \in DOMAIN emitted : p < n /\ emitted'[p] = emitted[p]
      /\ emitted'[n] = call'.p1
      /\ \A m \in net' : m \in net \/ (m.kind = "probe" /\ m.index = n /\ m.at = clock)
  BY <1>1, Emission DEF InFlight
<1> HIDE DEF n
<1>4. LastSend' = clock /\ LastSend = clock /\ Start' = Start /\ Waiting'
  BY <1>1 DEF LastSend, Start, Waiting
<1>5. DueInv' /\ SettledInv' /\ KeptInv' /\ Deployed'
  BY <1>2, <1>3, <1>4, SendsNow
<1>6. /\ call'.p1.seq = seq' /\ seq' \in Nat /\ seq' <= 2 * round
      /\ \A p \in DOMAIN emitted : emitted[p].seq < seq'
  BY FiresNew
<1>7. PaceInv'
  BY <1>1, <1>6 DEF CadenceInv, PaceInv
<1>8. SeqInv'
  BY <1>1, <1>6, SeqMore DEF CadenceInv, SeqInv
<1>9. KnownInv'
  BY <1>3, KnownLater DEF CadenceInv, Keeps
<1>10. CallTimes'
  <2>1. call.poll <= call.deadline /\ 0 <= Start /\ Start <= clock
    BY <1>1, <1>2, Types DEF CadenceInv, CallTimes
  <2>2. clock <= call.deadline
    BY <1>1, <1>2, <2>1 DEF Polling
  <2>3. QED
    BY <1>1, <1>2, <1>4, <2>1, <2>2 DEF CallTimes
<1>11. AroundInv'
  <2>1. \A m \in net' : m.kind = "probe" => OwnFlight(m)'
    <3>1. ASSUME NEW m \in net', m.kind = "probe"
          PROVE  OwnFlight(m)'
      <4>1. CASE m \in net
        <5>1. emitted[m.index] = call.p0 /\ m.at = Start
          BY <1>1, <1>2, <3>1, <4>1 DEF CadenceInv, AroundInv, OwnFlight
        <5>2. m.index \in DOMAIN emitted
          BY <3>1, <4>1, Types DEF NetworkInv, FlightInv, Flies
        <5>3. QED
          BY <1>1, <1>3, <1>4, <5>1, <5>2 DEF OwnFlight
      <4>2. CASE m \notin net
        BY <1>1, <1>3, <3>1, <4>2 DEF OwnFlight
      <4>3. QED
        BY <4>1, <4>2
    <3>2. QED
      BY <3>1
  <2>2. \A d \in Pending : OwnArrival(d)'
    BY <1>1, <1>2, <1>4 DEF CadenceInv, AroundInv, OwnArrival
  <2>3. QED
    BY <2>1, <2>2, ApartFacts DEF AroundInv
<1>12. PICK i \in AnswersTo(call.p0) : /\ Head(sockbuf).reply = sent[i].reply
                                       /\ sent[i].tx + MinDelay <= clock
  BY FiresNew
<1>13. AnswersTo(call.p0)' = AnswersTo(call.p0) /\ AnswersTo(call.p1)' = {}
  BY FiresNew
<1>14. RoundInv'
  <2>1. Mine' = Mine
    BY ApartFacts
  <2>2. CASE Opened
    BY <1>13, <2>2, FiresOpened DEF RoundInv
  <2>3. CASE Closed
    BY <1>4, <1>13, <2>1, <2>3 DEF Closed, RoundInv
  <2>4. QED
    BY <1>2, <1>12, <2>2, <2>3 DEF CadenceInv, RoundInv, Untouched
<1>15. Reply0Inv'
  BY <1>1, <1>12, <1>13 DEF Reply0Inv
<1>16. OutcomeInv'
  <2>1. ~Succeeded' /\ Successes' = Successes
    BY <1>1 DEF Succeeded, Successes
  <2>2. QED
    BY <1>1, <2>1, ApartFacts DEF CadenceInv, OutcomeInv
<1>17. QED
  BY <1>5, <1>7, <1>8, <1>9, <1>10, <1>11, <1>14, <1>15, <1>16 DEF CadenceInv

\* Reply 1 answers probe 1 of a round that is closed.
LEMMA WinsRests ==
  ASSUME ExchangeInv, CadenceInv, Apart, Wins
  PROVE  OutcomeInv'
<1>1. /\ call.pc = "wait1" /\ sockbuf # << >> /\ Matches(Head(sockbuf).reply, call.p1)
      /\ call'.reply0 = call.reply0 /\ call'.reply1 = Head(sockbuf).reply
      /\ reports' = reports
  BY DEF Wins
<1>2. PICK j \in AnswersTo(call.p1) : Head(sockbuf).reply = sent[j].reply
  BY <1>1, OwnKnown, HeadAnswers DEF Matches
<1>3. Closed
  BY <1>1, <1>2 DEF CadenceInv, RoundInv, Waiting, Untouched, Opened
<1>4. Rests(call'.reply0, call'.reply1)
  BY <1>1, <1>2, <1>3 DEF Closed, Rests, AnswersTo
<1>5. Rests(call.reply0, call.reply1)'
  BY <1>4, ApartFacts DEF Apart, Rests, Completes, Opens
<1>6. QED
  BY <1>1, <1>5, ApartFacts DEF CadenceInv, OutcomeInv, Successes

\* A call that is over leaves only its datagrams and its sequence numbers.
LEMMA OverKeeps ==
  ASSUME ExchangeInv, CadenceInv, Apart, Wins \/ Fails \/ Reports,
         PaceInv', SeqInv', OutcomeInv', Keeps(emitted, emitted'),
         \A m \in net' : m \in net \/ m.at = clock
  PROVE  CadenceInv'
<1>1. call'.pc \in {"done", "idle"}
  BY DEF Wins, Fails, Reports
<1>2. CallTimes' /\ AroundInv' /\ RoundInv' /\ Reply0Inv'
  BY <1>1 DEF CallTimes, AroundInv, RoundInv, Reply0Inv, Waiting
<1>3. LastSend' = clock /\ LastSend <= clock
  <2>1. CASE Wins
    BY <2>1, Types DEF Wins, LastSend, Apart
  <2>2. CASE Reports
    BY <2>2, Types, Durations DEF Reports, LastSend, Apart
  <2>3. CASE Fails
    <3>1. call.pc = "idle" => clock >= nextAt
      BY <2>3 DEF Fails, FailsToSend, Mismatches, GivesUp, Waiting
    <3>2. QED
      BY <2>3, <3>1, Types, Durations DEF Fails, LastSend, Apart
  <2>4. QED
    BY <2>1, <2>2, <2>3
<1>4. DueInv' /\ SettledInv' /\ KeptInv' /\ Deployed'
  BY <1>3, SendsNow
<1>5. KnownInv'
  BY KnownLater DEF CadenceInv
<1>6. QED
  BY <1>2, <1>4, <1>5 DEF CadenceInv

\* Reply 1 completes the call.
LEMMA WinsKeeps ==
  ASSUME ExchangeInv, CadenceInv, Apart, Wins
  PROVE  CadenceInv'
<1>1. /\ UNCHANGED <<seq, emitted, round, nextAt, clock, challengedMode>>
      /\ call.pc = "wait1" /\ call'.pc = "done"
  BY DEF Wins, Apart
<1>2. PaceInv' /\ SeqInv'
  BY <1>1 DEF CadenceInv, PaceInv, SeqInv
<1>3. Keeps(emitted, emitted') /\ net' = net
  BY <1>1, Emission DEF Keeps
<1>4. QED
  BY <1>2, <1>3, WinsRests, OverKeeps

\* The round is reported.
LEMMA ReportsKeeps ==
  ASSUME ExchangeInv, CadenceInv, Apart, Reports
  PROVE  CadenceInv'
<1> DEFINE k == Len(reports)
           entry == IF call.err = "none" THEN observe(call) ELSE failure(call)
<1>1. /\ UNCHANGED <<seq, emitted, round, clock, challengedMode>> /\ nextAt' = clock + Interval
      /\ call.pc = "done" /\ call'.pc = "idle" /\ reports' = Append(reports, entry)
  BY DEF Reports, Apart
<1>2. SeqInv' /\ Keeps(emitted, emitted') /\ net' = net
  BY <1>1, Emission DEF CadenceInv, SeqInv, Keeps
<1>3. PaceInv'
  <2>1. round \in Nat /\ round > 0 /\ (round - 1) * Interval <= clock
    BY <1>1, Types DEF CadenceInv, PaceInv
  <2>2. round * Interval <= clock + Interval
    <3>1. (round - 1) * Interval + Interval = round * Interval /\ (round - 1) * Interval \in Int
      BY <2>1, NextRound, Durations
    <3>2. QED
      BY <2>1, <3>1, Types, Durations
  <2>3. QED
    BY <1>1, <2>2 DEF CadenceInv, PaceInv
<1>4. OutcomeInv'
  <2>1. entry \in Observations(Replies) \cup Failures
    BY <1>1, AnchorRepliesOK, Types, ReportType
  <2>2. entry.err = "none" => Rests(entry.reply0, entry.reply1)
    BY <1>1 DEF CadenceInv, OutcomeInv, Succeeded, observe, failure
  <2> HIDE DEF entry
  <2>3. /\ k \in Nat /\ DOMAIN reports = 1 .. k /\ DOMAIN reports' = 1 .. k + 1
        /\ \A i \in 1 .. k : reports'[i] = reports[i]
        /\ reports'[k + 1] = entry
    BY <1>1, <2>1, Types, LogAppend DEF AttesterInv, LoopTypes
  <2> HIDE DEF k
  <2>4. \A i \in Successes' :
           (i \in Successes /\ reports'[i] = reports[i])
              \/ (reports'[i] = entry /\ entry.err = "none")
    BY <2>3 DEF Successes
  <2>5. \A i \in Successes' : Rests(reports'[i].reply0, reports'[i].reply1)
    BY <2>2, <2>4 DEF CadenceInv, OutcomeInv
  <2>6. \A i \in Successes' : Rests(reports[i].reply0, reports[i].reply1)'
    BY <2>5, ApartFacts DEF Apart, Rests, Completes, Opens
  <2>7. ~Succeeded'
    BY <1>1 DEF Succeeded
  <2>8. QED
    BY <2>6, <2>7 DEF OutcomeInv
<1>5. QED
  BY <1>2, <1>3, <1>4, OverKeeps

\* The call ends in an error.
LEMMA FailsKeeps ==
  ASSUME ExchangeInv, CadenceInv, Apart, Fails
  PROVE  CadenceInv'
<1>1. /\ call'.pc = "done" /\ call'.err # "none"
      /\ UNCHANGED <<nextAt, reports, clock, challengedMode>>
  BY DEF Fails, Apart
<1>2. OutcomeInv'
  <2>1. ~Succeeded' /\ Successes' = Successes
    BY <1>1 DEF Succeeded, Successes
  <2>2. QED
    BY <1>1, <2>1, ApartFacts DEF CadenceInv, OutcomeInv
<1>3. /\ seq \in Nat /\ round \in Nat /\ clock \in Nat /\ challengedMode \in BOOLEAN
      /\ \A p \in DOMAIN emitted : emitted[p].seq \in Nat /\ emitted[p].seq <= seq
  <2>1. \A p \in DOMAIN emitted : emitted[p] \in OwnProbes
    BY Types, ElementOfSeq, LenProperties
  <2>2. QED
    BY <2>1, Types, Durations DEF OwnProbes, CadenceInv, SeqInv
<1>4. CASE FailsToSend /\ call.pc = "idle"
  <2>1. clock >= nextAt /\ SeqsTaken /\ round' = round + 1 /\ emitted' = emitted
    BY <1>4 DEF FailsToSend
  <2>2. /\ 2 * (round + 1) < SeqWord /\ seq <= 2 * round /\ round * Interval <= clock
        /\ NextSeq(seq) = seq + 1 /\ NextSeq(NextSeq(seq)) = seq + 2
    BY <1>4, <2>1, RoomForRound
  <2>3. seq' \in Nat /\ seq <= seq' /\ seq' <= 2 * round'
    BY <1>3, <2>1, <2>2 DEF SeqsTaken
  <2>4. PaceInv'
    <3>1. round' - 1 = round /\ round' > 0 /\ 2 * round' < SeqWord
      BY <1>3, <2>1, <2>2
    <3>2. (round' - 1) * Interval <= clock
      BY <2>2, <3>1
    <3>3. QED
      BY <1>1, <2>3, <3>1, <3>2 DEF PaceInv
  <2>5. SeqInv' /\ Keeps(emitted, emitted')
    BY <1>1, <1>3, <2>1, <2>3 DEF CadenceInv, SeqInv, Keeps
  <2>6. QED
    BY <1>2, <2>1, <2>4, <2>5, Emission, OverKeeps
<1>5. CASE FailsToSend /\ call.pc = "wait0"
  <2>1. /\ round' = round /\ emitted' = emitted
        /\ seq' = seq \/ (challengedMode /\ seq' = NextSeq(seq))
    BY <1>5 DEF FailsToSend
  <2>2. seq' \in Nat /\ seq <= seq' /\ seq' <= 2 * round
    BY <1>3, <1>5, <2>1, SecondIsNew DEF CadenceInv, PaceInv
  <2>3. PaceInv'
    BY <1>1, <1>5, <2>1, <2>2 DEF CadenceInv, PaceInv
  <2>4. SeqInv' /\ Keeps(emitted, emitted')
    BY <1>1, <1>3, <2>1, <2>2 DEF CadenceInv, SeqInv, Keeps
  <2>5. QED
    BY <1>2, <2>1, <2>3, <2>4, Emission, OverKeeps
<1>6. CASE Mismatches
  <2>1. /\ call.pc = "wait0" /\ ~challengedMode /\ call.p1 \in OwnProbes
        /\ emitted' = Append(emitted, call.p1) /\ UNCHANGED <<seq, round>>
    BY <1>6 DEF Mismatches
  <2>2. call.p1.seq = seq /\ \A p \in DOMAIN emitted : emitted[p].seq < call.p1.seq
    BY <2>1, SecondIsNew
  <2>3. PaceInv'
    BY <1>1, <2>1 DEF CadenceInv, PaceInv
  <2>4. SeqInv'
    BY <1>1, <2>1, <2>2, SeqMore DEF CadenceInv, SeqInv
  <2>5. Keeps(emitted, emitted') /\ \A m \in net' : m \in net \/ m.at = clock
    BY <2>1, Emission DEF Keeps, InFlight
  <2>6. QED
    BY <1>2, <2>3, <2>4, <2>5, OverKeeps
<1>7. CASE GivesUp
  <2>1. UNCHANGED <<seq, emitted, round>> /\ call.pc # "idle"
    BY <1>7 DEF GivesUp, Waiting
  <2>2. PaceInv' /\ SeqInv'
    BY <1>1, <2>1 DEF CadenceInv, PaceInv, SeqInv
  <2>3. Keeps(emitted, emitted')
    BY <2>1 DEF Keeps
  <2>4. QED
    BY <1>2, <2>1, <2>2, <2>3, Emission, OverKeeps
<1>8. QED
  BY <1>4, <1>5, <1>6, <1>7 DEF Fails, FailsToSend

\* Every step of the attester.
LEMMA AttesterCadence ==
  ASSUME ExchangeInv, CadenceInv, AttesterMoves
  PROVE  CadenceInv'
<1>1. AttesterStep /\ UNCHANGED vars /\ Carry /\ AttesterInv(Replies)
  BY Types DEF AttesterMoves
<1>2. /\ UNCHANGED <<clock, challengedMode, cancelled>>
      /\ Begins \/ Fires \/ Wins \/ Fails \/ Reports \/ Forgets
  BY <1>1, AttesterKinds
<1>3. Apart
  BY <1>1, <1>2 DEF vars, Apart
<1>4. CASE Forgets
  <2>1. /\ UNCHANGED <<challengedMode, clock, seq, call, emitted, round, nextAt, reports>>
        /\ UNCHANGED <<sent, gen, authorizedKeys, reload>>
    BY <1>3, <1>4 DEF Forgets, Apart
  <2>2. net' = net /\ Pending' = Pending /\ Mine' = Mine
    BY <1>3, <2>1, Emission, ApartFacts
  <2>3. KeptInv'
    BY <2>1 DEF CadenceInv, KeptInv
  <2>4. QED
    BY <2>1, <2>2, <2>3, QuietKeeps
<1>5. QED
  BY <1>2, <1>3, <1>4, BeginsKeeps, FiresKeeps, WinsKeeps, FailsKeeps, ReportsKeeps

----------------------------------------------------------------------------
(* The invariant holds. *)

\* At first.
LEMMA CadenceInitially == ExchangeInit /\ Deployed => CadenceInv
<1> SUFFICES ASSUME ExchangeInit, Deployed PROVE CadenceInv
  OBVIOUS
<1>1. /\ net = {} /\ inbox = << >> /\ inHand = << >> /\ sent = << >> /\ emitted = << >>
      /\ reports = << >> /\ states = [k \in Keys |-> Fresh] /\ call = NoCall
      /\ clock = 0 /\ seq = 0 /\ round = 0 /\ nextAt = 0
      /\ SelfKey \in authorizedKeys /\ reload = Idle(authorizedKeys)
  BY DEF ExchangeInit, AttesterInit, SenderInit, Init
<1>2. /\ call.pc = "idle" /\ Pending = {} /\ Mine.pairCount = 0
      /\ DOMAIN sent = {} /\ DOMAIN emitted = {} /\ DOMAIN reports = {}
  BY <1>1, PartiesAssumption DEF NoCall, Pending, Mine, Fresh
<1>3. DueInv /\ SettledInv /\ KnownInv
  BY <1>1, <1>2 DEF DueInv, SettledInv, KnownInv, TouchedBy
<1>4. KeptInv /\ SeqInv
  BY <1>1, <1>2 DEF KeptInv, SeqInv, Idle
<1>5. PaceInv
  <2>1. 0 <= 2 * 0 /\ 2 * 0 < SeqWord /\ 0 * Interval <= 0
    BY Durations
  <2>2. QED
    BY <1>1, <1>2, <2>1 DEF PaceInv
<1>6. CallTimes /\ AroundInv /\ RoundInv /\ Reply0Inv
  BY <1>2 DEF CallTimes, AroundInv, RoundInv, Reply0Inv, Waiting
<1>7. OutcomeInv
  BY <1>2 DEF OutcomeInv, Succeeded, Successes
<1>8. QED
  BY <1>3, <1>4, <1>5, <1>6, <1>7 DEF CadenceInv

\* A datagram that arrives, the original or a copy.
LEMMA ArrivesCadence ==
  ASSUME ExchangeInv, CadenceInv, NEW m \in net, Arrives(m), net' \subseteq net
  PROVE  CadenceInv'
<1>1. CASE m.kind = "probe"
  BY <1>1, ProbeArrives DEF Arrives
<1>2. CASE m.kind # "probe"
  <2>1. /\ UNCHANGED <<challengedMode, clock, seq, call, emitted, round, nextAt, reports>>
        /\ UNCHANGED <<inbox, inHand, authorizedKeys, states, reload, sent, gen>>
    BY <1>2 DEF Arrives, Deliver, loopVars, vars
  <2>2. Pending' = Pending /\ Mine' = Mine /\ KeptInv'
    BY <2>1 DEF CadenceInv, KeptInv, Pending, Mine
  <2>3. QED
    BY <2>1, <2>2, QuietKeeps
<1>3. QED
  BY <1>1, <1>2

\* A datagram that is lost, or nothing.
LEMMA LossCadence ==
  ASSUME CadenceInv, UNCHANGED <<attesterVars, vars>>, net' \subseteq net
  PROVE  CadenceInv'
<1>1. /\ UNCHANGED <<challengedMode, clock, seq, call, emitted, round, nextAt, reports>>
      /\ UNCHANGED <<inbox, inHand, authorizedKeys, states, reload, sent, gen>>
  BY DEF attesterVars, senderVars, loopVars, vars
<1>2. Pending' = Pending /\ Mine' = Mine /\ KeptInv'
  BY <1>1 DEF CadenceInv, KeptInv, Pending, Mine
<1>3. QED
  BY <1>1, <1>2, QuietKeeps

\* After every step.
LEMMA CadenceStep ==
  ExchangeInv /\ CadenceInv /\ [ExchangeNext]_exchangeVars => CadenceInv'
<1> SUFFICES ASSUME ExchangeInv, CadenceInv, [ExchangeNext]_exchangeVars PROVE CadenceInv'
  OBVIOUS
<1>1. CASE AttesterMoves \/ AnchorMoves \/ Passing
  BY <1>1, AttesterCadence, AnchorCadence, PassingCadence
<1>2. CASE Delivery
  <2>1. PICK m \in net : Arrives(m) /\ net' = net \ {m}
    BY <1>2 DEF Delivery
  <2>2. QED
    BY <2>1, ArrivesCadence
<1>3. CASE Duplication
  <2>1. PICK m \in net : Arrives(m) /\ UNCHANGED <<net, losses, cleanRounds>>
    BY <1>3, Zenon DEF Duplication
  <2>2. QED
    BY <2>1, ArrivesCadence
<1>4. CASE Loss
  <2>1. net' \subseteq net /\ UNCHANGED <<attesterVars, vars>>
    BY <1>4 DEF Loss
  <2>2. QED
    BY <2>1, LossCadence
<1>5. CASE UNCHANGED exchangeVars
  <2>1. net' \subseteq net /\ UNCHANGED <<attesterVars, vars>>
    BY <1>5 DEF exchangeVars, networkVars
  <2>2. QED
    BY <2>1, LossCadence
<1>6. QED
  BY <1>1, <1>2, <1>3, <1>4, <1>5 DEF ExchangeNext

----------------------------------------------------------------------------
(* What a success proves. *)

\* Its pair of replies.
LEMMA SuccessRests ==
  ASSUME ExchangeInv, CadenceInv, NEW i \in Successes
  PROVE  \E h, j \in DOMAIN sent : MeasuredBy(i, h, j) /\ Completes(h, j)
  BY DEF CadenceInv, OutcomeInv, Rests, MeasuredBy, Completes

\* The bound computed from them.
LEMMA SuccessBound ==
  ASSUME ExchangeInv, CadenceInv, NEW i \in Successes
  PROVE  reports[i].bound >= 2 * MinDelay
<1> DEFINE r1 == reports[i].reply1
<1>1. PICK h, j \in DOMAIN sent : MeasuredBy(i, h, j) /\ Completes(h, j)
  BY SuccessRests
<1>2. TypeInv /\ SentInv /\ NetworkInv
  BY DEF ExchangeInv, AnchorInv
<1>3. sent[h].tx \in Nat /\ sent[j].rx \in Nat /\ sent[j].rx <= MaxClock
  BY <1>2, LogType DEF SentInv
<1>4. r1 = sent[j].reply /\ sent[j].role = 1
  BY <1>1 DEF MeasuredBy
<1>5. r1.since \in Nat /\ r1.since <= MaxClock /\ r1.since >= 2 * MinDelay
  BY <1>1, <1>3, <1>4, Durations DEF Completes
<1>6. PICK v \in OffsetVectors : r1.rtt = Uint64(ParseOffsetInfo(v).rtt + r1.since)
  BY <1>2, <1>4 DEF SentInv, Accumulates
<1>7. reports[i].bound = ProvableMaxDistance(Int64(r1.rtt))
  BY <1>2 DEF NetworkInv, ReportInv, Faithful
<1>8. reports[i].bound >= r1.since
  BY <1>5, <1>6, <1>7, BoundOfInterval
<1>9. reports[i].bound \in Int
  <2>1. r1.rtt \in Stamps
    BY <1>2, <1>4, LogType DEF Replies
  <2>2. QED
    BY <1>7, <2>1, WordAssumption DEF Stamps, Int64, ProvableMaxDistance
<1>10. QED
  BY <1>5, <1>8, <1>9, Durations

\* The three promises follow from the invariants.
LEMMA SuccessSound ==
  ExchangeInv /\ CadenceInv =>
      ReportedIntervalIsMeasured /\ ProvableBoundSound /\ SuccessIsChallenged
<1> SUFFICES ASSUME ExchangeInv, CadenceInv
             PROVE  ReportedIntervalIsMeasured /\ ProvableBoundSound /\ SuccessIsChallenged
  OBVIOUS
<1>1. ReportedIntervalIsMeasured
  BY SuccessRests DEF ReportedIntervalIsMeasured
<1>2. ProvableBoundSound
  BY SuccessBound DEF ProvableBoundSound
<1>3. ASSUME challengedMode, NEW i \in Successes
      PROVE  reports[i].challenged
  <2>1. PICK h, j \in DOMAIN sent : MeasuredBy(i, h, j) /\ Completes(h, j)
    BY SuccessRests
  <2>2. Faithful(sent, reports[i])
    BY DEF ExchangeInv, NetworkInv, ReportInv
  <2>3. QED
    BY <1>3, <2>1, <2>2 DEF MeasuredBy, Completes, Faithful
<1>4. QED
  BY <1>1, <1>2, <1>3 DEF SuccessIsChallenged

\* With the default order of timeouts every success, challenged or not, carries
\* the interval the anchor timed between its own two exchanges, whatever is lost,
\* duplicated or delayed.  (Reflector.Run, LinuxSender.ProbePair, observe.)
THEOREM IntervalCorrect == Exchange /\ Deployed => []ReportedIntervalIsMeasured
<1>1. ExchangeInv /\ CadenceInv => ReportedIntervalIsMeasured
  BY SuccessSound
<1>2. QED
  BY <1>1, ExchangeInitially, ExchangeStep, CadenceInitially, CadenceStep, PTL DEF Exchange

\* And no reported bound on the distance is below the true distance.
\* (geo.ProvableMaxDistance of the RTT in reply 1.)
THEOREM BoundCorrect == Exchange /\ Deployed => []ProvableBoundSound
<1>1. ExchangeInv /\ CadenceInv => ProvableBoundSound
  BY SuccessSound
<1>2. QED
  BY <1>1, ExchangeInitially, ExchangeStep, CadenceInitially, CadenceStep, PTL DEF Exchange

\* In challenged mode the anchor confirms the nonce of every success: no loss or
\* duplicate makes an honest pair come out unchallenged.  (observation.Challenged.)
THEOREM ChallengedCorrect == Exchange /\ Deployed => []SuccessIsChallenged
<1>1. ExchangeInv /\ CadenceInv => SuccessIsChallenged
  BY SuccessSound
<1>2. QED
  BY <1>1, ExchangeInitially, ExchangeStep, CadenceInitially, CadenceStep, PTL DEF Exchange

----------------------------------------------------------------------------
(* A clean round: where its probe and its reply are. *)

\* One way: on the network, and waiting for the program at its end.
Trip == MaxDelay + MaxLag

ProbesOut == {m \in net : m.kind = "probe"}
AnchorIdle == inbox = << >> /\ inHand = << >>
Awaited == IF call.pc = "wait0" THEN call.p0 ELSE call.p1

\* The socket hands out replies in the order of their arrival.
QueueInv ==
    /\ \A q \in DOMAIN sockbuf : sockbuf[q].shape = "reply" /\ sockbuf[q].rx <= clock
    /\ \A p, q \in DOMAIN sockbuf : p < q => sockbuf[p].rx <= sockbuf[q].rx

\* The rounds before the current one have been reported, one by one.
TallyInv == ~cancelled /\ Len(reports) = IF call.pc = "idle" THEN round ELSE round - 1

\* The probe whose reply is awaited is on its way, alone, or at the anchor.
Coming(m) ==
    /\ ProbesOut = {m} /\ AnchorIdle
    /\ emitted[m.index] = Awaited /\ m.at = call.sentAt
AtAnchor ==
    /\ ProbesOut = {} /\ Len(inbox) + Len(inHand) = 1
    /\ \A d \in Pending : d.probe = Awaited /\ d.rx <= call.sentAt + MaxDelay
Asked ==
    /\ call.pc = "wait0" => Untouched
    /\ call.pc = "wait1" => Opened
    /\ (\E m \in net : Coming(m)) \/ AtAnchor

\* Its reply is on its way, or in the attester's socket.
Returning(j) == \E m \in net : m.kind = "reply" /\ m.index = j /\ m.at <= call.sentAt + Trip
Queued(j) ==
    \E q \in DOMAIN sockbuf : /\ sockbuf[q].reply = sent[j].reply
                              /\ sockbuf[q].rx <= call.sentAt + Trip + MaxDelay
Answered ==
    /\ ProbesOut = {} /\ AnchorIdle
    /\ call.pc = "wait0" => Opened
    /\ \E j \in AnswersTo(Awaited) : Returning(j) \/ Queued(j)

SmoothInv ==
    clean /\ Waiting =>
        /\ clock <= call.sentAt + 2 * Trip
        /\ call.pc = "wait1" => call.sentAt <= Start + 2 * Trip
        /\ Asked \/ Answered

CleanInv ==
    /\ RoundTripsFit
    /\ QueueInv /\ TallyInv /\ SmoothInv
    /\ clean /\ call.pc = "done" => call.err = "none"
    /\ CleanRoundSucceeds

----------------------------------------------------------------------------
(* Clean rounds: the network and time. *)

\* The types of the attester's queue and reports.
LEMMA QueueTypes ==
  ASSUME ExchangeInv
  PROVE  /\ sockbuf \in Seq(Deliveries(Replies)) /\ DOMAIN sockbuf \subseteq Nat
         /\ \A q \in DOMAIN sockbuf : sockbuf[q].rx \in Nat /\ sockbuf[q].reply \in Replies
         /\ reports \in Seq(Observations(Replies) \cup Failures) /\ Len(reports) \in Nat
         /\ DOMAIN reports = 1 .. Len(reports)
<1>1. /\ sockbuf \in Seq(Deliveries(Replies))
      /\ reports \in Seq(Observations(Replies) \cup Failures)
  BY Types DEF AttesterInv, SenderTypes, LoopTypes
<1>2. \A q \in DOMAIN sockbuf : sockbuf[q] \in Deliveries(Replies)
  BY <1>1, ElementOfSeq, LenProperties
<1>3. QED
  BY <1>1, <1>2, LenProperties DEF Deliveries

\* Reading the socket keeps its order.
LEMMA QueueRead ==
  ASSUME ExchangeInv, QueueInv, clock' \in Nat, clock <= clock',
         sockbuf' = sockbuf \/ (sockbuf # << >> /\ sockbuf' = Tail(sockbuf))
  PROVE  QueueInv'
<1>1. clock \in Nat /\ sockbuf \in Seq(Deliveries(Replies)) /\ DOMAIN sockbuf \subseteq Nat
      /\ \A q \in DOMAIN sockbuf : sockbuf[q].rx \in Nat
  BY Types, QueueTypes
<1>2. \A q \in DOMAIN sockbuf : sockbuf[q].shape = "reply" /\ sockbuf[q].rx <= clock'
  BY <1>1 DEF QueueInv
<1>3. CASE sockbuf' = sockbuf
  BY <1>2, <1>3 DEF QueueInv
<1>4. CASE sockbuf # << >> /\ sockbuf' = Tail(sockbuf)
  <2>1. /\ \A q \in DOMAIN sockbuf' : q + 1 \in DOMAIN sockbuf /\ sockbuf'[q] = sockbuf[q + 1]
        /\ DOMAIN sockbuf' \subseteq Nat
    BY <1>1, <1>4, TailElements
  <2>2. \A p, q \in DOMAIN sockbuf' : p < q => p + 1 < q + 1
    BY <2>1
  <2>3. QED
    BY <1>2, <2>1, <2>2 DEF QueueInv
<1>5. QED
  BY <1>3, <1>4

\* So does a reply that arrives.
LEMMA QueueArrives ==
  ASSUME ExchangeInv, QueueInv, NEW r \in Replies, Deliver(r, "reply")
  PROVE  /\ QueueInv'
         /\ \A q \in DOMAIN sockbuf : q \in DOMAIN sockbuf' /\ sockbuf'[q] = sockbuf[q]
         /\ \E q \in DOMAIN sockbuf' : sockbuf'[q].reply = r /\ sockbuf'[q].rx = clock
<1> DEFINE e == [reply |-> r, shape |-> "reply", rx |-> clock]
           n == Len(sockbuf) + 1
<1>1. /\ sockbuf' = Append(sockbuf, e) /\ clock' = clock /\ clock \in Nat
      /\ e \in Deliveries(Replies) /\ e.reply = r /\ e.rx = clock /\ e.shape = "reply"
  BY Types DEF Deliver, Deliveries
<1>2. sockbuf \in Seq(Deliveries(Replies)) /\ \A q \in DOMAIN sockbuf : sockbuf[q].rx \in Nat
  BY QueueTypes
<1> HIDE DEF e
<1>3. /\ Len(sockbuf) \in Nat /\ DOMAIN sockbuf = 1 .. Len(sockbuf)
      /\ DOMAIN sockbuf' = 1 .. n /\ sockbuf'[n] = e
      /\ \A q \in 1 .. Len(sockbuf) : sockbuf'[q] = sockbuf[q]
  BY <1>1, <1>2, LogAppend
<1>4. \A q \in DOMAIN sockbuf' : sockbuf'[q].shape = "reply" /\ sockbuf'[q].rx <= clock
  BY <1>1, <1>3 DEF QueueInv
<1>5. ASSUME NEW p \in DOMAIN sockbuf', NEW q \in DOMAIN sockbuf', p < q
      PROVE  sockbuf'[p].rx <= sockbuf'[q].rx
  <2>1. p \in DOMAIN sockbuf
    BY <1>3, <1>5
  <2>2. CASE q = n
    BY <1>1, <1>3, <2>1, <2>2 DEF QueueInv
  <2>3. CASE q # n
    BY <1>3, <1>5, <2>1, <2>3 DEF QueueInv
  <2>4. QED
    BY <2>2, <2>3
<1>6. n \in DOMAIN sockbuf'
  BY <1>3
<1>7. QED
  BY <1>1, <1>3, <1>4, <1>5, <1>6 DEF QueueInv

\* A clean call is within its deadline.
LEMMA InTime ==
  ASSUME ExchangeInv, CadenceInv, CleanInv, clean, Waiting
  PROVE  clock < call.deadline /\ Polling /\ ~GivesUp
<1>1. /\ clock <= call.sentAt + 2 * Trip /\ (call.pc = "wait1" => call.sentAt <= Start + 2 * Trip)
      /\ ~cancelled /\ 4 * Trip < Timeout
  BY DEF CleanInv, SmoothInv, TallyInv, RoundTripsFit, Trip
<1>2. call.pc = "wait0" => call.sentAt = Start
  BY DEF CadenceInv, CallTimes
<1>3. /\ clock \in Nat /\ call.sentAt \in Nat /\ call.deadline \in Nat /\ Trip \in Nat
      /\ Timeout \in Nat /\ Start = call.deadline - Timeout
  BY Types, Durations DEF Start, Trip
<1>4. call.sentAt <= Start + 2 * Trip
  BY <1>1, <1>2, <1>3 DEF Waiting
<1>5. clock < call.deadline
  BY <1>1, <1>3, <1>4
<1>6. QED
  BY <1>1, <1>5 DEF Polling, GivesUp

\* A lost or duplicated datagram: the round is not clean any more.
LEMMA DirtyKeeps ==
  ASSUME CleanInv, clean' = FALSE, QueueInv',
         UNCHANGED <<call, reports, round, cancelled, cleanRounds>>
  PROVE  CleanInv'
<1>1. TallyInv' /\ CleanRoundSucceeds' /\ RoundTripsFit'
  BY DEF CleanInv, TallyInv, CleanRoundSucceeds, Successes, RoundTripsFit
<1>2. QED
  BY <1>1 DEF CleanInv, SmoothInv

\* A step of the anchor or the network in a clean round moves its probe or reply.
LEMMA MovesOn ==
  ASSUME CleanInv, QueueInv', clean' <=> clean, clock' = clock,
         UNCHANGED <<call, reports, round, cancelled, cleanRounds>>,
         clean /\ Waiting => Asked' \/ Answered'
  PROVE  CleanInv'
<1>1. TallyInv' /\ CleanRoundSucceeds' /\ RoundTripsFit'
  BY DEF CleanInv, TallyInv, CleanRoundSucceeds, Successes, RoundTripsFit
<1>2. SmoothInv'
  BY DEF CleanInv, SmoothInv, Waiting, Start
<1>3. QED
  BY <1>1, <1>2 DEF CleanInv

\* Where nothing moves.
LEMMA StaysPut ==
  ASSUME UNCHANGED <<challengedMode, call, emitted, sent, sockbuf, inbox, inHand, net>>,
         Mine' = Mine, gen'[SelfKey] = gen[SelfKey], Asked \/ Answered
  PROVE  Asked' \/ Answered'
<1>1. /\ ProbesOut' = ProbesOut /\ AnchorIdle' = AnchorIdle /\ Awaited' = Awaited
      /\ Pending' = Pending
  BY DEF ProbesOut, AnchorIdle, Awaited, Pending
<1>2. \A p : AnswersTo(p)' = AnswersTo(p)
  BY DEF AnswersTo
<1>3. Asked' = Asked
  BY <1>1, StageUndisturbed DEF Asked, Coming, AtAnchor
<1>4. Answered' = Answered
  <2>1. AnswersTo(Awaited)' = AnswersTo(Awaited)
    BY <1>1 DEF AnswersTo
  <2>2. \A j : Returning(j)' = Returning(j) /\ Queued(j)' = Queued(j)
    BY DEF Returning, Queued
  <2>3. QED
    BY <1>1, <2>1, <2>2, StageUndisturbed DEF Answered
<1>5. QED
  BY <1>3, <1>4

\* One datagram at the anchor is pending, or none.
LEMMA OnePending ==
  ASSUME TypeOK
  PROVE  /\ Len(inbox) \in Nat /\ Len(inHand) \in Nat
         /\ inbox = << >> <=> Len(inbox) = 0
         /\ inHand = << >> <=> Len(inHand) = 0
         /\ AnchorIdle <=> Pending = {}
<1>1. inbox \in Seq(Datagrams) /\ inHand \in Seq(Datagrams)
  BY DEF TypeOK
<1>2. /\ Len(inbox) \in Nat /\ Len(inHand) \in Nat
      /\ inbox = << >> <=> Len(inbox) = 0
      /\ inHand = << >> <=> Len(inHand) = 0
      /\ DOMAIN inbox = 1 .. Len(inbox) /\ DOMAIN inHand = 1 .. Len(inHand)
  BY <1>1, EmptySeq, LenProperties
<1>3. /\ inbox = << >> <=> DOMAIN inbox = {}
      /\ inHand = << >> <=> DOMAIN inHand = {}
  BY <1>2
<1>4. QED
  BY <1>2, <1>3 DEF AnchorIdle, Pending

\* The probe or the reply of a clean round is overdue before its time is up.
LEMMA NotYet ==
  ASSUME ExchangeInv, CadenceInv, CleanInv, clean, Waiting, Prompt, ~Overdue
  PROVE  clock < call.sentAt + 2 * Trip
<1>1. /\ clock \in Nat /\ wall = clock /\ call.sentAt \in Nat /\ TypeOK
      /\ MaxDelay \in Nat /\ MaxLag \in Nat /\ Trip = MaxDelay + MaxLag
      /\ \A m \in net : m.at \in Nat
      /\ \A d \in Pending : d.rx \in Nat
  BY Types, Durations DEF Trip
<1>2. /\ \A m \in net : clock < m.at + MaxDelay
      /\ \A d \in Pending : clock < d.rx + MaxLag
  BY <1>1 DEF Overdue, Pending
<1>3. ASSUME NEW m \in net, Coming(m)
      PROVE  clock < call.sentAt + 2 * Trip
  BY <1>1, <1>2, <1>3 DEF Coming
<1>4. CASE AtAnchor
  <2>1. PICK d : d \in Pending
    BY <1>1, <1>4, OnePending DEF AtAnchor, AnchorIdle
  <2>2. d.rx <= call.sentAt + MaxDelay
    BY <1>4, <2>1 DEF AtAnchor
  <2>3. QED
    BY <1>1, <1>2, <2>1, <2>2
<1>5. ASSUME NEW j, Returning(j)
      PROVE  clock < call.sentAt + 2 * Trip
  <2>1. PICK m \in net : m.at <= call.sentAt + Trip
    BY <1>5 DEF Returning
  <2>2. QED
    BY <1>1, <1>2, <2>1
<1>6. ASSUME NEW j, Queued(j)
      PROVE  clock < call.sentAt + 2 * Trip
  <2>1. PICK q \in DOMAIN sockbuf : sockbuf[q].rx <= call.sentAt + Trip + MaxDelay
    BY <1>6 DEF Queued
  <2>2. /\ sockbuf \in Seq(Deliveries(Replies)) /\ sockbuf # << >>
        /\ \A p \in DOMAIN sockbuf : sockbuf[p].rx \in Nat
    BY <2>1, QueueTypes
  <2>3. /\ Head(sockbuf) = sockbuf[1] /\ 1 \in DOMAIN sockbuf /\ (q = 1 \/ 1 < q)
    BY <2>1, <2>2, TailElements
  <2>4. sockbuf[1].rx <= call.sentAt + Trip + MaxDelay
    BY <1>1, <2>1, <2>2, <2>3 DEF CleanInv, QueueInv
  <2>5. clock < Max2(sockbuf[1].rx, call.sentAt) + MaxLag
    BY <2>2, <2>3, InTime DEF Prompt
  <2>6. QED
    BY <1>1, <2>2, <2>3, <2>4, <2>5 DEF Max2
<1>7. QED
  BY <1>3, <1>4, <1>5, <1>6 DEF CleanInv, SmoothInv, Asked, Answered

\* Time passes.
LEMMA PassingClean ==
  ASSUME ExchangeInv, CadenceInv, CleanInv, Passing
  PROVE  CleanInv'
<1>1. /\ clock' = clock + 1 /\ clock \in Nat
      /\ UNCHANGED <<challengedMode, seq, call, sockbuf, emitted>>
      /\ UNCHANGED <<round, cancelled, reports, net, clean, cleanRounds>>
      /\ UNCHANGED <<inbox, inHand, states, sent, gen>>
  BY Types DEF Passing, SenderTick, Tick, loopVars, networkVars, ghostVars
<1>2. QueueInv'
  BY <1>1, QueueRead DEF CleanInv
<1>3. TallyInv' /\ CleanRoundSucceeds' /\ RoundTripsFit'
  BY <1>1 DEF CleanInv, TallyInv, CleanRoundSucceeds, Successes, RoundTripsFit
<1>4. SmoothInv'
  <2>1. SUFFICES ASSUME clean, Waiting
                 PROVE  /\ clock + 1 <= call.sentAt + 2 * Trip
                        /\ call.pc = "wait1" => call.sentAt <= Start + 2 * Trip
                        /\ Asked' \/ Answered'
    BY <1>1 DEF SmoothInv, Waiting, Start
  <2>2. clock < call.sentAt + 2 * Trip
    BY <2>1, NotYet DEF Passing
  <2>3. clock + 1 <= call.sentAt + 2 * Trip
    BY <1>1, <2>2, Types, Durations DEF Trip
  <2>4. Mine' = Mine /\ (Asked \/ Answered)
    BY <1>1, <2>1 DEF Mine, CleanInv, SmoothInv
  <2>5. Asked' \/ Answered'
    BY <1>1, <2>4, StaysPut DEF Mine
  <2>6. QED
    BY <2>1, <2>3, <2>5 DEF CleanInv, SmoothInv
<1>5. QED
  BY <1>1, <1>2, <1>3, <1>4 DEF CleanInv

\* The probe of a clean round reaches the anchor.
LEMMA ProbeClean ==
  ASSUME ExchangeInv, CadenceInv, CleanInv, NEW m \in net, m.kind = "probe",
         clock >= m.at + MinDelay, UNCHANGED attesterVars,
         Arrive(ProbePacketSize, emitted[m.index], AttesterIP), net' = net \ {m},
         clean, Waiting
  PROVE  Asked'
<1>1. /\ UNCHANGED <<challengedMode, clock, call, emitted, states, sent, gen>>
      /\ clock \in Nat /\ wall = clock /\ TypeOK /\ inHand' = inHand
  BY Types DEF attesterVars, senderVars, Arrive, ghostVars
<1>2. Coming(m) /\ Asked
  <2>1. m \in ProbesOut
    BY DEF ProbesOut
  <2>2. ~AtAnchor /\ ~Answered
    BY <2>1 DEF AtAnchor, Answered
  <2>3. PICK k \in net : Coming(k)
    BY <2>2 DEF CleanInv, SmoothInv, Asked
  <2>4. QED
    BY <2>1, <2>2, <2>3 DEF Coming, CleanInv, SmoothInv
<1>3. clock <= m.at + MaxDelay
  BY DEF CadenceInv, DueInv
<1>4. Pending = {} /\ Len(inbox) = 0 /\ Len(inHand) = 0
  BY <1>1, <1>2, OnePending DEF Coming, AnchorIdle
<1>5. Len(inbox') = 1
  BY <1>1, <1>4 DEF Arrive, TypeOK
<1>6. \A d \in Pending' : d.probe = Awaited /\ d.rx <= call.sentAt + MaxDelay
  BY <1>1, <1>2, <1>3, <1>4, PendingArrive DEF Coming
<1>7. ProbesOut' = {}
  BY <1>2 DEF Coming, ProbesOut
<1>8. AtAnchor'
  BY <1>1, <1>4, <1>5, <1>6, <1>7 DEF AtAnchor, Awaited
<1>9. Untouched' = Untouched /\ Opened' = Opened
  BY <1>1, StageUndisturbed DEF Mine
<1>10. QED
  BY <1>1, <1>2, <1>8, <1>9 DEF Asked

\* A reply, of a clean round or of an earlier one, reaches the attester.
LEMMA ReplyClean ==
  ASSUME ExchangeInv, CadenceInv, CleanInv, NEW m \in net, m.kind = "reply",
         Deliver(sent[m.index].reply, "reply"), UNCHANGED <<loopVars, vars>>,
         net' = net \ {m}
  PROVE  QueueInv' /\ (clean /\ Waiting => Asked' \/ Answered')
<1>1. /\ UNCHANGED <<challengedMode, clock, call, emitted, states, sent, gen>>
      /\ UNCHANGED <<inbox, inHand>>
      /\ clock \in Nat /\ call.sentAt \in Nat /\ m.at \in Nat
  BY Types DEF Deliver, vars
<1>2. sent[m.index].reply \in Replies /\ clock <= m.at + MaxDelay
  <2>1. m.index \in DOMAIN sent /\ TypeInv
    BY Types DEF NetworkInv, FlightInv, Flies
  <2>2. QED
    BY <2>1, LogType DEF CadenceInv, DueInv
<1>3. /\ QueueInv'
      /\ \A q \in DOMAIN sockbuf : q \in DOMAIN sockbuf' /\ sockbuf'[q] = sockbuf[q]
      /\ \E q \in DOMAIN sockbuf' :
            sockbuf'[q].reply = sent[m.index].reply /\ sockbuf'[q].rx = clock
  BY <1>2, QueueArrives DEF CleanInv
<1>4. /\ ProbesOut' = ProbesOut /\ Pending' = Pending /\ AnchorIdle' = AnchorIdle
      /\ Awaited' = Awaited
      /\ Untouched' = Untouched /\ Opened' = Opened
  BY <1>1, StageUndisturbed DEF Mine, ProbesOut, Pending, AnchorIdle, Awaited
<1>5. ASSUME Asked PROVE Asked'
  <2>1. ASSUME NEW k \in net, Coming(k)
        PROVE  k \in net' /\ Coming(k)'
    <3>1. k \in ProbesOut
      BY <2>1 DEF Coming
    <3>2. k \in net'
      BY <3>1 DEF ProbesOut
    <3>3. QED
      BY <1>1, <1>4, <2>1, <3>2 DEF Coming
  <2>2. AtAnchor => AtAnchor'
    BY <1>1, <1>4 DEF AtAnchor
  <2>3. QED
    BY <1>1, <1>4, <1>5, <2>1, <2>2 DEF Asked
<1>6. ASSUME Answered PROVE Answered'
  <2>1. PICK j \in AnswersTo(Awaited) : Returning(j) \/ Queued(j)
    BY <1>6 DEF Answered
  <2>2. j \in AnswersTo(Awaited)'
    BY <1>1, <1>4, <2>1 DEF AnswersTo
  <2>3. Queued(j) => Queued(j)'
    BY <1>1, <1>3 DEF Queued
  <2>4. ASSUME Returning(j) PROVE Returning(j)' \/ Queued(j)'
    <3>1. PICK k \in net : k.kind = "reply" /\ k.index = j /\ k.at <= call.sentAt + Trip
      BY <2>4 DEF Returning
    <3>2. CASE k = m
      <4>1. clock <= call.sentAt + Trip + MaxDelay
        BY <1>1, <1>2, <3>1, <3>2, Durations DEF Trip
      <4>2. QED
        BY <1>1, <1>3, <3>1, <3>2, <4>1 DEF Queued
    <3>3. CASE k # m
      BY <1>1, <3>1, <3>3 DEF Returning
    <3>4. QED
      BY <3>2, <3>3
  <2>5. QED
    BY <1>1, <1>4, <1>6, <2>1, <2>2, <2>3, <2>4 DEF Answered
<1>7. QED
  BY <1>3, <1>5, <1>6 DEF CleanInv, SmoothInv

\* A datagram arrives, and nothing stays of it in the network.
LEMMA DeliveryClean ==
  ASSUME ExchangeInv, CadenceInv, CleanInv, Delivery
  PROVE  CleanInv'
<1>1. PICK m \in net : Arrives(m) /\ net' = net \ {m}
                       /\ UNCHANGED <<losses, dups, clean, cleanRounds>>
  BY DEF Delivery
<1>2. CASE m.kind = "probe"
  <2>1. /\ clock >= m.at + MinDelay /\ UNCHANGED attesterVars
        /\ Arrive(ProbePacketSize, emitted[m.index], AttesterIP)
    BY <1>1, <1>2 DEF Arrives
  <2>2. UNCHANGED <<clock, sockbuf, call, reports, round, cancelled>>
    BY <2>1 DEF attesterVars, senderVars, loopVars
  <2>3. QueueInv'
    BY <2>2 DEF CleanInv, QueueInv
  <2>4. QED
    BY <1>1, <1>2, <2>1, <2>2, <2>3, ProbeClean, MovesOn
<1>3. CASE m.kind # "probe"
  <2>1. /\ m.kind = "reply" /\ Deliver(sent[m.index].reply, "reply")
        /\ UNCHANGED <<loopVars, vars>>
    BY <1>1, <1>3 DEF Arrives
  <2>2. UNCHANGED <<clock, call, reports, round, cancelled>>
    BY <2>1 DEF Deliver, loopVars
  <2>3. QED
    BY <1>1, <2>1, <2>2, ReplyClean, MovesOn
<1>4. QED
  BY <1>2, <1>3

\* A copy arrives, or a datagram is lost.
LEMMA FaultClean ==
  ASSUME ExchangeInv, CadenceInv, CleanInv, Duplication \/ Loss
  PROVE  CleanInv'
<1>1. CASE Loss
  <2>1. clean' = FALSE /\ UNCHANGED <<clock, sockbuf, call, reports, round, cancelled, cleanRounds>>
    BY <1>1 DEF Loss, attesterVars, senderVars, loopVars
  <2>2. QueueInv'
    BY <2>1 DEF CleanInv, QueueInv
  <2>3. QED
    BY <2>1, <2>2, DirtyKeeps
<1>2. CASE Duplication
  <2>1. PICK m \in net : Arrives(m) /\ clean' = FALSE /\ UNCHANGED <<net, losses, cleanRounds>>
    BY <1>2, Zenon DEF Duplication
  <2>2. UNCHANGED <<clock, call, reports, round, cancelled>>
    BY <2>1 DEF Arrives, Deliver, attesterVars, senderVars, loopVars
  <2>3. QueueInv'
    <3>1. CASE m.kind = "probe"
      BY <2>1, <3>1 DEF Arrives, attesterVars, senderVars, CleanInv, QueueInv
    <3>2. CASE m.kind # "probe"
      <4>1. m.kind = "reply" /\ Deliver(sent[m.index].reply, "reply")
        BY <2>1, <3>2 DEF Arrives
      <4>2. m.index \in DOMAIN sent /\ TypeInv
        BY <4>1, Types DEF NetworkInv, FlightInv, Flies
      <4>3. QED
        BY <4>1, <4>2, LogType, QueueArrives DEF CleanInv
    <3>3. QED
      BY <3>1, <3>2
  <2>4. QED
    BY <2>1, <2>2, <2>3, DirtyKeeps
<1>3. QED
  BY <1>1, <1>2

----------------------------------------------------------------------------
(* Clean rounds: the anchor. *)

\* When the anchor has something to do, it is the awaited probe.
LEMMA AnchorBusy ==
  ASSUME ExchangeInv, CleanInv, clean, Waiting, inbox # << >> \/ inHand # << >>
  PROVE  Asked /\ AtAnchor
  BY DEF CleanInv, SmoothInv, Asked, Answered, Coming, AnchorIdle

\* It reads the probe and finds it authorized.
LEMMA ReceiveClean ==
  ASSUME ExchangeInv, CadenceInv, CleanInv, Receive, UNCHANGED attesterVars, net' = net,
         clean, Waiting
  PROVE  Asked'
<1>1. /\ UNCHANGED <<challengedMode, clock, call, emitted, states, sent, gen>> /\ TypeOK
      /\ inHand = << >> /\ inbox # << >> /\ inbox' = Tail(inbox)
  BY Types, ReceiveFrame DEF attesterVars, senderVars
<1>2. Asked /\ AtAnchor
  BY <1>1, AnchorBusy
<1>3. Len(inbox) = 1 /\ inbox \in Seq(Datagrams)
  BY <1>1, <1>2, OnePending DEF AtAnchor, TypeOK
<1>4. Head(inbox) = inbox[1] /\ 1 \in DOMAIN inbox /\ Len(inbox') = 0
  BY <1>1, <1>3, TailElements
<1>5. Head(inbox) \in Pending
  BY <1>4 DEF Pending
<1>6. Head(inbox).size = ProbePacketSize /\ Head(inbox).probe.key \in authorizedKeys
  <2>1. Head(inbox).size = ProbePacketSize /\ Known(emitted, Head(inbox).probe)
    BY <1>5 DEF CadenceInv, KnownInv
  <2>2. \A p \in DOMAIN emitted : emitted[p] \in OwnProbes
    BY Types, ElementOfSeq, LenProperties
  <2>3. QED
    BY <2>1, <2>2 DEF Known, OwnProbes, CadenceInv, KeptInv
<1>7. inHand' = <<Head(inbox)>>
  BY <1>6 DEF Receive, DropMalformed, DropUnauthorized, Authorize, IsAuthorized
<1>8. Len(inbox') + Len(inHand') = 1
  BY <1>4, <1>7
<1>9. Pending' \subseteq Pending /\ ProbesOut' = ProbesOut
  BY <1>1, PendingReceive DEF ProbesOut
<1>10. AtAnchor'
  BY <1>1, <1>2, <1>8, <1>9 DEF AtAnchor, Awaited
<1>11. Untouched' = Untouched /\ Opened' = Opened
  BY <1>1, StageUndisturbed DEF Mine
<1>12. QED
  BY <1>1, <1>2, <1>10, <1>11 DEF Asked

\* The probe awaited in a clean round is not dropped: probe 0 finds no pair that
\* matters, probe 1 the pair its probe 0 has opened.
LEMMA NotDropped ==
  ASSUME ExchangeInv, CadenceInv, Waiting, Untouched \/ Opened,
         NEW d \in {inHand[i] : i \in DOMAIN inHand}
  PROVE  ~DropRateLimited(d) /\ ~DropOtherSource(d)
<1>1. /\ d.probe.key = SelfKey /\ d.from = AttesterIP /\ d.rx \in Nat
      /\ Start + MinDelay <= d.rx /\ Mine = states[d.probe.key]
  BY OwnInHand DEF OwnArrival, Mine
<1>2. /\ Mine \in States /\ Mine.pairCount \in Nat /\ Mine.lastTx \in Int
      /\ Mine.pairStart \in Int /\ Start \in Int
      /\ StaleTimeout \in Nat /\ VerifyInterval \in Nat /\ MinDelay \in Nat
      /\ VerifyInterval > 0
  BY Types, Durations DEF States, ZeroTime, CadenceInv, Deployed, DefaultCadence
<1>3. ~RateLimited(Mine, d.rx)
  <2>1. Untouched /\ Mine.pairCount # 0 => Mine.pairStart + VerifyInterval <= d.rx
    BY <1>1, <1>2 DEF Untouched, Lapsed
  <2>2. QED
    BY <1>1, <1>2, <2>1 DEF RateLimited, Opened
<1>4. ~OtherSource(AfterResets(Mine, d.rx), d.from)
  <2>1. CASE Opened
    <3>1. d.rx - Mine.lastTx <= StaleTimeout
      BY <2>1, PairLasts
    <3>2. ~WindowOver(Mine) /\ ~StalePair(Mine, d.rx)
      BY <1>1, <1>2, <2>1, <3>1 DEF WindowOver, StalePair, Opened
    <3>3. QED
      BY <1>1, <2>1, <3>2 DEF AfterResets, OtherSource, Opened
  <2>2. CASE Untouched
    <3>1. Mine.pairCount # 0 => WindowOver(Mine) \/ StalePair(Mine, d.rx)
      BY <1>1, <1>2, <2>2 DEF Untouched, Lapsed, WindowOver, StalePair, ZeroTime
    <3>2. AfterResets(Mine, d.rx).pairCount = 0
      BY <1>2, <3>1 DEF AfterResets, States
    <3>3. QED
      BY <3>2 DEF OtherSource
  <2>3. QED
    BY <2>1, <2>2
<1>5. QED
  BY <1>1, <1>3, <1>4 DEF DropRateLimited, DropOtherSource

\* It answers the probe.
LEMMA HandleClean ==
  ASSUME ExchangeInv, CadenceInv, CleanInv, Handle, UNCHANGED attesterVars, Carry,
         clean, Waiting
  PROVE  Answered'
<1>1. PICK d \in {inHand[i] : i \in DOMAIN inHand} :
         \/ DropRateLimited(d) \/ DropOtherSource(d)
         \/ \E nonce \in randomNonce : AnswerProbe0(d, nonce)
         \/ AnswerProbe1(d)
  BY DEF Handle
<1>2. /\ UNCHANGED <<challengedMode, clock, call, emitted, sockbuf>> /\ TypeOK /\ TypeOK'
      /\ inHand' = << >> /\ UNCHANGED <<inbox, gen>> /\ clock \in Nat /\ wall = clock
  <2>1. TypeInv'
    BY Types, TypeStep DEF Next
  <2>2. QED
    BY <2>1, Types, HandleFrame DEF attesterVars, senderVars, TypeInv
<1>3. inHand # << >> /\ d \in Pending /\ d.rx \in Nat /\ clock <= d.rx + MaxLag
  BY <1>2, OwnInHand
<1>4. Asked /\ AtAnchor
  BY <1>3, AnchorBusy
<1>5. /\ Len(inbox) = 0 /\ AnchorIdle'
      /\ d.probe = Awaited /\ d.rx <= call.sentAt + MaxDelay /\ ProbesOut = {}
  BY <1>2, <1>3, <1>4, OnePending DEF AtAnchor, AnchorIdle
<1>6. clock <= call.sentAt + Trip
  <2>1. call.sentAt \in Nat
    BY Types
  <2>2. QED
    BY <1>2, <1>3, <1>5, <2>1, Durations DEF Trip
<1>7. Untouched \/ Opened
  BY <1>4 DEF Asked, Waiting
<1>8. (\E n : Responds(d, n)) /\ (call.pc = "wait0" => Opened')
  <2>1. ASSUME NEW nonce \in randomNonce, AnswerProbe0(d, nonce)
        PROVE  (\E n : Responds(d, n)) /\ Opened'
    BY <2>1, Answer0Cadence
  <2>2. ASSUME AnswerProbe1(d)
        PROVE  (\E n : Responds(d, n)) /\ call.pc # "wait0"
    <3>1. \E n : Responds(d, n)
      BY <2>2, Answer1Cadence
    <3>2. ~Untouched
      <4>1. /\ Mine.pairCount = 1 /\ Mine \in States
            /\ Mine.lastTx # ZeroTime => d.rx - Mine.lastTx <= StaleTimeout
        BY <2>2, Types, OwnInHand, AnswerGuards DEF CadenceInv, Mine
      <4>2. Start + MinDelay <= d.rx /\ Start \in Int
        BY OwnInHand, Types DEF OwnArrival
      <4>3. QED
        BY <1>3, <4>1, <4>2, Durations DEF Untouched, Lapsed, ZeroTime
    <3>3. QED
      BY <1>4, <3>1, <3>2 DEF Asked
  <2>3. QED
    BY <1>1, <1>7, <2>1, <2>2, NotDropped
<1>9. PICK n : Responds(d, n)
  BY <1>8
<1>10. /\ DOMAIN emitted' \ DOMAIN emitted = {} /\ DOMAIN sent' \ DOMAIN sent = {n}
       /\ sent'[n].reply.probe = Awaited
  BY <1>2, <1>5, <1>9 DEF Responds, NewReplyTo
<1>11. InFlight("reply", n) \in net' /\ net' = net \cup {InFlight("reply", n)}
  BY <1>10 DEF Carry
<1>12. Returning(n)'
  BY <1>2, <1>6, <1>11 DEF Returning, InFlight
<1>13. ProbesOut' = {}
  BY <1>5, <1>11 DEF ProbesOut, InFlight
<1>14. n \in AnswersTo(Awaited)'
  BY <1>2, <1>9, <1>10 DEF AnswersTo, Responds, Awaited
<1>15. QED
  BY <1>2, <1>5, <1>8, <1>12, <1>13, <1>14 DEF Answered

\* Every step of the anchor.
LEMMA AnchorClean ==
  ASSUME ExchangeInv, CadenceInv, CleanInv, AnchorMoves
  PROVE  CleanInv'
<1>1. UNCHANGED attesterVars /\ Carry /\ UNCHANGED <<losses, dups, clean, cleanRounds>>
  BY DEF AnchorMoves
<1>2. /\ UNCHANGED <<challengedMode, clock, call, sockbuf, emitted, round, cancelled, reports>>
  BY <1>1 DEF attesterVars, senderVars, loopVars
<1>3. QueueInv'
  BY <1>2 DEF CleanInv, QueueInv
<1>4. sent' = sent => net' = net
  BY <1>2, <1>1 DEF Carry
<1>5. ASSUME clean, Waiting PROVE Asked' \/ Answered'
  <2>1. Asked \/ Answered
    BY <1>5 DEF CleanInv, SmoothInv
  <2>2. CASE Receive
    BY <1>1, <1>4, <1>5, <2>2, ReceiveFrame, ReceiveClean
  <2>3. CASE Handle
    BY <1>1, <1>5, <2>3, HandleClean
  <2>4. CASE Reload
    <3>1. UNCHANGED <<inbox, inHand, sent>>
      BY <2>4, ReloadFrame
    <3>2. Mine' = Mine /\ gen'[SelfKey] = gen[SelfKey]
      BY <2>4, Types, ReloadKeeps
    <3>3. QED
      BY <1>2, <1>4, <2>1, <3>1, <3>2, StaysPut
  <2>5. CASE \E v \in OffsetVectors : SetOffsets(v)
    <3>1. UNCHANGED <<inbox, inHand, sent, states, gen>>
      BY <2>5 DEF SetOffsets, ghostVars
    <3>2. QED
      BY <1>2, <1>4, <2>1, <3>1, StaysPut DEF Mine
  <2>6. QED
    BY <2>2, <2>3, <2>4, <2>5 DEF AnchorMoves
<1>6. QED
  BY <1>1, <1>2, <1>3, <1>5, MovesOn

----------------------------------------------------------------------------
(* Clean rounds: the attester. *)

\* What a step of the attester leaves of the invariant.
LEMMA AttesterLeaves ==
  ASSUME ExchangeInv, CleanInv, Apart, cancelled' = cancelled,
         sockbuf' = sockbuf \/ (sockbuf # << >> /\ sockbuf' = Tail(sockbuf))
  PROVE  /\ QueueInv' /\ RoundTripsFit' /\ ~cancelled'
         /\ reports' = reports => Successes' = Successes
<1>1. QueueInv'
  BY Types, QueueRead DEF Apart, CleanInv
<1>2. QED
  BY <1>1 DEF CleanInv, TallyInv, RoundTripsFit, Successes

\* Probe 0 of a new round is alone, and finds the anchor idle.
LEMMA BeginsClean ==
  ASSUME ExchangeInv, CadenceInv, CleanInv, Apart, Begins, cancelled' = cancelled,
         cleanRounds' = cleanRounds
  PROVE  CleanInv'
<1>1. /\ call.pc = "idle" /\ clock >= nextAt /\ call'.pc = "wait0" /\ call'.p0 \in OwnProbes
      /\ emitted' = Append(emitted, call'.p0) /\ call'.sentAt = clock
      /\ call'.p0.seq = NextSeq(seq) /\ call'.deadline = clock + Timeout
      /\ round' = round + 1 /\ clock \in Nat /\ round \in Nat /\ seq \in Nat
      /\ UNCHANGED <<sockbuf, reports, clock, sent, inbox, inHand>>
  BY Types DEF Begins, Apart
<1>2. QueueInv' /\ RoundTripsFit' /\ ~cancelled' /\ Successes' = Successes
  BY <1>1, AttesterLeaves
<1>3. TallyInv'
  BY <1>1, <1>2 DEF CleanInv, TallyInv
<1>4. PICK n : n = Len(emitted) + 1
  OBVIOUS
<1>5. PICK f : f = InFlight("probe", n)
  OBVIOUS
<1>6. /\ emitted'[n] = call'.p0 /\ net' = net \cup {f}
       /\ f.kind = "probe" /\ f.index = n /\ f.at = clock
  BY <1>1, <1>4, <1>5, Emission DEF InFlight
<1>7. /\ \A m \in net : m.kind # "probe"
      /\ Pending = {} /\ Lapsed(Mine, clock + MinDelay)
  BY <1>1, NothingLeft
<1>8. f \in net' /\ Coming(f)'
  <2>1. ProbesOut' = {f} /\ f \in net'
    BY <1>6, <1>7 DEF ProbesOut
  <2>2. AnchorIdle
    BY <1>7, Types, OnePending
  <2>3. AnchorIdle'
    BY <1>1, <2>2 DEF AnchorIdle
  <2>4. QED
    BY <1>1, <1>6, <2>1, <2>3 DEF Coming, Awaited
<1>9. Untouched'
  BY <1>1, BeginsUntouched
<1>10. SmoothInv'
  <2>1. Asked'
    BY <1>1, <1>8, <1>9 DEF Asked
  <2>2. clock <= clock + 2 * Trip
    BY <1>1, Durations DEF Trip
  <2>3. QED
    BY <1>1, <2>1, <2>2 DEF SmoothInv
<1>11. QED
  BY <1>1, <1>2, <1>3, <1>10 DEF CleanInv, CleanRoundSucceeds

\* Reply 0 of a clean round fires probe 1.
LEMMA FiresClean ==
  ASSUME ExchangeInv, CadenceInv, CleanInv, Apart, Fires, cancelled' = cancelled,
         cleanRounds' = cleanRounds, clean' <=> clean
  PROVE  CleanInv'
<1>1. /\ call.pc = "wait0" /\ sockbuf # << >> /\ sockbuf' = Tail(sockbuf) /\ Waiting
      /\ call'.pc = "wait1" /\ call'.p0 = call.p0 /\ call'.deadline = call.deadline
      /\ call'.sentAt = clock /\ call'.p1 \in OwnProbes /\ emitted' = Append(emitted, call'.p1)
      /\ clock \in Nat
      /\ UNCHANGED <<round, reports, clock, sent, inbox, inHand>>
  BY Types DEF Fires, Apart, Waiting
<1>2. QueueInv' /\ RoundTripsFit' /\ ~cancelled' /\ Successes' = Successes
  BY <1>1, AttesterLeaves
<1>3. TallyInv'
  BY <1>1, <1>2 DEF CleanInv, TallyInv
<1>4. PICK n : n = Len(emitted) + 1
  OBVIOUS
<1>5. PICK f : f = InFlight("probe", n)
  OBVIOUS
<1>6. /\ emitted'[n] = call'.p1 /\ net' = net \cup {f}
       /\ f.kind = "probe" /\ f.index = n /\ f.at = clock
  BY <1>1, <1>4, <1>5, Emission DEF InFlight
<1>7. ASSUME clean
      PROVE  /\ clock <= clock + 2 * Trip /\ clock <= Start' + 2 * Trip /\ Asked'
  <2>1. ~Untouched /\ AnswersTo(call.p1)' = {}
    BY FiresNew DEF Untouched
  <2>2. Answered /\ ProbesOut = {} /\ AnchorIdle /\ Opened
    BY <1>1, <1>7, <2>1 DEF CleanInv, SmoothInv, Asked, Answered
  <2>3. clock <= call.sentAt + 2 * Trip /\ call.sentAt = Start /\ Start' = Start
    BY <1>1, <1>7 DEF CleanInv, SmoothInv, CadenceInv, CallTimes, Start
  <2>4. Opened'
    BY <2>1, <2>2, FiresOpened
  <2>5. ProbesOut' = {f} /\ f \in net' /\ AnchorIdle'
    BY <1>1, <1>6, <2>2 DEF ProbesOut, AnchorIdle
  <2>6. Coming(f)'
    BY <1>1, <1>6, <2>5 DEF Coming, Awaited
  <2>7. Asked'
    BY <1>1, <2>4, <2>5, <2>6 DEF Asked
  <2>8. QED
    BY <1>1, <2>3, <2>7, Durations DEF Trip
<1>8. SmoothInv'
  BY <1>1, <1>7 DEF SmoothInv
<1>9. QED
  BY <1>1, <1>2, <1>3, <1>8 DEF CleanInv, CleanRoundSucceeds

\* Reply 1 completes the call.
LEMMA WinsClean ==
  ASSUME ExchangeInv, CleanInv, Apart, Wins, cancelled' = cancelled,
         cleanRounds' = cleanRounds
  PROVE  CleanInv'
<1>1. /\ call.pc = "wait1" /\ call'.pc = "done" /\ call'.err = "none"
      /\ sockbuf # << >> /\ sockbuf' = Tail(sockbuf) /\ UNCHANGED <<round, reports>>
  BY DEF Wins
<1>2. QueueInv' /\ RoundTripsFit' /\ ~cancelled' /\ Successes' = Successes
  BY <1>1, AttesterLeaves
<1>3. QED
  BY <1>1, <1>2 DEF CleanInv, TallyInv, SmoothInv, CleanRoundSucceeds, Waiting

\* The reply to an awaited probe is recognised.
LEMMA Recognised ==
  ASSUME ExchangeInv, CadenceInv, CleanInv, Waiting, sockbuf # << >>
  PROVE  /\ WellFormed(Head(sockbuf))
         /\ \A p : Known(emitted, p) /\ Head(sockbuf).reply.probe.seq = p.seq
                     => Matches(Head(sockbuf).reply, p)
         /\ Verified(Head(sockbuf).reply)
<1>1. Head(sockbuf) = sockbuf[1] /\ 1 \in DOMAIN sockbuf
  BY QueueTypes, TailElements
<1>2. Head(sockbuf).reply \in Replies /\ WellFormed(Head(sockbuf))
  BY <1>1, QueueTypes DEF CleanInv, QueueInv, WellFormed
<1>3. \A p : Known(emitted, p) /\ Head(sockbuf).reply.probe.seq = p.seq
               => Matches(Head(sockbuf).reply, p)
  BY HeadAnswers DEF AnswersTo, Matches
<1>4. Verified(Head(sockbuf).reply)
  <2>1. PICK i \in DOMAIN sent : Head(sockbuf).reply = sent[i].reply
    BY Types, HeadDelivered DEF NetworkInv, Delivered
  <2>2. Known(emitted, Head(sockbuf).reply.probe)
    BY <2>1 DEF CadenceInv, KnownInv
  <2>3. \A p \in DOMAIN emitted : emitted[p] \in OwnProbes
    BY Types, ElementOfSeq, LenProperties
  <2>4. ProbeVerify(Head(sockbuf).reply.probe)
    BY <2>2, <2>3 DEF Known, OwnProbes, ProbeVerify
  <2>5. RemoteKey = AnchorKey
    BY DEF CadenceInv, Deployed, DefaultSetting
  <2>6. QED
    BY <1>2, <2>4, <2>5 DEF Verified, ReplyVerify, Replies
<1>5. QED
  BY <1>2, <1>3, <1>4

\* An error ends a round that was not clean: time was up.
LEMMA FailsClean ==
  ASSUME ExchangeInv, CadenceInv, CleanInv, Apart, Fails, cancelled' = cancelled,
         clean' = (clean \/ round' # round), cleanRounds' = cleanRounds
  PROVE  CleanInv'
<1>1. GivesUp
  <2>1. ~SendMayFail
    BY DEF CleanInv, RoundTripsFit
  <2>2. ~Mismatches
    <3>1. call.pc = "wait0" => Known(emitted, call.p0)
      BY OwnKnown DEF Waiting
    <3>2. QED
      BY <3>1, Recognised DEF Mismatches, Waiting
  <2>3. QED
    BY <2>1, <2>2 DEF Fails, FailsToSend
<1>2. Waiting /\ UNCHANGED <<sockbuf, round, reports>> /\ call'.pc = "done"
  BY <1>1 DEF GivesUp, Fails
<1>3. ~clean
  BY <1>1, <1>2, InTime
<1>4. QueueInv' /\ RoundTripsFit' /\ ~cancelled' /\ Successes' = Successes
  BY <1>2, AttesterLeaves
<1>5. ~clean'
  BY <1>2, <1>3
<1>6. QED
  BY <1>2, <1>4, <1>5 DEF CleanInv, TallyInv, SmoothInv, CleanRoundSucceeds, Waiting

\* A clean round that is reported has succeeded.
LEMMA ReportsClean ==
  ASSUME ExchangeInv, CleanInv, Apart, Reports, cancelled' = cancelled, clean' <=> clean,
         cleanRounds' = IF Len(reports') > Len(reports) /\ clean
                        THEN cleanRounds \cup {round} ELSE cleanRounds
  PROVE  CleanInv'
<1> DEFINE k == Len(reports)
           entry == IF call.err = "none" THEN observe(call) ELSE failure(call)
<1>1. /\ call.pc = "done" /\ call'.pc = "idle" /\ reports' = Append(reports, entry)
      /\ UNCHANGED <<sockbuf, round>> /\ round \in Nat
  BY Types DEF Reports
<1>2. QueueInv' /\ RoundTripsFit' /\ ~cancelled'
  BY <1>1, AttesterLeaves
<1>3. entry \in Observations(Replies) \cup Failures
  BY <1>1, AnchorRepliesOK, Types, ReportType
<1>4. call.err = "none" => entry.err = "none"
  BY DEF observe
<1> HIDE DEF entry
<1>5. /\ k \in Nat /\ DOMAIN reports = 1 .. k /\ DOMAIN reports' = 1 .. k + 1
      /\ Len(reports') = k + 1
      /\ \A i \in 1 .. k : reports'[i] = reports[i]
      /\ reports'[k + 1] = entry
  BY <1>1, <1>3, QueueTypes, LogAppend
<1>6. k + 1 = round
  BY <1>1, <1>5 DEF CleanInv, TallyInv
<1> HIDE DEF k
<1>7. TallyInv'
  BY <1>1, <1>2, <1>5, <1>6 DEF TallyInv
<1>8. Successes \subseteq Successes'
  BY <1>5 DEF Successes
<1>9. clean => round \in Successes'
  <2>1. clean => call.err = "none"
    BY <1>1 DEF CleanInv
  <2>2. round \in DOMAIN reports'
    BY <1>1, <1>5, <1>6
  <2>3. QED
    BY <1>4, <1>5, <1>6, <2>1, <2>2 DEF Successes
<1>10. CleanRoundSucceeds'
  BY <1>8, <1>9 DEF CleanInv, CleanRoundSucceeds
<1>11. QED
  BY <1>1, <1>2, <1>7, <1>10 DEF CleanInv, SmoothInv, Waiting

\* What the attester forgets is not what it waits for.
LEMMA ForgetsClean ==
  ASSUME ExchangeInv, CadenceInv, CleanInv, Apart, Forgets, cancelled' = cancelled,
         clean' <=> clean, cleanRounds' = cleanRounds
  PROVE  CleanInv'
<1>1. /\ UNCHANGED <<challengedMode, clock, call, emitted, round, reports>>
      /\ UNCHANGED <<sent, inbox, inHand, gen>>
      /\ sockbuf' = sockbuf \/ (sockbuf # << >> /\ sockbuf' = Tail(sockbuf))
  BY DEF Forgets, Skips, Apart
<1>2. net' = net /\ Mine' = Mine /\ QueueInv'
  BY <1>1, Emission, ApartFacts, AttesterLeaves
<1>3. ASSUME clean, Waiting PROVE Asked' \/ Answered'
  <2>1. CASE sockbuf' = sockbuf
    BY <1>1, <1>2, <1>3, <2>1, StaysPut DEF CleanInv, SmoothInv
  <2>2. CASE sockbuf' # sockbuf
    <3>1. /\ sockbuf # << >> /\ sockbuf' = Tail(sockbuf)
          /\ \/ call.pc = "wait0" /\ Ignored0(Head(sockbuf))
             \/ call.pc = "wait1" /\ Ignored1(Head(sockbuf))
      BY <2>2 DEF Forgets, Skips
    <3>2. Head(sockbuf).reply.probe # Awaited
      <4>1. Known(emitted, Awaited)
        BY <1>3, OwnKnown DEF Awaited, Waiting
      <4>2. ASSUME Head(sockbuf).reply.probe = Awaited PROVE FALSE
        <5>1. /\ WellFormed(Head(sockbuf)) /\ Verified(Head(sockbuf).reply)
              /\ Matches(Head(sockbuf).reply, Awaited)
          BY <1>3, <3>1, <4>1, <4>2, Recognised
        <5>2. QED
          BY <3>1, <4>2, <5>1 DEF Ignored0, Ignored1, Awaited, ReplySized, WellFormed
      <4>3. QED
        BY <4>2
    <3>3. /\ ProbesOut' = ProbesOut /\ AnchorIdle' = AnchorIdle /\ Awaited' = Awaited
          /\ Pending' = Pending /\ Untouched' = Untouched /\ Opened' = Opened
          /\ AnswersTo(Awaited)' = AnswersTo(Awaited)
      BY <1>1, <1>2, StageUndisturbed
         DEF ProbesOut, AnchorIdle, Awaited, Pending, AnswersTo
    <3>4. Asked => Asked'
      BY <1>1, <1>2, <3>3 DEF Asked, Coming, AtAnchor
    <3>5. ASSUME NEW j \in AnswersTo(Awaited), Queued(j)
          PROVE  Queued(j)'
      <4>1. PICK q \in DOMAIN sockbuf : /\ sockbuf[q].reply = sent[j].reply
                                        /\ sockbuf[q].rx <= call.sentAt + Trip + MaxDelay
        BY <3>5 DEF Queued
      <4>2. Head(sockbuf) = sockbuf[1] /\ sockbuf \in Seq(Deliveries(Replies))
        BY <3>1, QueueTypes, TailElements
      <4>3. q # 1
        BY <3>2, <3>5, <4>1, <4>2 DEF AnswersTo
      <4>4. q - 1 \in DOMAIN sockbuf' /\ sockbuf'[q - 1] = sockbuf[q]
        BY <3>1, <4>1, <4>2, <4>3, TailElements
      <4>5. QED
        BY <1>1, <4>1, <4>4 DEF Queued
    <3>6. \A j : Returning(j) => Returning(j)'
      BY <1>1, <1>2 DEF Returning
    <3>7. Answered => Answered'
      BY <1>1, <3>3, <3>5, <3>6 DEF Answered
    <3>8. QED
      BY <1>3, <3>4, <3>7 DEF CleanInv, SmoothInv
  <2>3. QED
    BY <2>1, <2>2
<1>4. QED
  BY <1>1, <1>2, <1>3, MovesOn

\* Every step of the attester.
LEMMA AttesterClean ==
  ASSUME ExchangeInv, CadenceInv, CleanInv, AttesterMoves
  PROVE  CleanInv'
<1>1. /\ AttesterStep /\ UNCHANGED vars /\ Carry /\ AttesterInv(Replies)
      /\ clean' = (clean \/ round' # round)
      /\ cleanRounds' = IF Len(reports') > Len(reports) /\ clean
                        THEN cleanRounds \cup {round} ELSE cleanRounds
  BY Types DEF AttesterMoves
<1>2. /\ UNCHANGED <<clock, challengedMode, cancelled>>
      /\ Begins \/ Fires \/ Wins \/ Fails \/ Reports \/ Forgets
  BY <1>1, AttesterKinds
<1>3. Apart
  BY <1>1, <1>2 DEF vars, Apart
<1>4. reports' = reports => cleanRounds' = cleanRounds
  <2>1. Len(reports) \in Nat
    BY QueueTypes
  <2>2. QED
    BY <1>1, <2>1
<1>5. round' = round => (clean' <=> clean)
  BY <1>1 DEF CleanInv
<1>6. CASE Begins
  BY <1>2, <1>3, <1>4, <1>6, BeginsClean DEF Begins
<1>7. CASE Fires
  BY <1>2, <1>3, <1>4, <1>5, <1>7, FiresClean DEF Fires
<1>8. CASE Wins
  BY <1>2, <1>3, <1>4, <1>8, WinsClean DEF Wins
<1>9. CASE Fails
  BY <1>1, <1>2, <1>3, <1>4, <1>9, FailsClean DEF Fails
<1>10. CASE Reports
  BY <1>1, <1>2, <1>3, <1>5, <1>10, ReportsClean DEF Reports
<1>11. CASE Forgets
  BY <1>2, <1>3, <1>4, <1>5, <1>11, ForgetsClean DEF Forgets
<1>12. QED
  BY <1>2, <1>6, <1>7, <1>8, <1>9, <1>10, <1>11

----------------------------------------------------------------------------
(* A clean round succeeds. *)

\* At first.
LEMMA CleanInitially == ExchangeInit /\ RoundTripsFit => CleanInv
<1> SUFFICES ASSUME ExchangeInit, RoundTripsFit PROVE CleanInv
  OBVIOUS
<1>1. /\ sockbuf = << >> /\ reports = << >> /\ call.pc = "idle" /\ round = 0
      /\ cancelled = FALSE /\ clean = TRUE /\ cleanRounds = {}
  BY DEF ExchangeInit, AttesterInit, SenderInit, NoCall
<1>2. DOMAIN sockbuf = {} /\ Len(reports) = 0
  BY <1>1
<1>3. QueueInv /\ TallyInv /\ SmoothInv
  BY <1>1, <1>2 DEF QueueInv, TallyInv, SmoothInv, Waiting
<1>4. QED
  BY <1>1, <1>3 DEF CleanInv, CleanRoundSucceeds

\* After every step.
LEMMA CleanStep ==
  ExchangeInv /\ CadenceInv /\ CleanInv /\ [ExchangeNext]_exchangeVars => CleanInv'
<1> SUFFICES ASSUME ExchangeInv, CadenceInv, CleanInv, [ExchangeNext]_exchangeVars
             PROVE  CleanInv'
  OBVIOUS
<1>1. CASE UNCHANGED exchangeVars
  <2>1. /\ UNCHANGED <<challengedMode, clock, call, sockbuf, emitted, round, cancelled, reports>>
        /\ UNCHANGED <<sent, inbox, inHand, states, gen, net, clean, cleanRounds>>
    BY <1>1 DEF exchangeVars, attesterVars, senderVars, loopVars, vars, networkVars
  <2>2. QueueInv'
    BY <2>1 DEF CleanInv, QueueInv
  <2>3. clean /\ Waiting => Asked' \/ Answered'
    BY <2>1, StaysPut DEF CleanInv, SmoothInv, Mine
  <2>4. QED
    BY <2>1, <2>2, <2>3, MovesOn
<1>2. QED
  BY <1>1, AttesterClean, AnchorClean, DeliveryClean, FaultClean, PassingClean
     DEF ExchangeNext

\* When both round trips of a pair fit the timeout, a round in which nothing is
\* lost or duplicated succeeds, whatever earlier rounds have left in the
\* attester's socket, in the anchor's pair state or on the network.
\* (LinuxSender.ProbePair, Reflector.Run.)
THEOREM CleanRoundsCorrect == Exchange /\ Deployed /\ RoundTripsFit => []CleanRoundSucceeds
<1>1. CleanInv => CleanRoundSucceeds
  BY DEF CleanInv
<1>2. QED
  BY <1>1, ExchangeInitially, ExchangeStep, CadenceInitially, CadenceStep,
     CleanInitially, CleanStep, PTL DEF Exchange
============================================================================
