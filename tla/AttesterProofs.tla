--------------------------- MODULE AttesterProofs ---------------------------
(***************************************************************************)
(* Theorems about Attester, for every value of its constants.  The lemmas  *)
(* about the attester's own steps are stated for any set R of replies the  *)
(* network may deliver.                                                    *)
(***************************************************************************)
EXTENDS Attester, SequenceTheorems, TLAPS

----------------------------------------------------------------------------
(* Facts about sequences and operators. *)

\* The first datagram of a queue that is not empty, and the rest of it.
LEMMA QueueHead ==
  ASSUME NEW S, NEW q \in Seq(S), q # << >>
  PROVE  Head(q) \in S /\ Tail(q) \in Seq(S)
  BY SMT

\* A log that is appended to keeps its entries in place.
LEMMA LogAppend ==
  ASSUME NEW S, NEW q \in Seq(S), NEW e \in S
  PROVE  /\ Append(q, e) \in Seq(S)
         /\ Len(q) \in Nat /\ DOMAIN q = 1 .. Len(q)
         /\ Len(Append(q, e)) = Len(q) + 1 /\ DOMAIN Append(q, e) = 1 .. Len(q) + 1
         /\ \A i \in 1 .. Len(q) : Append(q, e)[i] = q[i]
         /\ Append(q, e)[Len(q) + 1] = e
  BY AppendProperties, LenProperties, SMT

\* A sequence number stays in its field.
LEMMA SeqNumbers ==
  ASSUME NEW n \in 0 .. SeqWord - 1
  PROVE  NextSeq(n) \in 0 .. SeqWord - 1
  BY SeqAssumption, SMT DEF NextSeq

\* A timestamp fits its field.
LEMMA TimeStamps == \A t \in Nat : ntpTimestamp(t) \in 0 .. Word - 1
  BY WordAssumption, SMT DEF ntpTimestamp, NtpEpochOffset

\* The sender never reports a negative round trip.
LEMMA RttType ==
  ASSUME NEW sendTime \in Nat, NEW kernel \in Nat, NEW fallback \in Nat
  PROVE  decideRTT(sendTime, kernel, fallback) \in Nat
<1> DEFINE x == IF kernel - sendTime < -RttSlack THEN fallback - sendTime
                                                 ELSE kernel - sendTime
<1>1. x \in Int
  BY SenderTimingAssumption
<1>2. decideRTT(sendTime, kernel, fallback) = Max2(0, x)
  BY DEF decideRTT
<1> HIDE DEF x
<1>3. QED
  BY <1>1, <1>2 DEF Max2

----------------------------------------------------------------------------
(* The types of the state. *)

FieldValues == 0 .. Word - 1 \cup Nonces

\* What the attester's arithmetic expects of the replies in R.
RepliesOK(R) ==
    \A r \in R : r.since \in FieldValues /\ r.rtt \in Int /\ r.challenged \in BOOLEAN

Calls(R) ==
    [pc : {"idle", "wait0", "wait1", "done"}, p0 : OwnProbes \cup {None},
     p1 : OwnProbes \cup {None}, deadline : Nat, poll : Nat, sentAt : Nat,
     reply0 : R \cup {None}, reply1 : R \cup {None}, rtt0 : Nat, rtt1 : Nat,
     err : Errors]
Deliveries(R) == [reply : R, shape : {"reply", "odd", "short"}, rx : Nat]
Observations(R) ==
    [round : Nat, err : {"none"}, reply0 : R, reply1 : R, bound : Int, own : Nat,
     reply0Valid : BOOLEAN, reply1Valid : BOOLEAN, anchorKeyMatch : BOOLEAN,
     challenged : BOOLEAN]
Failures == [round : Nat, err : Errors \ {"none"}]

SenderTypes(R) ==
    /\ challengedMode \in BOOLEAN
    /\ clock \in Nat /\ seq \in 0 .. SeqWord - 1
    /\ call \in Calls(R)
    /\ sockbuf \in Seq(Deliveries(R))
    /\ emitted \in Seq(OwnProbes)

LoopTypes(R) ==
    /\ round \in Nat /\ phase \in {"running", "stopped"} /\ nextAt \in Nat
    /\ cancelled \in BOOLEAN
    /\ reports \in Seq(Observations(R) \cup Failures)

----------------------------------------------------------------------------
(* The progress of a call.                                                 *)

\* The probes of the current call are the last that were sent.
Sent0 == Len(emitted) >= 1 /\ emitted[Len(emitted)] = call.p0
Sent1 ==
    /\ Len(emitted) >= 2
    /\ emitted[Len(emitted) - 1] = call.p0 /\ emitted[Len(emitted)] = call.p1

\* The replies of the current call answer them.
Got0(R) ==
    /\ call.reply0 \in R /\ Echoes(call.reply0, call.p0)
    /\ challengedMode => call.p1.stamp = call.reply0.since
Got1(R) ==
    /\ call.reply1 \in R /\ Echoes(call.reply1, call.p1)
    /\ call.reply1.authority = RemoteKey /\ call.reply1.sig = RemoteKey

Succeeded == call.pc = "done" /\ call.err = "none"

CallInv(R) ==
    /\ call.pc = "wait0" => Sent0 /\ (~challengedMode => call.p1 \in OwnProbes)
    /\ call.pc = "wait1" => Sent1 /\ Got0(R)
    /\ Succeeded => Sent1 /\ Got0(R) /\ Got1(R)

\* How many probes at the end of the log belong to the call under way.
Own == IF call.pc = "wait0" THEN 1 ELSE IF call.pc = "wait1" \/ Succeeded THEN 2 ELSE 0

\* Every success was answered to a probe sent before those of the current call.
LogInv ==
    \A i \in Successes :
        \E l \in 2 .. Len(emitted) - Own : Echoes(reports[i].reply1, emitted[l])

AttesterInv(R) ==
    /\ SenderTypes(R) /\ LoopTypes(R)
    /\ CallInv(R) /\ LogInv
    /\ ReportIsOneExchange /\ EchoesNonce

----------------------------------------------------------------------------
(* The steps of the sender. *)

\* Own probes are well typed.
LEMMA ProbeTypes ==
  ASSUME NEW n \in 0 .. SeqWord - 1
  PROVE  /\ \A t \in Nat : NewProbePacket(n, t, SelfKey) \in OwnProbes
         /\ \A x \in FieldValues : newChallengedProbePacket(n, x, SelfKey) \in OwnProbes
         /\ \A x : newChallengedProbePacket(n, x, SelfKey).stamp = x
  BY TimeStamps DEF NewProbePacket, newChallengedProbePacket, OwnProbes, FieldValues

\* A call that returns, and the other ways in which a step changes a call, keep
\* its type.
LEMMA ReturnType ==
  ASSUME NEW CONSTANT R, NEW c \in Calls(R), NEW e \in Errors
  PROVE  /\ Return(c, e) \in Calls(R)
         /\ Return(c, e).pc = "done" /\ Return(c, e).err = e
         /\ Return(c, e).p0 = c.p0 /\ Return(c, e).p1 = c.p1
         /\ Return(c, e).reply0 = c.reply0 /\ Return(c, e).reply1 = c.reply1
  BY DEF Calls, Return

\* The call after each of its replies.
Half(c, r, rtt, p1, t, poll) ==
    [c EXCEPT !.pc = "wait1", !.reply0 = r, !.rtt0 = rtt, !.p1 = p1,
              !.sentAt = t, !.poll = poll]
Whole(c, r, rtt) == [c EXCEPT !.reply1 = r, !.rtt1 = rtt]

\* The record of no call has the type of a call.
LEMMA NoCallType == ASSUME NEW CONSTANT R PROVE NoCall \in Calls(R)
  BY DEF NoCall, Calls, Errors

\* The call after reply 0.
LEMMA HalfType ==
  ASSUME NEW CONSTANT R, NEW k \in Calls(R), NEW r \in R, NEW p1 \in OwnProbes \cup {None},
         NEW rtt \in Nat, NEW poll \in Nat, NEW t \in Nat
  PROVE  LET c == Half(k, r, rtt, p1, t, poll)
         IN  /\ c \in Calls(R)
             /\ c.pc = "wait1" /\ c.p0 = k.p0 /\ c.p1 = p1 /\ c.reply0 = r
  BY DEF Calls, Half

\* The call after reply 1.
LEMMA WholeType ==
  ASSUME NEW CONSTANT R, NEW k \in Calls(R), NEW r \in R, NEW rtt \in Nat
  PROVE  LET c == Whole(k, r, rtt)
         IN  /\ c \in Calls(R)
             /\ c.p0 = k.p0 /\ c.p1 = k.p1 /\ c.reply0 = k.reply0 /\ c.reply1 = r
  BY DEF Calls, Whole

\* A step that leaves the log alone and ends the call in an error.
LEMMA ErrorReturn ==
  ASSUME NEW CONSTANT R, NEW c \in Calls(R), NEW e \in Errors \ {"none"},
         call' = Return(c, e)
  PROVE  call' \in Calls(R) /\ CallInv(R)' /\ Own' = 0
<1>1. call' \in Calls(R) /\ call'.pc = "done" /\ call'.err # "none"
  BY ReturnType
<1>2. QED
  BY <1>1 DEF Own, Succeeded, CallInv

\* What a step of the sender leaves alone and can do to the log: nothing, or one
\* more probe; and what it makes of the call.
SenderEffect(R) ==
    /\ SenderTypes(R)' /\ CallInv(R)'
    /\ UNCHANGED <<challengedMode, clock>>
    /\ \/ emitted' = emitted /\ (Own' = 0 \/ Own' = Own)
       \/ /\ \E e \in OwnProbes : emitted' = Append(emitted, e)
          /\ Own' = 0 \/ Own' = Own + 1

\* The start of a call sends probe 0 or ends in an error.
LEMMA ProbePairEffect ==
  ASSUME NEW CONSTANT R, SenderTypes(R), CallInv(R), ProbePair
  PROVE  SenderEffect(R)
<1> DEFINE s0 == NextSeq(seq)
           q0 == NewProbePacket(s0, clock, SelfKey)
           q1 == NewProbePacket(NextSeq(s0), clock, SelfKey)
           next == IF challengedMode THEN None ELSE q1
           deadline == clock + Timeout
           poll == clock + BusyPoll
           c == [NoCall EXCEPT !.pc = "wait0", !.p0 = q0, !.p1 = next,
                            !.deadline = deadline, !.poll = poll, !.sentAt = clock]
<1>1. s0 \in 0 .. SeqWord - 1 /\ NextSeq(s0) \in 0 .. SeqWord - 1
  BY SeqNumbers DEF SenderTypes
<1>2. q0 \in OwnProbes /\ q1 \in OwnProbes
  BY <1>1, ProbeTypes DEF SenderTypes
<1>3. deadline \in Nat /\ poll \in Nat /\ clock \in Nat
  BY SenderTimingAssumption DEF SenderTypes
<1>4. /\ seq' = IF challengedMode THEN s0 ELSE NextSeq(s0)
      /\ \/ emitted' = Append(emitted, q0) /\ call' = c
         \/ emitted' = emitted /\ call' = Return(c, "send")
      /\ UNCHANGED <<challengedMode, clock, sockbuf>>
      /\ call.pc = "idle"
  BY DEF ProbePair, Sendto
<1>5. /\ c \in Calls(R) /\ Return(c, "send") \in Calls(R)
      /\ c.pc = "wait0" /\ c.p0 = q0 /\ (~challengedMode => c.p1 = q1)
      /\ Return(c, "send").pc = "done" /\ Return(c, "send").err = "send"
  <2> HIDE DEF q0, q1, s0
  <2>1. next \in OwnProbes \cup {None} /\ (~challengedMode => next = q1)
    BY <1>2
  <2>2. NoCall \in Calls(R)
    BY NoCallType
  <2> HIDE DEF next, deadline, poll
  <2>3. c \in Calls(R) /\ c.pc = "wait0" /\ c.p0 = q0 /\ c.p1 = next
    BY <1>2, <1>3, <2>1, <2>2 DEF Calls
  <2> HIDE DEF c
  <2>4. QED
    BY <2>1, <2>3, ReturnType DEF Errors
<1> HIDE DEF c, q0, q1, s0, deadline, poll, next
<1>6. SenderTypes(R)'
  <2>1. challengedMode' \in BOOLEAN /\ clock' \in Nat /\ sockbuf' \in Seq(Deliveries(R))
    BY <1>4 DEF SenderTypes
  <2>2. seq' \in 0 .. SeqWord - 1
    BY <1>1, <1>4
  <2>3. call' \in Calls(R)
    BY <1>4, <1>5
  <2>4. emitted' \in Seq(OwnProbes)
    BY <1>2, <1>4, LogAppend DEF SenderTypes
  <2>5. QED
    BY <2>1, <2>2, <2>3, <2>4 DEF SenderTypes
<1>7. CASE emitted' = Append(emitted, q0) /\ call' = c
  <2>1. Len(emitted) \in Nat /\ Len(emitted') = Len(emitted) + 1 /\ emitted'[Len(emitted')] = q0
    BY <1>2, <1>7, LogAppend DEF SenderTypes
  <2>2. Own = 0 /\ Own' = 1
    BY <1>4, <1>5, <1>7 DEF Own, Succeeded
  <2>3. CallInv(R)'
    BY <1>2, <1>4, <1>5, <1>7, <2>1 DEF CallInv, Sent0, Succeeded
  <2>4. QED
    BY <1>2, <1>4, <1>6, <1>7, <2>2, <2>3 DEF SenderEffect
<1>8. CASE emitted' = emitted /\ call' = Return(c, "send")
  <2>1. Own' = 0 /\ CallInv(R)'
    BY <1>5, <1>8 DEF Own, Succeeded, CallInv
  <2>2. QED
    BY <1>4, <1>6, <1>8, <2>1 DEF SenderEffect
<1>9. QED
  BY <1>4, <1>7, <1>8

\* A datagram that is not the awaited reply changes nothing but the queue.
LEMMA IgnoreEffect ==
  ASSUME NEW CONSTANT R, SenderTypes(R), CallInv(R), Ignore
  PROVE  SenderEffect(R)
<1>1. /\ UNCHANGED <<challengedMode, clock, seq, call, emitted>>
      /\ sockbuf' = Tail(sockbuf) /\ sockbuf # << >>
  BY DEF Ignore
<1>2. SenderTypes(R)'
  BY <1>1, QueueHead DEF SenderTypes
<1>3. CallInv(R)' /\ Own' = Own
  BY <1>1 DEF CallInv, Own, Succeeded, Sent0, Sent1, Got0, Got1, Echoes
<1>4. QED
  BY <1>1, <1>2, <1>3 DEF SenderEffect

\* A probe appended to the log of a call that had sent one.
LEMMA LastTwo ==
  ASSUME NEW S, NEW q \in Seq(S), NEW e \in S, Len(q) >= 1
  PROVE  LET z == Append(q, e)
         IN  Len(z) >= 2 /\ z[Len(z) - 1] = q[Len(q)] /\ z[Len(z)] = e
  BY LogAppend

\* Probe 1 follows probe 0 in the log.
LEMMA SecondProbe ==
  ASSUME NEW CONSTANT R, SenderTypes(R), Sent0, NEW p \in OwnProbes,
         emitted' = Append(emitted, p), call'.p0 = call.p0, call'.p1 = p
  PROVE  emitted' \in Seq(OwnProbes) /\ Sent1'
<1>1. emitted' \in Seq(OwnProbes)
  BY LogAppend DEF SenderTypes
<1>2. /\ Len(emitted') >= 2 /\ emitted'[Len(emitted') - 1] = emitted[Len(emitted)]
      /\ emitted'[Len(emitted')] = p
  BY LastTwo DEF SenderTypes, Sent0
<1>3. emitted[Len(emitted)] = call.p0
  BY DEF Sent0
<1>4. QED
  BY <1>1, <1>2, <1>3, Zenon DEF Sent1

\* What the head of the queue holds while a reply is awaited.
LEMMA HeadTypes ==
  ASSUME NEW CONSTANT R, RepliesOK(R), SenderTypes(R), sockbuf # << >>
  PROVE  /\ Head(sockbuf).reply \in R /\ Head(sockbuf).reply.since \in FieldValues
         /\ decideRTT(call.sentAt, Head(sockbuf).rx, clock) \in Nat
         /\ Tail(sockbuf) \in Seq(Deliveries(R))
<1>1. Head(sockbuf) \in Deliveries(R) /\ Tail(sockbuf) \in Seq(Deliveries(R))
  BY QueueHead DEF SenderTypes
<1>2. Head(sockbuf).reply \in R /\ Head(sockbuf).rx \in Nat
  BY <1>1 DEF Deliveries
<1>3. call.sentAt \in Nat /\ clock \in Nat
  BY DEF SenderTypes, Calls
<1>4. QED
  BY <1>1, <1>2, <1>3, RttType DEF RepliesOK

\* Reply 0 in challenged mode: probe 1 carries what it held in its nonce slot.
LEMMA ChallengedEffect ==
  ASSUME NEW CONSTANT R, RepliesOK(R), SenderTypes(R), CallInv(R), ReceiveReply0Challenged
  PROVE  SenderEffect(R)
<1> DEFINE d == Head(sockbuf)
           r == d.reply
           rtt == decideRTT(call.sentAt, d.rx, clock)
           p == newChallengedProbePacket(NextSeq(seq), r.since, SelfKey)
           poll == clock + BusyPoll
           c == [call EXCEPT !.pc = "wait1", !.reply0 = r, !.rtt0 = rtt, !.p1 = p,
                             !.sentAt = clock, !.poll = poll]
<1>1. /\ challengedMode /\ call.pc = "wait0" /\ sockbuf # << >>
      /\ Matches(r, call.p0)
      /\ seq' = NextSeq(seq) /\ sockbuf' = Tail(sockbuf)
      /\ UNCHANGED <<challengedMode, clock>>
  BY DEF ReceiveReply0Challenged, Ignored0
<1>2. \/ emitted' = Append(emitted, c.p1) /\ call' = c
      \/ emitted' = emitted /\ call' = Return(c, "send")
  BY DEF ReceiveReply0Challenged, Sendto
<1>3. /\ r \in R /\ r.since \in FieldValues /\ rtt \in Nat
      /\ sockbuf' \in Seq(Deliveries(R))
  BY <1>1, HeadTypes
<1>4. NextSeq(seq) \in 0 .. SeqWord - 1
  BY SeqNumbers DEF SenderTypes
<1>5. p \in OwnProbes /\ p.stamp = r.since
  BY <1>3, <1>4, ProbeTypes
<1>6. poll \in Nat /\ clock \in Nat /\ call \in Calls(R)
  BY SenderTimingAssumption DEF SenderTypes
<1>7. c = Half(call, r, rtt, p, clock, poll)
  BY DEF Half
<1> HIDE DEF c, p, poll, rtt, r, d
<1>8. /\ c \in Calls(R)
      /\ c.pc = "wait1" /\ c.p0 = call.p0 /\ c.p1 = p /\ c.reply0 = r
  BY <1>3, <1>5, <1>6, <1>7, HalfType
<1>9. Own = 1 /\ Sent0
  BY <1>1 DEF Own, CallInv
<1>10. challengedMode' \in BOOLEAN /\ clock' \in Nat /\ seq' \in 0 .. SeqWord - 1
  BY <1>1, <1>4 DEF SenderTypes
<1>11. CASE emitted' = Append(emitted, c.p1) /\ call' = c
  <2>1. emitted' = Append(emitted, p) /\ call'.p0 = call.p0 /\ call'.p1 = p
    BY <1>8, <1>11
  <2>2. emitted' \in Seq(OwnProbes) /\ Sent1'
    BY <1>5, <1>9, <2>1, SecondProbe
  <2>3. Got0(R)'
    BY <1>1, <1>3, <1>5, <1>8, <1>11 DEF Got0, Echoes, Matches
  <2>4. CallInv(R)' /\ Own' = 2
    BY <1>8, <1>11, <2>2, <2>3 DEF CallInv, Own, Succeeded
  <2>5. SenderTypes(R)'
    BY <1>3, <1>8, <1>10, <1>11, <2>2 DEF SenderTypes
  <2>6. QED
    BY <1>1, <1>5, <1>9, <2>1, <2>4, <2>5 DEF SenderEffect
<1>12. CASE emitted' = emitted /\ call' = Return(c, "send")
  <2>1. call' \in Calls(R) /\ CallInv(R)' /\ Own' = 0
    BY <1>8, <1>12, ErrorReturn DEF Errors
  <2>2. SenderTypes(R)'
    BY <1>3, <1>10, <1>12, <2>1 DEF SenderTypes
  <2>3. QED
    BY <1>1, <1>12, <2>1, <2>2 DEF SenderEffect
<1>13. QED
  BY <1>2, <1>11, <1>12

\* Reply 0 in unchallenged mode: probe 1 is sent whatever the reply parses as.
LEMMA UnchallengedEffect ==
  ASSUME NEW CONSTANT R, RepliesOK(R), SenderTypes(R), CallInv(R),
         ReceiveReply0Unchallenged
  PROVE  SenderEffect(R)
<1> DEFINE d == Head(sockbuf)
           r == d.reply
           rtt == decideRTT(call.sentAt, d.rx, clock)
           c == [call EXCEPT !.pc = "wait1", !.reply0 = r, !.rtt0 = rtt,
                             !.sentAt = clock, !.poll = 0]
<1>1. /\ ~challengedMode /\ call.pc = "wait0" /\ sockbuf # << >>
      /\ sockbuf' = Tail(sockbuf)
      /\ UNCHANGED <<challengedMode, clock, seq>>
  BY DEF ReceiveReply0Unchallenged
<1>2. \/ emitted' = Append(emitted, call.p1) /\ call' = c /\ Matches(r, call.p0)
      \/ emitted' = Append(emitted, call.p1) /\ call' = Return(call, "mismatch")
      \/ emitted' = emitted /\ call' = Return(call, "send")
  BY DEF ReceiveReply0Unchallenged, Sendto
<1>3. r \in R /\ rtt \in Nat /\ sockbuf' \in Seq(Deliveries(R))
  BY <1>1, HeadTypes
<1>4. Own = 1 /\ Sent0 /\ call.p1 \in OwnProbes
  BY <1>1 DEF Own, CallInv
<1>5. clock \in Nat /\ 0 \in Nat /\ call \in Calls(R)
  BY DEF SenderTypes
<1>6. c = Half(call, r, rtt, call.p1, clock, 0)
  BY <1>5 DEF Half, Calls
<1> HIDE DEF c, rtt, r, d
<1>7. /\ c \in Calls(R)
      /\ c.pc = "wait1" /\ c.p0 = call.p0 /\ c.p1 = call.p1 /\ c.reply0 = r
  BY <1>3, <1>4, <1>5, <1>6, HalfType
<1>8. challengedMode' \in BOOLEAN /\ clock' \in Nat /\ seq' \in 0 .. SeqWord - 1
  BY <1>1 DEF SenderTypes
<1>9. CASE emitted' = Append(emitted, call.p1) /\ call' = c /\ Matches(r, call.p0)
  <2>1. call'.p0 = call.p0 /\ call'.p1 = call.p1
    BY <1>7, <1>9
  <2>2. emitted' \in Seq(OwnProbes) /\ Sent1'
    BY <1>4, <1>9, <2>1, SecondProbe
  <2>3. Got0(R)'
    BY <1>1, <1>3, <1>7, <1>9 DEF Got0, Echoes, Matches
  <2>4. CallInv(R)' /\ Own' = 2
    BY <1>7, <1>9, <2>2, <2>3 DEF CallInv, Own, Succeeded
  <2>5. SenderTypes(R)'
    BY <1>3, <1>7, <1>8, <1>9, <2>2 DEF SenderTypes
  <2>6. QED
    BY <1>1, <1>4, <1>9, <2>4, <2>5 DEF SenderEffect
<1>10. CASE call' = Return(call, "mismatch") /\ emitted' = Append(emitted, call.p1)
  <2>1. call' \in Calls(R) /\ CallInv(R)' /\ Own' = 0
    BY <1>5, <1>10, ErrorReturn DEF Errors
  <2>2. emitted' \in Seq(OwnProbes)
    BY <1>4, <1>10, LogAppend DEF SenderTypes
  <2>3. SenderTypes(R)'
    BY <1>3, <1>8, <2>1, <2>2 DEF SenderTypes
  <2>4. QED
    BY <1>1, <1>4, <1>10, <2>1, <2>3 DEF SenderEffect
<1>11. CASE emitted' = emitted /\ call' = Return(call, "send")
  <2>1. call' \in Calls(R) /\ CallInv(R)' /\ Own' = 0
    BY <1>5, <1>11, ErrorReturn DEF Errors
  <2>2. SenderTypes(R)'
    BY <1>3, <1>8, <1>11, <2>1 DEF SenderTypes
  <2>3. QED
    BY <1>1, <1>11, <2>1, <2>2 DEF SenderEffect
<1>12. QED
  BY <1>2, <1>9, <1>10, <1>11

\* Reply 1 ends the call with success.
LEMMA Reply1Effect ==
  ASSUME NEW CONSTANT R, RepliesOK(R), SenderTypes(R), CallInv(R), ReceiveReply1
  PROVE  SenderEffect(R)
<1> DEFINE d == Head(sockbuf)
           r == d.reply
           rtt == decideRTT(call.sentAt, d.rx, clock)
           c == [call EXCEPT !.reply1 = r, !.rtt1 = rtt]
<1>1. /\ call.pc = "wait1" /\ sockbuf # << >>
      /\ Matches(r, call.p1) /\ r.authority = RemoteKey /\ r.sig = r.authority
      /\ call' = Return(c, "none")
      /\ sockbuf' = Tail(sockbuf)
      /\ UNCHANGED <<challengedMode, clock, seq, emitted>>
  BY DEF ReceiveReply1, Ignored1, Verified, ReplyVerify
<1>2. r \in R /\ rtt \in Nat /\ sockbuf' \in Seq(Deliveries(R))
  BY <1>1, HeadTypes
<1>3. Own = 2 /\ Sent1 /\ Got0(R)
  BY <1>1 DEF Own, CallInv
<1>4. call \in Calls(R)
  BY DEF SenderTypes
<1>5. c = Whole(call, r, rtt)
  BY DEF Whole
<1> HIDE DEF c, rtt, r, d
<1>6. /\ c \in Calls(R)
      /\ c.p0 = call.p0 /\ c.p1 = call.p1 /\ c.reply0 = call.reply0 /\ c.reply1 = r
  BY <1>2, <1>4, <1>5, WholeType
<1>7. /\ call' \in Calls(R) /\ call'.pc = "done" /\ call'.err = "none"
      /\ call'.p0 = call.p0 /\ call'.p1 = call.p1
      /\ call'.reply0 = call.reply0 /\ call'.reply1 = r
  BY <1>1, <1>6, ReturnType DEF Errors
<1>8. Sent1' /\ Got0(R)'
  BY <1>1, <1>3, <1>7 DEF Sent1, Got0, Echoes
<1>9. Got1(R)'
  BY <1>1, <1>2, <1>7 DEF Got1, Echoes, Matches
<1>10. CallInv(R)' /\ Own' = 2
  BY <1>7, <1>8, <1>9 DEF CallInv, Own, Succeeded
<1>11. SenderTypes(R)'
  BY <1>1, <1>2, <1>7 DEF SenderTypes
<1>12. QED
  BY <1>1, <1>3, <1>10, <1>11 DEF SenderEffect

\* A deadline, or a cancelled context.
LEMMA GiveUpEffect ==
  ASSUME NEW CONSTANT R, SenderTypes(R), DeadlineExceeded \/ ContextDone
  PROVE  SenderEffect(R)
<1>1. /\ call' = Return(call, "timeout") \/ call' = Return(call, "cancelled")
      /\ UNCHANGED <<challengedMode, clock, seq, sockbuf, emitted>>
  BY DEF DeadlineExceeded, ContextDone
<1>2. call' \in Calls(R) /\ CallInv(R)' /\ Own' = 0
  <2>1. call \in Calls(R) /\ {"timeout", "cancelled"} \subseteq Errors \ {"none"}
    BY DEF SenderTypes, Errors
  <2>2. QED
    BY <1>1, <2>1, ErrorReturn
<1>3. SenderTypes(R)'
  BY <1>1, <1>2 DEF SenderTypes
<1>4. QED
  BY <1>1, <1>2, <1>3 DEF SenderEffect

----------------------------------------------------------------------------
(* The log of reports. *)

\* A step of the sender keeps the probes in the log, and those that belong to
\* no call under way stay that way.
LEMMA LogGrows ==
  ASSUME NEW CONSTANT R, SenderTypes(R), SenderEffect(R)
  PROVE  /\ Len(emitted) \in Nat /\ Len(emitted') \in Nat /\ Own \in 0 .. 2
         /\ Own' \in 0 .. 2
         /\ Len(emitted') >= Len(emitted)
         /\ Len(emitted') - Own' >= Len(emitted) - Own
         /\ \A i \in 1 .. Len(emitted) : emitted'[i] = emitted[i]
<1>1. Len(emitted) \in Nat /\ Own \in 0 .. 2 /\ Own' \in 0 .. 2
  BY LenProperties DEF SenderTypes, Own
<1>2. CASE emitted' = emitted /\ (Own' = 0 \/ Own' = Own)
  BY <1>1, <1>2
<1>3. CASE /\ \E e \in OwnProbes : emitted' = Append(emitted, e)
           /\ Own' = 0 \/ Own' = Own + 1
  <2>1. PICK e \in OwnProbes : emitted' = Append(emitted, e)
    BY <1>3
  <2>2. /\ Len(emitted') = Len(emitted) + 1
        /\ \A i \in 1 .. Len(emitted) : emitted'[i] = emitted[i]
    BY <2>1, LogAppend DEF SenderTypes
  <2>3. QED
    BY <1>1, <1>3, <2>2
<1>4. QED
  BY <1>2, <1>3 DEF SenderEffect

\* With nothing new reported, the reports keep the exchanges they rest on.
LEMMA ReportsKept ==
  ASSUME NEW CONSTANT R, AttesterInv(R), SenderEffect(R), UNCHANGED reports
  PROVE  LogInv' /\ ReportIsOneExchange' /\ EchoesNonce'
<1> DEFINE n == Len(emitted)
           w == Len(emitted) - Own
<1>1. /\ n \in Nat /\ Len(emitted') \in Nat /\ Len(emitted') >= n
      /\ w \in Int /\ w <= n /\ Len(emitted') - Own' \in Int
      /\ Len(emitted') - Own' >= w
      /\ \A i \in 1 .. n : emitted'[i] = emitted[i]
  BY LogGrows DEF AttesterInv
<1>2. Successes' = Successes /\ challengedMode' = challengedMode
  BY DEF Successes, SenderEffect
<1>3. LogInv'
  <2>1. SUFFICES ASSUME NEW i \in Successes
                 PROVE  \E l \in 2 .. Len(emitted') - Own' :
                            Echoes(reports[i].reply1, emitted'[l])
    BY <1>2 DEF LogInv, Echoes
  <2>2. PICK l \in 2 .. w : Echoes(reports[i].reply1, emitted[l])
    BY DEF AttesterInv, LogInv
  <2>3. l \in 1 .. n /\ l \in 2 .. Len(emitted') - Own'
    BY <1>1
  <2>4. emitted'[l] = emitted[l]
    BY <1>1, <2>3
  <2>5. QED
    BY <2>2, <2>3, <2>4
<1>4. ReportIsOneExchange'
  <2>1. SUFFICES ASSUME NEW i \in Successes
                 PROVE  /\ reports[i].reply1.authority = RemoteKey
                        /\ reports[i].reply1.sig = RemoteKey
                        /\ \E m \in 1 .. Len(emitted') - 1 :
                            /\ Echoes(reports[i].reply0, emitted'[m])
                            /\ Echoes(reports[i].reply1, emitted'[m + 1])
                            /\ \A j \in Successes : j < i =>
                                \E l \in 2 .. m - 1 : Echoes(reports[j].reply1, emitted'[l])
    BY <1>2 DEF ReportIsOneExchange, Echoes
  <2>2. reports[i].reply1.authority = RemoteKey /\ reports[i].reply1.sig = RemoteKey
    BY DEF AttesterInv, ReportIsOneExchange
  <2>3. PICK m \in 1 .. n - 1 :
                            /\ Echoes(reports[i].reply0, emitted[m])
                            /\ Echoes(reports[i].reply1, emitted[m + 1])
                            /\ \A j \in Successes : j < i =>
                                \E l \in 2 .. m - 1 : Echoes(reports[j].reply1, emitted[l])
    BY DEF AttesterInv, ReportIsOneExchange
  <2>4. /\ m \in 1 .. Len(emitted') - 1
        /\ emitted'[m] = emitted[m] /\ emitted'[m + 1] = emitted[m + 1]
        /\ \A l \in 2 .. m - 1 : emitted'[l] = emitted[l]
    <3> HIDE DEF n, w
    <3>1. m \in Int /\ 1 <= m /\ m <= n - 1
      BY <1>1
    <3>2. m \in 1 .. Len(emitted') - 1 /\ m \in 1 .. n /\ m + 1 \in 1 .. n
      BY <1>1, <3>1
    <3>3. ASSUME NEW l \in 2 .. m - 1 PROVE l \in 1 .. n
      BY <1>1, <3>1
    <3>4. QED
      BY <1>1, <3>2, <3>3
  <2>5. QED
    BY <2>2, <2>3, <2>4
<1>5. EchoesNonce'
  BY <1>2 DEF AttesterInv, EchoesNonce
<1>6. QED
  BY <1>3, <1>4, <1>5

\* What is reported is an observation of the completed call, or its error.
LEMMA ReportType ==
  ASSUME NEW CONSTANT R, RepliesOK(R), AttesterInv(R), call.pc = "done"
  PROVE  /\ call.err = "none" => observe(call) \in Observations(R)
         /\ call.err # "none" => failure(call) \in Failures
<1>1. round \in Nat /\ call.err \in Errors /\ call.rtt0 \in Nat /\ call.rtt1 \in Nat
  BY DEF AttesterInv, LoopTypes, SenderTypes, Calls
<1>2. call.err # "none" => failure(call) \in Failures
  BY <1>1 DEF failure, Failures
<1>3. ASSUME call.err = "none"
      PROVE  observe(call) \in Observations(R)
  <2>1. call.reply0 \in R /\ call.reply1 \in R
    BY <1>3 DEF AttesterInv, CallInv, Succeeded, Got0, Got1
  <2>2. call.reply1.rtt \in Int /\ call.reply1.challenged \in BOOLEAN
    BY <2>1 DEF RepliesOK
  <2>3. ProvableMaxDistance(Int64(call.reply1.rtt)) \in Int
    BY <2>2, WordAssumption DEF ProvableMaxDistance, Int64
  <2>4. (IF call.rtt0 <= call.rtt1 THEN call.rtt0 ELSE call.rtt1) \in Nat
    BY <1>1
  <2>5. ReplyVerify(call.reply0) \in BOOLEAN /\ ReplyVerify(call.reply1) \in BOOLEAN
    BY DEF ReplyVerify
  <2>6. (call.reply1.authority = RemoteKey) \in BOOLEAN
    OBVIOUS
  <2>7. QED
    BY <1>1, <2>1, <2>2, <2>3, <2>4, <2>5, <2>6, Zenon DEF observe, Observations
<1>4. QED
  BY <1>2, <1>3

\* A report of a success rests on the last two probes of the log, and every
\* earlier success on a probe before them.
LEMMA ReportKeeps ==
  ASSUME NEW CONSTANT R, RepliesOK(R), AttesterInv(R), report
  PROVE  AttesterInv(R)'
<1> DEFINE n == Len(emitted)
           k == Len(reports)
           entry == IF call.err = "none" THEN observe(call) ELSE failure(call)
<1>1. /\ call.pc = "done" /\ reports' = Append(reports, entry)
      /\ call' = NoCall
      /\ phase' = (IF LastRound THEN "stopped" ELSE phase)
      /\ nextAt' = clock + Interval
      /\ UNCHANGED <<challengedMode, clock, seq, sockbuf, emitted, round, cancelled>>
  BY DEF report
<1>2. SenderTypes(R) /\ LoopTypes(R) /\ CallInv(R)
  BY DEF AttesterInv
<1>3. SenderTypes(R)' /\ CallInv(R)' /\ Own' = 0
  <2>1. call' \in Calls(R)
    BY <1>1, NoCallType
  <2>2. call'.pc = "idle"
    BY <1>1 DEF NoCall
  <2>3. CallInv(R)' /\ Own' = 0
    BY <2>2 DEF CallInv, Succeeded, Own
  <2>4. QED
    BY <1>1, <1>2, <2>1, <2>3 DEF SenderTypes
<1>4. entry \in Observations(R) \cup Failures
  BY <1>1, ReportType
<1>5. /\ k \in Nat /\ DOMAIN reports = 1 .. k /\ DOMAIN reports' = 1 .. k + 1
      /\ \A i \in 1 .. k : reports'[i] = reports[i]
      /\ reports'[k + 1] = entry
      /\ reports' \in Seq(Observations(R) \cup Failures)
  <2> HIDE DEF entry
  <2>1. QED
    BY <1>1, <1>2, <1>4, LogAppend DEF LoopTypes
<1>6. LoopTypes(R)'
  <2>1. nextAt' \in Nat
    BY <1>1, <1>2, LoopAssumption DEF SenderTypes, LoopTypes
  <2>2. phase' \in {"running", "stopped"}
    BY <1>1, <1>2 DEF LoopTypes
  <2>3. QED
    BY <1>1, <1>2, <1>5, <2>1, <2>2 DEF LoopTypes
<1>7. n \in Nat /\ emitted' = emitted
  BY <1>1, <1>2, LenProperties DEF SenderTypes
<1>8. CASE call.err # "none"
  <2>1. Own = 0 /\ entry.err # "none"
    BY <1>1, <1>8 DEF Own, Succeeded, failure
  <2>2. Successes' = Successes /\ \A i \in Successes : reports'[i] = reports[i]
    <3> HIDE DEF entry, k
    <3>1. QED
      BY <1>5, <2>1 DEF Successes
  <2>3. LogInv'
    BY <1>3, <1>7, <2>1, <2>2 DEF AttesterInv, LogInv, Echoes
  <2>4. ReportIsOneExchange'
    <3>1. SUFFICES ASSUME NEW i \in Successes'
                   PROVE  /\ reports'[i].reply1.authority = RemoteKey
                          /\ reports'[i].reply1.sig = RemoteKey
                          /\ \E m \in 1 .. n - 1 :
                             /\ Echoes(reports'[i].reply0, emitted[m])
                             /\ Echoes(reports'[i].reply1, emitted[m + 1])
                             /\ \A j \in Successes' : j < i =>
                                 \E l \in 2 .. m - 1 : Echoes(reports'[j].reply1, emitted[l])
      BY <1>7 DEF ReportIsOneExchange, Echoes
    <3>2. /\ reports[i].reply1.authority = RemoteKey
          /\ reports[i].reply1.sig = RemoteKey
          /\ \E m \in 1 .. n - 1 :
              /\ Echoes(reports[i].reply0, emitted[m])
              /\ Echoes(reports[i].reply1, emitted[m + 1])
              /\ \A j \in Successes : j < i =>
                  \E l \in 2 .. m - 1 : Echoes(reports[j].reply1, emitted[l])
      BY <2>2 DEF AttesterInv, ReportIsOneExchange
    <3>3. QED
      BY <2>2, <3>2
  <2>5. EchoesNonce'
    BY <1>1, <2>2 DEF AttesterInv, EchoesNonce
  <2>6. QED
    BY <1>3, <1>6, <2>3, <2>4, <2>5 DEF AttesterInv
<1>9. CASE call.err = "none"
  <2>1. Own = 2 /\ Sent1 /\ Got0(R) /\ Got1(R)
    BY <1>1, <1>2, <1>9 DEF Own, Succeeded, CallInv
  <2>2. /\ entry.err = "none" /\ entry.reply0 = call.reply0 /\ entry.reply1 = call.reply1
    BY <1>9 DEF observe
  <2> HIDE DEF entry
  <2>3. /\ n >= 2 /\ n \in 2 .. n /\ n - 1 \in 1 .. n - 1 /\ (n - 1) + 1 = n
        /\ Echoes(entry.reply0, emitted[n - 1]) /\ Echoes(entry.reply1, emitted[n])
        /\ entry.reply1.authority = RemoteKey /\ entry.reply1.sig = RemoteKey
    BY <1>7, <2>1, <2>2 DEF Sent1, Got0, Got1
  <2>4. challengedMode => entry.reply1.probe.stamp = entry.reply0.since
    BY <2>1, <2>2 DEF Got0, Got1, Echoes
  <2>5. /\ Successes' = Successes \cup {k + 1}
        /\ \A i \in Successes : reports'[i] = reports[i] /\ i < k + 1
        /\ k + 1 \notin Successes
    <3> HIDE DEF k
    <3>1. QED
      BY <1>5, <2>2 DEF Successes
  <2>6. \A i \in Successes :
          \E l \in 2 .. n - 2 : Echoes(reports'[i].reply1, emitted[l])
    BY <2>1, <2>5 DEF AttesterInv, LogInv
  <2> HIDE DEF n, k
  <2>7. \A l \in 2 .. n - 2 : l \in 2 .. n /\ l \in 2 .. (n - 1) - 1
    BY <1>7
  <2>8. LogInv'
    <3>1. n = Len(emitted') - Own'
      BY <1>3, <1>7 DEF n
    <3>2. SUFFICES ASSUME NEW i \in Successes'
                   PROVE  \E l \in 2 .. n : Echoes(reports'[i].reply1, emitted[l])
      BY <1>7, <3>1 DEF LogInv, Echoes
    <3>3. CASE i \in Successes
      BY <2>6, <2>7, <3>3
    <3>4. CASE i = k + 1
      BY <1>5, <2>3, <3>4
    <3>5. QED
      BY <2>5, <3>3, <3>4
  <2>9. ReportIsOneExchange'
    <3>1. SUFFICES ASSUME NEW i \in Successes'
                   PROVE  /\ reports'[i].reply1.authority = RemoteKey
                          /\ reports'[i].reply1.sig = RemoteKey
                          /\ \E m \in 1 .. n - 1 :
                             /\ Echoes(reports'[i].reply0, emitted[m])
                             /\ Echoes(reports'[i].reply1, emitted[m + 1])
                             /\ \A j \in Successes' : j < i =>
                                 \E l \in 2 .. m - 1 : Echoes(reports'[j].reply1, emitted[l])
      BY <1>7 DEF ReportIsOneExchange, Echoes, n
    <3>2. CASE i \in Successes
      <4>1. \A j \in Successes' : j < i => j \in Successes
        BY <1>5, <2>5, <3>2 DEF Successes
      <4>2. /\ reports[i].reply1.authority = RemoteKey
            /\ reports[i].reply1.sig = RemoteKey
            /\ \E m \in 1 .. n - 1 :
                /\ Echoes(reports[i].reply0, emitted[m])
                /\ Echoes(reports[i].reply1, emitted[m + 1])
                /\ \A j \in Successes : j < i =>
                    \E l \in 2 .. m - 1 : Echoes(reports[j].reply1, emitted[l])
        BY <3>2 DEF AttesterInv, ReportIsOneExchange, n
      <4>3. QED
        BY <2>5, <3>2, <4>1, <4>2
    <3>3. CASE i = k + 1
      <4>1. \A j \in Successes' : j < i => j \in Successes
        BY <1>5, <2>5, <3>3
      <4>2. \A j \in Successes' : j < i =>
               \E l \in 2 .. (n - 1) - 1 : Echoes(reports'[j].reply1, emitted[l])
        BY <2>6, <2>7, <4>1
      <4>3. reports'[i] = entry
        BY <1>5, <3>3
      <4>4. QED
        BY <2>3, <4>2, <4>3
    <3>4. QED
      BY <2>5, <3>2, <3>3
  <2>10. EchoesNonce'
    BY <1>1, <1>5, <2>4, <2>5 DEF AttesterInv, EchoesNonce
  <2>11. QED
    BY <1>3, <1>6, <2>8, <2>9, <2>10 DEF AttesterInv
<1>10. QED
  BY <1>8, <1>9

----------------------------------------------------------------------------
(* The inductive invariant. *)

\* A step of the sender inside ProbePair, or the start of one.
LEMMA EffectKeeps ==
  ASSUME NEW CONSTANT R, AttesterInv(R), SenderEffect(R),
         round' \in Nat, UNCHANGED <<phase, nextAt, cancelled, reports>>
  PROVE  AttesterInv(R)'
<1>1. LogInv' /\ ReportIsOneExchange' /\ EchoesNonce'
  BY ReportsKept
<1>2. LoopTypes(R)'
  BY DEF AttesterInv, LoopTypes
<1>3. QED
  BY <1>1, <1>2 DEF AttesterInv, SenderEffect

\* A step outside ProbePair: the loop's own state, the clock, the socket buffer.
LEMMA OutsideKeeps ==
  ASSUME NEW CONSTANT R, AttesterInv(R),
         UNCHANGED <<challengedMode, seq, call, emitted, round, nextAt, reports>>,
         clock' \in Nat, sockbuf' \in Seq(Deliveries(R)),
         phase' \in {"running", "stopped"}, cancelled' \in BOOLEAN
  PROVE  AttesterInv(R)'
<1>1. SenderTypes(R)'
  BY DEF AttesterInv, SenderTypes
<1>2. LoopTypes(R)'
  BY DEF AttesterInv, LoopTypes
<1>3. CallInv(R)' /\ Own' = Own
  BY DEF AttesterInv, CallInv, Sent0, Sent1, Got0, Got1, Succeeded, Own, Echoes
<1>4. LogInv' /\ ReportIsOneExchange' /\ EchoesNonce'
  BY <1>3 DEF AttesterInv, LogInv, ReportIsOneExchange, EchoesNonce, Successes, Echoes
<1>5. QED
  BY <1>1, <1>2, <1>3, <1>4 DEF AttesterInv

\* The attester's own steps keep it, whatever well-formed replies are queued.
LEMMA AttesterStepKeeps ==
  ASSUME NEW CONSTANT R, RepliesOK(R), AttesterInv(R), AttesterStep
  PROVE  AttesterInv(R)'
<1>1. SenderTypes(R) /\ LoopTypes(R) /\ CallInv(R)
  BY DEF AttesterInv
<1>2. CASE measure
  <2>1. SenderEffect(R)
    BY <1>1, <1>2, ProbePairEffect DEF measure
  <2>2. round' \in Nat /\ UNCHANGED <<phase, nextAt, cancelled, reports>>
    BY <1>1, <1>2 DEF measure, LoopTypes
  <2>3. QED
    BY <2>1, <2>2, EffectKeeps
<1>3. CASE SenderStep /\ UNCHANGED loopVars
  <2>1. SenderEffect(R)
    BY <1>1, <1>3, IgnoreEffect, ChallengedEffect, UnchallengedEffect,
       Reply1Effect, GiveUpEffect DEF SenderStep
  <2>2. round' \in Nat /\ UNCHANGED <<phase, nextAt, cancelled, reports>>
    BY <1>1, <1>3 DEF loopVars, LoopTypes
  <2>3. QED
    BY <2>1, <2>2, EffectKeeps
<1>4. CASE report
  BY <1>4, ReportKeeps
<1>5. CASE Abandon
  <2>1. SenderEffect(R)
    BY <1>1, <1>5, GiveUpEffect DEF Abandon
  <2>2. round' \in Nat /\ UNCHANGED <<phase, nextAt, cancelled, reports>>
    BY <1>1, <1>5 DEF Abandon, loopVars, LoopTypes
  <2>3. QED
    BY <2>1, <2>2, EffectKeeps
<1>6. CASE Shutdown
  <2>1. /\ UNCHANGED <<challengedMode, seq, call, emitted, round, nextAt, reports>>
        /\ clock' \in Nat /\ sockbuf' \in Seq(Deliveries(R))
        /\ phase' \in {"running", "stopped"} /\ cancelled' \in BOOLEAN
    BY <1>1, <1>6 DEF Shutdown, senderVars, SenderTypes, LoopTypes
  <2>2. QED
    BY <2>1, OutsideKeeps
<1>7. QED
  BY <1>2, <1>3, <1>4, <1>5, <1>6 DEF AttesterStep

\* So do time, a signal, and a datagram with one of the replies in R.
LEMMA SurroundingsKeep ==
  ASSUME NEW CONSTANT R, AttesterInv(R),
         \/ SenderTick /\ UNCHANGED loopVars
         \/ Interrupt
         \/ /\ \E r \in R, shape \in {"reply", "odd", "short"} : Deliver(r, shape)
            /\ UNCHANGED loopVars
         \/ UNCHANGED attesterVars
  PROVE  AttesterInv(R)'
<1>1. SenderTypes(R) /\ LoopTypes(R)
  BY DEF AttesterInv
<1>2. CASE SenderTick /\ UNCHANGED loopVars
  <2>1. clock' \in Nat
    BY <1>1, <1>2 DEF SenderTick, SenderTypes
  <2>2. QED
    BY <1>1, <1>2, <2>1, OutsideKeeps DEF SenderTick, loopVars, SenderTypes, LoopTypes
<1>3. CASE Interrupt
  BY <1>1, <1>3, OutsideKeeps DEF Interrupt, senderVars, SenderTypes, LoopTypes
<1>4. CASE /\ \E r \in R, shape \in {"reply", "odd", "short"} : Deliver(r, shape)
           /\ UNCHANGED loopVars
  <2>1. PICK r \in R, shape \in {"reply", "odd", "short"} : Deliver(r, shape)
    BY <1>4
  <2>2. [reply |-> r, shape |-> shape, rx |-> clock] \in Deliveries(R)
    BY <1>1 DEF Deliveries, SenderTypes
  <2>3. sockbuf' \in Seq(Deliveries(R))
    BY <1>1, <2>1, <2>2, LogAppend DEF Deliver, SenderTypes
  <2>4. QED
    BY <1>1, <1>4, <2>1, <2>3, OutsideKeeps DEF Deliver, loopVars, SenderTypes, LoopTypes
<1>5. CASE UNCHANGED attesterVars
  BY <1>1, <1>5, OutsideKeeps DEF attesterVars, senderVars, loopVars, SenderTypes, LoopTypes
<1>6. QED
  BY <1>2, <1>3, <1>4, <1>5

\* Nothing has been sent or reported.
LEMMA AttesterInitially ==
  ASSUME NEW CONSTANT R, AttesterInit
  PROVE  AttesterInv(R)
<1>1. call \in Calls(R) /\ call.pc = "idle"
  BY NoCallType DEF AttesterInit, SenderInit, NoCall
<1>2. SenderTypes(R)
  <2>1. seq \in 0 .. SeqWord - 1 /\ clock \in Nat
    BY SeqAssumption DEF AttesterInit, SenderInit
  <2>2. challengedMode \in BOOLEAN /\ sockbuf = << >> /\ emitted = << >>
    BY ModeAssumption DEF AttesterInit, SenderInit
  <2>3. QED
    BY <1>1, <2>1, <2>2, EmptySeq DEF SenderTypes
<1>3. LoopTypes(R) /\ Successes = {}
  <2>1. reports = << >> /\ round \in Nat /\ nextAt \in Nat
    BY DEF AttesterInit
  <2>2. reports \in Seq(Observations(R) \cup Failures) /\ DOMAIN reports = {}
    BY <2>1, EmptySeq
  <2>3. Successes = {}
    BY <2>2 DEF Successes
  <2>4. QED
    BY <2>1, <2>2, <2>3 DEF AttesterInit, LoopTypes
<1>4. CallInv(R)
  BY <1>1 DEF CallInv, Succeeded
<1>5. QED
  BY <1>2, <1>3, <1>4 DEF AttesterInv, LogInv, ReportIsOneExchange, EchoesNonce

----------------------------------------------------------------------------
(* The attester against an arbitrary network. *)

\* Every reply the network of OpenSpec can make of the attester's probes.
NetProbes == [seq : 0 .. SeqWord - 1, stamp : FieldValues, key : {SelfKey},
              sig : {SelfKey, OtherKey}]
NetReplies ==
    [probe : NetProbes,
     authority : {RemoteKey, OtherKey}, slot : {1}, since : {1} \cup Nonces,
     rtt : {1}, challenged : {TRUE}, sig : {RemoteKey, OtherKey}]

\* What the network makes of a probe is well formed.
LEMMA NetRepliesOK == RepliesOK(NetReplies)
<1>1. 1 \in FieldValues
  <2>1. 1 \in 0 .. Word - 1
    BY WordAssumption
  <2>2. QED
    BY <2>1, Zenon DEF FieldValues
<1>2. Nonces \subseteq FieldValues
  BY DEF FieldValues
<1>3. ASSUME NEW r \in NetReplies
      PROVE  r.since \in FieldValues /\ r.rtt \in Int /\ r.challenged \in BOOLEAN
  <2>1. r.since \in {1} \cup Nonces /\ r.rtt \in Int
    BY DEF NetReplies
  <2>2. r.challenged \in BOOLEAN
    BY DEF NetReplies
  <2>3. QED
    BY <1>1, <1>2, <2>1, <2>2, Zenon
<1>4. QED
  BY <1>3, Zenon DEF RepliesOK

\* Replacing one field of a record.
LEMMA FieldReplaced ==
  ASSUME NEW A, NEW B, NEW C, NEW D, NEW E, NEW F, NEW G, NEW z \in G, NEW q \in A,
         NEW x \in [probe : A, authority : B, slot : C, since : D, rtt : E,
                    challenged : F, sig : G]
  PROVE  /\ [x EXCEPT !.sig = z] \in [probe : A, authority : B, slot : C, since : D, rtt : E,
                                      challenged : F, sig : G]
         /\ [x EXCEPT !.probe = q] \in [probe : A, authority : B, slot : C, since : D, rtt : E,
                                        challenged : F, sig : G]
  OBVIOUS

\* Every answer to an own probe is one of them.
LEMMA AnswersTypes ==
  ASSUME NEW p \in OwnProbes
  PROVE  Answer(p, 1) \in NetReplies /\ Answers(p) \subseteq NetReplies
<1>1. p \in NetProbes /\ [p EXCEPT !.sig = OtherKey] \in NetProbes
  BY DEF OwnProbes, FieldValues, NetProbes
<1>2. NetReplies = [probe : NetProbes, authority : {RemoteKey, OtherKey}, slot : {1},
                    since : {1} \cup Nonces, rtt : {1}, challenged : {TRUE},
                    sig : {RemoteKey, OtherKey}]
  BY DEF NetReplies
<1>3. ASSUME NEW q \in NetProbes, NEW a \in {RemoteKey, OtherKey}, NEW n \in {1} \cup Nonces,
             NEW z \in {RemoteKey, OtherKey}
      PROVE  [probe |-> q, authority |-> a, slot |-> 1, since |-> n, rtt |-> 1,
              challenged |-> TRUE, sig |-> z] \in NetReplies
  BY <1>2
<1>4. \A n \in {1} \cup Nonces : Answer(p, n) \in NetReplies
  BY <1>1, <1>3 DEF Answer, NewReplyPacket
<1>5. NewReplyPacket(p, OtherKey, 1, 1, 1, TRUE) \in NetReplies
  BY <1>1, <1>3 DEF NewReplyPacket
<1> DEFINE good == Answer(p, 1)
           q == [p EXCEPT !.sig = OtherKey]
<1>6. good \in NetReplies /\ good.probe = p
  BY <1>4 DEF Answer, NewReplyPacket
<1>7. q \in NetProbes /\ [good EXCEPT !.probe.sig = OtherKey] = [good EXCEPT !.probe = q]
  BY <1>1, <1>6
<1> HIDE DEF good, q
<1>8. [good EXCEPT !.sig = OtherKey] \in NetReplies
  BY <1>2, <1>6, <1>7, FieldReplaced
<1>9. [good EXCEPT !.probe = q] \in NetReplies
  BY <1>2, <1>6, <1>7, FieldReplaced
<1>10. QED
  BY <1>4, <1>5, <1>7, <1>8, <1>9 DEF Answers, good

\* The inductive invariant holds against the arbitrary network.
LEMMA OpenInv == OpenSpec => []AttesterInv(NetReplies)
<1>1. AttesterInit => AttesterInv(NetReplies)
  BY AttesterInitially
<1>2. AttesterInv(NetReplies) /\ [OpenNext]_attesterVars => AttesterInv(NetReplies)'
  <2>1. SUFFICES ASSUME AttesterInv(NetReplies), [OpenNext]_attesterVars
                 PROVE  AttesterInv(NetReplies)'
    OBVIOUS
  <2>2. CASE AttesterStep
    BY <2>1, <2>2, NetRepliesOK, AttesterStepKeeps
  <2>3. CASE Interrupt \/ Time \/ UNCHANGED attesterVars
    BY <2>1, <2>3, SurroundingsKeep DEF Time
  <2>4. CASE Network
    <3>1. \A i \in DOMAIN emitted : emitted[i] \in OwnProbes
      BY <2>1, ElementOfSeq, LenProperties DEF AttesterInv, SenderTypes
    <3>2. \E r \in NetReplies, shape \in {"reply", "odd", "short"} : Deliver(r, shape)
      BY <2>4, <3>1, AnswersTypes DEF Network
    <3>3. UNCHANGED loopVars
      BY <2>4 DEF Network
    <3>4. QED
      BY <2>1, <3>2, <3>3, SurroundingsKeep
  <2>5. QED
    BY <2>1, <2>2, <2>3, <2>4 DEF OpenNext
<1>3. QED
  BY <1>1, <1>2, PTL DEF OpenSpec

\* The attester's variables keep their types whatever the network delivers: its
\* sequence number stays in its field, its deadlines and round-trip times are
\* never negative, every probe it sends is well formed.  (LinuxSender.ProbePair.)
THEOREM AttesterTypeCorrect == OpenSpec => []AttesterTypeOK
<1>1. AttesterInv(NetReplies) => AttesterTypeOK
  BY DEF AttesterInv, SenderTypes, LoopTypes, Calls, AttesterTypeOK
<1>2. QED
  BY <1>1, OpenInv, PTL

\* Every success rests on an exchange of its own, signed by the expected anchor,
\* against a network that replays, forges and reorders.  (LinuxSender.tryRecv.)
THEOREM OneExchangeCorrect == OpenSpec => []ReportIsOneExchange
<1>1. AttesterInv(NetReplies) => ReportIsOneExchange
  BY DEF AttesterInv
<1>2. QED
  BY <1>1, OpenInv, PTL

\* In challenged mode probe 1 of every reported pair carried the nonce slot of
\* the reply 0 it reports.  (LinuxSender.recvAndFireProbe1.)
THEOREM EchoesNonceCorrect == OpenSpec => []EchoesNonce
<1>1. AttesterInv(NetReplies) => EchoesNonce
  BY DEF AttesterInv
<1>2. QED
  BY <1>1, OpenInv, PTL
=============================================================================
