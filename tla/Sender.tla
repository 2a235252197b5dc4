------------------------------- MODULE Sender -------------------------------
(***************************************************************************)
(* The attester's sender (internal/signed/sender_linux.go): ProbePair in   *)
(* its challenged and its unchallenged form.  A call sends probe 0, waits  *)
(* for a reply that matches it, sends probe 1 and waits for a verified     *)
(* reply to that; s.mu makes calls exclusive.  Replies are read from one   *)
(* socket, in which answers to earlier calls may still be queued.          *)
(***************************************************************************)
EXTENDS Wire

CONSTANTS
    SelfKey,        \* the attester's key
    RemoteKey,      \* remotePubkey: the key replies must be signed with
    Modes,          \* the values of challenged a sender may be created with
    Timeout,        \* time from the call to its context's deadline, in ticks
    BusyPoll,       \* busyPollWindow, in ticks
    RttSlack,       \* decideRTT's tolerance of a receive stamp in the past
    SeqWord,        \* number of values of the uint32 sequence number
    SendMayFail,    \* TRUE when Sendto may fail
    None            \* no reply yet

ASSUME SenderTimingAssumption ==
    Timeout \in Nat /\ BusyPoll \in Nat /\ RttSlack \in Nat
ASSUME SeqAssumption == SeqWord \in Nat \ {0}
ASSUME ModeAssumption == Modes \subseteq BOOLEAN /\ SendMayFail \in BOOLEAN

VARIABLES
    challengedMode, \* s.challenged: probePairChallenged is used
    clock,      \* the attester's clock
    seq,        \* s.seq
    call,       \* the progress of the current ProbePair
    sockbuf,    \* replies in the socket buffer, stamped by the kernel
    emitted     \* history: every probe handed to Sendto, oldest first

senderVars == <<challengedMode, clock, seq, call, sockbuf, emitted>>

\* pc: idle before the first call, wait0 and wait1 while a reply is awaited,
\* done when the call has returned with err ("none" for success).
NoCall == [pc |-> "idle", p0 |-> None, p1 |-> None, deadline |-> 0, poll |-> 0,
           sentAt |-> 0, reply0 |-> None, reply1 |-> None, rtt0 |-> 0,
           rtt1 |-> 0, err |-> "none"]

\* Wrong variant: the sequence number outgrows its field.
NextSeq_Unbounded(n) == n + 1

NextSeq(n) == (n + 1) % SeqWord

Max2(x, y) == IF x >= y THEN x ELSE y

\* The sender's own estimate of a round trip.
decideRTT(sendTime, kernelRecvTime, fallbackRecvTime) ==
    LET rtt == kernelRecvTime - sendTime
    IN  Max2(0, IF rtt < -RttSlack THEN fallbackRecvTime - sendTime ELSE rtt)

\* The sender looks at its socket: before the deadline, and throughout the
\* busy-poll window, which consults neither the deadline nor the context.
Polling == clock < call.poll \/ clock < call.deadline

\* A datagram with the length of a reply whose offset count fits that length.
WellFormed(d) == d.shape = "reply"
ReplySized(d) == d.shape # "short"

\* Wrong variants: the time is not compared; any signer is accepted.
Matches_SeqOnly(reply, probe) == reply.probe.seq = probe.seq
Verified_AnyAuthority(reply) == ProbeVerify(reply.probe) /\ ReplyVerify(reply)

\* tryRecv's comparison of the echoed probe, and its checks when verify is set.
Matches(reply, probe) == reply.probe.seq = probe.seq /\ reply.probe.stamp = probe.stamp
Verified(reply) ==
    /\ ProbeVerify(reply.probe)
    /\ reply.authority = RemoteKey
    /\ ReplyVerify(reply)

Return(c, err) == [c EXCEPT !.pc = "done", !.err = err]

----------------------------------------------------------------------------
(* One call of ProbePair. *)

Sendto(probe) == emitted' = Append(emitted, probe)

\* Build probe 0, and probe 1 too when it needs no nonce, and send probe 0.
ProbePair ==
    LET s0 == NextSeq(seq)
        p0 == NewProbePacket(s0, clock, SelfKey)
        p1 == NewProbePacket(NextSeq(s0), clock, SelfKey)
        c == [NoCall EXCEPT !.pc = "wait0", !.p0 = p0,
                            !.p1 = IF challengedMode THEN None ELSE p1,
                            !.deadline = clock + Timeout,
                            !.poll = clock + BusyPoll, !.sentAt = clock]
    IN  /\ call.pc = "idle"
        /\ seq' = IF challengedMode THEN s0 ELSE NextSeq(s0)
        /\ \/ Sendto(p0) /\ call' = c
           \/ SendMayFail /\ call' = Return(c, "send") /\ UNCHANGED emitted
        /\ UNCHANGED <<challengedMode, clock, sockbuf>>

\* A datagram that is not the awaited reply is read and forgotten.
Ignored0(d) ==
    IF challengedMode
    THEN ~(WellFormed(d) /\ Matches(d.reply, call.p0))
    ELSE ~(ReplySized(d) /\ d.reply.probe.seq = call.p0.seq)
Ignored1(d) == ~(WellFormed(d) /\ Matches(d.reply, call.p1) /\ Verified(d.reply))

Ignore ==
    /\ sockbuf # << >> /\ Polling
    /\ \/ call.pc = "wait0" /\ Ignored0(Head(sockbuf))
       \/ call.pc = "wait1" /\ Ignored1(Head(sockbuf))
    /\ sockbuf' = Tail(sockbuf)
    /\ UNCHANGED <<challengedMode, clock, seq, call, emitted>>

\* Challenged: parse reply 0, sign its nonce into probe 1, send it.  The nonce
\* slot is echoed whatever it holds.
ReceiveReply0Challenged ==
    LET d == Head(sockbuf)
        c == [call EXCEPT !.pc = "wait1", !.reply0 = d.reply,
                          !.rtt0 = decideRTT(call.sentAt, d.rx, clock),
                          !.p1 = newChallengedProbePacket(NextSeq(seq),
                                                          d.reply.since, SelfKey),
                          !.sentAt = clock, !.poll = clock + BusyPoll]
    IN  /\ challengedMode /\ call.pc = "wait0" /\ sockbuf # << >> /\ Polling
        /\ ~Ignored0(d)
        /\ seq' = NextSeq(seq)
        /\ \/ Sendto(c.p1) /\ call' = c
           \/ SendMayFail /\ call' = Return(c, "send") /\ UNCHANGED emitted
        /\ sockbuf' = Tail(sockbuf)
        /\ UNCHANGED <<challengedMode, clock>>

\* Unchallenged: the sequence number alone fires probe 1; only then is the
\* reply parsed, and a reply that is not one ends the call.
ReceiveReply0Unchallenged ==
    LET d == Head(sockbuf)
        c == [call EXCEPT !.pc = "wait1", !.reply0 = d.reply,
                          !.rtt0 = decideRTT(call.sentAt, d.rx, clock),
                          !.sentAt = clock, !.poll = 0]
    IN  /\ ~challengedMode /\ call.pc = "wait0" /\ sockbuf # << >> /\ Polling
        /\ ~Ignored0(d)
        /\ \/ /\ Sendto(call.p1)
              /\ call' = IF WellFormed(d) /\ Matches(d.reply, call.p0)
                         THEN c ELSE Return(call, "mismatch")
           \/ SendMayFail /\ call' = Return(call, "send") /\ UNCHANGED emitted
        /\ sockbuf' = Tail(sockbuf)
        /\ UNCHANGED <<challengedMode, clock, seq>>

ReceiveReply1 ==
    LET d == Head(sockbuf) IN
    /\ call.pc = "wait1" /\ sockbuf # << >> /\ Polling
    /\ ~Ignored1(d)
    /\ call' = Return([call EXCEPT !.reply1 = d.reply,
                                   !.rtt1 = decideRTT(call.sentAt, d.rx, clock)],
                      "none")
    /\ sockbuf' = Tail(sockbuf)
    /\ UNCHANGED <<challengedMode, clock, seq, emitted>>

\* Wrong variant: the wait for reply 1 has no deadline.
DeadlineExceeded_Reply0Only ==
    /\ call.pc = "wait0" /\ ~Polling
    /\ call' = Return(call, "timeout")
    /\ UNCHANGED <<challengedMode, clock, seq, sockbuf, emitted>>

\* The deadline has passed, and the busy-poll window too.
DeadlineExceeded ==
    /\ call.pc \in {"wait0", "wait1"} /\ ~Polling
    /\ call' = Return(call, "timeout")
    /\ UNCHANGED <<challengedMode, clock, seq, sockbuf, emitted>>

\* The context was cancelled; seen outside the busy-poll window.
ContextDone ==
    /\ call.pc \in {"wait0", "wait1"} /\ clock >= call.poll
    /\ call' = Return(call, "cancelled")
    /\ UNCHANGED <<challengedMode, clock, seq, sockbuf, emitted>>

SenderStep ==
    \/ Ignore
    \/ ReceiveReply0Challenged
    \/ ReceiveReply0Unchallenged
    \/ ReceiveReply1
    \/ DeadlineExceeded

\* The kernel queues and stamps a datagram.
Deliver(reply, shape) ==
    /\ sockbuf' = Append(sockbuf, [reply |-> reply, shape |-> shape, rx |-> clock])
    /\ UNCHANGED <<challengedMode, clock, seq, call, emitted>>

SenderTick ==
    /\ clock' = clock + 1
    /\ UNCHANGED <<challengedMode, seq, call, sockbuf, emitted>>

SenderInit ==
    /\ challengedMode \in Modes
    /\ clock = 0 /\ seq = 0 /\ call = NoCall
    /\ sockbuf = << >> /\ emitted = << >>
=============================================================================
