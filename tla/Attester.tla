------------------------------ MODULE Attester ------------------------------
(***************************************************************************)
(* The attester program (cmd/attester/main.go) around its sender: one      *)
(* ProbePair per round under a timeout, a report of what it returned, a    *)
(* pause, and again, until the count is reached or a signal arrives.       *)
(***************************************************************************)
EXTENDS Sender

CONSTANTS
    Interval,   \* -interval: the pause after a round, in ticks
    Count,      \* -count: rounds to run, 0 for no limit
    OtherKey,   \* a key that is not the anchor's
    MaxLag,     \* bound: ticks a process that can run is kept waiting
    MaxBuf      \* bound: replies in the socket buffer

ASSUME LoopAssumption ==
    Interval \in Nat /\ Count \in Nat /\ MaxLag \in Nat /\ MaxBuf \in Nat

VARIABLES
    round,      \* the loop's seq
    phase,      \* "running" or "stopped"
    nextAt,     \* when time.After fires
    cancelled,  \* the signal context is done
    reports     \* every observation reported, oldest first

loopVars == <<round, phase, nextAt, cancelled, reports>>
attesterVars == <<senderVars, loopVars>>

\* Wrong variant: the round trip is halved twice.
ProvableMaxDistance_Quarter(rtt) == IF rtt <= 0 THEN 0 ELSE rtt \div 2

\* geo.ProvableMaxDistance at one unit of length per half tick of light.
ProvableMaxDistance(rtt) == IF rtt <= 0 THEN 0 ELSE rtt

\* observe: the readings of a completed pair.  The RTT is a time.Duration made
\* from the reply's unsigned field.
observe(c) ==
    [round |-> round, err |-> "none", reply0 |-> c.reply0, reply1 |-> c.reply1,
     bound |-> ProvableMaxDistance(Int64(c.reply1.rtt)),
     own |-> IF c.rtt0 <= c.rtt1 THEN c.rtt0 ELSE c.rtt1,
     reply0Valid |-> ReplyVerify(c.reply0),
     reply1Valid |-> ReplyVerify(c.reply1),
     anchorKeyMatch |-> c.reply1.authority = RemoteKey,
     challenged |-> c.reply1.challenged]

failure(c) == [round |-> round, err |-> c.err]

----------------------------------------------------------------------------

\* The top of the loop: check the context, then call ProbePair.
measure ==
    /\ phase = "running" /\ ~cancelled
    /\ clock >= nextAt
    /\ ProbePair
    /\ round' = round + 1
    /\ UNCHANGED <<phase, nextAt, cancelled, reports>>

LastRound == Count > 0 /\ round >= Count

\* ProbePair has returned: report, then stop or pause.
report ==
    /\ call.pc = "done"
    /\ reports' = Append(reports, IF call.err = "none" THEN observe(call)
                                                       ELSE failure(call))
    /\ call' = NoCall
    /\ phase' = IF LastRound THEN "stopped" ELSE phase
    /\ nextAt' = clock + Interval
    /\ UNCHANGED <<challengedMode, clock, seq, sockbuf, emitted, round, cancelled>>

\* SIGINT or SIGTERM.
Interrupt ==
    /\ phase = "running" /\ ~cancelled
    /\ cancelled' = TRUE
    /\ UNCHANGED <<senderVars, round, phase, nextAt, reports>>

\* The wait in ProbePair sees the cancelled context.
Abandon == cancelled /\ ContextDone /\ UNCHANGED loopVars

\* The loop sees it, at its top or in its pause.
Shutdown ==
    /\ phase = "running" /\ cancelled /\ call.pc = "idle"
    /\ phase' = "stopped"
    /\ UNCHANGED <<senderVars, round, nextAt, cancelled, reports>>

AttesterStep ==
    \/ measure
    \/ SenderStep /\ UNCHANGED loopVars
    \/ report
    \/ Abandon
    \/ Shutdown

Waiting == call.pc \in {"wait0", "wait1"}

\* Time passes only while no step the attester can take is overdue.
Prompt ==
    /\ phase = "running" /\ call.pc # "done"
    /\ call.pc = "idle" => clock < nextAt + MaxLag
    /\ Waiting => clock < Max2(call.deadline, call.poll) + MaxLag
    /\ Waiting /\ Polling /\ sockbuf # << >>
        => clock < Max2(Head(sockbuf).rx, call.sentAt) + MaxLag

AttesterInit ==
    /\ SenderInit
    /\ round = 0 /\ phase = "running" /\ nextAt = 0
    /\ cancelled = FALSE /\ reports = << >>

----------------------------------------------------------------------------
(* The attester against an arbitrary network: any probe it ever sent may be *)
(* answered at any time, any number of times, by anyone, with any defect.   *)

Answer(p, since) == NewReplyPacket(p, RemoteKey, 1, since, 1, TRUE)

Answers(p) ==
    LET good == Answer(p, 1) IN
    {Answer(p, n) : n \in Nonces}
      \cup {NewReplyPacket(p, OtherKey, 1, 1, 1, TRUE)}
      \cup {[good EXCEPT !.sig = OtherKey], [good EXCEPT !.probe.sig = OtherKey]}

Network ==
    /\ Len(sockbuf) < MaxBuf
    /\ \E i \in DOMAIN emitted :
        \/ \E reply \in Answers(emitted[i]) : Deliver(reply, "reply")
        \/ \E shape \in {"short", "odd"} : Deliver(Answer(emitted[i], 1), shape)
    /\ UNCHANGED loopVars

Time == Prompt /\ SenderTick /\ UNCHANGED loopVars

OpenNext == AttesterStep \/ Interrupt \/ Network \/ Time

\* The attester's thread keeps running and time passes.
OpenFairness == WF_attesterVars(AttesterStep) /\ WF_attesterVars(Time)

OpenSpec == AttesterInit /\ [][OpenNext]_attesterVars /\ OpenFairness

----------------------------------------------------------------------------
(* Properties. *)

OwnProbes == [seq : 0 .. SeqWord - 1, stamp : 0 .. Word - 1 \cup Nonces,
              key : {SelfKey}, sig : {SelfKey}]
Errors == {"none", "timeout", "mismatch", "send", "cancelled"}

AttesterTypeOK ==
    /\ clock \in Nat /\ seq \in 0 .. SeqWord - 1
    /\ call.pc \in {"idle", "wait0", "wait1", "done"} /\ call.err \in Errors
    /\ call.p0 \in OwnProbes \cup {None} /\ call.p1 \in OwnProbes \cup {None}
    /\ {call.deadline, call.poll, call.sentAt, call.rtt0, call.rtt1} \subseteq Nat
    /\ emitted \in Seq(OwnProbes)
    /\ round \in Nat /\ phase \in {"running", "stopped"} /\ nextAt \in Nat
    /\ cancelled \in BOOLEAN

Successes == {i \in DOMAIN reports : reports[i].err = "none"}

\* The reply echoes probe p as it was sent.
Echoes(reply, p) == reply.probe.seq = p.seq /\ reply.probe.stamp = p.stamp

\* A successful report rests on one exchange of its own: reply 1 is signed by
\* the expected anchor, and the two replies echo two consecutive probes, later
\* than those of every earlier report, whatever is queued from earlier rounds.
\* (LinuxSender.tryRecv and recvAndFireProbe1.)
ReportIsOneExchange ==
    \A i \in Successes :
        /\ reports[i].reply1.authority = RemoteKey
        /\ reports[i].reply1.sig = RemoteKey
        /\ \E m \in 1 .. Len(emitted) - 1 :
            /\ Echoes(reports[i].reply0, emitted[m])
            /\ Echoes(reports[i].reply1, emitted[m + 1])
            /\ \A j \in Successes : j < i =>
                \E l \in 2 .. m - 1 : Echoes(reports[j].reply1, emitted[l])

\* In challenged mode probe 1 of a reported pair carries what reply 0 held in
\* its nonce slot, so a challenged reply 1 proves the wait for that reply 0.
EchoesNonce ==
    challengedMode => \A i \in Successes :
        reports[i].reply1.probe.stamp = reports[i].reply0.since

\* Every round that starts is reported, with a result or an error: no reply,
\* late reply or defective reply keeps ProbePair waiting for ever.
EveryRoundReports ==
    \A r \in 1 .. Count : (round = r) ~> (Len(reports) >= r)

\* The program ends: after Count rounds, or after an interrupt.
Stops == (Count > 0 \/ cancelled) ~> (phase = "stopped")
=============================================================================
