------------------------------ MODULE Exchange ------------------------------
(***************************************************************************)
(* One attester and one anchor over a network that delays, reorders, loses *)
(* and duplicates datagrams: Attester and Reflector composed, each with    *)
(* its own clock.  The two clocks advance together; the anchor's may also  *)
(* be stepped in SteppedExchange.                                          *)
(***************************************************************************)
EXTENDS Attester, Reflector

CONSTANTS
    AttesterIP,     \* the attester's address
    MinDelay,       \* one-way delay of light between the two, in ticks
    MaxDelay,       \* bound: the longest one-way delay
    MaxLosses,      \* bound: datagrams lost in a behaviour
    MaxDups         \* bound: datagrams duplicated in a behaviour

ASSUME NetworkAssumption ==
    /\ MinDelay \in Nat /\ MaxDelay \in Nat /\ MinDelay <= MaxDelay
    /\ MaxLosses \in Nat /\ MaxDups \in Nat
ASSUME PartiesAssumption == SelfKey \in Keys /\ AttesterIP \in IPs
\* An accumulated round trip is in the range of a time.Duration, 292 years.
ASSUME DurationAssumption ==
    \A v \in OffsetVectors : 2 * (ParseOffsetInfo(v).rtt + MaxClock) < Word

VARIABLES
    net,        \* datagrams in flight: the index of a probe in emitted, or of
                \* a reply in sent, and the time it was sent
    losses,     \* datagrams lost so far
    dups,       \* datagrams duplicated so far
    clean,      \* history: the current round has lost or duplicated nothing
    cleanRounds \* history: the reported rounds that were clean

networkVars == <<net, losses, dups, clean, cleanRounds>>
exchangeVars == <<attesterVars, vars, networkVars>>

InFlight(kind, index) == [kind |-> kind, index |-> index, at |-> clock]

\* What this step handed to Sendto enters the network.
Carry ==
    net' = net \cup {InFlight("probe", i) : i \in DOMAIN emitted' \ DOMAIN emitted}
               \cup {InFlight("reply", i) : i \in DOMAIN sent' \ DOMAIN sent}

----------------------------------------------------------------------------

AttesterMoves ==
    /\ AttesterStep
    /\ UNCHANGED vars
    /\ Carry
    /\ clean' = (clean \/ round' # round)
    /\ cleanRounds' = IF Len(reports') > Len(reports) /\ clean
                      THEN cleanRounds \cup {round} ELSE cleanRounds
    /\ UNCHANGED <<losses, dups>>

AnchorMoves ==
    /\ \/ Receive
       \/ Handle
       \/ Reload
       \/ \E v \in OffsetVectors : v # offsets /\ SetOffsets(v)
    /\ UNCHANGED attesterVars
    /\ Carry
    /\ UNCHANGED <<losses, dups, clean, cleanRounds>>

\* The datagram m reaches the socket it was sent to.
Arrives(m) ==
    /\ clock >= m.at + MinDelay
    /\ \/ /\ m.kind = "probe"
          /\ Arrive(ProbePacketSize, emitted[m.index], AttesterIP)
          /\ UNCHANGED attesterVars
       \/ /\ m.kind = "reply"
          /\ Deliver(sent[m.index].reply, "reply")
          /\ UNCHANGED <<loopVars, vars>>

Delivery ==
    \E m \in net :
        /\ Arrives(m)
        /\ net' = net \ {m}
        /\ UNCHANGED <<losses, dups, clean, cleanRounds>>

\* A copy arrives; the original is still on its way.
Duplication ==
    \E m \in net :
        /\ dups < MaxDups
        /\ Arrives(m)
        /\ dups' = dups + 1 /\ clean' = FALSE
        /\ UNCHANGED <<net, losses, cleanRounds>>

Loss ==
    \E m \in net :
        /\ losses < MaxLosses
        /\ net' = net \ {m}
        /\ losses' = losses + 1 /\ clean' = FALSE
        /\ UNCHANGED <<attesterVars, vars, dups, cleanRounds>>

\* Time passes on both machines while nothing that can happen is overdue.
Overdue ==
    \/ \E m \in net : clock >= m.at + MaxDelay
    \/ \E d \in {inbox[i] : i \in DOMAIN inbox} \cup {inHand[i] : i \in DOMAIN inHand} :
          wall >= d.rx + MaxLag

Passing ==
    /\ Prompt /\ ~Overdue
    /\ SenderTick /\ Tick
    /\ UNCHANGED <<loopVars, networkVars>>

ExchangeInit ==
    /\ AttesterInit /\ Init
    /\ SelfKey \in authorizedKeys
    /\ net = {} /\ losses = 0 /\ dups = 0 /\ clean = TRUE /\ cleanRounds = {}

ExchangeNext ==
    AttesterMoves \/ AnchorMoves \/ Delivery \/ Duplication \/ Loss \/ Passing

Exchange == ExchangeInit /\ [][ExchangeNext]_exchangeVars

\* How cmd/anchor runs the reflector: crypto/rand does not fail, the one blob of
\* referenceOffset fits a reply, the attester stays on the allowlist.  And
\* 2^32 sequence numbers last for longer than the clocks count.
DefaultSetting ==
    /\ RemoteKey = AnchorKey
    /\ ~RandMayFail
    /\ \A v \in OffsetVectors : Sendable(v)
    /\ \A keys \in AllowLists : SelfKey \in keys
    /\ 2 * (MaxClock \div Interval + 1) < SeqWord

\* The order of the default timeouts, 15 ms, 2 s, 5 s, 29 s and 30 s, with room
\* for the delays of the network between them.
DefaultCadence ==
    /\ BusyPoll <= Timeout
    /\ Timeout + MaxDelay <= StaleTimeout + MinDelay
    /\ StaleTimeout < VerifyInterval
    /\ VerifyInterval + MaxDelay <= Interval + MinDelay
    /\ StaleTimeout + MaxDelay + MaxLag < Interval

\* Both round trips of a pair, with the lags of the two programs, fit a timeout.
RoundTripsFit == ~SendMayFail /\ 4 * (MaxDelay + MaxLag) < Timeout

Deployed == DefaultSetting /\ DefaultCadence

DeployedExchange == Deployed /\ RoundTripsFit /\ Exchange

\* The anchor's wall clock is corrected by one tick.
Correction ==
    /\ ClockStep
    /\ wall' \in {wall - 1, wall + 1}
    /\ UNCHANGED <<attesterVars, networkVars>>

SteppedExchange == ExchangeInit /\ [][ExchangeNext \/ Correction]_exchangeVars

----------------------------------------------------------------------------
(* Properties. *)

\* Report i rests on replies h and j, j closes the pair h opened, and the
\* interval is the one between sending h and receiving the probe of j.
MeasuredBy(i, h, j) ==
    /\ sent[h].reply = reports[i].reply0
    /\ sent[j].reply = reports[i].reply1
    /\ sent[j].role = 1 /\ Opens(h, j)
    /\ sent[j].reply.since = sent[j].rx - sent[h].tx

\* The interval in a successful report is the one the anchor timed between
\* sending that report's reply 0 and receiving its probe 1: reply 1 closes the
\* pair reply 0 opened.  (observation.AnchorMeasuredRttNs, cmd/attester/main.go.)
ReportedIntervalIsMeasured ==
    \A i \in Successes : \E h, j \in DOMAIN sent : MeasuredBy(i, h, j)

\* The reported bound on the distance is never below the true distance, which
\* light covers in MinDelay: loss, duplication, delay and queueing can only
\* make the attester look further away.  (geo.ProvableMaxDistance of RttNs.)
ProvableBoundSound == \A i \in Successes : reports[i].bound >= 2 * MinDelay

\* The two hold of every report signed as challenged, whatever the cadence, the
\* timeouts and the state earlier rounds left behind: a challenged report proves
\* a round trip of its own between the two machines.  (cmd/attester/main.go,
\* observation.Challenged with AnchorMeasuredRttNs and the provable distance.)
ChallengedReportSound ==
    \A i \in Successes : reports[i].challenged =>
        /\ \E h, j \in DOMAIN sent : MeasuredBy(i, h, j)
        /\ reports[i].bound >= 2 * MinDelay

\* In challenged mode a successful report is signed as challenged: the anchor
\* confirms the nonce echo.
SuccessIsChallenged ==
    challengedMode => \A i \in Successes : reports[i].challenged

\* A round in which nothing is lost or duplicated succeeds, whatever happened
\* in the rounds before it: no loss leaves the pair state of the anchor or the
\* socket of the attester in a condition that spoils a later round.
CleanRoundSucceeds == cleanRounds \subseteq Successes
=============================================================================
