----------------------------- MODULE Reflector -----------------------------
(***************************************************************************)
(* The anchor's reflector (internal/signed/reflector_linux.go): one        *)
(* goroutine reads probes from a UDP socket, pairs them per sender key and *)
(* answers, while the allowlist loop and the offset loop of cmd/anchor     *)
(* change the allowlist and the reference offset under it.                 *)
(*                                                                         *)
(* The reflector goroutine takes two steps per datagram: Recvmsg up to the *)
(* allowlist lookup, and everything from LoadOrStore to Sendto.  The       *)
(* second part is one action because the pair state is private to that     *)
(* goroutine; a senderStates.Delete that falls inside it has the effect of *)
(* one just after it (the orphaned state is never read again), and the     *)
(* offsets are read once, under their lock.                                *)
(***************************************************************************)
EXTENDS Wire

CONSTANTS
    Keys,           \* attester public keys
    IPs,            \* source addresses
    AnchorKey,      \* key of the reflector's signer
    VerifyInterval, \* verifyInterval, in ticks
    StaleTimeout,   \* stalePairTimeout, in ticks
    OffsetVectors,  \* the arguments SetOffsets may be given
    AllowLists,     \* the arguments SetAuthorizedKeys may be given
    Sizes,          \* the lengths of datagrams that may arrive
    RandMayFail,    \* TRUE when rand.Read may fail
    MaxClock,       \* bound: last tick of the wall clock
    MaxInbox,       \* bound: datagrams in the socket's receive buffer
    MaxGen,         \* bound: deletions of a key's state
    MaxSent         \* bound: replies in a behaviour

ASSUME TimingAssumption == VerifyInterval \in Nat /\ StaleTimeout \in Nat
ASSUME BoundAssumption == MaxClock \in Nat /\ MaxInbox \in Nat /\ MaxGen \in Nat
                          /\ MaxSent \in Nat
ASSUME OffsetAssumption ==
    \A v \in OffsetVectors :
        v \in Seq([size : Nat, slot : Nat, rtt : 0 .. Word - 1])
ASSUME AllowListAssumption == AllowLists \subseteq SUBSET Keys
ASSUME SizeAssumption == Sizes \subseteq Nat
ASSUME RandAssumption == RandMayFail \in BOOLEAN
\* No interval between two readings of the clock overflows a uint64.
ASSUME WidthAssumption == MaxClock < Word

VARIABLES
    wall,           \* the anchor's wall clock
    inbox,          \* datagrams in the socket buffer, stamped by the kernel
    inHand,         \* the probe the loop has found authorized and not handled
    authorizedKeys, \* the sync.Map of allowed keys
    states,         \* senderStates; a key without an entry is Fresh
    offsets,        \* the current reference offsets
    reload,         \* progress of SetAuthorizedKeys
    sent,           \* history: every reply handed to Sendto, oldest first
    gen,            \* history: how often a key's state has been deleted
    late,           \* history: replies to a key since it was revoked
    drawn           \* history: the nonces randomNonce has returned

socketVars == <<inbox, inHand>>
reloadVars == <<authorizedKeys, reload>>
ghostVars == <<gen, late, drawn>>
vars == <<wall, inbox, inHand, authorizedKeys, states, offsets, reload, sent,
          gen, late, drawn>>

ZeroTime == -1          \* time.Time{}
NoIP == "none"          \* the zero [4]byte of a fresh state

Fresh == [lastTx |-> ZeroTime, pairCount |-> 0, pairStart |-> ZeroTime,
          ip |-> NoIP, nonce |-> 0]

\* No call of SetAuthorizedKeys under way; keys was the last list installed.
Idle(keys) == [new |-> keys, range |-> {}, doomed |-> {}, store |-> {}]

----------------------------------------------------------------------------
(* The types of the state. *)

Stamps == 0 .. Word - 1
Probes == [seq : Nat, stamp : Stamps \cup Nonces, key : Keys, sig : Keys]
Datagrams == [size : Nat, probe : Probes, from : IPs, rx : Nat]
Replies == [probe : Probes, authority : {AnchorKey}, slot : Nat,
            since : Stamps \cup Nonces, rtt : Stamps, challenged : BOOLEAN,
            sig : {AnchorKey}]
States == [lastTx : Nat \cup {ZeroTime}, pairCount : Nat,
           pairStart : Nat \cup {ZeroTime}, ip : IPs \cup {NoIP},
           nonce : Nonces \cup {0}]
\* A reply with what the reflector knew when it sent it: its position in the
\* pair (role), the arrival of the probe, the send time, the start of the pair.
SentReplies == [reply : Replies, to : IPs, role : Nat, rx : Nat, tx : Nat,
                start : Nat, gen : Nat]
Reloads == [new : SUBSET Keys, range : SUBSET Keys, doomed : SUBSET Keys,
            store : SUBSET Keys]

----------------------------------------------------------------------------
(* Decisions of the pair state machine, on a state s and arrival time now. *)

\* Wrong variant: the window ends one tick early.
RateLimited_Early(s, now) ==
    /\ VerifyInterval > 0
    /\ s.pairCount >= 2
    /\ now - s.pairStart < VerifyInterval - 1

\* Wrong variant: a completed pair is never forgotten.
RateLimited_Forever(s, now) == VerifyInterval > 0 /\ s.pairCount >= 2

\* Both probes of the window have been answered and the window is not over.
RateLimited(s, now) ==
    /\ VerifyInterval > 0
    /\ s.pairCount >= 2
    /\ now - s.pairStart < VerifyInterval

\* Wrong variant: the counter is not reset when the window ends.
WindowOver_Never(s) == FALSE

\* The pair is complete; the handler gets here only once its window is over.
WindowOver(s) == VerifyInterval > 0 /\ s.pairCount >= 2

\* Wrong variant: an abandoned pair waits for its second probe for ever.
StalePair_Never(s, now) == FALSE

\* Probe 1 never arrived.
StalePair(s, now) ==
    /\ s.pairCount = 1
    /\ s.lastTx # ZeroTime
    /\ now - s.lastTx > StaleTimeout

\* The state the rest of the handler works on, once the resets are done.
AfterResets(s, now) ==
    IF WindowOver(s) \/ StalePair(s, now)
    THEN [s EXCEPT !.pairCount = 0, !.nonce = 0]
    ELSE s

\* Wrong variant: the source address of the second probe is not compared.
OtherSource_Unchecked(s, from) == FALSE

\* Pair integrity: a later probe of a pair comes from the address of the first.
OtherSource(s, from) == s.pairCount # 0 /\ from # s.ip

\* What randomNonce may return: values never drawn before, or 0 on failure.
randomNonce == (Nonces \ drawn) \cup (IF RandMayFail THEN {0} ELSE {})

\* The state after the first probe of a pair, and after a later one.
OpenPair(s, from, now, nonce) ==
    [s EXCEPT !.ip = from, !.pairStart = now, !.nonce = nonce, !.pairCount = 1]

\* Wrong variant: the nonce outlives its pair.
ClosePair_KeepsNonce(s) == [s EXCEPT !.pairCount = @ + 1]

ClosePair(s) == [s EXCEPT !.nonce = 0, !.pairCount = @ + 1]

\* Wrong variant: any nonce ever published is taken for the live one.
Challenged_AnyNonce(s, probe) == s.nonce # 0 /\ probe.stamp \in Nonces

\* Whether a probe presents the nonce of the live pair.
Challenged(s, probe) == s.nonce # 0 /\ probe.stamp = s.nonce

\* Wrong variant: the interval is not converted to an unsigned field.
SinceLastTx_Signed(s, now) ==
    IF s.lastTx # ZeroTime THEN now - s.lastTx ELSE 0

\* The interval signed into the second reply of a pair.
SinceLastTx(s, now) ==
    IF s.lastTx # ZeroTime THEN Uint64(now - s.lastTx) ELSE 0

----------------------------------------------------------------------------
(* The receive loop. *)

\* A datagram reaches the socket buffer; the kernel stamps its arrival.
Arrive(size, probe, from) ==
    /\ Len(inbox) < MaxInbox
    /\ Len(sent) + Len(inbox) + Len(inHand) < MaxSent
    /\ inbox' = Append(inbox, [size |-> size, probe |-> probe, from |-> from,
                               rx |-> wall])
    /\ UNCHANGED <<wall, inHand, authorizedKeys, states, offsets, reload, sent,
                   ghostVars>>

Reading == inHand = << >> /\ inbox # << >>

DropMalformed ==
    /\ Reading
    /\ Head(inbox).size # ProbePacketSize
    /\ inbox' = Tail(inbox)
    /\ UNCHANGED <<wall, inHand, authorizedKeys, states, offsets, reload, sent,
                   ghostVars>>

\* Wrong variant: the allowlist is not consulted.
IsAuthorized_Always(key) == TRUE

\* The allowlist lookup.
IsAuthorized(key) == key \in authorizedKeys

DropUnauthorized ==
    /\ Reading
    /\ Head(inbox).size = ProbePacketSize
    /\ ~IsAuthorized(Head(inbox).probe.key)
    /\ inbox' = Tail(inbox)
    /\ UNCHANGED <<wall, inHand, authorizedKeys, states, offsets, reload, sent,
                   ghostVars>>

Authorize ==
    /\ Reading
    /\ Head(inbox).size = ProbePacketSize
    /\ IsAuthorized(Head(inbox).probe.key)
    /\ inHand' = <<Head(inbox)>>
    /\ inbox' = Tail(inbox)
    /\ UNCHANGED <<wall, authorizedKeys, states, offsets, reload, sent, ghostVars>>

----------------------------------------------------------------------------
(* Handling an authorized probe: from LoadOrStore to Sendto. *)

DropRateLimited(d) ==
    /\ inHand = <<d>>
    /\ RateLimited(states[d.probe.key], d.rx)
    /\ inHand' = << >>
    /\ UNCHANGED <<wall, inbox, authorizedKeys, states, offsets, reload, sent,
                   ghostVars>>

DropOtherSource(d) ==
    LET s == AfterResets(states[d.probe.key], d.rx) IN
    /\ inHand = <<d>>
    /\ ~RateLimited(states[d.probe.key], d.rx)
    /\ OtherSource(s, d.from)
    /\ inHand' = << >>
    /\ UNCHANGED <<wall, inbox, authorizedKeys, states, offsets, reload, sent,
                   ghostVars>>

\* Build the reply and send it.  When NewReplyPacket refuses the offsets the
\* pair state s has already moved on, and neither lastTx nor a reply follows.
Reply(d, s, since, rtt, challenged) ==
    LET key == d.probe.key
        info == ParseOffsetInfo(offsets)
    IN  \/ /\ Sendable(offsets)
           /\ states' = [states EXCEPT ![key] = [s EXCEPT !.lastTx = wall]]
           /\ sent' = Append(sent,
                [reply |-> NewReplyPacket(d.probe, AnchorKey, info.slot, since,
                                          rtt, challenged),
                 to |-> d.from, role |-> s.pairCount - 1, rx |-> d.rx,
                 tx |-> wall, start |-> s.pairStart, gen |-> gen[key]])
           /\ late' = [late EXCEPT ![key] = IF key \in authorizedKeys THEN 0 ELSE @ + 1]
        \/ /\ ~Sendable(offsets)
           /\ states' = [states EXCEPT ![key] = s]
           /\ UNCHANGED <<sent, late>>

\* The first probe of a pair is answered with a nonce.
AnswerProbe0(d, nonce) ==
    LET s == AfterResets(states[d.probe.key], d.rx) IN
    /\ inHand = <<d>>
    /\ ~RateLimited(states[d.probe.key], d.rx)
    /\ s.pairCount = 0
    /\ nonce \in randomNonce
    /\ drawn' = drawn \cup ({nonce} \ {0})
    /\ Reply(d, OpenPair(s, d.from, d.rx, nonce), nonce,
             ParseOffsetInfo(offsets).rtt, FALSE)
    /\ inHand' = << >>
    /\ UNCHANGED <<wall, inbox, authorizedKeys, offsets, reload, gen>>

\* A later probe is answered with the interval since the last reply.
AnswerProbe1(d) ==
    LET s == AfterResets(states[d.probe.key], d.rx) IN
    /\ inHand = <<d>>
    /\ ~RateLimited(states[d.probe.key], d.rx)
    /\ s.pairCount # 0
    /\ ~OtherSource(s, d.from)
    /\ Reply(d, ClosePair(s), SinceLastTx(s, d.rx),
             Uint64(ParseOffsetInfo(offsets).rtt + SinceLastTx(s, d.rx)),
             Challenged(s, d.probe))
    /\ inHand' = << >>
    /\ UNCHANGED <<wall, inbox, authorizedKeys, offsets, reload, gen, drawn>>

Handle ==
    \E d \in {inHand[i] : i \in DOMAIN inHand} :
        \/ DropRateLimited(d)
        \/ DropOtherSource(d)
        \/ \E nonce \in randomNonce : AnswerProbe0(d, nonce)
        \/ AnswerProbe1(d)

Receive == DropMalformed \/ DropUnauthorized \/ Authorize

----------------------------------------------------------------------------
(* SetAuthorizedKeys, run by the reload goroutine one sync.Map call at a   *)
(* time, and SetOffsets, which is atomic under its lock.                   *)

Reloading == reload.range \cup reload.doomed \cup reload.store # {}

SetAuthorizedKeys(keys) ==
    /\ ~Reloading
    /\ \A k \in Keys : gen[k] < MaxGen
    /\ reload' = [new |-> keys, range |-> authorizedKeys, doomed |-> {},
                  store |-> keys]
    /\ UNCHANGED <<wall, inbox, inHand, authorizedKeys, states, offsets, sent,
                   ghostVars>>

\* Wrong variants: Range deletes nothing, or every key before storing the list.
RangeKey_KeepsAll(key) ==
    /\ key \in reload.range
    /\ reload.doomed = {}
    /\ reload' = [reload EXCEPT !.range = @ \ {key}]
    /\ UNCHANGED <<wall, inbox, inHand, authorizedKeys, states, offsets, sent,
                   ghostVars>>
RangeKey_DropsAll(key) ==
    /\ key \in reload.range
    /\ reload.doomed = {}
    /\ authorizedKeys' = authorizedKeys \ {key}
    /\ reload' = [reload EXCEPT !.range = @ \ {key}, !.doomed = {key}]
    /\ UNCHANGED <<wall, inbox, inHand, states, offsets, sent, ghostVars>>

\* Range visits a key, and deletes it when the new list does not name it.
RangeKey(key) ==
    /\ key \in reload.range
    /\ reload.doomed = {}
    /\ authorizedKeys' = IF key \in reload.new THEN authorizedKeys
                                               ELSE authorizedKeys \ {key}
    /\ reload' = [reload EXCEPT !.range = @ \ {key},
                                !.doomed = {key} \ reload.new]
    /\ UNCHANGED <<wall, inbox, inHand, states, offsets, sent, ghostVars>>

\* Wrong variant: the pair state of a revoked key is kept.
DeleteState_KeepsState(key) ==
    /\ key \in reload.doomed
    /\ gen' = [gen EXCEPT ![key] = @ + 1]
    /\ reload' = [reload EXCEPT !.doomed = {}]
    /\ UNCHANGED <<wall, inbox, inHand, authorizedKeys, states, offsets, sent,
                   late, drawn>>

DeleteState(key) ==
    /\ key \in reload.doomed
    /\ states' = [states EXCEPT ![key] = Fresh]
    /\ gen' = [gen EXCEPT ![key] = @ + 1]
    /\ reload' = [reload EXCEPT !.doomed = {}]
    /\ UNCHANGED <<wall, inbox, inHand, authorizedKeys, offsets, sent, late, drawn>>

StoreKey(key) ==
    /\ reload.range = {} /\ reload.doomed = {}
    /\ key \in reload.store
    /\ authorizedKeys' = authorizedKeys \cup {key}
    /\ reload' = [reload EXCEPT !.store = @ \ {key}]
    /\ late' = [late EXCEPT ![key] = 0]
    /\ UNCHANGED <<wall, inbox, inHand, states, offsets, sent, gen, drawn>>

Reload ==
    \/ \E keys \in AllowLists : SetAuthorizedKeys(keys)
    \/ \E key \in Keys : RangeKey(key) \/ DeleteState(key) \/ StoreKey(key)

SetOffsets(v) ==
    /\ offsets' = v
    /\ UNCHANGED <<wall, inbox, inHand, authorizedKeys, states, reload, sent,
                   ghostVars>>

----------------------------------------------------------------------------
(* The environment and the specification. *)

\* Time passes on the wall clock.
Tick ==
    /\ wall < MaxClock
    /\ wall' = wall + 1
    /\ UNCHANGED <<inbox, inHand, authorizedKeys, states, offsets, reload, sent,
                   ghostVars>>

\* The clock is stepped (time synchronisation, an operator's command).
ClockStep ==
    /\ \E t \in 0 .. MaxClock : wall' = t
    /\ UNCHANGED <<inbox, inHand, authorizedKeys, states, offsets, reload, sent,
                   ghostVars>>

\* What a probe can carry in Sec and Frac: a time, or a nonce the reflector
\* has published in a reply.
Published ==
    {sent[i].reply.since : i \in {j \in DOMAIN sent : sent[j].role = 0}} \cap Nonces

Init ==
    /\ wall = 0
    /\ inbox = << >> /\ inHand = << >>
    /\ authorizedKeys \in SUBSET Keys
    /\ states = [k \in Keys |-> Fresh]
    /\ offsets \in OffsetVectors
    /\ reload = Idle(authorizedKeys)
    /\ sent = << >>
    /\ gen = [k \in Keys |-> 0]
    /\ late = [k \in Keys |-> 0]
    /\ drawn = {}

\* What goes on around the receive loop and the reload.  Anyone may send anything:
\* any key, any address, any time, any published nonce; the ticker of refreshLoop
\* fires; time passes.
Environment ==
    \/ \E size \in Sizes, key \in Keys, ip \in IPs :
        \/ Arrive(size, NewProbePacket(0, wall, key), ip)
        \/ \E nonce \in Published :
              Arrive(size, newChallengedProbePacket(0, nonce, key), ip)
    \/ \E v \in OffsetVectors : SetOffsets(v)
    \/ Tick

Next == Receive \/ Handle \/ Reload \/ Environment

Spec == Init /\ [][Next]_vars

\* The same reflector on a machine whose wall clock may be stepped.
SteppedSpec == Init /\ [][Next \/ ClockStep]_vars

----------------------------------------------------------------------------
(* Properties. *)

TypeOK ==
    /\ wall \in Nat
    /\ inbox \in Seq(Datagrams)
    /\ inHand \in Seq(Datagrams) /\ Len(inHand) <= 1
    /\ authorizedKeys \in SUBSET Keys
    /\ states \in [Keys -> States]
    /\ offsets \in OffsetVectors
    /\ reload \in Reloads
    /\ sent \in Seq(SentReplies)
    /\ gen \in [Keys -> Nat]
    /\ late \in [Keys -> Nat]
    /\ drawn \in SUBSET Nonces

\* Reply i opened the pair that reply j belongs to.
Opens(i, j) ==
    /\ sent[i].role = 0
    /\ sent[i].reply.probe.key = sent[j].reply.probe.key
    /\ sent[i].to = sent[j].to
    /\ sent[i].gen = sent[j].gen
    /\ sent[i].start = sent[j].start

\* A reply signed as challenged answers a probe that could only be sent once an
\* earlier reply of the same pair, to the same key and address, had been sent:
\* the probe carries that reply's nonce, it arrived after that reply left, and
\* the signed interval is the time between the two.  (Reflector.Run, the nonce
\* check and sinceLastRxNs.)
ChallengeIsCausal ==
    \A j \in DOMAIN sent : sent[j].reply.challenged =>
        \E i \in 1 .. j - 1 :
            /\ Opens(i, j)
            /\ sent[i].reply.since = sent[j].reply.probe.stamp
            /\ sent[i].tx <= sent[j].rx
            /\ sent[j].reply.since = sent[j].rx - sent[i].tx

\* A published nonce buys at most one challenged reply, however often the probe
\* that presents it is repeated and whatever the clock does.  (Reflector.Run
\* clears state.nonce at the second probe and at both resets.)
NonceAcceptedOnce ==
    \A i, j \in DOMAIN sent :
        /\ sent[i].reply.challenged /\ sent[j].reply.challenged
        /\ sent[i].reply.probe.stamp = sent[j].reply.probe.stamp
        => i = j

\* Two pairs of a key that both got their second reply started at least
\* VerifyInterval apart, unless the key was revoked in between.  Abandoned
\* pairs, whose stale reset is exempt from the limit, do not count.
CompletedPairsSpaced ==
    \A i, j \in DOMAIN sent :
        /\ i < j
        /\ sent[i].role = 1 /\ sent[j].role = 1
        /\ sent[i].reply.probe.key = sent[j].reply.probe.key
        /\ sent[i].gen = sent[j].gen
        => sent[j].start - sent[i].start >= VerifyInterval

\* Once a key has been deleted from the allowlist at most one more reply is
\* sent to it: the probe that had passed the lookup before the deletion.
RevocationBounded == \A k \in Keys : late[k] <= 1

\* A completed SetAuthorizedKeys has installed exactly the list it was given.
AllowlistReplaced == ~Reloading => authorizedKeys = reload.new

\* A reload never takes away, not even for a moment, a key the new list keeps.
KeptKeysStayAuthorized ==
    [][\A k \in authorizedKeys : k \notin authorizedKeys' => k \notin reload.new]_vars

----------------------------------------------------------------------------
(* A claim of the repository's documentation that the code does not meet. *)

\* "Nanoseconds between reflector Tx (reply N-1) and Rx (probe N)" (packet.go):
\* the interval of a second reply is no longer than the time the clock shows.
IntervalIsElapsedTime ==
    \A j \in DOMAIN sent :
        sent[j].role = 1 => sent[j].reply.since <= sent[j].rx

============================================================================
