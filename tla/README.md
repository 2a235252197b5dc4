# A verification of plugin-rtt-anchor

The repository measures how far away a host can be.  An *attester* sends two
signed UDP probes to an *anchor* at a known place; the anchor answers the first
with a random nonce, times how long it takes until the second probe, which must
echo that nonce, arrives, and signs that interval.  Light bounds the distance
from the interval.  This directory holds TLA+ modules of the two programs, the
TLC configurations that check them on small instances, and theorems about them
that TLAPS proves for every value of the constants.

Contents: [inventory](#1-inventory), [modules](#2-modules-and-the-code),
[runs](#3-runs), [bounds](#4-bounds), [fairness](#5-fairness),
[proofs](#6-proofs), [findings](#7-where-the-code-and-its-documents-disagree),
[abstractions](#8-abstractions), [what is not modelled](#9-what-is-not-modelled),
[plan](#10-plan).

## 1. Inventory

| component | source | state | operations |
|---|---|---|---|
| packet format | `internal/signed/packet.go` | none | build, sign, verify and (un)marshal probes and replies; `ParseOffsetInfo` |
| reflector | `internal/signed/reflector_linux.go` | socket, `authorizedKeys`, `senderStates` (per key: count, start, address, nonce, last send), offsets, shutdown channel | `Run`, `SetAuthorizedKeys`, `SetOffsets`, `Close` |
| sender | `internal/signed/sender_linux.go` | socket, sequence number, lock | `ProbePair` (challenged and unchallenged), `Probe`, `Close` |
| anchor program | `cmd/anchor/main.go` | flags, two tickers | `reloadLoop`, `refreshLoop`, `referenceOffset`, shutdown |
| attester program | `cmd/attester/main.go` | round counter | `measure`, `report`, `observe`, pause, signal |
| key file | `internal/keys/keys.go` | one file | `Load`, `Generate`, `LoadOrGenerate` |
| allowlist file | `internal/keys/keys.go` | one file | `LoadAllowlist` |
| offset chains | `internal/offset` | none | encode, decode, `VerifyChain` |
| distance estimates | `internal/geo` | none | `ProvableMaxDistance`, `CalibratedDistance` |
| non-Linux stub | `internal/signed/stub_fallback.go` | none | returns an error |

**How they interact.**  The anchor runs three goroutines.  The receive loop owns
the socket and the pair states; the reload loop calls `SetAuthorizedKeys`, which
edits two `sync.Map`s one key at a time while the receive loop reads them; the
refresh loop calls `SetOffsets` under a lock.  The attester runs one loop whose
sender waits on one socket that also receives late answers to earlier rounds.
The two programs share nothing but datagrams, which are delayed, reordered, lost
and duplicated, and each stamps its own side with its own clock.  Both read
their identity from a key file that is created at the first start.

**What is hard.**

* *Pairing.*  The anchor decides from arrival times and a counter alone whether
  a probe is the first or the second of a pair.  Two rules reset the counter:
  the end of the window, and the stale-pair timeout.  Loss, duplication and a
  fast attester make each other's probes look like the wrong half of a pair.
* *The challenge.*  A nonce must be good for one probe of one pair, across
  resets, replies the packet builder refuses, revocations and clock steps.
* *Time.*  The interval is the difference between a kernel receive stamp and an
  earlier `time.Now()`, stored in an unsigned field.
* *Reload under load.*  The lookup and the use of the pair state are two steps,
  with a revocation possible in between.
* *Leftovers.*  A failed round leaves replies in the attester's socket and half
  a pair at the anchor.
* *First start.*  The key file is looked at, then written, by separate system
  calls, with crashes between them.
* *Shutdown.*  `Run` looks at its context and its shutdown channel only between
  two visits to `epoll`; `Close` closes a channel and waits for another that only
  `Run` closes.
* *An operator at work.*  The allowlist is read on a ticker while somebody edits
  it; the offsets are stamped on another.
* *Encodings.*  An offset carries a chain of signed offsets with a one-byte
  count; a reply's count of offsets shares its byte with the challenged flag.

**What makes each component correct.**

* reflector: a challenged reply proves a causal round trip and its interval is
  the time of that round trip (`ChallengeIsCausal`); one challenged reply per
  nonce (`NonceAcceptedOnce`); completed pairs respect the rate limit
  (`CompletedPairsSpaced`); a revoked key gets at most the reply that was in
  hand (`RevocationBounded`); a reload installs its list
  (`AllowlistReplaced`) without dropping a kept key
  (`KeptKeysStayAuthorized`); all of the challenge in one sentence: it
  implements an abstract issuer of one-time challenges (`ImplementsChallenge`);
* its life: nothing leaks (`NothingLeaks`) and nothing of others is
  closed (`ClosesOnlyItsOwn`), calls of `Close` that follow each
  other are safe (`SequentialClosesSafe`), `Run` and `Close` end (`ShutdownEnds`,
  `CloseEnds`);
* anchor program: an edit of the allowlist is in force within a period
  (`EditInForce`), a key that stays listed is never disturbed
  (`ListedKeysUndisturbed`), the signed `ObservedAt` is fresh
  (`ObservedAtFresh`);
* encodings: exact or refused (`RoundTrip`), canonical (`OneEncoding`), and what
  verifies is what was signed (`ChainAsSigned`, `ReplyAsMade`);
* sender and attester: a success rests on one exchange of its own
  (`ReportIsOneExchange`, `EchoesNonce`); every round ends (`EveryRoundReports`,
  `Stops`);
* the two together: the reported interval was measured between this report's
  own datagrams (`ReportedIntervalIsMeasured`), the bound is sound
  (`ProvableBoundSound`), and both hold of a challenged report at any cadence
  (`ChallengedReportSound`); success means challenged (`SuccessIsChallenged`),
  and a clean round succeeds whatever came before it (`CleanRoundSucceeds`);
* key file: one identity (`OneIdentity`, `SettledKeyIsFinal`).

The hazards behind these properties are listed, each at its source line, under
`hazards` in `PROJECT.json`.

## 2. Modules and the code

```
Wire ── Reflector ─┬─ ReflectorChallenge (Challenge) ── MCReflector
     │             ├─ ReflectorProofs ── ReflectorPairProofs
     │             ├─ Anchor ── MCAnchor, AnchorProofs
     │             └──────────┐
     └─ Sender ── Attester ───┴─ Exchange ── MCExchange, ExchangeProofs ── CadenceProofs
                      └─ MCAttester, AttesterProofs
KeyFile ── MCKeyFile, KeyFileProofs      Lifecycle ── MCLifecycle, LifecycleProofs
Codec ── MCCodec
```

A module whose name ends in `Proofs` holds the theorems about the module it
extends (section 6).  `ReflectorPairProofs` also extends `ReflectorChallenge`
and proves the refinement; `ExchangeProofs` also extends `AttesterProofs` and
`ReflectorPairProofs`, whose invariants it composes; `CadenceProofs` adds what
is true of `Exchange` at the default timeouts.

* **Wire**: packets as records of the fields that decisions depend on.  `Uint64`
  and `Int64` are Go's conversions at the width `Word`; `ntpTimestamp` wraps in
  its field; `Sendable` is the set of offset vectors `NewReplyPacket` accepts.
* **Reflector**: the anchor.  `wall` is its clock, `inbox` the socket with the
  kernel's stamps, `inHand` the probe between the allowlist lookup and its
  handling, `states` is `senderStates` (`Fresh` is both an absent and a newly
  stored entry), `reload` the position inside `SetAuthorizedKeys`.  Actions:
  `DropMalformed`, `DropUnauthorized` and `Authorize` are `Recvmsg` up to the
  lookup; `DropRateLimited`, `DropOtherSource`, `AnswerProbe0` and
  `AnswerProbe1` are the rest of the loop body, with the resets
  (`AfterResets`), the packet builder's refusal and the late assignment of
  `lastTxTime` in their places (`Reply`); `SetAuthorizedKeys`, `RangeKey`,
  `DeleteState` and `StoreKey` are the map operations of a reload, one step
  each; `SetOffsets` is one step because the code holds a lock.  The history
  variables `sent`, `gen`, `late` and `drawn` are read by properties and by the
  bounds only.
* **Sender**: one call of `ProbePair`.  `call.pc` is the wait it is in, `poll`
  the end of the busy-poll window (which looks at neither the deadline nor the
  context), `sockbuf` the socket, `emitted` every probe sent, `challengedMode`
  the flag the sender was built with.
* **Attester**: the loop around it (`measure`, `report`, `Interrupt`,
  `Shutdown`), and `OpenSpec`, the attester against a network that answers any
  probe it ever sent, at any time, any number of times, with any defect.
* **Exchange**: both programs over a network of datagrams in flight (`net`).
  `Delivery`, `Duplication` and `Loss` are its steps, and `Passing` advances
  both clocks.  `Deployed` is what the flags' defaults and `cmd/anchor` say about
  the constants: `DefaultSetting` and the order of the timeouts,
  `DefaultCadence`.  `RoundTripsFit` says that the network is fast enough for a
  round to succeed at all.  `DeployedExchange` is `Exchange` with these three.
  `SteppedExchange` also corrects the anchor's clock.
* **KeyFile**: `LoadOrGenerate` with one step per file-system call, `Crash`
  anywhere, and any number of programs started on the same path.
* **Challenge**: what the anchor promises, without sockets, counters, windows or
  reloads.  A key has at most one live challenge; a fresh nonce is issued, once
  redeemed for the time since, or forgotten.  **ReflectorChallenge** states that
  `Reflector` implements it.  A challenge is live from the moment the reply with
  the nonce leaves (a nonce drawn for a reply that is then refused never is)
  until the pair state gives it up; receipts are the replies signed as
  challenged.
* **Lifecycle**: `NewSucceeds` and `NewFails` walk through the calls of either
  constructor; `Look`, `EpollWait`, `Recvmsg`, `Fault` and `Deferred` are `Run`
  without the handling of a probe; `CloseLooks`, `CloseShutdown` and
  `CloseWaits` are the three steps of `Close`, taken by several goroutines.
  `CloseSender` is the sender's.  `CloseFds` is `unix.Close`; the history variable
  `stray` records that it met a number that is not held.
* **Anchor**: extends `Reflector` with the two loops of `cmd/anchor`.  A file is
  a sequence of lines (a key, `Blank` or `Bad`); `disk` holds every file the path
  has named, because a reader keeps the one it opened.  `OpenAllowlist`,
  `ScanLine`, `KeepPrevious` and `Install` are a reload; `ReplaceKeys` is
  `Reflector`'s `SetAuthorizedKeys` going on, key by key; `StampOffset` and
  `PublishOffset` are a refresh.  The operator appends a line (`Enrol`), renames
  a new file into place (`Save`), or truncates the file and writes it again
  (`Truncate`, `WriteLine`).
* **Codec**: recursive operators named after the functions of `offset.go` and
  `packet.go`.  An encoded offset is a sequence of its parts, a signature and a
  header in turn; a signature holds the key and the message, so that it verifies
  for nothing else.  The actions are the life of an offset: signed and changed
  at any place in its chain, encoded, damaged, decoded, or sent in a reply, which
  may be damaged too, and read by the attester.

`PROJECT.json` maps each definition to its lines.  Definitions marked "Wrong
variant" are plausible mistakes; each property is violated when one of them
takes the place of the definition it varies.

## 3. Runs

| run | question | result |
|---|---|---|
| `reflector_pairs` | one key, two addresses, offsets that change between accepted and refused vectors, probes in any order: is a challenged reply causal and are completed pairs spaced? | holds |
| `reflector_reload` | two keys, no rate limit, a random source that may fail, every allowlist: revocation, installation, kept keys, one use per nonce, causality across deletions, and does every step implement one of `Challenge`? | holds |
| `reflector_interval` | is the signed interval always elapsed time, as `packet.go` says? | no, finding 1 |
| `attester` | in either mode, what does a report rest on, and does every round end? | holds |
| `exchange_deployed` | two rounds in either mode at the default cadence (scaled), three losses, two duplicates, reloads that keep the attester (`DeployedExchange`): measured, sound, challenged, and clean rounds succeed? | holds |
| `exchange_fast` | the reported interval when the cadence beats the stale timeout | violated, finding 2 |
| `exchange_stepped` | soundness of the bound under a clock correction | violated, finding 3 |
| `keyfile_starts` | three programs, three crashes: unique unless first starts overlap, and final once settled | holds |
| `keyfile_concurrent` | can identity rotate? | yes, finding 4 |
| `lifecycle` | constructors that fail anywhere, faults, a steady stream, two goroutines that close: leaks, closes of what is not held, panics, and does everything end? | holds |
| `anchor` | two edits of any kind while the two tickers run: when is an edit in force, who is disturbed, how old is an observation? | holds |
| `codec` | every chain of up to eight offsets, damaged or not: exact, canonical, as signed; and replies as made? | holds |

`CHECK_DEADLOCK FALSE` appears where the system may stop: the attester ends
after its count or a signal, a program that fails to load its key stays down, a
reflector that was closed is done, a decoded offset is not used again.

What the conditions in these properties mean:

* `ShutdownEnds` and `CloseEnds` make one exception, a socket that never becomes
  empty: the inner loop of `Run` looks at neither the context nor the channel.
  `CloseEnds` makes a second, a `Run` that was never started: `Close` then waits
  for ever, which `cmd/anchor` avoids only because nothing between the
  constructor and `Run` can fail.
* `SequentialClosesSafe` says when `Close` may panic: only when two calls
  overlap, since both can find `closed` open and close `shutdown`.
* `ClosesOnlyItsOwn` makes an exception of a sender that is closed twice:
  `LinuxSender.Close` closes the same two numbers again, which the process may
  have reused by then.  `cmd/attester` closes its sender once.
* `EditInForce` is about files that parse.  While a file does not, the previous
  list stays in force, a key the operator has deleted included, however long
  that lasts.
* `ListedKeysUndisturbed` is about files that are appended to or replaced.  A
  reload that meets a file truncated for rewriting revokes every key that is not
  yet written again, and their open pairs, until the next reload.

## 4. Bounds

All bounds are constants named in the modules.  Time is in ticks; what matters
is the order of the timeouts, which every configuration keeps but
that of `exchange_fast`, whose question is what becomes of a report when the
interval is below the stale timeout.

* `Word` 64 or 1024 stands for 2^64, larger than every time in a run, as in the
  code (`WidthAssumption`); a negative interval still wraps to a value no clock
  shows.  `NtpEpochOffset` is 3 ticks.
* `MaxClock` in `reflector_pairs` is 5 with a window of 3 and a stale timeout of
  1: a pair, its window's end, a second pair and a stale reset all fit.
* `MaxInbox` 2 lets a duplicate sit behind its original; `MaxSent` 4 gives two
  complete pairs; two pairs are what each of the properties speaks of.
  `reflector_reload` uses one queued datagram, three replies and two deletions
  per key, so that a key is revoked, restored and used again.
* `Nonces` is one larger than the pairs that can open before a property could
  fail.  A behaviour whose nonces are used up cannot open another pair; the
  shorter behaviours it extends are all explored.
* `SeqWord` 2 makes the 32-bit sequence number wrap in every second probe, the
  worst case for the matching of replies; the wrap after 2^32 probes is the
  same event.
* `MaxLag` is how long a runnable step is kept waiting, `MaxBuf` the depth of
  the attester's socket.  1 and 1, or 0 and 2, suffice for a late reply to meet
  the next round.
* `Exchange`: `MaxDelay` up to 2 with `MinDelay` 1 allows reordering;
  `MaxLosses` 3 and `MaxDups` 2 are enough to lose or duplicate every kind of
  datagram of the first round and to spoil part of the second.  `Timeout` < `StaleTimeout` <
  `VerifyInterval` < `Interval` is the order of the defaults, with the pause
  starting at the end of a round as in the code.  The values satisfy `Deployed`
  and `RoundTripsFit`, or else `DeployedExchange` would have no behaviour; the
  theorems say the same of all other values that do.
* `MaxCrashes` 3, three programs and four keys: each program can crash once, or
  one program thrice.
* `Lifecycle`: two goroutines with two calls of `Close` each; a queue of two is
  enough for a stream that never ends.
* `Anchor`: two edits of any kind, files of up to two lines (three after an
  append), both periods 2 ticks, `LoopLag` 1 and a clock of 6: two reloads and two
  refreshes can follow an edit.  Receive-loop traffic is left out here: it
  changes neither the list nor the offsets.
* `Codec`: `RefWord` 7 stands for 256; like it, it exceeds the five references a
  decoder accepts, so that chains exist that are too large without wrapping (six),
  wrap to 0 and 1 (seven, eight) and wrap twice (fourteen, side by side or a level
  apart).  All 626 chains of at most eight offsets are explored; those of at most
  three are signed and changed in every order of three steps by two keys.

Symmetry is used on nonces, addresses, keys, programs and private keys, which no
definition distinguishes, and only in runs without liveness properties.

## 5. Fairness

`attester` and `lifecycle` check liveness.  `WF(AttesterStep)`: the attester is
a single loop on a locked OS thread whose every wait has a timeout, so a step
that stays possible is taken.  `WF(Time)`: clocks advance.  Nothing is assumed
about the network: replies may never come, or never stop coming.
`WF(RunStep)`: `Run` is a loop on a locked OS thread whose `EpollWait` has a
timeout.  `WF(CloseStep(c))`: a goroutine inside `Close` is scheduled.  Signals,
faults, arrivals, the end of the context and the calls themselves are not
assumed to happen.  The safety
specifications state no fairness.

## 6. Proofs

TLAPS proves, for every set of keys, addresses, nonces, offset vectors, lists,
files, programs and goroutines and every value of the timeouts and bounds:

| theorem | statement | inductive invariant |
|---|---|---|
| `TypeCorrect` | `Spec => []TypeOK` | `TypeInv`: types, and an open pair has a start |
| `ReloadCorrect` | `Spec => []AllowlistReplaced` | `ReloadInv`: keys to be visited are in the map, others in it are on the new list, stored ones are in it |
| `KeptKeysCorrect` | `Spec => KeptKeysStayAuthorized` | none: every step |
| `RevocationCorrect` | `Spec => []RevocationBounded` | `LateInv`: a reply since the revocation and a probe in hand of the revoked key exclude each other |
| `NonceCorrect` | `SteppedSpec => []NonceAcceptedOnce` | `NonceInv`: live nonces are drawn, live for one key, and not those of challenged replies |
| `SpacingCorrect` | `Spec => []CompletedPairsSpaced` | `TimeInv` and `SpacedInv` |
| `ChallengeCorrect` | `Spec => []ChallengeIsCausal` | `TimeInv` and `ChallengeInv` |
| `ChallengeImplemented` | `Spec => ImplementsChallenge` | the same; every step maps to a step of `Challenge` or a stutter |
| `AttesterTypeCorrect` | `OpenSpec => []AttesterTypeOK` | `AttesterInv(NetReplies)` |
| `OneExchangeCorrect` | `OpenSpec => []ReportIsOneExchange` | the same |
| `EchoesNonceCorrect` | `OpenSpec => []EchoesNonce` | the same |
| `FreshnessCorrect` | `AnchorSpec => []ObservedAtFresh` | `RefreshInv`: the offset in force was signed after the last tick but one, the one signed and not set after the last |
| `EditCorrect` | `AnchorSpec => []EditInForce` | `AllowlistInv` |
| `ListedKeysCorrect` | `AnchorSpec => []ListedKeysUndisturbed` | `AllowlistInv` |
| `IdentityCorrect` | `KeySpec => []OneIdentity` | `OneStart`: without overlap at most one program is between its look at the path and its result, and the file has the announced key |
| `SettledCorrect` | `KeySpec => SettledKeyIsFinal` | `KeyTypeInv` |
| `LifeTypeCorrect` | `LifeSpec => []LifeTypeOK` | `LifeTypeOK` |
| `LeakCorrect` | `LifeSpec => []NothingLeaks` | `LeakInv`: which descriptors are open at each point of a constructor, of `Run` and of `Close` |
| `OwnCorrect` | `LifeSpec => []ClosesOnlyItsOwn` | `LeakInv` and `StrayInv` |
| `SequentialClosesCorrect` | `LifeSpec => []SequentialClosesSafe` | `OneCloser`: without overlap one goroutine at most is inside `Close` |
| `ChallengedReportCorrect` | `Exchange => []ChallengedReportSound` | `ExchangeInv`: those of both parts, and `NetworkInv` |
| `PartsCorrect` | `Exchange => [](TypeOK /\ ... /\ ChallengeIsCausal /\ ...)`, what the parts promise alone | the same |
| `IntervalCorrect` | `Exchange /\ Deployed => []ReportedIntervalIsMeasured` | `ExchangeInv` and `CadenceInv`: what is where during a round, and what an earlier round can have left |
| `BoundCorrect` | `Exchange /\ Deployed => []ProvableBoundSound` | the same |
| `ChallengedCorrect` | `Exchange /\ Deployed => []SuccessIsChallenged` | the same |
| `CleanRoundsCorrect` | `Exchange /\ Deployed /\ RoundTripsFit => []CleanRoundSucceeds` | the same and `CleanInv`: where the one datagram of a clean round is, and how much time it has used |

*From what.*  The named assumptions of the modules: a nonce is not a number, a
field has more than one value, timeouts, periods and bounds are naturals and
periods positive, offset vectors have their type, allowlists are sets of keys,
files are sequences of lines and a line without a key is none, and no two
readings of the anchor's clock are further apart than the field is wide.  For
`Exchange`, that the anchor's reference RTT and such an interval together are in
the range of a `time.Duration` (`DurationAssumption`), that no datagram is faster
than `MinDelay`, and that the two clocks run at the same rate.

The theorems of `CadenceProofs` are not true of every value of the constants
(finding 2 and the note on `-verify-interval 0` are counterexamples) and name as
a hypothesis what they need:

* `DefaultCadence`, the order of the timeouts.  The code has 15 ms
  (`busyPollWindow`), 2 s (`-timeout`), 5 s (`stalePairTimeout`), 29 s
  (`-verify-interval`) and 30 s (`-interval`).  Between the last two there is one
  second, which the delays of the network may not vary by more than.
* `DefaultSetting`.  The random source does not fail: `go.mod` asks for Go 1.25,
  whose `crypto/rand` ends the program instead.  Every vector of offsets can be
  sent: `referenceOffset` makes one blob of one offset without references.  Every
  allowlist names the attester, and `-anchor-key` is the anchor's key.  The clocks
  stop before the 2^32 sequence numbers are used up, which takes some two thousand
  years of rounds.
* `RoundTripsFit`, for `CleanRoundSucceeds` alone: no `Sendto` fails, and four
  delays, each with the time a program takes to react, are less than the timeout.
  Without it no round need succeed.

*Along which argument.*

* **Reflector.**  Neither spacing nor causality is inductive.  Both rest on the
  order of arrivals, `TimeInv`: datagrams are read in the order of their kernel
  stamps, nothing is stamped in the future, and no pending probe is older than
  the start of an open pair.  `SpacedInv` then says that a completed pair of a
  state lies a whole window before a pair that is open and not after one that is
  complete; the delicate step is the stale reset, which is exempt from the rate
  limit and keeps the distance only because the abandoned pair had itself kept
  it.  `ChallengeInv` has three parts: published nonces were drawn, so a fresh
  one has never been published; a live nonce was published, if at all, by the
  reply that opened its pair, whose send time is still `lastTx`; and a pending
  probe that carries a nonce arrived after the reply that published it.
  Together they make the interval of a challenged reply nonnegative, so that
  `Uint64` is the identity on it.  This is exactly what fails for unchallenged
  replies (finding 1).  `NonceCorrect` needs no order of time and is proved for
  stepped clocks; `ChallengeCorrect` and `SpacingCorrect` are not true of those.
* **Refinement.**  With `TimeInv` and `ChallengeInv`, answering probe 0 is
  `Issue` (or `Forget`, when `randomNonce` failed or the reply was refused),
  answering a later probe is `Redeem` when the reply is challenged and `Forget`
  otherwise, deleting a state is `Forget`, and everything else stutters.
* **Attester.**  `AttesterInv(R)` is stated for any set `R` of replies that may
  be delivered.  Beside the types it says what a call holds in each of its
  states: in `wait0` its probe 0 is the last in the log; in `wait1` both probes
  are the last two, reply 0 echoes the first and, when challenged, the second
  carries its nonce slot; after success reply 1 echoes the second and is signed
  by the anchor.  `ReportIsOneExchange` is not inductive because nothing in it
  keeps a later success from sharing a probe with an earlier one: `LogInv` adds
  that every reported success was answered to a probe before those of the call
  under way (`Own` of them).
* **Anchor.**  `EditInForce` speaks of real time and is not inductive.
  `PaceInv` places the steps of a reload between its tick and a lag after it;
  `LoaderInv` says that a loader whose file has not changed since the tick has
  exactly the keys of the lines it has passed; `ForceInv` concludes that such a
  file is the list last given to `SetAuthorizedKeys`, and that one unchanged
  since the tick before is in force even while a reload is replacing the list by
  itself.  For `ListedKeysUndisturbed`, `CoreInv` says that without truncation
  every file a loader may have open is a version, and that the list in force and
  the one being installed have the keys that all versions name.
* **Key file and life cycle.**  Both turn on a history flag: as long as no two
  starts (calls of `Close`) have overlapped, at most one process is in the
  middle of one, and what it looked at is still so.

* **Exchange.**  `ChallengedReportCorrect` needs no timing: a report whose
  interval is between other datagrams (finding 2) is never challenged.  No run
  checks `ChallengedReportSound`, since at the default cadence it follows from
  the properties of `exchange_deployed`; what it adds is every other cadence,
  which is the theorem's.  TLC agrees at the one of finding 2: `MCExchangeFast.cfg`
  with this invariant, `Count` 3, `MaxDelay` 2, `MaxLosses` 2 and `MaxDups` 1
  finishes without error after 2.3 million states, among them some where a
  challenged report follows a report of other datagrams.
  `AttesterInv(R)` is used with the anchor's `Replies` for `R`, and the
  reflector's invariants for the probes of an attester.  `NetworkInv` follows a
  nonce around the loop: a reply in the attester's socket left the anchor at
  least `MinDelay` before now (`SocketInv`); a nonce in a probe the attester sent
  was released as long before (`ProbeInv`, `FlightInv`); a probe that has
  arrived took another `MinDelay` (`ArrivedInv`).  `SentInv` adds that a nonce is
  published once, that only second replies are challenged, and that a reply
  which opens no pair carries an interval.  A challenged report's reply 1 was
  caused by the reply that published its nonce (`ChallengeIsCausal`); its reply 0
  carries that nonce (`EchoesNonce`); so the two are one, the signed interval is
  between them, and it spans two delays.
* **Cadence.**  The properties speak of the anchor's pair state and of the
  attester's round at once, and the two know of each other only through time.
  `DueInv` bounds how long a datagram can be on its way or pending, `SettledInv`
  says that since the end of the last round nothing new was sent and the pair
  was touched for the last time soon after it.  So when the next round begins the
  network and the anchor hold no old probe, and the pair that is left is stale if
  it is half a pair and past its window if it is whole (`Lapsed`).  `AroundInv` says
  that during a call only its own probes are about, and `RoundInv` that the pair
  is then in one of three states: `Untouched`, `Opened` by probe 0, or `Closed`,
  the reply to probe 1, if any, being the second of the pair that reply 0
  opened.  A copy of probe 0 can close the pair, and then nothing answers probe 1
  and the round fails; no timeout falls into the round, because a call lasts
  `Timeout` at most.  `SeqInv` and `KnownInv` make a reply to a probe a reply to
  one probe, as sequence numbers increase.
* **Clean rounds.**  In a round that has met no loss and no duplicate there is one
  datagram under way: the probe awaited is on its way to the anchor or in its
  hands (`Coming`, `AtAnchor`), or its reply is returning or in the attester's
  socket (`Returning`, `Queued`), behind replies to earlier rounds, which are
  skipped at once.  `SmoothInv` has for each how much of the two round trips can
  have passed; `RoundTripsFit` makes it less than the timeout.  That the pair is
  not closed early, by a probe of another round or a copy, is `RoundInv`.

*Only model-checked*: the liveness properties (temporal reasoning under fairness
is outside the prover's reach); `Codec` (its operators are recursive, which is
outside it too, and what they compute for every chain would need induction over
data); and all findings, which are counterexamples.

## 7. Where the code and its documents disagree

1. `reflector_interval`: a copy of probe 0 that the kernel stamped before reply 0
   left is handled as probe 1; the negative interval becomes a value near 2^64.
   The reply is never challenged, so no sound use of it exists, but it is
   signed.
2. `exchange_fast`: when rounds follow each other faster than the stale timeout
   and a probe 1 is lost, the next probe 0 completes the old pair; a later
   success reports an interval between other datagrams than its own.
3. `exchange_stepped`: the interval is a difference of wall-clock readings; a
   backward correction during a measurement makes the bound too small.
4. `keyfile_concurrent`: two overlapping first starts both find no file, and the
   second write replaces the first key.

Two more notes.  With `-verify-interval 0` (none of the configurations kept)
a completed pair is never reset (the stale rule needs `pairCount == 1`), so no
second nonce is drawn for a key while its state lives, and later rounds succeed
unchallenged: `MCExchangeFast.cfg` with `VerifyInterval` 0, `StaleTimeout` 10,
`Interval` 12 and no losses violates `SuccessIsChallenged`, which
`exchange_deployed` shows for a positive interval.
On the rate limit, the comments speak of two probes per window
(`reflector.go:21`), but abandoned pairs are reset after the stale timeout
without counting.  `CompletedPairsSpaced` states what does hold.

## 8. Abstractions

* A signature is the key that made it, and in `Codec` the message too: Ed25519
  is ideal.  That nothing verifies which was not signed is an assumption (Go's
  `Verify` does not refuse keys of small order).  The reflector does not verify the
  signatures of probes, and neither does the model: any sender may put any key
  in a probe.
* A nonce never equals a timestamp, an interval or 0, and is never drawn twice.
  `randomNonce` may fail, which yields 0.
* The handling of an authorized probe is one step.  The pair state is touched by
  the receive loop alone; a `senderStates.Delete` that falls into it orphans the
  state, exactly as one just after it does; the offsets are read once.
* The kernel stamps every datagram.  The fallback to `time.Now()` is the same
  reading at a later moment and corresponds to a datagram that arrived then.
* The sender looks at its context whenever `EpollWait` returns: on a datagram, a
  signal or the deadline.  The model lets a cancelled context be seen at any
  moment after the busy-poll window, or not before the deadline.
* `Crash` in `KeyFile` is the end of a process.  A loss of power is not modelled:
  `os.WriteFile` does not sync, and the file could be lost or empty after one.
* Distances are in light time: `ProvableMaxDistance` is one unit per half tick.
* Replies carry the offset fields the reflector reads (slot and RTT), not
  coordinates; in `Codec` all of an offset's plain fields are one value, and a
  bit flip is a change of one part.
* A line of the allowlist is written and read whole.  A line caught half written
  does not parse, which is `Bad`.
* A path that cannot be opened is a file whose first line is `Bad`: either way
  `LoadAllowlist` returns an error.

## 9. What is not modelled

`Sender.Probe`, the single-probe call, which no program uses, and the failures
of `epoll` and `Recvmsg` inside a call of `ProbePair`, which end it with an error
like a failed send; byte order and the positions of fixed fields; flag checks,
text and JSON output and logging; `CalibratedDistance`, an estimate on floating
point numbers that nothing depends on; the non-Linux stub, which has no state.
Each is a component or part of one in `PROJECT.json`.

## 10. Plan

Done, in this order: `Wire`, `Reflector` (the core), its two proof modules,
`Sender`, `Attester`, `Exchange`, `KeyFile`, `Challenge` and the refinement,
`Lifecycle`, `Anchor`, `Codec`; then the proofs of the refinement and about
`KeyFile`, `Lifecycle`, `Attester`, `Anchor` and `Exchange`, the last of them
about `Exchange` at the default cadence.  Every safety property that a run shows
to hold is now a theorem, but those of `Codec`.

Should the code change, `Sender.Probe` belongs into `Sender` once a program calls
it.
