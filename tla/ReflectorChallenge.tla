------------------------- MODULE ReflectorChallenge -------------------------
(***************************************************************************)
(* The reflector implements Challenge.  A challenge is live for a key once *)
(* the reply that carries the nonce of its pair state has been sent: a     *)
(* nonce drawn for a reply that NewReplyPacket refused is not.  A receipt  *)
(* is a reply signed as challenged.                                        *)
(***************************************************************************)
EXTENDS Reflector

NoChallenge == [ip |-> NoIP, nonce |-> 0, at |-> ZeroTime]

LiveChallenge(k) ==
    IF states[k].nonce \in Published
    THEN [ip |-> states[k].ip, nonce |-> states[k].nonce, at |-> states[k].lastTx]
    ELSE NoChallenge

Receipt(m) == [key |-> m.reply.probe.key, ip |-> m.to, nonce |-> m.reply.probe.stamp,
               interval |-> m.reply.since]

Receipts == {Receipt(sent[i]) : i \in {j \in DOMAIN sent : sent[j].reply.challenged}}

Promise == INSTANCE Challenge
    WITH Times <- 0 .. MaxClock,
         live <- [k \in Keys |-> LiveChallenge(k)],
         used <- Published,
         receipts <- Receipts

\* Whatever probes arrive, in whatever order and however often, while the
\* allowlist and the offsets change: every step of the reflector issues one
\* fresh nonce, redeems one live nonce for the exact time since its reply left
\* for that key and address, lets a challenge lapse, or changes none of this.
\* (Reflector.Run: the nonce, pairSourceIP and lastTxTime of senderState.)
ImplementsChallenge == Promise!ChallengeSpec
=============================================================================
