----------------------------- MODULE Challenge -----------------------------
(***************************************************************************)
(* What the anchor promises of a challenged measurement, without sockets,  *)
(* counters, windows or reloads: a fresh nonce is issued to a key at an    *)
(* address, and at most once, by whoever has it, redeemed there for a      *)
(* receipt of the time that has passed since it was issued.                *)
(***************************************************************************)
EXTENDS Integers

CONSTANTS
    Keys,           \* the keys challenges are issued to
    IPs,            \* the addresses they are issued to
    Nonces,         \* the nonces
    Times,          \* readings of the issuer's clock
    NoChallenge     \* a key has no live challenge

VARIABLES
    live,           \* the challenge of each key that can still be redeemed
    used,           \* the nonces issued so far
    receipts        \* what has been signed

challengeVars == <<live, used, receipts>>

\* A fresh nonce replaces whatever challenge the key had.
Issue(k, ip, n, t) ==
    /\ n \notin used
    /\ live' = [live EXCEPT ![k] = [ip |-> ip, nonce |-> n, at |-> t]]
    /\ used' = used \cup {n}
    /\ UNCHANGED receipts

\* The nonce came back at time t, not before it was issued.
Redeem(k, t) ==
    /\ live[k] # NoChallenge
    /\ live[k].at <= t
    /\ receipts' = receipts \cup {[key |-> k, ip |-> live[k].ip,
                                   nonce |-> live[k].nonce,
                                   interval |-> t - live[k].at]}
    /\ live' = [live EXCEPT ![k] = NoChallenge]
    /\ UNCHANGED used

\* A challenge lapses.
Forget(k) ==
    /\ live' = [live EXCEPT ![k] = NoChallenge]
    /\ UNCHANGED <<used, receipts>>

ChallengeInit ==
    /\ live = [k \in Keys |-> NoChallenge]
    /\ used = {}
    /\ receipts = {}

ChallengeNext ==
    \E k \in Keys :
        \/ \E ip \in IPs, n \in Nonces, t \in Times : Issue(k, ip, n, t)
        \/ \E t \in Times : Redeem(k, t)
        \/ Forget(k)

ChallengeSpec == ChallengeInit /\ [][ChallengeNext]_challengeVars
============================================================================
