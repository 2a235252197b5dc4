--------------------------- MODULE KeyFileProofs ---------------------------
(***************************************************************************)
(* Theorems about KeyFile: any number of programs, starts and crashes.     *)
(***************************************************************************)
EXTENDS KeyFile, FiniteSetTheorems, TLAPS

----------------------------------------------------------------------------
(* The types of the state, and what a program that has drawn a key holds. *)

Places == Starting \cup {"down", "running", "failed"}

KeyTypeInv ==
    /\ file \in {Absent, Empty} \cup PrivateKeys
    /\ pc \in [Procs -> Places]
    /\ id \in [Procs -> PrivateKeys \cup {NoKey}]
    /\ used \subseteq PrivateKeys
    /\ announced \subseteq PrivateKeys
    /\ overlap \in BOOLEAN
    /\ crashes \in Nat
    /\ \A p \in Procs : pc[p] \in {"create", "write"} => id[p] \in PrivateKeys

\* KeyTypeInv holds at first.
LEMMA KeyTypeInit == KeyInit => KeyTypeInv
<1> SUFFICES ASSUME KeyInit PROVE KeyTypeInv
  OBVIOUS
<1>1. pc \in [Procs -> Places] /\ \A p \in Procs : pc[p] = "down"
  BY DEF KeyInit, Places
<1>2. id \in [Procs -> PrivateKeys \cup {NoKey}]
  BY DEF KeyInit
<1>3. overlap \in BOOLEAN /\ crashes \in Nat
  BY DEF KeyInit
<1>4. QED
  BY <1>1, <1>2, <1>3 DEF KeyInit, KeyTypeInv

\* Every step keeps the types.
LEMMA KeyTypeStep == KeyTypeInv /\ [KeyNext]_keyVars => KeyTypeInv'
<1> SUFFICES ASSUME KeyTypeInv, [KeyNext]_keyVars PROVE KeyTypeInv'
  OBVIOUS
<1> USE DEF KeyTypeInv, Places, Starting
<1>1. ASSUME NEW p \in Procs, Begin(p) PROVE KeyTypeInv'
  BY <1>1 DEF Begin
<1>2. ASSUME NEW p \in Procs, LoadOrGenerate(p) PROVE KeyTypeInv'
  BY <1>2 DEF LoadOrGenerate
<1>3. ASSUME NEW p \in Procs, Generate(p) PROVE KeyTypeInv'
  <2>1. CASE Exists
    BY <1>3, <2>1 DEF Generate
  <2>2. CASE ~Exists
    BY <1>3, <2>2 DEF Generate
  <2>3. QED
    BY <2>1, <2>2
<1>4. ASSUME NEW p \in Procs, CreateFile(p) PROVE KeyTypeInv'
  BY <1>4 DEF CreateFile
<1>5. ASSUME NEW p \in Procs, WriteFile(p) PROVE KeyTypeInv'
  BY <1>5 DEF WriteFile, Run
<1>6. ASSUME NEW p \in Procs, Load(p) PROVE KeyTypeInv'
  BY <1>6 DEF Load, Run
<1>7. ASSUME NEW p \in Procs, Crash(p) PROVE KeyTypeInv'
  BY <1>7 DEF Crash
<1>8. CASE UNCHANGED keyVars
  BY <1>8 DEF keyVars
<1>9. QED
  BY <1>1, <1>2, <1>3, <1>4, <1>5, <1>6, <1>7, <1>8 DEF KeyNext

----------------------------------------------------------------------------
(* One identity, as long as no two starts overlap. *)

\* The program that is starting, if there is one, is alone, and what it saw of
\* the file is still true; nothing but the key on disk has been announced.
OneStart ==
    ~overlap =>
        /\ \A p, q \in Procs : pc[p] \in Starting /\ pc[q] \in Starting => p = q
        /\ \A p \in Procs : pc[p] \in {"generate", "create"} => file = Absent
        /\ \A p \in Procs : pc[p] = "write" => file = Empty
        /\ announced \subseteq {file}

\* Every step keeps the invariant of a single start.
LEMMA OneStartStep == KeyTypeInv /\ OneStart /\ [KeyNext]_keyVars => OneStart'
<1> SUFFICES ASSUME KeyTypeInv, OneStart, KeyNext \/ UNCHANGED keyVars, ~overlap'
             PROVE  /\ \A p, q \in Procs : pc'[p] \in Starting /\ pc'[q] \in Starting => p = q
                    /\ \A p \in Procs : pc'[p] \in {"generate", "create"} => file' = Absent
                    /\ \A p \in Procs : pc'[p] = "write" => file' = Empty
                    /\ announced' \subseteq {file'}
  BY DEF OneStart
<1> DEFINE Goal == /\ \A p, q \in Procs : pc'[p] \in Starting /\ pc'[q] \in Starting => p = q
                   /\ \A p \in Procs : pc'[p] \in {"generate", "create"} => file' = Absent
                   /\ \A p \in Procs : pc'[p] = "write" => file' = Empty
                   /\ announced' \subseteq {file'}
<1>1. pc \in [Procs -> Places] /\ announced \subseteq PrivateKeys
  BY DEF KeyTypeInv
<1>2. Absent \notin PrivateKeys /\ Empty \notin PrivateKeys /\ Absent # Empty
  BY KeyAssumption
<1>3. ASSUME NEW p \in Procs, Begin(p) PROVE Goal
  BY <1>1, <1>3 DEF Begin, OneStart, Starting
<1>4. ASSUME NEW p \in Procs, LoadOrGenerate(p) PROVE Goal
  BY <1>1, <1>4 DEF LoadOrGenerate, OneStart, Starting, Exists
<1>5. ASSUME NEW p \in Procs, Generate(p) PROVE Goal
  BY <1>1, <1>5 DEF Generate, OneStart, Starting
<1>6. ASSUME NEW p \in Procs, CreateFile(p) PROVE Goal
  <2>1. ~overlap /\ file = Absent /\ pc[p] = "create" /\ file' = Empty
        /\ pc' = [pc EXCEPT ![p] = "write"] /\ announced' = announced
    BY <1>6 DEF CreateFile, OneStart
  <2>2. announced = {}
    BY <1>1, <1>2, <2>1 DEF OneStart
  <2>3. \A q \in Procs \ {p} : pc[q] \notin Starting
    BY <2>1 DEF OneStart, Starting
  <2>4. QED
    BY <1>1, <2>1, <2>2, <2>3 DEF Starting
<1>7. ASSUME NEW p \in Procs, WriteFile(p) PROVE Goal
  <2>1. ~overlap /\ file = Empty /\ pc[p] = "write" /\ file' = id[p]
        /\ pc' = [pc EXCEPT ![p] = "running"] /\ announced' = announced \cup {id[p]}
    BY <1>7 DEF WriteFile, Run, OneStart
  <2>2. announced = {}
    BY <1>1, <1>2, <2>1 DEF OneStart
  <2>3. \A q \in Procs \ {p} : pc[q] \notin Starting
    BY <2>1 DEF OneStart, Starting
  <2>4. QED
    BY <1>1, <2>1, <2>2, <2>3 DEF Starting
<1>8. ASSUME NEW p \in Procs, Load(p) PROVE Goal
  BY <1>1, <1>8 DEF Load, Run, OneStart, Starting
<1>9. ASSUME NEW p \in Procs, Crash(p) PROVE Goal
  BY <1>1, <1>9 DEF Crash, OneStart, Starting
<1>10. CASE UNCHANGED keyVars
  BY <1>10 DEF keyVars, OneStart
<1>11. QED
  BY <1>3, <1>4, <1>5, <1>6, <1>7, <1>8, <1>9, <1>10 DEF KeyNext

\* A set with no element but one has at most one.
LEMMA AtMostOne == ASSUME NEW x, NEW S, S \subseteq {x} PROVE Cardinality(S) <= 1
<1>1. IsFiniteSet({x}) /\ Cardinality({x}) = 1
  BY FS_Singleton
<1>2. Cardinality(S) <= Cardinality({x})
  BY <1>1, FS_Subset
<1>3. QED
  BY <1>1, <1>2

\* However many programs share the key path, and wherever they crash and are
\* started again: as long as no two of them were starting at the same time, all
\* that ever ran did so under one identity.
THEOREM IdentityCorrect == KeySpec => []OneIdentity
<1>1. KeyInit => OneStart
  BY DEF KeyInit, OneStart, Starting
<1>2. OneStart => OneIdentity
  <2> SUFFICES ASSUME OneStart, ~overlap PROVE Cardinality(announced) <= 1
    BY DEF OneIdentity
  <2>1. QED
    BY AtMostOne DEF OneStart
<1>3. QED
  BY <1>1, <1>2, KeyTypeInit, KeyTypeStep, OneStartStep, PTL DEF KeySpec

----------------------------------------------------------------------------
(* A settled key is final, even when starts overlap. *)

\* Once a key is on disk and no program is past a look that found none, no step
\* of any program changes the file or gets past such a look.
THEOREM SettledCorrect == KeySpec => SettledKeyIsFinal
<1> DEFINE Final == Settled => Settled' /\ file' = file
<1>1. KeyTypeInv /\ KeyNext => Final
  <2> SUFFICES ASSUME KeyTypeInv, NEW p \in Procs, Settled,
                      \/ Begin(p) \/ LoadOrGenerate(p) \/ Generate(p)
                      \/ CreateFile(p) \/ WriteFile(p) \/ Load(p) \/ Crash(p)
               PROVE  Settled' /\ file' = file
    BY DEF KeyNext
  <2>1. pc \in [Procs -> Places] /\ file \in PrivateKeys /\ file # Absent
    BY KeyAssumption DEF KeyTypeInv, Settled
  <2>2. pc[p] \notin {"generate", "create", "write"}
    BY DEF Settled
  <2>3. /\ file' = file
        /\ \E place \in {"down", "stat", "load", "running", "failed"} :
              pc' = [pc EXCEPT ![p] = place]
    BY <2>1, <2>2 DEF Begin, LoadOrGenerate, Generate, CreateFile, WriteFile, Load,
                      Crash, Run, Exists
  <2>4. QED
    BY <2>1, <2>3 DEF Settled
<1>2. KeyTypeInv /\ [KeyNext]_keyVars => [Final]_keyVars
  BY <1>1
<1>3. QED
  BY <1>2, KeyTypeInit, KeyTypeStep, PTL DEF KeySpec, SettledKeyIsFinal
============================================================================
