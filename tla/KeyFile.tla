------------------------------ MODULE KeyFile ------------------------------
(***************************************************************************)
(* The identity of an anchor or an attester: the key file of               *)
(* internal/keys/keys.go, read or created by LoadOrGenerate whenever a     *)
(* program that names it starts.  Every file-system call is a step, and a  *)
(* program may crash between any two of them and be started again.         *)
(***************************************************************************)
EXTENDS Naturals, FiniteSets

CONSTANTS
    Procs,          \* programs started with the same key path
    PrivateKeys,    \* what ed25519.GenerateKey may return
    Absent, Empty,  \* the file does not exist; it was created, not written
    NoKey,          \* the key of a program that has none
    MaxCrashes      \* bound: crashes in a behaviour

ASSUME KeyAssumption ==
    /\ MaxCrashes \in Nat
    /\ Absent # Empty /\ {Absent, Empty, NoKey} \cap PrivateKeys = {}

VARIABLES
    file,       \* Absent, Empty or the private key it holds
    pc,         \* where each program is
    id,         \* the private key each program holds
    used,       \* history: the keys drawn by GenerateKey
    announced,  \* history: the keys programs have run with
    overlap,    \* history: a program was started while another was starting
    crashes     \* crashes so far

keyVars == <<file, pc, id, used, announced, overlap, crashes>>

\* What os.Stat reports.
Exists_Never == FALSE       \* Wrong variant: the file is never seen.
Exists == file # Absent

Starting == {"stat", "generate", "create", "write", "load"}

Begin(p) ==
    /\ pc[p] = "down"
    /\ overlap' = (overlap \/ \E q \in Procs : pc[q] \in Starting)
    /\ pc' = [pc EXCEPT ![p] = "stat"]
    /\ UNCHANGED <<file, id, used, announced, crashes>>

\* LoadOrGenerate: the first look at the file chooses the branch.
LoadOrGenerate(p) ==
    /\ pc[p] = "stat"
    /\ pc' = [pc EXCEPT ![p] = IF Exists THEN "load" ELSE "generate"]
    /\ UNCHANGED <<file, id, used, announced, overlap, crashes>>

\* Generate: a second look, then a new key.
Generate(p) ==
    /\ pc[p] = "generate"
    /\ \/ /\ Exists
          /\ pc' = [pc EXCEPT ![p] = "failed"]
          /\ UNCHANGED <<id, used>>
       \/ /\ ~Exists
          /\ \E k \in PrivateKeys \ used :
                id' = [id EXCEPT ![p] = k] /\ used' = used \cup {k}
          /\ pc' = [pc EXCEPT ![p] = "create"]
    /\ UNCHANGED <<file, announced, overlap, crashes>>

\* WriteFile opens with O_CREATE and O_TRUNC, without O_EXCL.
CreateFile(p) ==
    /\ pc[p] = "create"
    /\ file' = Empty
    /\ pc' = [pc EXCEPT ![p] = "write"]
    /\ UNCHANGED <<id, used, announced, overlap, crashes>>

\* The program goes on with the key k it now holds.
Run(p, k) == pc' = [pc EXCEPT ![p] = "running"] /\ announced' = announced \cup {k}

WriteFile(p) ==
    /\ pc[p] = "write"
    /\ file' = id[p]
    /\ Run(p, id[p])
    /\ UNCHANGED <<id, used, overlap, crashes>>

\* Wrong variant: a file that does not parse is passed over with a fresh key.
Load_FallsBack(p) ==
    /\ pc[p] = "load"
    /\ \E k \in IF file \in PrivateKeys THEN {file} ELSE PrivateKeys \ used :
          id' = [id EXCEPT ![p] = k] /\ used' = used \cup {k} /\ Run(p, k)
    /\ UNCHANGED <<file, overlap, crashes>>

\* Load: a file that does not parse ends the program.
Load(p) ==
    /\ pc[p] = "load"
    /\ \/ /\ file \in PrivateKeys
          /\ id' = [id EXCEPT ![p] = file]
          /\ Run(p, file)
       \/ /\ file \notin PrivateKeys
          /\ pc' = [pc EXCEPT ![p] = "failed"]
          /\ UNCHANGED <<id, announced>>
    /\ UNCHANGED <<file, used, overlap, crashes>>

\* The process crashes or is killed; what it has written stays.  (A machine that
\* loses power may lose it: os.WriteFile does not sync.)
Crash(p) ==
    /\ pc[p] \in Starting \cup {"running"}
    /\ crashes < MaxCrashes
    /\ crashes' = crashes + 1
    /\ pc' = [pc EXCEPT ![p] = "down"]
    /\ id' = [id EXCEPT ![p] = NoKey]
    /\ UNCHANGED <<file, used, announced, overlap>>

KeyInit ==
    /\ file \in {Absent} \cup PrivateKeys
    /\ pc = [p \in Procs |-> "down"]
    /\ id = [p \in Procs |-> NoKey]
    /\ used = {file} \cap PrivateKeys
    /\ announced = {}
    /\ overlap = FALSE
    /\ crashes = 0

KeyNext ==
    \E p \in Procs :
        \/ Begin(p) \/ LoadOrGenerate(p) \/ Generate(p)
        \/ CreateFile(p) \/ WriteFile(p) \/ Load(p) \/ Crash(p)

KeySpec == KeyInit /\ [][KeyNext]_keyVars

----------------------------------------------------------------------------
(* Properties. *)

\* Programs that never started at the same time have all run under one
\* identity, wherever they crashed and however often they were started again.
\* (LoadOrGenerate, Generate.)
OneIdentity == ~overlap => Cardinality(announced) <= 1

\* The key is on disk and no program has yet to act on an earlier look at it.
Settled ==
    /\ file \in PrivateKeys
    /\ \A p \in Procs : pc[p] \notin {"generate", "create", "write"}

\* Once settled, the identity is final: no start and no crash, in any order,
\* replaces the key or begins to.  The race is confined to the first start.
\* (LoadOrGenerate's Stat before Generate.)
SettledKeyIsFinal == [][Settled => Settled' /\ file' = file]_keyVars

\* "a restart cannot silently rotate identity" (docs/deployment.md): all
\* programs that ever ran from this path ran under one identity.
IdentityNeverRotates == Cardinality(announced) <= 1
============================================================================
