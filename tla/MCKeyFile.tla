----------------------------- MODULE MCKeyFile -----------------------------
(* Small instances of KeyFile. *)
EXTENDS KeyFile, TLC

CONSTANTS p1, p2, p3, s1, s2, s3, s4
ThreeProcs == {p1, p2, p3}
TwoProcs == {p1, p2}
FourKeys == {s1, s2, s3, s4}
KeySymmetry == Permutations(Procs) \cup Permutations(PrivateKeys)
============================================================================
