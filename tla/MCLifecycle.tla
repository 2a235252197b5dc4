---------------------------- MODULE MCLifecycle ----------------------------
(* Two goroutines that call Close on a reflector or a sender. *)
EXTENDS Lifecycle

CONSTANTS c1, c2
TwoClosers == {c1, c2}
============================================================================
