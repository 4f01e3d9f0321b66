---------------------------- MODULE MCThreadTimers ----------------------------
(* Instances of ThreadTimers for TLC. *)
EXTENDS ThreadTimers

CONSTANTS one, other, t1, t2, t3

\* One actor has a single timer to use, the other two.
OwnerOf == [t \in Timers |-> IF t = t1 THEN one ELSE other]
=============================================================================
