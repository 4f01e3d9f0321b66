-------------------------------- MODULE Links --------------------------------
(***************************************************************************)
(* What linking promises (docs/Design.md: a "virtual TCP-connection"),     *)
(* without messages, timers and requests: a client is linked to servers    *)
(* that are there, a link is dissolved before either of its ends shuts     *)
(* down, and so a server outlives the clients linked to it.                *)
(***************************************************************************)
CONSTANTS
    Actors,     \* clients and servers; an actor may be both
    Wants       \* the links there may be, pairs of a client and its server

VARIABLES
    linked,     \* the links in force, as their clients see them
    gone        \* the actors that are SHUT_DOWN

Init == linked = {} /\ gone = {}

Link(x) ==
    /\ x \in Wants \ linked
    /\ x[1] \notin gone /\ x[2] \notin gone
    /\ linked' = linked \cup {x}
    /\ UNCHANGED gone

\* A client lets go of some of its servers, asked to or because it leaves.
Unlink(S) ==
    /\ S \subseteq linked
    /\ linked' = linked \ S
    /\ UNCHANGED gone

End(a) ==
    /\ \A x \in linked : a \notin {x[1], x[2]}
    /\ gone' = gone \cup {a}
    /\ UNCHANGED linked

Next ==
    \/ \E x \in Wants : Link(x)
    \/ \E S \in SUBSET linked : Unlink(S)
    \/ \E a \in Actors : End(a)

Spec == Init /\ [][Next]_<<linked, gone>>
=============================================================================
