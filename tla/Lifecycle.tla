----------------------------- MODULE Lifecycle ------------------------------
(***************************************************************************)
(* What the tree of supervisors promises of the states of its actors       *)
(* (docs/Design.md, "Actor lifecycle"), without messages, requests,        *)
(* plugins or timeouts: an actor goes through its states in one direction  *)
(* only, it is created by a supervisor that is not on its way out, and a   *)
(* supervisor is SHUT_DOWN only after all its children are.                *)
(***************************************************************************)
CONSTANTS
    Actors,     \* the actors, supervisors included
    Root,       \* the root supervisor
    Parent      \* [Actors -> Actors]: the supervisor of each; the root's is itself

VARIABLE state  \* [Actors -> States]

States == {"NEW", "INITIALIZING", "INITIALIZED", "OPERATIONAL",
           "SHUTTING_DOWN", "SHUT_DOWN"}

\* The states in which an actor may still be asked to shut down.
Live == {"INITIALIZING", "INITIALIZED", "OPERATIONAL"}

Init == state = [a \in Actors |-> IF a = Root THEN "INITIALIZING" ELSE "NEW"]

Become(a, s) == state' = [state EXCEPT ![a] = s]

Create(a) ==
    /\ state[a] = "NEW"
    /\ state[Parent[a]] \in Live
    /\ Become(a, "INITIALIZING")

Initialize(a) ==
    /\ state[a] = "INITIALIZING"
    /\ Become(a, "INITIALIZED")

Start(a) ==
    /\ state[a] = "INITIALIZED"
    /\ Become(a, "OPERATIONAL")

BeginShutdown(a) ==
    /\ state[a] \in Live
    /\ Become(a, "SHUTTING_DOWN")

\* The children of a supervisor are gone before the supervisor is.
FinishShutdown(a) ==
    /\ state[a] = "SHUTTING_DOWN"
    /\ \A c \in Actors \ {a} : Parent[c] = a => state[c] \in {"NEW", "SHUT_DOWN"}
    /\ Become(a, "SHUT_DOWN")

Next ==
    \E a \in Actors :
        \/ Create(a)
        \/ Initialize(a)
        \/ Start(a)
        \/ BeginShutdown(a)
        \/ FinishShutdown(a)

Spec == Init /\ [][Next]_state
=============================================================================
