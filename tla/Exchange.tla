------------------------------ MODULE Exchange ------------------------------
(***************************************************************************)
(* What rotor's request/response machinery promises to an actor, without   *)
(* the imaginary addresses, the timers and the queue: a request is asked   *)
(* once, and it is then either answered once or withdrawn.  A request may  *)
(* be withdrawn only when its author is no longer there to be answered, or *)
(* when the author is the supervisor itself, which may forget its own      *)
(* requests.                                                               *)
(***************************************************************************)
CONSTANTS
    Ids,        \* request ids
    Actors,     \* the authors of requests, the supervisor included
    Sup,        \* the supervisor
    Nobody      \* the author of a request that was not made yet

VARIABLES
    author,     \* [Ids -> Actors \cup {Nobody}]
    status,     \* [Ids -> Status]
    present     \* the actors that can still receive an answer

vars == <<author, status, present>>

Status == {"idle", "asked", "answered", "withdrawn"}

Init ==
    /\ author = [id \in Ids |-> Nobody]
    /\ status = [id \in Ids |-> "idle"]
    /\ present = Actors

\* An actor that is present asks with an id nobody used before.
Ask(a, id) ==
    /\ a \in present
    /\ status[id] = "idle"
    /\ author' = [author EXCEPT ![id] = a]
    /\ status' = [status EXCEPT ![id] = "asked"]
    /\ UNCHANGED present

\* The author gets its one answer: a reply, an error or a timeout.
Answer(id) ==
    /\ status[id] = "asked"
    /\ author[id] \in present
    /\ status' = [status EXCEPT ![id] = "answered"]
    /\ UNCHANGED <<author, present>>

\* Some requests of absent authors, or of the supervisor, are given up.
Withdraw(S) ==
    /\ \A id \in S : /\ status[id] = "asked"
                     /\ author[id] \notin present \/ author[id] = Sup
    /\ status' = [id \in Ids |-> IF id \in S THEN "withdrawn" ELSE status[id]]
    /\ UNCHANGED <<author, present>>

\* An actor leaves for good.
Leave(a) ==
    /\ a \in present
    /\ present' = present \ {a}
    /\ UNCHANGED <<author, status>>

Next ==
    \/ \E a \in Actors, id \in Ids : Ask(a, id)
    \/ \E id \in Ids : Answer(id)
    \/ \E S \in SUBSET Ids : Withdraw(S)
    \/ \E a \in Actors : Leave(a)

Spec == Init /\ [][Next]_vars
=============================================================================
