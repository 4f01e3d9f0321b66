-------------------------------- MODULE Inbox --------------------------------
(***************************************************************************)
(* What a loop promises to those that send messages to its supervisor from *)
(* other threads: each message is taken once, in the order the messages    *)
(* were sent, and none stays behind.  Only a supervisor that has ended     *)
(* refuses messages.  A message is known by its number.                    *)
(***************************************************************************)
EXTENDS Naturals

CONSTANT Loops

VARIABLES
    sent,       \* how many messages were sent to each loop
    box,        \* the numbers of those that are to be taken
    closed      \* the loops that refuse messages

vars == <<sent, box, closed>>

Init ==
    /\ sent = [l \in Loops |-> 0]
    /\ box = [l \in Loops |-> {}]
    /\ closed = {}

Put(l) ==
    /\ sent' = [sent EXCEPT ![l] = @ + 1]
    /\ box' = [box EXCEPT ![l] = @ \cup {sent[l] + 1}]
    /\ UNCHANGED closed

Refuse(l) ==
    /\ l \in closed
    /\ sent' = [sent EXCEPT ![l] = @ + 1]
    /\ UNCHANGED <<box, closed>>

\* The one that was sent first is taken first.
Take(l) ==
    /\ \E n \in box[l] :
        /\ \A k \in box[l] : n <= k
        /\ box' = [box EXCEPT ![l] = @ \ {n}]
    /\ UNCHANGED <<sent, closed>>

Close(l) ==
    /\ closed' = closed \cup {l}
    /\ UNCHANGED <<sent, box>>

Next ==
    \E l \in Loops : Put(l) \/ Refuse(l) \/ Take(l) \/ Close(l)

Spec == Init /\ [][Next]_vars /\ \A l \in Loops : WF_vars(Take(l))
=============================================================================
