--------------------------- MODULE MCSubscriptions ---------------------------
(* Instances of Subscriptions for TLC. *)
EXTENDS Subscriptions

CONSTANTS here, there, near, far, plain, board

\* `near` lives here, `far` lives there, where the address both subscribe to is.
HomeOf == [a \in Actors |-> IF a = near THEN here ELSE there]
OwnerOf == [x \in Addresses |-> IF x = plain THEN here ELSE there]
Both == [a \in Actors |-> <<board>>]
Nothing == [a \in Actors |-> {}]
LocalLater == [a \in Actors |-> IF a = near THEN {plain} ELSE {}]
RemoteLater == [a \in Actors |-> IF a = near THEN {board} ELSE {}]
Plain == [a \in Actors |-> IF a = near THEN <<plain>> ELSE <<board>>]
ToBoard == [a \in Actors |-> {board}]
FewSends == [a \in Actors |-> IF a = near THEN 1 ELSE 2]
=============================================================================
