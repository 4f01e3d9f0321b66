----------------------------- MODULE MCRegistry -----------------------------
(* Instances of Registry for TLC. *)
EXTENDS Registry

CONSTANTS first, second, third, mail, web, here, there

\* Two actors offer the same name; both need what the other one offers, one at once.
Offers == [a \in Actors |-> IF a = second THEN {web} ELSE {mail}]
Awaits == [a \in Actors |-> IF a = third THEN {web} ELSE {}]
Needs == [a \in Actors |-> IF a = first THEN {web} ELSE {}]
Nothing == [a \in Actors |-> {}]
FirstLink == {<<"link", first, NoOne>>}

\* One offers a name, the others wait for that name and for another one.
OneOffer == [a \in Actors |-> IF a = first THEN {mail} ELSE {}]
TwoWait == [a \in Actors |-> CASE a = first -> {} [] a = second -> {mail} [] OTHER -> {web}]
Never == {}
=============================================================================
