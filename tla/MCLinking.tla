------------------------------ MODULE MCLinking ------------------------------
(* Instances of Linking for TLC. *)
EXTENDS Linking

CONSTANTS client, other, middle, server, here, there

NoLinks == {}
TwoClients == {<<client, server>>, <<other, server>>}
FirstClient == {<<client, server>>}
\* The middle actor is a client of the server and a server of the client.
Triangle == FirstClient \cup {<<client, middle>>, <<middle, server>>}
ToMiddle == {<<client, middle>>}

\* The server is in a locality of its own.
ServerApart == [a \in Actors |-> IF a = server THEN there ELSE here]
=============================================================================
