------------------------------- MODULE MCLink -------------------------------
(* Constants for the model-checking runs of ChabuLink. *)
EXTENDS ChabuLink

CONSTANTS A, B

TwoPeers == {A, B}
Accept   == [e \in Peers |-> {TRUE}]
MayReject == [e \in Peers |-> BOOLEAN]
OneLevel == [c \in Channels |-> 0]
EachOwn  == [c \in Channels |-> c]

\* Only A sends payload, only B grants credit: n units on every channel.
Only(e, n) == [p \in Peers |-> [c \in Channels |-> IF p = e THEN n ELSE 0]]
A1 == Only(A, 1)
A2 == Only(A, 2)
A3 == Only(A, 3)
B1 == Only(B, 1)
B2 == Only(B, 2)
B3 == Only(B, 3)
Each1 == [p \in Peers |-> [c \in Channels |-> 1]]

\* Two units on channel 0, one on the others.
Uneven(e) == [p \in Peers |-> [c \in Channels |->
                IF p # e THEN 0 ELSE IF c = 0 THEN 2 ELSE 1]]
B21 == Uneven(B)

Packets1 == [e \in Peers |-> 1]
Packets2 == [e \in Peers |-> 2]
Packets3 == [e \in Peers |-> 3]

NoPing   == [e \in Peers |-> 0]
PingA    == [e \in Peers |-> IF e = A THEN 1 ELSE 0]
=============================================================================
