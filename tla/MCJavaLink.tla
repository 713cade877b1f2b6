----------------------------- MODULE MCJavaLink -----------------------------
(* Constants for the model-checking runs of JavaLink. *)
EXTENDS JavaLink

CONSTANTS A, B

TwoPeers  == {A, B}
OneLevel  == [c \in Channels |-> 0]
Packets2  == [e \in Peers |-> 2]
MayReject == [e \in Peers |-> BOOLEAN]
ThreadOfA == [e \in Peers |-> e = A]

\* m units from A to B and n units from B to A, on every channel.
Amounts(m, n) == [p \in Peers |-> [c \in Channels |-> IF p = A THEN m ELSE n]]
Send30 == Amounts(3, 0)
Recv30 == Amounts(0, 3)
Send31 == Amounts(3, 1)
Recv31 == Amounts(1, 3)
=============================================================================
