-------------------------- MODULE MCJavaPriorizer --------------------------
(* Channel configurations for the runs of JavaPriorizer. *)
EXTENDS JavaPriorizer

\* The even channels on level 0, the odd ones on level 1.
TwoLevels == [c \in Channels |-> c % 2]
=============================================================================
