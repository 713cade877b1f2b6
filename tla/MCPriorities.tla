---------------------------- MODULE MCPriorities ----------------------------
(* Channel configurations for the model-checking runs of ChabuPriorities. *)
EXTENDS ChabuPriorities

\* All channels on level 0.
OneLevel == [c \in Channels |-> 0]

\* Channels 0 and 2 on level 0, channel 1 on level 1: a list never holds more
\* than two channels.
TwoLevels == [c \in Channels |-> c % 2]
=============================================================================
