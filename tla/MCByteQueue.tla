---------------------------- MODULE MCByteQueue ----------------------------
(* Constants for the model-checking run of ByteQueue. *)
EXTENDS ByteQueue

CONSTANTS b0, b1

TwoBytes == {b0, b1}
=============================================================================
