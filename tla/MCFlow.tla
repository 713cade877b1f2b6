------------------------------- MODULE MCFlow -------------------------------
(* The model-checking run of the abstract stream. *)
EXTENDS ChabuFlow
=============================================================================
