------------------------------ MODULE Streams ------------------------------
(***************************************************************************)
(* The packets of one stream among the tokens of all that share a wire.    *)
(***************************************************************************)
EXTENDS Integers, Sequences

\* The packets of type t and channel c among the tokens s, in their order: a
\* recursive function, because proofs can follow that, and not SelectSeq.
PacketsOf(s, t, c) ==
  LET among[n \in 0 .. Len(s)] ==
        IF n = 0 THEN <<>>
        ELSE among[n - 1] \o IF s[n].type = t /\ s[n].ch = c THEN <<s[n]>> ELSE <<>>
  IN  among[Len(s)]
=============================================================================
