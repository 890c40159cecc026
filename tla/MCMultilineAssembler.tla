------------------------- MODULE MCMultilineAssembler -------------------------
(* Small instances of MultilineAssembler for TLC. *)
EXTENDS MultilineAssembler

\* Stream keys are only compared for equality.
StreamSymmetry == Permutations(Streams)

=============================================================================
