------------------------- MODULE MCOperatorLifecycle -------------------------
(* An instance of OperatorLifecycle for TLC.                               *)
EXTENDS OperatorLifecycle, TLC

Symmetry == Permutations(Processes) \union Permutations(States)
=============================================================================
