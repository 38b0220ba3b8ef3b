-------------------------- MODULE MCNativeExecutor --------------------------
(* Small instances of NativeExecutor for TLC. *)
EXTENDS NativeExecutorRefinement, TLC

\* Executors are interchangeable in every safety property.
ExecutorSymmetry == Permutations(Executors)
=============================================================================
