---------------------------- MODULE MCWorkerPool ----------------------------
(* The instance of WorkerPool for model checking.                          *)
EXTENDS WorkerPoolProofs, TLC

\* Tasks are interchangeable; worker indices are not.
Symmetry == Permutations(Tasks)
=============================================================================
