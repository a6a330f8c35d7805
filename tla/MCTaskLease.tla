---------------------------- MODULE MCTaskLease ----------------------------
(* Instances of TaskLease for TLC. *)
EXTENDS TaskLease, TLC

\* Workers, and reconcilers, are interchangeable.
Symmetry == Permutations(Worker) \cup Permutations(Reconciler)
=============================================================================
