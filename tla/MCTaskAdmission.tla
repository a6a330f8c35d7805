-------------------------- MODULE MCTaskAdmission --------------------------
(* Instances of TaskAdmission for TLC. *)
EXTENDS TaskAdmission, TLC

\* Requests, keys and cleaners are interchangeable.
Symmetry == Permutations(Request) \cup Permutations(Key) \cup Permutations(Cleaner)
=============================================================================
