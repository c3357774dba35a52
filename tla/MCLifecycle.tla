---------------------------- MODULE MCLifecycle ----------------------------
(* Instances of Lifecycle for TLC; the sets of threads are given in the .cfg *)
(* files as sets of model values.                                           *)
EXTENDS Lifecycle, TLC

Symmetry == Permutations(Clients) \cup Permutations(Openers) \cup Permutations(DBs)
            \cup Permutations(Removers)

=============================================================================
