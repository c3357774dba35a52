--------------------------- MODULE MCWriteQueues ---------------------------
(* Instances of WriteQueues for TLC: which job goes to which database, and  *)
(* how large it is.                                                         *)
EXTENDS WriteQueues, TLC

CONSTANTS q1, q2, j1, j2, j3, c1, c2

\* Two databases; a write of size 0 is a write too.
MCRepo == [x \in Jobs \cup Checkpoints |-> IF x \in {j3, c2} THEN q2 ELSE q1]
MCSize == [j \in Jobs |-> CASE j = j1 -> 1 [] j = j2 -> 0 [] j = j3 -> 2]

Symmetry == Permutations(Writers)

=============================================================================
