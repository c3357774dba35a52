---------------------------- MODULE MCSendQueue ----------------------------
(* Instances of SendQueue for TLC: three batches of different sizes.        *)
EXTENDS SendQueue, TLC

CONSTANTS b1, b2, b3

MCBatchSize == [b \in Batches |-> CASE b = b1 -> 1 [] b = b2 -> 2 [] b = b3 -> 0]

Symmetry == Permutations(Senders)

=============================================================================
