--------------------------- MODULE MCLookupCache ---------------------------
(* Instances of LookupCache for TLC.                                        *)
EXTENDS LookupCache, TLC

\* A fact with all of its data is larger than its type or key alone.
MCSize == [TYPE |-> 1, KEY |-> 1, FULL |-> 2]
\* A cache that holds the key of a fact, or all of it.
MCWarm == {<<[id |-> 1, tag |-> tag]>> : tag \in {"KEY", "FULL"}}

Symmetry == Permutations(Threads)

=============================================================================
