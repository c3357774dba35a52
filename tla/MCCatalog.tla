----------------------------- MODULE MCCatalog -----------------------------
(* Instances of Catalog for TLC: a chain of stacked databases.              *)
EXTENDS Catalog

CONSTANTS repoA, repoB, repoC

\* repoC is stacked on repoB, and repoB on repoA.
MCBase == [r \in Repos |-> CASE r = repoA -> NoRepo [] r = repoB -> repoA [] r = repoC -> repoB]

=============================================================================
