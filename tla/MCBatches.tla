----------------------------- MODULE MCBatches -----------------------------
(* Model checking of Batches: two leaves, which have values, and a node for  *)
(* each of them.                                                             *)
EXTENDS Batches, TLC

MCPredicates == {"P", "Q"}
MCRefTypes == [p \in MCPredicates |->
    [key |-> IF p = "P" THEN <<>> ELSE <<"P">>, val |-> <<>>]]

Leaf(atom) == [type |-> "P", atom |-> atom, subs |-> <<>>, val |-> Clause("v", <<>>)]
Node(leaf) == [type |-> "Q", atom |-> "n", subs |-> <<leaf>>, val |-> NoValue]

MCTermTable == <<Leaf("a"), Leaf("b"), Node(1), Node(2)>>
MCFiles == << <<1>>, <<2>>, <<1, 2, 3, 4>> >>

Symmetry == Permutations(Clients)
=============================================================================
