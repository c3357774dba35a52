------------------------------ MODULE MCStorage ------------------------------
(* Two batches write five facts for two units, one of which both batches     *)
(* report, so that the facts have three different sets of owners; two jobs   *)
(* derive facts from them at the same time.                                  *)
EXTENDS Storage

MCFacts == {"n1", "n2", "n3", "n4", "e", "d1", "d2", "d3"}
MCRefs == [f \in MCFacts |-> IF f = "e" THEN <<"n1", "n4", "n1">> ELSE <<>>]
MCPredicate == [f \in MCFacts |->
    CASE f \in {"n1", "n2", "n3", "n4"} -> "node" [] f = "e" -> "edge" [] OTHER -> "path"]

MCBatches ==
    "b1" :> [facts |-> <<"n1", "n2", "n3", "n4">>, owned |-> [u \in {"A", "B"} |->
                IF u = "A" THEN {"n1", "n3", "n4"} ELSE {"n2"}]]
    @@ "b2" :> [facts |-> <<"n1", "n4", "e">>, owned |-> [u \in {"B"} |-> {"e"}]]

MCDerivations ==
    "q1" :> <<[fact |-> "d1", deps |-> {"n3", "e"}]>>
    @@ "q2" :> <<[fact |-> "d2", deps |-> {"n1", "e"}], [fact |-> "d3", deps |-> {"n2"}]>>

\* One job derives a fact in a second way.
TwiceDerivations ==
    "q1" :> <<[fact |-> "d1", deps |-> {"n1"}]>>
    @@ "q2" :> <<[fact |-> "d1", deps |-> {"e"}]>>

\* One job needs two new sets, one of which the other job needs too.
CollidingDerivations ==
    "q1" :> <<[fact |-> "d1", deps |-> {"n3", "e"}]>>
    @@ "q2" :> <<[fact |-> "d2", deps |-> {"n1", "e"}], [fact |-> "d3", deps |-> {"n3", "e"}]>>

=============================================================================
