---------------------------- MODULE MCWorklist ----------------------------
(* Three workers: one with three items, one with two and one with none, so  *)
(* that stealing, stealing from a thief and racing thieves all happen.      *)
EXTENDS Worklist, TLC

MCInitial == (0 :> [start |-> 0, end |-> 3]) @@
             (1 :> [start |-> 3, end |-> 5]) @@
             (2 :> [start |-> 5, end |-> 5])
===========================================================================
