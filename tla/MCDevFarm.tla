----------------------------- MODULE MCDevFarm -----------------------------
(* An agent, a rival and a recipe that is replaced, once by its equivocation. *)
EXTENDS DevFarm

TwoRecipes == {[sequence |-> 1, content |-> "one"], [sequence |-> 2, content |-> "two"]}
ThreeRecipes == TwoRecipes \cup {[sequence |-> 1, content |-> "other"]}
=============================================================================
