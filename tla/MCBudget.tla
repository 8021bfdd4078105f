------------------------------ MODULE MCBudget ------------------------------
(* The smallest numbers for which every cap can be hit from both sides. *)
EXTENDS Budget
=============================================================================
