---------------------------- MODULE MCModelStore ----------------------------
(* Instances of ModelStore: one model of a workspace, one global. *)
EXTENDS ModelStore, TLC

CONSTANTS w1, mine, shared, home

MCHomeOf == [i \in Ids |-> IF i = shared THEN Global ELSE home]
MCMaxLoads == [w \in Windows |-> IF w = w1 THEN 2 ELSE 1]
=============================================================================
