-------------------------- MODULE MCMediationLane --------------------------
(* Instances of MediationLane: the case that each request belongs to.      *)
EXTENDS MediationLane

MCOneCase  == [r \in Requests |-> 1]
MCTwoCases == [r \in Requests |-> IF r = 1 THEN 1 ELSE 2]
=============================================================================
