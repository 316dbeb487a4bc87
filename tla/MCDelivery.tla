----------------------------- MODULE MCDelivery -----------------------------
(***************************************************************************)
(* Instances of Delivery for TLC.                                          *)
(***************************************************************************)
EXTENDS Delivery, TLC

CONSTANTS a1, a2, e1, e2, p1, p2, p3

AgentSymmetry == Permutations(Agents)
=============================================================================
