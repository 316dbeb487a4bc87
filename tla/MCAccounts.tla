------------------------------ MODULE MCAccounts ------------------------------
(* A merchant with its founder, a second email and one phone; room for two *)
(* more merchants; two requests at a time.                                 *)
EXTENDS Accounts, TLC

CONSTANTS a1, a2, ann, bob, p1, home, m1, m2

AgentSymmetry == Permutations(Agents) \cup Permutations({m1, m2})

=============================================================================
