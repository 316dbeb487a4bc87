--------------------------- MODULE MCOrchestrator ---------------------------
(* Small instances of Orchestrator for TLC: which request carries which    *)
(* key, and the symmetry of interchangeable handlers.                      *)
EXTENDS Orchestrator, TLC

CONSTANTS r1, r2, r3, h1, h2, k1

KeyShared == (r1 :> k1) @@ (r2 :> k1)
KeySharedByTwo == KeyShared @@ (r3 :> None)
NoKeys == [r \in Requests |-> None]

HandlerSymmetry == Permutations(Handlers)

=============================================================================
