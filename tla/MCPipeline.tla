----------------------------- MODULE MCPipeline -----------------------------
(* Small instances of WebhookPipeline for TLC.                             *)
EXTENDS WebhookPipeline, TLC

CONSTANTS r1, w, c1, c2

NoKeys == [r \in Requests |-> None]

CallSymmetry == Permutations(Calls)

=============================================================================
