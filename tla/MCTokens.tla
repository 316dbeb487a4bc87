------------------------------- MODULE MCTokens -------------------------------
(* Three callers; tokens that live four or five times the margin.          *)
EXTENDS Tokens, TLC

CONSTANTS a1, a2, a3

CallerSymmetry == Permutations(Callers)

=============================================================================
