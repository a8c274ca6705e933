------------------------------ MODULE MCTokens -------------------------------
(* A small instance of Tokens for TLC.                                     *)
EXTENDS Tokens, TLC

Interchangeable == Permutations(Pairs) \cup Permutations(Callers) \cup Permutations(Workers)

=============================================================================
