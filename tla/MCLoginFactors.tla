----------------------------- MODULE MCLoginFactors -----------------------------
(* TLC instances of LoginFactors *)
EXTENDS LoginFactors, TLC

Symmetry == Permutations(Requests) \cup Permutations(Settings) \cup Permutations(Codes)
================================================================================
