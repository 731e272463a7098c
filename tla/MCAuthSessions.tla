----------------------------- MODULE MCAuthSessions -----------------------------
(* TLC instances of AuthSessions *)
EXTENDS AuthSessions, TLC

Symmetry ==
    Permutations(Sessions) \cup Permutations(ResetTokens) \cup Permutations(Requests)
================================================================================
