-------------------------- MODULE MCProjectMembership --------------------------
(* TLC instances of ProjectMembership *)
EXTENDS ProjectMembership, TLC

Symmetry ==
    Permutations(Users \ {Founder}) \cup Permutations(CustomRoles) \cup Permutations(Requests)
================================================================================
