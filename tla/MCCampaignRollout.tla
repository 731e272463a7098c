--------------------------- MODULE MCCampaignRollout ---------------------------
(* TLC instances of CampaignRollout *)
EXTENDS CampaignRollout, TLC

Symmetry ==
    Permutations(Devices) \cup Permutations(Firmwares) \cup Permutations(Requests)
================================================================================
