-------------------------- MODULE MCFirmwareDelivery ---------------------------
(* TLC instances of FirmwareDelivery *)
EXTENDS FirmwareDelivery, TLC

Symmetry ==
    Permutations(Firmwares) \cup Permutations(Devices) \cup Permutations(Tokens)
        \cup Permutations(Requests) \cup Permutations(Versions)
================================================================================
