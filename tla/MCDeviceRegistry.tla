---------------------------- MODULE MCDeviceRegistry ----------------------------
(* TLC instances of DeviceRegistry *)
EXTENDS DeviceRegistry, TLC

Symmetry == Permutations(Devices) \cup Permutations(Tokens) \cup Permutations(Requests)
================================================================================
