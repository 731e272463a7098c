----------------------------- MODULE MCDeviceGroups -----------------------------
(* TLC instances of DeviceGroups *)
EXTENDS DeviceGroups, TLC

Symmetry == Permutations(Devices) \cup Permutations(Requests)
================================================================================
