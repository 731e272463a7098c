---------------------------- MODULE MCDeviceChannels ----------------------------
(* TLC instances of DeviceChannels *)
EXTENDS DeviceChannels
================================================================================
