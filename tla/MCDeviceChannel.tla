---------------------------- MODULE MCDeviceChannel ----------------------------
(* Small instances of DeviceChannel for TLC: the constants are in the cfgs. *)
EXTENDS DeviceChannel
=============================================================================
