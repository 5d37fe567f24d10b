-------------------------- MODULE MCSteamCallbacks --------------------------
(* Small instances of SteamCallbacks for TLC.                              *)
EXTENDS SteamCallbacks

CONSTANTS u1, u2, l1
=============================================================================
