--------------------------- MODULE MCUplinkBridge ---------------------------
(* Instances of UplinkBridge for TLC. *)
EXTENDS UplinkBridge
=============================================================================
