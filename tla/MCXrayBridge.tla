--------------------------- MODULE MCXrayBridge ---------------------------
(* The Xray bridge with three threads.                                     *)
EXTENDS XrayBridge
=============================================================================
