-------------------------- MODULE MCSingboxBridge --------------------------
(* The sing-box bridge with three threads and two attempts.                *)
EXTENDS SingboxBridge
=============================================================================
