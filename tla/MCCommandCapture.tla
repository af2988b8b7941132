------------------------- MODULE MCCommandCapture -------------------------
(* A command that may fork one child.                                      *)
EXTENDS CommandCapture

CONSTANT d1
=============================================================================
