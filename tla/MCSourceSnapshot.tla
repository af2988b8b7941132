-------------------------- MODULE MCSourceSnapshot --------------------------
(* One source file and one version pin that is not committed yet.          *)
EXTENDS SourceSnapshot

CommitTree == [f \in Files |-> <<1, 1>>]
FrozenPins == [f \in Pins |-> <<2, 2>>]
=============================================================================
