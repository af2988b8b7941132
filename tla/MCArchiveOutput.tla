-------------------------- MODULE MCArchiveOutput --------------------------
(* Three builders that share the output name.                                *)
EXTENDS ArchiveOutput, TLC

CONSTANTS b1, b2, b3
Symmetry == Permutations(Builders)
=============================================================================
