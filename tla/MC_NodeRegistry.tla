--------------------------- MODULE MC_NodeRegistry ---------------------------
(* Small instances of NodeRegistry for TLC. *)
EXTENDS NodeRegistry, TLC

CONSTANTS p1, p2

MC_Symmetry == Permutations(Page)

=============================================================================
