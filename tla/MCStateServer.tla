--------------------------- MODULE MCStateServer ---------------------------
(* Small instances of StateServer for TLC. *)
EXTENDS StateServer, TLC

\* The objects of one process lifetime are interchangeable.
ObjSymmetry == Permutations(Objs)

=============================================================================
