--------------------------- MODULE MCTabletAccess ---------------------------
(***************************************************************************)
(* Two installations that may hold the same chain.                         *)
(***************************************************************************)
EXTENDS TabletAccess, TLC

MCSymmetry == Permutations(Inst)
=============================================================================
