----------------------- MODULE MCCatalogDistribution ------------------------
(***************************************************************************)
(* Two tablets sharing a product, one field of it.                         *)
(***************************************************************************)
EXTENDS CatalogDistribution, TLC

MCSymmetry ==
  Permutations(Tablets) \cup Permutations(Dialogs) \cup Permutations(Fields)
  \cup Permutations(Values \ {Initial})
=============================================================================
