-------------------------- MODULE MCPrintLifecycle --------------------------
(* Two documents of one order, two print calls in flight. *)
EXTENDS PrintLifecycle, TLC
CONSTANTS pickup, receipt
MCOrder == <<pickup, receipt>>
(* The calls differ in nothing but their name. *)
MCSymmetry == Permutations(Prints)
=============================================================================
