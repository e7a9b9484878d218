--------------------------- MODULE MCSalesLedger ---------------------------
(***************************************************************************)
(* Values of the constants of SalesLedger for TLC.                         *)
(***************************************************************************)
EXTENDS ServerRules, TLC

CONSTANTS s1, s2, op1, op2, op3, op4, tea, cake

(* At 0.32 each and 20 %, the VAT of one tea is 5 cents and the VAT of two *)
(* is 11: refunds of one tea at a time must not round twice.  The cakes    *)
(* make the price of a sale larger than what any one line may give back.   *)
MCSold      == [s \in Sales |-> [l \in Lines |->
                  IF s = s1 THEN (IF l = tea THEN 2 ELSE 1) ELSE (IF l = tea THEN 1 ELSE 0)]]
MCOneOfEach == [s \in Sales |-> [l \in Lines |-> 1]]
MCUnitPrice == [l \in Lines |-> 32]
MCVatRate   == [l \in Lines |-> 20]

MCOpsSymmetry == Permutations(Ops)

=============================================================================
