---------------------------- MODULE OrderPrinting ----------------------------
(***************************************************************************)
(* What an order remembers of its paper: one state per document, and the   *)
(* three changes a print makes to it.  A document sent to the printer is    *)
(* "unknown" until the outcome is recorded.                                *)
(***************************************************************************)
EXTENDS Naturals

CONSTANTS
  Documents,        \* the tickets of an order
  CustomerReceipt   \* the one that may be printed although nobody asked for it at the sale

ASSUME DocumentsAssumption == CustomerReceipt \in Documents

DocumentStates == {"not_requested", "pending", "printed", "failed", "unknown"}
Printings == [Documents -> DocumentStates]

(* Every document the sale calls for is pending: the customer receipt when *)
(* it was asked for, the operational tickets when a product needs them.     *)
InitialPrintings == [Documents -> {"not_requested", "pending"}]

DerivePrintStatus(printing) ==
  LET requested == {printing[d] : d \in Documents} \ {"not_requested"}
  IN  IF requested \subseteq {"printed"} THEN "printed"
      ELSE IF "unknown" \in requested THEN "unknown"
      ELSE IF "printed" \in requested THEN "partial"
      ELSE IF "pending" \in requested THEN "pending"
      ELSE "failed"

RetryableDocuments(printing) == {d \in Documents : printing[d] \in {"pending", "failed"}}

(* The tickets the reprint buttons offer. *)
Available(printing) ==
  {CustomerReceipt} \cup {d \in Documents : printing[d] # "not_requested"}

Settled(state) == state \in {"not_requested", "printed"}

NothingMarked(printing, selection) == printing   \* mistake: nothing is written before the transfer
BeginPrinting(printing, selection) ==
  [d \in Documents |-> IF d \in selection /\ ~Settled(printing[d]) THEN "unknown" ELSE printing[d]]

CompletePrinting(printing, selection, completed) ==
  [d \in Documents |->
     IF d \in selection /\ ~Settled(printing[d])
     THEN IF d \in completed THEN "printed" ELSE "failed"
     ELSE printing[d]]

(* mistake: a torn document is taken for one that was not printed *)
TornIsFailed(printing, selection, completed, unknown) == CompletePrinting(printing, selection, completed)
FailPrinting(printing, selection, completed, unknown) ==
  [d \in Documents |->
     IF d \in selection /\ ~Settled(printing[d])
     THEN CASE d \in completed -> "printed"
            [] d \in unknown \ completed -> "unknown"
            [] OTHER -> "failed"
     ELSE printing[d]]

(* A printed customer receipt is printed again only in responsible mode. *)
ProtectedReprint(printing, selection) ==
  CustomerReceipt \in selection /\ printing[CustomerReceipt] = "printed"
==============================================================================
