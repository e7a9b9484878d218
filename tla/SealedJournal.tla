--------------------------- MODULE SealedJournal ---------------------------
(***************************************************************************)
(* What the register promises about closed periods, without sessions,      *)
(* intents, hashes or totals: dated entries are recorded, a period counts  *)
(* the entries it contains when it is closed, and no entry is ever added   *)
(* to a period once it has been counted.  SalesLedger implements it.       *)
(* Abstracts the rules src/services/orderRepository.ts states at           *)
(* finalization, correction and closure.                                   *)
(***************************************************************************)
EXTENDS Integers, FiniteSets

CONSTANTS
  Entries,  \* identifiers of the financial entries
  Instants  \* instants an entry or a boundary can have, natural numbers

VARIABLES
  recorded,  \* entries recorded, with the instant they count at
  periods    \* closed periods, with the entries each one counted

vars == <<recorded, periods>>

Dated == [entry : Entries, at : Instants]

Counted(from, to) == {e \in recorded : from <= e.at /\ e.at < to}

(* Mutated form of Open: a closed period still takes entries.              *)
AlwaysOpen(at) == TRUE

(* Everything before a closed period's end is closed.                      *)
Open(at) == \A p \in periods : p.to <= at

Init ==
  /\ recorded \in SUBSET Dated
  /\ periods = {}

Record(e) ==
  /\ Open(e.at)
  /\ \A f \in recorded : f.entry # e.entry
  /\ recorded' = recorded \cup {e}
  /\ UNCHANGED periods

(* A period follows the last closed one.                                   *)
Close(from, to) ==
  /\ from < to
  /\ Open(from)
  /\ periods # {} => \E p \in periods : p.to = from
  /\ periods' = periods \cup {[from |-> from, to |-> to, counted |-> Counted(from, to)]}
  /\ UNCHANGED recorded

Next ==
  \/ \E e \in Dated : Record(e)
  \/ \E from, to \in Instants : Close(from, to)

Spec == Init /\ [][Next]_vars

-----------------------------------------------------------------------------

(* What a closed period counted is, at any later time, everything there is *)
(* in it.                                                                  *)
PeriodsComplete == \A p \in periods : p.counted = Counted(p.from, p.to)

(* No entry is counted by two periods.                                     *)
CountedOnce ==
  \A p, q \in periods : p # q => p.counted \cap q.counted = {}

=============================================================================
