----------------------------- MODULE Replication -----------------------------
(***************************************************************************)
(* What synchronization promises, without leases, batches, backoffs or     *)
(* lost messages: the tablet's journal grows, the server holds a prefix of *)
(* it that never shrinks, and the tablet only ever holds receipts for what *)
(* the server holds.  OutboxSync implements it.                            *)
(***************************************************************************)
EXTENDS Naturals

CONSTANT MaxSequence  \* bound: length of the journal

VARIABLES
  journal,      \* number of entries journaled on the tablet
  replica,      \* entries the server holds
  acknowledged  \* entries the tablet holds a receipt for

vars == <<journal, replica, acknowledged>>

Init ==
  /\ journal \in 0..MaxSequence
  /\ replica = {}
  /\ acknowledged = {}

Grow ==
  /\ journal < MaxSequence
  /\ journal' = journal + 1
  /\ UNCHANGED <<replica, acknowledged>>

Replicate(n) ==
  /\ replica \subseteq 1..n
  /\ replica' = 1..n
  /\ UNCHANGED <<journal, acknowledged>>

Acknowledge(S) ==
  /\ acknowledged' = acknowledged \cup S
  /\ UNCHANGED <<journal, replica>>

Next ==
  \/ Grow
  \/ \E n \in 1..journal : Replicate(n)
  \/ \E S \in SUBSET replica : Acknowledge(S)

Spec == Init /\ [][Next]_vars

=============================================================================
