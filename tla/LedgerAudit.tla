----------------------------- MODULE LedgerAudit -----------------------------
(***************************************************************************)
(* verifyAuditSnapshot of src/services/orderRepository.ts: the check run   *)
(* before a closure, an export and a restoration, over the stored orders,  *)
(* the journal and the metadata.  Each conjunct stands for one family of   *)
(* errors the function reports.  The function walks the journal with an    *)
(* "active session" in hand; here the walk's state at position n is read   *)
(* off the entries that precede n.                                         *)
(***************************************************************************)
EXTENDS LedgerRules

Before(entries, n) == SubSeq(entries, 1, n - 1)

(* Sequences 1, 2, 3 ... and every entry points at the one before it.      *)
ChainLinked(entries) ==
  \A n \in DOMAIN entries :
    /\ entries[n].sequence = n
    /\ entries[n].previousHash =
         (IF n = 1 THEN NoHash ELSE HashOf(entries[n - 1]))

(* No sale is journaled twice.                                             *)
SalesJournaledOnce(entries) ==
  \A m, n \in OfKind(entries, "sale") :
    entries[m].body.sale = entries[n].body.sale => m = n

(* A correction names a stored sale and carries the digest it was sealed   *)
(* with.                                                                   *)
CorrectionsReferToOrders(entries, orders) ==
  \A n \in OfKind(entries, "correction") :
    \E o \in orders : /\ o.id = entries[n].body.sale
                      /\ entries[n].body.originalSaleHash = o.hash

(* The opening whose session is active just before position n, 0 if none.  *)
ActiveBefore(entries, n) ==
  LET opened == {m \in OfKind(entries, "cash_session_opened") : m < n}
      last   == IF opened = {} THEN 0 ELSE Max(opened)
  IN  IF \E c \in OfKind(entries, "closure") : last < c /\ c < n
      THEN 0 ELSE last

FloatBefore(entries, n) == CurrentFloat(Before(entries, n), ActiveBefore(entries, n))

(* Sessions alternate: opened once each, never two at a time, never        *)
(* starting after their own creation.                                      *)
SessionsAlternate(entries) ==
  \A n \in OfKind(entries, "cash_session_opened") :
    /\ ActiveBefore(entries, n) = 0
    /\ entries[n].body.float >= 0
    /\ entries[n].body.periodStart <= entries[n].recordedAt
    /\ \A m \in OfKind(entries, "cash_session_opened") :
         entries[m].body.session = entries[n].body.session => m = n

(* Every change of float belongs to the active session and starts from     *)
(* the amount the previous one left.                                       *)
FloatsChain(entries) ==
  \A n \in OfKind(entries, "cash_float_updated") :
    /\ ActiveBefore(entries, n) # 0
    /\ entries[ActiveBefore(entries, n)].body.session = entries[n].body.session
    /\ entries[n].body.previous = FloatBefore(entries, n)
    /\ entries[n].body.float >= 0

(* A closure closes the active session, from its start, with its float,    *)
(* and its totals are those of the entries before it.                      *)
ClosuresRecompute(entries) ==
  \A n \in OfKind(entries, "closure") :
    LET c      == entries[n].body
        opened == ActiveBefore(entries, n)
    IN  /\ c.totals = CalculateClosureTotals(Before(entries, n),
                                             c.periodStart, c.periodEnd)
        /\ opened # 0
        /\ entries[opened].body.session = c.session
        /\ entries[opened].body.periodStart = c.periodStart
        /\ c.float = FloatBefore(entries, n)
        /\ c.theoreticalCash = TheoreticalCash(c.float, c.totals)

(* Stored sales and sealed sales are the same, field by field.             *)
OrdersMatchJournal(entries, orders) ==
  /\ \A o \in orders : \E n \in OfKind(entries, "sale") :
       /\ entries[n].id = o.journalEntryId
       /\ entries[n].sequence = o.journalSequence
       /\ HashOf(entries[n]) = o.hash
       /\ entries[n].body = [sale          |-> o.id,
                             orderNumber   |-> o.orderNumber,
                             receiptNumber |-> o.receiptNumber]
       /\ entries[n].recordedAt = o.paidAt
  /\ \A n \in OfKind(entries, "sale") :
       \E o \in orders : o.id = entries[n].body.sale

(* The metadata describes the head of the journal.                         *)
MetadataMatchesHead(entries, metadata) ==
  LET closures == OfKind(entries, "closure")
  IN  /\ metadata.nextJournalSequence = Len(entries) + 1
      /\ metadata.lastJournalHash =
           (IF entries = <<>> THEN NoHash ELSE HashOf(entries[Len(entries)]))
      /\ metadata.lastClosureEnd =
           (IF closures = {} THEN NoTime
                             ELSE entries[Max(closures)].body.periodEnd)

VerifyAuditSnapshot(entries, orders, metadata) ==
  /\ ChainLinked(entries)
  /\ SalesJournaledOnce(entries)
  /\ CorrectionsReferToOrders(entries, orders)
  /\ SessionsAlternate(entries)
  /\ FloatsChain(entries)
  /\ ClosuresRecompute(entries)
  /\ OrdersMatchJournal(entries, orders)
  /\ MetadataMatchesHead(entries, metadata)

=============================================================================
