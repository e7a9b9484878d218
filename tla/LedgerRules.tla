----------------------------- MODULE LedgerRules -----------------------------
(***************************************************************************)
(* The pure part of the register's sales journal: what can be computed     *)
(* from a sequence of journal entries.  The functions are those of         *)
(* src/services/orderRepository.ts, shared there by the repository, the    *)
(* services that call it and the audit of an archive.                      *)
(*                                                                         *)
(* An entry has the header every LedgerEntry carries (id, kind, sequence,  *)
(* previousHash, recordedAt) and a body that depends on the kind:          *)
(*   sale                 sale, orderNumber, receiptNumber                 *)
(*   correction           sale, type, delta, quantities, vat,              *)
(*                        originalSaleHash                                 *)
(*   cash_session_opened  session, periodStart, float                      *)
(*   cash_float_updated   session, previous, float                         *)
(*   closure              session, periodStart, periodEnd, float, totals,  *)
(*                        theoreticalCash                                  *)
(* A sale is sealed with createdAt = paidAt, so recordedAt is also the     *)
(* instant a sale counts at.  Instants are natural numbers.                *)
(***************************************************************************)
EXTENDS Integers, Sequences, FiniteSets, FiniteSetsExt

CONSTANTS
  Sales,      \* identifiers of checkout intents, and of the sales they become
  Ops,        \* operation and session identifiers drawn by the services
  Lines,      \* order lines
  Sold,       \* [Sales -> [Lines -> Nat]]: quantities of each cart
  UnitPrice,  \* [Lines -> Nat]: unit price of a line, in cents
  VatRate,    \* [Lines -> Nat]: VAT rate of a line, in percent
  CashSales   \* the sales settled in cash, the others are settled by card

ASSUME SalesAssumption ==
  /\ IsFiniteSet(Sales)
  /\ CashSales \subseteq Sales

ASSUME LinesAssumption ==
  /\ IsFiniteSet(Lines)
  /\ UnitPrice \in [Lines -> Nat]
  /\ VatRate \in [Lines -> Nat]
  /\ Sold \in [Sales -> [Lines -> Nat]]

NoTime == -1
NoHash == <<>>

Kinds ==
  {"sale", "correction", "cash_session_opened", "cash_float_updated", "closure"}

(* An entry identifier is the kind's prefix and a caller's identifier.     *)
EntryIds == Kinds \X (Sales \cup Ops)

(* SHA-256 over the canonical entry: two entries of one chain never share  *)
(* a digest, so the digest is named by the position and the identifier.    *)
HashOf(entry) == <<entry.sequence, entry.id>>

(* The numbers a new entry takes from the metadata.                        *)
NewEntry(metadata, kind, key, at, body) ==
  [id           |-> <<kind, key>>,
   kind         |-> kind,
   sequence     |-> metadata.nextJournalSequence,
   previousHash |-> metadata.lastJournalHash,
   recordedAt   |-> at,
   body         |-> body]

AppendEntryMetadata(metadata, entry) ==
  [metadata EXCEPT !.nextJournalSequence = entry.sequence + 1,
                   !.lastJournalHash     = HashOf(entry)]

OfKind(entries, kind) == {n \in DOMAIN entries : entries[n].kind = kind}

HasEntry(entries, kind, key) ==
  \E n \in DOMAIN entries : entries[n].id = <<kind, key>>

-----------------------------------------------------------------------------
(* Amounts and totals *)

LineTotal(quantities) ==
  MapThenSumSet(LAMBDA l : UnitPrice[l] * quantities[l], Lines)

SaleTotal(sale) == LineTotal(Sold[sale])

(* What an entry adds to the net total: corrections are signed deltas.     *)
Amount(entry) ==
  IF entry.kind = "sale" THEN SaleTotal(entry.body.sale) ELSE entry.body.delta

Financial(entries) == OfKind(entries, "sale") \cup OfKind(entries, "correction")

NetOf(entries, S) == MapThenSumSet(LAMBDA n : Amount(entries[n]), S)

(* Half-open period: from <= instant < to.                                 *)
InPeriod(entries, from, to) ==
  {n \in Financial(entries) : from <= entries[n].recordedAt
                              /\ entries[n].recordedAt < to}

CalculateClosureTotals(entries, from, to) ==
  LET period == InPeriod(entries, from, to)
      sales  == period \cap OfKind(entries, "sale")
      cash   == {n \in period : entries[n].body.sale \in CashSales}
  IN  [saleCount       |-> Cardinality(sales),
       grossSales      |-> NetOf(entries, sales),
       correctionCount |-> Cardinality(period \ sales),
       correctionTotal |-> NetOf(entries, period \ sales),
       netTotal        |-> NetOf(entries, period),
       cash            |-> NetOf(entries, cash),
       card            |-> NetOf(entries, period \ cash),
       cumulativeNet   |-> NetOf(entries, {n \in Financial(entries) :
                                             entries[n].recordedAt < to})]

(* calculateTheoreticalCashCents: what the drawer should hold.             *)
TheoreticalCash(float, totals) == float + totals.cash

-----------------------------------------------------------------------------
(* Cash sessions, read back from the journal *)

NoSession == [id |-> "none", periodStart |-> NoTime, float |-> NoTime]

IsClosed(entries, session) ==
  \E n \in OfKind(entries, "closure") : entries[n].body.session = session

(* The float entered at the opening, or by the last change of the session. *)
CurrentFloat(entries, opening) ==
  LET updates == {n \in OfKind(entries, "cash_float_updated") :
                    entries[n].body.session = entries[opening].body.session}
  IN  IF updates = {} THEN entries[opening].body.float
                      ELSE entries[Max(updates)].body.float

OpenSessions(entries) ==
  {n \in OfKind(entries, "cash_session_opened") :
     ~IsClosed(entries, entries[n].body.session)}

(* The last session opened and not closed.                                 *)
GetActiveCashSession(entries) ==
  IF OpenSessions(entries) = {}
  THEN NoSession
  ELSE LET opening == Max(OpenSessions(entries))
       IN  [id          |-> entries[opening].body.session,
            periodStart |-> entries[opening].body.periodStart,
            float       |-> CurrentFloat(entries, opening)]

(* Mutated form of SessionPeriodStart: earlier sales are left out.         *)
StartsAtCreation(entries, createdAt) ==
  LET closures == OfKind(entries, "closure")
  IN  IF closures # {} THEN entries[Max(closures)].body.periodEnd ELSE createdAt

(* A session starts where the last closure ended; the first one starts at  *)
(* the first sale or correction an older version may have journaled.       *)
SessionPeriodStart(entries, createdAt) ==
  LET closures == OfKind(entries, "closure")
      first    == {entries[n].recordedAt : n \in Financial(entries)}
  IN  IF closures # {} THEN entries[Max(closures)].body.periodEnd
                       ELSE Min(first \cup {createdAt})

-----------------------------------------------------------------------------
(* Corrections *)

CorrectionsOf(entries, sale) ==
  {n \in OfKind(entries, "correction") : entries[n].body.sale = sale}

RefundsOf(entries, sale) ==
  {n \in CorrectionsOf(entries, sale) : entries[n].body.type = "refund"}

RefundedQuantity(entries, sale, line) ==
  MapThenSumSet(LAMBDA n : entries[n].body.quantities[line],
                RefundsOf(entries, sale))

(* The VAT included in a price, to the nearest cent, halves up.            *)
CalculateIncludedVatCents(gross, rate) ==
  (2 * gross * rate + 100 + rate) \div (2 * (100 + rate))

(* Mutated form of RefundVat: each refund rounds its own VAT.              *)
IsolatedRefundVat(entries, sale, quantities) ==
  [l \in Lines |->
     CalculateIncludedVatCents(UnitPrice[l] * quantities[l], VatRate[l])]

(* buildRefundLines: the VAT given back on a line is the difference between *)
(* the VAT of everything refunded so far, this refund included, and the    *)
(* VAT of what had been refunded before.                                   *)
RefundVat(entries, sale, quantities) ==
  [l \in Lines |->
     LET before == RefundedQuantity(entries, sale, l)
         vat(n) == CalculateIncludedVatCents(UnitPrice[l] * n, VatRate[l])
     IN  vat(before + quantities[l]) - vat(before)]

(* validateStructuredRefund: an article is selected, no line gives back    *)
(* more than what is left of it, and the VAT computed by the caller still  *)
(* is that of the journal.                                                 *)
ValidateStructuredRefund(entries, c) ==
  /\ \E l \in Lines : c.quantities[l] > 0
  /\ \A l \in Lines :
       c.quantities[l] + RefundedQuantity(entries, c.sale, l) <= Sold[c.sale][l]
  /\ c.vat = RefundVat(entries, c.sale, c.quantities)

ValidateCorrection(entries, c) ==
  LET prior == CorrectionsOf(entries, c.sale)
  IN  /\ c.type # "cancellation" => c.delta # 0
      /\ c.type \in {"cancellation", "refund"} => c.delta < 0
      /\ c.type = "cancellation" => c.delta = -SaleTotal(c.sale)
      /\ \A n \in prior : entries[n].body.type # "cancellation"
      /\ c.type = "cancellation" => prior = {}
      /\ c.type = "refund" =>
           /\ ValidateStructuredRefund(entries, c)
           /\ c.delta = -LineTotal(c.quantities)
           /\ -NetOf(entries, RefundsOf(entries, c.sale)) - c.delta
                <= SaleTotal(c.sale)

=============================================================================
