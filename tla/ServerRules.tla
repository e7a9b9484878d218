----------------------------- MODULE ServerRules -----------------------------
(***************************************************************************)
(* What the server checks of every entry before it stores it               *)
(* (server/src/ledger/business.ts: validatePayload, validateBusiness and   *)
(* validateCorrection; checkReferences of persistence/store.ts), over the  *)
(* prefix of the journal it already holds.  The rules are written a second *)
(* time on the server, apart from those the register applies when it seals *)
(* an entry: an entry the register seals and the server refuses would stop *)
(* the synchronization of that register for good, since the journal can    *)
(* only be sent in order.                                                  *)
(***************************************************************************)
EXTENDS SalesLedger

(* An order holds at least one article, each at a rate the server knows.   *)
ValidateOrder(sale) ==
  LET sold == {l \in Lines : Sold[sale][l] > 0}
  IN  /\ sold # {}
      /\ \A l \in sold : VatRate[l] \in {10, 20}

(* What a payload must say before the stored journal is read at all, on a  *)
(* replay too: signs, the order of dates, and lines on refunds only.       *)
ValidatePayload(entry) ==
  LET b == entry.body
  IN  /\ entry.sequence >= 1
      /\ entry.kind = "sale" => ValidateOrder(b.sale)
      /\ entry.kind = "correction" =>
           /\ b.type \in {"cancellation", "refund", "adjustment"}
           /\ b.delta # 0 /\ (b.type # "adjustment" => b.delta < 0)
           /\ b.type = "refund" <=> \E l \in Lines : b.quantities[l] > 0
           /\ \A l \in Lines : b.vat[l] >= 0
      /\ entry.kind = "cash_session_opened" =>
           b.float >= 0 /\ b.periodStart <= entry.recordedAt
      /\ entry.kind = "cash_float_updated" => b.previous >= 0 /\ b.float >= 0
      /\ entry.kind = "closure" =>
           /\ b.periodStart < b.periodEnd /\ b.periodEnd <= entry.recordedAt
           /\ b.totals.grossSales >= 0
           /\ b.float >= 0

(* The last closure stored ends the period nothing can be added to.        *)
PreviousEnd(prefix) ==
  LET closures == OfKind(prefix, "closure")
  IN  IF closures = {} THEN NoTime ELSE prefix[Max(closures)].body.periodEnd

(* The last session opened, unless a closure names it; 0 if there is none. *)
ServerActive(prefix) ==
  LET opened == OfKind(prefix, "cash_session_opened")
  IN  IF opened = {} \/ IsClosed(prefix, prefix[Max(opened)].body.session)
      THEN 0 ELSE Max(opened)

ServerFloat(prefix) == CurrentFloat(prefix, ServerActive(prefix))

(* The totals the server recomputes while it streams the stored prefix.    *)
ServerTotals(prefix, from, to) ==
  LET before == {n \in Financial(prefix) : prefix[n].recordedAt < to}
      period == {n \in before : prefix[n].recordedAt >= from}
      sales  == period \cap OfKind(prefix, "sale")
      by(S)  == NetOf(prefix, {n \in period : prefix[n].body.sale \in S})
  IN  [saleCount       |-> Cardinality(sales),
       grossSales      |-> NetOf(prefix, sales),
       correctionCount |-> Cardinality(period \ sales),
       correctionTotal |-> NetOf(prefix, period \ sales),
       netTotal        |-> NetOf(prefix, sales) + NetOf(prefix, period \ sales),
       cash            |-> by(CashSales),
       card            |-> by(Sales \ CashSales),
       cumulativeNet   |-> NetOf(prefix, before)]

(* Every line refunded gives back what is left of it at most, and carries  *)
(* the VAT of the cumulated quantities.                                    *)
RefundAccepted(prefix, c) ==
  \A l \in {l \in Lines : c.quantities[l] > 0} :
    LET before == RefundedQuantity(prefix, c.sale, l)
        vat(n) == CalculateIncludedVatCents(UnitPrice[l] * n, VatRate[l])
    IN  /\ c.quantities[l] + before <= Sold[c.sale][l]
        /\ c.vat[l] = vat(before + c.quantities[l]) - vat(before)

CorrectionAccepted(prefix, c) ==
  LET refunded == -NetOf(prefix, RefundsOf(prefix, c.sale))
  IN  /\ \E n \in OfKind(prefix, "sale") :
           prefix[n].body.sale = c.sale /\ HashOf(prefix[n]) = c.originalSaleHash
      /\ \A n \in CorrectionsOf(prefix, c.sale) : prefix[n].body.type # "cancellation"
      /\ c.type = "cancellation" =>
           /\ c.delta = -SaleTotal(c.sale)
           /\ CorrectionsOf(prefix, c.sale) = {}
      /\ c.type = "refund" =>
           /\ refunded - c.delta <= SaleTotal(c.sale)
           /\ RefundAccepted(prefix, c)
           /\ c.delta = -LineTotal(c.quantities)

ClosureAccepted(prefix, entry) ==
  LET c       == entry.body
      opening == ServerActive(prefix)
  IN  /\ c.totals = ServerTotals(prefix, c.periodStart, c.periodEnd)
      /\ opening # 0
      /\ prefix[opening].body.session = c.session
      /\ prefix[opening].body.periodStart = c.periodStart
      /\ c.float = ServerFloat(prefix)
      /\ c.theoreticalCash = c.float + c.totals.cash

FloatAccepted(prefix, u) ==
  LET opening == ServerActive(prefix)
  IN  /\ opening # 0
      /\ prefix[opening].body.session = u.session
      /\ ServerFloat(prefix) = u.previous

(* Sales and corrections count at or after the end of the last closure; a  *)
(* session and a closure start at that end.                                *)
ValidateBusiness(prefix, entry) ==
  LET end == PreviousEnd(prefix)
  IN  /\ entry.kind \in {"sale", "correction"} => entry.recordedAt >= end
      /\ entry.kind \in {"cash_session_opened", "closure"} =>
           (end # NoTime => entry.body.periodStart = end)
      /\ entry.kind = "correction" => CorrectionAccepted(prefix, entry.body)
      /\ entry.kind = "cash_session_opened" => ServerActive(prefix) = 0
      /\ entry.kind = "cash_float_updated" => FloatAccepted(prefix, entry.body)
      /\ entry.kind = "closure" => ClosureAccepted(prefix, entry)

-----------------------------------------------------------------------------

(* The server accepts every entry this register ever seals, in the order   *)
(* of the journal: whatever the clicks, the retries and the clock did, no  *)
(* rule of business.ts refuses what orderRepository.ts let through.        *)
ServerAccepts ==
  \A n \in DOMAIN ledger :
    ValidatePayload(ledger[n]) /\ ValidateBusiness(Before(ledger, n), ledger[n])

=============================================================================
