----------------------------- MODULE SalesLedger -----------------------------
(***************************************************************************)
(* The register's durable journal: checkout intents, sales, corrections,   *)
(* cash sessions and period closures, as kept by OrderRepository           *)
(* (src/services/orderRepository.ts; RoomOrderStore.kt has the same        *)
(* transactions on Android) and driven by the services in front of it.     *)
(*                                                                         *)
(* Each repository method is one transaction, hence one action.  The       *)
(* services are not: openSession, updateOpeningFloat, refundSale,          *)
(* cancelSale, adjustSale and closePeriod first read the journal, then     *)
(* call the repository with what they read.  A call on its way is a member *)
(* of "requests": it is posted by a Request... action, applied any time    *)
(* later, possibly again (a double tap, a retry with the same operation    *)
(* identifier), and goes away with Settle, when its caller has the answer, *)
(* a refusal, or has been killed.  A repository call that is refused or    *)
(* recognised as a replay changes nothing.                                 *)
(***************************************************************************)
EXTENDS LedgerAudit

CONSTANTS
  LegacySales,    \* sales an older version may have sealed before sessions existed
  Floats,         \* cash floats that can be typed in
  Adjustments,    \* signed amounts of the explicit adjustments, in cents
  MaxClock,       \* bound: last instant of the device clock
  MaxRequests,    \* bound: service calls on their way at the same time
  ClockMayGoBack  \* whether the device clock may be set back

ASSUME ParametersAssumption ==
  /\ LegacySales \subseteq Sales
  /\ Floats \subseteq Nat
  /\ Adjustments \subseteq Int
  /\ MaxClock \in Nat
  /\ MaxRequests \in Nat
  /\ ClockMayGoBack \in BOOLEAN

VARIABLES
  status,       \* checkout intent -> its status, "absent" before it exists
  confirmedAt,  \* checkout intent -> paymentConfirmedAt
  orders,       \* the orders store: immutable snapshots with their seal
  ledger,       \* the salesLedger store, by sequence
  metadata,     \* the sequences record of the metadata store
  requests,     \* service calls on their way to the repository
  issued,       \* operation and session identifiers already drawn
  clock         \* the device clock

vars == <<status, confirmedAt, orders, ledger, metadata, requests, issued, clock>>
storeVars == <<orders, ledger, metadata>>
intentVars == <<status, confirmedAt>>
callVars == <<requests, issued>>

Statuses == {"absent", "pending_payment", "payment_to_verify",
             "payment_confirmed", "finalized", "abandoned"}

Times == 0..MaxClock

-----------------------------------------------------------------------------
(* Initial state: an empty register, or one upgraded from a version that   *)
(* sealed a sale without any cash session.                                 *)

SaleBody(sale, meta) ==
  [sale          |-> sale,
   orderNumber   |-> meta.nextOrderSequence,
   receiptNumber |-> meta.nextReceiptSequence]

StoredOrder(entry) ==
  [id              |-> entry.body.sale,
   orderNumber     |-> entry.body.orderNumber,
   receiptNumber   |-> entry.body.receiptNumber,
   paidAt          |-> entry.recordedAt,
   journalEntryId  |-> entry.id,
   journalSequence |-> entry.sequence,
   hash            |-> HashOf(entry)]

(* Mutated form of EmptyMetadata: numbers start at zero.                   *)
ZeroMetadata ==
  [nextOrderSequence   |-> 0,
   nextReceiptSequence |-> 0,
   nextJournalSequence |-> 0,
   lastJournalHash     |-> NoHash,
   lastClosureEnd      |-> NoTime]

EmptyMetadata ==
  [nextOrderSequence   |-> 1,
   nextReceiptSequence |-> 1,
   nextJournalSequence |-> 1,
   lastJournalHash     |-> NoHash,
   lastClosureEnd      |-> NoTime]

(* Mutated form of AppendSaleMetadata: the receipt sequence stays.         *)
AppendOrderMetadata(meta, entry) ==
  [AppendEntryMetadata(meta, entry) EXCEPT
     !.nextOrderSequence = meta.nextOrderSequence + 1]

(* The metadata after a sale: the three sequences move together.           *)
AppendSaleMetadata(meta, entry) ==
  [AppendEntryMetadata(meta, entry) EXCEPT
     !.nextOrderSequence   = meta.nextOrderSequence + 1,
     !.nextReceiptSequence = meta.nextReceiptSequence + 1]

EmptyRegister ==
  /\ status = [i \in Sales |-> "absent"]
  /\ confirmedAt = [i \in Sales |-> NoTime]
  /\ orders = {}
  /\ ledger = <<>>
  /\ metadata = EmptyMetadata

(* createOrder: one call sealed a sale, dated when it was paid; its intent *)
(* is taken for finalized.                                                 *)
CreateOrder(i) ==
  LET entry == NewEntry(EmptyMetadata, "sale", i, 0, SaleBody(i, EmptyMetadata))
  IN  /\ status = [j \in Sales |-> IF j = i THEN "finalized" ELSE "absent"]
      /\ confirmedAt = [j \in Sales |-> IF j = i THEN 0 ELSE NoTime]
      /\ orders = {StoredOrder(entry)}
      /\ ledger = <<entry>>
      /\ metadata = AppendSaleMetadata(EmptyMetadata, entry)

Init ==
  /\ requests = {}
  /\ issued = {}
  /\ clock = 0
  /\ EmptyRegister \/ \E i \in LegacySales : CreateOrder(i)

-----------------------------------------------------------------------------
(* The device clock *)

Tick ==
  /\ clock < MaxClock
  /\ clock' = clock + 1
  /\ UNCHANGED <<storeVars, intentVars, callVars>>

SetClockBack ==
  /\ ClockMayGoBack
  /\ clock > 0
  /\ clock' = clock - 1
  /\ UNCHANGED <<storeVars, intentVars, callVars>>

-----------------------------------------------------------------------------
(* Checkout intents *)

(* The selling screen is only rendered once a cash session was active.  It *)
(* may still be there after a closure: the dialog of the closure, closed   *)
(* because the device was put to sleep, does not read the session again.   *)
SellingScreen == OfKind(ledger, "cash_session_opened") # {}

CreateCheckoutIntent(i) ==
  /\ SellingScreen
  /\ status[i] = "absent"
  /\ status' = [status EXCEPT ![i] = "pending_payment"]
  /\ UNCHANGED <<storeVars, callVars, confirmedAt, clock>>

MarkCheckoutPaymentToVerify(i) ==
  /\ status[i] \in {"pending_payment", "payment_to_verify"}
  /\ status' = [status EXCEPT ![i] = "payment_to_verify"]
  /\ UNCHANGED <<storeVars, callVars, confirmedAt, clock>>

(* A repeated confirmation keeps the instant of the first one.             *)
ConfirmCheckoutPayment(i) ==
  /\ status[i] \in {"payment_to_verify", "payment_confirmed"}
  /\ status' = [status EXCEPT ![i] = "payment_confirmed"]
  /\ confirmedAt' = [confirmedAt EXCEPT ![i] = IF @ = NoTime THEN clock ELSE @]
  /\ UNCHANGED <<storeVars, callVars, clock>>

(* Mutated form of AbandonCheckoutIntent: any open intent can be dropped.  *)
AbandonAnyIntent(i) ==
  /\ status[i] \notin {"absent", "finalized"}
  /\ status' = [status EXCEPT ![i] = "abandoned"]
  /\ UNCHANGED <<storeVars, callVars, confirmedAt, clock>>

AbandonCheckoutIntent(i) ==
  /\ status[i] \in {"pending_payment", "payment_to_verify", "abandoned"}
  /\ status' = [status EXCEPT ![i] = "abandoned"]
  /\ UNCHANGED <<storeVars, callVars, confirmedAt, clock>>

(* Mutated form of AfterLastClosure: a forgotten check.                    *)
AnyInstant(at) == TRUE

(* Nothing may be added to a period that is already closed.                *)
AfterLastClosure(at) ==
  metadata.lastClosureEnd # NoTime => at >= metadata.lastClosureEnd

CanFinalize(i) ==
  /\ status[i] = "payment_confirmed"
  /\ AfterLastClosure(confirmedAt[i])
  /\ \A o \in orders : o.id # i

(* One transaction: the order, the journal entry, the sequences and the    *)
(* intent.  A finalized intent answers with the existing sale.             *)
FinalizeCheckoutIntent(i) ==
  LET entry == NewEntry(metadata, "sale", i, confirmedAt[i], SaleBody(i, metadata))
  IN  /\ CanFinalize(i)
      /\ orders' = orders \cup {StoredOrder(entry)}
      /\ ledger' = Append(ledger, entry)
      /\ metadata' = AppendSaleMetadata(metadata, entry)
      /\ status' = [status EXCEPT ![i] = "finalized"]
      /\ UNCHANGED <<confirmedAt, callVars, clock>>

-----------------------------------------------------------------------------
(* Service calls: read the journal, then post a repository request *)

Post(op, kind, body) ==
  /\ op \notin issued
  /\ Cardinality(requests) < MaxRequests
  /\ issued' = issued \cup {op}
  /\ requests' = requests \cup {[op |-> op, kind |-> kind, at |-> clock, body |-> body]}
  /\ UNCHANGED <<storeVars, intentVars, clock>>

(* With an active session the service answers without any request.         *)
RequestOpenSession(op, float) ==
  /\ GetActiveCashSession(ledger) = NoSession
  /\ Post(op, "cash_session_opened",
          [session     |-> op,
           periodStart |-> SessionPeriodStart(ledger, clock),
           float       |-> float])

RequestUpdateFloat(op, float) ==
  LET session == GetActiveCashSession(ledger)
  IN  /\ session # NoSession
      /\ session.float # float
      /\ Post(op, "cash_float_updated",
              [session |-> session.id, previous |-> session.float, float |-> float])

NoQuantities == [l \in Lines |-> 0]

(* The history, where corrections start, is opened from the same screen.   *)
RequestCorrection(op, sale, type, delta, quantities) ==
  /\ SellingScreen
  /\ \E o \in orders : o.id = sale
  /\ Post(op, "correction",
          [sale       |-> sale,
           type       |-> type,
           delta      |-> delta,
           quantities |-> quantities,
           vat        |-> RefundVat(ledger, sale, quantities)])

RequestCancelSale(op, sale) ==
  RequestCorrection(op, sale, "cancellation", -SaleTotal(sale), NoQuantities)

(* What can be selected: some articles, and no more than were sold.        *)
Selections(sale) ==
  {q \in [Lines -> UNION {0..Sold[sale][l] : l \in Lines}] :
     q # NoQuantities /\ \A l \in Lines : q[l] <= Sold[sale][l]}

RequestRefundSale(op, sale, quantities) ==
  RequestCorrection(op, sale, "refund", -LineTotal(quantities), quantities)

RequestAdjustSale(op, sale, delta) ==
  RequestCorrection(op, sale, "adjustment", delta, NoQuantities)

(* The audit of the stores, read in one transaction.                       *)
VerifyIntegrity == VerifyAuditSnapshot(ledger, orders, metadata)

ValidateClosurePeriod(periodStart, periodEnd) ==
  periodStart < periodEnd /\ periodEnd <= clock

(* What must hold of a period before its totals are shown.                 *)
PreviewClosure(session, periodEnd) ==
  LET closures == OfKind(ledger, "closure")
  IN  /\ ValidateClosurePeriod(session.periodStart, periodEnd)
      /\ closures # {} => session.periodStart = ledger[Max(closures)].body.periodEnd
      /\ VerifyIntegrity

CloseActiveSession(op, session, periodEnd) ==
  /\ session # NoSession
  /\ Post(op, "closure",
          [session     |-> session.id,
           periodStart |-> session.periodStart,
           periodEnd   |-> periodEnd,
           float       |-> session.float])

(* A closure is only confirmed under totals shown, and the stores are      *)
(* audited once more before it is asked for.                               *)
RequestClosePeriod(op, periodEnd) ==
  LET session == GetActiveCashSession(ledger)
  IN  CloseActiveSession(op, session, periodEnd) /\ PreviewClosure(session, periodEnd)

(* The caller has its answer, or is gone.                                  *)
Settle(r) ==
  /\ requests' = requests \ {r}
  /\ UNCHANGED <<storeVars, intentVars, issued, clock>>

-----------------------------------------------------------------------------
(* Repository transactions *)

(* Mutated form of Unrecorded: replays are not recognised.                 *)
NeverRecorded(r) == TRUE

(* The entry does not exist yet: otherwise the call is a replay, answered  *)
(* with the existing entry, or a conflict, refused.                        *)
Unrecorded(r) == ~HasEntry(ledger, r.kind, r.op)

(* A period starts where the last closure ended.                           *)
FollowsLastClosure(start) ==
  metadata.lastClosureEnd # NoTime => start = metadata.lastClosureEnd

(* Mutated form of SameSession: the float read by the caller is trusted.   *)
SameSessionAnyFloat(session, id, float) == session.id = id

(* The session the caller has read is still the active one, with the same  *)
(* float.                                                                  *)
SameSession(session, id, float) == session.id = id /\ session.float = float

Journal(entry, meta) ==
  /\ ledger' = Append(ledger, entry)
  /\ metadata' = meta
  /\ UNCHANGED <<intentVars, orders, callVars, clock>>

OpenCashSession(r) ==
  LET entry == NewEntry(metadata, "cash_session_opened", r.op, r.at, r.body)
  IN  /\ r.kind = "cash_session_opened"
      /\ Unrecorded(r)
      /\ r.body.periodStart <= r.at
      /\ FollowsLastClosure(r.body.periodStart)
      /\ GetActiveCashSession(ledger) = NoSession
      /\ Journal(entry, AppendEntryMetadata(metadata, entry))

UpdateCashFloat(r) ==
  LET entry == NewEntry(metadata, "cash_float_updated", r.op, r.at, r.body)
  IN  /\ r.kind = "cash_float_updated"
      /\ Unrecorded(r)
      /\ SameSession(GetActiveCashSession(ledger), r.body.session, r.body.previous)
      /\ Journal(entry, AppendEntryMetadata(metadata, entry))

RecordCorrection(r) ==
  \E o \in orders :
    LET body  == [sale             |-> o.id,
                  type             |-> r.body.type,
                  delta            |-> r.body.delta,
                  quantities       |-> r.body.quantities,
                  vat              |-> r.body.vat,
                  originalSaleHash |-> o.hash]
        entry == NewEntry(metadata, "correction", r.op, r.at, body)
    IN  /\ r.kind = "correction"
        /\ o.id = r.body.sale
        /\ Unrecorded(r)
        /\ AfterLastClosure(r.at)
        /\ ValidateCorrection(ledger, r.body)
        /\ Journal(entry, AppendEntryMetadata(metadata, entry))

ClosePeriod(r) ==
  LET session == GetActiveCashSession(ledger)
      totals  == CalculateClosureTotals(ledger, r.body.periodStart, r.body.periodEnd)
      body    == [session         |-> r.body.session,
                  periodStart     |-> r.body.periodStart,
                  periodEnd       |-> r.body.periodEnd,
                  float           |-> r.body.float,
                  totals          |-> totals,
                  theoreticalCash |-> TheoreticalCash(r.body.float, totals)]
      entry   == NewEntry(metadata, "closure", r.op, r.at, body)
  IN  /\ r.kind = "closure"
      /\ Unrecorded(r)
      /\ r.body.periodStart < r.body.periodEnd
      /\ r.body.periodEnd <= r.at
      /\ FollowsLastClosure(r.body.periodStart)
      /\ SameSession(session, r.body.session, r.body.float)
      /\ session.periodStart = r.body.periodStart
      /\ Journal(entry, [AppendEntryMetadata(metadata, entry)
                           EXCEPT !.lastClosureEnd = r.body.periodEnd])

-----------------------------------------------------------------------------

Checkout ==
  \E i \in Sales :
    \/ CreateCheckoutIntent(i)
    \/ MarkCheckoutPaymentToVerify(i)
    \/ ConfirmCheckoutPayment(i)
    \/ AbandonCheckoutIntent(i)
    \/ FinalizeCheckoutIntent(i)

Service ==
  \E op \in Ops :
    \/ \E float \in Floats : RequestOpenSession(op, float)
    \/ \E float \in Floats : RequestUpdateFloat(op, float)
    \/ \E sale \in Sales : RequestCancelSale(op, sale)
    \/ \E sale \in Sales : \E quantities \in Selections(sale) :
         RequestRefundSale(op, sale, quantities)
    \/ \E sale \in Sales, delta \in Adjustments : RequestAdjustSale(op, sale, delta)
    \/ \E periodEnd \in Times : RequestClosePeriod(op, periodEnd)

Repository ==
  \E r \in requests :
    \/ OpenCashSession(r)
    \/ UpdateCashFloat(r)
    \/ RecordCorrection(r)
    \/ ClosePeriod(r)
    \/ Settle(r)

Next == Tick \/ SetClockBack \/ Checkout \/ Service \/ Repository

Spec == Init /\ [][Next]_vars

-----------------------------------------------------------------------------
(* Types *)

(* Amounts, and the VAT of refunds, are sums over the journal: they are    *)
(* left to the properties below.                                           *)
BodyOK(kind, body) ==
  /\ kind = "sale" =>
       body \in [sale : Sales, orderNumber : Nat, receiptNumber : Nat]
  /\ kind = "correction" =>
       /\ body.sale \in Sales
       /\ body.type \in {"cancellation", "refund", "adjustment"}
  /\ kind = "cash_session_opened" =>
       body \in [session : Ops, periodStart : Times, float : Floats]
  /\ kind = "cash_float_updated" =>
       body \in [session : Ops, previous : Floats, float : Floats]
  /\ kind = "closure" =>
       /\ body.session \in Ops
       /\ body.periodStart \in Times
       /\ body.periodEnd \in Times
       /\ body.float \in Floats

Hashes == {NoHash} \cup (Nat \X EntryIds)

EntryOK(entry) ==
  /\ entry.kind \in Kinds
  /\ entry.id \in EntryIds
  /\ entry.sequence \in Nat
  /\ entry.previousHash \in Hashes
  /\ entry.recordedAt \in Times
  /\ BodyOK(entry.kind, entry.body)

RequestOK(r) ==
  /\ r.op \in Ops
  /\ r.at \in Times
  /\ r.kind \in Kinds \ {"sale"}
  /\ BodyOK(r.kind, r.body)

Metadata ==
  [nextOrderSequence   : Nat \ {0},
   nextReceiptSequence : Nat \ {0},
   nextJournalSequence : Nat \ {0},
   lastJournalHash     : Hashes,
   lastClosureEnd      : Times \cup {NoTime}]

TypeOK ==
  /\ status \in [Sales -> Statuses]
  /\ confirmedAt \in [Sales -> Times \cup {NoTime}]
  /\ \A i \in Sales :
       status[i] \in {"payment_confirmed", "finalized"} => confirmedAt[i] \in Times
  /\ \A o \in orders : o.id \in Sales /\ o.paidAt \in Times
  /\ ledger \in Seq({ledger[n] : n \in DOMAIN ledger})
  /\ \A n \in DOMAIN ledger : EntryOK(ledger[n])
  /\ metadata \in Metadata
  /\ \A r \in requests : RequestOK(r)
  /\ issued \subseteq Ops
  /\ clock \in Times

-----------------------------------------------------------------------------
(* Safety *)

(* Whatever stale, replayed or concurrent calls reach the repository, the  *)
(* stores always pass the audit the register runs before a closure, an     *)
(* export or a restoration (verifyAuditSnapshot): a failed audit blocks    *)
(* closures for good, since nothing in the journal can be repaired.        *)
AuditClean == VerifyIntegrity

(* The journal keeps to its closed periods: an entry journaled after a     *)
(* closure never counts at an instant the closure covered, although sales  *)
(* and corrections are dated by their caller, before the transaction.      *)
ClosedPeriodsSealed ==
  \A c \in OfKind(ledger, "closure") : \A n \in Financial(ledger) :
    c < n => ledger[n].recordedAt >= ledger[c].body.periodEnd

ClosuresBefore(n) == {c \in OfKind(ledger, "closure") : c < n}

(* Closed periods tile time: each starts where the one before it ended,    *)
(* so every financial entry dated before the last end is in exactly one    *)
(* period, and the cumulative total printed on a closure is the sum of the *)
(* net totals of all the closures up to it (no sale is in no period).  The *)
(* active session starts where the last closure ended: opened from a stale *)
(* reading of the journal, it could never be closed.                       *)
PeriodsTile ==
  LET session == GetActiveCashSession(ledger)
  IN  /\ \A c \in OfKind(ledger, "closure") :
           LET body == ledger[c].body
               last == Max(ClosuresBefore(c))
           IN  body.totals.cumulativeNet =
                 body.totals.netTotal +
                   (IF ClosuresBefore(c) = {} THEN 0
                    ELSE ledger[last].body.totals.cumulativeNet)
      /\ session # NoSession =>
           metadata.lastClosureEnd \in {NoTime, session.periodStart}

(* An operation is journaled once, however often its call is repeated: a   *)
(* double tap or a retry after a lost answer never counts twice.           *)
JournaledOnce ==
  \A m, n \in DOMAIN ledger : ledger[m].id = ledger[n].id => m = n

(* Each finalized intent has one order and one journaled sale, dated at    *)
(* the confirmation of its payment, and no other intent has any; order     *)
(* and receipt numbers follow the journal without a gap.                   *)
FinalizedExactlyOnce ==
  /\ {o.id : o \in orders} = {i \in Sales : status[i] = "finalized"}
  /\ \A o \in orders :
       /\ o.paidAt = confirmedAt[o.id]
       /\ o.orderNumber = o.receiptNumber
       /\ o.orderNumber = Cardinality({m \in OfKind(ledger, "sale") :
                                          m <= o.journalSequence})

(* A payment confirmed by the cashier is never forgotten: its intent can   *)
(* only become the sale, in the same step, and the instant of the first    *)
(* confirmation is kept.                                                   *)
ConfirmedPaymentKept ==
  [][\A i \in Sales : status[i] = "payment_confirmed" =>
       /\ status'[i] \in {"payment_confirmed", "finalized"}
       /\ confirmedAt'[i] = confirmedAt[i]
       /\ status'[i] = "finalized" => HasEntry(ledger', "sale", i)]_vars

(* docs/checkout-intents.md: a confirmed intent goes to "finalized", and   *)
(* an error keeps it confirmed and recoverable.  So finalization must stay *)
(* possible.                                                               *)
ConfirmedStaysFinalizable ==
  \A i \in Sales : status[i] = "payment_confirmed" => CanFinalize(i)

-----------------------------------------------------------------------------
(* The journal implements the promise about closed periods.                *)

FinancialIds == ({"sale"} \X Sales) \cup ({"correction"} \X Ops)

RecordedEntries ==
  {[entry |-> ledger[n].id, at |-> ledger[n].recordedAt] : n \in Financial(ledger)}

ClosedPeriod(c) ==
  LET from == ledger[c].body.periodStart
      to   == ledger[c].body.periodEnd
  IN  [from    |-> from,
       to      |-> to,
       counted |-> {[entry |-> ledger[n].id, at |-> ledger[n].recordedAt] :
                      n \in InPeriod(Before(ledger, c), from, to)}]

Promise == INSTANCE SealedJournal
             WITH Entries  <- FinancialIds,
                  Instants <- Times,
                  recorded <- RecordedEntries,
                  periods  <- {ClosedPeriod(c) : c \in OfKind(ledger, "closure")}

(* Every run of the journal is a run of SealedJournal.                     *)
ImplementsPromise == Promise!Spec

=============================================================================
