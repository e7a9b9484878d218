------------------------- MODULE SalesLedgerProofs -------------------------
(***************************************************************************)
(* Proofs about SalesLedger, and about what ServerRules says of its        *)
(* journal, for any sales, operations, prices, clock bound and number of   *)
(* calls on their way, and whether or not the device clock may be set back *)
(* (one theorem is about a clock that is not).                             *)
(*                                                                         *)
(* Five actions journal an entry.  Each of them is shown to be a           *)
(* JournalStep, which says what the rest of the argument needs: who the    *)
(* entry is, that it is new, and when it counts.  The invariant and the    *)
(* refinement are then proved once, for a JournalStep.                     *)
(***************************************************************************)
EXTENDS ServerRules, FiniteSetTheorems, SequenceTheorems, WellFoundedInduction, TLAPS

-----------------------------------------------------------------------------
(* The operators of LedgerRules and LedgerAudit: what they return, and how *)
(* an appended entry changes them.                                         *)

IsJournal(entries) == entries \in Seq({entries[n] : n \in DOMAIN entries})

-----------------------------------------------------------------------------
(* The smallest and the largest element of a set of naturals               *)

(* A nonempty set of naturals has a least element, the one Min returns.    *)
LEMMA MinIsElement ==
  ASSUME NEW S, S \subseteq Nat, S # {}
  PROVE  Min(S) \in S
<1>1. PICK x \in S : \A y \in S : ~(<<y, x>> \in OpToRel(<, Nat))
  BY WFMin, NatLessThanWellFounded
<1>2. ASSUME NEW y \in S
      PROVE  x <= y
  <2>1. x \in Nat /\ y \in Nat
    OBVIOUS
  <2>2. ~(y < x)
    BY <1>1, <2>1 DEF OpToRel
  <2> QED
    BY <2>1, <2>2
<1> QED
  BY <1>2 DEF Min

(* A nonempty set of positions has a greatest element, the one Max         *)
(* returns.                                                                *)
LEMMA MaxIsElement ==
  ASSUME NEW k \in Nat, NEW S, S \subseteq 1..k, S # {}
  PROVE  Max(S) \in S /\ \A y \in S : y <= Max(S)
<1> DEFINE T == {n \in Nat : \E x \in S : n = k - x}
<1>1. T \subseteq Nat /\ T # {}
  <2>1. PICK x \in S : TRUE
    OBVIOUS
  <2>2. k - x \in T
    BY <2>1
  <2> QED
    BY <2>2
<1>2. PICK m \in T : \A y \in T : ~(<<y, m>> \in OpToRel(<, Nat))
  BY <1>1, WFMin, NatLessThanWellFounded
<1>3. PICK x \in S : m = k - x
  BY <1>2
<1>4. \A y \in S : x >= y
  <2>1. SUFFICES ASSUME NEW y \in S PROVE x >= y
    OBVIOUS
  <2>2. k - y \in T
    OBVIOUS
  <2>3. ~(k - y < m)
    BY <1>2, <2>2 DEF OpToRel
  <2> QED
    BY <1>3, <2>3
<1>5. \E z \in S : \A y \in S : z >= y
  BY <1>4
<1>6. Max(S) \in S /\ \A y \in S : Max(S) >= y
  BY <1>5 DEF Max
<1> QED
  BY <1>6

-----------------------------------------------------------------------------
(* Appending an entry *)

(* The positions of a journal are 1 to its length.                         *)
LEMMA JournalDomain ==
  ASSUME NEW s, IsJournal(s)
  PROVE  /\ Len(s) \in Nat
         /\ DOMAIN s = 1..Len(s)
  BY LenProperties DEF IsJournal

(* An append keeps every position and adds one at the end.                 *)
LEMMA AppendJournal ==
  ASSUME NEW s, IsJournal(s), NEW e
  PROVE  /\ IsJournal(Append(s, e))
         /\ Len(Append(s, e)) = Len(s) + 1
         /\ DOMAIN Append(s, e) = 1..(Len(s) + 1)
         /\ \A n \in 1..Len(s) : Append(s, e)[n] = s[n]
         /\ Append(s, e)[Len(s) + 1] = e
<1> DEFINE S == {s[n] : n \in DOMAIN s} \cup {e}
           t == Append(s, e)
<1>1. s \in Seq(S)
  BY SeqMonotonic DEF IsJournal
<1>2. /\ t \in Seq(S)
      /\ Len(t) = Len(s) + 1
      /\ \A n \in 1..Len(s) : t[n] = s[n]
      /\ t[Len(s) + 1] = e
  BY <1>1, AppendProperties
<1>3. Len(s) \in Nat /\ DOMAIN s = 1..Len(s)
  BY JournalDomain
<1>4. DOMAIN t = 1..(Len(s) + 1)
  BY <1>2, LenProperties
<1>5. S \subseteq {t[n] : n \in DOMAIN t}
  BY <1>2, <1>3, <1>4
<1>6. IsJournal(t)
  BY <1>2, <1>5, SeqMonotonic DEF IsJournal
<1> QED
  BY <1>2, <1>4, <1>6

(* The entries of a kind after an append.                                  *)
LEMMA OfKindAppend ==
  ASSUME NEW s, IsJournal(s), NEW e, NEW kind
  PROVE  OfKind(Append(s, e), kind) =
           OfKind(s, kind) \cup (IF e.kind = kind THEN {Len(s) + 1} ELSE {})
<1>1. /\ Len(s) \in Nat
      /\ DOMAIN s = 1..Len(s)
      /\ DOMAIN Append(s, e) = 1..(Len(s) + 1)
      /\ \A n \in 1..Len(s) : Append(s, e)[n] = s[n]
      /\ Append(s, e)[Len(s) + 1] = e
  BY JournalDomain, AppendJournal
<1>2. 1..(Len(s) + 1) = (1..Len(s)) \cup {Len(s) + 1}
  BY <1>1
<1> QED
  BY <1>1, <1>2 DEF OfKind

(* What precedes an entry is not changed by an append; what precedes the   *)
(* new entry is the whole journal.                                         *)
LEMMA BeforeAppend ==
  ASSUME NEW s, IsJournal(s), NEW e
  PROVE  /\ \A n \in 1..Len(s) : Before(Append(s, e), n) = Before(s, n)
         /\ Before(Append(s, e), Len(s) + 1) = s
<1> DEFINE t == Append(s, e)
           S == {t[n] : n \in DOMAIN t}
<1>1. /\ Len(s) \in Nat
      /\ DOMAIN s = 1..Len(s)
      /\ DOMAIN t = 1..(Len(s) + 1)
      /\ Len(t) = Len(s) + 1
      /\ \A n \in 1..Len(s) : t[n] = s[n]
  BY JournalDomain, AppendJournal
<1>2. \A n \in DOMAIN t : t[n] \in S
  OBVIOUS
<1>3. s \in Seq(S)
  <2>1. {s[n] : n \in DOMAIN s} \subseteq S
    BY <1>1
  <2> QED
    BY <2>1, SeqMonotonic DEF IsJournal
<1>4. ASSUME NEW k \in 0..Len(s)
      PROVE  SubSeq(t, 1, k) = SubSeq(s, 1, k)
  <2>1. \A i \in 1..k : t[i] \in S /\ s[i] \in S /\ t[i] = s[i]
    BY <1>1, <1>2
  <2>2. /\ SubSeq(t, 1, k) \in Seq(S)
        /\ Len(SubSeq(t, 1, k)) = k
        /\ \A i \in 1..k : SubSeq(t, 1, k)[i] = t[i]
    <3>1. k \in Int /\ 1 \in Int /\ (IF 1 <= k THEN k - 1 + 1 ELSE 0) = k
          /\ \A i \in 1..(k - 1 + 1) : 1 + i - 1 = i
      BY <1>1
    <3>2. k - 1 + 1 = k
      BY <1>1
    <3> QED
      BY <2>1, <3>1, <3>2, SubSeqProperties
  <2>3. /\ SubSeq(s, 1, k) \in Seq(S)
        /\ Len(SubSeq(s, 1, k)) = k
        /\ \A i \in 1..k : SubSeq(s, 1, k)[i] = s[i]
    <3>1. k \in Int /\ 1 \in Int /\ (IF 1 <= k THEN k - 1 + 1 ELSE 0) = k
          /\ \A i \in 1..(k - 1 + 1) : 1 + i - 1 = i
      BY <1>1
    <3>2. k - 1 + 1 = k
      BY <1>1
    <3> QED
      BY <2>1, <3>1, <3>2, SubSeqProperties
  <2> QED
    BY <2>1, <2>2, <2>3, SeqEqual
<1>5. ASSUME NEW n \in 1..Len(s)
      PROVE  Before(t, n) = Before(s, n)
  <2>1. n - 1 \in 0..Len(s)
    BY <1>1
  <2> QED
    BY <1>4, <2>1 DEF Before
<1>6. Before(t, Len(s) + 1) = s
  <2>1. Len(s) \in 0..Len(s) /\ Len(s) + 1 - 1 = Len(s)
    BY <1>1
  <2>2. SubSeq(t, 1, Len(s)) = SubSeq(s, 1, Len(s))
    BY <1>4, <2>1
  <2>3. SubSeq(s, 1, Len(s)) = s
    BY <1>3, SubSeqFull
  <2> QED
    BY <2>1, <2>2, <2>3 DEF Before
<1> QED
  BY <1>5, <1>6

(* What precedes an entry is a prefix of the journal.                      *)
LEMMA BeforeDomain ==
  ASSUME NEW s, IsJournal(s), NEW n \in 1..Len(s)
  PROVE  /\ DOMAIN Before(s, n) \subseteq 1..Len(s)
         /\ \A i \in DOMAIN Before(s, n) : Before(s, n)[i] = s[i]
<1> DEFINE S == {s[i] : i \in DOMAIN s}
           b == SubSeq(s, 1, n - 1)
<1>1. Len(s) \in Nat /\ DOMAIN s = 1..Len(s)
  BY JournalDomain
<1>2. 1 \in Int /\ n - 1 \in Int /\ n - 1 - 1 + 1 = n - 1
  BY <1>1
<1>3. (IF 1 <= n - 1 THEN n - 1 ELSE 0) = n - 1
  BY <1>1
<1>4. \A i \in 1..(n - 1) : s[i] \in S /\ 1 + i - 1 = i
  BY <1>1
<1>5. b \in Seq(S) /\ Len(b) = n - 1 /\ \A i \in 1..(n - 1) : b[i] = s[i]
  BY <1>2, <1>3, <1>4, SubSeqProperties
<1>6. DOMAIN b = 1..(n - 1)
  BY <1>5, LenProperties
<1> QED
  BY <1>1, <1>5, <1>6 DEF Before

-----------------------------------------------------------------------------
(* The inductive invariant.                                                *)

(* The journal is a chain and the metadata describes its head.             *)
ChainInv ==
  /\ ChainLinked(ledger)
  /\ metadata.nextJournalSequence = Len(ledger) + 1
  /\ metadata.lastJournalHash =
       IF ledger = <<>> THEN NoHash ELSE HashOf(ledger[Len(ledger)])

(* An identifier tells the kind of its entry and, for a sale, the order.   *)
IdInv ==
  /\ \A n \in DOMAIN ledger : ledger[n].id[1] = ledger[n].kind
  /\ \A n \in OfKind(ledger, "sale") :
       /\ ledger[n].id = <<"sale", ledger[n].body.sale>>
       /\ \E o \in orders : o.id = ledger[n].body.sale
  /\ JournaledOnce

(* lastClosureEnd is the largest end of the closures.                      *)
SealInv ==
  /\ metadata.lastClosureEnd = NoTime => OfKind(ledger, "closure") = {}
  /\ metadata.lastClosureEnd # NoTime =>
       \E c \in OfKind(ledger, "closure") :
         ledger[c].body.periodEnd = metadata.lastClosureEnd
  /\ \A c \in OfKind(ledger, "closure") :
       /\ ledger[c].body.periodStart < ledger[c].body.periodEnd
       /\ ledger[c].body.periodEnd <= metadata.lastClosureEnd
  /\ ClosedPeriodsSealed

IInv == TypeOK /\ ChainInv /\ IdInv /\ SealInv

(* One entry is journaled.                                                 *)
JournalStep(kind, key, at, body) ==
  LET entry == NewEntry(metadata, kind, key, at, body)
  IN  /\ ~HasEntry(ledger, kind, key)
      /\ ledger' = Append(ledger, entry)
      /\ metadata'.nextJournalSequence = entry.sequence + 1
      /\ metadata'.lastJournalHash = HashOf(entry)
      /\ orders \subseteq orders'
      /\ kind # "sale" => key \in Ops
      /\ kind = "sale" => body.sale = key /\ \E o \in orders' : o.id = key
      /\ kind \in {"sale", "correction"} => AfterLastClosure(at)
      /\ kind # "closure" => metadata'.lastClosureEnd = metadata.lastClosureEnd
      /\ kind = "closure" =>
           /\ body.periodStart < body.periodEnd
           /\ FollowsLastClosure(body.periodStart)
           /\ metadata'.lastClosureEnd = body.periodEnd

Journals ==
  \E kind \in Kinds, key \in Sales \cup Ops, at \in Times :
    \E body : BodyOK(kind, body) /\ JournalStep(kind, key, at, body)

-----------------------------------------------------------------------------
(* Types *)

(* Under the type invariant the ledger is a sequence.                      *)
LEMMA LedgerIsJournal ==
  ASSUME TypeOK
  PROVE  IsJournal(ledger) /\ Len(ledger) \in Nat /\ DOMAIN ledger = 1..Len(ledger)
<1>1. IsJournal(ledger)
  BY DEF TypeOK, IsJournal
<1> QED
  BY <1>1, JournalDomain

(* The metadata after an entry, a sale or a closure are well typed.        *)
LEMMA AppendMetadataOK ==
  ASSUME NEW meta \in Metadata, NEW entry,
         entry.sequence \in Nat, HashOf(entry) \in Hashes
  PROVE  /\ AppendEntryMetadata(meta, entry) \in Metadata
         /\ AppendSaleMetadata(meta, entry) \in Metadata
         /\ \A end \in Times :
              [AppendEntryMetadata(meta, entry) EXCEPT !.lastClosureEnd = end] \in Metadata
<1> DEFINE next == AppendEntryMetadata(meta, entry)
<1>1. next \in Metadata
  <2>1. entry.sequence + 1 \in Nat \ {0}
    OBVIOUS
  <2> QED
    BY <2>1 DEF AppendEntryMetadata, Metadata
<1>2. meta.nextOrderSequence + 1 \in Nat \ {0} /\ meta.nextReceiptSequence + 1 \in Nat \ {0}
  BY DEF Metadata
<1>3. AppendSaleMetadata(meta, entry) =
        [next EXCEPT !.nextOrderSequence   = meta.nextOrderSequence + 1,
                     !.nextReceiptSequence = meta.nextReceiptSequence + 1]
  BY DEF AppendSaleMetadata
<1> HIDE DEF next
<1>4. AppendSaleMetadata(meta, entry) \in Metadata
  BY <1>1, <1>2, <1>3 DEF Metadata
<1>5. \A end \in Times : [next EXCEPT !.lastClosureEnd = end] \in Metadata
  BY <1>1 DEF Metadata
<1> QED
  BY <1>1, <1>4, <1>5 DEF next

(* A new entry is well formed, and so is the journal it leaves.            *)
LEMMA NewEntryOK ==
  ASSUME TypeOK, NEW kind \in Kinds, NEW key \in Sales \cup Ops,
         NEW at \in Times, NEW body, BodyOK(kind, body)
  PROVE  LET entry == NewEntry(metadata, kind, key, at, body)
             next  == Append(ledger, entry)
         IN  /\ EntryOK(entry)
             /\ HashOf(entry) \in Hashes
             /\ next \in Seq({next[n] : n \in DOMAIN next})
             /\ \A n \in DOMAIN next : EntryOK(next[n])
<1> DEFINE entry == NewEntry(metadata, kind, key, at, body)
           next  == Append(ledger, entry)
<1>1. /\ metadata \in Metadata
      /\ metadata.nextJournalSequence \in Nat \ {0}
      /\ metadata.lastJournalHash \in Hashes
  BY DEF TypeOK, Metadata
<1>2. <<kind, key>> \in EntryIds
  BY DEF EntryIds
<1>3. EntryOK(entry)
  BY <1>1, <1>2 DEF EntryOK, NewEntry
<1>4. HashOf(entry) \in Hashes
  BY <1>1, <1>2 DEF HashOf, NewEntry, Hashes
<1>7. /\ IsJournal(ledger)
      /\ Len(ledger) \in Nat
      /\ DOMAIN ledger = 1..Len(ledger)
  BY LedgerIsJournal
<1> HIDE DEF entry
<1>8. /\ IsJournal(next)
      /\ DOMAIN next = 1..(Len(ledger) + 1)
      /\ \A n \in 1..Len(ledger) : next[n] = ledger[n]
      /\ next[Len(ledger) + 1] = entry
  BY <1>7, AppendJournal
<1>9. ASSUME NEW n \in DOMAIN next
      PROVE  EntryOK(next[n])
  <2>1. CASE n = Len(ledger) + 1
    BY <1>3, <1>8, <2>1
  <2>2. CASE n \in 1..Len(ledger)
    BY <1>7, <1>8, <2>2 DEF TypeOK
  <2> QED
    BY <1>7, <1>8, <2>1, <2>2
<1> QED
  BY <1>3, <1>4, <1>8, <1>9 DEF IsJournal, entry

(* What getActiveCashSession returns.                                      *)
LEMMA ActiveSessionOK ==
  ASSUME TypeOK, GetActiveCashSession(ledger) # NoSession
  PROVE  LET session == GetActiveCashSession(ledger)
         IN  /\ session.id \in Ops
             /\ session.periodStart \in Times
             /\ session.float \in Floats
<1> DEFINE opening == Max(OpenSessions(ledger))
<1>1. /\ Len(ledger) \in Nat
      /\ DOMAIN ledger = 1..Len(ledger)
  BY LedgerIsJournal
<1>2. OpenSessions(ledger) # {} /\ OpenSessions(ledger) \subseteq 1..Len(ledger)
  BY <1>1 DEF GetActiveCashSession, OpenSessions, OfKind
<1>3. opening \in OpenSessions(ledger)
  BY <1>1, <1>2, MaxIsElement
<1> HIDE DEF opening
<1>4. ledger[opening].body \in [session : Ops, periodStart : Times, float : Floats]
  BY <1>3 DEF OpenSessions, OfKind, TypeOK, EntryOK, BodyOK
<1>5. CurrentFloat(ledger, opening) \in Floats
  <2> DEFINE updates == {n \in OfKind(ledger, "cash_float_updated") :
                           ledger[n].body.session = ledger[opening].body.session}
  <2>1. CASE updates = {}
    BY <1>4, <2>1 DEF CurrentFloat
  <2>2. CASE updates # {}
    <3>1. updates \subseteq 1..Len(ledger)
      BY <1>1 DEF OfKind
    <3> HIDE DEF updates
    <3>2. Max(updates) \in updates
      BY <1>1, <2>2, <3>1, MaxIsElement
    <3>3. ledger[Max(updates)].body \in
            [session : Ops, previous : Floats, float : Floats]
      BY <3>2 DEF updates, OfKind, TypeOK, EntryOK, BodyOK
    <3> QED
      BY <2>2, <3>3 DEF CurrentFloat, updates
  <2> QED
    BY <2>1, <2>2
<1>6. GetActiveCashSession(ledger) =
        [id          |-> ledger[opening].body.session,
         periodStart |-> ledger[opening].body.periodStart,
         float       |-> CurrentFloat(ledger, opening)]
  BY <1>2 DEF GetActiveCashSession, opening
<1> QED
  BY <1>4, <1>5, <1>6

(* What sessionPeriodStart returns.                                        *)
LEMMA PeriodStartOK ==
  ASSUME TypeOK, NEW at \in Times
  PROVE  SessionPeriodStart(ledger, at) \in Times
<1> DEFINE closures == OfKind(ledger, "closure")
           first    == {ledger[n].recordedAt : n \in Financial(ledger)} \cup {at}
<1>1. /\ Len(ledger) \in Nat
      /\ DOMAIN ledger = 1..Len(ledger)
  BY LedgerIsJournal
<1>2. CASE closures # {}
  <2>1. closures \subseteq 1..Len(ledger)
    BY <1>1 DEF OfKind
  <2> HIDE DEF closures
  <2>2. Max(closures) \in closures
    BY <1>1, <1>2, <2>1, MaxIsElement
  <2>3. ledger[Max(closures)].body.periodEnd \in Times
    BY <2>2 DEF closures, OfKind, TypeOK, EntryOK, BodyOK
  <2> QED
    BY <1>2, <2>3 DEF SessionPeriodStart, closures
<1>3. CASE closures = {}
  <2>1. first \subseteq Times
    BY DEF Financial, OfKind, TypeOK, EntryOK
  <2>2. first \subseteq Nat /\ first # {}
    BY <2>1 DEF Times
  <2> HIDE DEF first
  <2>3. Min(first) \in first
    BY <2>2, MinIsElement
  <2> QED
    BY <1>3, <2>1, <2>3 DEF SessionPeriodStart, first
<1> QED
  BY <1>2, <1>3

(* An empty register and an upgraded one are well typed.                   *)
LEMMA InitTypeOK == Init => TypeOK
<1> SUFFICES ASSUME Init PROVE TypeOK
  OBVIOUS
<1> USE ParametersAssumption
<1>1. 0 \in Times /\ clock \in Times
  BY DEF Init, Times
<1>2. EmptyMetadata \in Metadata
  BY DEF EmptyMetadata, Metadata, Hashes
<1>3. CASE EmptyRegister
  BY <1>1, <1>2, <1>3 DEF Init, EmptyRegister, TypeOK, Statuses
<1>4. ASSUME NEW i \in LegacySales, CreateOrder(i)
      PROVE  TypeOK
  <2> DEFINE entry == NewEntry(EmptyMetadata, "sale", i, 0, SaleBody(i, EmptyMetadata))
  <2>1. /\ status = [j \in Sales |-> IF j = i THEN "finalized" ELSE "absent"]
        /\ confirmedAt = [j \in Sales |-> IF j = i THEN 0 ELSE NoTime]
        /\ orders = {StoredOrder(entry)}
        /\ ledger = <<entry>>
        /\ metadata = AppendSaleMetadata(EmptyMetadata, entry)
    BY <1>4 DEF CreateOrder
  <2>2. i \in Sales
    OBVIOUS
  <2>3. <<"sale", i>> \in EntryIds
    BY <2>2 DEF EntryIds, Kinds
  <2>4. entry = [id           |-> <<"sale", i>>,
                 kind         |-> "sale",
                 sequence     |-> 1,
                 previousHash |-> NoHash,
                 recordedAt   |-> 0,
                 body         |-> [sale |-> i, orderNumber |-> 1, receiptNumber |-> 1]]
    BY DEF NewEntry, EmptyMetadata, SaleBody
  <2>5. EntryOK(entry)
    BY <1>1, <2>2, <2>3, <2>4 DEF EntryOK, BodyOK, Kinds, Hashes
  <2>6. HashOf(entry) \in Hashes
    BY <2>3, <2>4 DEF HashOf, Hashes
  <2>7. AppendSaleMetadata(EmptyMetadata, entry) \in Metadata
    BY <1>2, <2>5, <2>6, AppendMetadataOK DEF EntryOK
  <2>8. \A o \in orders : o.id \in Sales /\ o.paidAt \in Times
    BY <1>1, <2>1, <2>2, <2>4 DEF StoredOrder
  <2>9. ledger \in Seq({ledger[n] : n \in DOMAIN ledger})
        /\ \A n \in DOMAIN ledger : EntryOK(ledger[n])
    <3>1. ledger = <<entry>>
      BY <2>1
    <3> HIDE DEF entry
    <3> QED
      BY <2>5, <3>1
  <2>10. /\ status \in [Sales -> Statuses]
         /\ confirmedAt \in [Sales -> Times \cup {NoTime}]
         /\ \A j \in Sales :
              status[j] \in {"payment_confirmed", "finalized"} => confirmedAt[j] \in Times
    BY <1>1, <2>1 DEF Statuses
  <2>11. requests = {} /\ issued = {}
    BY DEF Init
  <2> QED
    BY <1>1, <2>1, <2>7, <2>8, <2>9, <2>10, <2>11 DEF TypeOK
<1> QED
  BY <1>3, <1>4 DEF Init

(* Steps that leave the stores alone.                                      *)
LEMMA CheckoutTypeOK ==
  ASSUME TypeOK, NEW i \in Sales,
         \/ CreateCheckoutIntent(i)
         \/ MarkCheckoutPaymentToVerify(i)
         \/ ConfirmCheckoutPayment(i)
         \/ AbandonCheckoutIntent(i)
  PROVE  TypeOK'
<1>1. /\ status' \in [Sales -> Statuses]
      /\ confirmedAt' \in [Sales -> Times \cup {NoTime}]
      /\ \A j \in Sales :
           status'[j] \in {"payment_confirmed", "finalized"} => confirmedAt'[j] \in Times
  <2>1. CASE ConfirmCheckoutPayment(i)
    BY <2>1 DEF ConfirmCheckoutPayment, TypeOK, Statuses
  <2>2. CASE \/ CreateCheckoutIntent(i)
             \/ MarkCheckoutPaymentToVerify(i)
             \/ AbandonCheckoutIntent(i)
    BY <2>2 DEF CreateCheckoutIntent, MarkCheckoutPaymentToVerify,
                AbandonCheckoutIntent, TypeOK, Statuses
  <2> QED
    BY <2>1, <2>2
<1>2. UNCHANGED <<orders, ledger, metadata, requests, issued, clock>>
  BY DEF CreateCheckoutIntent, MarkCheckoutPaymentToVerify, ConfirmCheckoutPayment,
         AbandonCheckoutIntent, storeVars, callVars
<1> QED
  BY <1>1, <1>2 DEF TypeOK

(* Posting a well formed request keeps the types.                          *)
LEMMA PostTypeOK ==
  ASSUME TypeOK, NEW op \in Ops, NEW kind \in Kinds \ {"sale"}, NEW body,
         BodyOK(kind, body), Post(op, kind, body)
  PROVE  TypeOK'
<1> DEFINE r == [op |-> op, kind |-> kind, at |-> clock, body |-> body]
<1>1. RequestOK(r)
  BY DEF RequestOK, TypeOK
<1>2. requests' = requests \cup {r} /\ issued' = issued \cup {op}
  BY DEF Post
<1>3. UNCHANGED <<status, confirmedAt, orders, ledger, metadata, clock>>
  BY DEF Post, storeVars, intentVars
<1> HIDE DEF r
<1> QED
  BY <1>1, <1>2, <1>3 DEF TypeOK

(* What the services read back from the journal makes a well formed        *)
(* request.                                                                *)
LEMMA ServiceTypeOK == TypeOK /\ Service => TypeOK'
<1> SUFFICES ASSUME TypeOK, NEW op \in Ops,
                    \/ \E float \in Floats : RequestOpenSession(op, float)
                    \/ \E float \in Floats : RequestUpdateFloat(op, float)
                    \/ \E sale \in Sales : RequestCancelSale(op, sale)
                    \/ \E sale \in Sales : \E quantities \in Selections(sale) :
                         RequestRefundSale(op, sale, quantities)
                    \/ \E sale \in Sales, delta \in Adjustments :
                         RequestAdjustSale(op, sale, delta)
                    \/ \E periodEnd \in Times : RequestClosePeriod(op, periodEnd)
             PROVE  TypeOK'
  BY DEF Service
<1>1. ASSUME NEW float \in Floats, RequestOpenSession(op, float)
      PROVE  TypeOK'
  <2> DEFINE body == [session     |-> op,
                      periodStart |-> SessionPeriodStart(ledger, clock),
                      float       |-> float]
  <2>1. SessionPeriodStart(ledger, clock) \in Times
    BY PeriodStartOK DEF TypeOK
  <2>2. BodyOK("cash_session_opened", body)
    BY <2>1 DEF BodyOK
  <2>3. Post(op, "cash_session_opened", body)
    BY <1>1 DEF RequestOpenSession
  <2> HIDE DEF body
  <2> QED
    BY <2>2, <2>3, PostTypeOK DEF Kinds
<1>2. ASSUME NEW float \in Floats, RequestUpdateFloat(op, float)
      PROVE  TypeOK'
  <2> DEFINE session == GetActiveCashSession(ledger)
             body == [session |-> session.id, previous |-> session.float, float |-> float]
  <2>1. session.id \in Ops /\ session.float \in Floats
    BY <1>2, ActiveSessionOK DEF RequestUpdateFloat
  <2> HIDE DEF session
  <2>2. BodyOK("cash_float_updated", body)
    BY <2>1 DEF BodyOK
  <2>3. Post(op, "cash_float_updated", body)
    BY <1>2 DEF RequestUpdateFloat, session
  <2> HIDE DEF body
  <2> QED
    BY <2>2, <2>3, PostTypeOK DEF Kinds
<1>3. ASSUME NEW sale \in Sales, NEW type \in {"cancellation", "refund", "adjustment"},
             NEW delta, NEW quantities,
             RequestCorrection(op, sale, type, delta, quantities)
      PROVE  TypeOK'
  <2> DEFINE body == [sale       |-> sale,
                      type       |-> type,
                      delta      |-> delta,
                      quantities |-> quantities,
                      vat        |-> RefundVat(ledger, sale, quantities)]
  <2>1. BodyOK("correction", body)
    BY DEF BodyOK
  <2>2. Post(op, "correction", body)
    BY <1>3 DEF RequestCorrection
  <2> HIDE DEF body
  <2> QED
    BY <2>1, <2>2, PostTypeOK DEF Kinds
<1>4. ASSUME NEW periodEnd \in Times, RequestClosePeriod(op, periodEnd)
      PROVE  TypeOK'
  <2> DEFINE session == GetActiveCashSession(ledger)
             body == [session     |-> session.id,
                      periodStart |-> session.periodStart,
                      periodEnd   |-> periodEnd,
                      float       |-> session.float]
  <2>1. session.id \in Ops /\ session.periodStart \in Times /\ session.float \in Floats
    BY <1>4, ActiveSessionOK DEF RequestClosePeriod, CloseActiveSession
  <2> HIDE DEF session
  <2>2. BodyOK("closure", body)
    BY <2>1 DEF BodyOK
  <2>3. Post(op, "closure", body)
    BY <1>4 DEF RequestClosePeriod, CloseActiveSession, session
  <2> HIDE DEF body
  <2> QED
    BY <2>2, <2>3, PostTypeOK DEF Kinds
<1> QED
  BY <1>1, <1>2, <1>3, <1>4
     DEF RequestCancelSale, RequestRefundSale, RequestAdjustSale

-----------------------------------------------------------------------------
(* Every repository transaction and every finalization is a JournalStep,   *)
(* and keeps the types.                                                    *)

LEMMA FinalizeJournals ==
  ASSUME TypeOK, IdInv, NEW i \in Sales, FinalizeCheckoutIntent(i)
  PROVE  TypeOK' /\ Journals
<1> DEFINE at    == confirmedAt[i]
           body  == SaleBody(i, metadata)
           entry == NewEntry(metadata, "sale", i, at, body)
<1>1. at \in Times /\ AfterLastClosure(at) /\ \A o \in orders : o.id # i
  BY DEF FinalizeCheckoutIntent, CanFinalize, TypeOK
<1>2. "sale" \in Kinds /\ i \in Sales \cup Ops
  BY DEF Kinds
<1>3. body \in [sale : Sales, orderNumber : Nat, receiptNumber : Nat] /\ body.sale = i
  BY DEF SaleBody, TypeOK, Metadata
<1>4. BodyOK("sale", body)
  BY <1>3 DEF BodyOK
<1>5. /\ entry.id = <<"sale", i>>
      /\ entry.sequence = metadata.nextJournalSequence
      /\ entry.recordedAt = at
      /\ entry.body = body
  BY DEF NewEntry
<1>6. /\ orders' = orders \cup {StoredOrder(entry)}
      /\ ledger' = Append(ledger, entry)
      /\ metadata' = AppendSaleMetadata(metadata, entry)
      /\ status' = [status EXCEPT ![i] = "finalized"]
      /\ UNCHANGED <<confirmedAt, requests, issued, clock>>
  BY DEF FinalizeCheckoutIntent, callVars
<1> HIDE DEF body, at
<1>7. /\ EntryOK(entry)
      /\ HashOf(entry) \in Hashes
      /\ ledger' \in Seq({ledger'[n] : n \in DOMAIN ledger'})
      /\ \A n \in DOMAIN ledger' : EntryOK(ledger'[n])
  <2> DEFINE next == Append(ledger, entry)
  <2>1. /\ EntryOK(entry)
        /\ HashOf(entry) \in Hashes
        /\ next \in Seq({next[n] : n \in DOMAIN next})
        /\ \A n \in DOMAIN next : EntryOK(next[n])
    BY <1>1, <1>2, <1>4, NewEntryOK
  <2> QED
    BY <1>6, <2>1
<1> HIDE DEF entry
<1>8. StoredOrder(entry).id = i /\ StoredOrder(entry).paidAt = at
  BY <1>3, <1>5 DEF StoredOrder
<1>9. TypeOK'
  <2>1. metadata' \in Metadata
    BY <1>6, <1>7, AppendMetadataOK DEF TypeOK, EntryOK
  <2>2. /\ status' \in [Sales -> Statuses]
        /\ \A j \in Sales :
             status'[j] \in {"payment_confirmed", "finalized"} => confirmedAt'[j] \in Times
    BY <1>1, <1>6 DEF TypeOK, Statuses, at
  <2>3. \A o \in orders' : o.id \in Sales /\ o.paidAt \in Times
    BY <1>1, <1>6, <1>8 DEF TypeOK
  <2> QED
    BY <1>6, <1>7, <2>1, <2>2, <2>3 DEF TypeOK
<1>10. ~HasEntry(ledger, "sale", i)
  <2>1. SUFFICES ASSUME NEW n \in DOMAIN ledger, ledger[n].id = <<"sale", i>>
                 PROVE  FALSE
    BY DEF HasEntry
  <2>2. n \in OfKind(ledger, "sale")
    BY <2>1 DEF IdInv, OfKind
  <2>3. ledger[n].body.sale = i
    BY <2>1, <2>2 DEF IdInv
  <2> QED
    BY <1>1, <2>2, <2>3 DEF IdInv
<1>11. /\ metadata'.nextJournalSequence = entry.sequence + 1
       /\ metadata'.lastJournalHash = HashOf(entry)
       /\ metadata'.lastClosureEnd = metadata.lastClosureEnd
  BY <1>6 DEF AppendSaleMetadata, AppendEntryMetadata, TypeOK, Metadata
<1>12. JournalStep("sale", i, at, body)
  BY <1>1, <1>3, <1>6, <1>8, <1>10, <1>11 DEF JournalStep, entry
<1> QED
  BY <1>1, <1>2, <1>4, <1>9, <1>12 DEF Journals

(* What the four transactions of the repository have in common.            *)
LEMMA JournalTypeOK ==
  ASSUME TypeOK, NEW kind \in Kinds, NEW key \in Ops, NEW at \in Times, NEW body,
         BodyOK(kind, body), NEW meta \in Metadata,
         Journal(NewEntry(metadata, kind, key, at, body), meta)
  PROVE  TypeOK'
<1> DEFINE entry == NewEntry(metadata, kind, key, at, body)
<1>1. ledger' = Append(ledger, entry) /\ metadata' = meta
  BY DEF Journal
<1>2. UNCHANGED <<status, confirmedAt, orders, requests, issued, clock>>
  BY DEF Journal, intentVars, callVars
<1>3. /\ ledger' \in Seq({ledger'[n] : n \in DOMAIN ledger'})
      /\ \A n \in DOMAIN ledger' : EntryOK(ledger'[n])
  <2> DEFINE next == Append(ledger, entry)
  <2>1. key \in Sales \cup Ops
    OBVIOUS
  <2>2. /\ next \in Seq({next[n] : n \in DOMAIN next})
        /\ \A n \in DOMAIN next : EntryOK(next[n])
    BY <2>1, NewEntryOK
  <2> QED
    BY <1>1, <2>2
<1> QED
  BY <1>1, <1>2, <1>3 DEF TypeOK

(* The same, with the metadata of an entry that closes no period.          *)
LEMMA PlainEntryJournals ==
  ASSUME TypeOK, NEW kind \in {"cash_session_opened", "cash_float_updated", "correction"},
         NEW key \in Ops, NEW at \in Times, NEW body, BodyOK(kind, body),
         ~HasEntry(ledger, kind, key),
         kind = "correction" => AfterLastClosure(at),
         Journal(NewEntry(metadata, kind, key, at, body),
                 AppendEntryMetadata(metadata, NewEntry(metadata, kind, key, at, body)))
  PROVE  TypeOK' /\ Journals
<1> DEFINE entry == NewEntry(metadata, kind, key, at, body)
<1>1. kind \in Kinds /\ key \in Sales \cup Ops /\ kind \notin {"sale", "closure"}
  BY DEF Kinds
<1>2. EntryOK(entry) /\ HashOf(entry) \in Hashes
  BY <1>1, NewEntryOK
<1>3. /\ ledger' = Append(ledger, entry)
      /\ metadata' = AppendEntryMetadata(metadata, entry)
      /\ orders' = orders
  BY DEF Journal
<1> HIDE DEF entry
<1>4. metadata' \in Metadata
  BY <1>2, <1>3, AppendMetadataOK DEF TypeOK, EntryOK
<1>5. TypeOK'
  BY <1>1, <1>3, <1>4, JournalTypeOK DEF entry
<1>6. /\ metadata'.nextJournalSequence = entry.sequence + 1
      /\ metadata'.lastJournalHash = HashOf(entry)
      /\ metadata'.lastClosureEnd = metadata.lastClosureEnd
  BY <1>3 DEF AppendEntryMetadata, TypeOK, Metadata
<1>7. JournalStep(kind, key, at, body)
  BY <1>1, <1>3, <1>6 DEF JournalStep, entry
<1> QED
  BY <1>1, <1>5, <1>7 DEF Journals

(* openCashSession journals one entry that closes no period.               *)
LEMMA OpenJournals ==
  ASSUME TypeOK, NEW r \in requests, OpenCashSession(r)
  PROVE  TypeOK' /\ Journals
<1>1. /\ r.op \in Ops
      /\ r.at \in Times
      /\ r.kind = "cash_session_opened"
      /\ BodyOK("cash_session_opened", r.body)
      /\ ~HasEntry(ledger, "cash_session_opened", r.op)
  BY DEF OpenCashSession, Unrecorded, TypeOK, RequestOK
<1> QED
  BY <1>1, PlainEntryJournals DEF OpenCashSession

(* updateCashFloat journals one entry that closes no period.               *)
LEMMA UpdateFloatJournals ==
  ASSUME TypeOK, NEW r \in requests, UpdateCashFloat(r)
  PROVE  TypeOK' /\ Journals
<1>1. /\ r.op \in Ops
      /\ r.at \in Times
      /\ r.kind = "cash_float_updated"
      /\ BodyOK("cash_float_updated", r.body)
      /\ ~HasEntry(ledger, "cash_float_updated", r.op)
  BY DEF UpdateCashFloat, Unrecorded, TypeOK, RequestOK
<1> QED
  BY <1>1, PlainEntryJournals DEF UpdateCashFloat

(* recordCorrection journals one entry, after the last closure.            *)
LEMMA CorrectionJournals ==
  ASSUME TypeOK, NEW r \in requests, RecordCorrection(r)
  PROVE  TypeOK' /\ Journals
<1>1. /\ r.op \in Ops
      /\ r.at \in Times
      /\ r.kind = "correction"
      /\ BodyOK("correction", r.body)
      /\ ~HasEntry(ledger, "correction", r.op)
      /\ AfterLastClosure(r.at)
  BY DEF RecordCorrection, Unrecorded, TypeOK, RequestOK
<1>2. PICK o \in orders :
        LET body  == [sale             |-> o.id,
                      type             |-> r.body.type,
                      delta            |-> r.body.delta,
                      quantities       |-> r.body.quantities,
                      vat              |-> r.body.vat,
                      originalSaleHash |-> o.hash]
            entry == NewEntry(metadata, "correction", r.op, r.at, body)
        IN  o.id = r.body.sale /\ Journal(entry, AppendEntryMetadata(metadata, entry))
  BY DEF RecordCorrection
<1> DEFINE body == [sale             |-> o.id,
                    type             |-> r.body.type,
                    delta            |-> r.body.delta,
                    quantities       |-> r.body.quantities,
                    vat              |-> r.body.vat,
                    originalSaleHash |-> o.hash]
           entry == NewEntry(metadata, "correction", r.op, r.at, body)
<1>3. Journal(entry, AppendEntryMetadata(metadata, entry))
  BY <1>2
<1>4. BodyOK("correction", body)
  BY <1>1, <1>2 DEF BodyOK
<1> HIDE DEF body
<1> QED
  BY <1>1, <1>3, <1>4, PlainEntryJournals

(* closePeriod journals a closure that follows the last one.               *)
LEMMA CloseJournals ==
  ASSUME TypeOK, NEW r \in requests, ClosePeriod(r)
  PROVE  TypeOK' /\ Journals
<1> DEFINE totals == CalculateClosureTotals(ledger, r.body.periodStart, r.body.periodEnd)
           body   == [session         |-> r.body.session,
                      periodStart     |-> r.body.periodStart,
                      periodEnd       |-> r.body.periodEnd,
                      float           |-> r.body.float,
                      totals          |-> totals,
                      theoreticalCash |-> TheoreticalCash(r.body.float, totals)]
           entry  == NewEntry(metadata, "closure", r.op, r.at, body)
           meta   == [AppendEntryMetadata(metadata, entry)
                        EXCEPT !.lastClosureEnd = r.body.periodEnd]
<1>1. /\ r.op \in Ops
      /\ r.at \in Times
      /\ r.kind = "closure"
      /\ BodyOK("closure", r.body)
      /\ ~HasEntry(ledger, "closure", r.op)
      /\ r.body.periodStart < r.body.periodEnd
      /\ FollowsLastClosure(r.body.periodStart)
  BY DEF ClosePeriod, Unrecorded, TypeOK, RequestOK
<1>2. Journal(entry, meta)
  BY DEF ClosePeriod
<1>3. /\ BodyOK("closure", body)
      /\ body.periodStart = r.body.periodStart
      /\ body.periodEnd = r.body.periodEnd
  BY <1>1 DEF BodyOK
<1>4. "closure" \in Kinds /\ r.op \in Sales \cup Ops
  BY <1>1 DEF Kinds
<1> HIDE DEF body
<1>5. EntryOK(entry) /\ HashOf(entry) \in Hashes
  BY <1>1, <1>3, <1>4, NewEntryOK
<1> HIDE DEF entry
<1>6. meta \in Metadata /\ AppendEntryMetadata(metadata, entry) \in Metadata
  BY <1>1, <1>5, AppendMetadataOK DEF TypeOK, EntryOK, BodyOK
<1>7. /\ meta.nextJournalSequence = entry.sequence + 1
      /\ meta.lastJournalHash = HashOf(entry)
      /\ meta.lastClosureEnd = r.body.periodEnd
  BY <1>6 DEF AppendEntryMetadata, TypeOK, Metadata
<1> HIDE DEF meta
<1>8. TypeOK'
  BY <1>1, <1>2, <1>3, <1>4, <1>6, JournalTypeOK DEF entry
<1>9. ledger' = Append(ledger, entry) /\ metadata' = meta /\ orders' = orders
  BY <1>2 DEF Journal
<1>10. JournalStep("closure", r.op, r.at, body)
  BY <1>1, <1>3, <1>7, <1>9 DEF JournalStep, entry
<1> QED
  BY <1>1, <1>3, <1>4, <1>8, <1>10 DEF Journals

-----------------------------------------------------------------------------
(* The invariant, for a JournalStep                                        *)

(* The journal before and after, and the fields of the new entry.          *)
LEMMA JournalFacts ==
  ASSUME TypeOK, NEW kind, NEW key, NEW at, NEW body, JournalStep(kind, key, at, body)
  PROVE  LET k == Len(ledger) + 1
         IN  /\ Len(ledger) \in Nat
             /\ DOMAIN ledger = 1..Len(ledger)
             /\ IsJournal(ledger)
             /\ DOMAIN ledger' = (1..Len(ledger)) \cup {k}
             /\ Len(ledger') = k
             /\ \A n \in 1..Len(ledger) : ledger'[n] = ledger[n]
             /\ ledger'[k] = NewEntry(metadata, kind, key, at, body)
             /\ ledger'[k].id = <<kind, key>>
             /\ ledger'[k].kind = kind
             /\ ledger'[k].sequence = metadata.nextJournalSequence
             /\ ledger'[k].previousHash = metadata.lastJournalHash
             /\ ledger'[k].recordedAt = at
             /\ ledger'[k].body = body
             /\ \A f : OfKind(ledger', f) =
                       OfKind(ledger, f) \cup (IF kind = f THEN {k} ELSE {})
             /\ \A f : OfKind(ledger, f) \subseteq 1..Len(ledger)
<1> DEFINE entry == NewEntry(metadata, kind, key, at, body)
<1>1. /\ IsJournal(ledger)
      /\ Len(ledger) \in Nat
      /\ DOMAIN ledger = 1..Len(ledger)
  BY LedgerIsJournal
<1>2. /\ entry.id = <<kind, key>>
      /\ entry.kind = kind
      /\ entry.sequence = metadata.nextJournalSequence
      /\ entry.previousHash = metadata.lastJournalHash
      /\ entry.recordedAt = at
      /\ entry.body = body
  BY DEF NewEntry
<1>3. ledger' = Append(ledger, entry)
  BY DEF JournalStep
<1> HIDE DEF entry
<1>4. /\ Len(ledger') = Len(ledger) + 1
      /\ DOMAIN ledger' = 1..(Len(ledger) + 1)
      /\ \A n \in 1..Len(ledger) : ledger'[n] = ledger[n]
      /\ ledger'[Len(ledger) + 1] = entry
  BY <1>1, <1>3, AppendJournal
<1>5. 1..(Len(ledger) + 1) = (1..Len(ledger)) \cup {Len(ledger) + 1}
  BY <1>1
<1>6. \A f : OfKind(ledger', f) =
            OfKind(ledger, f) \cup (IF kind = f THEN {Len(ledger) + 1} ELSE {})
  BY <1>1, <1>2, <1>3, OfKindAppend
<1>7. \A f : OfKind(ledger, f) \subseteq 1..Len(ledger)
  BY <1>1 DEF OfKind
<1> QED
  BY <1>1, <1>2, <1>4, <1>5, <1>6, <1>7 DEF entry

(* A journaled entry extends the chain, and the metadata still describe    *)
(* its head.                                                               *)
LEMMA ChainStep ==
  ASSUME IInv, NEW kind, NEW key, NEW at, NEW body, JournalStep(kind, key, at, body)
  PROVE  ChainInv'
<1> DEFINE k == Len(ledger) + 1
<1>1. /\ Len(ledger) \in Nat
      /\ DOMAIN ledger = 1..Len(ledger)
      /\ DOMAIN ledger' = (1..Len(ledger)) \cup {k}
      /\ Len(ledger') = k
      /\ \A n \in 1..Len(ledger) : ledger'[n] = ledger[n]
      /\ ledger'[k] = NewEntry(metadata, kind, key, at, body)
      /\ ledger'[k].sequence = metadata.nextJournalSequence
      /\ ledger'[k].previousHash = metadata.lastJournalHash
  BY JournalFacts DEF IInv
<1>2. /\ metadata.nextJournalSequence = k
      /\ metadata.lastJournalHash =
           IF ledger = <<>> THEN NoHash ELSE HashOf(ledger[Len(ledger)])
  BY DEF IInv, ChainInv
<1>3. ledger = <<>> <=> Len(ledger) = 0
  BY <1>1, EmptySeq, LedgerIsJournal DEF IInv, IsJournal
<1>4. /\ ledger'[k].sequence = k
      /\ ledger'[k].previousHash = (IF k = 1 THEN NoHash ELSE HashOf(ledger[k - 1]))
  <2>1. k - 1 = Len(ledger)
    BY <1>1
  <2> QED
    BY <1>1, <1>2, <1>3, <2>1
<1>5. ASSUME NEW n \in DOMAIN ledger'
      PROVE  /\ ledger'[n].sequence = n
             /\ ledger'[n].previousHash =
                  (IF n = 1 THEN NoHash ELSE HashOf(ledger'[n - 1]))
  <2>1. CASE n = k
    <3>1. k # 1 => k - 1 \in 1..Len(ledger)
      BY <1>1
    <3> QED
      BY <1>1, <1>4, <2>1, <3>1
  <2>2. CASE n \in 1..Len(ledger)
    <3>1. n # 1 => n - 1 \in 1..Len(ledger)
      BY <1>1, <2>2
    <3>2. /\ ledger[n].sequence = n
          /\ ledger[n].previousHash =
               (IF n = 1 THEN NoHash ELSE HashOf(ledger[n - 1]))
      BY <1>1, <2>2 DEF IInv, ChainInv, ChainLinked
    <3> QED
      BY <1>1, <2>2, <3>1, <3>2
  <2> QED
    BY <1>1, <2>1, <2>2
<1>6. /\ metadata'.nextJournalSequence = k + 1
      /\ metadata'.lastJournalHash = HashOf(ledger'[k])
  BY <1>1, <1>2 DEF JournalStep, NewEntry
<1>7. ledger' # <<>>
  BY <1>1
<1> QED
  BY <1>1, <1>5, <1>6, <1>7 DEF ChainInv, ChainLinked

(* A journaled entry has an identifier of its own, and orders stay those   *)
(* of the sealed sales.                                                    *)
LEMMA IdStep ==
  ASSUME IInv, NEW kind, NEW key, NEW at, NEW body, JournalStep(kind, key, at, body)
  PROVE  IdInv'
<1> DEFINE k == Len(ledger) + 1
<1>1. /\ Len(ledger) \in Nat
      /\ DOMAIN ledger = 1..Len(ledger)
      /\ DOMAIN ledger' = (1..Len(ledger)) \cup {k}
      /\ \A n \in 1..Len(ledger) : ledger'[n] = ledger[n]
      /\ ledger'[k].id = <<kind, key>>
      /\ ledger'[k].kind = kind
      /\ ledger'[k].body = body
      /\ OfKind(ledger', "sale") =
           OfKind(ledger, "sale") \cup (IF kind = "sale" THEN {k} ELSE {})
      /\ OfKind(ledger, "sale") \subseteq 1..Len(ledger)
  BY JournalFacts DEF IInv
<1> HIDE DEF k
<1>2. \A n \in DOMAIN ledger' : ledger'[n].id[1] = ledger'[n].kind
  BY <1>1 DEF IInv, IdInv
<1>3. ASSUME NEW n \in OfKind(ledger', "sale")
      PROVE  /\ ledger'[n].id = <<"sale", ledger'[n].body.sale>>
             /\ \E o \in orders' : o.id = ledger'[n].body.sale
  <2>1. CASE n \in OfKind(ledger, "sale")
    BY <1>1, <2>1 DEF IInv, IdInv, JournalStep
  <2>2. CASE n = k /\ kind = "sale"
    BY <1>1, <2>2 DEF JournalStep
  <2> QED
    BY <1>1, <2>1, <2>2
<1>4. JournaledOnce'
  <2>1. \A n \in 1..Len(ledger) : ledger[n].id # <<kind, key>>
    BY <1>1 DEF JournalStep, HasEntry
  <2>2. \A m, n \in 1..Len(ledger) : ledger[m].id = ledger[n].id => m = n
    BY <1>1 DEF IInv, IdInv, JournaledOnce
  <2> QED
    BY <1>1, <2>1, <2>2 DEF JournaledOnce
<1> QED
  BY <1>2, <1>3, <1>4 DEF IdInv

(* A closure ends after every earlier one, and whatever else is journaled  *)
(* counts after them.                                                      *)
LEMMA SealStep ==
  ASSUME IInv, NEW kind \in Kinds, NEW key, NEW at \in Times, NEW body,
         BodyOK(kind, body), JournalStep(kind, key, at, body)
  PROVE  SealInv'
<1> DEFINE k     == Len(ledger) + 1
           last  == metadata.lastClosureEnd
           old   == OfKind(ledger, "closure")
<1>1. /\ Len(ledger) \in Nat
      /\ \A n \in 1..Len(ledger) : ledger'[n] = ledger[n]
      /\ ledger'[k].recordedAt = at
      /\ ledger'[k].body = body
      /\ \A f : OfKind(ledger', f) =
                OfKind(ledger, f) \cup (IF kind = f THEN {k} ELSE {})
      /\ \A f : OfKind(ledger, f) \subseteq 1..Len(ledger)
  BY JournalFacts DEF IInv
<1>2. ASSUME NEW c \in old
      PROVE  /\ c \in 1..Len(ledger)
             /\ ledger[c].body.periodStart \in Nat
             /\ ledger[c].body.periodEnd \in Nat
             /\ ledger[c].body.periodStart < ledger[c].body.periodEnd
             /\ ledger[c].body.periodEnd <= last
             /\ last # NoTime
             /\ last \in Nat
             /\ ledger'[c] = ledger[c]
  <2>1. /\ c \in 1..Len(ledger)
        /\ c \in DOMAIN ledger
        /\ ledger[c].kind = "closure"
    BY <1>1 DEF OfKind
  <2>2. BodyOK("closure", ledger[c].body)
    BY <2>1 DEF IInv, TypeOK, EntryOK
  <2>3. ledger[c].body.periodStart \in Nat /\ ledger[c].body.periodEnd \in Nat
    BY <2>2 DEF BodyOK, Times
  <2>4. last # NoTime
    BY DEF IInv, SealInv
  <2>5. last \in Nat
    BY <2>4 DEF IInv, TypeOK, Metadata, Times
  <2> QED
    BY <1>1, <2>1, <2>3, <2>4, <2>5 DEF IInv, SealInv
<1>3. at \in Nat
  BY DEF Times
<1>4. CASE kind = "closure"
  <2>1. /\ body.periodStart < body.periodEnd
        /\ last # NoTime => body.periodStart = last
        /\ metadata'.lastClosureEnd = body.periodEnd
        /\ body.periodStart \in Nat
        /\ body.periodEnd \in Nat
    BY <1>4 DEF JournalStep, FollowsLastClosure, BodyOK, Times
  <2>2. OfKind(ledger', "closure") = old \cup {k}
        /\ Financial(ledger') = Financial(ledger)
    BY <1>1, <1>4 DEF Financial
  <2>3. body.periodEnd # NoTime
    BY <2>1 DEF NoTime
  <2>4. \E c \in OfKind(ledger', "closure") :
          ledger'[c].body.periodEnd = metadata'.lastClosureEnd
    BY <1>1, <2>1, <2>2
  <2>5. ASSUME NEW c \in OfKind(ledger', "closure")
        PROVE  /\ ledger'[c].body.periodStart < ledger'[c].body.periodEnd
               /\ ledger'[c].body.periodEnd <= metadata'.lastClosureEnd
    <3>1. CASE c \in old
      BY <1>2, <2>1, <3>1
    <3>2. CASE c = k
      BY <1>1, <2>1, <3>2
    <3> QED
      BY <2>2, <3>1, <3>2
  <2>6. ClosedPeriodsSealed'
    <3>1. SUFFICES ASSUME NEW c \in old \cup {k}, NEW n \in Financial(ledger), c < n
                   PROVE  ledger'[n].recordedAt >= ledger'[c].body.periodEnd
      BY <2>2 DEF ClosedPeriodsSealed
    <3>2. n \in 1..Len(ledger) /\ ledger'[n] = ledger[n]
      BY <1>1 DEF Financial
    <3>3. c \in old
      BY <1>1, <3>1, <3>2
    <3> QED
      BY <1>2, <3>1, <3>2, <3>3 DEF IInv, SealInv, ClosedPeriodsSealed
  <2> QED
    BY <2>1, <2>3, <2>4, <2>5, <2>6 DEF SealInv
<1>5. CASE kind # "closure"
  <2>1. metadata'.lastClosureEnd = last /\ OfKind(ledger', "closure") = old
    BY <1>1, <1>5 DEF JournalStep
  <2>2. last # NoTime =>
          \E c \in old : ledger'[c].body.periodEnd = last
    BY <1>2 DEF IInv, SealInv
  <2>3. \A c \in old : /\ ledger'[c].body.periodStart < ledger'[c].body.periodEnd
                       /\ ledger'[c].body.periodEnd <= last
    BY <1>2
  <2>4. ClosedPeriodsSealed'
    <3>1. SUFFICES ASSUME NEW c \in old, NEW n \in Financial(ledger'), c < n
                   PROVE  ledger'[n].recordedAt >= ledger'[c].body.periodEnd
      BY <2>1 DEF ClosedPeriodsSealed
    <3>2. CASE n \in Financial(ledger)
      <4>1. ledger'[n] = ledger[n]
        BY <1>1, <3>2 DEF Financial
      <4> QED
        BY <1>2, <3>1, <3>2, <4>1 DEF IInv, SealInv, ClosedPeriodsSealed
    <3>3. CASE n = k /\ kind \in {"sale", "correction"}
      <4>1. at >= last
        BY <1>2, <3>3 DEF JournalStep, AfterLastClosure
      <4> QED
        BY <1>1, <1>2, <1>3, <3>3, <4>1
    <3> QED
      BY <1>1, <3>2, <3>3 DEF Financial
  <2>5. last = NoTime => old = {}
    BY DEF IInv, SealInv
  <2> QED
    BY <2>1, <2>2, <2>3, <2>4, <2>5 DEF SealInv
<1> QED
  BY <1>4, <1>5

-----------------------------------------------------------------------------
(* A JournalStep is a step of SealedJournal                                *)

ClosedPeriods == {ClosedPeriod(c) : c \in OfKind(ledger, "closure")}

(* An append leaves the periods already closed as they are.                *)
LEMMA PeriodsKept ==
  ASSUME IInv, NEW kind, NEW key, NEW at, NEW body, JournalStep(kind, key, at, body)
  PROVE  \A c \in OfKind(ledger, "closure") : ClosedPeriod(c)' = ClosedPeriod(c)
<1>1. /\ IsJournal(ledger)
      /\ \A n \in 1..Len(ledger) : ledger'[n] = ledger[n]
      /\ OfKind(ledger, "closure") \subseteq 1..Len(ledger)
  BY JournalFacts DEF IInv
<1>2. SUFFICES ASSUME NEW c \in 1..Len(ledger)
               PROVE  ClosedPeriod(c)' = ClosedPeriod(c)
  BY <1>1
<1> DEFINE from == ledger[c].body.periodStart
           to   == ledger[c].body.periodEnd
           S    == InPeriod(Before(ledger, c), from, to)
<1>3. ledger'[c] = ledger[c]
  BY <1>1
<1>4. Before(ledger', c) = Before(ledger, c)
  BY <1>1, BeforeAppend DEF JournalStep
<1>5. S \subseteq 1..Len(ledger)
  BY <1>1, BeforeDomain DEF InPeriod, Financial, OfKind
<1>6. InPeriod(Before(ledger', c), from, to) = S
  BY <1>4
<1> HIDE DEF S
<1>7. {[entry |-> ledger'[n].id, at |-> ledger'[n].recordedAt] : n \in S} =
        {[entry |-> ledger[n].id, at |-> ledger[n].recordedAt] : n \in S}
  BY <1>1, <1>5
<1> QED
  BY <1>3, <1>6, <1>7 DEF ClosedPeriod, S

(* What a closure counts is what SealedJournal counts.                     *)
LEMMA CountedIsInPeriod ==
  ASSUME NEW from, NEW to
  PROVE  Promise!Counted(from, to) =
           {[entry |-> ledger[n].id, at |-> ledger[n].recordedAt] :
              n \in InPeriod(ledger, from, to)}
  BY DEF Promise!Counted, RecordedEntries, InPeriod

(* Journaling an entry records or closes in SealedJournal, or changes      *)
(* nothing there.                                                          *)
LEMMA PromiseStep ==
  ASSUME IInv, NEW kind \in Kinds, NEW key \in Sales \cup Ops, NEW at \in Times,
         NEW body, BodyOK(kind, body), JournalStep(kind, key, at, body)
  PROVE  [Promise!Next]_Promise!vars
<1>0. PICK k \in Nat : k = Len(ledger) + 1
  BY LedgerIsJournal DEF IInv
<1> DEFINE old == OfKind(ledger, "closure")
           e   == [entry |-> <<kind, key>>, at |-> at]
<1>1. /\ Len(ledger) \in Nat
      /\ DOMAIN ledger = 1..Len(ledger)
      /\ IsJournal(ledger)
      /\ \A n \in 1..Len(ledger) : ledger'[n] = ledger[n]
      /\ ledger'[k].id = <<kind, key>>
      /\ ledger'[k].recordedAt = at
      /\ ledger'[k].body = body
      /\ \A f : OfKind(ledger', f) =
                OfKind(ledger, f) \cup (IF kind = f THEN {k} ELSE {})
      /\ \A f : OfKind(ledger, f) \subseteq 1..Len(ledger)
  BY <1>0, JournalFacts DEF IInv
<1>2. \A c \in old : ClosedPeriod(c)' = ClosedPeriod(c)
  BY PeriodsKept
<1>3. \A p \in ClosedPeriods :
        /\ p.to <= metadata.lastClosureEnd
        /\ metadata.lastClosureEnd # NoTime
        /\ metadata.lastClosureEnd \in Nat
        /\ p.to \in Nat
  <2>1. SUFFICES ASSUME NEW c \in old
                 PROVE  /\ ledger[c].body.periodEnd <= metadata.lastClosureEnd
                        /\ metadata.lastClosureEnd # NoTime
                        /\ metadata.lastClosureEnd \in Nat
                        /\ ledger[c].body.periodEnd \in Nat
    BY DEF ClosedPeriods, ClosedPeriod
  <2>2. metadata.lastClosureEnd # NoTime
    BY DEF IInv, SealInv
  <2>3. BodyOK("closure", ledger[c].body)
    BY DEF OfKind, IInv, TypeOK, EntryOK
  <2> QED
    BY <2>2, <2>3 DEF BodyOK, Times, IInv, SealInv, TypeOK, Metadata
<1>4. \A n \in Financial(ledger) : n \in 1..Len(ledger)
  BY <1>1 DEF Financial
<1>5. CASE kind \in {"sale", "correction"}
  <2>1. Financial(ledger') = Financial(ledger) \cup {k}
    BY <1>1, <1>5 DEF Financial
  <2>2. RecordedEntries' = RecordedEntries \cup {e}
    <3>1. [entry |-> ledger'[k].id, at |-> ledger'[k].recordedAt] = e
      BY <1>1
    <3>2. \A n \in Financial(ledger) : ledger'[n] = ledger[n]
      BY <1>1, <1>4
    <3>3. RecordedEntries' =
            {[entry |-> ledger'[n].id, at |-> ledger'[n].recordedAt] :
               n \in Financial(ledger) \cup {k}}
      BY <2>1 DEF RecordedEntries
    <3> HIDE DEF e
    <3> QED
      BY <3>1, <3>2, <3>3 DEF RecordedEntries
  <2>3. UNCHANGED ClosedPeriods
    BY <1>1, <1>2, <1>5 DEF ClosedPeriods
  <2>4. e \in Promise!Dated
    BY <1>5 DEF Promise!Dated, FinancialIds, JournalStep, BodyOK
  <2>5. Promise!Open(at)
    <3>1. \A p \in ClosedPeriods : p.to <= at
      <4>1. at \in Nat
        BY DEF Times
      <4>2. metadata.lastClosureEnd # NoTime => at >= metadata.lastClosureEnd
        BY <1>5 DEF JournalStep, AfterLastClosure
      <4> QED
        BY <1>3, <4>1, <4>2
    <3> QED
      BY <3>1 DEF Promise!Open, ClosedPeriods
  <2>6. \A f \in RecordedEntries : f.entry # <<kind, key>>
    BY <1>1, <1>4 DEF RecordedEntries, JournalStep, HasEntry
  <2>7. Promise!Record(e)
    BY <2>2, <2>3, <2>5, <2>6 DEF Promise!Record, ClosedPeriods
  <2> QED
    BY <2>4, <2>7 DEF Promise!Next
<1>6. CASE kind = "closure"
  <2> DEFINE from == body.periodStart
             to   == body.periodEnd
  <2>1. Financial(ledger') = Financial(ledger)
    BY <1>1, <1>6 DEF Financial
  <2>2. UNCHANGED RecordedEntries
    BY <1>1, <1>4, <2>1 DEF RecordedEntries
  <2>3. ClosedPeriod(k)' = [from |-> from, to |-> to, counted |-> Promise!Counted(from, to)]
    <3>1. Before(ledger', k) = ledger
      BY <1>0, <1>1, BeforeAppend DEF JournalStep
    <3> DEFINE S == InPeriod(ledger, from, to)
    <3>2. S \subseteq 1..Len(ledger)
      BY <1>4 DEF InPeriod
    <3>3. ClosedPeriod(k)' =
            [from    |-> from,
             to      |-> to,
             counted |-> {[entry |-> ledger'[n].id, at |-> ledger'[n].recordedAt] : n \in S}]
      BY <1>1, <3>1 DEF ClosedPeriod
    <3> HIDE DEF S
    <3>4. {[entry |-> ledger'[n].id, at |-> ledger'[n].recordedAt] : n \in S} =
            {[entry |-> ledger[n].id, at |-> ledger[n].recordedAt] : n \in S}
      BY <1>1, <3>2
    <3> QED
      BY <3>3, <3>4, CountedIsInPeriod DEF S
  <2>4. ClosedPeriods' = ClosedPeriods \cup
          {[from |-> from, to |-> to, counted |-> Promise!Counted(from, to)]}
    <3> DEFINE new == [from |-> from, to |-> to, counted |-> Promise!Counted(from, to)]
    <3>1. ClosedPeriods' = {ClosedPeriod(c)' : c \in old \cup {k}}
      BY <1>1, <1>6 DEF ClosedPeriods
    <3>2. ClosedPeriod(k)' = new
      BY <2>3
    <3> HIDE DEF new
    <3>3. {ClosedPeriod(c)' : c \in old \cup {k}} = {ClosedPeriod(c) : c \in old} \cup {new}
      BY <1>2, <3>2
    <3> QED
      BY <3>1, <3>3 DEF ClosedPeriods, new
  <2>5. /\ from < to
        /\ metadata.lastClosureEnd # NoTime => from = metadata.lastClosureEnd
        /\ from \in Times
        /\ to \in Times
    BY <1>6 DEF JournalStep, FollowsLastClosure, BodyOK
  <2>6. Promise!Open(from)
    <3>1. \A p \in ClosedPeriods : p.to <= from
      BY <1>3, <2>5
    <3> QED
      BY <3>1 DEF Promise!Open, ClosedPeriods
  <2>7. ClosedPeriods # {} => \E p \in ClosedPeriods : p.to = from
    <3>1. SUFFICES ASSUME ClosedPeriods # {}
                   PROVE  \E p \in ClosedPeriods : p.to = from
      OBVIOUS
    <3>2. metadata.lastClosureEnd # NoTime
      BY <1>3, <3>1
    <3>3. PICK c \in old : ledger[c].body.periodEnd = metadata.lastClosureEnd
      BY <3>2 DEF IInv, SealInv
    <3>4. ClosedPeriod(c) \in ClosedPeriods /\ ClosedPeriod(c).to = from
      BY <2>5, <3>2, <3>3 DEF ClosedPeriods, ClosedPeriod
    <3> QED
      BY <3>4
  <2>8. Promise!Close(from, to)
    BY <2>2, <2>4, <2>5, <2>6, <2>7 DEF Promise!Close, ClosedPeriods
  <2> QED
    BY <2>5, <2>8 DEF Promise!Next
<1>7. CASE kind \notin {"sale", "correction", "closure"}
  <2>1. Financial(ledger') = Financial(ledger) /\ OfKind(ledger', "closure") = old
    BY <1>1, <1>7 DEF Financial
  <2>2. UNCHANGED RecordedEntries
    BY <1>1, <1>4, <2>1 DEF RecordedEntries
  <2>3. UNCHANGED ClosedPeriods
    BY <1>2, <2>1 DEF ClosedPeriods
  <2> QED
    BY <2>2, <2>3 DEF Promise!vars, ClosedPeriods
<1> QED
  BY <1>5, <1>6, <1>7

-----------------------------------------------------------------------------
(* The theorems                                                            *)

(* The invariant holds in an empty register and in an upgraded one.        *)
LEMMA InitIInv == Init => IInv
<1> SUFFICES ASSUME Init PROVE IInv
  OBVIOUS
<1>1. TypeOK
  BY InitTypeOK
<1>2. CASE ledger = <<>> /\ metadata = EmptyMetadata
  BY <1>1, <1>2 DEF IInv, ChainInv, IdInv, SealInv, ChainLinked, JournaledOnce,
     ClosedPeriodsSealed, OfKind, EmptyMetadata
<1>3. ASSUME NEW i \in LegacySales, NEW entry,
             entry = NewEntry(EmptyMetadata, "sale", i, 0, SaleBody(i, EmptyMetadata)),
             orders = {StoredOrder(entry)},
             ledger = <<entry>>,
             metadata = AppendSaleMetadata(EmptyMetadata, entry)
      PROVE  IInv
  <2>1. /\ entry.id = <<"sale", i>>
        /\ entry.kind = "sale"
        /\ entry.sequence = 1
        /\ entry.previousHash = NoHash
        /\ entry.body.sale = i
    BY <1>3 DEF NewEntry, EmptyMetadata, SaleBody
  <2>2. /\ Len(ledger) = 1
        /\ DOMAIN ledger = {1}
        /\ ledger[1] = entry
        /\ ledger # <<>>
    BY <1>3
  <2>3. OfKind(ledger, "closure") = {}
    BY <2>1, <2>2 DEF OfKind
  <2>4. /\ metadata.nextJournalSequence = 2
        /\ metadata.lastJournalHash = HashOf(entry)
        /\ metadata.lastClosureEnd = NoTime
    BY <1>3, <2>1 DEF AppendSaleMetadata, AppendEntryMetadata, EmptyMetadata
  <2>5. StoredOrder(entry) \in orders /\ StoredOrder(entry).id = i
    BY <1>3, <2>1 DEF StoredOrder
  <2>6. ChainInv
    BY <2>1, <2>2, <2>4 DEF ChainInv, ChainLinked
  <2>7. IdInv
    BY <2>1, <2>2, <2>5 DEF IdInv, JournaledOnce, OfKind
  <2>8. SealInv
    BY <2>3, <2>4 DEF SealInv, ClosedPeriodsSealed
  <2> QED
    BY <1>1, <2>6, <2>7, <2>8 DEF IInv
<1> QED
  BY <1>2, <1>3 DEF Init, EmptyRegister, CreateOrder

(* A step that leaves the stores alone.                                    *)
LEMMA QuietStep ==
  ASSUME IInv, TypeOK', UNCHANGED storeVars
  PROVE  IInv' /\ UNCHANGED Promise!vars
<1>1. UNCHANGED <<orders, ledger, metadata>>
  BY DEF storeVars
<1>2. ChainInv' /\ IdInv' /\ SealInv'
  BY <1>1 DEF IInv, ChainInv, ChainLinked, IdInv, JournaledOnce, SealInv,
     ClosedPeriodsSealed
<1>3. UNCHANGED Promise!vars
  BY <1>1 DEF Promise!vars, RecordedEntries, ClosedPeriod
<1> QED
  BY <1>2, <1>3 DEF IInv

(* A transaction that journals keeps the invariant and the promise.        *)
LEMMA JournalingStep ==
  ASSUME IInv, TypeOK', Journals
  PROVE  IInv' /\ [Promise!Next]_Promise!vars
<1>1. PICK kind \in Kinds, key \in Sales \cup Ops, at \in Times :
        \E body : BodyOK(kind, body) /\ JournalStep(kind, key, at, body)
  BY DEF Journals
<1>2. PICK body : BodyOK(kind, body) /\ JournalStep(kind, key, at, body)
  BY <1>1
<1> QED
  BY <1>2, ChainStep, IdStep, SealStep, PromiseStep DEF IInv

(* One step per action: what Next does to the invariant and to the         *)
(* promise.                                                                *)
LEMMA NextStep ==
  ASSUME IInv, [Next]_vars
  PROVE  IInv' /\ [Promise!Next]_Promise!vars
<1> USE DEF IInv
<1>1. CASE Tick
  <2>1. TypeOK' /\ UNCHANGED storeVars
    BY <1>1, ParametersAssumption
       DEF Tick, TypeOK, Times, storeVars, intentVars, callVars
  <2> QED
    BY <2>1, QuietStep
<1>2. CASE SetClockBack
  <2>1. TypeOK' /\ UNCHANGED storeVars
    BY <1>2, ParametersAssumption
       DEF SetClockBack, TypeOK, Times, storeVars, intentVars, callVars
  <2> QED
    BY <2>1, QuietStep
<1>3. ASSUME NEW i \in Sales, FinalizeCheckoutIntent(i)
      PROVE  IInv' /\ [Promise!Next]_Promise!vars
  BY <1>3, FinalizeJournals, JournalingStep
<1>4. ASSUME NEW i \in Sales,
             \/ CreateCheckoutIntent(i)
             \/ MarkCheckoutPaymentToVerify(i)
             \/ ConfirmCheckoutPayment(i)
             \/ AbandonCheckoutIntent(i)
      PROVE  IInv' /\ [Promise!Next]_Promise!vars
  <2>1. UNCHANGED storeVars
    BY <1>4 DEF CreateCheckoutIntent, MarkCheckoutPaymentToVerify,
                ConfirmCheckoutPayment, AbandonCheckoutIntent
  <2> QED
    BY <1>4, <2>1, CheckoutTypeOK, QuietStep
<1>5. CASE Service
  <2>1. UNCHANGED storeVars
    BY <1>5 DEF Service, RequestOpenSession, RequestUpdateFloat, RequestCancelSale,
                RequestRefundSale, RequestAdjustSale, RequestCorrection,
                RequestClosePeriod, CloseActiveSession, Post
  <2> QED
    BY <1>5, <2>1, ServiceTypeOK, QuietStep
<1>6. ASSUME NEW r \in requests, OpenCashSession(r)
      PROVE  IInv' /\ [Promise!Next]_Promise!vars
  BY <1>6, OpenJournals, JournalingStep
<1>7. ASSUME NEW r \in requests, UpdateCashFloat(r)
      PROVE  IInv' /\ [Promise!Next]_Promise!vars
  BY <1>7, UpdateFloatJournals, JournalingStep
<1>8. ASSUME NEW r \in requests, RecordCorrection(r)
      PROVE  IInv' /\ [Promise!Next]_Promise!vars
  BY <1>8, CorrectionJournals, JournalingStep
<1>9. ASSUME NEW r \in requests, ClosePeriod(r)
      PROVE  IInv' /\ [Promise!Next]_Promise!vars
  BY <1>9, CloseJournals, JournalingStep
<1>10. ASSUME NEW r \in requests, Settle(r)
       PROVE  IInv' /\ [Promise!Next]_Promise!vars
  <2>1. TypeOK' /\ UNCHANGED storeVars
    BY <1>10 DEF Settle, TypeOK, storeVars, intentVars
  <2> QED
    BY <2>1, QuietStep
<1>11. CASE UNCHANGED vars
  <2>1. TypeOK' /\ UNCHANGED storeVars
    BY <1>11 DEF vars, TypeOK, storeVars
  <2> QED
    BY <2>1, QuietStep
<1> QED
  BY <1>1, <1>2, <1>3, <1>4, <1>5, <1>6, <1>7, <1>8, <1>9, <1>10, <1>11
     DEF Next, Checkout, Repository

(* The inductive invariant holds in every run of the register.             *)
LEMMA Invariance == Spec => []IInv
<1>1. IInv /\ [Next]_vars => IInv'
  BY NextStep
<1> QED
  BY InitIInv, <1>1, PTL DEF Spec

(* Every variable of the register keeps its type: what the services read   *)
(* back from the journal (active session, float, period start) is always   *)
(* a value the repository accepts.                                         *)
THEOREM TypeCorrect == Spec => []TypeOK
<1>1. IInv => TypeOK
  BY DEF IInv
<1> QED
  BY <1>1, Invariance, PTL

(* The journal is one unbroken chain: entry n has sequence n and the hash  *)
(* of entry n - 1, whatever calls are replayed or raced.                   *)
THEOREM JournalIsAChain == Spec => []ChainLinked(ledger)
<1>1. IInv => ChainLinked(ledger)
  BY DEF IInv, ChainInv
<1> QED
  BY <1>1, Invariance, PTL

(* A sale or an operation is journaled once, however often its call is     *)
(* repeated.                                                               *)
THEOREM OperationsJournaledOnce == Spec => []JournaledOnce
<1>1. IInv => JournaledOnce
  BY DEF IInv, IdInv
<1> QED
  BY <1>1, Invariance, PTL

(* Nothing is journaled into a closed period, even if the device clock is  *)
(* set back and the calls that reach the repository are stale.             *)
THEOREM ClosedPeriodsStaySealed == Spec => []ClosedPeriodsSealed
<1>1. IInv => ClosedPeriodsSealed
  BY DEF IInv, SealInv
<1> QED
  BY <1>1, Invariance, PTL

(* A confirmed payment is never lost: its intent only ever becomes the     *)
(* sale, in the step that journals it, and keeps its first instant.        *)
THEOREM ConfirmedPaymentsAreKept == Spec => ConfirmedPaymentKept
<1> DEFINE Kept(i) ==
      status[i] = "payment_confirmed" =>
        /\ status'[i] \in {"payment_confirmed", "finalized"}
        /\ confirmedAt'[i] = confirmedAt[i]
        /\ status'[i] = "finalized" => HasEntry(ledger', "sale", i)
<1>1. ASSUME IInv, [Next]_vars, NEW i \in Sales
      PROVE  Kept(i)
  <2>0. /\ status \in [Sales -> Statuses]
        /\ confirmedAt \in [Sales -> Times \cup {NoTime}]
        /\ status[i] = "payment_confirmed" => confirmedAt[i] # NoTime
    BY <1>1 DEF IInv, TypeOK, Times, NoTime
  <2>1. CASE UNCHANGED intentVars
    BY <2>1 DEF intentVars
  <2>2. ASSUME NEW j \in Sales,
               \/ CreateCheckoutIntent(j)
               \/ MarkCheckoutPaymentToVerify(j)
               \/ ConfirmCheckoutPayment(j)
               \/ AbandonCheckoutIntent(j)
        PROVE  Kept(i)
    BY <2>0, <2>2 DEF CreateCheckoutIntent, MarkCheckoutPaymentToVerify,
                      ConfirmCheckoutPayment, AbandonCheckoutIntent
  <2>3. ASSUME NEW j \in Sales, FinalizeCheckoutIntent(j)
        PROVE  Kept(i)
    <3> DEFINE entry == NewEntry(metadata, "sale", j, confirmedAt[j],
                                 SaleBody(j, metadata))
    <3>1. /\ ledger' = Append(ledger, entry)
          /\ status' = [status EXCEPT ![j] = "finalized"]
          /\ confirmedAt' = confirmedAt
      BY <2>3 DEF FinalizeCheckoutIntent
    <3>2. IsJournal(ledger)
      BY <1>1, LedgerIsJournal DEF IInv
    <3>3. /\ Len(ledger) \in Nat
          /\ DOMAIN ledger' = 1..(Len(ledger) + 1)
          /\ ledger'[Len(ledger) + 1] = entry
      BY <3>1, <3>2, AppendJournal, JournalDomain
    <3>4. HasEntry(ledger', "sale", j)
      BY <3>3 DEF HasEntry, NewEntry
    <3> QED
      BY <2>0, <3>1, <3>4
  <2> QED
    BY <1>1, <2>1, <2>2, <2>3
       DEF Next, Checkout, Service, Repository, vars, intentVars, Tick, SetClockBack,
           RequestOpenSession, RequestUpdateFloat, RequestCancelSale, RequestRefundSale,
           RequestAdjustSale, RequestCorrection, RequestClosePeriod, CloseActiveSession,
           Post, Settle,
           OpenCashSession, UpdateCashFloat, RecordCorrection, ClosePeriod, Journal
<1>2. IInv /\ [Next]_vars => [\A i \in Sales : Kept(i)]_vars
  BY <1>1
<1> QED
  BY <1>2, Invariance, PTL DEF Spec, ConfirmedPaymentKept

(* The register implements SealedJournal.                                  *)
THEOREM Implementation == Spec => ImplementsPromise
<1>1. Init => Promise!Init
  <2> SUFFICES ASSUME Init PROVE Promise!Init
    OBVIOUS
  <2>1. CASE ledger = <<>>
    BY <2>1 DEF Promise!Init, RecordedEntries, Financial, OfKind
  <2>2. ASSUME NEW i \in LegacySales,
               ledger = <<NewEntry(EmptyMetadata, "sale", i, 0,
                                   SaleBody(i, EmptyMetadata))>>
        PROVE  Promise!Init
    <3>1. /\ DOMAIN ledger = {1}
          /\ ledger[1].id = <<"sale", i>>
          /\ ledger[1].kind = "sale"
          /\ ledger[1].recordedAt = 0
      BY <2>2 DEF NewEntry
    <3>2. i \in Sales /\ 0 \in Times
      BY ParametersAssumption DEF Times
    <3>3. RecordedEntries \in SUBSET Promise!Dated
      BY <3>1, <3>2 DEF RecordedEntries, Financial, OfKind, Promise!Dated, FinancialIds
    <3>4. OfKind(ledger, "closure") = {}
      BY <3>1 DEF OfKind
    <3> QED
      BY <3>3, <3>4 DEF Promise!Init
  <2>3. \/ ledger = <<>>
        \/ \E i \in LegacySales :
             ledger = <<NewEntry(EmptyMetadata, "sale", i, 0, SaleBody(i, EmptyMetadata))>>
    BY DEF Init, EmptyRegister, CreateOrder
  <2> QED
    BY <2>1, <2>2, <2>3
<1>2. IInv /\ [Next]_vars => [Promise!Next]_Promise!vars
  BY NextStep
<1> QED
  BY <1>1, <1>2, Invariance, PTL DEF Spec, ImplementsPromise, Promise!Spec

-----------------------------------------------------------------------------
(* Orders, finalized intents and journaled sales                           *)

SalesUpTo(n) == {m \in OfKind(ledger, "sale") : m <= n}

(* The orders are those of the finalized intents, each dated at its        *)
(* confirmation and numbered by its place among the journaled sales, and   *)
(* the next numbers count the sales.                                       *)
SaleInv ==
  /\ \A i \in Sales : status[i] = "finalized" <=> \E o \in orders : o.id = i
  /\ \A o \in orders :
       /\ o.paidAt = confirmedAt[o.id]
       /\ o.orderNumber = o.receiptNumber
       /\ o.journalSequence \in 1..Len(ledger)
       /\ o.orderNumber = Cardinality(SalesUpTo(o.journalSequence))
  /\ metadata.nextOrderSequence = metadata.nextReceiptSequence
  /\ metadata.nextOrderSequence = Cardinality(OfKind(ledger, "sale")) + 1

(* A step that adds no sale and finalizes no intent keeps it.              *)
LEMMA NoSaleKeepsSaleInv ==
  ASSUME TypeOK, SaleInv, orders' = orders,
         \A i \in Sales : status'[i] = "finalized" <=> status[i] = "finalized",
         \A i \in Sales : status[i] = "finalized" => confirmedAt'[i] = confirmedAt[i],
         metadata'.nextOrderSequence = metadata.nextOrderSequence,
         metadata'.nextReceiptSequence = metadata.nextReceiptSequence,
         OfKind(ledger', "sale") = OfKind(ledger, "sale"),
         Len(ledger) \in Nat, Len(ledger') \in Nat, Len(ledger) <= Len(ledger')
  PROVE  SaleInv'
<1>1. \A i \in Sales : status'[i] = "finalized" <=> \E o \in orders' : o.id = i
  BY DEF SaleInv
<1>2. ASSUME NEW o \in orders'
      PROVE  /\ o.paidAt = confirmedAt'[o.id]
             /\ o.orderNumber = o.receiptNumber
             /\ o.journalSequence \in 1..Len(ledger')
             /\ o.orderNumber = Cardinality({m \in OfKind(ledger', "sale") :
                                               m <= o.journalSequence})
  <2>1. o \in orders /\ o.id \in Sales
    BY DEF TypeOK
  <2>2. /\ o.paidAt = confirmedAt[o.id]
        /\ o.orderNumber = o.receiptNumber
        /\ o.journalSequence \in 1..Len(ledger)
        /\ o.orderNumber = Cardinality({m \in OfKind(ledger, "sale") :
                                          m <= o.journalSequence})
    BY <2>1 DEF SaleInv, SalesUpTo
  <2>3. confirmedAt'[o.id] = confirmedAt[o.id]
    BY <2>1 DEF SaleInv
  <2>4. o.journalSequence \in 1..Len(ledger')
    BY <2>2
  <2> QED
    BY <2>2, <2>3, <2>4
<1>3. /\ metadata'.nextOrderSequence = metadata'.nextReceiptSequence
      /\ metadata'.nextOrderSequence = Cardinality(OfKind(ledger', "sale")) + 1
  BY DEF SaleInv
<1> QED
  BY <1>1, <1>2, <1>3 DEF SaleInv, SalesUpTo

(* The same for a transaction of the repository, which journals an entry   *)
(* that is no sale.                                                        *)
LEMMA JournalKeepsSaleInv ==
  ASSUME TypeOK, SaleInv, NEW kind, kind # "sale", NEW key, NEW at, NEW body, NEW meta,
         Journal(NewEntry(metadata, kind, key, at, body), meta),
         meta.nextOrderSequence = metadata.nextOrderSequence,
         meta.nextReceiptSequence = metadata.nextReceiptSequence
  PROVE  SaleInv'
<1> DEFINE entry == NewEntry(metadata, kind, key, at, body)
<1>1. /\ ledger' = Append(ledger, entry)
      /\ metadata' = meta
      /\ UNCHANGED <<orders, status, confirmedAt>>
  BY DEF Journal, intentVars
<1>2. entry.kind = kind
  BY DEF NewEntry
<1> HIDE DEF entry
<1>3. IsJournal(ledger) /\ Len(ledger) \in Nat
  BY LedgerIsJournal
<1>4. OfKind(ledger', "sale") = OfKind(ledger, "sale")
  <2>1. OfKind(ledger', "sale") =
          OfKind(ledger, "sale") \cup (IF entry.kind = "sale" THEN {Len(ledger) + 1} ELSE {})
    BY <1>1, <1>3, OfKindAppend
  <2> QED
    BY <1>2, <2>1
<1>5. Len(ledger') = Len(ledger) + 1
  BY <1>1, <1>3, AppendJournal
<1> QED
  BY <1>1, <1>3, <1>4, <1>5, NoSaleKeepsSaleInv

(* A finalization adds the order of its intent, with the next numbers.     *)
LEMMA FinalizeKeepsSaleInv ==
  ASSUME TypeOK, ChainInv, SaleInv, NEW i \in Sales, FinalizeCheckoutIntent(i)
  PROVE  SaleInv'
<1> DEFINE entry == NewEntry(metadata, "sale", i, confirmedAt[i], SaleBody(i, metadata))
           order == StoredOrder(entry)
           old   == OfKind(ledger, "sale")
           k     == Len(ledger) + 1
<1>1. /\ orders' = orders \cup {order}
      /\ ledger' = Append(ledger, entry)
      /\ metadata' = AppendSaleMetadata(metadata, entry)
      /\ status' = [status EXCEPT ![i] = "finalized"]
      /\ confirmedAt' = confirmedAt
  BY DEF FinalizeCheckoutIntent
<1>2. /\ entry.kind = "sale"
      /\ order.id = i
      /\ order.paidAt = confirmedAt[i]
      /\ order.orderNumber = metadata.nextOrderSequence
      /\ order.receiptNumber = metadata.nextReceiptSequence
      /\ order.journalSequence = metadata.nextJournalSequence
  BY DEF NewEntry, SaleBody, StoredOrder
<1> HIDE DEF entry, order
<1>3. IsJournal(ledger) /\ Len(ledger) \in Nat /\ DOMAIN ledger = 1..Len(ledger)
  BY LedgerIsJournal
<1>4. OfKind(ledger', "sale") = old \cup {k} /\ Len(ledger') = k
  BY <1>1, <1>2, <1>3, OfKindAppend, AppendJournal
<1>5. /\ old \subseteq 1..Len(ledger)
      /\ IsFiniteSet(old)
      /\ Cardinality(old) \in Nat
      /\ Cardinality(old \cup {k}) = Cardinality(old) + 1
  <2>1. old \subseteq 1..Len(ledger)
    BY <1>3 DEF OfKind
  <2> HIDE DEF old
  <2>2. IsFiniteSet(1..Len(ledger))
    BY <1>3, FS_Interval
  <2>3. IsFiniteSet(old)
    BY <2>1, <2>2, FS_Subset
  <2>4. k \notin old
    BY <1>3, <2>1
  <2> QED
    BY <2>1, <2>3, <2>4, FS_AddElement, FS_CardinalityType
<1>6. order.journalSequence = k
  BY <1>2 DEF ChainInv
<1>7. \A j \in Sales : status'[j] = "finalized" <=> \E o \in orders' : o.id = j
  BY <1>1, <1>2 DEF SaleInv, TypeOK
<1>8. ASSUME NEW o \in orders'
      PROVE  /\ o.paidAt = confirmedAt'[o.id]
             /\ o.orderNumber = o.receiptNumber
             /\ o.journalSequence \in 1..Len(ledger')
             /\ o.orderNumber = Cardinality({m \in OfKind(ledger', "sale") :
                                               m <= o.journalSequence})
  <2>1. CASE o = order
    <3>1. {m \in old \cup {k} : m <= k} = old \cup {k}
      BY <1>3, <1>5
    <3>2. order.orderNumber = Cardinality(old \cup {k})
      BY <1>2, <1>5 DEF SaleInv
    <3>3. o.orderNumber = Cardinality({m \in OfKind(ledger', "sale") :
                                         m <= o.journalSequence})
      BY <1>4, <1>6, <2>1, <3>1, <3>2
    <3>4. o.orderNumber = o.receiptNumber
      BY <1>2, <2>1 DEF SaleInv
    <3>5. o.journalSequence \in 1..Len(ledger')
      BY <1>3, <1>4, <1>6, <2>1
    <3> QED
      BY <1>1, <1>2, <2>1, <3>3, <3>4, <3>5
  <2>2. CASE o \in orders
    <3>1. /\ o.paidAt = confirmedAt[o.id]
          /\ o.orderNumber = o.receiptNumber
          /\ o.journalSequence \in 1..Len(ledger)
          /\ o.orderNumber = Cardinality({m \in old : m <= o.journalSequence})
      BY <2>2 DEF SaleInv, SalesUpTo
    <3>2. o.journalSequence \in 1..Len(ledger') /\ ~(k <= o.journalSequence)
      BY <1>3, <1>4, <3>1
    <3>3. {m \in old \cup {k} : m <= o.journalSequence}
            = {m \in old : m <= o.journalSequence}
      BY <3>2
    <3> QED
      BY <1>1, <1>4, <3>1, <3>2, <3>3
  <2> QED
    BY <1>1, <2>1, <2>2
<1>9. /\ metadata'.nextOrderSequence = metadata'.nextReceiptSequence
      /\ metadata'.nextOrderSequence = Cardinality(OfKind(ledger', "sale")) + 1
  <2>1. /\ metadata'.nextOrderSequence = metadata.nextOrderSequence + 1
        /\ metadata'.nextReceiptSequence = metadata.nextReceiptSequence + 1
    BY <1>1 DEF AppendSaleMetadata, AppendEntryMetadata, TypeOK, Metadata
  <2> QED
    BY <1>4, <1>5, <2>1 DEF SaleInv
<1> QED
  BY <1>7, <1>8, <1>9 DEF SaleInv, SalesUpTo

(* It holds in an empty register and in an upgraded one.                   *)
LEMMA InitSaleInv == Init => SaleInv
<1> SUFFICES ASSUME Init PROVE SaleInv
  OBVIOUS
<1>1. CASE /\ ledger = <<>>
           /\ orders = {}
           /\ metadata = EmptyMetadata
           /\ status = [i \in Sales |-> "absent"]
  <2>1. OfKind(ledger, "sale") = {}
    BY <1>1 DEF OfKind
  <2>2. Cardinality(OfKind(ledger, "sale")) = 0
    BY <2>1, FS_EmptySet
  <2>3. metadata.nextOrderSequence = 1 /\ metadata.nextReceiptSequence = 1
    BY <1>1 DEF EmptyMetadata
  <2> QED
    BY <1>1, <2>2, <2>3 DEF SaleInv
<1>2. ASSUME NEW i \in LegacySales, NEW entry,
             entry = NewEntry(EmptyMetadata, "sale", i, 0, SaleBody(i, EmptyMetadata)),
             status = [j \in Sales |-> IF j = i THEN "finalized" ELSE "absent"],
             confirmedAt = [j \in Sales |-> IF j = i THEN 0 ELSE NoTime],
             orders = {StoredOrder(entry)},
             ledger = <<entry>>,
             metadata = AppendSaleMetadata(EmptyMetadata, entry)
      PROVE  SaleInv
  <2>1. /\ entry.kind = "sale"
        /\ StoredOrder(entry).id = i
        /\ StoredOrder(entry).paidAt = 0
        /\ StoredOrder(entry).orderNumber = 1
        /\ StoredOrder(entry).receiptNumber = 1
        /\ StoredOrder(entry).journalSequence = 1
    BY <1>2 DEF NewEntry, EmptyMetadata, SaleBody, StoredOrder
  <2>2. i \in Sales
    BY ParametersAssumption
  <2>3. OfKind(ledger, "sale") = {1} /\ Len(ledger) = 1
    BY <1>2, <2>1 DEF OfKind
  <2>4. SalesUpTo(1) = {1}
    BY <2>3 DEF SalesUpTo
  <2>5. metadata.nextOrderSequence = 2 /\ metadata.nextReceiptSequence = 2
    BY <1>2 DEF AppendSaleMetadata, AppendEntryMetadata, EmptyMetadata
  <2>6. Cardinality({1}) = 1
    BY FS_Singleton
  <2>7. Cardinality(SalesUpTo(1)) = 1 /\ Cardinality(OfKind(ledger, "sale")) = 1
    BY <2>3, <2>4, <2>6
  <2>8. \A o \in orders : o = StoredOrder(entry)
    BY <1>2
  <2> QED
    BY <1>2, <2>1, <2>2, <2>3, <2>5, <2>7, <2>8 DEF SaleInv
<1> QED
  BY <1>1, <1>2 DEF Init, EmptyRegister, CreateOrder

(* One step per action.                                                    *)
LEMMA SaleStep ==
  ASSUME IInv, SaleInv, [Next]_vars
  PROVE  SaleInv'
<1>1. /\ TypeOK
      /\ ChainInv
      /\ status \in [Sales -> Statuses]
      /\ confirmedAt \in [Sales -> Times \cup {NoTime}]
      /\ \A i \in Sales : status[i] = "finalized" => confirmedAt[i] # NoTime
      /\ metadata \in Metadata
      /\ Len(ledger) \in Nat
  BY LedgerIsJournal DEF IInv, TypeOK, Times, NoTime
<1>2. CASE UNCHANGED <<storeVars, intentVars>>
  BY <1>1, <1>2, NoSaleKeepsSaleInv DEF storeVars, intentVars
<1>3. ASSUME NEW i \in Sales,
             \/ CreateCheckoutIntent(i)
             \/ MarkCheckoutPaymentToVerify(i)
             \/ ConfirmCheckoutPayment(i)
             \/ AbandonCheckoutIntent(i)
      PROVE  SaleInv'
  <2>1. UNCHANGED <<orders, ledger, metadata>>
    BY <1>3 DEF CreateCheckoutIntent, MarkCheckoutPaymentToVerify,
                ConfirmCheckoutPayment, AbandonCheckoutIntent, storeVars
  <2>2. /\ \A j \in Sales : status'[j] = "finalized" <=> status[j] = "finalized"
        /\ \A j \in Sales : status[j] = "finalized" => confirmedAt'[j] = confirmedAt[j]
    BY <1>1, <1>3 DEF CreateCheckoutIntent, MarkCheckoutPaymentToVerify,
                      ConfirmCheckoutPayment, AbandonCheckoutIntent
  <2> QED
    BY <1>1, <2>1, <2>2, NoSaleKeepsSaleInv
<1>4. ASSUME NEW i \in Sales, FinalizeCheckoutIntent(i)
      PROVE  SaleInv'
  BY <1>1, <1>4, FinalizeKeepsSaleInv
<1>5. \A entry :
        /\ AppendEntryMetadata(metadata, entry).nextOrderSequence = metadata.nextOrderSequence
        /\ AppendEntryMetadata(metadata, entry).nextReceiptSequence
             = metadata.nextReceiptSequence
        /\ \A end :
             LET meta == [AppendEntryMetadata(metadata, entry) EXCEPT !.lastClosureEnd = end]
             IN  /\ meta.nextOrderSequence = metadata.nextOrderSequence
                 /\ meta.nextReceiptSequence = metadata.nextReceiptSequence
  BY <1>1 DEF AppendEntryMetadata, Metadata
<1>6. ASSUME NEW r \in requests, OpenCashSession(r)
      PROVE  SaleInv'
  BY <1>1, <1>5, <1>6, JournalKeepsSaleInv DEF OpenCashSession
<1>7. ASSUME NEW r \in requests, UpdateCashFloat(r)
      PROVE  SaleInv'
  BY <1>1, <1>5, <1>7, JournalKeepsSaleInv DEF UpdateCashFloat
<1>8. ASSUME NEW r \in requests, RecordCorrection(r)
      PROVE  SaleInv'
  BY <1>1, <1>5, <1>8, JournalKeepsSaleInv DEF RecordCorrection
<1>9. ASSUME NEW r \in requests, ClosePeriod(r)
      PROVE  SaleInv'
  <2>1. PICK body :
          LET entry == NewEntry(metadata, "closure", r.op, r.at, body)
          IN  Journal(entry, [AppendEntryMetadata(metadata, entry)
                                EXCEPT !.lastClosureEnd = r.body.periodEnd])
    BY <1>9 DEF ClosePeriod
  <2> DEFINE entry == NewEntry(metadata, "closure", r.op, r.at, body)
             meta  == [AppendEntryMetadata(metadata, entry)
                         EXCEPT !.lastClosureEnd = r.body.periodEnd]
  <2>2. /\ meta.nextOrderSequence = metadata.nextOrderSequence
        /\ meta.nextReceiptSequence = metadata.nextReceiptSequence
    BY <1>5
  <2>3. Journal(entry, meta)
    BY <2>1
  <2> HIDE DEF meta
  <2> QED
    BY <1>1, <2>2, <2>3, JournalKeepsSaleInv
<1> QED
  BY <1>2, <1>3, <1>4, <1>6, <1>7, <1>8, <1>9
     DEF Next, Checkout, Service, Repository, vars, storeVars, intentVars, Tick,
         SetClockBack, RequestOpenSession, RequestUpdateFloat, RequestCancelSale,
         RequestRefundSale, RequestAdjustSale, RequestCorrection, RequestClosePeriod,
         CloseActiveSession,
         Post, Settle

(* Each finalized intent has one order, no other intent has any, and order *)
(* numbers follow the journaled sales without a gap.                       *)
THEOREM SalesFinalizedOnce == Spec => []FinalizedExactlyOnce
<1>1. IInv /\ SaleInv /\ [Next]_vars => SaleInv'
  BY SaleStep
<1>2. IInv /\ SaleInv => FinalizedExactlyOnce
  BY DEF IInv, TypeOK, SaleInv, SalesUpTo, FinalizedExactlyOnce
<1> QED
  BY InitSaleInv, <1>1, <1>2, Invariance, PTL DEF Spec


-----------------------------------------------------------------------------
(* What the register promises.  Whatever is recorded after a period is     *)
(* closed, the period has counted everything there is in it, and nothing   *)
(* that another period counted.  This is shown of any run of SealedJournal *)
(* over the entries and the instants of the register.                      *)

PromisedPeriods == [from : Times, to : Times, counted : SUBSET Promise!Dated]

(* Closed periods do not overlap.                                          *)
PeriodsApart ==
  /\ \A p \in ClosedPeriods : p.from < p.to
  /\ \A p, q \in ClosedPeriods : p # q => p.to <= q.from \/ q.to <= p.from

PromiseInv ==
  /\ RecordedEntries \subseteq Promise!Dated
  /\ ClosedPeriods \subseteq PromisedPeriods
  /\ \A p \in ClosedPeriods : p.counted = Promise!Counted(p.from, p.to)
  /\ PeriodsApart

(* Nothing is closed at first.                                             *)
LEMMA InitPromiseInv == Promise!Init => PromiseInv
  BY DEF Promise!Init, PromiseInv, PeriodsApart, ClosedPeriods

(* Recording only adds an entry after the end of every closed period.      *)
LEMMA RecordPromiseInv ==
  ASSUME PromiseInv, NEW e \in Promise!Dated, Promise!Record(e)
  PROVE  PromiseInv'
<1>1. /\ RecordedEntries' = RecordedEntries \cup {e}
      /\ ClosedPeriods' = ClosedPeriods
      /\ \A p \in ClosedPeriods : p.to <= e.at
  BY DEF Promise!Record, Promise!Open, ClosedPeriods
<1>2. ASSUME NEW p \in ClosedPeriods
      PROVE  Promise!Counted(p.from, p.to)' = Promise!Counted(p.from, p.to)
  <2>1. p.to <= e.at
    BY <1>1
  <2>2. e.at \in Nat /\ p.to \in Nat
    BY DEF PromiseInv, PromisedPeriods, Promise!Dated, Times
  <2>3. ~(e.at < p.to)
    BY <2>1, <2>2
  <2> QED
    BY <1>1, <2>3 DEF Promise!Counted
<1>3. \A p \in ClosedPeriods' : p.counted = Promise!Counted(p.from, p.to)'
  BY <1>1, <1>2 DEF PromiseInv
<1>4. PeriodsApart'
  BY <1>1 DEF PromiseInv, PeriodsApart
<1> QED
  BY <1>1, <1>3, <1>4 DEF PromiseInv

(* Closing counts what is there, after the end of every closed period.     *)
LEMMA ClosePromiseInv ==
  ASSUME PromiseInv, NEW from \in Times, NEW to \in Times, Promise!Close(from, to)
  PROVE  PromiseInv'
<1> DEFINE new == [from |-> from, to |-> to, counted |-> Promise!Counted(from, to)]
<1>1. /\ RecordedEntries' = RecordedEntries
      /\ ClosedPeriods' = ClosedPeriods \cup {new}
      /\ \A p \in ClosedPeriods : p.to <= from
      /\ from < to
  BY DEF Promise!Close, Promise!Open, ClosedPeriods
<1>2. new \in PromisedPeriods
  BY DEF PromiseInv, PromisedPeriods, Promise!Counted
<1>3. \A p : Promise!Counted(p.from, p.to)' = Promise!Counted(p.from, p.to)
  BY <1>1 DEF Promise!Counted
<1>4. \A p \in ClosedPeriods' : p.counted = Promise!Counted(p.from, p.to)'
  BY <1>1, <1>3 DEF PromiseInv
<1>5. PeriodsApart'
  BY <1>1, <1>2 DEF PromiseInv, PeriodsApart
<1> QED
  BY <1>1, <1>2, <1>4, <1>5 DEF PromiseInv

(* Recording and closing keep it.                                          *)
LEMMA NextPromiseInv == PromiseInv /\ [Promise!Next]_Promise!vars => PromiseInv'
<1> SUFFICES ASSUME PromiseInv, [Promise!Next]_Promise!vars PROVE PromiseInv'
  OBVIOUS
<1>1. CASE UNCHANGED Promise!vars
  <2>1. UNCHANGED <<RecordedEntries, ClosedPeriods>>
    BY <1>1 DEF Promise!vars, ClosedPeriods
  <2> QED
    BY <2>1 DEF PromiseInv, Promise!Counted, PeriodsApart
<1>2. CASE \E e \in Promise!Dated : Promise!Record(e)
  BY <1>2, RecordPromiseInv
<1>3. CASE \E from, to \in Times : Promise!Close(from, to)
  BY <1>3, ClosePromiseInv
<1> QED
  BY <1>1, <1>2, <1>3 DEF Promise!Next

(* It holds in every run of the register, which is a run of SealedJournal. *)
LEMMA PromiseInvariance == Spec => []PromiseInv
  BY InitPromiseInv, NextPromiseInv, Implementation, PTL DEF ImplementsPromise, Promise!Spec

(* A period, once closed, counted every sale and correction there will     *)
(* ever be in it, even with a device clock set back (ClosePeriod and the   *)
(* checks of finalizeCheckoutIntent and recordCorrection).                 *)
THEOREM PeriodsStayComplete == Spec => []Promise!PeriodsComplete
<1>1. PromiseInv => Promise!PeriodsComplete
  BY DEF PromiseInv, Promise!PeriodsComplete, ClosedPeriods
<1> QED
  BY <1>1, PromiseInvariance, PTL

(* No sale or correction is counted by two closures.                       *)
THEOREM EntriesCountedOnce == Spec => []Promise!CountedOnce
<1>1. PromiseInv => Promise!CountedOnce
  <2>1. SUFFICES ASSUME PromiseInv, NEW p \in ClosedPeriods, NEW q \in ClosedPeriods,
                        p # q, NEW e \in p.counted, e \in q.counted
                 PROVE  FALSE
    BY DEF Promise!CountedOnce, ClosedPeriods
  <2>2. /\ p.counted = Promise!Counted(p.from, p.to)
        /\ q.counted = Promise!Counted(q.from, q.to)
    BY <2>1 DEF PromiseInv
  <2>3. /\ e \in Promise!Dated
        /\ p.from <= e.at /\ e.at < p.to
        /\ q.from <= e.at /\ e.at < q.to
    BY <2>1, <2>2 DEF PromiseInv, Promise!Counted
  <2>4. /\ e.at \in Nat
        /\ p.from \in Nat /\ p.to \in Nat /\ q.from \in Nat /\ q.to \in Nat
    BY <2>1, <2>3 DEF PromiseInv, PromisedPeriods, Promise!Dated, Times
  <2>5. p.to <= q.from \/ q.to <= p.from
    BY <2>1 DEF PromiseInv, PeriodsApart
  <2> QED
    BY <2>3, <2>4, <2>5
<1> QED
  BY <1>1, PromiseInvariance, PTL

-----------------------------------------------------------------------------
(* The audit.  verifyAuditSnapshot walks the journal; an appended entry    *)
(* leaves what the walk found before alone, so it is enough that the new   *)
(* entry fits the end of the journal.                                      *)

(* The opening whose session the walk has in hand at the end, 0 if none.   *)
ActiveNow(entries) == ActiveBefore(entries, Len(entries) + 1)

OpeningFits(entries, e) ==
  /\ ActiveNow(entries) = 0
  /\ e.body.float >= 0
  /\ e.body.periodStart <= e.recordedAt
  /\ \A m \in OfKind(entries, "cash_session_opened") :
       entries[m].body.session # e.body.session

FloatUpdateFits(entries, e) ==
  /\ ActiveNow(entries) # 0
  /\ entries[ActiveNow(entries)].body.session = e.body.session
  /\ e.body.previous = CurrentFloat(entries, ActiveNow(entries))
  /\ e.body.float >= 0

ClosureFits(entries, e) ==
  /\ ActiveNow(entries) # 0
  /\ entries[ActiveNow(entries)].body.session = e.body.session
  /\ entries[ActiveNow(entries)].body.periodStart = e.body.periodStart
  /\ e.body.float = CurrentFloat(entries, ActiveNow(entries))
  /\ e.body.totals = CalculateClosureTotals(entries, e.body.periodStart, e.body.periodEnd)
  /\ e.body.theoreticalCash = TheoreticalCash(e.body.float, e.body.totals)

EntryFits(entries, e) ==
  /\ e.kind = "cash_session_opened" => OpeningFits(entries, e)
  /\ e.kind = "cash_float_updated" => FloatUpdateFits(entries, e)
  /\ e.kind = "closure" => ClosureFits(entries, e)

WalkPasses(entries) ==
  SessionsAlternate(entries) /\ FloatsChain(entries) /\ ClosuresRecompute(entries)

(* What getActiveCashSession finds from the end of the journal is what the *)
(* audit finds from its start.                                             *)
SessionsAgree(entries) ==
  OpenSessions(entries) =
    IF ActiveNow(entries) = 0 THEN {} ELSE {ActiveNow(entries)}

(* The walk's session was opened earlier.                                  *)
LEMMA ActiveIsOpening ==
  ASSUME NEW s, IsJournal(s), NEW n \in 1..(Len(s) + 1)
  PROVE  /\ ActiveBefore(s, n) \in 0..(n - 1)
         /\ ActiveBefore(s, n) # 0 =>
              ActiveBefore(s, n) \in OfKind(s, "cash_session_opened")
<1> DEFINE opened == {m \in OfKind(s, "cash_session_opened") : m < n}
           last   == IF opened = {} THEN 0 ELSE Max(opened)
<1>1. Len(s) \in Nat /\ DOMAIN s = 1..Len(s)
  BY JournalDomain
<1>2. opened \subseteq 1..Len(s) /\ \A m \in opened : m < n
  BY <1>1 DEF OfKind
<1> HIDE DEF opened
<1>3. opened # {} => Max(opened) \in opened
  BY <1>1, <1>2, MaxIsElement
<1>4. last \in 0..(n - 1) /\ (last # 0 => last \in opened)
  <2>1. CASE opened = {}
    BY <1>1, <2>1
  <2>2. CASE opened # {}
    <3>1. PICK x : x = Max(opened)
      OBVIOUS
    <3>2. x \in opened
      BY <1>3, <2>2, <3>1
    <3>3. x \in 0..(n - 1)
      BY <1>1, <1>2, <3>2
    <3>4. last = x
      BY <2>2, <3>1
    <3> QED
      BY <3>2, <3>3, <3>4
  <2> QED
    BY <2>1, <2>2
<1>5. ActiveBefore(s, n) = 0 \/ ActiveBefore(s, n) = last
  BY DEF ActiveBefore, opened
<1>6. n - 1 \in Nat
  BY <1>1
<1> QED
  BY <1>4, <1>5, <1>6 DEF opened

(* An append does not change what the walk found before it.                *)
LEMMA ActiveAppend ==
  ASSUME NEW s, IsJournal(s), NEW e, NEW n \in 1..(Len(s) + 1)
  PROVE  ActiveBefore(Append(s, e), n) = ActiveBefore(s, n)
<1> DEFINE t == Append(s, e)
<1>1. Len(s) \in Nat /\ DOMAIN s = 1..Len(s)
  BY JournalDomain
<1>2. \A kind : \A m : m \in OfKind(t, kind) /\ m < n <=> m \in OfKind(s, kind) /\ m < n
  <2>1. SUFFICES ASSUME NEW kind, NEW m
                 PROVE  m \in OfKind(t, kind) /\ m < n <=> m \in OfKind(s, kind) /\ m < n
    OBVIOUS
  <2>2. OfKind(t, kind) = OfKind(s, kind) \cup (IF e.kind = kind THEN {Len(s) + 1} ELSE {})
    BY OfKindAppend
  <2>3. ~(Len(s) + 1 < n)
    BY <1>1
  <2> QED
    BY <2>2, <2>3
<1>3. {m \in OfKind(t, "cash_session_opened") : m < n}
        = {m \in OfKind(s, "cash_session_opened") : m < n}
  BY <1>2
<1>4. \A last : (\E c \in OfKind(t, "closure") : last < c /\ c < n)
                  <=> (\E c \in OfKind(s, "closure") : last < c /\ c < n)
  BY <1>2
<1> QED
  BY <1>3, <1>4 DEF ActiveBefore

(* Nor the float it expects.                                              *)
LEMMA FloatAppend ==
  ASSUME NEW s, IsJournal(s), NEW e
  PROVE  /\ \A n \in 1..Len(s) : FloatBefore(Append(s, e), n) = FloatBefore(s, n)
         /\ FloatBefore(Append(s, e), Len(s) + 1) = CurrentFloat(s, ActiveNow(s))
<1>1. Len(s) \in Nat
  BY JournalDomain
<1>2. \A n \in 1..Len(s) : n \in 1..(Len(s) + 1)
  BY <1>1
<1>3. Len(s) + 1 \in 1..(Len(s) + 1)
  BY <1>1
<1> QED
  BY <1>2, <1>3, ActiveAppend, BeforeAppend DEF FloatBefore, ActiveNow

(* What the walk has in hand after one more entry.                         *)
LEMMA ActiveNowAppend ==
  ASSUME NEW s, IsJournal(s), NEW e
  PROVE  ActiveNow(Append(s, e)) =
           IF e.kind = "cash_session_opened" THEN Len(s) + 1
           ELSE IF e.kind = "closure" THEN 0 ELSE ActiveNow(s)
<1> DEFINE t == Append(s, e)
           k == Len(s) + 1
           opened(j) == {m \in OfKind(j, "cash_session_opened") : m < Len(j) + 1}
           last(j)   == IF opened(j) = {} THEN 0 ELSE Max(opened(j))
<1>1. Len(s) \in Nat /\ DOMAIN s = 1..Len(s) /\ Len(t) = k
  BY JournalDomain, AppendJournal
<1>2. /\ OfKind(s, "cash_session_opened") \subseteq 1..Len(s)
      /\ OfKind(s, "closure") \subseteq 1..Len(s)
  BY <1>1 DEF OfKind
<1>3. opened(s) = OfKind(s, "cash_session_opened")
  BY <1>1, <1>2
<1>4. \A kind : OfKind(t, kind) = OfKind(s, kind) \cup (IF e.kind = kind THEN {k} ELSE {})
  BY OfKindAppend
<1>5. opened(t) = OfKind(t, "cash_session_opened")
  <2>1. OfKind(t, "cash_session_opened") \subseteq 1..k
    BY <1>1, AppendJournal DEF OfKind
  <2>2. \A m \in 1..k : m < Len(t) + 1
    BY <1>1
  <2> QED
    BY <2>1, <2>2
<1>6. CASE e.kind = "cash_session_opened"
  <2>1. OfKind(t, "cash_session_opened") = OfKind(s, "cash_session_opened") \cup {k}
        /\ OfKind(t, "closure") = OfKind(s, "closure")
    BY <1>6, <1>4
  <2>2. opened(t) \subseteq 1..k /\ k \in opened(t)
    BY <1>1, <1>2, <1>5, <2>1
  <2>3. opened(t) # {} /\ k \in Nat
    BY <1>1, <2>2
  <2>4. Max(opened(t)) = k
    <3>1. PICK S : S = opened(t)
      OBVIOUS
    <3>2. S \subseteq 1..k /\ k \in S /\ S # {}
      BY <2>2, <2>3, <3>1
    <3>3. Max(S) \in S /\ \A y \in S : y <= Max(S)
      BY <2>3, <3>2, MaxIsElement
    <3>4. PICK x : x = Max(S)
      OBVIOUS
    <3>5. x \in 1..k /\ k <= x
      BY <3>2, <3>3, <3>4
    <3>6. x = k
      BY <1>1, <3>5
    <3> QED
      BY <3>1, <3>4, <3>6
  <2>5. last(t) = k
    BY <2>3, <2>4
  <2>6. ~\E c \in OfKind(t, "closure") : k < c /\ c < Len(t) + 1
    BY <1>1, <1>2, <2>1
  <2>7. ActiveNow(t) = k
    BY <2>5, <2>6 DEF ActiveNow, ActiveBefore
  <2> QED
    BY <1>6, <2>7
<1>7. CASE e.kind = "closure"
  <2>1. OfKind(t, "cash_session_opened") = OfKind(s, "cash_session_opened")
        /\ OfKind(t, "closure") = OfKind(s, "closure") \cup {k}
    BY <1>7, <1>4
  <2>2. opened(t) \subseteq 1..Len(s)
    BY <1>2, <1>5, <2>1
  <2>3. last(t) < k
    <3>1. PICK S : S = opened(t)
      OBVIOUS
    <3>2. S \subseteq 1..Len(s)
      BY <2>2, <3>1
    <3>3. S # {} => Max(S) \in S
      BY <1>1, <3>2, MaxIsElement
    <3>4. PICK x : x = Max(S)
      OBVIOUS
    <3>5. S # {} => x \in 1..Len(s)
      BY <3>2, <3>3, <3>4
    <3>6. last(t) = IF S = {} THEN 0 ELSE x
      BY <3>1, <3>4
    <3> QED
      BY <1>1, <3>5, <3>6
  <2>4. k \in OfKind(t, "closure") /\ k < Len(t) + 1
    BY <1>1, <2>1
  <2>5. ActiveNow(t) = 0
    BY <2>3, <2>4 DEF ActiveNow, ActiveBefore
  <2>6. e.kind # "cash_session_opened"
    BY <1>7
  <2> QED
    BY <1>7, <2>5, <2>6
<1>8. CASE e.kind \notin {"cash_session_opened", "closure"}
  <2>1. OfKind(t, "cash_session_opened") = OfKind(s, "cash_session_opened")
        /\ OfKind(t, "closure") = OfKind(s, "closure")
    BY <1>8, <1>4
  <2>2. opened(t) = opened(s)
    BY <1>3, <1>5, <2>1
  <2>3. \A x : (\E c \in OfKind(t, "closure") : x < c /\ c < Len(t) + 1)
                 <=> (\E c \in OfKind(s, "closure") : x < c /\ c < Len(s) + 1)
    <3>1. \A c \in OfKind(s, "closure") : c < Len(t) + 1 /\ c < Len(s) + 1
      BY <1>1, <1>2
    <3> QED
      BY <2>1, <3>1
  <2>4. ActiveNow(t) = ActiveNow(s)
    <3>1. last(t) = last(s)
      BY <2>2
    <3> QED
      BY <2>3, <3>1 DEF ActiveNow, ActiveBefore
  <2> QED
    BY <1>8, <2>4
<1> QED
  BY <1>6, <1>7, <1>8

(* A fitting entry keeps the walk passing.                                 *)
LEMMA WalkAppend ==
  ASSUME NEW s, IsJournal(s), NEW e, WalkPasses(s), EntryFits(s, e)
  PROVE  WalkPasses(Append(s, e))
<1> DEFINE k == Len(s) + 1
<1> USE DEF k
<1>1. PICK t : t = Append(s, e)
  OBVIOUS
<1>2. /\ Len(s) \in Nat
      /\ DOMAIN s = 1..Len(s)
      /\ \A n \in 1..Len(s) : t[n] = s[n]
      /\ t[k] = e
  BY <1>1, JournalDomain, AppendJournal
<1>3. \A kind : OfKind(t, kind) = OfKind(s, kind) \cup (IF e.kind = kind THEN {k} ELSE {})
  BY <1>1, OfKindAppend
<1>4. \A kind : OfKind(s, kind) \subseteq 1..Len(s)
  BY <1>2 DEF OfKind
<1>5. /\ \A n \in 1..Len(s) : ActiveBefore(t, n) = ActiveBefore(s, n)
      /\ ActiveBefore(t, k) = ActiveNow(s)
  <2>1. \A n \in 1..k : ActiveBefore(t, n) = ActiveBefore(s, n)
    BY <1>1, ActiveAppend
  <2> QED
    BY <1>2, <2>1 DEF ActiveNow
<1>6. /\ \A n \in 1..Len(s) : FloatBefore(t, n) = FloatBefore(s, n)
      /\ FloatBefore(t, k) = CurrentFloat(s, ActiveNow(s))
  BY <1>1, FloatAppend
<1>7. /\ \A n \in 1..Len(s) : Before(t, n) = Before(s, n)
      /\ Before(t, k) = s
  BY <1>1, BeforeAppend
<1>8. /\ \A n \in 1..Len(s) : ActiveBefore(s, n) # 0 => ActiveBefore(s, n) \in 1..Len(s)
      /\ ActiveNow(s) # 0 => ActiveNow(s) \in 1..Len(s)
  <2>1. \A n \in 1..k : ActiveBefore(s, n) \in 0..(n - 1)
    BY ActiveIsOpening
  <2> QED
    BY <1>2, <2>1 DEF ActiveNow
<1>9. SessionsAlternate(t)
  <2>1. SUFFICES ASSUME NEW n \in OfKind(t, "cash_session_opened")
                 PROVE  /\ ActiveBefore(t, n) = 0
                        /\ t[n].body.float >= 0
                        /\ t[n].body.periodStart <= t[n].recordedAt
                        /\ \A m \in OfKind(t, "cash_session_opened") :
                             t[m].body.session = t[n].body.session => m = n
    BY DEF SessionsAlternate
  <2>2. e.kind = "cash_session_opened" =>
          \A m \in OfKind(s, "cash_session_opened") : t[m].body.session # e.body.session
    BY <1>2, <1>4 DEF EntryFits, OpeningFits
  <2>3. CASE n \in OfKind(s, "cash_session_opened")
    <3>1. /\ ActiveBefore(s, n) = 0
          /\ s[n].body.float >= 0
          /\ s[n].body.periodStart <= s[n].recordedAt
          /\ \A m \in OfKind(s, "cash_session_opened") :
               s[m].body.session = s[n].body.session => m = n
      BY <2>3 DEF WalkPasses, SessionsAlternate
    <3>2. n \in 1..Len(s)
      BY <1>4, <2>3
    <3>3. \A m \in OfKind(t, "cash_session_opened") :
            t[m].body.session = t[n].body.session => m = n
      BY <1>2, <1>3, <1>4, <2>2, <2>3, <3>1, <3>2
    <3> QED
      BY <1>2, <1>5, <3>1, <3>2, <3>3
  <2>4. CASE n = k /\ e.kind = "cash_session_opened"
    <3>1. \A m \in OfKind(t, "cash_session_opened") :
            t[m].body.session = t[n].body.session => m = n
      BY <1>2, <1>3, <2>2, <2>4
    <3> QED
      BY <1>2, <1>5, <2>4, <3>1 DEF EntryFits, OpeningFits
  <2> QED
    BY <1>3, <2>1, <2>3, <2>4
<1>10. FloatsChain(t)
  <2>1. SUFFICES ASSUME NEW n \in OfKind(t, "cash_float_updated")
                 PROVE  /\ ActiveBefore(t, n) # 0
                        /\ t[ActiveBefore(t, n)].body.session = t[n].body.session
                        /\ t[n].body.previous = FloatBefore(t, n)
                        /\ t[n].body.float >= 0
    BY DEF FloatsChain
  <2>2. CASE n \in OfKind(s, "cash_float_updated")
    <3>1. /\ ActiveBefore(s, n) # 0
          /\ s[ActiveBefore(s, n)].body.session = s[n].body.session
          /\ s[n].body.previous = FloatBefore(s, n)
          /\ s[n].body.float >= 0
      BY <2>2 DEF WalkPasses, FloatsChain
    <3>2. n \in 1..Len(s)
      BY <1>4, <2>2
    <3> QED
      BY <1>2, <1>5, <1>6, <1>8, <3>1, <3>2
  <2>3. CASE n = k /\ e.kind = "cash_float_updated"
    BY <1>2, <1>5, <1>6, <1>8, <2>3 DEF EntryFits, FloatUpdateFits
  <2> QED
    BY <1>3, <2>1, <2>2, <2>3
<1>11. ClosuresRecompute(t)
  <2>1. SUFFICES ASSUME NEW n \in OfKind(t, "closure")
                 PROVE  /\ t[n].body.totals =
                             CalculateClosureTotals(Before(t, n), t[n].body.periodStart,
                                                    t[n].body.periodEnd)
                        /\ ActiveBefore(t, n) # 0
                        /\ t[ActiveBefore(t, n)].body.session = t[n].body.session
                        /\ t[ActiveBefore(t, n)].body.periodStart = t[n].body.periodStart
                        /\ t[n].body.float = FloatBefore(t, n)
                        /\ t[n].body.theoreticalCash =
                             TheoreticalCash(t[n].body.float, t[n].body.totals)
    BY DEF ClosuresRecompute
  <2>2. CASE n \in OfKind(s, "closure")
    <3>1. /\ s[n].body.totals =
               CalculateClosureTotals(Before(s, n), s[n].body.periodStart,
                                      s[n].body.periodEnd)
          /\ ActiveBefore(s, n) # 0
          /\ s[ActiveBefore(s, n)].body.session = s[n].body.session
          /\ s[ActiveBefore(s, n)].body.periodStart = s[n].body.periodStart
          /\ s[n].body.float = FloatBefore(s, n)
          /\ s[n].body.theoreticalCash = TheoreticalCash(s[n].body.float, s[n].body.totals)
      BY <2>2 DEF WalkPasses, ClosuresRecompute
    <3>2. n \in 1..Len(s)
      BY <1>4, <2>2
    <3>3. /\ t[n] = s[n]
          /\ Before(t, n) = Before(s, n)
          /\ ActiveBefore(t, n) = ActiveBefore(s, n)
          /\ FloatBefore(t, n) = FloatBefore(s, n)
          /\ t[ActiveBefore(s, n)] = s[ActiveBefore(s, n)]
      BY <1>2, <1>5, <1>6, <1>7, <1>8, <3>1, <3>2
    <3> QED
      BY <3>1, <3>3
  <2>3. CASE n = k /\ e.kind = "closure"
    <3>1. ClosureFits(s, e)
      BY <2>3 DEF EntryFits
    <3>2. /\ t[n] = e
          /\ Before(t, n) = s
          /\ ActiveBefore(t, n) = ActiveNow(s)
          /\ FloatBefore(t, n) = CurrentFloat(s, ActiveNow(s))
          /\ t[ActiveNow(s)] = s[ActiveNow(s)]
      BY <1>2, <1>5, <1>6, <1>7, <1>8, <2>3, <3>1 DEF ClosureFits
    <3> QED
      BY <3>1, <3>2 DEF ClosureFits
  <2> QED
    BY <1>3, <2>1, <2>2, <2>3
<1> QED
  BY <1>1, <1>9, <1>10, <1>11 DEF WalkPasses

(* And the two readings of the active session stay the same.               *)
LEMMA AgreeAppend ==
  ASSUME NEW s, IsJournal(s), NEW e, WalkPasses(s), EntryFits(s, e), SessionsAgree(s)
  PROVE  SessionsAgree(Append(s, e))
<1> DEFINE k == Len(s) + 1
<1>1. PICK t : t = Append(s, e)
  OBVIOUS
<1>2. /\ Len(s) \in Nat
      /\ DOMAIN s = 1..Len(s)
      /\ \A n \in 1..Len(s) : t[n] = s[n]
      /\ t[k] = e
  BY <1>1, JournalDomain, AppendJournal
<1>3. \A kind : OfKind(t, kind) = OfKind(s, kind) \cup (IF e.kind = kind THEN {k} ELSE {})
  BY <1>1, OfKindAppend
<1>4. \A kind : OfKind(s, kind) \subseteq 1..Len(s)
  BY <1>2 DEF OfKind
<1>5. \A c \in OfKind(s, "closure") :
        \E m \in OfKind(s, "cash_session_opened") :
          s[m].body.session = s[c].body.session
  <2>1. SUFFICES ASSUME NEW c \in OfKind(s, "closure")
                 PROVE  \E m \in OfKind(s, "cash_session_opened") :
                          s[m].body.session = s[c].body.session
    OBVIOUS
  <2>2. /\ ActiveBefore(s, c) # 0
        /\ s[ActiveBefore(s, c)].body.session = s[c].body.session
    BY DEF WalkPasses, ClosuresRecompute
  <2>3. c \in 1..(Len(s) + 1)
    BY <1>2, <1>4
  <2> QED
    BY <2>2, <2>3, ActiveIsOpening
<1>6. CASE e.kind = "cash_session_opened"
  <2>1. /\ OfKind(t, "cash_session_opened") = OfKind(s, "cash_session_opened") \cup {k}
        /\ OfKind(t, "closure") = OfKind(s, "closure")
    BY <1>3, <1>6
  <2>2. ActiveNow(t) = k
    BY <1>1, <1>6, ActiveNowAppend
  <2>3. /\ OpenSessions(s) = {}
        /\ \A m \in OfKind(s, "cash_session_opened") : s[m].body.session # e.body.session
    BY <1>6 DEF EntryFits, OpeningFits, SessionsAgree
  <2>4. \A x : IsClosed(t, x) <=> IsClosed(s, x)
    BY <1>2, <1>4, <2>1 DEF IsClosed
  <2>5. ~IsClosed(s, e.body.session)
    BY <1>5, <2>3 DEF IsClosed
  <2>6. OpenSessions(t) = {k}
    <3>1. \A m \in OfKind(s, "cash_session_opened") : IsClosed(t, t[m].body.session)
      BY <1>2, <1>4, <2>3, <2>4 DEF OpenSessions
    <3>2. ~IsClosed(t, t[k].body.session)
      BY <1>2, <2>4, <2>5
    <3> QED
      BY <2>1, <3>1, <3>2 DEF OpenSessions
  <2>7. k # 0
    BY <1>2
  <2> QED
    BY <1>1, <2>2, <2>6, <2>7 DEF SessionsAgree
<1>7. CASE e.kind = "closure"
  <2>1. /\ OfKind(t, "cash_session_opened") = OfKind(s, "cash_session_opened")
        /\ OfKind(t, "closure") = OfKind(s, "closure") \cup {k}
    BY <1>3, <1>7
  <2>2. ActiveNow(t) = 0
    BY <1>1, <1>7, ActiveNowAppend
  <2>3. /\ OpenSessions(s) = {ActiveNow(s)}
        /\ s[ActiveNow(s)].body.session = e.body.session
    BY <1>7 DEF EntryFits, ClosureFits, SessionsAgree
  <2>4. ASSUME NEW m \in OfKind(t, "cash_session_opened")
        PROVE  IsClosed(t, t[m].body.session)
    <3>1. m \in 1..Len(s) /\ t[m] = s[m]
      BY <1>2, <1>4, <2>1
    <3>2. CASE IsClosed(s, s[m].body.session)
      <4>1. PICK c \in OfKind(s, "closure") : s[c].body.session = s[m].body.session
        BY <3>2 DEF IsClosed
      <4> QED
        BY <1>2, <1>4, <2>1, <3>1, <4>1 DEF IsClosed
    <3>3. CASE ~IsClosed(s, s[m].body.session)
      <4>1. m = ActiveNow(s)
        BY <2>1, <2>3, <3>3 DEF OpenSessions
      <4> QED
        BY <1>2, <2>1, <2>3, <3>1, <4>1 DEF IsClosed
    <3> QED
      BY <3>2, <3>3
  <2>5. OpenSessions(t) = {}
    BY <2>4 DEF OpenSessions
  <2> QED
    BY <1>1, <2>2, <2>5 DEF SessionsAgree
<1>8. CASE e.kind \notin {"cash_session_opened", "closure"}
  <2>1. /\ OfKind(t, "cash_session_opened") = OfKind(s, "cash_session_opened")
        /\ OfKind(t, "closure") = OfKind(s, "closure")
    BY <1>3, <1>8
  <2>2. ActiveNow(t) = ActiveNow(s)
    BY <1>1, <1>8, ActiveNowAppend
  <2>3. \A x : IsClosed(t, x) <=> IsClosed(s, x)
    BY <1>2, <1>4, <2>1 DEF IsClosed
  <2>4. \A m \in OfKind(s, "cash_session_opened") : t[m] = s[m]
    BY <1>2, <1>4
  <2>5. OpenSessions(t) = OpenSessions(s)
    BY <2>1, <2>3, <2>4 DEF OpenSessions
  <2> QED
    BY <1>1, <2>2, <2>5 DEF SessionsAgree
<1> QED
  BY <1>6, <1>7, <1>8

-----------------------------------------------------------------------------
(* The invariant behind the audit, for the stores together.                *)

(* An opening is named by its session, which is its operation.             *)
OpeningsNamed ==
  /\ \A n \in OfKind(ledger, "cash_session_opened") :
       ledger[n].id = <<"cash_session_opened", ledger[n].body.session>>
  /\ \A r \in requests : r.kind = "cash_session_opened" => r.body.session = r.op

(* lastClosureEnd is the end of the last closure.                          *)
LastEndKept(entries, meta) ==
  meta.lastClosureEnd =
    IF OfKind(entries, "closure") = {} THEN NoTime
    ELSE entries[Max(OfKind(entries, "closure"))].body.periodEnd

AuditInv ==
  /\ OpeningsNamed
  /\ WalkPasses(ledger)
  /\ SessionsAgree(ledger)
  /\ CorrectionsReferToOrders(ledger, orders)
  /\ OrdersMatchJournal(ledger, orders)
  /\ LastEndKept(ledger, metadata)

(* It is all the audit asks for beyond the chain and the identifiers.      *)
LEMMA AuditPasses ==
  ASSUME IInv, AuditInv
  PROVE  AuditClean
<1>1. SalesJournaledOnce(ledger)
  <2>1. SUFFICES ASSUME NEW m \in OfKind(ledger, "sale"), NEW n \in OfKind(ledger, "sale"),
                        ledger[m].body.sale = ledger[n].body.sale
                 PROVE  m = n
    BY DEF SalesJournaledOnce
  <2>2. ledger[m].id = ledger[n].id
    BY <2>1 DEF IInv, IdInv
  <2>3. m \in DOMAIN ledger /\ n \in DOMAIN ledger
    BY DEF OfKind
  <2> QED
    BY <2>2, <2>3 DEF IInv, IdInv, JournaledOnce
<1>2. ChainLinked(ledger) /\ MetadataMatchesHead(ledger, metadata)
  BY DEF IInv, ChainInv, AuditInv, LastEndKept, MetadataMatchesHead
<1> QED
  BY <1>1, <1>2 DEF AuditInv, WalkPasses, AuditClean, VerifyIntegrity, VerifyAuditSnapshot

(* getActiveCashSession, in the words of the audit.                        *)
LEMMA ActiveSessionIs ==
  ASSUME TypeOK, SessionsAgree(ledger)
  PROVE  IF ActiveNow(ledger) = 0
         THEN GetActiveCashSession(ledger) = NoSession
         ELSE /\ GetActiveCashSession(ledger) =
                   [id          |-> ledger[ActiveNow(ledger)].body.session,
                    periodStart |-> ledger[ActiveNow(ledger)].body.periodStart,
                    float       |-> CurrentFloat(ledger, ActiveNow(ledger))]
              /\ GetActiveCashSession(ledger) # NoSession
<1>1. CASE ActiveNow(ledger) = 0
  BY <1>1 DEF SessionsAgree, GetActiveCashSession
<1>2. CASE ActiveNow(ledger) # 0
  <2>1. PICK x : x = ActiveNow(ledger)
    OBVIOUS
  <2>2. IsJournal(ledger) /\ Len(ledger) \in Nat /\ DOMAIN ledger = 1..Len(ledger)
    BY LedgerIsJournal
  <2>3. OpenSessions(ledger) = {x}
    BY <1>2, <2>1 DEF SessionsAgree
  <2>4. x \in OfKind(ledger, "cash_session_opened")
    BY <2>3 DEF OpenSessions
  <2>5. {x} \subseteq 1..Len(ledger) /\ {x} # {}
    BY <2>2, <2>4 DEF OfKind
  <2>6. Max({x}) = x
    BY <2>2, <2>5, MaxIsElement
  <2>7. GetActiveCashSession(ledger) =
          [id          |-> ledger[x].body.session,
           periodStart |-> ledger[x].body.periodStart,
           float       |-> CurrentFloat(ledger, x)]
    BY <2>3, <2>6 DEF GetActiveCashSession
  <2>8. ledger[x].body.periodStart \in Times
    BY <2>4 DEF OfKind, TypeOK, EntryOK, BodyOK
  <2>9. ledger[x].body.periodStart # NoTime
    BY <2>8 DEF Times, NoTime
  <2>10. GetActiveCashSession(ledger).periodStart # NoSession.periodStart
    BY <2>7, <2>9 DEF NoSession
  <2> QED
    BY <1>2, <2>1, <2>7, <2>10
<1> QED
  BY <1>1, <1>2

(* Steps that journal nothing.                                             *)
LEMMA QuietAudit ==
  ASSUME AuditInv, UNCHANGED storeVars,
         \A r \in requests' : r.kind = "cash_session_opened" => r.body.session = r.op
  PROVE  AuditInv'
  BY DEF AuditInv, storeVars, OpeningsNamed, WalkPasses, SessionsAlternate, FloatsChain,
         ClosuresRecompute, SessionsAgree, ActiveNow, CorrectionsReferToOrders,
         OrdersMatchJournal, LastEndKept

(* A fitting entry keeps the invariant.                                    *)
LEMMA AppendAudit ==
  ASSUME IInv, AuditInv, NEW e, EntryFits(ledger, e),
         ledger' = Append(ledger, e),
         requests' = requests,
         e.kind = "cash_session_opened" =>
           e.id = <<"cash_session_opened", e.body.session>>,
         e.kind = "correction" =>
           \E o \in orders : o.id = e.body.sale /\ e.body.originalSaleHash = o.hash,
         e.kind # "sale" => orders' = orders,
         e.kind = "sale" => orders' = orders \cup {StoredOrder(e)},
         e.kind = "sale" => e.body \in [sale : Sales, orderNumber : Nat, receiptNumber : Nat],
         metadata'.lastClosureEnd =
           IF e.kind = "closure" THEN e.body.periodEnd ELSE metadata.lastClosureEnd
  PROVE  AuditInv'
<1> DEFINE k == Len(ledger) + 1
<1>1. /\ IsJournal(ledger)
      /\ Len(ledger) \in Nat
      /\ DOMAIN ledger = 1..Len(ledger)
      /\ \A n \in 1..Len(ledger) : ledger'[n] = ledger[n]
      /\ ledger'[k] = e
  BY LedgerIsJournal, AppendJournal DEF IInv
<1>2. \A kind : OfKind(ledger', kind) =
                  OfKind(ledger, kind) \cup (IF e.kind = kind THEN {k} ELSE {})
  BY <1>1, OfKindAppend
<1>3. \A kind : OfKind(ledger, kind) \subseteq 1..Len(ledger)
  BY <1>1 DEF OfKind
<1>4. orders \subseteq orders'
  OBVIOUS
<1>5. OpeningsNamed'
  BY <1>1, <1>2, <1>3 DEF AuditInv, OpeningsNamed
<1>6. WalkPasses(ledger)' /\ SessionsAgree(ledger)'
  <2>1. WalkPasses(Append(ledger, e)) /\ SessionsAgree(Append(ledger, e))
    BY <1>1, WalkAppend, AgreeAppend DEF AuditInv
  <2> QED
    BY <2>1
<1>7. CorrectionsReferToOrders(ledger, orders)'
  BY <1>1, <1>2, <1>3, <1>4 DEF AuditInv, CorrectionsReferToOrders
<1>8. OrdersMatchJournal(ledger, orders)'
  <2>1. CASE e.kind = "sale"
    <3>1. PICK order : order = StoredOrder(e)
      OBVIOUS
    <3>2. /\ order.id = e.body.sale
          /\ order.orderNumber = e.body.orderNumber
          /\ order.receiptNumber = e.body.receiptNumber
          /\ order.paidAt = e.recordedAt
          /\ order.journalEntryId = e.id
          /\ order.journalSequence = e.sequence
          /\ order.hash = HashOf(e)
      BY <3>1 DEF StoredOrder
    <3>3. e.body = [sale          |-> order.id,
                    orderNumber   |-> order.orderNumber,
                    receiptNumber |-> order.receiptNumber]
      BY <2>1, <3>2
    <3>4. k \in OfKind(ledger', "sale")
      BY <1>2, <2>1
    <3>5. ASSUME NEW o \in orders'
          PROVE  \E n \in OfKind(ledger', "sale") :
                   /\ ledger'[n].id = o.journalEntryId
                   /\ ledger'[n].sequence = o.journalSequence
                   /\ HashOf(ledger'[n]) = o.hash
                   /\ ledger'[n].body = [sale          |-> o.id,
                                         orderNumber   |-> o.orderNumber,
                                         receiptNumber |-> o.receiptNumber]
                   /\ ledger'[n].recordedAt = o.paidAt
      <4>1. CASE o = order
        BY <1>1, <3>2, <3>3, <3>4, <4>1
      <4>2. CASE o \in orders
        <5>1. PICK n \in OfKind(ledger, "sale") :
                   /\ ledger[n].id = o.journalEntryId
                   /\ ledger[n].sequence = o.journalSequence
                   /\ HashOf(ledger[n]) = o.hash
                   /\ ledger[n].body = [sale          |-> o.id,
                                        orderNumber   |-> o.orderNumber,
                                        receiptNumber |-> o.receiptNumber]
                   /\ ledger[n].recordedAt = o.paidAt
          BY <4>2 DEF AuditInv, OrdersMatchJournal
        <5>2. n \in OfKind(ledger', "sale") /\ ledger'[n] = ledger[n]
          BY <1>1, <1>2, <1>3
        <5> QED
          BY <5>1, <5>2
      <4> QED
        BY <2>1, <3>1, <4>1, <4>2
    <3>6. ASSUME NEW n \in OfKind(ledger', "sale")
          PROVE  \E o \in orders' : o.id = ledger'[n].body.sale
      <4>1. CASE n = k
        BY <1>1, <2>1, <3>1, <3>2, <4>1
      <4>2. CASE n \in OfKind(ledger, "sale")
        <5>1. PICK o \in orders : o.id = ledger[n].body.sale
          BY <4>2 DEF AuditInv, OrdersMatchJournal
        <5>2. ledger'[n] = ledger[n]
          BY <1>1, <1>3, <4>2
        <5> QED
          BY <1>4, <5>1, <5>2
      <4> QED
        BY <1>2, <4>1, <4>2
    <3> QED
      BY <3>5, <3>6 DEF OrdersMatchJournal
  <2>2. CASE e.kind # "sale"
    <3>1. OfKind(ledger', "sale") = OfKind(ledger, "sale") /\ orders' = orders
      <4>1. OfKind(ledger', "sale") =
              OfKind(ledger, "sale") \cup (IF e.kind = "sale" THEN {k} ELSE {})
        BY <1>2
      <4> QED
        BY <2>2, <4>1
    <3>2. \A n \in OfKind(ledger, "sale") : ledger'[n] = ledger[n]
      BY <1>1, <1>3
    <3>3. OrdersMatchJournal(ledger, orders)
      BY DEF AuditInv
    <3>4. ASSUME NEW o \in orders'
          PROVE  \E n \in OfKind(ledger', "sale") :
                   /\ ledger'[n].id = o.journalEntryId
                   /\ ledger'[n].sequence = o.journalSequence
                   /\ HashOf(ledger'[n]) = o.hash
                   /\ ledger'[n].body = [sale          |-> o.id,
                                         orderNumber   |-> o.orderNumber,
                                         receiptNumber |-> o.receiptNumber]
                   /\ ledger'[n].recordedAt = o.paidAt
      <4>1. o \in orders
        BY <3>1
      <4>2. PICK n \in OfKind(ledger, "sale") :
                 /\ ledger[n].id = o.journalEntryId
                 /\ ledger[n].sequence = o.journalSequence
                 /\ HashOf(ledger[n]) = o.hash
                 /\ ledger[n].body = [sale          |-> o.id,
                                      orderNumber   |-> o.orderNumber,
                                      receiptNumber |-> o.receiptNumber]
                 /\ ledger[n].recordedAt = o.paidAt
        BY <3>3, <4>1 DEF OrdersMatchJournal
      <4>3. n \in OfKind(ledger', "sale") /\ ledger'[n] = ledger[n]
        BY <3>1, <3>2
      <4> QED
        BY <4>2, <4>3
    <3>5. ASSUME NEW n \in OfKind(ledger', "sale")
          PROVE  \E o \in orders' : o.id = ledger'[n].body.sale
      <4>1. n \in OfKind(ledger, "sale") /\ ledger'[n] = ledger[n]
        BY <3>1, <3>2
      <4>2. PICK o \in orders : o.id = ledger[n].body.sale
        BY <3>3, <4>1 DEF OrdersMatchJournal
      <4> QED
        BY <3>1, <4>1, <4>2
    <3> QED
      BY <3>4, <3>5 DEF OrdersMatchJournal
  <2> QED
    BY <2>1, <2>2
<1>9. LastEndKept(ledger, metadata)'
  <2>1. PICK closures : closures = OfKind(ledger', "closure")
    OBVIOUS
  <2>2. CASE e.kind = "closure"
    <3>1. closures \subseteq 1..k /\ k \in closures /\ closures # {} /\ k \in Nat
      BY <1>1, <1>2, <1>3, <2>1, <2>2
    <3>2. PICK x : x = Max(closures)
      OBVIOUS
    <3>3. x \in 1..k /\ k <= x
      BY <3>1, <3>2, MaxIsElement
    <3>4. x = k
      BY <1>1, <3>3
    <3>5. metadata'.lastClosureEnd = ledger'[x].body.periodEnd
      BY <1>1, <2>2, <3>4
    <3> QED
      BY <2>1, <3>1, <3>2, <3>5 DEF LastEndKept
  <2>3. CASE e.kind # "closure"
    <3>1. closures = OfKind(ledger, "closure")
      <4>1. OfKind(ledger', "closure") =
              OfKind(ledger, "closure") \cup (IF e.kind = "closure" THEN {k} ELSE {})
        BY <1>2
      <4> QED
        BY <2>1, <2>3, <4>1
    <3>2. closures # {} => Max(closures) \in 1..Len(ledger)
      <4>1. closures \subseteq 1..Len(ledger)
        BY <1>3, <3>1
      <4> QED
        BY <1>1, <4>1, MaxIsElement
    <3>3. closures # {} => ledger'[Max(closures)] = ledger[Max(closures)]
      BY <1>1, <3>2
    <3> QED
      BY <2>1, <2>3, <3>1, <3>3 DEF AuditInv, LastEndKept
  <2> QED
    BY <2>2, <2>3
<1> QED
  BY <1>5, <1>6, <1>7, <1>8, <1>9 DEF AuditInv

(* It holds in an empty register and in an upgraded one.                   *)
LEMMA InitAudit == Init => AuditInv
<1> SUFFICES ASSUME Init PROVE AuditInv
  OBVIOUS
<1>1. requests = {}
  BY DEF Init
<1>2. ASSUME \A kind \in Kinds \ {"sale"} : OfKind(ledger, kind) = {},
             metadata.lastClosureEnd = NoTime,
             OrdersMatchJournal(ledger, orders)
      PROVE  AuditInv
  <2>1. /\ OfKind(ledger, "cash_session_opened") = {}
        /\ OfKind(ledger, "cash_float_updated") = {}
        /\ OfKind(ledger, "closure") = {}
        /\ OfKind(ledger, "correction") = {}
    BY <1>2 DEF Kinds
  <2>2. ActiveNow(ledger) = 0 /\ OpenSessions(ledger) = {}
    BY <2>1 DEF ActiveNow, ActiveBefore, OpenSessions
  <2>3. WalkPasses(ledger) /\ SessionsAgree(ledger) /\ OpeningsNamed
    BY <1>1, <2>1, <2>2 DEF WalkPasses, SessionsAlternate, FloatsChain, ClosuresRecompute,
                           SessionsAgree, OpeningsNamed
  <2> QED
    BY <1>2, <2>1, <2>3 DEF AuditInv, CorrectionsReferToOrders, LastEndKept
<1>3. CASE EmptyRegister
  <2>1. ledger = <<>> /\ orders = {} /\ metadata.lastClosureEnd = NoTime
    BY <1>3 DEF EmptyRegister, EmptyMetadata
  <2>2. \A kind : OfKind(ledger, kind) = {}
    BY <2>1 DEF OfKind
  <2> QED
    BY <1>2, <2>1, <2>2 DEF OrdersMatchJournal
<1>4. ASSUME NEW i \in LegacySales, CreateOrder(i)
      PROVE  AuditInv
  <2>1. PICK entry :
          /\ entry = NewEntry(EmptyMetadata, "sale", i, 0, SaleBody(i, EmptyMetadata))
          /\ orders = {StoredOrder(entry)}
          /\ ledger = <<entry>>
          /\ metadata = AppendSaleMetadata(EmptyMetadata, entry)
    BY <1>4 DEF CreateOrder
  <2>2. entry.kind = "sale" /\ entry.body = [sale |-> i, orderNumber |-> 1, receiptNumber |-> 1]
    BY <2>1 DEF NewEntry, SaleBody, EmptyMetadata
  <2>3. OfKind(ledger, "sale") = {1} /\ ledger[1] = entry
        /\ \A kind \in Kinds \ {"sale"} : OfKind(ledger, kind) = {}
    BY <2>1, <2>2 DEF OfKind
  <2>4. metadata.lastClosureEnd = NoTime
    BY <2>1 DEF AppendSaleMetadata, AppendEntryMetadata, EmptyMetadata
  <2>5. PICK order : order = StoredOrder(entry)
    OBVIOUS
  <2>6. /\ order.id = i
        /\ order.orderNumber = 1
        /\ order.receiptNumber = 1
        /\ order.paidAt = entry.recordedAt
        /\ order.journalEntryId = entry.id
        /\ order.journalSequence = entry.sequence
        /\ order.hash = HashOf(entry)
    BY <2>2, <2>5 DEF StoredOrder
  <2>7. orders = {order}
    BY <2>1, <2>5
  <2>8. OrdersMatchJournal(ledger, orders)
    BY <2>2, <2>3, <2>6, <2>7 DEF OrdersMatchJournal
  <2> QED
    BY <1>2, <2>3, <2>4, <2>8
<1> QED
  BY <1>3, <1>4 DEF Init

(* A finalization adds the order and the sale together.                    *)
LEMMA FinalizeAudit ==
  ASSUME IInv, AuditInv, NEW i \in Sales, FinalizeCheckoutIntent(i)
  PROVE  AuditInv'
<1>1. PICK e : /\ e = NewEntry(metadata, "sale", i, confirmedAt[i], SaleBody(i, metadata))
               /\ orders' = orders \cup {StoredOrder(e)}
               /\ ledger' = Append(ledger, e)
               /\ metadata' = AppendSaleMetadata(metadata, e)
               /\ requests' = requests
  BY DEF FinalizeCheckoutIntent, callVars
<1>2. metadata \in Metadata
  BY DEF IInv, TypeOK
<1>3. e.kind = "sale" /\ e.body = SaleBody(i, metadata)
  BY <1>1 DEF NewEntry
<1>4. e.body \in [sale : Sales, orderNumber : Nat, receiptNumber : Nat]
  BY <1>2, <1>3 DEF SaleBody, Metadata
<1>5. metadata'.lastClosureEnd = metadata.lastClosureEnd
  BY <1>1, <1>2 DEF AppendSaleMetadata, AppendEntryMetadata, Metadata
<1>6. EntryFits(ledger, e)
  BY <1>3 DEF EntryFits
<1> QED
  BY <1>1, <1>3, <1>4, <1>5, <1>6, AppendAudit

(* What the transactions of the repository have in common.                 *)
LEMMA PlainAudit ==
  ASSUME IInv, AuditInv, NEW e, e.kind \notin {"sale", "closure"},
         Journal(e, AppendEntryMetadata(metadata, e)), EntryFits(ledger, e),
         e.kind = "cash_session_opened" =>
           e.id = <<"cash_session_opened", e.body.session>>,
         e.kind = "correction" =>
           \E o \in orders : o.id = e.body.sale /\ e.body.originalSaleHash = o.hash
  PROVE  AuditInv'
<1>1. /\ ledger' = Append(ledger, e)
      /\ metadata' = AppendEntryMetadata(metadata, e)
      /\ orders' = orders
      /\ requests' = requests
  BY DEF Journal, callVars
<1>2. metadata'.lastClosureEnd = metadata.lastClosureEnd
  BY <1>1 DEF AppendEntryMetadata, IInv, TypeOK, Metadata
<1> QED
  BY <1>1, <1>2, AppendAudit

(* openCashSession journals only when no session is active, and a new one. *)
LEMMA OpenAudit ==
  ASSUME IInv, AuditInv, NEW r \in requests, OpenCashSession(r)
  PROVE  AuditInv'
<1>1. PICK e : /\ e = NewEntry(metadata, "cash_session_opened", r.op, r.at, r.body)
               /\ Journal(e, AppendEntryMetadata(metadata, e))
  BY DEF OpenCashSession
<1>2. /\ e.kind = "cash_session_opened"
      /\ e.id = <<"cash_session_opened", r.op>>
      /\ e.recordedAt = r.at
      /\ e.body = r.body
  BY <1>1 DEF NewEntry
<1>3. r.kind = "cash_session_opened"
  BY DEF OpenCashSession
<1>4. r.body.session = r.op /\ r.body.float \in Floats
  BY <1>3 DEF AuditInv, OpeningsNamed, IInv, TypeOK, RequestOK, BodyOK
<1>5. ActiveNow(ledger) = 0
  BY ActiveSessionIs DEF OpenCashSession, IInv, AuditInv
<1>6. ASSUME NEW m \in OfKind(ledger, "cash_session_opened")
      PROVE  ledger[m].body.session # e.body.session
  <2>1. ledger[m].id # <<"cash_session_opened", r.op>>
    BY <1>3 DEF OpenCashSession, Unrecorded, HasEntry, OfKind
  <2>2. ledger[m].id = <<"cash_session_opened", ledger[m].body.session>>
    BY DEF AuditInv, OpeningsNamed
  <2> QED
    BY <1>2, <1>4, <2>1, <2>2
<1>7. e.body.float >= 0 /\ e.body.periodStart <= e.recordedAt
  <2>1. r.body.float \in Nat
    BY <1>4, ParametersAssumption
  <2>2. r.body.periodStart <= r.at
    BY DEF OpenCashSession
  <2> QED
    BY <1>2, <2>1, <2>2
<1>8. EntryFits(ledger, e)
  BY <1>2, <1>5, <1>6, <1>7 DEF EntryFits, OpeningFits
<1> QED
  BY <1>1, <1>2, <1>4, <1>8, PlainAudit

(* updateCashFloat starts from the float of the active session.            *)
LEMMA UpdateFloatAudit ==
  ASSUME IInv, AuditInv, NEW r \in requests, UpdateCashFloat(r)
  PROVE  AuditInv'
<1>1. PICK e : /\ e = NewEntry(metadata, "cash_float_updated", r.op, r.at, r.body)
               /\ Journal(e, AppendEntryMetadata(metadata, e))
  BY DEF UpdateCashFloat
<1>2. e.kind = "cash_float_updated" /\ e.body = r.body
  BY <1>1 DEF NewEntry
<1>3. /\ r.kind = "cash_float_updated"
      /\ GetActiveCashSession(ledger).id = r.body.session
      /\ GetActiveCashSession(ledger).float = r.body.previous
  BY DEF UpdateCashFloat, SameSession
<1>4. r.body.float \in Nat /\ r.body.previous \in Nat
  BY <1>3, ParametersAssumption DEF IInv, TypeOK, RequestOK, BodyOK
<1>5. GetActiveCashSession(ledger) # NoSession
  BY <1>3, <1>4 DEF NoSession, NoTime
<1>6. /\ ActiveNow(ledger) # 0
      /\ ledger[ActiveNow(ledger)].body.session = r.body.session
      /\ r.body.previous = CurrentFloat(ledger, ActiveNow(ledger))
  BY <1>3, <1>5, ActiveSessionIs DEF IInv, AuditInv
<1>7. EntryFits(ledger, e)
  BY <1>2, <1>4, <1>6 DEF EntryFits, FloatUpdateFits
<1> QED
  BY <1>1, <1>2, <1>7, PlainAudit

(* recordCorrection carries the digest of the stored order.                *)
LEMMA CorrectionAudit ==
  ASSUME IInv, AuditInv, NEW r \in requests, RecordCorrection(r)
  PROVE  AuditInv'
<1>1. PICK o, body, e :
        /\ o \in orders
        /\ body = [sale             |-> o.id,
                   type             |-> r.body.type,
                   delta            |-> r.body.delta,
                   quantities       |-> r.body.quantities,
                   vat              |-> r.body.vat,
                   originalSaleHash |-> o.hash]
        /\ e = NewEntry(metadata, "correction", r.op, r.at, body)
        /\ Journal(e, AppendEntryMetadata(metadata, e))
  BY DEF RecordCorrection
<1>2. e.kind = "correction" /\ e.body.sale = o.id /\ e.body.originalSaleHash = o.hash
  BY <1>1 DEF NewEntry
<1>3. EntryFits(ledger, e)
  BY <1>2 DEF EntryFits
<1> QED
  BY <1>1, <1>2, <1>3, PlainAudit

(* closePeriod closes the active session, from its start, with its float.  *)
LEMMA CloseAudit ==
  ASSUME IInv, AuditInv, NEW r \in requests, ClosePeriod(r)
  PROVE  AuditInv'
<1>1. PICK totals, body, e :
        /\ totals = CalculateClosureTotals(ledger, r.body.periodStart, r.body.periodEnd)
        /\ body = [session         |-> r.body.session,
                   periodStart     |-> r.body.periodStart,
                   periodEnd       |-> r.body.periodEnd,
                   float           |-> r.body.float,
                   totals          |-> totals,
                   theoreticalCash |-> TheoreticalCash(r.body.float, totals)]
        /\ e = NewEntry(metadata, "closure", r.op, r.at, body)
        /\ Journal(e, [AppendEntryMetadata(metadata, e)
                         EXCEPT !.lastClosureEnd = r.body.periodEnd])
  BY DEF ClosePeriod
<1>2. e.kind = "closure" /\ e.body = body
  BY <1>1 DEF NewEntry
<1>3. /\ r.kind = "closure"
      /\ GetActiveCashSession(ledger).id = r.body.session
      /\ GetActiveCashSession(ledger).float = r.body.float
      /\ GetActiveCashSession(ledger).periodStart = r.body.periodStart
  BY DEF ClosePeriod, SameSession
<1>4. r.body.float \in Nat
  BY <1>3, ParametersAssumption DEF IInv, TypeOK, RequestOK, BodyOK
<1>5. GetActiveCashSession(ledger) # NoSession
  BY <1>3, <1>4 DEF NoSession, NoTime
<1>6. /\ ActiveNow(ledger) # 0
      /\ ledger[ActiveNow(ledger)].body.session = r.body.session
      /\ ledger[ActiveNow(ledger)].body.periodStart = r.body.periodStart
      /\ r.body.float = CurrentFloat(ledger, ActiveNow(ledger))
  BY <1>3, <1>5, ActiveSessionIs DEF IInv, AuditInv
<1>7. /\ e.body.session = r.body.session
      /\ e.body.periodStart = r.body.periodStart
      /\ e.body.periodEnd = r.body.periodEnd
      /\ e.body.float = r.body.float
      /\ e.body.totals = totals
      /\ e.body.theoreticalCash = TheoreticalCash(r.body.float, totals)
  BY <1>1, <1>2
<1>8. EntryFits(ledger, e)
  BY <1>1, <1>2, <1>6, <1>7 DEF EntryFits, ClosureFits
<1>9. /\ ledger' = Append(ledger, e)
      /\ orders' = orders
      /\ requests' = requests
      /\ metadata' = [AppendEntryMetadata(metadata, e)
                         EXCEPT !.lastClosureEnd = r.body.periodEnd]
  BY <1>1 DEF Journal, callVars
<1>10. metadata'.lastClosureEnd = e.body.periodEnd
  BY <1>7, <1>9 DEF AppendEntryMetadata, IInv, TypeOK, Metadata
<1> QED
  BY <1>2, <1>8, <1>9, <1>10, AppendAudit

(* Every step keeps it.                                                    *)
LEMMA AuditStep ==
  ASSUME IInv, AuditInv, [Next]_vars
  PROVE  AuditInv'
<1>1. \A r \in requests : r.kind = "cash_session_opened" => r.body.session = r.op
  BY DEF AuditInv, OpeningsNamed
<1>2. CASE UNCHANGED <<storeVars, requests>>
  BY <1>1, <1>2, QuietAudit
<1>3. ASSUME NEW op \in Ops, NEW float \in Floats, RequestOpenSession(op, float)
      PROVE  AuditInv'
  <2>1. PICK body, r :
          /\ body = [session     |-> op,
                     periodStart |-> SessionPeriodStart(ledger, clock),
                     float       |-> float]
          /\ r = [op |-> op, kind |-> "cash_session_opened", at |-> clock, body |-> body]
          /\ requests' = requests \cup {r}
    BY <1>3 DEF RequestOpenSession, Post
  <2>3. r.op = op /\ r.body.session = op
    BY <2>1
  <2>2. UNCHANGED storeVars
    BY <1>3 DEF RequestOpenSession, Post
  <2> QED
    BY <1>1, <2>1, <2>2, <2>3, QuietAudit
<1>4. ASSUME NEW op, NEW kind \in Kinds \ {"cash_session_opened"}, NEW body,
             Post(op, kind, body)
      PROVE  AuditInv'
  <2>1. PICK r : /\ r = [op |-> op, kind |-> kind, at |-> clock, body |-> body]
                 /\ requests' = requests \cup {r}
    BY <1>4 DEF Post
  <2>3. r.kind # "cash_session_opened"
    BY <2>1
  <2>2. UNCHANGED storeVars
    BY <1>4 DEF Post
  <2> QED
    BY <1>1, <2>1, <2>2, <2>3, QuietAudit
<1>5. CASE Service
  <2>1. /\ "cash_float_updated" \in Kinds \ {"cash_session_opened"}
        /\ "correction" \in Kinds \ {"cash_session_opened"}
        /\ "closure" \in Kinds \ {"cash_session_opened"}
    BY DEF Kinds
  <2> QED
    BY <1>3, <1>4, <1>5, <2>1
       DEF Service, RequestUpdateFloat, RequestCancelSale, RequestRefundSale,
           RequestAdjustSale, RequestCorrection, RequestClosePeriod, CloseActiveSession
<1>6. ASSUME NEW r \in requests, Settle(r)
      PROVE  AuditInv'
  BY <1>1, <1>6, QuietAudit DEF Settle
<1>7. CASE Checkout
  <2>1. ASSUME NEW i \in Sales,
               \/ CreateCheckoutIntent(i)
               \/ MarkCheckoutPaymentToVerify(i)
               \/ ConfirmCheckoutPayment(i)
               \/ AbandonCheckoutIntent(i)
        PROVE  UNCHANGED <<storeVars, requests>>
    BY <2>1 DEF CreateCheckoutIntent, MarkCheckoutPaymentToVerify,
                ConfirmCheckoutPayment, AbandonCheckoutIntent, callVars
  <2> QED
    BY <1>2, <1>7, <2>1, FinalizeAudit DEF Checkout
<1>8. CASE Repository
  BY <1>6, <1>8, OpenAudit, UpdateFloatAudit, CorrectionAudit, CloseAudit DEF Repository
<1>9. CASE Tick \/ SetClockBack \/ UNCHANGED vars
  BY <1>2, <1>9 DEF Tick, SetClockBack, vars, storeVars, callVars
<1> QED
  BY <1>5, <1>7, <1>8, <1>9 DEF Next

(* Whatever stale, replayed or concurrent calls reach the repository, the  *)
(* stores pass the audit run before a closure, an export or a restoration  *)
(* (verifyAuditSnapshot).                                                  *)
THEOREM AuditAlwaysPasses == Spec => []AuditClean
<1>1. IInv /\ AuditInv /\ [Next]_vars => AuditInv'
  BY AuditStep
<1>2. IInv /\ AuditInv => AuditClean
  BY AuditPasses
<1> QED
  BY InitAudit, <1>1, <1>2, Invariance, PTL DEF Spec

-----------------------------------------------------------------------------
(* Sums.  Amounts, totals and refunded quantities are sums over a finite   *)
(* set, folded by removing one element at a time.  The induction is on a   *)
(* set of good numbers or of good subsets, a predicate being no parameter  *)
(* the provers can instantiate.                                            *)

(* Induction on naturals.                                                  *)
LEMMA CountUp ==
  ASSUME NEW G, 0 \in G, \A k \in Nat : k \in G => k + 1 \in G
  PROVE  \A k \in Nat : k \in G
<1> DEFINE bad == {k \in Nat : k \notin G}
<1>1. SUFFICES ASSUME bad # {} PROVE FALSE
  OBVIOUS
<1>2. PICK k \in bad : \A j \in bad : ~(<<j, k>> \in OpToRel(<, Nat))
  BY <1>1, WFMin, NatLessThanWellFounded
<1>3. k # 0 /\ k \in Nat
  OBVIOUS
<1>4. k - 1 \in Nat /\ k - 1 < k
  BY <1>3
<1>5. k - 1 \in G
  BY <1>2, <1>3, <1>4 DEF OpToRel
<1>6. k - 1 + 1 \in G
  BY <1>4, <1>5
<1> QED
  BY <1>3, <1>6

(* Induction on the subsets of a finite set.                               *)
LEMMA GrowSet ==
  ASSUME NEW D, IsFiniteSet(D), NEW G, {} \in G,
         \A s \in SUBSET D : s # {} /\ (\A x \in s : s \ {x} \in G) => s \in G
  PROVE  \A s \in SUBSET D : s \in G
<1> DEFINE H == {k \in Nat : \A s \in SUBSET D : Cardinality(s) = k => s \in G}
<1>1. \A s \in SUBSET D : IsFiniteSet(s) /\ Cardinality(s) \in Nat
  BY FS_Subset, FS_CardinalityType
<1>2. 0 \in H
  BY <1>1, FS_EmptySet
<1>3. ASSUME NEW k \in Nat, k \in H
      PROVE  k + 1 \in H
  <2>1. SUFFICES ASSUME NEW s \in SUBSET D, Cardinality(s) = k + 1
                 PROVE  s \in G
    OBVIOUS
  <2>2. s # {}
    <3>1. s = {} => Cardinality(s) = 0
      BY FS_EmptySet
    <3>2. k + 1 # 0
      OBVIOUS
    <3> QED
      BY <2>1, <3>1, <3>2
  <2>3. ASSUME NEW x \in s
        PROVE  s \ {x} \in G
    <3>1. Cardinality(s \ {x}) = Cardinality(s) - 1
      BY <1>1, FS_RemoveElement
    <3>2. Cardinality(s \ {x}) = k
      BY <2>1, <3>1
    <3> QED
      BY <1>3, <3>2
  <2> QED
    BY <2>2, <2>3
<1> HIDE DEF H
<1>4. \A k \in Nat : k \in H
  BY <1>2, <1>3, CountUp
<1> QED
  BY <1>1, <1>4 DEF H

(* The element a fold removes first.                                       *)
PickOne(s) == CHOOSE x \in s : TRUE

(* What MapThenSumSet computes: f gives every subset its sum.              *)
Sums(f, g, D) ==
  f = [s \in SUBSET D |-> IF s = {} THEN 0 ELSE g[PickOne(s)] + f[s \ {PickOne(s)}]]

(* The sum of g over D.                                                    *)
Total(g, D) == (CHOOSE f : Sums(f, g, D))[D]

(* Only an empty set has nothing to remove.                                *)
LEMMA PickOneIn == \A s : s # {} => PickOne(s) \in s
  BY DEF PickOne

(* The sums of all subsets exist: they are built up by cardinality.        *)
LEMMA SumsExist ==
  ASSUME NEW D, IsFiniteSet(D), NEW g
  PROVE  \E f : Sums(f, g, D)
<1> DEFINE upTo(k) == {s \in SUBSET D : Cardinality(s) <= k}
           Partial(f, k) ==
             f = [s \in upTo(k) |-> IF s = {} THEN 0
                                    ELSE g[PickOne(s)] + f[s \ {PickOne(s)}]]
           G == {k \in Nat : \E f : Partial(f, k)}
<1>1. \A s \in SUBSET D : IsFiniteSet(s) /\ Cardinality(s) \in Nat
  BY FS_Subset, FS_CardinalityType
<1>2. 0 \in G
  <2>1. \A s \in upTo(0) : s = {}
    BY <1>1, FS_EmptySet
  <2>2. PICK f : f = [s \in upTo(0) |-> 0]
    OBVIOUS
  <2>3. [s \in upTo(0) |-> IF s = {} THEN 0 ELSE g[PickOne(s)] + f[s \ {PickOne(s)}]]
          = [s \in upTo(0) |-> 0]
    BY <2>1
  <2>4. Partial(f, 0)
    BY <2>2, <2>3
  <2> HIDE DEF Partial
  <2> QED
    BY <2>4
<1>3. ASSUME NEW k \in Nat, k \in G
      PROVE  k + 1 \in G
  <2>1. PICK f : Partial(f, k)
    BY <1>3
  <2>2. PICK h : h = [s \in upTo(k + 1) |-> IF s = {} THEN 0
                                          ELSE g[PickOne(s)] + f[s \ {PickOne(s)}]]
    OBVIOUS
  <2>3. ASSUME NEW s \in upTo(k + 1), s # {}
        PROVE  h[s \ {PickOne(s)}] = f[s \ {PickOne(s)}]
    <3>1. PICK x : x = PickOne(s)
      OBVIOUS
    <3>2. x \in s
      BY <2>3, <3>1, PickOneIn
    <3>3. Cardinality(s \ {x}) = Cardinality(s) - 1
      BY <1>1, <3>2, FS_RemoveElement
    <3>4. PICK r : r = s \ {x}
      OBVIOUS
    <3>5. r \in upTo(k) /\ r \in upTo(k + 1)
      BY <1>1, <2>3, <3>3, <3>4
    <3>6. h[r] = IF r = {} THEN 0 ELSE g[PickOne(r)] + f[r \ {PickOne(r)}]
      BY <2>2, <3>5
    <3>7. f[r] = IF r = {} THEN 0 ELSE g[PickOne(r)] + f[r \ {PickOne(r)}]
      BY <2>1, <3>5
    <3> QED
      BY <3>1, <3>4, <3>6, <3>7
  <2>4. [s \in upTo(k + 1) |-> IF s = {} THEN 0 ELSE g[PickOne(s)] + h[s \ {PickOne(s)}]] = h
    <3>1. \A s \in upTo(k + 1) :
            (IF s = {} THEN 0 ELSE g[PickOne(s)] + h[s \ {PickOne(s)}])
              = (IF s = {} THEN 0 ELSE g[PickOne(s)] + f[s \ {PickOne(s)}])
      BY <2>3
    <3> HIDE DEF upTo
    <3> QED
      BY <2>2, <3>1
  <2>5. Partial(h, k + 1)
    BY <2>4
  <2> HIDE DEF Partial
  <2> QED
    BY <2>5
<1>4. \A k \in Nat : k \in G
  <2> HIDE DEF G
  <2> QED
    BY <1>2, <1>3, CountUp
<1>5. Cardinality(D) \in Nat
  BY <1>1
<1>6. PICK f : Partial(f, Cardinality(D))
  BY <1>4, <1>5
<1>7. upTo(Cardinality(D)) = SUBSET D
  BY FS_Subset
<1>8. Sums(f, g, D)
  BY <1>6, <1>7 DEF Sums
<1> QED
  BY <1>8

(* And they are what g says on the elements: the sums of two functions     *)
(* that agree on a subset agree on it.                                     *)
LEMMA SumsAgree ==
  ASSUME NEW D, IsFiniteSet(D), NEW E, NEW f, NEW g, NEW f2, NEW g2,
         Sums(f, g, D), Sums(f2, g2, E), D \subseteq E,
         \A x \in D : g[x] = g2[x]
  PROVE  \A s \in SUBSET D : f[s] = f2[s]
<1> DEFINE G == {s \in SUBSET D : f[s] = f2[s]}
<1>1. /\ \A s \in SUBSET D :
           f[s] = IF s = {} THEN 0 ELSE g[PickOne(s)] + f[s \ {PickOne(s)}]
      /\ \A s \in SUBSET E :
           f2[s] = IF s = {} THEN 0 ELSE g2[PickOne(s)] + f2[s \ {PickOne(s)}]
  BY DEF Sums
<1>2. {} \in G
  <2>1. {} \in SUBSET D /\ {} \in SUBSET E
    OBVIOUS
  <2> QED
    BY <1>1, <2>1
<1>3. ASSUME NEW s \in SUBSET D, s # {}, \A x \in s : s \ {x} \in G
      PROVE  s \in G
  <2>1. PICK x : x = PickOne(s)
    OBVIOUS
  <2>2. x \in s
    BY <1>3, <2>1, PickOneIn
  <2>3. f[s \ {x}] = f2[s \ {x}]
    BY <1>3, <2>2
  <2>4. f[s] = g[x] + f[s \ {x}] /\ f2[s] = g2[x] + f2[s \ {x}]
    BY <1>1, <1>3, <2>1
  <2> QED
    BY <2>2, <2>3, <2>4
<1> HIDE DEF G
<1>4. \A s \in SUBSET D : s \in G
  BY <1>2, <1>3, GrowSet
<1> QED
  BY <1>4 DEF G

(* The sum of a set is the one its functions of sums give it.              *)
LEMMA TotalIs ==
  ASSUME NEW D, IsFiniteSet(D), NEW E, IsFiniteSet(E), NEW f, NEW g, NEW g2,
         Sums(f, g2, E), D \subseteq E, \A x \in D : g[x] = g2[x]
  PROVE  Total(g, D) = f[D]
<1>1. PICK h : h = CHOOSE f1 : Sums(f1, g, D)
  OBVIOUS
<1>2. Sums(h, g, D)
  BY <1>1, SumsExist
<1>3. h[D] = f[D]
  BY <1>2, SumsAgree
<1> QED
  BY <1>1, <1>3 DEF Total

(* A sum only depends on the values added.                                 *)
LEMMA TotalOfSame ==
  ASSUME NEW D, IsFiniteSet(D), NEW g, NEW h, \A x \in D : g[x] = h[x]
  PROVE  Total(g, D) = Total(h, D)
<1>1. PICK f : Sums(f, h, D)
  BY SumsExist
<1>2. Total(g, D) = f[D] /\ Total(h, D) = f[D]
  BY <1>1, TotalIs
<1> QED
  BY <1>2

(* Nothing adds up to zero.                                                *)
LEMMA TotalOfNone == \A g : Total(g, {}) = 0
<1>1. SUFFICES ASSUME NEW g PROVE Total(g, {}) = 0
  OBVIOUS
<1>2. IsFiniteSet({})
  BY FS_EmptySet
<1>3. PICK f : Sums(f, g, {})
  BY <1>2, SumsExist
<1>4. f[{}] = 0
  <2>1. {} \in SUBSET {}
    OBVIOUS
  <2> QED
    BY <1>3, <2>1 DEF Sums
<1> QED
  BY <1>2, <1>3, <1>4, TotalIs

(* A sum is its first element and the sum of the others.                   *)
LEMMA TotalByPick ==
  ASSUME NEW D, IsFiniteSet(D), D # {}, NEW g
  PROVE  Total(g, D) = g[PickOne(D)] + Total(g, D \ {PickOne(D)})
<1>1. PICK f : Sums(f, g, D)
  BY SumsExist
<1>2. PICK x : x = PickOne(D)
  OBVIOUS
<1>3. PICK r : r = D \ {x}
  OBVIOUS
<1>4. IsFiniteSet(r) /\ r \subseteq D
  BY <1>3, FS_Subset
<1>5. Total(g, D) = f[D] /\ Total(g, r) = f[r]
  BY <1>1, <1>4, TotalIs
<1>6. f[D] = g[x] + f[r]
  <2>1. D \in SUBSET D
    OBVIOUS
  <2> QED
    BY <1>1, <1>2, <1>3, <2>1 DEF Sums
<1> QED
  BY <1>2, <1>3, <1>5, <1>6

(* Sums of integers are integers, and those of naturals are naturals.      *)
LEMMA TotalIn ==
  ASSUME NEW D, IsFiniteSet(D), NEW g, NEW T \in {Int, Nat}, \A x \in D : g[x] \in T
  PROVE  Total(g, D) \in T
<1> DEFINE G == {s \in SUBSET D : Total(g, s) \in T}
<1>1. {} \in G
  BY TotalOfNone
<1>2. ASSUME NEW s \in SUBSET D, s # {}, \A x \in s : s \ {x} \in G
      PROVE  s \in G
  <2>1. PICK x : x = PickOne(s)
    OBVIOUS
  <2>2. x \in s
    BY <1>2, <2>1, PickOneIn
  <2>3. Total(g, s) = g[x] + Total(g, s \ {x})
    BY <1>2, <2>1, TotalByPick, FS_Subset
  <2>4. g[x] \in T /\ Total(g, s \ {x}) \in T
    BY <1>2, <2>2
  <2> QED
    BY <2>3, <2>4
<1> HIDE DEF G
<1>3. \A s \in SUBSET D : s \in G
  BY <1>1, <1>2, GrowSet
<1> QED
  BY <1>3 DEF G

(* Whichever element is taken first, the sum is the same.                  *)
LEMMA TotalByAny ==
  ASSUME NEW D, IsFiniteSet(D), NEW g, \A x \in D : g[x] \in Int, NEW y \in D
  PROVE  Total(g, D) = g[y] + Total(g, D \ {y})
<1> DEFINE G == {s \in SUBSET D : \A z \in s : Total(g, s) = g[z] + Total(g, s \ {z})}
<1>1. \A s \in SUBSET D : IsFiniteSet(s)
  BY FS_Subset
<1>2. {} \in G
  OBVIOUS
<1>3. ASSUME NEW s \in SUBSET D, s # {}, \A x \in s : s \ {x} \in G
      PROVE  s \in G
  <2>1. SUFFICES ASSUME NEW z \in s
                 PROVE  Total(g, s) = g[z] + Total(g, s \ {z})
    OBVIOUS
  <2>2. PICK x : x = PickOne(s)
    OBVIOUS
  <2>3. x \in s
    BY <2>2, PickOneIn
  <2>4. Total(g, s) = g[x] + Total(g, s \ {x})
    BY <1>1, <2>2, TotalByPick
  <2>5. CASE z = x
    BY <2>4, <2>5
  <2>6. CASE z # x
    <3>1. PICK a, b, c : a = s \ {x} /\ b = s \ {z} /\ c = s \ {x, z}
      OBVIOUS
    <3>2. /\ a \in G /\ b \in G /\ c \in SUBSET D
          /\ z \in a /\ x \in b
          /\ a \ {z} = c /\ b \ {x} = c
      <4>1. a \in G /\ b \in G
        BY <1>3, <2>3, <3>1
      <4> QED
        BY <2>3, <2>6, <3>1, <4>1
    <3>3. Total(g, a) = g[z] + Total(g, c) /\ Total(g, b) = g[x] + Total(g, c)
      BY <3>2
    <3>4. Total(g, c) \in Int /\ g[x] \in Int /\ g[z] \in Int
      BY <1>1, <2>3, <3>2, TotalIn
    <3> QED
      BY <2>4, <3>1, <3>3, <3>4
  <2> QED
    BY <2>5, <2>6
<1> HIDE DEF G
<1>4. \A s \in SUBSET D : s \in G
  BY <1>2, <1>3, GrowSet
<1> QED
  BY <1>4 DEF G

(* The sum of two disjoint sets is the sum of their sums.                  *)
LEMMA TotalOfUnion ==
  ASSUME NEW S, NEW T, IsFiniteSet(S), IsFiniteSet(T), S \cap T = {},
         NEW g, \A x \in S \cup T : g[x] \in Int
  PROVE  Total(g, S \cup T) = Total(g, S) + Total(g, T)
<1> DEFINE G == {t \in SUBSET T : Total(g, S \cup t) = Total(g, S) + Total(g, t)}
<1>1. \A t \in SUBSET T : IsFiniteSet(t) /\ IsFiniteSet(S \cup t)
  BY FS_Subset, FS_Union
<1>2. \A t \in SUBSET T : Total(g, t) \in Int /\ Total(g, S) \in Int
  BY <1>1, TotalIn
<1>3. {} \in G
  <2>1. S \cup {} = S /\ {} \in SUBSET T
    OBVIOUS
  <2> QED
    BY <1>2, <2>1, TotalOfNone
<1>4. ASSUME NEW t \in SUBSET T, t # {}, \A x \in t : t \ {x} \in G
      PROVE  t \in G
  <2>0. PICK x \in t : TRUE
    BY <1>4
  <2>1. PICK r, u : r = t \ {x} /\ u = S \cup t
    OBVIOUS
  <2>2. u \ {x} = S \cup r /\ x \in u /\ IsFiniteSet(u) /\ IsFiniteSet(t)
    BY <1>1, <2>1
  <2>3. Total(g, u) = g[x] + Total(g, S \cup r)
    <3>1. \A y \in u : g[y] \in Int
      BY <2>1
    <3> QED
      BY <2>2, <3>1, TotalByAny
  <2>4. Total(g, t) = g[x] + Total(g, r)
    <3>1. \A y \in t : g[y] \in Int
      OBVIOUS
    <3> QED
      BY <2>1, <2>2, <3>1, TotalByAny
  <2>5. Total(g, S \cup r) = Total(g, S) + Total(g, r)
    BY <1>4, <2>1
  <2>6. g[x] \in Int /\ Total(g, S) \in Int /\ Total(g, r) \in Int
    BY <1>2, <2>1
  <2>7. Total(g, u) = Total(g, S) + Total(g, t)
    BY <2>3, <2>4, <2>5, <2>6
  <2> QED
    BY <2>1, <2>7
<1> HIDE DEF G
<1>5. \A t \in SUBSET T : t \in G
  BY <1>3, <1>4, GrowSet
<1> QED
  BY <1>5 DEF G

-----------------------------------------------------------------------------
(* The sums of the journal.                                                *)

(* The net total of entries is the sum of their amounts.                   *)
LEMMA NetIs ==
  ASSUME NEW entries, NEW S, IsFiniteSet(S)
  PROVE  NetOf(entries, S) = Total([n \in S |-> Amount(entries[n])], S)
<1> DEFINE g == [n \in S |-> Amount(entries[n])]
           Fold(f) == f = [s \in SUBSET S |->
                             IF s = {} THEN 0
                             ELSE Amount(entries[CHOOSE x \in s : TRUE])
                                    + f[s \ {CHOOSE x \in s : TRUE}]]
<1>1. \A s \in SUBSET S : s # {} => g[PickOne(s)] = Amount(entries[CHOOSE x \in s : TRUE])
  <2>1. SUFFICES ASSUME NEW s \in SUBSET S, s # {}
                 PROVE  g[PickOne(s)] = Amount(entries[CHOOSE x \in s : TRUE])
    OBVIOUS
  <2>2. PickOne(s) \in S
    BY <2>1, PickOneIn
  <2> QED
    BY <2>2 DEF PickOne
<1>2. \A f : Sums(f, g, S) <=> Fold(f)
  <2>1. SUFFICES ASSUME NEW f PROVE Sums(f, g, S) <=> Fold(f)
    OBVIOUS
  <2>2. [s \in SUBSET S |-> IF s = {} THEN 0 ELSE g[PickOne(s)] + f[s \ {PickOne(s)}]]
          = [s \in SUBSET S |-> IF s = {} THEN 0
                                ELSE Amount(entries[CHOOSE x \in s : TRUE])
                                       + f[s \ {CHOOSE x \in s : TRUE}]]
    BY <1>1 DEF PickOne
  <2> HIDE DEF g
  <2> QED
    BY <2>2 DEF Sums
<1> HIDE DEF g, Fold
<1>3. \E f : Fold(f)
  <2>1. PICK h : Sums(h, g, S)
    BY SumsExist
  <2>2. Fold(h)
    BY <1>2, <2>1
  <2> QED
    BY <2>2
<1> DEFINE fn == CHOOSE f : Fold(f)
<1>4. Fold(fn)
  BY <1>3
<1>5. NetOf(entries, S) = fn[S]
  BY DEF NetOf, MapThenSumSet, MapThenFoldSet, Fold
<1>6. PICK f : f = fn
  OBVIOUS
<1>7. Sums(f, g, S)
  BY <1>2, <1>4, <1>6
<1>8. Total(g, S) = f[S]
  BY <1>7, TotalIs
<1> QED
  BY <1>5, <1>6, <1>8 DEF g

(* The same for the total of some quantities of lines.                     *)
LEMMA LineTotalIs ==
  ASSUME NEW q
  PROVE  LineTotal(q) = Total([l \in Lines |-> UnitPrice[l] * q[l]], Lines)
<1> DEFINE g == [l \in Lines |-> UnitPrice[l] * q[l]]
           Fold(f) == f = [s \in SUBSET Lines |->
                             IF s = {} THEN 0
                             ELSE UnitPrice[CHOOSE x \in s : TRUE] * q[CHOOSE x \in s : TRUE]
                                    + f[s \ {CHOOSE x \in s : TRUE}]]
<1>0. IsFiniteSet(Lines)
  BY LinesAssumption
<1>1. \A s \in SUBSET Lines : s # {} =>
        g[PickOne(s)] = UnitPrice[CHOOSE x \in s : TRUE] * q[CHOOSE x \in s : TRUE]
  <2>1. SUFFICES ASSUME NEW s \in SUBSET Lines, s # {}
                 PROVE  g[PickOne(s)] = UnitPrice[CHOOSE x \in s : TRUE] * q[CHOOSE x \in s : TRUE]
    OBVIOUS
  <2>2. PickOne(s) \in Lines
    BY <2>1, PickOneIn
  <2> QED
    BY <2>2 DEF PickOne
<1>2. \A f : Sums(f, g, Lines) <=> Fold(f)
  <2>1. SUFFICES ASSUME NEW f PROVE Sums(f, g, Lines) <=> Fold(f)
    OBVIOUS
  <2>2. [s \in SUBSET Lines |-> IF s = {} THEN 0 ELSE g[PickOne(s)] + f[s \ {PickOne(s)}]]
          = [s \in SUBSET Lines |->
               IF s = {} THEN 0
               ELSE UnitPrice[CHOOSE x \in s : TRUE] * q[CHOOSE x \in s : TRUE]
                      + f[s \ {CHOOSE x \in s : TRUE}]]
    BY <1>1 DEF PickOne
  <2> HIDE DEF g
  <2> QED
    BY <2>2 DEF Sums
<1> HIDE DEF g, Fold
<1>3. \E f : Fold(f)
  <2>1. PICK h : Sums(h, g, Lines)
    BY <1>0, SumsExist
  <2>2. Fold(h)
    BY <1>2, <2>1
  <2> QED
    BY <2>2
<1> DEFINE fn == CHOOSE f : Fold(f)
<1>4. Fold(fn)
  BY <1>3
<1>5. LineTotal(q) = fn[Lines]
  BY DEF LineTotal, MapThenSumSet, MapThenFoldSet, Fold
<1>6. PICK f : f = fn
  OBVIOUS
<1>7. Sums(f, g, Lines)
  BY <1>2, <1>4, <1>6
<1>8. Total(g, Lines) = f[Lines]
  BY <1>0, <1>7, TotalIs
<1> QED
  BY <1>5, <1>6, <1>8 DEF g

(* Nothing adds up to zero.                                                *)
LEMMA NetOfNone == \A entries : NetOf(entries, {}) = 0
<1>1. SUFFICES ASSUME NEW entries PROVE NetOf(entries, {}) = 0
  OBVIOUS
<1>2. IsFiniteSet({})
  BY FS_EmptySet
<1>3. PICK g : g = [n \in {} |-> Amount(entries[n])]
  OBVIOUS
<1>4. NetOf(entries, {}) = Total(g, {})
  BY <1>2, <1>3, NetIs
<1> QED
  BY <1>4, TotalOfNone

(* The net total only depends on the entries it adds.                      *)
LEMMA NetOfSame ==
  ASSUME NEW S, IsFiniteSet(S), NEW s, NEW t, \A n \in S : s[n] = t[n]
  PROVE  NetOf(s, S) = NetOf(t, S)
<1>1. PICK g, h : g = [n \in S |-> Amount(s[n])] /\ h = [n \in S |-> Amount(t[n])]
  OBVIOUS
<1>2. NetOf(s, S) = Total(g, S) /\ NetOf(t, S) = Total(h, S)
  BY <1>1, NetIs
<1>3. g = h
  BY <1>1
<1> QED
  BY <1>2, <1>3

(* The net total of disjoint sets of entries is the sum of theirs.         *)
LEMMA NetOfUnion ==
  ASSUME NEW s, NEW S, NEW T, IsFiniteSet(S), IsFiniteSet(T), S \cap T = {},
         \A n \in S \cup T : Amount(s[n]) \in Int
  PROVE  /\ NetOf(s, S) \in Int
         /\ NetOf(s, T) \in Int
         /\ NetOf(s, S \cup T) = NetOf(s, S) + NetOf(s, T)
<1>1. PICK g, gs, gt : /\ g = [n \in S \cup T |-> Amount(s[n])]
                       /\ gs = [n \in S |-> Amount(s[n])]
                       /\ gt = [n \in T |-> Amount(s[n])]
  OBVIOUS
<1>2. IsFiniteSet(S \cup T)
  BY FS_Union
<1>3. /\ NetOf(s, S \cup T) = Total(g, S \cup T)
      /\ NetOf(s, S) = Total(gs, S)
      /\ NetOf(s, T) = Total(gt, T)
  BY <1>1, <1>2, NetIs
<1>4. /\ \A n \in S : gs[n] = g[n]
      /\ \A n \in T : gt[n] = g[n]
      /\ \A n \in S \cup T : g[n] \in Int
  BY <1>1
<1>5. Total(gs, S) = Total(g, S) /\ Total(gt, T) = Total(g, T)
  BY <1>4, TotalOfSame
<1>6. Total(g, S) \in Int /\ Total(g, T) \in Int
  BY <1>4, TotalIn
<1>7. Total(g, S \cup T) = Total(g, S) + Total(g, T)
  BY <1>4, TotalOfUnion
<1> QED
  BY <1>3, <1>5, <1>6, <1>7

(* Prices add up to a natural number.                                      *)
LEMMA LineTotalOK ==
  ASSUME NEW q \in [Lines -> Nat]
  PROVE  LineTotal(q) \in Nat
<1>1. PICK g : g = [l \in Lines |-> UnitPrice[l] * q[l]]
  OBVIOUS
<1>2. ASSUME NEW l \in Lines
      PROVE  g[l] \in Nat
  <2>1. PICK a \in Nat, b \in Nat : a = UnitPrice[l] /\ b = q[l]
    BY LinesAssumption
  <2>2. a * b \in Nat
    OBVIOUS
  <2> QED
    BY <1>1, <2>1, <2>2
<1>3. Total(g, Lines) \in Nat
  BY <1>2, TotalIn, LinesAssumption
<1> QED
  BY <1>1, <1>3, LineTotalIs

(* The total of a sale is one of a line total's.                           *)
LEMMA SaleTotalOK ==
  ASSUME NEW sale \in Sales
  PROVE  SaleTotal(sale) \in Nat
<1>1. Sold[sale] \in [Lines -> Nat]
  BY LinesAssumption
<1> QED
  BY <1>1, LineTotalOK DEF SaleTotal

-----------------------------------------------------------------------------
(* What journals an entry, and which                                       *)

(* A transaction that journals e and calls for nothing more.               *)
Appends(e) ==
  /\ ledger' = Append(ledger, e)
  /\ UNCHANGED <<requests, clock, confirmedAt>>

(* finalizeCheckoutIntent journals the sale, at its confirmation.          *)
LEMMA FinalizeAppends ==
  ASSUME IInv, NEW i \in Sales, FinalizeCheckoutIntent(i)
  PROVE  /\ \E e : /\ Appends(e)
                   /\ e.kind = "sale"
                   /\ e.recordedAt = confirmedAt[i]
                   /\ e.body.sale = i
         /\ status[i] = "payment_confirmed"
         /\ status' = [status EXCEPT ![i] = "finalized"]
         /\ metadata'.lastClosureEnd = metadata.lastClosureEnd
<1>1. PICK e : /\ e = NewEntry(metadata, "sale", i, confirmedAt[i], SaleBody(i, metadata))
               /\ ledger' = Append(ledger, e)
               /\ metadata' = AppendSaleMetadata(metadata, e)
               /\ UNCHANGED <<requests, clock, confirmedAt>>
  BY DEF FinalizeCheckoutIntent, callVars
<1>2. e.kind = "sale" /\ e.recordedAt = confirmedAt[i] /\ e.body.sale = i
  BY <1>1 DEF NewEntry, SaleBody
<1>3. metadata'.lastClosureEnd = metadata.lastClosureEnd
  BY <1>1 DEF AppendSaleMetadata, AppendEntryMetadata, IInv, TypeOK, Metadata
<1> QED
  BY <1>1, <1>2, <1>3 DEF Appends, FinalizeCheckoutIntent, CanFinalize

(* What the three transactions that close no period have in common.        *)
LEMMA PlainAppends ==
  ASSUME IInv, NEW kind, NEW key, NEW at, NEW body, NEW e,
         e = NewEntry(metadata, kind, key, at, body),
         Journal(e, AppendEntryMetadata(metadata, e))
  PROVE  /\ Appends(e)
         /\ e.kind = kind
         /\ e.recordedAt = at
         /\ e.body = body
         /\ status' = status
         /\ metadata'.lastClosureEnd = metadata.lastClosureEnd
<1>1. e.kind = kind /\ e.recordedAt = at /\ e.body = body
  BY DEF NewEntry
<1>2. metadata'.lastClosureEnd = metadata.lastClosureEnd
  BY DEF Journal, AppendEntryMetadata, IInv, TypeOK, Metadata
<1> QED
  BY <1>1, <1>2 DEF Appends, Journal, intentVars, callVars

(* openCashSession journals the request it is called with.                 *)
LEMMA OpenAppends ==
  ASSUME IInv, NEW r \in requests, OpenCashSession(r)
  PROVE  /\ \E e : /\ Appends(e)
                   /\ e.kind = "cash_session_opened"
                   /\ e.recordedAt = r.at
                   /\ e.body = r.body
         /\ r.kind = "cash_session_opened"
         /\ status' = status
         /\ metadata'.lastClosureEnd = metadata.lastClosureEnd
<1>1. PICK e : /\ e = NewEntry(metadata, "cash_session_opened", r.op, r.at, r.body)
               /\ Journal(e, AppendEntryMetadata(metadata, e))
  BY DEF OpenCashSession
<1> QED
  BY <1>1, PlainAppends DEF OpenCashSession

(* updateCashFloat journals a change of the float.                         *)
LEMMA UpdateFloatAppends ==
  ASSUME IInv, NEW r \in requests, UpdateCashFloat(r)
  PROVE  /\ \E e : Appends(e) /\ e.kind = "cash_float_updated" /\ e.body = r.body
         /\ r.kind = "cash_float_updated"
         /\ status' = status
         /\ metadata'.lastClosureEnd = metadata.lastClosureEnd
<1>1. PICK e : /\ e = NewEntry(metadata, "cash_float_updated", r.op, r.at, r.body)
               /\ Journal(e, AppendEntryMetadata(metadata, e))
  BY DEF UpdateCashFloat
<1> QED
  BY <1>1, PlainAppends DEF UpdateCashFloat

(* recordCorrection journals the correction of the request it answers.     *)
LEMMA CorrectionAppends ==
  ASSUME IInv, NEW r \in requests, RecordCorrection(r)
  PROVE  /\ \E e, o : /\ Appends(e)
                      /\ o \in orders
                      /\ o.id = r.body.sale
                      /\ e.kind = "correction"
                      /\ e.recordedAt = r.at
                      /\ e.body = [sale             |-> o.id,
                                   type             |-> r.body.type,
                                   delta            |-> r.body.delta,
                                   quantities       |-> r.body.quantities,
                                   vat              |-> r.body.vat,
                                   originalSaleHash |-> o.hash]
         /\ r.kind = "correction"
         /\ ValidateCorrection(ledger, r.body)
         /\ status' = status
         /\ metadata'.lastClosureEnd = metadata.lastClosureEnd
<1>1. PICK o, body, e :
        /\ o \in orders
        /\ o.id = r.body.sale
        /\ body = [sale             |-> o.id,
                   type             |-> r.body.type,
                   delta            |-> r.body.delta,
                   quantities       |-> r.body.quantities,
                   vat              |-> r.body.vat,
                   originalSaleHash |-> o.hash]
        /\ e = NewEntry(metadata, "correction", r.op, r.at, body)
        /\ Journal(e, AppendEntryMetadata(metadata, e))
        /\ r.kind = "correction"
        /\ ValidateCorrection(ledger, r.body)
  BY DEF RecordCorrection
<1>2. /\ Appends(e)
      /\ e.kind = "correction"
      /\ e.recordedAt = r.at
      /\ e.body = body
      /\ status' = status
      /\ metadata'.lastClosureEnd = metadata.lastClosureEnd
  BY <1>1, PlainAppends
<1> QED
  BY <1>1, <1>2

(* closePeriod journals a closure of the active session.                   *)
LEMMA CloseAppends ==
  ASSUME IInv, NEW r \in requests, ClosePeriod(r)
  PROVE  /\ \E e : /\ Appends(e)
                   /\ e.kind = "closure"
                   /\ e.recordedAt = r.at
                   /\ e.body.session = r.body.session
                   /\ e.body.periodStart = r.body.periodStart
                   /\ e.body.periodEnd = r.body.periodEnd
                   /\ e.body.totals = CalculateClosureTotals(ledger, r.body.periodStart,
                                                             r.body.periodEnd)
         /\ r.kind = "closure"
         /\ status' = status
         /\ metadata'.lastClosureEnd = r.body.periodEnd
<1>1. PICK totals, body, e :
        /\ totals = CalculateClosureTotals(ledger, r.body.periodStart, r.body.periodEnd)
        /\ body = [session         |-> r.body.session,
                   periodStart     |-> r.body.periodStart,
                   periodEnd       |-> r.body.periodEnd,
                   float           |-> r.body.float,
                   totals          |-> totals,
                   theoreticalCash |-> TheoreticalCash(r.body.float, totals)]
        /\ e = NewEntry(metadata, "closure", r.op, r.at, body)
        /\ Journal(e, [AppendEntryMetadata(metadata, e)
                         EXCEPT !.lastClosureEnd = r.body.periodEnd])
  BY DEF ClosePeriod
<1>2. e.kind = "closure" /\ e.recordedAt = r.at /\ e.body = body
  BY <1>1 DEF NewEntry
<1>3. metadata' = [AppendEntryMetadata(metadata, e) EXCEPT !.lastClosureEnd = r.body.periodEnd]
  BY <1>1 DEF Journal
<1>4. metadata'.lastClosureEnd = r.body.periodEnd
  BY <1>3 DEF AppendEntryMetadata, IInv, TypeOK, Metadata
<1>5. Appends(e) /\ status' = status
  BY <1>1 DEF Appends, Journal, intentVars, callVars
<1>6. /\ e.body.session = r.body.session
      /\ e.body.periodStart = r.body.periodStart
      /\ e.body.periodEnd = r.body.periodEnd
      /\ e.body.totals = totals
  BY <1>1, <1>2
<1> QED
  BY <1>1, <1>2, <1>4, <1>5, <1>6 DEF ClosePeriod

-----------------------------------------------------------------------------
(* The periods, when the device clock never goes back.                     *)

(* What a correction is made of.                                           *)
CorrectionTyped(body) == body.delta \in Int /\ body.quantities \in [Lines -> Nat]

(* Amounts are integers, of recorded corrections and of those on their way. *)
AmountsInv ==
  /\ \A n \in OfKind(ledger, "correction") : CorrectionTyped(ledger[n].body)
  /\ \A r \in requests : r.kind = "correction" => CorrectionTyped(r.body)

(* The instant of a confirmation is unknown before it.                     *)
UnconfirmedInv ==
  \A i \in Sales :
    status[i] \notin {"payment_confirmed", "finalized"} => confirmedAt[i] = NoTime

(* Until a period is closed, nothing counts before the start of the first  *)
(* session.                                                                *)
FirstPeriodInv ==
  OfKind(ledger, "closure") = {} =>
    /\ \A p \in OfKind(ledger, "cash_session_opened") :
         /\ ledger[p].body.periodStart <= clock
         /\ \A n \in Financial(ledger) :
              ledger[p].body.periodStart <= ledger[n].recordedAt
         /\ \A i \in Sales :
              status[i] = "payment_confirmed" => ledger[p].body.periodStart <= confirmedAt[i]
         /\ \A r \in requests :
              r.kind = "correction" => ledger[p].body.periodStart <= r.at
    /\ OfKind(ledger, "cash_session_opened") = {} =>
         /\ \A i \in Sales : status[i] \in {"absent", "finalized"}
         /\ \A r \in requests : r.kind # "correction"
         /\ \A r \in requests : r.kind = "cash_session_opened" =>
              /\ r.body.periodStart <= r.at
              /\ r.at <= clock
              /\ \A n \in Financial(ledger) : r.body.periodStart <= ledger[n].recordedAt

(* The active session starts where the last closure ended.                 *)
FollowsInv ==
  ActiveNow(ledger) # 0 =>
    metadata.lastClosureEnd \in {NoTime, ledger[ActiveNow(ledger)].body.periodStart}

(* The cumulative totals are those of the tiles.  A clock set back can     *)
(* leave a sale before the first of them, and before no other.             *)
TilesInv ==
  \A c \in OfKind(ledger, "closure") :
    ClosuresBefore(c) # {} \/ ~ClockMayGoBack =>
      ledger[c].body.totals.cumulativeNet =
        ledger[c].body.totals.netTotal +
          (IF ClosuresBefore(c) = {} THEN 0
           ELSE ledger[Max(ClosuresBefore(c))].body.totals.cumulativeNet)

(* What a refund, a cancellation or an adjustment is asked for with.       *)
LEMMA SelectionsTyped ==
  ASSUME NEW sale \in Sales, NEW q \in Selections(sale)
  PROVE  q \in [Lines -> Nat]
<1>1. q \in [Lines -> UNION {0..Sold[sale][l] : l \in Lines}]
  BY DEF Selections
<1>2. ASSUME NEW l \in Lines
      PROVE  q[l] \in Nat
  <2>1. PICK m \in Lines : q[l] \in 0..Sold[sale][m]
    BY <1>1
  <2> QED
    BY <2>1
<1> QED
  BY <1>1, <1>2

(* Every transaction keeps amounts integers.                               *)
LEMMA AmountsStep ==
  ASSUME IInv, AmountsInv, [Next]_vars
  PROVE  AmountsInv'
<1>1. IsJournal(ledger)
  BY LedgerIsJournal DEF IInv
<1>2. CASE ledger' = ledger /\ requests' \subseteq requests
  BY <1>2 DEF AmountsInv
<1>3. ASSUME NEW e, Appends(e), e.kind = "correction" => CorrectionTyped(e.body)
      PROVE  AmountsInv'
  <2>1. /\ OfKind(ledger', "correction") =
             OfKind(ledger, "correction")
               \cup (IF e.kind = "correction" THEN {Len(ledger) + 1} ELSE {})
        /\ \A n \in 1..Len(ledger) : ledger'[n] = ledger[n]
        /\ ledger'[Len(ledger) + 1] = e
        /\ requests' = requests
    BY <1>1, <1>3, OfKindAppend, AppendJournal DEF Appends
  <2>2. OfKind(ledger, "correction") \subseteq 1..Len(ledger)
    BY <1>1, JournalDomain DEF OfKind
  <2>3. \A n \in OfKind(ledger', "correction") : CorrectionTyped(ledger'[n].body)
    BY <1>3, <2>1, <2>2 DEF AmountsInv
  <2> QED
    BY <2>1, <2>3 DEF AmountsInv
<1>4. ASSUME NEW op, NEW kind, NEW body, Post(op, kind, body),
             kind = "correction" => CorrectionTyped(body)
      PROVE  AmountsInv'
  <2>1. PICK r : /\ r = [op |-> op, kind |-> kind, at |-> clock, body |-> body]
                 /\ requests' = requests \cup {r}
    BY <1>4 DEF Post
  <2>2. r.kind = kind /\ r.body = body
    BY <2>1
  <2>3. ledger' = ledger
    BY <1>4 DEF Post, storeVars
  <2> QED
    BY <1>4, <2>1, <2>2, <2>3 DEF AmountsInv
<1>5. ASSUME NEW op, NEW sale \in Sales, NEW type, NEW delta \in Int,
             NEW q \in [Lines -> Nat], RequestCorrection(op, sale, type, delta, q)
      PROVE  AmountsInv'
  <2>1. PICK body : /\ body = [sale       |-> sale,
                               type       |-> type,
                               delta      |-> delta,
                               quantities |-> q,
                               vat        |-> RefundVat(ledger, sale, q)]
                    /\ Post(op, "correction", body)
    BY <1>5 DEF RequestCorrection
  <2>2. CorrectionTyped(body)
    BY <2>1 DEF CorrectionTyped
  <2> QED
    BY <1>4, <2>1, <2>2
<1>6. CASE Service
  <2>1. PICK op \in Ops :
          \/ \E float \in Floats : RequestOpenSession(op, float)
          \/ \E float \in Floats : RequestUpdateFloat(op, float)
          \/ \E sale \in Sales : RequestCancelSale(op, sale)
          \/ \E sale \in Sales : \E quantities \in Selections(sale) :
               RequestRefundSale(op, sale, quantities)
          \/ \E sale \in Sales, delta \in Adjustments : RequestAdjustSale(op, sale, delta)
          \/ \E periodEnd \in Times : RequestClosePeriod(op, periodEnd)
    BY <1>6 DEF Service
  <2>2. CASE \/ \E float \in Floats : RequestOpenSession(op, float)
             \/ \E float \in Floats : RequestUpdateFloat(op, float)
             \/ \E periodEnd \in Times : RequestClosePeriod(op, periodEnd)
    BY <1>4, <2>2 DEF RequestOpenSession, RequestUpdateFloat, RequestClosePeriod,
                      CloseActiveSession
  <2>3. NoQuantities \in [Lines -> Nat]
    BY DEF NoQuantities
  <2>4. ASSUME NEW sale \in Sales, RequestCancelSale(op, sale)
        PROVE  AmountsInv'
    <3>1. -SaleTotal(sale) \in Int
      BY SaleTotalOK
    <3> QED
      BY <1>5, <2>3, <2>4, <3>1 DEF RequestCancelSale
  <2>5. ASSUME NEW sale \in Sales, NEW q \in Selections(sale), RequestRefundSale(op, sale, q)
        PROVE  AmountsInv'
    <3>1. q \in [Lines -> Nat]
      BY SelectionsTyped
    <3>2. -LineTotal(q) \in Int
      BY <3>1, LineTotalOK
    <3> QED
      BY <1>5, <2>5, <3>1, <3>2 DEF RequestRefundSale
  <2>6. ASSUME NEW sale \in Sales, NEW delta \in Adjustments, RequestAdjustSale(op, sale, delta)
        PROVE  AmountsInv'
    <3>1. delta \in Int
      BY ParametersAssumption
    <3> QED
      BY <1>5, <2>3, <2>6, <3>1 DEF RequestAdjustSale
  <2> QED
    BY <2>1, <2>2, <2>4, <2>5, <2>6
<1>7. CASE Checkout
  <2>1. ASSUME NEW i \in Sales,
               \/ CreateCheckoutIntent(i)
               \/ MarkCheckoutPaymentToVerify(i)
               \/ ConfirmCheckoutPayment(i)
               \/ AbandonCheckoutIntent(i)
        PROVE  ledger' = ledger /\ requests' \subseteq requests
    BY <2>1 DEF CreateCheckoutIntent, MarkCheckoutPaymentToVerify, ConfirmCheckoutPayment,
                AbandonCheckoutIntent, storeVars, callVars
  <2>2. ASSUME NEW i \in Sales, FinalizeCheckoutIntent(i)
        PROVE  AmountsInv'
    BY <1>3, <2>2, FinalizeAppends
  <2> QED
    BY <1>2, <1>7, <2>1, <2>2 DEF Checkout
<1>8. CASE Repository
  <2>1. ASSUME NEW r \in requests, OpenCashSession(r) \/ UpdateCashFloat(r) \/ ClosePeriod(r)
        PROVE  AmountsInv'
    BY <1>3, <2>1, OpenAppends, UpdateFloatAppends, CloseAppends
  <2>2. ASSUME NEW r \in requests, RecordCorrection(r)
        PROVE  AmountsInv'
    <3>1. PICK e, o : /\ Appends(e)
                      /\ e.body = [sale             |-> o.id,
                                   type             |-> r.body.type,
                                   delta            |-> r.body.delta,
                                   quantities       |-> r.body.quantities,
                                   vat              |-> r.body.vat,
                                   originalSaleHash |-> o.hash]
      BY <2>2, CorrectionAppends
    <3>2. e.body.delta = r.body.delta /\ e.body.quantities = r.body.quantities
      BY <3>1
    <3>3. CorrectionTyped(r.body)
      BY <2>2, CorrectionAppends DEF AmountsInv
    <3> QED
      BY <1>3, <3>1, <3>2, <3>3 DEF CorrectionTyped
  <2>3. ASSUME NEW r \in requests, Settle(r)
        PROVE  AmountsInv'
    BY <1>2, <2>3 DEF Settle, storeVars
  <2> QED
    BY <1>8, <2>1, <2>2, <2>3 DEF Repository
<1>9. CASE Tick \/ SetClockBack \/ UNCHANGED vars
  BY <1>2, <1>9 DEF Tick, SetClockBack, vars, storeVars, callVars
<1> QED
  BY <1>6, <1>7, <1>8, <1>9 DEF Next

(* A confirmation is dated in the step that makes it.                      *)
LEMMA UnconfirmedStep ==
  ASSUME IInv, UnconfirmedInv, [Next]_vars
  PROVE  UnconfirmedInv'
<1>1. status \in [Sales -> Statuses] /\ confirmedAt \in [Sales -> Times \cup {NoTime}]
  BY DEF IInv, TypeOK
<1>2. CASE UNCHANGED intentVars
  BY <1>2 DEF UnconfirmedInv, intentVars
<1>3. ASSUME NEW i \in Sales,
             \/ CreateCheckoutIntent(i)
             \/ MarkCheckoutPaymentToVerify(i)
             \/ AbandonCheckoutIntent(i)
      PROVE  UnconfirmedInv'
  BY <1>1, <1>3 DEF UnconfirmedInv, CreateCheckoutIntent, MarkCheckoutPaymentToVerify,
                    AbandonCheckoutIntent
<1>4. ASSUME NEW i \in Sales, ConfirmCheckoutPayment(i) \/ FinalizeCheckoutIntent(i)
      PROVE  UnconfirmedInv'
  BY <1>1, <1>4 DEF UnconfirmedInv, ConfirmCheckoutPayment, FinalizeCheckoutIntent
<1> QED
  BY <1>2, <1>3, <1>4
     DEF Next, Checkout, Service, Repository, vars, intentVars, Tick, SetClockBack,
         RequestOpenSession, RequestUpdateFloat, RequestCancelSale, RequestRefundSale,
         RequestAdjustSale, RequestCorrection, RequestClosePeriod, CloseActiveSession, Post,
         Settle, OpenCashSession, UpdateCashFloat, RecordCorrection, ClosePeriod, Journal

(* A session is opened at the last closure's end, and none outlives one.   *)
LEMMA FollowsStep ==
  ASSUME IInv, AuditInv, FollowsInv, [Next]_vars
  PROVE  FollowsInv'
<1>1. IsJournal(ledger) /\ Len(ledger) \in Nat /\ DOMAIN ledger = 1..Len(ledger)
  BY LedgerIsJournal DEF IInv
<1>2. CASE ledger' = ledger /\ metadata' = metadata
  <2>1. ActiveNow(ledger)' = ActiveNow(ledger)
    BY <1>2
  <2> QED
    BY <1>2, <2>1 DEF FollowsInv
<1>3. ASSUME NEW e, Appends(e), e.kind \notin {"cash_session_opened", "closure"},
             metadata'.lastClosureEnd = metadata.lastClosureEnd
      PROVE  FollowsInv'
  <2>1. ActiveNow(ledger') = ActiveNow(ledger)
    BY <1>1, <1>3, ActiveNowAppend DEF Appends
  <2>2. ActiveNow(ledger) # 0 => ActiveNow(ledger) \in 1..Len(ledger)
    <3>1. Len(ledger) + 1 \in 1..(Len(ledger) + 1)
      BY <1>1
    <3> QED
      BY <1>1, <3>1, ActiveIsOpening DEF ActiveNow, OfKind
  <2>3. ActiveNow(ledger) # 0 => ledger'[ActiveNow(ledger)] = ledger[ActiveNow(ledger)]
    BY <1>1, <1>3, <2>2, AppendJournal DEF Appends
  <2> QED
    BY <1>3, <2>1, <2>3 DEF FollowsInv
<1>4. ASSUME NEW r \in requests, OpenCashSession(r)
      PROVE  FollowsInv'
  <2>1. PICK e : Appends(e) /\ e.kind = "cash_session_opened" /\ e.body = r.body
    BY <1>4, OpenAppends
  <2>2. metadata'.lastClosureEnd = metadata.lastClosureEnd
    BY <1>4, OpenAppends
  <2>3. ActiveNow(ledger') = Len(ledger) + 1 /\ ledger'[Len(ledger) + 1] = e
    BY <1>1, <2>1, ActiveNowAppend, AppendJournal DEF Appends
  <2>4. FollowsLastClosure(r.body.periodStart)
    BY <1>4 DEF OpenCashSession
  <2> QED
    BY <2>1, <2>2, <2>3, <2>4 DEF FollowsInv, FollowsLastClosure
<1>5. ASSUME NEW r \in requests, ClosePeriod(r)
      PROVE  FollowsInv'
  <2>1. PICK e : Appends(e) /\ e.kind = "closure"
    BY <1>5, CloseAppends
  <2>2. ActiveNow(ledger') = 0
    BY <1>1, <2>1, ActiveNowAppend DEF Appends
  <2> QED
    BY <2>2 DEF FollowsInv
<1>6. CASE Service
  BY <1>2, <1>6 DEF Service, RequestOpenSession, RequestUpdateFloat, RequestCancelSale,
                    RequestRefundSale, RequestAdjustSale, RequestCorrection,
                    RequestClosePeriod, CloseActiveSession, Post, storeVars
<1>7. CASE Checkout
  <2>1. ASSUME NEW i \in Sales,
               \/ CreateCheckoutIntent(i)
               \/ MarkCheckoutPaymentToVerify(i)
               \/ ConfirmCheckoutPayment(i)
               \/ AbandonCheckoutIntent(i)
        PROVE  ledger' = ledger /\ metadata' = metadata
    BY <2>1 DEF CreateCheckoutIntent, MarkCheckoutPaymentToVerify, ConfirmCheckoutPayment,
                AbandonCheckoutIntent, storeVars
  <2>2. ASSUME NEW i \in Sales, FinalizeCheckoutIntent(i)
        PROVE  FollowsInv'
    <3>1. PICK e : Appends(e) /\ e.kind = "sale"
      BY <2>2, FinalizeAppends
    <3> QED
      BY <1>3, <2>2, <3>1, FinalizeAppends
  <2> QED
    BY <1>2, <1>7, <2>1, <2>2 DEF Checkout
<1>8. CASE Repository
  <2>1. ASSUME NEW r \in requests, UpdateCashFloat(r)
        PROVE  FollowsInv'
    <3>1. PICK e : Appends(e) /\ e.kind = "cash_float_updated"
      BY <2>1, UpdateFloatAppends
    <3> QED
      BY <1>3, <2>1, <3>1, UpdateFloatAppends
  <2>2. ASSUME NEW r \in requests, RecordCorrection(r)
        PROVE  FollowsInv'
    <3>1. PICK e : Appends(e) /\ e.kind = "correction"
      BY <2>2, CorrectionAppends
    <3> QED
      BY <1>3, <2>2, <3>1, CorrectionAppends
  <2>3. ASSUME NEW r \in requests, Settle(r)
        PROVE  FollowsInv'
    BY <1>2, <2>3 DEF Settle, storeVars
  <2> QED
    BY <1>4, <1>5, <1>8, <2>1, <2>2, <2>3 DEF Repository
<1>9. CASE Tick \/ SetClockBack \/ UNCHANGED vars
  BY <1>2, <1>9 DEF Tick, SetClockBack, vars, storeVars
<1> QED
  BY <1>6, <1>7, <1>8, <1>9 DEF Next

(* Financial entries after an append.                                      *)
LEMMA FinancialAppend ==
  ASSUME NEW s, IsJournal(s), NEW e
  PROVE  Financial(Append(s, e)) =
           Financial(s) \cup (IF e.kind \in {"sale", "correction"} THEN {Len(s) + 1} ELSE {})
<1>1. \A kind : OfKind(Append(s, e), kind) =
                  OfKind(s, kind) \cup (IF e.kind = kind THEN {Len(s) + 1} ELSE {})
  BY OfKindAppend
<1> QED
  BY <1>1 DEF Financial

(* The journal an append leaves.                                           *)
LEMMA AppendsWhat ==
  ASSUME IsJournal(ledger), NEW e, Appends(e)
  PROVE  /\ \A kind : OfKind(ledger', kind) =
                       OfKind(ledger, kind)
                         \cup (IF e.kind = kind THEN {Len(ledger) + 1} ELSE {})
         /\ Financial(ledger') =
              Financial(ledger)
                \cup (IF e.kind \in {"sale", "correction"} THEN {Len(ledger) + 1} ELSE {})
         /\ \A n \in 1..Len(ledger) : ledger'[n] = ledger[n]
         /\ ledger'[Len(ledger) + 1] = e
         /\ UNCHANGED <<requests, clock, confirmedAt>>
  BY OfKindAppend, FinancialAppend, AppendJournal DEF Appends

(* With no closure, the last opening is active.                            *)
LEMMA NoSessionNoOpening ==
  ASSUME NEW s, IsJournal(s), ActiveNow(s) = 0, OfKind(s, "closure") = {}
  PROVE  OfKind(s, "cash_session_opened") = {}
<1>1. Len(s) \in Nat /\ DOMAIN s = 1..Len(s)
  BY JournalDomain
<1>2. PICK S : S = {m \in OfKind(s, "cash_session_opened") : m < Len(s) + 1}
  OBVIOUS
<1>3. S = OfKind(s, "cash_session_opened") /\ S \subseteq 1..Len(s)
  BY <1>1, <1>2 DEF OfKind
<1>4. SUFFICES ASSUME S # {} PROVE FALSE
  BY <1>3
<1>5. Max(S) \in S
  BY <1>1, <1>3, <1>4, MaxIsElement
<1>6. ActiveNow(s) = Max(S)
  BY <1>2, <1>4 DEF ActiveNow, ActiveBefore
<1>7. PICK x : x = Max(S)
  OBVIOUS
<1>8. x \in 1..Len(s)
  BY <1>3, <1>5, <1>7
<1> QED
  BY <1>6, <1>7, <1>8

(* The element Min returns is the least one.                               *)
LEMMA MinIsLeast ==
  ASSUME NEW S, S \subseteq Nat, S # {}
  PROVE  \A y \in S : Min(S) <= y
<1>1. PICK x \in S : \A y \in S : ~(<<y, x>> \in OpToRel(<, Nat))
  BY WFMin, NatLessThanWellFounded
<1>2. ASSUME NEW y \in S
      PROVE  x <= y
  <2>1. x \in Nat /\ y \in Nat
    OBVIOUS
  <2>2. ~(y < x)
    BY <1>1, <2>1 DEF OpToRel
  <2> QED
    BY <2>1, <2>2
<1>3. \E z \in S : \A y \in S : z <= y
  BY <1>2
<1>4. PICK m : m = CHOOSE z \in S : \A y \in S : z <= y
  OBVIOUS
<1>5. \A y \in S : m <= y
  BY <1>3, <1>4
<1> QED
  BY <1>4, <1>5 DEF Min

(* sessionPeriodStart is no later than its argument and than what counts.  *)
LEMMA PeriodStartBound ==
  ASSUME TypeOK, NEW at \in Times, OfKind(ledger, "closure") = {}
  PROVE  /\ SessionPeriodStart(ledger, at) <= at
         /\ \A n \in Financial(ledger) : SessionPeriodStart(ledger, at) <= ledger[n].recordedAt
<1>1. PICK S : S = {ledger[n].recordedAt : n \in Financial(ledger)} \cup {at}
  OBVIOUS
<1>2. S \subseteq Nat /\ S # {}
  BY <1>1 DEF Financial, OfKind, TypeOK, EntryOK, Times
<1>3. Min(S) = SessionPeriodStart(ledger, at)
  BY <1>1 DEF SessionPeriodStart
<1>4. \A y \in S : Min(S) <= y
  BY <1>2, MinIsLeast
<1> QED
  BY <1>1, <1>3, <1>4

(* The first period has counted everything there is before its end.        *)
LEMMA FirstPeriodStep ==
  ASSUME ~ClockMayGoBack, IInv, AuditInv, UnconfirmedInv, FirstPeriodInv, [Next]_vars
  PROVE  FirstPeriodInv'
<1>1. /\ IsJournal(ledger) /\ Len(ledger) \in Nat /\ DOMAIN ledger = 1..Len(ledger)
      /\ status \in [Sales -> Statuses]
      /\ confirmedAt \in [Sales -> Times \cup {NoTime}]
      /\ clock \in Nat
  BY LedgerIsJournal DEF IInv, TypeOK, Times
<1>2. \A p \in OfKind(ledger, "cash_session_opened") : ledger[p].body.periodStart \in Nat
  BY DEF OfKind, IInv, TypeOK, EntryOK, BodyOK, Times
<1>3. \A kind : OfKind(ledger, kind) \subseteq 1..Len(ledger)
  BY <1>1 DEF OfKind
<1>4. Financial(ledger) \subseteq 1..Len(ledger)
  BY <1>3 DEF Financial
<1>5. ASSUME ledger' = ledger, clock' \in Nat, clock <= clock',
             requests' \subseteq requests, UNCHANGED intentVars
      PROVE  FirstPeriodInv'
  <2>1. SUFFICES ASSUME OfKind(ledger, "closure") = {} PROVE FirstPeriodInv'
    BY <1>5 DEF FirstPeriodInv
  <2>2. \A p \in OfKind(ledger, "cash_session_opened") : ledger[p].body.periodStart <= clock'
    BY <1>1, <1>2, <1>5, <2>1 DEF FirstPeriodInv
  <2>3. \A r \in requests : r.kind = "cash_session_opened" => r.at \in Nat
    BY DEF IInv, TypeOK, RequestOK, Times
  <2>4. OfKind(ledger, "cash_session_opened") = {} =>
          \A r \in requests : r.kind = "cash_session_opened" => r.at <= clock'
    BY <1>1, <1>5, <2>1, <2>3 DEF FirstPeriodInv
  <2> QED
    BY <1>5, <2>1, <2>2, <2>4 DEF FirstPeriodInv, intentVars
<1>6. ASSUME NEW i \in Sales,
             \/ CreateCheckoutIntent(i)
             \/ MarkCheckoutPaymentToVerify(i)
             \/ ConfirmCheckoutPayment(i)
             \/ AbandonCheckoutIntent(i)
      PROVE  FirstPeriodInv'
  <2>1. UNCHANGED <<ledger, requests, clock>>
    BY <1>6 DEF CreateCheckoutIntent, MarkCheckoutPaymentToVerify, ConfirmCheckoutPayment,
                AbandonCheckoutIntent, storeVars, callVars
  <2>2. SUFFICES ASSUME OfKind(ledger, "closure") = {} PROVE FirstPeriodInv'
    BY <2>1 DEF FirstPeriodInv
  <2>3. OfKind(ledger, "cash_session_opened") # {}
    BY <1>6, <2>2 DEF FirstPeriodInv, CreateCheckoutIntent, MarkCheckoutPaymentToVerify,
                      ConfirmCheckoutPayment, AbandonCheckoutIntent, SellingScreen
  <2>4. \A j \in Sales : status'[j] = "payment_confirmed" =>
          \/ status[j] = "payment_confirmed" /\ confirmedAt'[j] = confirmedAt[j]
          \/ confirmedAt'[j] = clock
    <3>1. CASE ConfirmCheckoutPayment(i)
      BY <1>1, <3>1 DEF ConfirmCheckoutPayment, UnconfirmedInv
    <3>2. CASE ~ConfirmCheckoutPayment(i)
      BY <1>1, <1>6, <3>2 DEF CreateCheckoutIntent, MarkCheckoutPaymentToVerify,
                              AbandonCheckoutIntent
    <3> QED
      BY <3>1, <3>2
  <2>5. ASSUME NEW p \in OfKind(ledger, "cash_session_opened"), NEW j \in Sales,
               status'[j] = "payment_confirmed"
        PROVE  ledger[p].body.periodStart <= confirmedAt'[j]
    BY <2>2, <2>4, <2>5 DEF FirstPeriodInv
  <2> QED
    BY <2>1, <2>2, <2>3, <2>5 DEF FirstPeriodInv
<1>7. ASSUME NEW op \in Ops, NEW kind, NEW body, Post(op, kind, body),
             kind = "correction" => SellingScreen,
             kind = "cash_session_opened" => body.periodStart = SessionPeriodStart(ledger, clock)
      PROVE  FirstPeriodInv'
  <2>1. PICK r : /\ r = [op |-> op, kind |-> kind, at |-> clock, body |-> body]
                 /\ requests' = requests \cup {r}
    BY <1>7 DEF Post
  <2>2. r.kind = kind /\ r.at = clock /\ r.body = body
    BY <2>1
  <2>3. UNCHANGED <<ledger, clock, status, confirmedAt>>
    BY <1>7 DEF Post, storeVars, intentVars
  <2>4. SUFFICES ASSUME OfKind(ledger, "closure") = {} PROVE FirstPeriodInv'
    BY <2>3 DEF FirstPeriodInv
  <2>5. kind = "cash_session_opened" =>
          /\ r.body.periodStart <= r.at
          /\ r.at <= clock
          /\ \A n \in Financial(ledger) : r.body.periodStart <= ledger[n].recordedAt
    BY <1>1, <1>7, <2>2, <2>4, PeriodStartBound DEF IInv, TypeOK
  <2>6. kind = "correction" => OfKind(ledger, "cash_session_opened") # {}
    BY <1>7 DEF SellingScreen
  <2> QED
    BY <2>1, <2>2, <2>3, <2>4, <2>5, <2>6 DEF FirstPeriodInv
<1>8. ASSUME NEW e, Appends(e), e.kind \in {"sale", "correction"},
             OfKind(ledger, "closure") = {} =>
               /\ OfKind(ledger, "cash_session_opened") # {}
               /\ \A p \in OfKind(ledger, "cash_session_opened") :
                    ledger[p].body.periodStart <= e.recordedAt,
             \A i \in Sales : status'[i] = "payment_confirmed" => status[i] = "payment_confirmed"
      PROVE  FirstPeriodInv'
  <2>1. /\ \A n \in 1..Len(ledger) : ledger'[n] = ledger[n]
        /\ ledger'[Len(ledger) + 1] = e
        /\ UNCHANGED <<requests, clock, confirmedAt>>
    BY <1>1, <1>8, AppendJournal DEF Appends
  <2>2. /\ OfKind(ledger', "closure") = OfKind(ledger, "closure")
        /\ OfKind(ledger', "cash_session_opened") = OfKind(ledger, "cash_session_opened")
        /\ Financial(ledger') = Financial(ledger) \cup {Len(ledger) + 1}
    <3>1. e.kind # "closure" /\ e.kind # "cash_session_opened"
      BY <1>8
    <3>2. /\ OfKind(ledger', "closure") =
               OfKind(ledger, "closure")
                 \cup (IF e.kind = "closure" THEN {Len(ledger) + 1} ELSE {})
          /\ OfKind(ledger', "cash_session_opened") =
               OfKind(ledger, "cash_session_opened")
                 \cup (IF e.kind = "cash_session_opened" THEN {Len(ledger) + 1} ELSE {})
      BY <1>1, <1>8, AppendsWhat
    <3>3. Financial(ledger') =
            Financial(ledger)
              \cup (IF e.kind \in {"sale", "correction"} THEN {Len(ledger) + 1} ELSE {})
      BY <1>1, <1>8, AppendsWhat
    <3> QED
      BY <1>8, <3>1, <3>2, <3>3
  <2>3. SUFFICES ASSUME OfKind(ledger, "closure") = {} PROVE FirstPeriodInv'
    BY <2>2 DEF FirstPeriodInv
  <2>4. \A p \in OfKind(ledger', "cash_session_opened") : ledger'[p] = ledger[p]
    BY <1>3, <2>1, <2>2
  <2>5. \A p \in OfKind(ledger', "cash_session_opened") : \A n \in Financial(ledger') :
          ledger'[p].body.periodStart <= ledger'[n].recordedAt
    BY <1>4, <1>8, <2>1, <2>2, <2>3, <2>4 DEF FirstPeriodInv
  <2>6. OfKind(ledger', "cash_session_opened") # {}
    BY <1>8, <2>2, <2>3
  <2> QED
    BY <1>8, <2>1, <2>2, <2>3, <2>4, <2>5, <2>6 DEF FirstPeriodInv
<1>9. ASSUME NEW i \in Sales, FinalizeCheckoutIntent(i)
      PROVE  FirstPeriodInv'
  <2>1. PICK e : Appends(e) /\ e.kind = "sale" /\ e.recordedAt = confirmedAt[i]
    BY <1>9, FinalizeAppends
  <2>2. /\ status[i] = "payment_confirmed"
        /\ \A j \in Sales : status'[j] = "payment_confirmed" => status[j] = "payment_confirmed"
    BY <1>1, <1>9, FinalizeAppends
  <2>3. OfKind(ledger, "closure") = {} =>
          /\ OfKind(ledger, "cash_session_opened") # {}
          /\ \A p \in OfKind(ledger, "cash_session_opened") :
               ledger[p].body.periodStart <= e.recordedAt
    BY <2>1, <2>2 DEF FirstPeriodInv
  <2> QED
    BY <1>8, <2>1, <2>2, <2>3
<1>10. ASSUME NEW r \in requests, RecordCorrection(r)
       PROVE  FirstPeriodInv'
  <2>1. PICK e : Appends(e) /\ e.kind = "correction" /\ e.recordedAt = r.at
    BY <1>10, CorrectionAppends
  <2>2. r.kind = "correction" /\ status' = status
    BY <1>10, CorrectionAppends
  <2>3. OfKind(ledger, "closure") = {} =>
          /\ OfKind(ledger, "cash_session_opened") # {}
          /\ \A p \in OfKind(ledger, "cash_session_opened") :
               ledger[p].body.periodStart <= e.recordedAt
    BY <2>1, <2>2 DEF FirstPeriodInv
  <2> QED
    BY <1>8, <2>1, <2>2, <2>3
<1>11. ASSUME NEW r \in requests, OpenCashSession(r)
       PROVE  FirstPeriodInv'
  <2>1. PICK e : Appends(e) /\ e.kind = "cash_session_opened" /\ e.body = r.body
    BY <1>11, OpenAppends
  <2>2. r.kind = "cash_session_opened" /\ status' = status
    BY <1>11, OpenAppends
  <2>3. /\ \A n \in 1..Len(ledger) : ledger'[n] = ledger[n]
        /\ ledger'[Len(ledger) + 1] = e
        /\ UNCHANGED <<requests, clock, confirmedAt>>
    BY <1>1, <2>1, AppendJournal DEF Appends
  <2>4. /\ OfKind(ledger', "closure") = OfKind(ledger, "closure")
        /\ OfKind(ledger', "cash_session_opened") =
             OfKind(ledger, "cash_session_opened") \cup {Len(ledger) + 1}
        /\ Financial(ledger') = Financial(ledger)
    BY <1>1, <2>1, AppendsWhat
  <2>5. SUFFICES ASSUME OfKind(ledger, "closure") = {} PROVE FirstPeriodInv'
    BY <2>4 DEF FirstPeriodInv
  <2>6. OfKind(ledger, "cash_session_opened") = {}
    <3>1. ActiveNow(ledger) = 0
      BY <1>11, ActiveSessionIs DEF OpenCashSession, IInv, AuditInv
    <3> QED
      BY <1>1, <2>5, <3>1, NoSessionNoOpening
  <2>7. \A p \in OfKind(ledger', "cash_session_opened") : ledger'[p].body = r.body
    BY <2>1, <2>3, <2>4, <2>6
  <2>8. /\ \A i \in Sales : status[i] \in {"absent", "finalized"}
        /\ \A q \in requests : q.kind # "correction"
        /\ r.body.periodStart <= r.at
        /\ r.at <= clock
        /\ \A n \in Financial(ledger) : r.body.periodStart <= ledger[n].recordedAt
    BY <2>2, <2>5, <2>6 DEF FirstPeriodInv
  <2>9. r.body.periodStart <= clock
    <3>1. r.body.periodStart \in Nat /\ r.at \in Nat
      BY <2>2 DEF IInv, TypeOK, RequestOK, BodyOK, Times
    <3> QED
      BY <1>1, <2>8, <3>1
  <2>10. \A n \in Financial(ledger) : ledger'[n] = ledger[n]
    BY <1>4, <2>3
  <2>11. OfKind(ledger', "cash_session_opened") # {}
    BY <2>4
  <2> QED
    BY <2>2, <2>3, <2>4, <2>7, <2>8, <2>9, <2>10, <2>11 DEF FirstPeriodInv
<1>12. ASSUME NEW r \in requests, UpdateCashFloat(r)
       PROVE  FirstPeriodInv'
  <2>1. PICK e : Appends(e) /\ e.kind = "cash_float_updated"
    BY <1>12, UpdateFloatAppends
  <2>2. status' = status
    BY <1>12, UpdateFloatAppends
  <2>3. /\ \A n \in 1..Len(ledger) : ledger'[n] = ledger[n]
        /\ UNCHANGED <<requests, clock, confirmedAt>>
    BY <1>1, <2>1, AppendJournal DEF Appends
  <2>4. /\ OfKind(ledger', "closure") = OfKind(ledger, "closure")
        /\ OfKind(ledger', "cash_session_opened") = OfKind(ledger, "cash_session_opened")
        /\ Financial(ledger') = Financial(ledger)
    BY <1>1, <2>1, AppendsWhat
  <2>5. /\ \A p \in OfKind(ledger, "cash_session_opened") : ledger'[p] = ledger[p]
        /\ \A n \in Financial(ledger) : ledger'[n] = ledger[n]
    BY <1>3, <1>4, <2>3
  <2>6. CASE OfKind(ledger, "closure") # {}
    BY <2>4, <2>6 DEF FirstPeriodInv
  <2>7. CASE OfKind(ledger, "closure") = {} /\ OfKind(ledger, "cash_session_opened") = {}
    BY <2>2, <2>3, <2>4, <2>5, <2>7 DEF FirstPeriodInv
  <2>8. CASE OfKind(ledger, "closure") = {} /\ OfKind(ledger, "cash_session_opened") # {}
    BY <2>2, <2>3, <2>4, <2>5, <2>8 DEF FirstPeriodInv
  <2> QED
    BY <2>6, <2>7, <2>8
<1>13. ASSUME NEW r \in requests, ClosePeriod(r)
       PROVE  FirstPeriodInv'
  <2>1. PICK e : Appends(e) /\ e.kind = "closure"
    BY <1>13, CloseAppends
  <2>2. OfKind(ledger', "closure") # {}
    <3>1. \A kind : OfKind(ledger', kind) =
                      OfKind(ledger, kind) \cup (IF e.kind = kind THEN {Len(ledger) + 1} ELSE {})
      BY <1>1, <2>1, AppendsWhat
    <3> QED
      BY <2>1, <3>1
  <2> QED
    BY <2>2 DEF FirstPeriodInv
<1>14. CASE Service
  <2>1. ASSUME NEW op \in Ops, NEW float \in Floats, RequestOpenSession(op, float)
        PROVE  FirstPeriodInv'
    <3>1. PICK body : /\ body = [session     |-> op,
                                 periodStart |-> SessionPeriodStart(ledger, clock),
                                 float       |-> float]
                      /\ Post(op, "cash_session_opened", body)
      BY <2>1 DEF RequestOpenSession
    <3>2. body.periodStart = SessionPeriodStart(ledger, clock)
      BY <3>1
    <3> QED
      BY <1>7, <3>1, <3>2
  <2>2. ASSUME NEW op \in Ops, NEW sale, NEW type, NEW delta, NEW q,
               RequestCorrection(op, sale, type, delta, q)
        PROVE  FirstPeriodInv'
    BY <1>7, <2>2 DEF RequestCorrection
  <2>3. ASSUME NEW op \in Ops, NEW float, RequestUpdateFloat(op, float)
        PROVE  FirstPeriodInv'
    BY <1>7, <2>3 DEF RequestUpdateFloat
  <2>4. ASSUME NEW op \in Ops, NEW periodEnd, RequestClosePeriod(op, periodEnd)
        PROVE  FirstPeriodInv'
    BY <1>7, <2>4 DEF RequestClosePeriod, CloseActiveSession
  <2> QED
    BY <1>14, <2>1, <2>2, <2>3, <2>4
       DEF Service, RequestCancelSale, RequestRefundSale, RequestAdjustSale
<1>15. CASE Tick \/ SetClockBack \/ UNCHANGED vars \/ \E r \in requests : Settle(r)
  BY <1>1, <1>5, <1>15
     DEF Tick, SetClockBack, Settle, vars, storeVars, intentVars, callVars
<1> QED
  BY <1>6, <1>9, <1>10, <1>11, <1>12, <1>13, <1>14, <1>15 DEF Next, Checkout, Repository

(* Finite positions, and their amounts.                                    *)
LEMMA FinancialAmounts ==
  ASSUME TypeOK, AmountsInv
  PROVE  /\ IsFiniteSet(Financial(ledger))
         /\ \A n \in Financial(ledger) : Amount(ledger[n]) \in Int
<1>1. Len(ledger) \in Nat /\ DOMAIN ledger = 1..Len(ledger)
  BY LedgerIsJournal
<1>2. IsFiniteSet(Financial(ledger))
  <2>1. Financial(ledger) \subseteq 1..Len(ledger)
    BY <1>1 DEF Financial, OfKind
  <2>2. IsFiniteSet(1..Len(ledger))
    BY <1>1, FS_Interval
  <2> QED
    BY <2>1, <2>2, FS_Subset
<1>3. ASSUME NEW n \in OfKind(ledger, "sale")
      PROVE  Amount(ledger[n]) \in Int
  <2>1. ledger[n].kind = "sale" /\ ledger[n].body.sale \in Sales
    BY DEF OfKind, TypeOK, EntryOK, BodyOK
  <2> QED
    BY <2>1, SaleTotalOK DEF Amount
<1>4. ASSUME NEW n \in OfKind(ledger, "correction")
      PROVE  Amount(ledger[n]) \in Int
  <2>1. ledger[n].kind = "correction" /\ ledger[n].body.delta \in Int
    BY DEF OfKind, AmountsInv, CorrectionTyped
  <2> QED
    BY <2>1 DEF Amount
<1> QED
  BY <1>2, <1>3, <1>4 DEF Financial

(* What precedes a position is the journal up to it.                       *)
LEMMA BeforeIs ==
  ASSUME NEW s, IsJournal(s), NEW n \in 1..Len(s)
  PROVE  DOMAIN Before(s, n) = 1..(n - 1) /\ \A i \in 1..(n - 1) : Before(s, n)[i] = s[i]
<1> DEFINE S == {s[i] : i \in DOMAIN s}
           b == SubSeq(s, 1, n - 1)
<1>1. Len(s) \in Nat /\ DOMAIN s = 1..Len(s)
  BY JournalDomain
<1>2. 1 \in Int /\ n - 1 \in Int /\ n - 1 - 1 + 1 = n - 1
  BY <1>1
<1>3. (IF 1 <= n - 1 THEN n - 1 ELSE 0) = n - 1
  BY <1>1
<1>4. \A i \in 1..(n - 1) : s[i] \in S /\ 1 + i - 1 = i
  BY <1>1
<1>5. b \in Seq(S) /\ Len(b) = n - 1 /\ \A i \in 1..(n - 1) : b[i] = s[i]
  BY <1>2, <1>3, <1>4, SubSeqProperties
<1>6. DOMAIN b = 1..(n - 1)
  BY <1>5, LenProperties
<1> QED
  BY <1>5, <1>6 DEF Before

(* What a journal counts before an instant that a closure reached does not *)
(* change any more.                                                        *)
LEMMA CountedOnceForAll ==
  ASSUME TypeOK, SealInv, AuditInv, NEW p \in OfKind(ledger, "closure")
  PROVE  ledger[p].body.totals.cumulativeNet =
           NetOf(ledger, {n \in Financial(ledger) :
                            ledger[n].recordedAt < ledger[p].body.periodEnd})
<1> DEFINE from == ledger[p].body.periodStart
           to   == ledger[p].body.periodEnd
<1>1. IsJournal(ledger) /\ Len(ledger) \in Nat /\ DOMAIN ledger = 1..Len(ledger)
  BY LedgerIsJournal
<1>2. p \in 1..Len(ledger)
  BY <1>1 DEF OfKind
<1>3. PICK b : b = Before(ledger, p)
  OBVIOUS
<1>4. DOMAIN b = 1..(p - 1) /\ \A i \in 1..(p - 1) : b[i] = ledger[i]
  BY <1>1, <1>2, <1>3, BeforeIs
<1>5. PICK old, now : /\ old = {n \in Financial(b) : b[n].recordedAt < to}
                      /\ now = {n \in Financial(ledger) : ledger[n].recordedAt < to}
  OBVIOUS
<1>6. old = now
  <2>1. ASSUME NEW n \in old
        PROVE  n \in now
    <3>1. n \in 1..(p - 1) /\ b[n] = ledger[n]
      BY <1>4, <1>5 DEF Financial, OfKind
    <3>2. n \in DOMAIN ledger
      BY <1>1, <1>2, <3>1
    <3> QED
      BY <1>5, <3>1, <3>2 DEF Financial, OfKind
  <2>2. ASSUME NEW n \in now
        PROVE  n \in old
    <3>1. n \in 1..Len(ledger) /\ n \in Financial(ledger) /\ ledger[n].recordedAt < to
      BY <1>1, <1>5 DEF Financial, OfKind
    <3>2. ~(p < n)
      <4>1. p < n => ledger[n].recordedAt >= to
        BY <3>1 DEF SealInv, ClosedPeriodsSealed
      <4>2. ledger[n].recordedAt \in Nat /\ to \in Nat
        BY <1>1, <3>1 DEF TypeOK, EntryOK, BodyOK, OfKind, Times
      <4> QED
        BY <3>1, <4>1, <4>2
    <3>3. n # p
      BY <3>1 DEF Financial, OfKind
    <3>4. n \in 1..(p - 1)
      BY <1>2, <3>1, <3>2, <3>3
    <3> QED
      BY <1>4, <1>5, <3>1, <3>4 DEF Financial, OfKind
  <2> QED
    BY <2>1, <2>2
<1>7. IsFiniteSet(old)
  <2>1. old \subseteq 1..(p - 1)
    BY <1>4, <1>5 DEF Financial, OfKind
  <2>2. IsFiniteSet(1..(p - 1))
    BY <1>2, FS_Interval
  <2> QED
    BY <2>1, <2>2, FS_Subset
<1>8. \A n \in old : b[n] = ledger[n]
  BY <1>4, <1>5 DEF Financial, OfKind
<1>9. NetOf(b, old) = NetOf(ledger, old)
  BY <1>7, <1>8, NetOfSame
<1>10. ledger[p].body.totals = CalculateClosureTotals(b, from, to)
  BY <1>3 DEF AuditInv, WalkPasses, ClosuresRecompute
<1>11. CalculateClosureTotals(b, from, to).cumulativeNet = NetOf(b, old)
  BY <1>5 DEF CalculateClosureTotals
<1> QED
  BY <1>5, <1>6, <1>9, <1>10, <1>11

(* Each closure goes on from the one before it.                            *)
LEMMA TilesStep ==
  ASSUME IInv, AuditInv, AmountsInv, TilesInv, [Next]_vars,
         ~ClockMayGoBack => FirstPeriodInv
  PROVE  TilesInv'
<1>1. /\ IsJournal(ledger) /\ Len(ledger) \in Nat /\ DOMAIN ledger = 1..Len(ledger)
      /\ TypeOK
  BY LedgerIsJournal DEF IInv
<1>2. PICK closures : closures = OfKind(ledger, "closure")
  OBVIOUS
<1>3. closures \subseteq 1..Len(ledger)
  BY <1>1, <1>2 DEF OfKind
<1>4. CASE ledger' = ledger
  BY <1>4 DEF TilesInv, ClosuresBefore
<1>5. ASSUME NEW e, Appends(e),
             e.kind = "closure" /\ (closures # {} \/ ~ClockMayGoBack) =>
               e.body.totals.cumulativeNet =
                 e.body.totals.netTotal +
                   (IF closures = {} THEN 0
                    ELSE ledger[Max(closures)].body.totals.cumulativeNet)
      PROVE  TilesInv'
  <2>1. /\ OfKind(ledger', "closure") =
             closures \cup (IF e.kind = "closure" THEN {Len(ledger) + 1} ELSE {})
        /\ \A n \in 1..Len(ledger) : ledger'[n] = ledger[n]
        /\ ledger'[Len(ledger) + 1] = e
    BY <1>1, <1>2, <1>5, AppendsWhat
  <2>2. SUFFICES ASSUME NEW c \in OfKind(ledger', "closure"), NEW before,
                        before = {d \in OfKind(ledger', "closure") : d < c},
                        before # {} \/ ~ClockMayGoBack
                 PROVE  ledger'[c].body.totals.cumulativeNet =
                          ledger'[c].body.totals.netTotal +
                            (IF before = {} THEN 0
                             ELSE ledger'[Max(before)].body.totals.cumulativeNet)
    BY DEF TilesInv, ClosuresBefore
  <2>3. before \subseteq closures
    <3>1. SUFFICES ASSUME NEW d \in before PROVE d \in closures
      OBVIOUS
    <3>2. d \in OfKind(ledger', "closure") /\ d < c
      BY <2>2, <3>1
    <3>3. PICK all : all = OfKind(ledger', "closure")
      OBVIOUS
    <3>4. \A m \in all : m \in closures \/ m = Len(ledger) + 1
      BY <2>1, <3>3
    <3>5. c \in all
      BY <3>3
    <3>6. c \in 1..Len(ledger) \/ c = Len(ledger) + 1
      BY <1>3, <3>4, <3>5
    <3>7. c \in 1..(Len(ledger) + 1)
      BY <1>1, <3>6
    <3>8. d \in all /\ d < c
      BY <3>2, <3>3
    <3>9. d # Len(ledger) + 1
      BY <1>1, <3>7, <3>8
    <3> QED
      BY <3>4, <3>8, <3>9
  <2>4. before # {} => ledger'[Max(before)] = ledger[Max(before)]
    <3>1. before \subseteq 1..Len(ledger)
      BY <1>3, <2>3
    <3>2. before # {} => Max(before) \in 1..Len(ledger)
      BY <1>1, <3>1, MaxIsElement
    <3> QED
      BY <2>1, <3>2
  <2>5. CASE c \in closures
    <3>1. before = {d \in closures : d < c}
      BY <1>1, <1>3, <2>1, <2>2, <2>5
    <3>2. ledger'[c] = ledger[c]
      BY <1>3, <2>1, <2>5
    <3>3. ledger[c].body.totals.cumulativeNet =
            ledger[c].body.totals.netTotal +
              (IF before = {} THEN 0
               ELSE ledger[Max(before)].body.totals.cumulativeNet)
      BY <1>2, <2>2, <2>5, <3>1 DEF TilesInv, ClosuresBefore
    <3> QED
      BY <2>4, <3>2, <3>3
  <2>6. CASE c = Len(ledger) + 1 /\ e.kind = "closure"
    <3>1. before = closures
      <4>1. \A d \in closures : d < c
        BY <1>1, <1>3, <2>6
      <4>2. closures \subseteq before
        BY <2>1, <2>2, <4>1
      <4> QED
        BY <2>3, <4>2
    <3>2. ledger'[c] = e
      BY <2>1, <2>6
    <3> QED
      BY <1>5, <2>2, <2>4, <2>6, <3>1, <3>2
  <2> QED
    BY <2>1, <2>2, <2>5, <2>6
<1>6. ASSUME NEW r \in requests, ClosePeriod(r)
      PROVE  TilesInv'
  <2>1. PICK from, to : from = r.body.periodStart /\ to = r.body.periodEnd
    OBVIOUS
  <2>2. PICK e : /\ Appends(e)
                 /\ e.kind = "closure"
                 /\ e.body.totals = CalculateClosureTotals(ledger, from, to)
    BY <1>6, <2>1, CloseAppends
  <2>3. PICK period, earlier, counted :
          /\ period = InPeriod(ledger, from, to)
          /\ earlier = {n \in Financial(ledger) : ledger[n].recordedAt < from}
          /\ counted = {n \in Financial(ledger) : ledger[n].recordedAt < to}
    OBVIOUS
  <2>4. /\ e.body.totals.netTotal = NetOf(ledger, period)
        /\ e.body.totals.cumulativeNet = NetOf(ledger, counted)
    BY <2>2, <2>3 DEF CalculateClosureTotals
  <2>5. from \in Nat /\ to \in Nat /\ from < to
    BY <1>1, <1>6, <2>1 DEF ClosePeriod, TypeOK, RequestOK, BodyOK, Times
  <2>6. \A n \in Financial(ledger) : ledger[n].recordedAt \in Nat
    BY <1>1 DEF Financial, OfKind, TypeOK, EntryOK, Times
  <2>7. counted = period \cup earlier /\ period \cap earlier = {}
    BY <2>3, <2>5, <2>6 DEF InPeriod
  <2>8. IsFiniteSet(period) /\ IsFiniteSet(earlier)
        /\ \A n \in period \cup earlier : Amount(ledger[n]) \in Int
    <3>1. period \subseteq Financial(ledger) /\ earlier \subseteq Financial(ledger)
      BY <2>3 DEF InPeriod
    <3> QED
      BY <1>1, <3>1, FinancialAmounts, FS_Subset
  <2>9. NetOf(ledger, counted) = NetOf(ledger, period) + NetOf(ledger, earlier)
    BY <2>7, <2>8, NetOfUnion
  <2>10. closures # {} \/ ~ClockMayGoBack =>
           NetOf(ledger, earlier) =
             IF closures = {} THEN 0 ELSE ledger[Max(closures)].body.totals.cumulativeNet
    <3>1. CASE closures = {} /\ ~ClockMayGoBack
      <4>1. /\ ActiveNow(ledger) \in OfKind(ledger, "cash_session_opened")
            /\ ledger[ActiveNow(ledger)].body.periodStart = from
        <5>1. GetActiveCashSession(ledger).periodStart = from /\ from # NoTime
          BY <1>6, <2>1, <2>5 DEF ClosePeriod, NoTime
        <5>2. GetActiveCashSession(ledger) # NoSession
          BY <5>1 DEF NoSession
        <5>3. /\ ActiveNow(ledger) # 0
              /\ ledger[ActiveNow(ledger)].body.periodStart = from
          BY <1>1, <5>1, <5>2, ActiveSessionIs DEF AuditInv
        <5>4. Len(ledger) + 1 \in 1..(Len(ledger) + 1)
          BY <1>1
        <5> QED
          BY <1>1, <5>3, <5>4, ActiveIsOpening DEF ActiveNow
      <4>2. \A n \in Financial(ledger) : from <= ledger[n].recordedAt
        BY <1>2, <3>1, <4>1 DEF FirstPeriodInv
      <4>3. earlier = {}
        BY <2>3, <2>5, <2>6, <4>2
      <4> QED
        BY <3>1, <4>3, NetOfNone
    <3>2. CASE closures # {}
      <4>1. PICK p : p = Max(closures)
        OBVIOUS
      <4>2. p \in closures
        BY <1>1, <1>3, <3>2, <4>1, MaxIsElement
      <4>3. ledger[p].body.periodEnd \in Times
        BY <1>1, <1>2, <4>2 DEF OfKind, TypeOK, EntryOK, BodyOK
      <4>4. metadata.lastClosureEnd = ledger[p].body.periodEnd
        BY <1>2, <3>2, <4>1 DEF AuditInv, LastEndKept
      <4>5. metadata.lastClosureEnd # NoTime
        BY <4>3, <4>4 DEF Times, NoTime
      <4>6. from = ledger[p].body.periodEnd
        BY <1>6, <2>1, <4>4, <4>5 DEF ClosePeriod, FollowsLastClosure
      <4>7. NetOf(ledger, earlier) = ledger[p].body.totals.cumulativeNet
        BY <1>1, <1>2, <2>3, <4>2, <4>6, CountedOnceForAll DEF IInv
      <4> QED
        BY <3>2, <4>1, <4>7
    <3> QED
      BY <3>1, <3>2
  <2> QED
    BY <1>5, <2>2, <2>4, <2>9, <2>10
<1>7. ASSUME NEW i \in Sales, FinalizeCheckoutIntent(i)
      PROVE  TilesInv'
  <2>1. PICK e : Appends(e) /\ e.kind = "sale"
    BY <1>1, <1>7, FinalizeAppends
  <2> QED
    BY <1>5, <2>1
<1>8. ASSUME NEW r \in requests, OpenCashSession(r) \/ UpdateCashFloat(r) \/ RecordCorrection(r)
      PROVE  TilesInv'
  <2>1. PICK e : Appends(e) /\ e.kind # "closure"
    BY <1>1, <1>8, OpenAppends, UpdateFloatAppends, CorrectionAppends
  <2> QED
    BY <1>5, <2>1
<1>9. CASE Service
  BY <1>4, <1>9 DEF Service, RequestOpenSession, RequestUpdateFloat, RequestCancelSale,
                    RequestRefundSale, RequestAdjustSale, RequestCorrection,
                    RequestClosePeriod, CloseActiveSession, Post, storeVars
<1>10. ASSUME NEW i \in Sales,
              \/ CreateCheckoutIntent(i)
              \/ MarkCheckoutPaymentToVerify(i)
              \/ ConfirmCheckoutPayment(i)
              \/ AbandonCheckoutIntent(i)
       PROVE  TilesInv'
  BY <1>4, <1>10 DEF CreateCheckoutIntent, MarkCheckoutPaymentToVerify,
                     ConfirmCheckoutPayment, AbandonCheckoutIntent, storeVars
<1>11. CASE Tick \/ SetClockBack \/ UNCHANGED vars \/ \E r \in requests : Settle(r)
  BY <1>4, <1>11 DEF Tick, SetClockBack, Settle, vars, storeVars
<1> QED
  BY <1>6, <1>7, <1>8, <1>9, <1>10, <1>11 DEF Next, Checkout, Repository

(* The invariants hold in an empty register and in an upgraded one.        *)
LEMMA InitTiles ==
  Init => AmountsInv /\ UnconfirmedInv /\ FirstPeriodInv /\ FollowsInv /\ TilesInv
<1> SUFFICES ASSUME Init
             PROVE  AmountsInv /\ UnconfirmedInv /\ FirstPeriodInv /\ FollowsInv /\ TilesInv
  OBVIOUS
<1>1. requests = {}
  BY DEF Init
<1>2. ASSUME \A kind \in Kinds \ {"sale"} : OfKind(ledger, kind) = {},
             \A i \in Sales : \/ status[i] = "absent" /\ confirmedAt[i] = NoTime
                            \/ status[i] = "finalized"
      PROVE  AmountsInv /\ UnconfirmedInv /\ FirstPeriodInv /\ FollowsInv /\ TilesInv
  <2>1. /\ OfKind(ledger, "cash_session_opened") = {}
        /\ OfKind(ledger, "closure") = {}
        /\ OfKind(ledger, "correction") = {}
    BY <1>2 DEF Kinds
  <2>2. ActiveNow(ledger) = 0
    BY <2>1 DEF ActiveNow, ActiveBefore
  <2> QED
    BY <1>1, <1>2, <2>1, <2>2
       DEF AmountsInv, UnconfirmedInv, FirstPeriodInv, FollowsInv, TilesInv
<1>3. CASE EmptyRegister
  <2>1. \A kind : OfKind(ledger, kind) = {}
    BY <1>3 DEF EmptyRegister, OfKind
  <2> QED
    BY <1>2, <1>3, <2>1 DEF EmptyRegister
<1>4. ASSUME NEW i \in LegacySales, CreateOrder(i)
      PROVE  AmountsInv /\ UnconfirmedInv /\ FirstPeriodInv /\ FollowsInv /\ TilesInv
  <2>1. PICK entry :
          /\ entry = NewEntry(EmptyMetadata, "sale", i, 0, SaleBody(i, EmptyMetadata))
          /\ ledger = <<entry>>
    BY <1>4 DEF CreateOrder
  <2>2. entry.kind = "sale"
    BY <2>1 DEF NewEntry
  <2>3. \A kind \in Kinds \ {"sale"} : OfKind(ledger, kind) = {}
    BY <2>1, <2>2 DEF OfKind
  <2> QED
    BY <1>2, <1>4, <2>3 DEF CreateOrder
<1> QED
  BY <1>3, <1>4 DEF Init

(* What tiles, with the clock in the hands of the cashier.                 *)
TilingInv ==
  /\ AuditInv /\ AmountsInv /\ UnconfirmedInv /\ FollowsInv /\ TilesInv
  /\ ~ClockMayGoBack => FirstPeriodInv

LEMMA TilingAlways == Spec => [](IInv /\ TilingInv)
<1>1. Init => TilingInv
  BY InitAudit, InitTiles DEF TilingInv
<1>2. IInv /\ TilingInv /\ [Next]_vars => TilingInv'
  <2>1. SUFFICES ASSUME IInv, TilingInv, [Next]_vars PROVE TilingInv'
    OBVIOUS
  <2>2. AuditInv' /\ AmountsInv' /\ UnconfirmedInv' /\ FollowsInv' /\ TilesInv'
    BY <2>1, AuditStep, AmountsStep, UnconfirmedStep, FollowsStep, TilesStep DEF TilingInv
  <2>3. ~ClockMayGoBack => FirstPeriodInv'
    BY <2>1, FirstPeriodStep DEF TilingInv
  <2> QED
    BY <2>2, <2>3 DEF TilingInv
<1> QED
  BY <1>1, <1>2, Invariance, PTL DEF Spec

(* The active session starts where the last closure ended.                 *)
LEMMA SessionFollows ==
  ASSUME IInv, TilingInv, GetActiveCashSession(ledger) # NoSession
  PROVE  metadata.lastClosureEnd \in {NoTime, GetActiveCashSession(ledger).periodStart}
<1>1. TypeOK /\ SessionsAgree(ledger)
  BY DEF IInv, TilingInv, AuditInv
<1>2. CASE ActiveNow(ledger) = 0
  BY <1>1, <1>2, ActiveSessionIs
<1>3. CASE ActiveNow(ledger) # 0
  <2>1. GetActiveCashSession(ledger) =
           [id          |-> ledger[ActiveNow(ledger)].body.session,
            periodStart |-> ledger[ActiveNow(ledger)].body.periodStart,
            float       |-> CurrentFloat(ledger, ActiveNow(ledger))]
    BY <1>1, <1>3, ActiveSessionIs
  <2>2. GetActiveCashSession(ledger).periodStart =
          ledger[ActiveNow(ledger)].body.periodStart
    BY <2>1
  <2> QED
    BY <1>3, <2>2 DEF TilingInv, FollowsInv
<1> QED
  BY <1>2, <1>3

(* Closed periods tile the sales: each closure's cumulative total is the   *)
(* previous one's and its own net total, so that no sale and no correction *)
(* falls between two periods or in both, and the active session goes on    *)
(* from the end of the last closure (closePeriod, sessionPeriodStart and   *)
(* calculateClosureTotals of orderRepository.ts).  Entries are dated by    *)
(* the clock of the device: the theorem is about a clock that is never set *)
(* back, with which no sale is dated before the start of the first period. *)
THEOREM ClosedPeriodsTile ==
  ASSUME ~ClockMayGoBack
  PROVE  Spec => []PeriodsTile
<1>1. IInv /\ TilingInv => PeriodsTile
  BY SessionFollows DEF PeriodsTile, TilingInv, TilesInv
<1> QED
  BY <1>1, TilingAlways, PTL

(* What holds of a clock set back at will: the periods after the first.    *)
LaterPeriodsTile ==
  /\ \A c \in OfKind(ledger, "closure") :
       ClosuresBefore(c) # {} =>
         ledger[c].body.totals.cumulativeNet =
           ledger[c].body.totals.netTotal +
             ledger[Max(ClosuresBefore(c))].body.totals.cumulativeNet
  /\ GetActiveCashSession(ledger) # NoSession =>
       metadata.lastClosureEnd \in {NoTime, GetActiveCashSession(ledger).periodStart}

(* Whatever the clock does, each closure goes on from the total of the one *)
(* before it and each session from its end: only the first period depends  *)
(* on the clock, because a sale may be dated before the session it is made *)
(* in (sessionPeriodStart, calculateClosureTotals of orderRepository.ts).  *)
THEOREM PeriodsTileAfterTheFirst == Spec => []LaterPeriodsTile
<1>1. IInv /\ TilingInv => LaterPeriodsTile
  BY SessionFollows DEF LaterPeriodsTile, TilingInv, TilesInv
<1> QED
  BY <1>1, TilingAlways, PTL

-----------------------------------------------------------------------------
(* What the server accepts.  The server checks an entry over the prefix it *)
(* stores, which is the journal the register appended the entry to.        *)

(* The refunded quantity of a line is the sum of those of the refunds.     *)
LEMMA RefundedIs ==
  ASSUME NEW entries, NEW sale, NEW l, NEW S, IsFiniteSet(S), S = RefundsOf(entries, sale)
  PROVE  RefundedQuantity(entries, sale, l) =
           Total([n \in S |-> entries[n].body.quantities[l]], S)
<1> DEFINE g == [n \in S |-> entries[n].body.quantities[l]]
           Fold(f) == f = [s \in SUBSET S |->
                             IF s = {} THEN 0
                             ELSE entries[CHOOSE x \in s : TRUE].body.quantities[l]
                                    + f[s \ {CHOOSE x \in s : TRUE}]]
<1>1. \A s \in SUBSET S : s # {} =>
        g[PickOne(s)] = entries[CHOOSE x \in s : TRUE].body.quantities[l]
  <2>1. SUFFICES ASSUME NEW s \in SUBSET S, s # {}
                 PROVE  g[PickOne(s)] = entries[CHOOSE x \in s : TRUE].body.quantities[l]
    OBVIOUS
  <2>2. PickOne(s) \in S
    BY <2>1, PickOneIn
  <2> QED
    BY <2>2 DEF PickOne
<1>2. \A f : Sums(f, g, S) <=> Fold(f)
  <2>1. SUFFICES ASSUME NEW f PROVE Sums(f, g, S) <=> Fold(f)
    OBVIOUS
  <2> HIDE DEF g
  <2>2. [s \in SUBSET S |-> IF s = {} THEN 0 ELSE g[PickOne(s)] + f[s \ {PickOne(s)}]]
          = [s \in SUBSET S |-> IF s = {} THEN 0
                                ELSE entries[CHOOSE x \in s : TRUE].body.quantities[l]
                                       + f[s \ {CHOOSE x \in s : TRUE}]]
    BY <1>1 DEF PickOne
  <2> QED
    BY <2>2 DEF Sums
<1> HIDE DEF g, Fold
<1>3. \E f : Fold(f)
  <2>1. PICK h : Sums(h, g, S)
    BY SumsExist
  <2>2. Fold(h)
    BY <1>2, <2>1
  <2> QED
    BY <2>2
<1> DEFINE fn == CHOOSE f : Fold(f)
<1>4. Fold(fn)
  BY <1>3
<1>5. RefundedQuantity(entries, sale, l) = fn[S]
  BY DEF RefundedQuantity, MapThenSumSet, MapThenFoldSet, Fold
<1>6. PICK f : f = fn
  OBVIOUS
<1>7. Sums(f, g, S)
  BY <1>2, <1>4, <1>6
<1>8. Total(g, S) = f[S]
  BY <1>7, TotalIs
<1> QED
  BY <1>5, <1>6, <1>8 DEF g

(* Refunded quantities are natural numbers.                                *)
LEMMA RefundedOK ==
  ASSUME TypeOK, AmountsInv, NEW sale, NEW l \in Lines
  PROVE  RefundedQuantity(ledger, sale, l) \in Nat
<1>1. PICK S : S = RefundsOf(ledger, sale)
  OBVIOUS
<1>2. Len(ledger) \in Nat /\ DOMAIN ledger = 1..Len(ledger)
  BY LedgerIsJournal
<1>3. S \subseteq OfKind(ledger, "correction")
  BY <1>1 DEF RefundsOf, CorrectionsOf
<1>4. IsFiniteSet(S)
  <2>1. S \subseteq 1..Len(ledger)
    BY <1>2, <1>3 DEF OfKind
  <2>2. IsFiniteSet(1..Len(ledger))
    BY <1>2, FS_Interval
  <2> QED
    BY <2>1, <2>2, FS_Subset
<1>5. PICK g : g = [n \in S |-> ledger[n].body.quantities[l]]
  OBVIOUS
<1>6. \A n \in S : g[n] \in Nat
  BY <1>3, <1>5 DEF AmountsInv, CorrectionTyped
<1>7. Total(g, S) \in Nat
  BY <1>4, <1>6, TotalIn
<1> QED
  BY <1>1, <1>4, <1>5, <1>7, RefundedIs

(* What a quotient is.                                                     *)
LEMMA QuotientIs ==
  ASSUME NEW a \in Nat, NEW d \in Nat \ {0}
  PROVE  \E q \in Nat, r \in Nat : a \div d = q /\ a = d * q + r /\ r < d
<1>1. PICK q, r : q = a \div d /\ r = a % d
  OBVIOUS
<1>2. q \in Int /\ r \in Int /\ 0 <= r /\ r < d
  BY <1>1
<1>3. a = d * q + r
  BY <1>1
<1>4. q >= 0
  <2>1. SUFFICES ASSUME q <= -1 PROVE FALSE
    BY <1>2
  <2>2. PICK k \in Nat : q = -1 - k
    <3>1. -1 - q \in Nat /\ q = -1 - (-1 - q)
      BY <1>2, <2>1
    <3> QED
      BY <3>1
  <2>3. d * q = -d - d * k /\ d * k \in Nat
    BY <2>2
  <2> QED
    BY <1>2, <1>3, <2>3
<1> QED
  BY <1>1, <1>2, <1>3, <1>4

(* A quotient grows with its dividend.                                     *)
LEMMA QuotientGrows ==
  ASSUME NEW a \in Nat, NEW b \in Nat, NEW d \in Nat \ {0}, a <= b
  PROVE  a \div d \in Nat /\ b \div d \in Nat /\ a \div d <= b \div d
<1>1. PICK p \in Nat, r \in Nat : a \div d = p /\ a = d * p + r /\ r < d
  BY QuotientIs
<1>2. PICK q \in Nat, t \in Nat : b \div d = q /\ b = d * q + t /\ t < d
  BY QuotientIs
<1>3. p <= q
  <2>1. SUFFICES ASSUME p > q PROVE FALSE
    OBVIOUS
  <2>2. PICK k \in Nat : p = q + 1 + k
    <3>1. p - q - 1 \in Nat /\ p = q + 1 + (p - q - 1)
      BY <2>1
    <3> QED
      BY <3>1
  <2>3. d * p = d * q + d + d * k
    BY <2>2
  <2>4. PICK x \in Nat, y \in Nat, z \in Nat : x = d * p /\ y = d * q /\ z = d * k
    OBVIOUS
  <2>5. x = y + d + z /\ a = x + r /\ b = y + t
    BY <1>1, <1>2, <2>3, <2>4
  <2> QED
    BY <1>2, <2>5
<1> QED
  BY <1>1, <1>2, <1>3

(* The VAT included in a price grows with it.                              *)
LEMMA VatGrows ==
  ASSUME NEW x \in Nat, NEW y \in Nat, x <= y, NEW rate \in Nat
  PROVE  /\ CalculateIncludedVatCents(x, rate) \in Nat
         /\ CalculateIncludedVatCents(y, rate) \in Nat
         /\ CalculateIncludedVatCents(x, rate) <= CalculateIncludedVatCents(y, rate)
<1>1. PICK k \in Nat : y = x + k
  <2>1. y - x \in Nat /\ y = x + (y - x)
    OBVIOUS
  <2> QED
    BY <2>1
<1>2. /\ x * rate \in Nat /\ k * rate \in Nat
      /\ y * rate = x * rate + k * rate
  BY <1>1
<1>3. PICK u \in Nat, v \in Nat : u = x * rate /\ v = y * rate /\ u <= v
  BY <1>2
<1>4. PICK a, b, d : /\ a = 2 * u + 100 + rate
                     /\ b = 2 * v + 100 + rate
                     /\ d = 2 * (100 + rate)
  OBVIOUS
<1>5. a \in Nat /\ b \in Nat /\ d \in Nat \ {0} /\ a <= b
  BY <1>3, <1>4
<1>6. 2 * x * rate = 2 * u /\ 2 * y * rate = 2 * v
  BY <1>3
<1> QED
  BY <1>4, <1>5, <1>6, QuotientGrows DEF CalculateIncludedVatCents

(* The VAT a refund gives back is not negative.                            *)
LEMMA RefundVatOK ==
  ASSUME TypeOK, AmountsInv, NEW sale, NEW q \in [Lines -> Nat], NEW l \in Lines
  PROVE  RefundVat(ledger, sale, q)[l] >= 0
<1>1. PICK before \in Nat : before = RefundedQuantity(ledger, sale, l)
  BY RefundedOK
<1>2. PICK price \in Nat, rate \in Nat, n \in Nat :
        price = UnitPrice[l] /\ rate = VatRate[l] /\ n = q[l]
  BY LinesAssumption
<1>3. PICK x, y : x = price * before /\ y = price * (before + n)
  OBVIOUS
<1>4. x \in Nat /\ y \in Nat /\ x <= y
  <2>1. price * before \in Nat /\ price * n \in Nat
    OBVIOUS
  <2>2. price * (before + n) = price * before + price * n
    OBVIOUS
  <2> QED
    BY <1>3, <2>1, <2>2
<1>5. /\ CalculateIncludedVatCents(x, rate) \in Nat
      /\ CalculateIncludedVatCents(y, rate) \in Nat
      /\ CalculateIncludedVatCents(x, rate) <= CalculateIncludedVatCents(y, rate)
  BY <1>4, VatGrows
<1>6. RefundVat(ledger, sale, q)[l] =
        CalculateIncludedVatCents(y, rate) - CalculateIncludedVatCents(x, rate)
  BY <1>1, <1>2, <1>3 DEF RefundVat
<1> QED
  BY <1>5, <1>6

(* What corrections ask back: the VAT is not negative, and only a refund   *)
(* selects articles.                                                       *)
AskedInv ==
  \A r \in requests : r.kind = "correction" =>
    /\ \A l \in Lines : r.body.vat[l] >= 0
    /\ r.body.type # "refund" => r.body.quantities = NoQuantities

(* Only a service adds a request, and a correction is asked with what the  *)
(* journal says of the sale.                                               *)
LEMMA AskedStep ==
  ASSUME IInv, AmountsInv, AskedInv, [Next]_vars
  PROVE  AskedInv'
<1>1. CASE requests' \subseteq requests
  BY <1>1 DEF AskedInv
<1>2. ASSUME NEW op, NEW kind, NEW body, Post(op, kind, body),
             kind = "correction" =>
               /\ \A l \in Lines : body.vat[l] >= 0
               /\ body.type # "refund" => body.quantities = NoQuantities
      PROVE  AskedInv'
  <2>1. PICK r : /\ r = [op |-> op, kind |-> kind, at |-> clock, body |-> body]
                 /\ requests' = requests \cup {r}
    BY <1>2 DEF Post
  <2>2. r.kind = kind /\ r.body = body
    BY <2>1
  <2> QED
    BY <1>2, <2>1, <2>2 DEF AskedInv
<1>3. ASSUME NEW op, NEW sale, NEW type, NEW delta, NEW q \in [Lines -> Nat],
             type # "refund" => q = NoQuantities,
             RequestCorrection(op, sale, type, delta, q)
      PROVE  AskedInv'
  <2>1. PICK body : /\ body = [sale       |-> sale,
                               type       |-> type,
                               delta      |-> delta,
                               quantities |-> q,
                               vat        |-> RefundVat(ledger, sale, q)]
                    /\ Post(op, "correction", body)
    BY <1>3 DEF RequestCorrection
  <2>2. /\ body.vat = RefundVat(ledger, sale, q)
        /\ body.type = type
        /\ body.quantities = q
    BY <2>1
  <2>3. \A l \in Lines : body.vat[l] >= 0
    BY <2>2, RefundVatOK DEF IInv
  <2> QED
    BY <1>2, <1>3, <2>1, <2>2, <2>3
<1>4. CASE Service
  <2>1. PICK op \in Ops :
          \/ \E float \in Floats : RequestOpenSession(op, float)
          \/ \E float \in Floats : RequestUpdateFloat(op, float)
          \/ \E sale \in Sales : RequestCancelSale(op, sale)
          \/ \E sale \in Sales : \E quantities \in Selections(sale) :
               RequestRefundSale(op, sale, quantities)
          \/ \E sale \in Sales, delta \in Adjustments : RequestAdjustSale(op, sale, delta)
          \/ \E periodEnd \in Times : RequestClosePeriod(op, periodEnd)
    BY <1>4 DEF Service
  <2>2. CASE \/ \E float \in Floats : RequestOpenSession(op, float)
             \/ \E float \in Floats : RequestUpdateFloat(op, float)
             \/ \E periodEnd \in Times : RequestClosePeriod(op, periodEnd)
    BY <1>2, <2>2 DEF RequestOpenSession, RequestUpdateFloat, RequestClosePeriod,
                      CloseActiveSession
  <2>3. NoQuantities \in [Lines -> Nat]
    BY DEF NoQuantities
  <2>4. ASSUME NEW sale \in Sales, RequestCancelSale(op, sale)
        PROVE  AskedInv'
    BY <1>3, <2>3, <2>4 DEF RequestCancelSale
  <2>5. ASSUME NEW sale \in Sales, NEW q \in Selections(sale), RequestRefundSale(op, sale, q)
        PROVE  AskedInv'
    BY <1>3, <2>5, SelectionsTyped DEF RequestRefundSale
  <2>6. ASSUME NEW sale \in Sales, NEW delta \in Adjustments, RequestAdjustSale(op, sale, delta)
        PROVE  AskedInv'
    BY <1>3, <2>3, <2>6 DEF RequestAdjustSale
  <2> QED
    BY <2>1, <2>2, <2>4, <2>5, <2>6
<1>5. CASE Checkout \/ Repository \/ Tick \/ SetClockBack \/ UNCHANGED vars
  <2>1. requests' \subseteq requests
    BY <1>5 DEF Checkout, CreateCheckoutIntent, MarkCheckoutPaymentToVerify,
                ConfirmCheckoutPayment, AbandonCheckoutIntent, FinalizeCheckoutIntent,
                Repository, OpenCashSession, UpdateCashFloat, RecordCorrection, ClosePeriod,
                Settle, Journal, Tick, SetClockBack, vars, callVars
  <2> QED
    BY <1>1, <2>1
<1> QED
  BY <1>4, <1>5 DEF Next

(* The server finds the end of the last closure and the active session     *)
(* where the register has them.                                            *)
LEMMA ServerFinds ==
  ASSUME IInv, AuditInv
  PROVE  /\ PreviousEnd(ledger) = metadata.lastClosureEnd
         /\ ServerActive(ledger) = ActiveNow(ledger)
<1>1. PreviousEnd(ledger) = metadata.lastClosureEnd
  BY DEF AuditInv, LastEndKept, PreviousEnd
<1>2. Len(ledger) \in Nat /\ DOMAIN ledger = 1..Len(ledger)
  BY LedgerIsJournal DEF IInv
<1>3. PICK opened : opened = OfKind(ledger, "cash_session_opened")
  OBVIOUS
<1>4. opened \subseteq 1..Len(ledger)
  BY <1>2, <1>3 DEF OfKind
<1>5. PICK last : last = IF opened = {} THEN 0 ELSE Max(opened)
  OBVIOUS
<1>6. opened # {} => last \in opened /\ last # 0
  <2>1. SUFFICES ASSUME opened # {} PROVE last \in opened /\ last # 0
    OBVIOUS
  <2>2. last = Max(opened)
    BY <1>5, <2>1
  <2>3. Max(opened) \in opened
    BY <1>2, <1>4, <2>1, MaxIsElement
  <2> QED
    BY <1>2, <1>4, <2>2, <2>3
<1>7. ActiveNow(ledger) \in {0, last}
  <2>1. PICK k : k = Len(ledger) + 1
    OBVIOUS
  <2> DEFINE soFar == {m \in OfKind(ledger, "cash_session_opened") : m < k}
  <2>2. soFar = opened
    BY <1>2, <1>3, <1>4, <2>1
  <2>3. \/ ActiveBefore(ledger, k) = 0
        \/ ActiveBefore(ledger, k) = IF soFar = {} THEN 0 ELSE Max(soFar)
    BY DEF ActiveBefore
  <2>4. ActiveNow(ledger) = ActiveBefore(ledger, k)
    BY <2>1 DEF ActiveNow
  <2> HIDE DEF soFar
  <2> QED
    BY <1>5, <2>2, <2>3, <2>4
<1>8. opened # {} =>
        (~IsClosed(ledger, ledger[last].body.session) <=> last \in OpenSessions(ledger))
  BY <1>3, <1>6 DEF OpenSessions
<1>9. opened # {} => (last \in OpenSessions(ledger) <=> ActiveNow(ledger) = last)
  BY <1>6, <1>7 DEF AuditInv, SessionsAgree
<1>10. ServerActive(ledger) =
         IF opened = {} \/ IsClosed(ledger, ledger[last].body.session) THEN 0 ELSE last
  BY <1>3, <1>5 DEF ServerActive
<1>11. ServerActive(ledger) = ActiveNow(ledger)
  <2>1. CASE opened = {}
    BY <1>5, <1>7, <1>10, <2>1
  <2>2. CASE opened # {}
    BY <1>6, <1>7, <1>8, <1>9, <1>10, <2>2
  <2> QED
    BY <2>1, <2>2
<1> QED
  BY <1>1, <1>11

(* The server's totals of a period are the register's.                     *)
LEMMA TotalsAgree ==
  ASSUME IInv, AmountsInv, NEW from, NEW to
  PROVE  /\ CalculateClosureTotals(ledger, from, to) = ServerTotals(ledger, from, to)
         /\ CalculateClosureTotals(ledger, from, to).grossSales >= 0
<1>1. /\ IsFiniteSet(Financial(ledger))
      /\ \A n \in Financial(ledger) : Amount(ledger[n]) \in Int
  BY FinancialAmounts DEF IInv
<1>2. PICK period, before, sales, cash, card :
        /\ period = InPeriod(ledger, from, to)
        /\ before = {n \in Financial(ledger) : ledger[n].recordedAt < to}
        /\ sales = period \cap OfKind(ledger, "sale")
        /\ cash = {n \in period : ledger[n].body.sale \in CashSales}
        /\ card = period \ cash
  OBVIOUS
<1>3. period \subseteq Financial(ledger)
  BY <1>2 DEF InPeriod
<1>4. period = {n \in before : ledger[n].recordedAt >= from}
  <2>1. \A n \in Financial(ledger) : ledger[n].recordedAt >= from <=> from <= ledger[n].recordedAt
    OBVIOUS
  <2> QED
    BY <1>2, <2>1 DEF InPeriod
<1>5. card = {n \in period : ledger[n].body.sale \in Sales \ CashSales}
  <2>1. \A n \in period : ledger[n].body.sale \in Sales
    BY <1>3 DEF Financial, OfKind, IInv, TypeOK, EntryOK, BodyOK
  <2> QED
    BY <1>2, <2>1
<1>6. IsFiniteSet(sales) /\ IsFiniteSet(period \ sales)
  BY <1>1, <1>2, <1>3, FS_Subset
<1>7. NetOf(ledger, period) = NetOf(ledger, sales) + NetOf(ledger, period \ sales)
  <2>1. period = sales \cup (period \ sales) /\ sales \cap (period \ sales) = {}
    BY <1>2
  <2>2. \A n \in sales \cup (period \ sales) : Amount(ledger[n]) \in Int
    BY <1>1, <1>3, <2>1
  <2>3. NetOf(ledger, sales \cup (period \ sales)) =
          NetOf(ledger, sales) + NetOf(ledger, period \ sales)
    BY <1>6, <2>1, <2>2, NetOfUnion
  <2> QED
    BY <2>1, <2>3
<1>8. NetOf(ledger, sales) \in Nat
  <2>1. PICK g : g = [n \in sales |-> Amount(ledger[n])]
    OBVIOUS
  <2>2. ASSUME NEW n \in sales
        PROVE  g[n] \in Nat
    <3>1. ledger[n].kind = "sale" /\ ledger[n].body.sale \in Sales
      BY <1>2 DEF OfKind, IInv, TypeOK, EntryOK, BodyOK
    <3> QED
      BY <2>1, <3>1, SaleTotalOK DEF Amount
  <2>3. Total(g, sales) \in Nat
    BY <1>6, <2>2, TotalIn
  <2> QED
    BY <1>6, <2>1, <2>3, NetIs
<1>9. CalculateClosureTotals(ledger, from, to) =
        [saleCount       |-> Cardinality(sales),
         grossSales      |-> NetOf(ledger, sales),
         correctionCount |-> Cardinality(period \ sales),
         correctionTotal |-> NetOf(ledger, period \ sales),
         netTotal        |-> NetOf(ledger, period),
         cash            |-> NetOf(ledger, cash),
         card            |-> NetOf(ledger, card),
         cumulativeNet   |-> NetOf(ledger, before)]
  BY <1>2 DEF CalculateClosureTotals
<1>10. ServerTotals(ledger, from, to) =
        [saleCount       |-> Cardinality(sales),
         grossSales      |-> NetOf(ledger, sales),
         correctionCount |-> Cardinality(period \ sales),
         correctionTotal |-> NetOf(ledger, period \ sales),
         netTotal        |-> NetOf(ledger, sales) + NetOf(ledger, period \ sales),
         cash            |-> NetOf(ledger, cash),
         card            |-> NetOf(ledger, card),
         cumulativeNet   |-> NetOf(ledger, before)]
  BY <1>2, <1>4, <1>5 DEF ServerTotals
<1> QED
  BY <1>7, <1>8, <1>9, <1>10

(* An appended entry the server accepts is the only new one it meets.      *)
LEMMA AcceptAppend ==
  ASSUME IInv, ServerAccepts, NEW e, ledger' = Append(ledger, e),
         ValidatePayload(e), ValidateBusiness(ledger, e)
  PROVE  ServerAccepts'
<1>1. /\ IsJournal(ledger) /\ Len(ledger) \in Nat /\ DOMAIN ledger = 1..Len(ledger)
  BY LedgerIsJournal DEF IInv
<1>2. /\ DOMAIN ledger' = 1..(Len(ledger) + 1)
      /\ \A n \in 1..Len(ledger) : ledger'[n] = ledger[n]
      /\ ledger'[Len(ledger) + 1] = e
  BY <1>1, AppendJournal
<1>3. /\ \A n \in 1..Len(ledger) : Before(ledger', n) = Before(ledger, n)
      /\ Before(ledger', Len(ledger) + 1) = ledger
  BY <1>1, BeforeAppend
<1>4. \A n \in 1..Len(ledger) :
        ValidatePayload(ledger'[n]) /\ ValidateBusiness(Before(ledger', n), ledger'[n])
  BY <1>1, <1>2, <1>3 DEF ServerAccepts
<1>5. \A n \in 1..(Len(ledger) + 1) : n \in 1..Len(ledger) \/ n = Len(ledger) + 1
  BY <1>1
<1>6. \A n \in DOMAIN ledger' :
        ValidatePayload(ledger'[n]) /\ ValidateBusiness(Before(ledger', n), ledger'[n])
  BY <1>2, <1>3, <1>4, <1>5
<1> QED
  BY <1>6 DEF ServerAccepts

(* What every entry has: a sequence of its own.                            *)
LEMMA SequenceOK ==
  ASSUME IInv, NEW kind, NEW key, NEW at, NEW body, NEW e,
         e = NewEntry(metadata, kind, key, at, body)
  PROVE  e.sequence >= 1 /\ e.kind = kind /\ e.recordedAt = at /\ e.body = body
<1>1. metadata.nextJournalSequence \in Nat \ {0}
  BY DEF IInv, TypeOK, Metadata
<1> QED
  BY <1>1 DEF NewEntry

(* A sale counts after the last closure.                                   *)
LEMMA FinalizeAccepted ==
  ASSUME \A sale \in Sales : ValidateOrder(sale),
         IInv, AuditInv, ServerAccepts, NEW i \in Sales, FinalizeCheckoutIntent(i)
  PROVE  ServerAccepts'
<1>1. PICK body, e : /\ body = SaleBody(i, metadata)
                     /\ e = NewEntry(metadata, "sale", i, confirmedAt[i], body)
                     /\ ledger' = Append(ledger, e)
  BY DEF FinalizeCheckoutIntent
<1>2. /\ e.sequence >= 1 /\ e.kind = "sale"
      /\ e.recordedAt = confirmedAt[i] /\ e.body = body
  BY <1>1, SequenceOK
<1>3. body.sale = i
  BY <1>1 DEF SaleBody
<1>4. ValidatePayload(e)
  BY <1>2, <1>3 DEF ValidatePayload
<1>5. status[i] = "payment_confirmed" /\ AfterLastClosure(confirmedAt[i])
  BY DEF FinalizeCheckoutIntent, CanFinalize
<1>6. confirmedAt[i] \in Nat
  BY <1>5 DEF IInv, TypeOK, Times
<1>7. confirmedAt[i] >= PreviousEnd(ledger)
  BY <1>5, <1>6, ServerFinds DEF AfterLastClosure, NoTime
<1>8. ValidateBusiness(ledger, e)
  BY <1>2, <1>7 DEF ValidateBusiness
<1> QED
  BY <1>1, <1>4, <1>8, AcceptAppend

(* A session is opened when none is active, at the end of the last closure. *)
LEMMA OpenAccepted ==
  ASSUME IInv, AuditInv, ServerAccepts, NEW r \in requests, OpenCashSession(r)
  PROVE  ServerAccepts'
<1>1. PICK e : /\ e = NewEntry(metadata, "cash_session_opened", r.op, r.at, r.body)
               /\ ledger' = Append(ledger, e)
  BY DEF OpenCashSession, Journal
<1>2. /\ e.sequence >= 1 /\ e.kind = "cash_session_opened"
      /\ e.recordedAt = r.at /\ e.body = r.body
  BY <1>1, SequenceOK
<1>3. /\ r.kind = "cash_session_opened"
      /\ r.body.periodStart <= r.at
      /\ FollowsLastClosure(r.body.periodStart)
      /\ GetActiveCashSession(ledger) = NoSession
  BY DEF OpenCashSession
<1>4. r.body.float \in Nat
  BY <1>3, ParametersAssumption DEF IInv, TypeOK, RequestOK, BodyOK
<1>5. ValidatePayload(e)
  BY <1>2, <1>3, <1>4 DEF ValidatePayload
<1>6. ServerActive(ledger) = 0
  BY <1>3, ActiveSessionIs, ServerFinds DEF IInv, AuditInv
<1>7. PreviousEnd(ledger) # NoTime => r.body.periodStart = PreviousEnd(ledger)
  BY <1>3, ServerFinds DEF FollowsLastClosure
<1>8. ValidateBusiness(ledger, e)
  BY <1>2, <1>6, <1>7 DEF ValidateBusiness
<1> QED
  BY <1>1, <1>5, <1>8, AcceptAppend

(* The float changed is the one of the active session.                     *)
LEMMA UpdateFloatAccepted ==
  ASSUME IInv, AuditInv, ServerAccepts, NEW r \in requests, UpdateCashFloat(r)
  PROVE  ServerAccepts'
<1>1. PICK e : /\ e = NewEntry(metadata, "cash_float_updated", r.op, r.at, r.body)
               /\ ledger' = Append(ledger, e)
  BY DEF UpdateCashFloat, Journal
<1>2. e.sequence >= 1 /\ e.kind = "cash_float_updated" /\ e.body = r.body
  BY <1>1, SequenceOK
<1>3. /\ r.kind = "cash_float_updated"
      /\ GetActiveCashSession(ledger).id = r.body.session
      /\ GetActiveCashSession(ledger).float = r.body.previous
  BY DEF UpdateCashFloat, SameSession
<1>4. r.body.float \in Nat /\ r.body.previous \in Nat
  BY <1>3, ParametersAssumption DEF IInv, TypeOK, RequestOK, BodyOK
<1>5. ValidatePayload(e)
  BY <1>2, <1>4 DEF ValidatePayload
<1>6. GetActiveCashSession(ledger) # NoSession
  BY <1>3, <1>4 DEF NoSession, NoTime
<1>7. /\ ActiveNow(ledger) # 0
      /\ ledger[ActiveNow(ledger)].body.session = r.body.session
      /\ r.body.previous = CurrentFloat(ledger, ActiveNow(ledger))
  BY <1>3, <1>6, ActiveSessionIs DEF IInv, AuditInv
<1>8. FloatAccepted(ledger, r.body)
  BY <1>7, ServerFinds DEF FloatAccepted, ServerFloat
<1>9. ValidateBusiness(ledger, e)
  BY <1>2, <1>8 DEF ValidateBusiness
<1> QED
  BY <1>1, <1>5, <1>9, AcceptAppend

(* A closure closes the active session, and its totals are the server's.   *)
LEMMA CloseAccepted ==
  ASSUME IInv, AuditInv, AmountsInv, ServerAccepts, NEW r \in requests, ClosePeriod(r)
  PROVE  ServerAccepts'
<1>1. PICK totals, body, e :
        /\ totals = CalculateClosureTotals(ledger, r.body.periodStart, r.body.periodEnd)
        /\ body = [session         |-> r.body.session,
                   periodStart     |-> r.body.periodStart,
                   periodEnd       |-> r.body.periodEnd,
                   float           |-> r.body.float,
                   totals          |-> totals,
                   theoreticalCash |-> TheoreticalCash(r.body.float, totals)]
        /\ e = NewEntry(metadata, "closure", r.op, r.at, body)
        /\ ledger' = Append(ledger, e)
  BY DEF ClosePeriod, Journal
<1>2. e.sequence >= 1 /\ e.kind = "closure" /\ e.recordedAt = r.at /\ e.body = body
  BY <1>1, SequenceOK
<1>3. /\ r.kind = "closure"
      /\ r.body.periodStart < r.body.periodEnd
      /\ r.body.periodEnd <= r.at
      /\ FollowsLastClosure(r.body.periodStart)
      /\ GetActiveCashSession(ledger).id = r.body.session
      /\ GetActiveCashSession(ledger).float = r.body.float
      /\ GetActiveCashSession(ledger).periodStart = r.body.periodStart
  BY DEF ClosePeriod, SameSession
<1>4. r.body.float \in Nat
  BY <1>3, ParametersAssumption DEF IInv, TypeOK, RequestOK, BodyOK
<1>5. /\ body.session = r.body.session
      /\ body.periodStart = r.body.periodStart
      /\ body.periodEnd = r.body.periodEnd
      /\ body.float = r.body.float
      /\ body.totals = totals
      /\ body.theoreticalCash = TheoreticalCash(r.body.float, totals)
  BY <1>1
<1>6. /\ totals = ServerTotals(ledger, r.body.periodStart, r.body.periodEnd)
      /\ totals.grossSales >= 0
  BY <1>1, TotalsAgree
<1>7. ValidatePayload(e)
  BY <1>2, <1>3, <1>4, <1>5, <1>6 DEF ValidatePayload
<1>8. GetActiveCashSession(ledger) # NoSession
  BY <1>3, <1>4 DEF NoSession, NoTime
<1>9. /\ ActiveNow(ledger) # 0
      /\ ledger[ActiveNow(ledger)].body.session = r.body.session
      /\ ledger[ActiveNow(ledger)].body.periodStart = r.body.periodStart
      /\ r.body.float = CurrentFloat(ledger, ActiveNow(ledger))
  BY <1>3, <1>8, ActiveSessionIs DEF IInv, AuditInv
<1>10. ClosureAccepted(ledger, e)
  BY <1>2, <1>5, <1>6, <1>9, ServerFinds DEF ClosureAccepted, ServerFloat, TheoreticalCash
<1>11. PreviousEnd(ledger) # NoTime => r.body.periodStart = PreviousEnd(ledger)
  BY <1>3, ServerFinds DEF FollowsLastClosure
<1>12. ValidateBusiness(ledger, e)
  BY <1>2, <1>5, <1>10, <1>11 DEF ValidateBusiness
<1> QED
  BY <1>1, <1>7, <1>12, AcceptAppend

(* A correction passes on the server the checks it passed on the register. *)
LEMMA CorrectionAccepts ==
  ASSUME IInv, AuditInv, AskedInv, ServerAccepts, NEW r \in requests, RecordCorrection(r)
  PROVE  ServerAccepts'
<1>1. PICK o, body, e :
        /\ o \in orders
        /\ o.id = r.body.sale
        /\ body = [sale             |-> o.id,
                   type             |-> r.body.type,
                   delta            |-> r.body.delta,
                   quantities       |-> r.body.quantities,
                   vat              |-> r.body.vat,
                   originalSaleHash |-> o.hash]
        /\ e = NewEntry(metadata, "correction", r.op, r.at, body)
        /\ ledger' = Append(ledger, e)
  BY DEF RecordCorrection, Journal
<1>2. e.sequence >= 1 /\ e.kind = "correction" /\ e.recordedAt = r.at /\ e.body = body
  BY <1>1, SequenceOK
<1>3. /\ body.sale = r.body.sale
      /\ body.type = r.body.type
      /\ body.delta = r.body.delta
      /\ body.quantities = r.body.quantities
      /\ body.vat = r.body.vat
      /\ body.originalSaleHash = o.hash
  BY <1>1
<1>4. /\ r.kind = "correction"
      /\ AfterLastClosure(r.at)
      /\ ValidateCorrection(ledger, r.body)
  BY DEF RecordCorrection
<1>5. r.body.type \in {"cancellation", "refund", "adjustment"} /\ r.at \in Nat
  BY <1>4 DEF IInv, TypeOK, RequestOK, BodyOK, Times
<1>6. /\ \A l \in Lines : r.body.vat[l] >= 0
      /\ r.body.type # "refund" => r.body.quantities = NoQuantities
  BY <1>4 DEF AskedInv
<1>7. r.body.type = "refund" <=> \E l \in Lines : r.body.quantities[l] > 0
  <2>1. \A l \in Lines : ~(NoQuantities[l] > 0)
    BY DEF NoQuantities
  <2>2. r.body.type = "refund" => \E l \in Lines : r.body.quantities[l] > 0
    BY <1>4 DEF ValidateCorrection, ValidateStructuredRefund
  <2> QED
    BY <1>6, <2>1, <2>2
<1>8. r.body.delta # 0 /\ (r.body.type # "adjustment" => r.body.delta < 0)
  BY <1>4, <1>5 DEF ValidateCorrection
<1>9. ValidatePayload(e)
  BY <1>2, <1>3, <1>5, <1>6, <1>7, <1>8 DEF ValidatePayload
<1>10. \E n \in OfKind(ledger, "sale") :
         ledger[n].body.sale = body.sale /\ HashOf(ledger[n]) = body.originalSaleHash
  <2>1. PICK n \in OfKind(ledger, "sale") :
          /\ HashOf(ledger[n]) = o.hash
          /\ ledger[n].body = [sale          |-> o.id,
                               orderNumber   |-> o.orderNumber,
                               receiptNumber |-> o.receiptNumber]
    BY <1>1 DEF AuditInv, OrdersMatchJournal
  <2>2. ledger[n].body.sale = o.id
    BY <2>1
  <2> QED
    BY <1>1, <1>3, <2>1, <2>2
<1>11. body.type = "refund" => RefundAccepted(ledger, body)
  <2>1. SUFFICES ASSUME r.body.type = "refund" PROVE RefundAccepted(ledger, body)
    BY <1>3
  <2>2. /\ \A l \in Lines :
             r.body.quantities[l] + RefundedQuantity(ledger, r.body.sale, l)
               <= Sold[r.body.sale][l]
        /\ r.body.vat = RefundVat(ledger, r.body.sale, r.body.quantities)
    BY <1>4, <2>1 DEF ValidateCorrection, ValidateStructuredRefund
  <2> QED
    BY <1>3, <2>2 DEF RefundAccepted, RefundVat
<1>12. CorrectionAccepted(ledger, body)
  BY <1>3, <1>4, <1>10, <1>11 DEF CorrectionAccepted, ValidateCorrection
<1>13. r.at >= PreviousEnd(ledger)
  BY <1>4, <1>5, ServerFinds DEF AfterLastClosure, NoTime
<1>14. ValidateBusiness(ledger, e)
  BY <1>2, <1>12, <1>13 DEF ValidateBusiness
<1> QED
  BY <1>1, <1>9, <1>14, AcceptAppend

(* Every step keeps the journal acceptable.                                *)
LEMMA AcceptStep ==
  ASSUME \A sale \in Sales : ValidateOrder(sale),
         IInv, AuditInv, AmountsInv, AskedInv, ServerAccepts, [Next]_vars
  PROVE  ServerAccepts'
<1>1. CASE ledger' = ledger
  BY <1>1 DEF ServerAccepts
<1>2. CASE Checkout
  <2>1. ASSUME NEW i \in Sales,
               \/ CreateCheckoutIntent(i)
               \/ MarkCheckoutPaymentToVerify(i)
               \/ ConfirmCheckoutPayment(i)
               \/ AbandonCheckoutIntent(i)
        PROVE  ledger' = ledger
    BY <2>1 DEF CreateCheckoutIntent, MarkCheckoutPaymentToVerify,
                ConfirmCheckoutPayment, AbandonCheckoutIntent, storeVars
  <2> QED
    BY <1>1, <1>2, <2>1, FinalizeAccepted DEF Checkout
<1>3. CASE Service
  BY <1>1, <1>3 DEF Service, RequestOpenSession, RequestUpdateFloat, RequestCancelSale,
                    RequestRefundSale, RequestAdjustSale, RequestCorrection,
                    RequestClosePeriod, CloseActiveSession, Post, storeVars
<1>4. ASSUME NEW r \in requests, Settle(r)
      PROVE  ServerAccepts'
  BY <1>1, <1>4 DEF Settle, storeVars
<1>5. CASE Repository
  BY <1>4, <1>5, OpenAccepted, UpdateFloatAccepted, CorrectionAccepts, CloseAccepted
     DEF Repository
<1>6. CASE Tick \/ SetClockBack \/ UNCHANGED vars
  BY <1>1, <1>6 DEF Tick, SetClockBack, vars, storeVars
<1> QED
  BY <1>2, <1>3, <1>5, <1>6 DEF Next

(* An empty journal is accepted, and so is that of an upgraded register.   *)
LEMMA InitAccepts ==
  ASSUME \A sale \in Sales : ValidateOrder(sale), Init
  PROVE  AskedInv /\ ServerAccepts
<1>1. AskedInv
  BY DEF Init, AskedInv
<1>2. CASE EmptyRegister
  <2>1. DOMAIN ledger = {}
    BY <1>2 DEF EmptyRegister
  <2> QED
    BY <1>1, <2>1 DEF ServerAccepts
<1>3. ASSUME NEW i \in LegacySales, CreateOrder(i)
      PROVE  ServerAccepts
  <2>1. PICK body, e : /\ body = SaleBody(i, EmptyMetadata)
                       /\ e = NewEntry(EmptyMetadata, "sale", i, 0, body)
                       /\ ledger = <<e>>
    BY <1>3 DEF CreateOrder
  <2>2. e.sequence = 1 /\ e.kind = "sale" /\ e.recordedAt = 0 /\ e.body = body
    BY <2>1 DEF NewEntry, EmptyMetadata
  <2>3. body.sale = i /\ i \in Sales
    BY <2>1, ParametersAssumption DEF SaleBody
  <2>4. ValidatePayload(e)
    BY <2>2, <2>3 DEF ValidatePayload
  <2>5. PICK prefix : prefix = Before(ledger, 1)
    OBVIOUS
  <2>6. DOMAIN prefix = {}
    BY <2>1, <2>5 DEF Before
  <2>7. PreviousEnd(prefix) = NoTime
    BY <2>6 DEF PreviousEnd, OfKind
  <2>8. ValidateBusiness(prefix, e)
    BY <2>2, <2>7 DEF ValidateBusiness, NoTime
  <2>9. DOMAIN ledger = {1} /\ ledger[1] = e
    BY <2>1
  <2> QED
    BY <2>4, <2>5, <2>8, <2>9 DEF ServerAccepts
<1> QED
  BY <1>1, <1>2, <1>3 DEF Init

(* The server accepts every entry the register ever seals: the rules of    *)
(* business.ts, written apart from those of orderRepository.ts, refuse     *)
(* nothing that these let through, whatever the clicks, the retries and    *)
(* the clock did, in amounts and VAT too.  A cart holds at least one       *)
(* article, each at a rate the server knows: validateOrderDraft of         *)
(* orderValidation.ts lets no other become an intent.                      *)
THEOREM ServerAcceptsTheJournal ==
  ASSUME \A sale \in Sales : ValidateOrder(sale)
  PROVE  Spec => []ServerAccepts
<1> DEFINE Inv == AuditInv /\ AmountsInv /\ AskedInv /\ ServerAccepts
<1>1. Init => Inv
  BY InitAudit, InitTiles, InitAccepts
<1>2. IInv /\ Inv /\ [Next]_vars => Inv'
  BY AuditStep, AmountsStep, AskedStep, AcceptStep
<1> QED
  BY <1>1, <1>2, Invariance, PTL DEF Spec

=============================================================================
