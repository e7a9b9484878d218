----------------------- MODULE JournalIngestionProofs -----------------------
(***************************************************************************)
(* What the server stores passes its offline audit at every moment, a      *)
(* refusal never hides what was stored, an acknowledgement is kept, and a  *)
(* revoked tablet stores nothing: for any journals, copies of them, calls, *)
(* reruns, lost answers and crashes.                                       *)
(*                                                                         *)
(* A transaction is computed on what is committed, and applied steps       *)
(* later, by an answer, by a lost one, or by the database alone once its   *)
(* call is gone.  The invariant says that it still fits: OpenInv is what   *)
(* the open transaction owes to the evidence, which nothing else changes   *)
(* while it holds the fence.                                               *)
(***************************************************************************)
EXTENDS JournalIngestion, SequenceTheorems, WellFoundedInduction, TLAPS

Subjects == {e.about : e \in Entries} \cup UNION {Unsealed[t] : t \in Tablets}
Digests == {e.digest : e \in Entries} \cup {NoSeal}
ChainHead == [sequence : Nat, digest : Digests]

Event == [chain : Chains, sequence : Nat \ {0}, entry : Entries, tablet : Tablets]
Sale == [chain : Chains, order : Subjects, type : {"sealed", "legacy"}, seal : Digests]
ReceiptDoc ==
  [chain : Chains, type : {"ledger", "legacy"}, id : {e.id : e \in Entries} \cup Subjects,
   receipt : Nat \X Nat]

Call ==
  [tablet : Tablets, kind : {"ledger", "legacy"}, journal : Seq(Entries), lot : SUBSET Nat,
   expected : ChainHead, orders : SUBSET Subjects, phase : {"work", "commit", "answered", "lost"},
   attempt : Nat, commits : Nat, uncertain : BOOLEAN,
   verdict : {"none", "committed", "auth", "permanent", "recovery", "temporary"},
   acks : SUBSET ReceiptDoc]

\* A call carries a range of a journal, or orders without an entry.
Lotted(call) ==
  IF call.kind = "ledger"
  THEN /\ call.orders = {}
       /\ \E first, last \in DOMAIN call.journal : first <= last /\ call.lot = first..last
  ELSE call.lot = {}

DbOK ==
  db \in [events : SUBSET Event, sales : SUBSET Sale, receipts : SUBSET ReceiptDoc,
          head : [Chains -> ChainHead], spent : SUBSET Nat, revoked : SUBSET Tablets]

OpenOK ==
  /\ open \in [call : Nat, chain : Chains \cup {NoTransaction.chain}, events : SUBSET Event,
               sales : SUBSET Sale, receipts : SUBSET ReceiptDoc, head : ChainHead, asked : BOOLEAN]
  /\ open.call = 0 => open = NoTransaction

CallsOK ==
  /\ calls \in Seq(Call)
  /\ \A k \in DOMAIN calls : Lotted(calls[k])
  /\ db.spent \subseteq DOMAIN calls
  /\ open.call \in {0} \cup DOMAIN calls
  /\ open.call \notin db.spent

(* The evidence: what the audit checks, and that it leads to: an entry has *)
(* its place for itself, the head is the last one.                         *)
EvidenceInv ==
  /\ EvidenceSound
  /\ \A s, r \in db.events : s.chain = r.chain /\ s.sequence = r.sequence => s = r
  /\ \A s \in db.events :
       s.sequence = db.head[s.chain].sequence => s.entry.digest = db.head[s.chain].digest
  /\ \A c \in Chains : db.head[c].sequence = 0 => db.head[c] = NoHead
  /\ \A r, q \in db.receipts : r.chain = q.chain /\ r.type = q.type /\ r.id = q.id => r = q

(* The open transaction, in four parts.  Its entries continue the chain.   *)
OpenChain ==
  LET head == db.head[open.chain]
  IN  /\ {s.sequence : s \in open.events} = head.sequence + 1 .. open.head.sequence
      /\ open.head = head \/ open.head.sequence > head.sequence
      /\ \A s, r \in open.events : s.sequence = r.sequence => s = r
      /\ \A s \in open.events :
           /\ s.chain = open.chain /\ s.tablet \notin db.revoked
           /\ s.sequence = open.head.sequence => s.entry.digest = open.head.digest
           /\ s.sequence = head.sequence + 1 => Front(s.entry.digest) = head.digest
           /\ \A r \in open.events :
                r.sequence = s.sequence + 1 => Front(r.entry.digest) = s.entry.digest

(* What they refer to is stored, or comes with them.                       *)
OpenReferences ==
  \A s \in open.events :
    /\ \E r \in open.receipts : r.type = "ledger" /\ r.id = s.entry.id
    /\ s.entry.kind = "sale" =>
         \E d \in open.sales : d.order = s.entry.about /\ d.seal = s.entry.digest
    /\ s.entry.kind = "correction" =>
         \E d \in db.sales \cup open.sales :
           d.chain = open.chain /\ d.order = s.entry.about /\ d.seal = s.entry.seal
    /\ s.entry.kind \in {"closure", "counted"} =>
         \E r \in db.events \cup open.events :
           /\ r.chain = open.chain /\ r.entry.kind = "opened" /\ r.entry.about = s.entry.about
           /\ r.sequence < s.sequence

(* Its orders are sold by nobody else, its receipts are the first ones.    *)
OpenSales ==
  /\ \A d, e \in open.sales : d.order = e.order => d = e
  /\ \A d \in open.sales :
       /\ d.chain = open.chain /\ SaleOf(d.order) = {}
       /\ d.type = "sealed" =>
            \E s \in open.events : s.entry.kind = "sale" /\ s.entry.about = d.order
                                   /\ s.entry.digest = d.seal
       /\ d.type = "legacy" => \E r \in open.receipts : r.type = "legacy" /\ r.id = d.order

OpenReceipts ==
  /\ \A r, q \in open.receipts : r.type = q.type /\ r.id = q.id => r = q
  /\ \A r \in open.receipts :
       /\ r.chain = open.chain
       /\ r.type = "ledger" =>
            Stored(r.chain, r.id) = {} /\ \E s \in open.events : s.entry.id = r.id
       /\ r.type = "legacy" =>
            SaleOf(r.id) = {} /\ \E d \in open.sales : d.order = r.id /\ d.type = "legacy"

OpenInv ==
  open.call # 0 =>
    open.chain \in Chains /\ OpenChain /\ OpenReferences /\ OpenSales /\ OpenReceipts

(* A call that may still be refused, or was, has stored nothing and never  *)
(* will; what a call acknowledges is stored with it.                       *)
CallPart(k) ==
  LET call == calls[k]
  IN  /\ call.phase \in {"work", "commit"} => call.verdict = "none"
      /\ call.phase = "work" \/ call.verdict \in {"auth", "permanent", "recovery"} =>
           k \notin db.spent /\ open.call # k
      /\ call.phase = "commit" /\ open.call = k => call.acks \subseteq db.receipts \cup open.receipts
      /\ call.phase = "commit" /\ k \in db.spent => call.acks \subseteq db.receipts
      /\ call.verdict = "committed" => call.acks \subseteq db.receipts

CallInv == \A k \in DOMAIN calls : CallPart(k)

IInv == DbOK /\ OpenOK /\ CallsOK /\ EvidenceInv /\ OpenInv /\ CallInv
-----------------------------------------------------------------------------
(* First and last elements.                                                *)

LEMMA FirstIsElement ==
  ASSUME NEW S, S \subseteq Nat, S # {}
  PROVE  FirstOf(S) \in S /\ \A n \in S : FirstOf(S) <= n
<1>1. PICK x \in S : \A y \in S : ~(<<y, x>> \in OpToRel(<, Nat))
  BY WFMin, NatLessThanWellFounded
<1>2. ASSUME NEW y \in S
      PROVE  x <= y
  <2>1. x \in Nat /\ y \in Nat
    OBVIOUS
  <2>2. ~(y < x)
    BY <1>1, <2>1 DEF OpToRel
  <2> QED
    BY <2>1, <2>2
<1> QED
  BY <1>2 DEF FirstOf

LEMMA LastIsElement ==
  ASSUME NEW m \in Nat, NEW n \in Nat, NEW S, S \subseteq m..n, S # {}
  PROVE  LastOf(S) \in S
<1> DEFINE T == {n - i : i \in S}
<1>1. T \subseteq Nat /\ T # {}
  <2>1. \A i \in S : n - i \in Nat
    OBVIOUS
  <2> QED
    BY <2>1
<1>2. FirstOf(T) \in T /\ \A i \in T : FirstOf(T) <= i
  BY <1>1, FirstIsElement
<1>3. PICK x \in S : FirstOf(T) = n - x
  BY <1>2
<1>4. \A y \in S : n - x <= n - y
  BY <1>2, <1>3
<1>5. \A y \in S : y <= x
  BY <1>4
<1> QED
  BY <1>5 DEF LastOf

LEMMA LastOfRange ==
  ASSUME NEW m \in Nat, NEW n \in Nat, m <= n
  PROVE  LastOf(m..n) = n
<1>1. n \in m..n /\ \A i \in m..n : i <= n
  OBVIOUS
<1>2. \A i \in m..n : (\A j \in m..n : j <= i) => i = n
  BY <1>1
<1> QED
  BY <1>1, <1>2 DEF LastOf

-----------------------------------------------------------------------------
(* The open transaction is applied.                                        *)

(* What Applied does to each part of the database.                         *)
LEMMA AppliedParts ==
  ASSUME DbOK, OpenOK, open.call # 0, open.chain \in Chains, db' = Applied
  PROVE  /\ db'.events = db.events \cup open.events
         /\ db'.sales = db.sales \cup open.sales
         /\ db'.receipts = db.receipts \cup open.receipts
         /\ db'.head = [db.head EXCEPT ![open.chain] = open.head]
         /\ db'.spent = db.spent \cup {open.call}
         /\ db'.revoked = db.revoked
         /\ DbOK'
<1>1. db \in [events : SUBSET Event, sales : SUBSET Sale, receipts : SUBSET ReceiptDoc,
              head : [Chains -> ChainHead], spent : SUBSET Nat, revoked : SUBSET Tablets]
  BY DEF DbOK
<1>2. db' = [events |-> db.events \cup open.events, sales |-> db.sales \cup open.sales,
             receipts |-> db.receipts \cup open.receipts,
             head |-> [db.head EXCEPT ![open.chain] = open.head],
             spent |-> db.spent \cup {open.call}, revoked |-> db.revoked]
  BY <1>1 DEF Applied
<1>3. [db.head EXCEPT ![open.chain] = open.head] \in [Chains -> ChainHead]
  BY <1>1 DEF OpenOK
<1>4. DbOK'
  BY <1>1, <1>2, <1>3 DEF DbOK, OpenOK
<1> QED
  BY <1>2, <1>4

(* The typed facts about the open transaction, its chain and its head.     *)
LEMMA OpenFacts ==
  ASSUME DbOK, OpenOK, OpenInv, open.call # 0
  PROVE  /\ open.chain \in Chains /\ OpenChain /\ OpenReferences /\ OpenSales /\ OpenReceipts
         /\ open.head.sequence \in Nat /\ db.head[open.chain].sequence \in Nat
         /\ db.head[open.chain].sequence <= open.head.sequence
         /\ \A s \in db.events \cup open.events : s.sequence \in Nat \ {0}
<1>1. open.chain \in Chains /\ OpenChain /\ OpenReferences /\ OpenSales /\ OpenReceipts
  BY DEF OpenInv
<1>2. open.head.sequence \in Nat /\ db.head[open.chain].sequence \in Nat
  BY <1>1 DEF DbOK, OpenOK, ChainHead
<1>3. \A s \in db.events \cup open.events : s.sequence \in Nat \ {0}
  BY DEF DbOK, OpenOK, Event
<1>4. db.head[open.chain].sequence <= open.head.sequence
  BY <1>1, <1>2 DEF OpenChain
<1> QED
  BY <1>1, <1>2, <1>3, <1>4

(* The chains the transaction is not about are as they were.               *)
LEMMA AppliedElsewhere ==
  ASSUME DbOK, OpenOK, EvidenceSound, OpenInv, open.call # 0, db' = Applied,
         NEW c \in Chains, c # open.chain
  PROVE  ChainAudit(c)'
<1>1. /\ open.chain \in Chains /\ OpenChain /\ ChainAudit(c)
  BY OpenFacts DEF EvidenceSound
<1>2. /\ {s \in db'.events : s.chain = c} = {s \in db.events : s.chain = c}
      /\ db'.head[c] = db.head[c]
      /\ db.sales \subseteq db'.sales /\ db.receipts \subseteq db'.receipts
  BY <1>1, AppliedParts DEF OpenChain, DbOK
<1> QED
  BY <1>1, <1>2 DEF ChainAudit

(* Its chain is continued.                                                 *)
LEMMA AppliedChain ==
  ASSUME DbOK, OpenOK, EvidenceInv, OpenInv, open.call # 0, db' = Applied,
         NEW c \in Chains, c = open.chain
  PROVE  ChainAudit(c)'
<1> DEFINE h == db.head[c].sequence
           t == open.head.sequence
           before == {s \in db.events : s.chain = c}
           stored == {s \in db'.events : s.chain = c}
<1>1. /\ c \in Chains /\ OpenChain /\ OpenReferences
      /\ h \in Nat /\ t \in Nat /\ h <= t
      /\ \A s \in db.events \cup open.events : s.sequence \in Nat \ {0}
  BY OpenFacts
<1>2. /\ db'.events = db.events \cup open.events
      /\ db'.sales = db.sales \cup open.sales
      /\ db'.receipts = db.receipts \cup open.receipts
      /\ db'.head[c] = open.head
  BY <1>1, AppliedParts DEF DbOK
<1>3. stored = before \cup open.events
  BY <1>1, <1>2 DEF OpenChain
<1>4. ChainAudit(c)
  BY <1>1 DEF EvidenceInv, EvidenceSound
<1>5. {s.sequence : s \in before} = 1..h
  BY <1>4 DEF ChainAudit
<1>6. {s.sequence : s \in open.events} = h + 1 .. t
  BY <1>1 DEF OpenChain
<1>7. \A s \in before : s.sequence \in 1..h
  BY <1>5
<1>8. \A s \in open.events : s.sequence \in h + 1 .. t
  BY <1>6
<1>9. {s.sequence : s \in stored} = 1..t
  <2>1. {s.sequence : s \in stored} = {s.sequence : s \in before} \cup {s.sequence : s \in open.events}
    BY <1>3
  <2>2. 1..t = (1..h) \cup (h + 1 .. t)
    BY <1>1
  <2> QED
    BY <2>1, <2>2, <1>5, <1>6
<1>10. db'.head[c] # NoHead => \E s \in stored : s.entry.digest = db'.head[c].digest
  <2>1. CASE open.head = db.head[c]
    BY <2>1, <1>2, <1>3, <1>4 DEF ChainAudit
  <2>2. CASE t > h
    <3>1. t \in h + 1 .. t
      BY <2>2, <1>1
    <3>2. PICK s \in open.events : s.sequence = t
      BY <3>1, <1>6
    <3>3. s.entry.digest = open.head.digest
      BY <3>2, <1>1 DEF OpenChain
    <3> QED
      BY <3>3, <1>2, <1>3
  <2> QED
    BY <1>1, <2>1, <2>2 DEF OpenChain
<1>11. \A s, r \in stored : r.sequence = s.sequence + 1 => Front(r.entry.digest) = s.entry.digest
  <2> SUFFICES ASSUME NEW s \in stored, NEW r \in stored, r.sequence = s.sequence + 1
               PROVE  Front(r.entry.digest) = s.entry.digest
    OBVIOUS
  <2>1. CASE s \in before /\ r \in before
    BY <2>1, <1>4 DEF ChainAudit
  <2>2. CASE s \in open.events /\ r \in open.events
    BY <2>2, <1>1 DEF OpenChain
  <2>3. CASE s \in before /\ r \in open.events
    <3>1. s.sequence = h /\ r.sequence = h + 1
      BY <2>3, <1>1, <1>7, <1>8
    <3>2. s.entry.digest = db.head[c].digest
      BY <2>3, <3>1 DEF EvidenceInv
    <3>3. Front(r.entry.digest) = db.head[c].digest
      BY <2>3, <3>1, <1>1 DEF OpenChain
    <3> QED
      BY <3>2, <3>3
  <2>4. CASE s \in open.events /\ r \in before
    BY <2>4, <1>1, <1>7, <1>8
  <2> QED
    BY <1>3, <2>1, <2>2, <2>3, <2>4
<1>12. \A s \in stored : \E r \in db'.receipts : r.chain = c /\ r.type = "ledger" /\ r.id = s.entry.id
  <2>1. \A s \in before : \E r \in db.receipts : r.chain = c /\ r.type = "ledger" /\ r.id = s.entry.id
    BY <1>4 DEF ChainAudit
  <2>2. \A r \in open.receipts : r.chain = c
    BY OpenFacts DEF OpenReceipts
  <2> QED
    BY <2>1, <2>2, <1>1, <1>2, <1>3 DEF OpenReferences
<1>13. \A s \in stored :
         /\ s.entry.kind = "sale" =>
              \E d \in db'.sales : d.chain = c /\ d.order = s.entry.about /\ d.seal = s.entry.digest
         /\ s.entry.kind = "correction" =>
              \E d \in db'.sales : d.chain = c /\ d.order = s.entry.about /\ d.seal = s.entry.seal
  <2>1. \A s \in before :
          /\ s.entry.kind = "sale" =>
               \E d \in db.sales : d.chain = c /\ d.order = s.entry.about /\ d.seal = s.entry.digest
          /\ s.entry.kind = "correction" =>
               \E d \in db.sales : d.chain = c /\ d.order = s.entry.about /\ d.seal = s.entry.seal
    BY <1>4 DEF ChainAudit
  <2>2. \A d \in open.sales : d.chain = c
    BY OpenFacts DEF OpenSales
  <2> QED
    BY <2>1, <2>2, <1>1, <1>2, <1>3 DEF OpenReferences
<1>14. \A s \in stored :
         s.entry.kind \in {"closure", "counted"} =>
           \E r \in stored :
             /\ r.entry.kind = "opened" /\ r.entry.about = s.entry.about
             /\ r.sequence < s.sequence
  <2>1. \A s \in before :
          s.entry.kind \in {"closure", "counted"} =>
            \E r \in before :
              /\ r.entry.kind = "opened" /\ r.entry.about = s.entry.about
              /\ r.sequence < s.sequence
    BY <1>4 DEF ChainAudit
  <2>2. \A s \in open.events :
          s.entry.kind \in {"closure", "counted"} =>
            \E r \in stored :
              /\ r.entry.kind = "opened" /\ r.entry.about = s.entry.about
              /\ r.sequence < s.sequence
    BY <1>1, <1>2 DEF OpenReferences
  <2> QED
    BY <2>1, <2>2, <1>3
<1> QED
  BY <1>2, <1>9, <1>10, <1>11, <1>12, <1>13, <1>14 DEF ChainAudit

(* The orders and the receipts are still what they were said to be.        *)
LEMMA AppliedDocuments ==
  ASSUME DbOK, OpenOK, EvidenceInv, OpenInv, open.call # 0, db' = Applied
  PROVE  /\ \A s \in db'.sales : SaleAudit(s)'
         /\ \A r \in db'.receipts : ReceiptAudit(r)'
         /\ \A r, s \in db'.sales : r.order = s.order => r = s
         /\ \A r, q \in db'.receipts :
              r.chain = q.chain /\ r.type = q.type /\ r.id = q.id => r = q
<1>1. /\ open.chain \in Chains /\ OpenChain /\ OpenSales /\ OpenReceipts
      /\ db'.events = db.events \cup open.events
      /\ db'.sales = db.sales \cup open.sales
      /\ db'.receipts = db.receipts \cup open.receipts
  BY OpenFacts, AppliedParts
<1>2. /\ \A s \in db.sales : SaleAudit(s)
      /\ \A r \in db.receipts : ReceiptAudit(r)
  BY DEF EvidenceInv, EvidenceSound
<1>3. /\ \A s \in db'.sales : s.type \in {"sealed", "legacy"}
      /\ \A r \in db'.receipts : r.type \in {"ledger", "legacy"}
  BY <1>1 DEF DbOK, OpenOK, Sale, ReceiptDoc
<1>4. ASSUME NEW s \in db'.sales
      PROVE  SaleAudit(s)'
  <2>1. CASE s \in db.sales
    BY <2>1, <1>1, <1>2 DEF SaleAudit
  <2>2. CASE s \in open.sales /\ s.type = "sealed"
    <3>1. PICK e \in open.events :
            e.entry.kind = "sale" /\ e.entry.about = s.order /\ e.entry.digest = s.seal
      BY <2>2, <1>1 DEF OpenSales
    <3>2. e \in db'.events /\ e.chain = s.chain
      BY <2>2, <1>1 DEF OpenChain, OpenSales
    <3> QED
      BY <2>2, <3>1, <3>2 DEF SaleAudit
  <2>3. CASE s \in open.sales /\ s.type = "legacy"
    <3>1. PICK r \in open.receipts : r.type = "legacy" /\ r.id = s.order
      BY <2>3, <1>1 DEF OpenSales
    <3>2. r \in db'.receipts /\ r.chain = s.chain
      BY <2>3, <1>1 DEF OpenReceipts, OpenSales
    <3> QED
      BY <2>3, <3>1, <3>2 DEF SaleAudit
  <2> QED
    BY <1>1, <1>3, <2>1, <2>2, <2>3
<1>5. ASSUME NEW r \in db'.receipts
      PROVE  ReceiptAudit(r)'
  <2>1. CASE r \in db.receipts
    BY <2>1, <1>1, <1>2 DEF ReceiptAudit, Stored, SaleOf
  <2>2. CASE r \in open.receipts /\ r.type = "ledger"
    <3>1. PICK s \in open.events : s.entry.id = r.id
      BY <2>2, <1>1 DEF OpenReceipts
    <3>2. s \in db'.events /\ s.chain = r.chain
      BY <2>2, <1>1 DEF OpenChain, OpenReceipts
    <3> QED
      BY <2>2, <3>1, <3>2 DEF ReceiptAudit, Stored
  <2>3. CASE r \in open.receipts /\ r.type = "legacy"
    <3>1. PICK d \in open.sales : d.order = r.id /\ d.type = "legacy"
      BY <2>3, <1>1 DEF OpenReceipts
    <3>2. d \in db'.sales /\ d.chain = r.chain
      BY <2>3, <1>1 DEF OpenSales, OpenReceipts
    <3> QED
      BY <2>3, <3>1, <3>2 DEF ReceiptAudit, SaleOf
  <2> QED
    BY <1>1, <1>3, <2>1, <2>2, <2>3
<1>6. \A r, s \in db'.sales : r.order = s.order => r = s
  BY <1>1 DEF EvidenceInv, EvidenceSound, OpenSales, SaleOf
<1>7. \A r, q \in db'.receipts : r.chain = q.chain /\ r.type = q.type /\ r.id = q.id => r = q
  <2>1. ASSUME NEW r \in open.receipts, NEW q \in db.receipts, r.chain = q.chain,
               r.type = q.type, r.id = q.id
        PROVE  FALSE
    <3>1. CASE r.type = "ledger"
      <4>1. Stored(q.chain, q.id) # {}
        BY <2>1, <3>1, <1>2 DEF ReceiptAudit
      <4> QED
        BY <2>1, <3>1, <4>1, <1>1 DEF OpenReceipts
    <3>2. CASE r.type = "legacy"
      <4>1. \E s \in SaleOf(q.id) : s.chain = q.chain /\ s.type = "legacy"
        BY <2>1, <3>2, <1>2 DEF ReceiptAudit
      <4> QED
        BY <2>1, <3>2, <4>1, <1>1 DEF OpenReceipts
    <3> QED
      BY <1>1, <1>3, <3>1, <3>2
  <2> QED
    BY <2>1, <1>1 DEF EvidenceInv, OpenReceipts
<1> QED
  BY <1>4, <1>5, <1>6, <1>7

LEMMA AppliedEvidence ==
  ASSUME DbOK, OpenOK, EvidenceInv, OpenInv, open.call # 0, db' = Applied
  PROVE  EvidenceInv'
<1>1. /\ open.chain \in Chains /\ OpenChain
      /\ db.head[open.chain].sequence \in Nat /\ open.head.sequence \in Nat
      /\ db.head[open.chain].sequence <= open.head.sequence
      /\ \A s \in db.events \cup open.events : s.sequence \in Nat \ {0}
      /\ db'.events = db.events \cup open.events
      /\ db'.head = [db.head EXCEPT ![open.chain] = open.head]
  BY OpenFacts, AppliedParts
<1>2. EvidenceSound'
  <2>1. \A c \in Chains : ChainAudit(c)'
    BY AppliedElsewhere, AppliedChain DEF EvidenceInv
  <2> QED
    BY <2>1, AppliedDocuments DEF EvidenceSound
<1>3. \A s \in db.events : s.chain = open.chain => s.sequence <= db.head[open.chain].sequence
  <2>1. {s.sequence : s \in {r \in db.events : r.chain = open.chain}}
          = 1..db.head[open.chain].sequence
    BY <1>1 DEF EvidenceInv, EvidenceSound, ChainAudit
  <2> QED
    BY <2>1, <1>1
<1>4. \A s \in open.events :
        s.chain = open.chain /\ s.sequence \in db.head[open.chain].sequence + 1 .. open.head.sequence
  BY <1>1 DEF OpenChain
<1>5. \A s, r \in db'.events : s.chain = r.chain /\ s.sequence = r.sequence => s = r
  <2>1. ASSUME NEW s \in db.events, NEW r \in open.events, s.chain = r.chain,
               s.sequence = r.sequence
        PROVE  FALSE
    BY <2>1, <1>1, <1>3, <1>4
  <2> QED
    BY <2>1, <1>1 DEF EvidenceInv, OpenChain
<1>6. \A s \in db'.events :
        s.sequence = db'.head[s.chain].sequence => s.entry.digest = db'.head[s.chain].digest
  <2> SUFFICES ASSUME NEW s \in db'.events, s.sequence = db'.head[s.chain].sequence
               PROVE  s.entry.digest = db'.head[s.chain].digest
    OBVIOUS
  <2>1. DOMAIN db.head = Chains /\ \A r \in db.events : r.chain \in Chains
    BY DEF DbOK, Event
  <2>2. CASE s \in db.events /\ s.chain # open.chain
    BY <2>1, <2>2, <1>1 DEF EvidenceInv
  <2>3. CASE s \in db.events /\ s.chain = open.chain
    <3>1. db'.head[s.chain] = open.head
      BY <2>1, <2>3, <1>1
    <3>2. open.head = db.head[open.chain]
      BY <2>3, <3>1, <1>1, <1>3 DEF OpenChain
    <3> QED
      BY <2>3, <3>1, <3>2 DEF EvidenceInv
  <2>4. CASE s \in open.events
    <3>1. db'.head[s.chain] = open.head
      BY <2>1, <2>4, <1>1, <1>4
    <3> QED
      BY <2>4, <3>1, <1>1 DEF OpenChain
  <2> QED
    BY <1>1, <2>2, <2>3, <2>4
<1>7. \A c \in Chains : db'.head[c].sequence = 0 => db'.head[c] = NoHead
  BY <1>1 DEF DbOK, EvidenceInv, OpenChain
<1> QED
  BY <1>2, <1>5, <1>6, <1>7, AppliedDocuments DEF EvidenceInv

-----------------------------------------------------------------------------
(* A transaction is computed.                                              *)

(* What is new in the lot of a call.                                       *)
ChainAt(k) == ChainOf[calls[k].tablet]
NewAt(k) == NewEntries(ChainAt(k), calls[k].journal, calls[k].lot)

(* A lot that is taken continues the chain up to its last entry, and what  *)
(* its entries refer to is there.                                          *)
LEMMA CommittedLot ==
  ASSUME DbOK, CallsOK, EvidenceInv, NEW k \in DOMAIN calls, calls[k].kind = "ledger",
         Verdict(k) = "committed", NewAt(k) # {},
         NEW first \in DOMAIN calls[k].journal, NEW last \in DOMAIN calls[k].journal,
         first <= last, calls[k].lot = first..last
  PROVE  /\ NewAt(k) = db.head[ChainAt(k)].sequence + 1 .. last
         /\ db.head[ChainAt(k)].sequence < last
         /\ Front(calls[k].journal[db.head[ChainAt(k)].sequence + 1].digest)
              = db.head[ChainAt(k)].digest
         /\ \A n \in NewAt(k) :
              /\ n - 1 \in NewAt(k) =>
                   Front(calls[k].journal[n].digest) = calls[k].journal[n - 1].digest
              /\ ~Missing(ChainAt(k), calls[k].journal, NewAt(k), n)
              /\ ~Inconsistent(ChainAt(k), calls[k].journal, NewAt(k), n)
         /\ ~Conflicts(ChainAt(k), calls[k].journal, calls[k].lot)
<1> DEFINE c == ChainAt(k)
           j == calls[k].journal
           lot == calls[k].lot
           new == NewAt(k)
           h == db.head[c].sequence
           wrong == Misfits(c, j, new)
<1>0. calls[k] \in Call /\ c \in Chains
  <2>1. calls[k] \in Call
    BY DEF CallsOK
  <2> QED
    BY <2>1 DEF Call, Chains, ChainAt
<1>1. h \in Nat /\ first \in Nat \ {0} /\ last \in Nat \ {0} /\ lot = first..last
  <2>1. calls[k].journal \in Seq(Entries)
    BY <1>0 DEF Call
  <2>2. db.head[c] \in ChainHead
    BY <1>0 DEF DbOK
  <2> QED
    BY <2>1, <2>2 DEF ChainHead
<1>2. new \subseteq lot /\ new \subseteq Nat /\ wrong \subseteq Nat
  BY <1>1 DEF NewAt, NewEntries, Misfits
<1>3. "committed" =
        IF Conflicts(c, j, lot) THEN "permanent"
        ELSE IF new = {} THEN "committed"
        ELSE IF FirstOf(new) > db.head[c].sequence + 1 THEN "recovery"
        ELSE IF ~Follows(db.head[c], j, FirstOf(new)) THEN "permanent"
        ELSE IF ~SameHead(db.head[c], calls[k].expected) THEN "recovery"
        ELSE IF wrong # {} THEN EntryVerdict(c, j, new, FirstOf(wrong))
        ELSE "committed"
  <2>1. LedgerVerdict(c, j, lot, calls[k].expected) = "committed"
    BY DEF Verdict, ChainAt
  <2> QED
    BY <2>1 DEF LedgerVerdict, NewAt
<1>4. ~Conflicts(c, j, lot) /\ Follows(db.head[c], j, FirstOf(new))
  BY <1>3
<1>5. wrong = {}
  <2> SUFFICES ASSUME wrong # {} PROVE FALSE
    OBVIOUS
  <2>1. EntryVerdict(c, j, new, FirstOf(wrong)) # "committed"
    BY <1>2, FirstIsElement DEF Misfits
  <2> QED
    BY <2>1, <1>3
<1>6. db.head[c] = [sequence |-> FirstOf(new) - 1, digest |-> Front(j[FirstOf(new)].digest)]
  BY <1>4 DEF Follows, SameHead
<1>7. FirstOf(new) \in new /\ \A n \in new : FirstOf(new) <= n
  BY <1>2, FirstIsElement
<1>8. FirstOf(new) = h + 1
  BY <1>6, <1>7, <1>2
<1>9. \A n \in lot : n > h => n \in new
  <2> SUFFICES ASSUME NEW n \in lot, n > h, NEW s \in Stored(c, j[n].id)
               PROVE  FALSE
    BY DEF NewEntries, NewAt
  <2>1. s.sequence = n
    BY <1>4 DEF Conflicts
  <2>2. s \in db.events /\ s.chain = c
    BY DEF Stored
  <2>3. {r.sequence : r \in {q \in db.events : q.chain = c}} = 1..h
    BY <1>0 DEF EvidenceInv, EvidenceSound, ChainAudit
  <2>4. s.sequence \in 1..h
    BY <2>2, <2>3
  <2> QED
    BY <2>1, <2>4, <1>1
<1>10. new = h + 1 .. last /\ h < last
  <2>1. h + 1 \in lot
    BY <1>2, <1>7, <1>8
  <2>2. first <= h + 1 /\ h < last
    BY <1>1, <2>1
  <2>3. ASSUME NEW n \in h + 1 .. last
        PROVE  n \in new
    <3>1. n \in lot /\ n > h
      BY <1>1, <2>2
    <3> QED
      BY <1>9, <3>1
  <2>4. ASSUME NEW n \in new
        PROVE  n \in h + 1 .. last
    <3>1. h + 1 <= n /\ n \in lot
      BY <1>2, <1>7, <1>8
    <3> QED
      BY <1>1, <3>1
  <2> QED
    BY <2>2, <2>3, <2>4
<1>11. Front(j[h + 1].digest) = db.head[c].digest
  BY <1>6, <1>8
<1>12. ASSUME NEW n \in new
       PROVE  /\ n # FirstOf(new) => Follows(HeadOf(j, n - 1), j, n)
              /\ ~Missing(c, j, new, n) /\ ~Inconsistent(c, j, new, n)
  BY <1>5 DEF EntryVerdict, Misfits
<1>13. ASSUME NEW n \in new, n - 1 \in new
       PROVE  Front(j[n].digest) = j[n - 1].digest
  <2>1. n # FirstOf(new) /\ n - 1 # 0
    BY <1>13, <1>1, <1>8, <1>10
  <2>2. SameHead([sequence |-> n - 1, digest |-> j[n - 1].digest],
                 [sequence |-> n - 1, digest |-> Front(j[n].digest)])
    BY <2>1, <1>12 DEF Follows, HeadOf
  <2> QED
    BY <2>2 DEF SameHead
<1> QED
  BY <1>4, <1>10, <1>11, <1>12, <1>13

(* What the transaction of a lot holds: the entries of it that are new.    *)

LEMMA LotParts ==
  ASSUME CallsOK, NEW k \in DOMAIN calls, calls[k].kind = "ledger", open' = Work(k)
  PROVE  /\ open'.call = k /\ open'.chain = ChainAt(k) /\ ChainAt(k) \in Chains
         /\ open'.asked = FALSE
         /\ \A s : s \in open'.events <=>
              \E n \in NewAt(k) :
                s = [chain |-> ChainAt(k), sequence |-> n, entry |-> calls[k].journal[n],
                     tablet |-> calls[k].tablet]
         /\ \A d : d \in open'.sales <=>
              \E n \in NewAt(k) :
                /\ calls[k].journal[n].kind = "sale"
                /\ d = [chain |-> ChainAt(k), order |-> calls[k].journal[n].about,
                        type |-> "sealed", seal |-> calls[k].journal[n].digest]
         /\ \A r : r \in open'.receipts <=>
              \E n \in NewAt(k) :
                r = [chain |-> ChainAt(k), type |-> "ledger", id |-> calls[k].journal[n].id,
                     receipt |-> <<k, calls[k].attempt>>]
         /\ open'.head = IF NewAt(k) = {} THEN db.head[ChainAt(k)]
                         ELSE HeadOf(calls[k].journal, LastOf(NewAt(k)))
<1>1. calls[k] \in Call /\ Lotted(calls[k])
  BY DEF CallsOK
<1>2. ChainAt(k) \in Chains /\ calls[k].orders = {}
  BY <1>1 DEF Call, Lotted, Chains, ChainAt
<1> QED
  BY <1>2 DEF Work, LedgerDocument, SealedSale, ChainAt, NewAt

\* The same, one document at a time.
LEMMA LotEvent ==
  ASSUME CallsOK, NEW k \in DOMAIN calls, calls[k].kind = "ledger", open' = Work(k),
         NEW s \in open'.events
  PROVE  \E n \in NewAt(k) :
           s = [chain |-> ChainAt(k), sequence |-> n, entry |-> calls[k].journal[n],
                tablet |-> calls[k].tablet]
<1>1. \A x : x \in open'.events <=> \E n \in NewAt(k) :
        x = [chain |-> ChainAt(k), sequence |-> n, entry |-> calls[k].journal[n],
             tablet |-> calls[k].tablet]
  BY LotParts
<1> QED
  BY <1>1

LEMMA LotSale ==
  ASSUME CallsOK, NEW k \in DOMAIN calls, calls[k].kind = "ledger", open' = Work(k),
         NEW d \in open'.sales
  PROVE  \E n \in NewAt(k) :
           d = [chain |-> ChainAt(k), order |-> calls[k].journal[n].about,
                type |-> "sealed", seal |-> calls[k].journal[n].digest]
<1>1. \A x : x \in open'.sales <=> \E n \in NewAt(k) :
        /\ calls[k].journal[n].kind = "sale"
        /\ x = [chain |-> ChainAt(k), order |-> calls[k].journal[n].about,
                type |-> "sealed", seal |-> calls[k].journal[n].digest]
  BY LotParts
<1> QED
  BY <1>1

LEMMA LotReceipt ==
  ASSUME CallsOK, NEW k \in DOMAIN calls, calls[k].kind = "ledger", open' = Work(k),
         NEW r \in open'.receipts
  PROVE  \E n \in NewAt(k) :
           r = [chain |-> ChainAt(k), type |-> "ledger", id |-> calls[k].journal[n].id,
                receipt |-> <<k, calls[k].attempt>>]
<1>1. \A x : x \in open'.receipts <=> \E n \in NewAt(k) :
        x = [chain |-> ChainAt(k), type |-> "ledger", id |-> calls[k].journal[n].id,
             receipt |-> <<k, calls[k].attempt>>]
  BY LotParts
<1> QED
  BY <1>1

LEMMA LotFits ==
  ASSUME DbOK, CallsOK, EvidenceInv, NEW k \in DOMAIN calls, calls[k].kind = "ledger",
         Verdict(k) = "committed", open' = Work(k), UNCHANGED db
  PROVE  OpenInv'
<1> DEFINE c == ChainAt(k)
           j == calls[k].journal
           lot == calls[k].lot
           new == NewAt(k)
           h == db.head[c].sequence
<1>1. /\ open'.call = k /\ open'.chain = c /\ c \in Chains
      /\ \A s : s \in open'.events <=>
           \E n \in new :
             s = [chain |-> c, sequence |-> n, entry |-> j[n], tablet |-> calls[k].tablet]
      /\ \A d : d \in open'.sales <=>
           \E n \in new :
             /\ j[n].kind = "sale"
             /\ d = [chain |-> c, order |-> j[n].about, type |-> "sealed", seal |-> j[n].digest]
      /\ \A r : r \in open'.receipts <=>
           \E n \in new :
             r = [chain |-> c, type |-> "ledger", id |-> j[n].id,
                  receipt |-> <<k, calls[k].attempt>>]
      /\ open'.head = IF new = {} THEN db.head[c] ELSE HeadOf(j, LastOf(new))
  BY LotParts
<1>2. calls[k] \in Call /\ Lotted(calls[k])
  BY DEF CallsOK
<1>3. j \in Seq(Entries) /\ h \in Nat
  BY <1>1, <1>2 DEF Call, DbOK, ChainHead
<1>4. PICK first \in DOMAIN j, last \in DOMAIN j : first <= last /\ lot = first..last
  BY <1>2 DEF Lotted
<1>5. Authorized(k) /\ LedgerVerdict(c, j, lot, calls[k].expected) = "committed"
  BY DEF Verdict, ChainAt
<1>6. first \in Nat \ {0} /\ last \in Nat \ {0} /\ new \subseteq lot /\ new \subseteq Nat \ {0}
  BY <1>3, <1>4 DEF NewEntries, NewAt
<1>7. CASE new = {}
  <2>1. open'.events = {} /\ open'.sales = {} /\ open'.receipts = {} /\ open'.head = db'.head[open'.chain]
    BY <1>1, <1>7
  <2>2. {s.sequence : s \in open'.events} = h + 1 .. h
    BY <1>3, <2>1
  <2>3. OpenChain'
    BY <1>1, <2>1, <2>2 DEF OpenChain
  <2> QED
    BY <1>1, <2>1, <2>3 DEF OpenInv, OpenReferences, OpenSales, OpenReceipts
<1>8. CASE new # {}
  <2>1. /\ new = h + 1 .. last /\ h < last
        /\ Front(j[h + 1].digest) = db.head[c].digest
        /\ \A n \in new : n - 1 \in new => Front(j[n].digest) = j[n - 1].digest
        /\ \A n \in new : ~Missing(c, j, new, n) /\ ~Inconsistent(c, j, new, n)
        /\ ~Conflicts(c, j, lot)
    BY <1>4, <1>8, CommittedLot
  <2>2. open'.head = [sequence |-> last, digest |-> j[last].digest]
    <3>1. LastOf(new) = last
      BY <2>1, <1>3, <1>6, LastOfRange
    <3> QED
      BY <3>1, <1>1, <1>6, <1>8 DEF HeadOf
  <2>3. /\ \A s \in open'.events : \E n \in new :
             s = [chain |-> c, sequence |-> n, entry |-> j[n], tablet |-> calls[k].tablet]
        /\ \A n \in new : \E s \in open'.events :
             s = [chain |-> c, sequence |-> n, entry |-> j[n], tablet |-> calls[k].tablet]
    BY <1>1
  <2>4. /\ \A d \in open'.sales : \E n \in new : j[n].kind = "sale" /\
             d = [chain |-> c, order |-> j[n].about, type |-> "sealed", seal |-> j[n].digest]
        /\ \A n \in new : j[n].kind = "sale" => \E d \in open'.sales :
             d = [chain |-> c, order |-> j[n].about, type |-> "sealed", seal |-> j[n].digest]
    BY <1>1
  <2>5. /\ \A r \in open'.receipts : \E n \in new :
             r = [chain |-> c, type |-> "ledger", id |-> j[n].id, receipt |-> <<k, calls[k].attempt>>]
        /\ \A n \in new : \E r \in open'.receipts :
             r = [chain |-> c, type |-> "ledger", id |-> j[n].id, receipt |-> <<k, calls[k].attempt>>]
    BY <1>1
  <2>6. OpenChain'
    <3>1. {s.sequence : s \in open'.events} = h + 1 .. open'.head.sequence
      BY <2>1, <2>2, <2>3
    <3>2. calls[k].tablet \notin db.revoked
      BY <1>5 DEF Authorized
    <3>3. \A s, r \in open'.events : s.sequence = r.sequence => s = r
      BY <2>3
    <3>4. ASSUME NEW s \in open'.events
          PROVE  /\ s.chain = c /\ s.tablet \notin db.revoked
                 /\ s.sequence = open'.head.sequence => s.entry.digest = open'.head.digest
                 /\ s.sequence = h + 1 => Front(s.entry.digest) = db.head[c].digest
                 /\ \A r \in open'.events :
                      r.sequence = s.sequence + 1 => Front(r.entry.digest) = s.entry.digest
      <4>1. PICK n \in new :
              s = [chain |-> c, sequence |-> n, entry |-> j[n], tablet |-> calls[k].tablet]
        BY <2>3
      <4>2. ASSUME NEW r \in open'.events, r.sequence = s.sequence + 1
            PROVE  Front(r.entry.digest) = s.entry.digest
        <5>1. r.sequence \in new /\ r.entry = j[r.sequence]
          BY <2>3
        <5>2. r.sequence - 1 = n
          BY <4>1, <4>2, <1>6
        <5> QED
          BY <2>1, <4>1, <5>1, <5>2
      <4> QED
        BY <4>1, <4>2, <2>1, <2>2, <3>2
    <3>5. /\ open'.chain = c /\ db'.head = db.head /\ db'.revoked = db.revoked
          /\ open'.head.sequence > h
      BY <1>1, <1>3, <1>6, <2>1, <2>2
    <3> QED
      BY <3>1, <3>3, <3>4, <3>5 DEF OpenChain
  <2>7. OpenReferences'
    <3> SUFFICES ASSUME NEW n \in new, NEW s \in open'.events,
                        s = [chain |-> c, sequence |-> n, entry |-> j[n], tablet |-> calls[k].tablet]
                 PROVE  /\ \E r \in open'.receipts : r.type = "ledger" /\ r.id = s.entry.id
                        /\ s.entry.kind = "sale" =>
                             \E d \in open'.sales : d.order = s.entry.about /\ d.seal = s.entry.digest
                        /\ s.entry.kind = "correction" =>
                             \E d \in db.sales \cup open'.sales :
                               d.chain = c /\ d.order = s.entry.about /\ d.seal = s.entry.seal
                        /\ s.entry.kind \in {"closure", "counted"} =>
                             \E r \in db.events \cup open'.events :
                               /\ r.chain = c /\ r.entry.kind = "opened"
                               /\ r.entry.about = s.entry.about /\ r.sequence < s.sequence
      BY <1>1, <2>3 DEF OpenReferences
    <3>1. CASE j[n].kind = "correction"
      <4>1. ~Missing(c, j, new, n) /\ ~Inconsistent(c, j, new, n)
        BY <2>1
      <4>2. CASE \E d \in SaleOf(j[n].about) : d.chain = c
        BY <4>1, <4>2, <3>1, <2>5 DEF Inconsistent, SaleOf
      <4>3. CASE \E m \in new : m < n /\ j[m].kind = "sale" /\ j[m].about = j[n].about
        <5>1. PICK m \in new : m < n /\ j[m].kind = "sale" /\ j[m].about = j[n].about
          BY <4>3
        <5>2. j[m].digest = j[n].seal
          BY <4>1, <5>1, <3>1 DEF Inconsistent
        <5>3. \E d \in open'.sales :
                d.chain = c /\ d.order = j[m].about /\ d.seal = j[m].digest
          BY <5>1, <2>4
        <5>4. \E d \in db.sales \cup open'.sales :
                d.chain = c /\ d.order = s.entry.about /\ d.seal = s.entry.seal
          BY <5>1, <5>2, <5>3
        <5> QED
          BY <5>4, <3>1, <2>5
      <4> QED
        BY <4>1, <4>2, <4>3, <3>1 DEF Missing
    <3>2. CASE j[n].kind \in {"closure", "counted"}
      <4>1. ~Missing(c, j, new, n)
        BY <2>1
      <4>2. CASE Opened(c, j[n].about)
        <5>1. PICK r \in db.events : r.chain = c /\ r.entry.kind = "opened" /\ r.entry.about = j[n].about
          BY <4>2 DEF Opened
        <5>2. {q.sequence : q \in {p \in db.events : p.chain = c}} = 1..h
          BY <1>1 DEF EvidenceInv, EvidenceSound, ChainAudit
        <5>3. r.sequence \in 1..h
          BY <5>1, <5>2
        <5>4. r.sequence < n
          BY <5>3, <2>1, <1>3, <1>6
        <5> QED
          BY <5>1, <5>4, <3>2, <2>5
      <4>3. CASE \E m \in new : m < n /\ j[m].kind = "opened" /\ j[m].about = j[n].about
        <5>1. PICK m \in new : m < n /\ j[m].kind = "opened" /\ j[m].about = j[n].about
          BY <4>3
        <5>2. PICK r \in open'.events :
                r = [chain |-> c, sequence |-> m, entry |-> j[m], tablet |-> calls[k].tablet]
          BY <2>3
        <5>3. r.chain = c /\ r.entry = j[m] /\ r.sequence = m
          BY <5>2
        <5>4. \E q \in db.events \cup open'.events :
                /\ q.chain = c /\ q.entry.kind = "opened"
                /\ q.entry.about = s.entry.about /\ q.sequence < s.sequence
          BY <5>1, <5>3
        <5> QED
          BY <5>4, <3>2, <2>5
      <4> QED
        BY <4>1, <4>2, <4>3, <3>2 DEF Missing
    <3>3. CASE j[n].kind \notin {"correction", "closure", "counted"}
      BY <3>3, <2>4, <2>5
    <3> QED
      BY <3>1, <3>2, <3>3
  <2>8. OpenSales'
    <3>1. ASSUME NEW n \in new, j[n].kind = "sale"
          PROVE  SaleOf(j[n].about) = {} /\ ~\E m \in lot : m < n /\ j[m].kind = "sale" /\ j[m].about = j[n].about
      <4>1. ~Conflicts(c, j, lot)
        BY <2>1
      <4>2. n \in lot /\ Stored(c, j[n].id) = {}
        BY <3>1 DEF NewAt, NewEntries
      <4> QED
        BY <4>1, <4>2, <3>1 DEF Conflicts, Sold, Twice
    <3>2. ASSUME NEW m \in new, NEW n \in new, j[m].kind = "sale", j[n].kind = "sale",
                 j[m].about = j[n].about
          PROVE  m = n
      <4>1. ~(m < n) /\ ~(n < m)
        BY <1>6, <3>1, <3>2
      <4> QED
        BY <4>1, <1>6
    <3>3. \A d, e \in open'.sales : d.order = e.order => d = e
      BY <2>4, <3>2
    <3>4. ASSUME NEW d \in open'.sales
          PROVE  /\ d.chain = c /\ SaleOf(d.order) = {} /\ d.type = "sealed"
                 /\ \E s \in open'.events : s.entry.kind = "sale" /\ s.entry.about = d.order
                                            /\ s.entry.digest = d.seal
      BY <2>3, <2>4, <3>1
    <3> QED
      BY <1>1, <3>3, <3>4 DEF OpenSales, SaleOf
  <2>9. OpenReceipts'
    <3>1. ASSUME NEW m \in new, NEW n \in new, j[m].id = j[n].id
          PROVE  m = n
      <4>1. ~(m < n) /\ ~(n < m)
        BY <2>1, <3>1 DEF Conflicts, NewEntries, NewAt
      <4> QED
        BY <4>1, <1>6
    <3>2. \A r, q \in open'.receipts : r.type = q.type /\ r.id = q.id => r = q
      BY <2>5, <3>1
    <3>3. ASSUME NEW r \in open'.receipts
          PROVE  /\ r.chain = c /\ r.type = "ledger" /\ Stored(c, r.id) = {}
                 /\ \E s \in open'.events : s.entry.id = r.id
      BY <2>3, <2>5 DEF NewEntries, NewAt
    <3> QED
      BY <1>1, <3>2, <3>3 DEF OpenReceipts, Stored
  <2> QED
    BY <1>1, <2>6, <2>7, <2>8, <2>9 DEF OpenInv
<1> QED
  BY <1>7, <1>8

(* What the transaction of older orders holds: those nobody has sold.      *)
LEMMA LegacyParts ==
  ASSUME CallsOK, NEW k \in DOMAIN calls, calls[k].kind = "legacy", open' = Work(k)
  PROVE  /\ open'.call = k /\ open'.chain = ChainAt(k) /\ ChainAt(k) \in Chains
         /\ open'.asked = FALSE
         /\ open'.events = {}
         /\ \A d : d \in open'.sales <=>
              \E o \in calls[k].orders :
                /\ SaleOf(o) = {}
                /\ d = [chain |-> ChainAt(k), order |-> o, type |-> "legacy", seal |-> NoSeal]
         /\ \A r : r \in open'.receipts <=>
              \E o \in calls[k].orders :
                /\ SaleOf(o) = {}
                /\ r = [chain |-> ChainAt(k), type |-> "legacy", id |-> o,
                        receipt |-> <<k, calls[k].attempt>>]
         /\ open'.head = db.head[ChainAt(k)]
<1>1. calls[k] \in Call /\ Lotted(calls[k])
  BY DEF CallsOK
<1>2. ChainAt(k) \in Chains /\ calls[k].lot = {}
  BY <1>1 DEF Call, Lotted, Chains, ChainAt
<1>3. NewAt(k) = {}
  BY <1>2 DEF NewAt, NewEntries
<1> QED
  BY <1>2, <1>3 DEF Work, LegacyDocument, ChainAt, NewAt

LEMMA LegacyFits ==
  ASSUME DbOK, CallsOK, NEW k \in DOMAIN calls, calls[k].kind = "legacy",
         open' = Work(k), UNCHANGED db
  PROVE  OpenInv'
<1> DEFINE c == ChainAt(k)
<1>1. /\ open'.call = k /\ open'.chain = c /\ c \in Chains
      /\ open'.events = {} /\ open'.head = db.head[c]
      /\ \A d : d \in open'.sales <=>
           \E o \in calls[k].orders :
             /\ SaleOf(o) = {}
             /\ d = [chain |-> c, order |-> o, type |-> "legacy", seal |-> NoSeal]
      /\ \A r : r \in open'.receipts <=>
           \E o \in calls[k].orders :
             /\ SaleOf(o) = {}
             /\ r = [chain |-> c, type |-> "legacy", id |-> o, receipt |-> <<k, calls[k].attempt>>]
  BY LegacyParts
<1>2. db.head[c].sequence \in Nat
  BY <1>1 DEF DbOK, ChainHead
<1>3. OpenChain'
  <2>1. {s.sequence : s \in open'.events} = db.head[c].sequence + 1 .. db.head[c].sequence
    BY <1>1, <1>2
  <2> QED
    BY <1>1, <2>1 DEF OpenChain
<1>4. OpenReferences'
  BY <1>1 DEF OpenReferences
<1>5. ASSUME NEW o \in calls[k].orders, SaleOf(o) = {}
      PROVE  /\ \E r \in open'.receipts : r.type = "legacy" /\ r.id = o
             /\ \E d \in open'.sales : d.order = o /\ d.type = "legacy"
  <2>1. [chain |-> c, type |-> "legacy", id |-> o, receipt |-> <<k, calls[k].attempt>>]
          \in open'.receipts
    BY <1>1, <1>5
  <2>2. [chain |-> c, order |-> o, type |-> "legacy", seal |-> NoSeal] \in open'.sales
    BY <1>1, <1>5
  <2> QED
    BY <2>1, <2>2
<1>6. OpenSales'
  <2>1. \A d, e \in open'.sales : d.order = e.order => d = e
    BY <1>1
  <2>2. \A d \in open'.sales :
          /\ d.chain = c /\ SaleOf(d.order) = {} /\ d.type = "legacy"
          /\ \E r \in open'.receipts : r.type = "legacy" /\ r.id = d.order
    BY <1>1, <1>5
  <2> QED
    BY <1>1, <2>1, <2>2 DEF OpenSales, SaleOf
<1>7. OpenReceipts'
  <2>1. \A r, q \in open'.receipts : r.type = q.type /\ r.id = q.id => r = q
    BY <1>1
  <2>2. \A r \in open'.receipts :
          /\ r.chain = c /\ SaleOf(r.id) = {} /\ r.type = "legacy"
          /\ \E d \in open'.sales : d.order = r.id /\ d.type = "legacy"
    BY <1>1, <1>5
  <2> QED
    BY <1>1, <2>1, <2>2 DEF OpenReceipts, SaleOf
<1> QED
  BY <1>1, <1>3, <1>4, <1>6, <1>7 DEF OpenInv

\* The same, one document at a time.
LEMMA LegacySale ==
  ASSUME CallsOK, NEW k \in DOMAIN calls, calls[k].kind = "legacy", open' = Work(k),
         NEW d \in open'.sales
  PROVE  \E o \in calls[k].orders :
           d = [chain |-> ChainAt(k), order |-> o, type |-> "legacy", seal |-> NoSeal]
<1>1. \A x : x \in open'.sales <=> \E o \in calls[k].orders :
        /\ SaleOf(o) = {}
        /\ x = [chain |-> ChainAt(k), order |-> o, type |-> "legacy", seal |-> NoSeal]
  BY LegacyParts
<1> QED
  BY <1>1

LEMMA LegacyReceipt ==
  ASSUME CallsOK, NEW k \in DOMAIN calls, calls[k].kind = "legacy", open' = Work(k),
         NEW r \in open'.receipts
  PROVE  \E o \in calls[k].orders :
           r = [chain |-> ChainAt(k), type |-> "legacy", id |-> o,
                receipt |-> <<k, calls[k].attempt>>]
<1>1. \A x : x \in open'.receipts <=> \E o \in calls[k].orders :
        /\ SaleOf(o) = {}
        /\ x = [chain |-> ChainAt(k), type |-> "legacy", id |-> o,
                receipt |-> <<k, calls[k].attempt>>]
  BY LegacyParts
<1> QED
  BY <1>1

LEMMA WorkOK ==
  ASSUME DbOK, CallsOK, NEW k \in DOMAIN calls, open' = Work(k), OpenInv', UNCHANGED db
  PROVE  OpenOK'
<1>1. calls[k] \in Call /\ Lotted(calls[k]) /\ k \in Nat \ {0}
  BY DEF CallsOK
<1>2. open' = [call |-> open'.call, chain |-> open'.chain, events |-> open'.events,
               sales |-> open'.sales, receipts |-> open'.receipts, head |-> open'.head,
               asked |-> open'.asked]
  BY DEF Work
<1> SUFFICES /\ open'.call = k /\ open'.chain \in Chains /\ open'.asked = FALSE
             /\ open'.events \subseteq Event /\ open'.sales \subseteq Sale
             /\ open'.receipts \subseteq ReceiptDoc /\ open'.head \in ChainHead
  BY <1>1, <1>2 DEF OpenOK
<1>3. CASE calls[k].kind = "ledger"
  <2>1. PICK first \in DOMAIN calls[k].journal, last \in DOMAIN calls[k].journal :
          first <= last /\ calls[k].lot = first..last
    BY <1>1, <1>3 DEF Lotted
  <2>2. /\ calls[k].journal \in Seq(Entries) /\ calls[k].tablet \in Tablets
        /\ calls[k].attempt \in Nat
    BY <1>1 DEF Call
  <2>3. \A n \in NewAt(k) : /\ n \in DOMAIN calls[k].journal /\ n \in Nat \ {0}
                            /\ calls[k].journal[n] \in Entries
    BY <2>1, <2>2 DEF NewAt, NewEntries
  <2>4. open'.events \subseteq Event
    <3>1. ASSUME NEW s \in open'.events
          PROVE  s \in Event
      <4>1. PICK n \in NewAt(k) :
              s = [chain |-> ChainAt(k), sequence |-> n, entry |-> calls[k].journal[n],
                   tablet |-> calls[k].tablet]
        BY <1>3, LotEvent
      <4>2. ChainAt(k) \in Chains
        BY <1>3, LotParts
      <4> QED
        BY <4>1, <4>2, <2>2, <2>3 DEF Event
    <3> QED
      BY <3>1
  <2>5. open'.sales \subseteq Sale
    <3>1. ASSUME NEW d \in open'.sales
          PROVE  d \in Sale
      <4>1. PICK n \in NewAt(k) :
              d = [chain |-> ChainAt(k), order |-> calls[k].journal[n].about,
                   type |-> "sealed", seal |-> calls[k].journal[n].digest]
        BY <1>3, LotSale
      <4>2. ChainAt(k) \in Chains
        BY <1>3, LotParts
      <4>3. calls[k].journal[n].about \in Subjects /\ calls[k].journal[n].digest \in Digests
        BY <2>3 DEF Subjects, Digests
      <4> QED
        BY <4>1, <4>2, <4>3 DEF Sale
    <3> QED
      BY <3>1
  <2>6. open'.receipts \subseteq ReceiptDoc
    <3>1. ASSUME NEW r \in open'.receipts
          PROVE  r \in ReceiptDoc
      <4>1. PICK n \in NewAt(k) :
              r = [chain |-> ChainAt(k), type |-> "ledger", id |-> calls[k].journal[n].id,
                   receipt |-> <<k, calls[k].attempt>>]
        BY <1>3, LotReceipt
      <4>2. ChainAt(k) \in Chains
        BY <1>3, LotParts
      <4>3. calls[k].journal[n].id \in {e.id : e \in Entries} \cup Subjects
            /\ <<k, calls[k].attempt>> \in Nat \X Nat
        BY <1>1, <2>2, <2>3
      <4> QED
        BY <4>1, <4>2, <4>3 DEF ReceiptDoc
    <3> QED
      BY <3>1
  <2>7. open'.head \in ChainHead
    <3>1. db.head[ChainAt(k)] \in ChainHead
      BY <1>3, LotParts DEF DbOK
    <3>2. ASSUME NewAt(k) # {}
          PROVE  HeadOf(calls[k].journal, LastOf(NewAt(k))) \in ChainHead
      <4>1. PICK n \in NewAt(k) : open'.head = HeadOf(calls[k].journal, LastOf(NewAt(k)))
        BY <1>3, <3>2, LotParts
      <4>2. LastOf(NewAt(k)) \in NewAt(k)
        <5>1. NewAt(k) \subseteq first..last /\ first \in Nat /\ last \in Nat
          BY <2>1, <2>2 DEF NewAt, NewEntries
        <5> QED
          BY <5>1, <3>2, LastIsElement
      <4> QED
        BY <4>2, <2>3 DEF HeadOf, ChainHead, Digests, NoHead
    <3> QED
      BY <1>3, <3>1, <3>2, LotParts
  <2> QED
    BY <1>3, <2>4, <2>5, <2>6, <2>7, LotParts
<1>4. CASE calls[k].kind = "legacy"
  <2>1. calls[k].orders \subseteq Subjects /\ calls[k].attempt \in Nat
    BY <1>1 DEF Call
  <2>2. open'.sales \subseteq Sale
    <3>1. ASSUME NEW d \in open'.sales
          PROVE  d \in Sale
      <4>1. PICK o \in calls[k].orders :
              d = [chain |-> ChainAt(k), order |-> o, type |-> "legacy", seal |-> NoSeal]
        BY <1>4, LegacySale
      <4>2. ChainAt(k) \in Chains /\ o \in Subjects /\ NoSeal \in Digests
        BY <1>4, <2>1, LegacyParts DEF Digests
      <4> QED
        BY <4>1, <4>2 DEF Sale
    <3> QED
      BY <3>1
  <2>3. open'.receipts \subseteq ReceiptDoc
    <3>1. ASSUME NEW r \in open'.receipts
          PROVE  r \in ReceiptDoc
      <4>1. PICK o \in calls[k].orders :
              r = [chain |-> ChainAt(k), type |-> "legacy", id |-> o,
                   receipt |-> <<k, calls[k].attempt>>]
        BY <1>4, LegacyReceipt
      <4>2. ChainAt(k) \in Chains /\ o \in Subjects /\ <<k, calls[k].attempt>> \in Nat \X Nat
        BY <1>1, <1>4, <2>1, LegacyParts
      <4> QED
        BY <4>1, <4>2 DEF ReceiptDoc
    <3> QED
      BY <3>1
  <2>4. open'.head \in ChainHead
    BY <1>4, LegacyParts DEF DbOK
  <2> QED
    BY <1>4, <2>2, <2>3, <2>4, LegacyParts
<1> QED
  BY <1>1, <1>3, <1>4 DEF Call

-----------------------------------------------------------------------------
(* The steps of a transaction, and of a call.                              *)

LEMMA NothingOpen ==
  /\ NoTransaction.call = 0 /\ NoHead \in ChainHead
  /\ NoTransaction \in
       [call : Nat, chain : Chains \cup {NoTransaction.chain}, events : SUBSET Event,
        sales : SUBSET Sale, receipts : SUBSET ReceiptDoc, head : ChainHead, asked : BOOLEAN]
<1>1. NoHead \in ChainHead
  BY DEF NoHead, ChainHead, Digests, NoSeal
<1>2. PICK c : NoTransaction = [call |-> 0, chain |-> c, events |-> {}, sales |-> {},
                                receipts |-> {}, head |-> NoHead, asked |-> FALSE]
  BY DEF NoTransaction
<1>3. NoTransaction \in
        [call : Nat, chain : Chains \cup {c}, events : SUBSET Event, sales : SUBSET Sale,
         receipts : SUBSET ReceiptDoc, head : ChainHead, asked : BOOLEAN]
  BY <1>1, <1>2
<1>4. NoTransaction.chain = c /\ NoTransaction.call = 0
  BY <1>2
<1> QED
  BY <1>1, <1>3, <1>4

(* What becomes of the open transaction: nothing, it is abandoned, its     *)
(* commit is sent, or it is applied.                                       *)
TransactionStep ==
  \/ db' = db /\ (open' = open \/ open' = NoTransaction)
  \/ open.call # 0 /\ db' = db /\ open' = [open EXCEPT !.asked = TRUE]
  \/ open.call # 0 /\ db' = Applied /\ open' = NoTransaction

LEMMA TransactionKeeps ==
  ASSUME IInv, TransactionStep
  PROVE  /\ DbOK' /\ OpenOK' /\ EvidenceInv' /\ OpenInv'
         /\ db.receipts \subseteq db'.receipts
         /\ db'.spent = db.spent \/ db'.spent = db.spent \cup {open.call}
         /\ open.call \in db'.spent => db'.receipts = db.receipts \cup open.receipts
         /\ open'.call # 0 =>
              open'.call = open.call /\ db' = db /\ open'.receipts = open.receipts
         /\ open'.call \in {0, open.call} /\ open'.call \notin db'.spent
<1>1. DbOK /\ OpenOK /\ CallsOK /\ EvidenceInv /\ OpenInv
  BY DEF IInv
<1>2. open.call \notin db.spent /\ 0 \notin db.spent
  <2>1. db.spent \subseteq DOMAIN calls /\ calls \in Seq(Call)
    BY <1>1 DEF CallsOK
  <2> QED
    BY <2>1, <1>1 DEF CallsOK
<1>3. CASE UNCHANGED <<db, open>>
  BY <1>1, <1>2, <1>3 DEF DbOK, OpenOK, EvidenceInv, OpenInv, EvidenceSound, ChainAudit, SaleAudit,
     ReceiptAudit, OpenChain, OpenReferences, OpenSales, OpenReceipts, Stored, SaleOf
<1>4. CASE db' = db /\ open' = NoTransaction
  <2>1. OpenInv' /\ OpenOK' /\ open'.call = 0
    BY <1>4, NothingOpen DEF OpenInv, OpenOK
  <2>2. DbOK' /\ EvidenceInv'
    BY <1>1, <1>4 DEF DbOK, EvidenceInv, EvidenceSound, ChainAudit, SaleAudit, ReceiptAudit, Stored,
       SaleOf
  <2> QED
    BY <2>1, <2>2, <1>2, <1>4
<1>5. CASE open.call # 0 /\ db' = db /\ open' = [open EXCEPT !.asked = TRUE]
  <2>1. /\ OpenOK' /\ open'.call = open.call /\ open'.chain = open.chain
        /\ open'.events = open.events /\ open'.sales = open.sales
        /\ open'.receipts = open.receipts /\ open'.head = open.head
    BY <1>1, <1>5 DEF OpenOK
  <2>2. OpenInv'
    BY <1>1, <1>5, <2>1 DEF OpenInv, OpenChain, OpenReferences, OpenSales, OpenReceipts, Stored,
       SaleOf
  <2>3. DbOK' /\ EvidenceInv'
    BY <1>1, <1>5 DEF DbOK, EvidenceInv, EvidenceSound, ChainAudit, SaleAudit, ReceiptAudit, Stored,
       SaleOf
  <2> QED
    BY <2>1, <2>2, <2>3, <1>2, <1>5
<1>6. CASE open.call # 0 /\ db' = Applied /\ open' = NoTransaction
  <2>1. OpenInv' /\ OpenOK' /\ open'.call = 0
    BY <1>6, NothingOpen DEF OpenInv, OpenOK
  <2>2. EvidenceInv' /\ open.chain \in Chains
    BY <1>1, <1>6, AppliedEvidence, OpenFacts
  <2>3. DbOK' /\ db'.receipts = db.receipts \cup open.receipts /\ db'.spent = db.spent \cup {open.call}
    BY <1>1, <1>6, <2>2, AppliedParts
  <2> QED
    BY <2>1, <2>2, <2>3, <1>2, <1>6
<1> QED
  BY <1>3, <1>4, <1>5, <1>6 DEF TransactionStep

(* The calls a step is not about.                                          *)
LEMMA OthersKeep ==
  ASSUME IInv, TransactionStep, NEW i \in DOMAIN calls, i \in DOMAIN calls', calls'[i] = calls[i]
  PROVE  CallPart(i)'
<1>1. CallPart(i) /\ CallsOK
  BY DEF IInv, CallInv
<1>2. i # 0 /\ open.call \notin db.spent
  BY <1>1 DEF CallsOK
<1> QED
  BY <1>1, <1>2, TransactionKeeps DEF CallPart

LEMMA StepKeeps ==
  ASSUME IInv, TransactionStep, NEW k \in DOMAIN calls, calls' = [calls EXCEPT ![k] = calls'[k]],
         calls'[k] \in Call, Lotted(calls'[k]), CallPart(k)'
  PROVE  IInv'
<1>1. CallsOK /\ calls \in Seq(Call)
  BY DEF IInv, CallsOK
<1>2. /\ calls' \in Seq(Call) /\ DOMAIN calls' = DOMAIN calls
      /\ \A i \in DOMAIN calls : i # k => calls'[i] = calls[i]
      /\ \A i \in DOMAIN calls' : Lotted(calls'[i])
  <2>1. calls' \in Seq(Call) /\ DOMAIN calls' = DOMAIN calls
    BY <1>1
  <2>2. \A i \in DOMAIN calls : i # k => calls'[i] = calls[i]
    OBVIOUS
  <2> QED
    BY <1>1, <2>1, <2>2 DEF CallsOK
<1>3. CallInv'
  BY <1>2, OthersKeep DEF CallInv
<1>4. /\ db'.spent \subseteq DOMAIN calls'
      /\ open'.call \in {0} \cup DOMAIN calls' /\ open'.call \notin db'.spent
  <2>1. open.call \in DOMAIN calls \/ open.call = 0
    BY <1>1 DEF CallsOK
  <2>2. db'.spent \subseteq db.spent \cup ({open.call} \cap DOMAIN calls)
    BY <2>1, TransactionKeeps DEF TransactionStep, Applied
  <2> QED
    BY <1>1, <1>2, <2>1, <2>2, TransactionKeeps DEF CallsOK
<1> QED
  BY <1>2, <1>3, <1>4, TransactionKeeps DEF IInv, CallsOK

LEMMA InitIInv ==
  ASSUME Init
  PROVE  IInv
<1>1. db = [events |-> {}, sales |-> {}, receipts |-> {}, head |-> [c \in Chains |-> NoHead],
            spent |-> {}, revoked |-> {}]
  BY DEF Init
<1>2. NoHead.sequence = 0 /\ {s.sequence : s \in {}} = 1..0
  BY DEF NoHead
<1>3. open.call = 0 /\ OpenOK /\ OpenInv
  BY NothingOpen DEF Init, OpenOK, OpenInv
<1>4. DbOK
  BY <1>1, NothingOpen DEF DbOK
<1>5. CallsOK /\ CallInv
  BY <1>1, <1>3 DEF Init, CallsOK, CallInv
<1>6. \A c \in Chains : ChainAudit(c)
  <2> SUFFICES ASSUME NEW c \in Chains PROVE ChainAudit(c)
    OBVIOUS
  <2>1. db.head[c] = NoHead /\ {s \in db.events : s.chain = c} = {}
    BY <1>1
  <2>2. {s.sequence : s \in {r \in db.events : r.chain = c}} = 1..db.head[c].sequence
    BY <1>2, <2>1
  <2> QED
    BY <2>1, <2>2 DEF ChainAudit
<1>7. EvidenceInv
  BY <1>1, <1>6 DEF EvidenceInv, EvidenceSound
<1> QED
  BY <1>3, <1>4, <1>5, <1>7 DEF IInv

LEMMA PostKeeps ==
  ASSUME IInv, NEW x \in Call, Lotted(x), x.phase = "work", x.verdict = "none", Post(x)
  PROVE  IInv'
<1>1. calls \in Seq(Call) /\ CallsOK
  BY DEF IInv, CallsOK
<1>2. TransactionStep
  BY DEF Post, TransactionStep
<1>3. PICK n \in Nat \ {0} : n = Len(calls) + 1
  BY <1>1
<1>4. /\ calls' = Append(calls, x) /\ calls' \in Seq(Call)
      /\ DOMAIN calls = 1..n - 1 /\ DOMAIN calls' = 1..n /\ calls'[n] = x
      /\ \A i \in DOMAIN calls : i \in DOMAIN calls' /\ calls'[i] = calls[i]
  BY <1>1, <1>3 DEF Post
<1>5. /\ db'.spent \subseteq DOMAIN calls /\ open'.call \in {0} \cup DOMAIN calls
      /\ open'.call \notin db'.spent
  BY <1>1 DEF Post, CallsOK
<1>6. \A i \in DOMAIN calls' : i \in DOMAIN calls \/ i = n
  BY <1>4
<1>7. \A i \in DOMAIN calls' : Lotted(calls'[i])
  BY <1>1, <1>4, <1>6 DEF CallsOK
<1>8. \A i \in DOMAIN calls : CallPart(i)'
  BY <1>2, <1>4, OthersKeep
<1>9. n \notin db'.spent /\ open'.call # n
  BY <1>4, <1>5
<1>10. CallPart(n)'
  BY <1>4, <1>9 DEF CallPart
<1> QED
  BY <1>2, <1>4, <1>5, <1>6, <1>7, <1>8, <1>10, TransactionKeeps DEF IInv, CallInv, CallsOK

LEMMA SendKeeps ==
  ASSUME IInv, NEW t \in Tablets, SendEvents(t) \/ SendLegacy(t)
  PROVE  IInv'
<1>1. CASE SendEvents(t)
  <2>0. PICK j \in Copies[t] : \E first, last \in DOMAIN j :
          /\ first <= last
          /\ Post(NewCall(t, "ledger", j, first..last, HeadOf(j, first - 1), {}))
    BY <1>1 DEF SendEvents
  <2>1. PICK first \in DOMAIN j, last \in DOMAIN j :
          /\ first <= last
          /\ Post(NewCall(t, "ledger", j, first..last, HeadOf(j, first - 1), {}))
    BY <2>0
  <2>2. j \in Seq(Entries)
    BY JournalsAssumption DEF Journals
  <2>3. HeadOf(j, first - 1) \in ChainHead
    <3>1. CASE first = 1
      BY <3>1, NothingOpen DEF HeadOf
    <3>2. CASE first # 1
      <4>1. first - 1 \in DOMAIN j /\ first - 1 \in Nat /\ first - 1 # 0
        BY <2>2, <3>2
      <4>2. j[first - 1] \in Entries
        BY <4>1, <2>2
      <4> QED
        BY <4>1, <4>2 DEF HeadOf, ChainHead, Digests
    <3> QED
      BY <3>1, <3>2
  <2> DEFINE x == NewCall(t, "ledger", j, first..last, HeadOf(j, first - 1), {})
  <2>4. first..last \in SUBSET Nat
    BY <2>2
  <2>5. x \in Call /\ x.phase = "work" /\ x.verdict = "none"
    BY <2>2, <2>3, <2>4 DEF NewCall, Call
  <2>6. Lotted(x)
    BY <2>1 DEF NewCall, Lotted
  <2> QED
    BY <2>1, <2>5, <2>6, PostKeeps
<1>2. CASE SendLegacy(t)
  <2> DEFINE x == NewCall(t, "legacy", <<>>, {}, NoHead, Unsealed[t])
  <2>1. Unsealed[t] \subseteq Subjects /\ <<>> \in Seq(Entries)
    BY DEF Subjects
  <2>2. x \in Call /\ x.phase = "work" /\ x.verdict = "none" /\ Lotted(x)
    BY <2>1, NothingOpen DEF NewCall, Call, Lotted
  <2> QED
    BY <1>2, <2>2, PostKeeps DEF SendLegacy
<1> QED
  BY <1>1, <1>2


(* A call is answered.                                                     *)
LEMMA AnsweredKeeps ==
  ASSUME IInv, TransactionStep, NEW k \in DOMAIN calls, NEW STATE v,
         v \in {"committed", "auth", "permanent", "recovery", "temporary"},
         NEW STATE acks, acks \subseteq ReceiptDoc, calls' = Answered(k, v, acks),
         v = "committed" => acks \subseteq db'.receipts,
         v \in {"auth", "permanent", "recovery"} => k \notin db'.spent /\ open'.call # k
  PROVE  IInv'
<1> DEFINE e == Ended(calls[k], "answered", v, acks)
<1>1. CallsOK /\ calls[k] \in Call /\ Lotted(calls[k])
  BY DEF IInv, CallsOK
<1>2. e \in Call /\ Lotted(e) /\ e.phase = "answered" /\ e.verdict = v /\ e.acks = acks
  <2>1. /\ e \in Call /\ e.phase = "answered" /\ e.verdict = v /\ e.acks = acks
        /\ e.kind = calls[k].kind /\ e.journal = calls[k].journal
        /\ e.lot = calls[k].lot /\ e.orders = calls[k].orders
    BY <1>1 DEF Ended, Call
  <2> HIDE DEF e
  <2> QED
    BY <1>1, <2>1 DEF Lotted
<1>3. calls' = [calls EXCEPT ![k] = e]
  BY DEF Answered
<1>4. calls'[k] = e
  BY <1>3
<1>5. CallPart(k)'
  BY <1>2, <1>4 DEF CallPart
<1>6. calls' = [calls EXCEPT ![k] = calls'[k]]
  BY <1>3, <1>4
<1>7. calls'[k] \in Call /\ Lotted(calls'[k])
  BY <1>2, <1>4
<1> QED
  BY <1>5, <1>6, <1>7, StepKeeps

LEMMA RerunKeeps ==
  ASSUME IInv, TransactionStep, NEW k \in DOMAIN calls, calls[k].phase \in {"work", "commit"},
         calls' = Rerun(k), k \notin db'.spent, open'.call # k
  PROVE  IInv'
<1> DEFINE e == [calls[k] EXCEPT !.phase = "work", !.attempt = @ + 1]
<1>1. CallsOK /\ calls \in Seq(Call) /\ calls[k] \in Call /\ Lotted(calls[k]) /\ CallPart(k)
  BY DEF IInv, CallsOK, CallInv
<1>2. CASE calls[k].attempt < MaxAttempts
  <2>1. e \in Call /\ Lotted(e) /\ e.phase = "work" /\ e.verdict = calls[k].verdict
    <3>1. /\ e.phase = "work" /\ e.verdict = calls[k].verdict
          /\ e.kind = calls[k].kind /\ e.journal = calls[k].journal
          /\ e.lot = calls[k].lot /\ e.orders = calls[k].orders
      BY <1>1 DEF Call
    <3>2. calls[k].attempt + 1 \in Nat
      BY <1>1 DEF Call
    <3>3. e \in Call
      BY <1>1, <3>2 DEF Call
    <3> HIDE DEF e
    <3> QED
      BY <1>1, <3>1, <3>3 DEF Lotted
  <2>2. calls' = [calls EXCEPT ![k] = e]
    BY <1>1, <1>2 DEF Rerun
  <2>3. calls'[k] = e
    BY <2>2
  <2>4. CallPart(k)'
    BY <1>1, <2>1, <2>3 DEF CallPart
  <2> QED
    <3>1. calls' = [calls EXCEPT ![k] = calls'[k]]
      BY <2>2, <2>3
    <3>2. calls'[k] \in Call /\ Lotted(calls'[k])
      BY <2>1, <2>3
    <3> QED
      BY <2>4, <3>1, <3>2, StepKeeps
<1>3. CASE ~(calls[k].attempt < MaxAttempts)
  <2>1. calls' = Answered(k, "temporary", {})
    BY <1>3 DEF Rerun
  <2> QED
    BY <2>1, AnsweredKeeps
<1> QED
  BY <1>2, <1>3

-----------------------------------------------------------------------------
(* The actions.                                                            *)

(* What is known of a call before a step.                                  *)
LEMMA CallFacts ==
  ASSUME IInv, NEW k \in DOMAIN calls
  PROVE  /\ CallPart(k) /\ calls[k] \in Call /\ Lotted(calls[k]) /\ calls[k].acks \subseteq ReceiptDoc
         /\ k \in Nat \ {0} /\ NoTransaction.call # k /\ calls \in Seq(Call)
<1>1. calls \in Seq(Call) /\ CallPart(k) /\ Lotted(calls[k])
  BY DEF IInv, CallsOK, CallInv
<1>2. calls[k] \in Call /\ k \in Nat \ {0}
  BY <1>1
<1>3. calls[k].acks \subseteq ReceiptDoc
  BY <1>2 DEF Call
<1> QED
  BY <1>1, <1>2, <1>3, NothingOpen

LEMMA VerdictIsRefusal ==
  ASSUME NEW k, Verdict(k) # "committed"
  PROVE  Verdict(k) \in {"auth", "permanent", "recovery"}
<1>1. \A c, j, new, n : EntryVerdict(c, j, new, n) \in {"committed", "permanent", "recovery"}
  BY DEF EntryVerdict
<1>2. \A c, j, lot, expected :
        LedgerVerdict(c, j, lot, expected) \in {"committed", "permanent", "recovery"}
  BY <1>1 DEF LedgerVerdict
<1>3. \A c, orders : LegacyVerdict(c, orders) \in {"committed", "permanent"}
  BY DEF LegacyVerdict
<1> QED
  BY <1>2, <1>3 DEF Verdict

LEMMA WriteConflictKeeps ==
  ASSUME IInv, NEW k \in DOMAIN calls, WriteConflict(k)
  PROVE  IInv'
<1>1. TransactionStep /\ k \notin db'.spent /\ open'.call # k
  BY CallFacts DEF WriteConflict, TransactionStep, CallPart
<1> QED
  BY <1>1, RerunKeeps DEF WriteConflict

LEMMA RefuseKeeps ==
  ASSUME IInv, NEW k \in DOMAIN calls, Refuse(k)
  PROVE  IInv'
<1>1. TransactionStep /\ k \notin db'.spent /\ open'.call # k
  BY CallFacts DEF Refuse, TransactionStep, CallPart
<1>2. Verdict(k) \in {"auth", "permanent", "recovery"}
  BY VerdictIsRefusal DEF Refuse
<1>3. calls' = Answered(k, Verdict(k), {})
  BY DEF Refuse
<1> QED
  BY <1>1, <1>2, <1>3, AnsweredKeeps

LEMMA CommitAnsweredKeeps ==
  ASSUME IInv, NEW k \in DOMAIN calls, CommitAnswered(k)
  PROVE  IInv'
<1>1. calls[k].phase = "commit" /\ calls' = Answered(k, "committed", calls[k].acks)
  BY DEF CommitAnswered, CanCommit
<1>2. TransactionStep
  BY CallFacts DEF CommitAnswered, TransactionStep
<1>3. calls[k].acks \subseteq db'.receipts
  <2>1. CASE open.call = k /\ db' = Applied /\ open' = NoTransaction
    <3>1. DbOK /\ OpenOK /\ OpenInv /\ open.call # 0
      BY <2>1, CallFacts DEF IInv
    <3>2. db'.receipts = db.receipts \cup open.receipts
      BY <2>1, <3>1, AppliedParts, OpenFacts
    <3> QED
      BY <1>1, <2>1, <3>2, CallFacts DEF CallPart
  <2>2. CASE k \in db.spent /\ UNCHANGED <<db, open>>
    BY <1>1, <2>2, CallFacts DEF CallPart
  <2> QED
    BY <2>1, <2>2 DEF CommitAnswered
<1>4. calls[k].acks \subseteq ReceiptDoc
  BY CallFacts
<1> QED
  BY <1>1, <1>2, <1>3, <1>4, AnsweredKeeps

LEMMA CommitUnansweredKeeps ==
  ASSUME IInv, NEW k \in DOMAIN calls, CommitUnanswered(k)
  PROVE  IInv'
<1> DEFINE e == [calls[k] EXCEPT !.uncertain = TRUE, !.commits = @ + 1]
<1>1. calls[k].phase = "commit" /\ calls' = CommitUnknown(k)
  BY DEF CommitUnanswered, CanCommit
<1>2. TransactionStep
  BY CallFacts DEF CommitUnanswered, TransactionStep
<1>3. calls \in Seq(Call) /\ calls[k] \in Call /\ Lotted(calls[k]) /\ CallPart(k) /\ k # 0
  BY CallFacts
<1>4. /\ e.phase = "commit" /\ e.verdict = calls[k].verdict /\ e.acks = calls[k].acks
      /\ e.kind = calls[k].kind /\ e.journal = calls[k].journal
      /\ e.lot = calls[k].lot /\ e.orders = calls[k].orders
  BY <1>1, <1>3 DEF Call
<1>5. calls[k].commits + 1 \in Nat
  BY <1>3 DEF Call
<1>6. e \in Call
  BY <1>3, <1>5 DEF Call
<1>7. calls' = [calls EXCEPT ![k] = e]
  BY <1>1, <1>3 DEF CommitUnknown
<1>8. calls'[k] = e
  BY <1>7
<1> HIDE DEF e
<1>9. calls' = [calls EXCEPT ![k] = calls'[k]] /\ calls'[k] \in Call
  BY <1>6, <1>7, <1>8
<1>10. Lotted(calls'[k])
  BY <1>3, <1>4, <1>8 DEF Lotted
<1>11. CallPart(k)'
  <2>1. open'.call = k => e.acks \subseteq db'.receipts \cup open'.receipts
    BY <1>1, <1>2, <1>3, <1>4, TransactionKeeps DEF CallPart
  <2>2. k \in db'.spent => e.acks \subseteq db'.receipts
    BY <1>1, <1>2, <1>3, <1>4, TransactionKeeps DEF CallPart
  <2> QED
    BY <1>1, <1>3, <1>4, <1>8, <2>1, <2>2 DEF CallPart
<1> QED
  BY <1>2, <1>9, <1>10, <1>11, StepKeeps

LEMMA CommitRefusedKeeps ==
  ASSUME IInv, NEW k \in DOMAIN calls, CommitRefused(k)
  PROVE  IInv'
<1>1. calls[k].phase = "commit" /\ calls' = AfterAbort(k)
  BY DEF CommitRefused, CanCommit
<1>2. TransactionStep /\ k \notin db'.spent /\ open'.call # k
  BY CallFacts DEF CommitRefused, TransactionStep
<1>3. CASE calls[k].uncertain
  BY <1>1, <1>2, <1>3, AnsweredKeeps DEF AfterAbort
<1>4. CASE ~calls[k].uncertain
  BY <1>1, <1>2, <1>4, RerunKeeps DEF AfterAbort
<1> QED
  BY <1>3, <1>4

LEMMA GiveUpKeeps ==
  ASSUME IInv, NEW k \in DOMAIN calls, GiveUp(k)
  PROVE  IInv'
<1>1. TransactionStep /\ calls' = Answered(k, "temporary", {})
  BY DEF GiveUp, TransactionStep
<1> QED
  BY <1>1, AnsweredKeeps

LEMMA RunWorkKeeps ==
  ASSUME IInv, NEW k \in DOMAIN calls, RunWork(k)
  PROVE  IInv'
<1> DEFINE e == [calls[k] EXCEPT !.phase = "commit", !.acks = Receipts(k)]
<1>1. /\ calls[k].phase = "work" /\ open = NoTransaction /\ Verdict(k) = "committed"
      /\ open' = Work(k) /\ UNCHANGED db
      /\ calls' = [calls EXCEPT ![k].phase = "commit", ![k].acks = Receipts(k)]
  BY DEF RunWork
<1>2. DbOK /\ CallsOK /\ EvidenceInv /\ CallInv /\ open.call = 0
  BY <1>1, NothingOpen DEF IInv
<1>3. calls \in Seq(Call) /\ calls[k] \in Call /\ Lotted(calls[k]) /\ CallPart(k) /\ k \in Nat \ {0}
  BY CallFacts
<1>4. OpenInv'
  BY <1>1, <1>2, <1>3, LotFits, LegacyFits DEF Call
<1>5. OpenOK' /\ open'.call = k
  <2>1. open'.call = k
    BY <1>1, <1>2, <1>3, LotParts, LegacyParts DEF Call
  <2>2. OpenOK'
    BY <1>1, <1>2, <1>4, WorkOK
  <2> QED
    BY <2>1, <2>2
<1>6. DbOK' /\ EvidenceInv'
  BY <1>1, <1>2 DEF DbOK, EvidenceInv, EvidenceSound, ChainAudit, SaleAudit, ReceiptAudit, Stored,
     SaleOf
<1>7. Receipts(k) \subseteq db.receipts \cup open'.receipts
  BY <1>1 DEF Receipts
<1>8. Receipts(k) \subseteq ReceiptDoc
  BY <1>2, <1>5, <1>7 DEF DbOK, OpenOK
<1>9. /\ e.phase = "commit" /\ e.verdict = calls[k].verdict /\ e.acks = Receipts(k)
      /\ e.kind = calls[k].kind /\ e.journal = calls[k].journal
      /\ e.lot = calls[k].lot /\ e.orders = calls[k].orders
  BY <1>3 DEF Call
<1>10. e \in Call
  BY <1>3, <1>8 DEF Call
<1>11. calls' = [calls EXCEPT ![k] = e]
  BY <1>1, <1>3
<1>12. calls'[k] = e
  BY <1>11
<1> HIDE DEF e
<1>13. calls' \in Seq(Call) /\ DOMAIN calls' = DOMAIN calls
       /\ \A i \in DOMAIN calls : i # k => calls'[i] = calls[i]
  BY <1>3, <1>10, <1>11
<1>14. \A i \in DOMAIN calls' : Lotted(calls'[i])
  <2>1. Lotted(calls'[k])
    BY <1>3, <1>9, <1>12 DEF Lotted
  <2> QED
    BY <2>1, <1>2, <1>13 DEF CallsOK
<1>15. k \notin db.spent /\ calls[k].verdict = "none"
  BY <1>1, <1>3 DEF CallPart
<1>16. CallsOK'
  BY <1>1, <1>2, <1>5, <1>13, <1>14, <1>15 DEF CallsOK
<1>17. CallPart(k)'
  BY <1>1, <1>5, <1>7, <1>9, <1>12, <1>15 DEF CallPart
<1>18. ASSUME NEW i \in DOMAIN calls, i # k
       PROVE  CallPart(i)'
  BY <1>1, <1>2, <1>5, <1>13, <1>18 DEF CallInv, CallPart
<1> QED
  BY <1>4, <1>5, <1>6, <1>13, <1>16, <1>17, <1>18 DEF IInv, CallInv

LEMMA CrashKeeps ==
  ASSUME IInv, Crash
  PROVE  IInv'
<1> DEFINE e(k) == Ended(calls[k], "lost", "none", {})
<1>1. /\ calls' = [k \in DOMAIN calls |-> IF calls[k].phase = "answered" THEN calls[k] ELSE e(k)]
      /\ UNCHANGED <<db, open>>
  BY DEF Crash
<1>2. TransactionStep /\ CallsOK /\ CallInv
  BY <1>1 DEF TransactionStep, IInv
<1>3. ASSUME NEW k \in DOMAIN calls
      PROVE  /\ calls[k] \in Call /\ Lotted(calls[k])
             /\ e(k) \in Call /\ Lotted(e(k)) /\ e(k).phase = "lost" /\ e(k).verdict = "none"
  <2>1. calls[k] \in Call /\ Lotted(calls[k])
    BY CallFacts
  <2>2. /\ e(k) \in Call /\ e(k).phase = "lost" /\ e(k).verdict = "none"
        /\ e(k).kind = calls[k].kind /\ e(k).journal = calls[k].journal
        /\ e(k).lot = calls[k].lot /\ e(k).orders = calls[k].orders
    BY <2>1 DEF Ended, Call
  <2> HIDE DEF e
  <2> QED
    BY <2>1, <2>2 DEF Lotted
<1> HIDE DEF e
<1>4. calls' \in Seq(Call) /\ DOMAIN calls' = DOMAIN calls
  <2>1. calls \in Seq(Call) /\ Len(calls) \in Nat /\ DOMAIN calls = 1..Len(calls)
    BY <1>2 DEF CallsOK
  <2>2. calls' \in [1..Len(calls) -> Call]
    BY <1>1, <1>3, <2>1
  <2> QED
    BY <2>1, <2>2
<1>5. \A k \in DOMAIN calls' : Lotted(calls'[k])
  BY <1>1, <1>3, <1>4
<1>6. ASSUME NEW k \in DOMAIN calls
      PROVE  CallPart(k)'
  <2>1. CASE calls[k].phase = "answered"
    BY <1>1, <1>2, <1>4, <2>1, OthersKeep
  <2>2. CASE calls[k].phase # "answered"
    <3>1. calls'[k].phase = "lost" /\ calls'[k].verdict = "none"
      BY <1>1, <1>3, <2>2
    <3> QED
      BY <3>1 DEF CallPart
  <2> QED
    BY <2>1, <2>2
<1>7. CallsOK'
  BY <1>1, <1>2, <1>4, <1>5 DEF CallsOK
<1> QED
  BY <1>2, <1>4, <1>6, <1>7, TransactionKeeps DEF IInv, CallInv

LEMMA ResolveKeeps ==
  ASSUME IInv, Resolve
  PROVE  IInv'
<1>1. TransactionStep /\ UNCHANGED calls /\ open'.call = 0
  <2>1. open.call # 0
    BY DEF Resolve, IInv, OpenOK
  <2> QED
    BY <2>1, NothingOpen DEF Resolve, TransactionStep
<1>2. CallInv'
  BY <1>1, OthersKeep DEF CallInv
<1>3. CallsOK'
  <2>1. db'.spent \subseteq db.spent \cup {open.call} /\ open.call # 0
    BY TransactionKeeps, <1>1 DEF Resolve, IInv, OpenOK
  <2>2. CallsOK /\ 0 \notin db'.spent
    BY <1>1, TransactionKeeps DEF IInv
  <2> QED
    BY <2>1, <2>2, <1>1 DEF CallsOK
<1> QED
  BY <1>1, <1>2, <1>3, TransactionKeeps DEF IInv

LEMMA RevokeKeeps ==
  ASSUME IInv, NEW t \in Tablets, Revoke(t)
  PROVE  IInv'
<1>1. DbOK /\ OpenOK /\ CallsOK /\ EvidenceInv /\ CallInv /\ open = NoTransaction
  BY DEF IInv, Revoke, Fenced
<1>2. /\ db' = [db EXCEPT !.revoked = @ \cup {t}] /\ UNCHANGED <<open, calls>>
  BY DEF Revoke
<1>3. /\ DbOK' /\ db'.events = db.events /\ db'.sales = db.sales /\ db'.receipts = db.receipts
      /\ db'.head = db.head /\ db'.spent = db.spent
  BY <1>1, <1>2 DEF DbOK
<1>4. EvidenceInv'
  BY <1>1, <1>3 DEF EvidenceInv, EvidenceSound, ChainAudit, SaleAudit, ReceiptAudit, Stored, SaleOf
<1>5. OpenInv' /\ OpenOK'
  BY <1>1, <1>2, NothingOpen DEF OpenInv, OpenOK
<1>6. CallsOK' /\ CallInv'
  BY <1>1, <1>2, <1>3 DEF CallsOK, CallInv, CallPart
<1> QED
  BY <1>3, <1>4, <1>5, <1>6 DEF IInv

LEMMA NextIInv ==
  ASSUME IInv, [Next]_vars
  PROVE  IInv'
<1>1. CASE UNCHANGED vars
  <2>1. TransactionStep /\ UNCHANGED calls /\ UNCHANGED <<db, open>>
    BY <1>1 DEF vars, TransactionStep
  <2>2. CallInv'
    BY <2>1, OthersKeep DEF CallInv
  <2>3. CallsOK'
    BY <2>1 DEF IInv, CallsOK
  <2> QED
    BY <2>1, <2>2, <2>3, TransactionKeeps DEF IInv
<1>2. ASSUME NEW t \in Tablets, SendEvents(t) \/ SendLegacy(t) \/ Revoke(t)
      PROVE  IInv'
  BY <1>2, SendKeeps, RevokeKeeps
<1>3. ASSUME NEW k \in DOMAIN calls,
             \/ WriteConflict(k) \/ Refuse(k) \/ RunWork(k) \/ CommitAnswered(k)
             \/ CommitUnanswered(k) \/ CommitRefused(k) \/ GiveUp(k)
      PROVE  IInv'
  BY <1>3, WriteConflictKeeps, RefuseKeeps, RunWorkKeeps, CommitAnsweredKeeps,
     CommitUnansweredKeeps, CommitRefusedKeeps, GiveUpKeeps
<1> QED
  BY <1>1, <1>2, <1>3, CrashKeeps, ResolveKeeps DEF Next

-----------------------------------------------------------------------------
(* The results.                                                            *)

LEMMA Invariance == Spec => []IInv
<1>1. Init => IInv
  BY InitIInv
<1>2. IInv /\ [Next]_vars => IInv'
  BY NextIInv
<1> QED
  BY <1>1, <1>2, PTL DEF Spec

(* The offline audit of server/src/persistence/audit.ts passes at every    *)
(* moment on what persistLedger and persistLegacyBatch of store.ts         *)
(* committed, and an order is sold once.                                   *)
THEOREM EvidencePassesAudit == Spec => []EvidenceSound
<1>1. IInv => EvidenceSound
  BY DEF IInv, EvidenceInv
<1> QED
  BY <1>1, Invariance, PTL

(* A call that was refused for good has stored nothing and never will:     *)
(* runTransaction of transactions.ts refuses only before a commit.         *)
THEOREM RefusalIsFinal == Spec => []RefusedNotApplied
<1>1. IInv => RefusedNotApplied
  BY DEF IInv, CallInv, CallPart, RefusedNotApplied
<1> QED
  BY <1>1, Invariance, PTL

(* What runTransaction lets a call acknowledge is stored, and every entry  *)
(* and order keeps the one receipt it was given.                           *)
THEOREM AcknowledgedIsKept == Spec => []AckedDurable
<1>1. IInv => AckedDurable
  BY DEF IInv, EvidenceInv, CallInv, CallPart, AckedDurable
<1> QED
  BY <1>1, Invariance, PTL

(* Once a revocation is committed, the tablet stores nothing more: both    *)
(* transactions write the fence of the organization (transactions.ts).     *)
THEOREM RevokedStoresNothing == Spec => RevocationFinal
<1>1. IInv /\ [Next]_vars => [\A s \in db'.events \ db.events : s.tablet \notin db.revoked]_vars
  <2> SUFFICES ASSUME IInv, Next, NEW s \in db'.events \ db.events
               PROVE  s.tablet \notin db.revoked
    OBVIOUS
  <2>1. CASE db' = db
    BY <2>1
  <2>2. CASE db' = Applied
    <3>1. db'.events = db.events \cup open.events
      BY <2>2 DEF Applied, IInv, DbOK
    <3>2. open.call # 0
      BY <3>1, NothingOpen DEF IInv, OpenOK, NoTransaction
    <3> QED
      BY <3>1, <3>2 DEF IInv, OpenInv, OpenChain
  <2>3. CASE \E t \in Tablets : Revoke(t)
    BY <2>3 DEF Revoke, IInv, DbOK
  <2>4. db' = db \/ db' = Applied \/ \E t \in Tablets : Revoke(t)
    BY DEF Next, SendEvents, SendLegacy, Post, WriteConflict, Refuse, RunWork, CommitAnswered,
       CommitUnanswered, CommitRefused, GiveUp, Crash, Resolve
  <2> QED
    BY <2>1, <2>2, <2>3, <2>4
<1> QED
  BY <1>1, Invariance, PTL DEF Spec, RevocationFinal
=============================================================================
