-------------------------- MODULE JournalIngestion --------------------------
(***************************************************************************)
(* The server stores what the tablets send: one call of POST               *)
(* /ledger/ingest or /ledger/legacy is one MongoDB transaction, run and    *)
(* rerun by runTransaction (server/src/persistence/transactions.ts) around *)
(* persistLedger or persistLegacyBatch (server/src/persistence/store.ts).  *)
(* The commit is where a call can fail halfway: its answer may be lost     *)
(* after the transaction was applied, or before, or the database may still *)
(* be deciding.  What the events contain is checked by ServerRules; here a *)
(* lot is valid, and what matters is where it fits, and that the offline   *)
(* audit of the stored evidence (server/src/persistence/audit.ts) passes.  *)
(*                                                                         *)
(* Every transaction of an organization starts by writing its fence, so    *)
(* that at most one is open: "open" is that transaction, and another one   *)
(* that starts meanwhile fails with a write conflict and is rerun.         *)
(***************************************************************************)
EXTENDS Naturals, Sequences, FiniteSets, SequencesExt

CONSTANTS
  Tablets,      \* installations
  ChainOf,      \* [Tablets -> chains]
  Copies,       \* [Tablets -> sets of journals]: the journal of a tablet, and
                \* what it became where its data was put back in time
  Unsealed,     \* [Tablets -> sets of orders]: orders older than the journal
  MaxCalls,     \* bound: calls received
  MaxAttempts,  \* runs of a transaction (4 in the code)
  MaxCommits    \* tries of a commit (3 in the code)

ASSUME IngestionAssumption ==
  /\ MaxCalls \in Nat
  /\ MaxAttempts \in Nat \ {0}
  /\ MaxCommits \in Nat \ {0}

(* A journal is a sequence of entries [id, digest, kind, about, seal].  An *)
(* entry is about the order a sale or a correction names, or about the     *)
(* session opened, counted again or closed; seal is the digest of the sale *)
(* corrected, none for an older order.  The digest is the sequence of what *)
(* the entry covers: itself after, through previousHash, the ones before.  *)
Chains == {ChainOf[t] : t \in Tablets}
Journals == UNION {Copies[t] : t \in Tablets}
Entries == UNION {{j[n] : n \in DOMAIN j} : j \in Journals}
Orders ==
  {e.about : e \in {f \in Entries : f.kind = "sale"}} \cup UNION {Unsealed[t] : t \in Tablets}
NoSeal == <<>>

ASSUME JournalsAssumption == \A j \in Journals : j \in Seq(Entries)

NoHead == [sequence |-> 0, digest |-> <<>>]
HeadOf(j, n) == IF n = 0 THEN NoHead ELSE [sequence |-> n, digest |-> j[n].digest]

VARIABLES
  db,     \* what the database has committed
  open,   \* the transaction that holds the fence, or NoTransaction
  calls   \* the calls received, in order

vars == <<db, open, calls>>

\* call = 0: no transaction.  asked: the commit was sent to the database.
NoTransaction ==
  [call |-> 0, chain |-> CHOOSE c \in Chains : TRUE, events |-> {}, sales |-> {},
   receipts |-> {}, head |-> NoHead, asked |-> FALSE]

Init ==
  /\ db = [events  |-> {},
           sales   |-> {},
           receipts |-> {},
           head    |-> [c \in Chains |-> NoHead],
           spent   |-> {},
           revoked |-> {}]
  /\ open = NoTransaction
  /\ calls = <<>>

-----------------------------------------------------------------------------
(* The work of a transaction, on what is committed.  A verdict is          *)
(* "committed" or the category of syncError: auth, permanent, recovery.    *)

Stored(c, id) == {s \in db.events : s.chain = c /\ s.entry.id = id}
At(c, n) == {s \in db.events : s.chain = c /\ s.sequence = n}
SaleOf(order) == {s \in db.sales : s.order = order}

\* ledgerDocument, legacyDocument: an entry with what the server derives of it.
LedgerDocument(c, tablet, j, n) ==
  [chain |-> c, sequence |-> n, entry |-> j[n], tablet |-> tablet]
SealedSale(c, entry) ==
  [chain |-> c, order |-> entry.about, type |-> "sealed", seal |-> entry.digest]
LegacyDocument(c, order) ==
  [chain |-> c, order |-> order, type |-> "legacy", seal |-> NoSeal]

Sold(c, order) == SaleOf(order) # {}

\* mistake: heads are compared by their sequences alone
SameSequence(h, g) == h.sequence = g.sequence
SameHead(h, g) == h = g

Opened(c, session) ==
  \E s \in db.events :
    s.chain = c /\ s.entry.kind = "opened" /\ s.entry.about = session

(* The identity conflicts of the whole lot come before anything else: with *)
(* what is stored, and with the entries before in the lot.                 *)
Twice(j, before, n) ==
  \E m \in before : j[m].kind = j[n].kind /\ j[m].about = j[n].about

Conflicts(c, j, lot) ==
  \E n \in lot :
    LET before == {m \in lot : m < n}
    IN  \/ \E m \in before : j[m].id = j[n].id
        \/ \E s \in Stored(c, j[n].id) : s.sequence # n \/ s.entry # j[n]
        \/ \E s \in At(c, n) : s.entry.id # j[n].id
        \/ /\ Stored(c, j[n].id) = {}
           /\ \/ j[n].kind = "sale" /\ (Sold(c, j[n].about) \/ Twice(j, before, n))
              \/ j[n].kind = "opened" /\ (Opened(c, j[n].about) \/ Twice(j, before, n))

(* Entry n follows a head: its sequence does, and previousHash, which its  *)
(* digest covers, is the hash of the head.                                 *)
Follows(head, j, n) == SameHead(head, [sequence |-> n - 1, digest |-> Front(j[n].digest)])

(* checkReferences: what entry n of a lot refers to is stored, or before   *)
(* it in the lot: the order corrected, the session of a closure or count.  *)
Missing(c, j, new, n) ==
  LET before == {m \in new : m < n}
  IN  \/ /\ j[n].kind = "correction"
         /\ \A s \in SaleOf(j[n].about) : s.chain # c
         /\ ~\E m \in before : j[m].kind = "sale" /\ j[m].about = j[n].about
      \/ /\ j[n].kind \in {"closure", "counted"}
         /\ ~Opened(c, j[n].about)
         /\ ~\E m \in before : j[m].kind = "opened" /\ j[m].about = j[n].about

Inconsistent(c, j, new, n) ==
  /\ j[n].kind = "correction"
  /\ \/ \E s \in SaleOf(j[n].about) : s.chain = c /\ s.seal # j[n].seal
     \/ \E m \in new :
          m < n /\ j[m].kind = "sale" /\ j[m].about = j[n].about /\ j[m].digest # j[n].seal

(* Then the new entries must follow the head, which must be the one the    *)
(* tablet expects; the first entry that does not fit decides.              *)
FirstOf(S) == CHOOSE n \in S : \A m \in S : n <= m
LastOf(S) == CHOOSE n \in S : \A m \in S : m <= n

EntryVerdict(c, j, new, n) ==
  IF n # FirstOf(new) /\ ~Follows(HeadOf(j, n - 1), j, n) THEN "permanent"
  ELSE IF Missing(c, j, new, n) THEN "recovery"
  ELSE IF Inconsistent(c, j, new, n) THEN "permanent"
  ELSE "committed"

NewEntries(c, j, lot) == {n \in lot : Stored(c, j[n].id) = {}}

Misfits(c, j, new) == {n \in new : EntryVerdict(c, j, new, n) # "committed"}

LedgerVerdict(c, j, lot, expected) ==
  LET new   == NewEntries(c, j, lot)
      first == FirstOf(new)
      wrong == Misfits(c, j, new)
  IN  IF Conflicts(c, j, lot) THEN "permanent"
      ELSE IF new = {} THEN "committed"
      ELSE IF first > db.head[c].sequence + 1 THEN "recovery"
      ELSE IF ~Follows(db.head[c], j, first) THEN "permanent"
      ELSE IF ~SameHead(db.head[c], expected) THEN "recovery"
      ELSE IF wrong # {} THEN EntryVerdict(c, j, new, FirstOf(wrong))
      ELSE "committed"

(* An order without an entry is taken once, by one chain.                  *)
LegacyVerdict(c, orders) ==
  IF \E s \in db.sales : s.order \in orders /\ (s.chain # c \/ s.type # "legacy")
  THEN "permanent" ELSE "committed"

(* tabletGuard and consume: the installation is authorized and the signed  *)
(* challenge, one for each call, was never used.                           *)
Authorized(k) == calls[k].tablet \notin db.revoked /\ k \notin db.spent

Verdict(k) ==
  LET call == calls[k] c == ChainOf[call.tablet]
  IN  IF ~Authorized(k) THEN "auth"
      ELSE IF call.kind = "ledger"
           THEN LedgerVerdict(c, call.journal, call.lot, call.expected)
           ELSE LegacyVerdict(c, call.orders)

(* What the transaction of call k adds.  A receipt is named by the run of  *)
(* the call that drew it.                                                  *)
Work(k) ==
  LET call    == calls[k]
      c       == ChainOf[call.tablet]
      receipt == <<k, call.attempt>>
      j       == call.journal
      new     == NewEntries(c, j, call.lot)
      sealed  == {n \in new : j[n].kind = "sale"}
      unknown == {o \in call.orders : SaleOf(o) = {}}
  IN  [call   |-> k,
       chain  |-> c,
       events |-> {LedgerDocument(c, call.tablet, j, n) : n \in new},
       sales  |-> {SealedSale(c, j[n]) : n \in sealed}
                    \cup {LegacyDocument(c, o) : o \in unknown},
       receipts |-> {[chain |-> c, type |-> "ledger", id |-> j[n].id,
                      receipt |-> receipt] : n \in new}
                      \cup {[chain |-> c, type |-> "legacy", id |-> o,
                             receipt |-> receipt] : o \in unknown},
       head   |-> IF new = {} THEN db.head[c]
                  ELSE HeadOf(j, LastOf(new)),
       asked  |-> FALSE]

(* The acknowledgements: the receipt of every entry or order of the lot,   *)
(* the one just drawn or the one it had.                                   *)
Receipts(k) ==
  LET call == calls[k]
      ids  == {call.journal[n].id : n \in call.lot} \cup call.orders
  IN  {r \in db.receipts \cup Work(k).receipts :
         r.chain = ChainOf[call.tablet] /\ r.id \in ids}

-----------------------------------------------------------------------------
(* Calls *)

Post(call) ==
  /\ Len(calls) < MaxCalls
  /\ calls' = Append(calls, call)
  /\ UNCHANGED <<db, open>>

NewCall(t, kind, j, lot, expected, orders) ==
  [tablet |-> t, kind |-> kind, journal |-> j, lot |-> lot, expected |-> expected,
   orders |-> orders, phase |-> "work", attempt |-> 1, commits |-> 0,
   uncertain |-> FALSE, verdict |-> "none", acks |-> {}]

(* A lot is a range of the journal; the tablet expects the server at the   *)
(* entry before it.  A lot whose answer was lost is sent again.            *)
SendEvents(t) ==
  \E j \in Copies[t] : \E first, last \in DOMAIN j :
    /\ first <= last
    /\ Post(NewCall(t, "ledger", j, first..last, HeadOf(j, first - 1), {}))

SendLegacy(t) ==
  /\ Unsealed[t] # {}
  /\ Post(NewCall(t, "legacy", <<>>, {}, NoHead, Unsealed[t]))

\* How often the call was run no longer matters.
Ended(call, phase, verdict, acks) ==
  [call EXCEPT !.phase = phase, !.verdict = verdict, !.acks = acks,
               !.attempt = 1, !.commits = 0, !.uncertain = FALSE]

Answered(k, verdict, acks) ==
  [calls EXCEPT ![k] = Ended(@, "answered", verdict, acks)]

\* Rerun on a fresh snapshot, or give up after the last run.
Rerun(k) ==
  IF calls[k].attempt < MaxAttempts
  THEN [calls EXCEPT ![k].phase = "work", ![k].attempt = @ + 1]
  ELSE Answered(k, "temporary", {})

WriteConflict(k) ==
  /\ calls[k].phase = "work"
  /\ open # NoTransaction
  /\ calls' = Rerun(k)
  /\ UNCHANGED <<db, open>>

Refuse(k) ==
  /\ calls[k].phase = "work"
  /\ open = NoTransaction
  /\ Verdict(k) # "committed"
  /\ calls' = Answered(k, Verdict(k), {})
  /\ UNCHANGED <<db, open>>

RunWork(k) ==
  /\ calls[k].phase = "work"
  /\ open = NoTransaction
  /\ Verdict(k) = "committed"
  /\ open' = Work(k)
  /\ calls' = [calls EXCEPT ![k].phase = "commit", ![k].acks = Receipts(k)]
  /\ UNCHANGED db

-----------------------------------------------------------------------------
(* The commit.  Since the challenge is consumed by the transaction itself, *)
(* it tells whether the transaction of a call was applied.                 *)

Applied ==
  [db EXCEPT !.events = @ \cup open.events,
             !.sales  = @ \cup open.sales,
             !.receipts = @ \cup open.receipts,
             !.head[open.chain] = open.head,
             !.spent  = @ \cup {open.call}]

CanCommit(k) == calls[k].phase = "commit" /\ calls[k].commits < MaxCommits

\* commitTransaction answers: applied now, or already.
CommitAnswered(k) ==
  /\ CanCommit(k)
  /\ \/ open.call = k /\ db' = Applied /\ open' = NoTransaction
     \/ k \in db.spent /\ UNCHANGED <<db, open>>
  /\ calls' = Answered(k, "committed", calls[k].acks)

\* mistake: a commit whose outcome is unknown counts as a success
UnknownIsSuccess(k) == Answered(k, "committed", calls[k].acks)
\* mistake: a commit whose outcome is unknown counts as a conflict
UnknownIsConflict(k) == Rerun(k)
\* UnknownTransactionCommitResult: only the same commit may be tried again.
CommitUnknown(k) ==
  [calls EXCEPT ![k].uncertain = TRUE, ![k].commits = @ + 1]

CommitUnanswered(k) ==
  /\ CanCommit(k)
  /\ \/ open.call = k /\ db' = Applied /\ open' = NoTransaction
     \/ open.call = k /\ open' = [open EXCEPT !.asked = TRUE] /\ UNCHANGED db
     \/ open.call # k /\ UNCHANGED <<db, open>>
  /\ calls' = CommitUnknown(k)

(* The database answers that the transaction is aborted: it is rerun,      *)
(* unless an earlier commit of it is uncertain.                            *)
AfterAbort(k) ==
  IF calls[k].uncertain THEN Answered(k, "temporary", {}) ELSE Rerun(k)

CommitRefused(k) ==
  /\ CanCommit(k)
  /\ k \notin db.spent
  /\ open' = IF open.call = k THEN NoTransaction ELSE open
  /\ calls' = AfterAbort(k)
  /\ UNCHANGED db

(* The tries or the time are used up, or the caller is gone before any     *)
(* commit is uncertain.  A transaction without an uncertain commit is      *)
(* aborted.                                                                *)
GiveUp(k) ==
  /\ calls[k].phase \in {"work", "commit"}
  /\ open' = IF open.call = k /\ ~calls[k].uncertain THEN NoTransaction ELSE open
  /\ calls' = Answered(k, "temporary", {})
  /\ UNCHANGED db

(* The server process stops: its calls are never answered.                 *)
Crash ==
  /\ \E k \in DOMAIN calls : calls[k].phase \in {"work", "commit"}
  /\ calls' = [k \in DOMAIN calls |->
                 IF calls[k].phase = "answered" THEN calls[k]
                 ELSE Ended(calls[k], "lost", "none", {})]
  /\ UNCHANGED <<db, open>>

(* The database decides alone what became of a transaction whose commit    *)
(* was sent, and aborts one that was left open.                            *)
Resolve ==
  /\ open # NoTransaction
  /\ open.asked \/ calls[open.call].phase = "lost"
  /\ \/ open.asked /\ db' = Applied
     \/ UNCHANGED db
  /\ open' = NoTransaction
  /\ UNCHANGED calls

-----------------------------------------------------------------------------
\* mistake: a revocation does not write the fence
Unfenced == TRUE
Fenced == open = NoTransaction

(* A manager revokes a tablet, in a transaction of its own.                *)
Revoke(t) ==
  /\ Fenced
  /\ t \notin db.revoked
  /\ db' = [db EXCEPT !.revoked = @ \cup {t}]
  /\ UNCHANGED <<open, calls>>

Next ==
  \/ \E t \in Tablets : SendEvents(t) \/ SendLegacy(t) \/ Revoke(t)
  \/ \E k \in DOMAIN calls :
       \/ WriteConflict(k)
       \/ Refuse(k)
       \/ RunWork(k)
       \/ CommitAnswered(k)
       \/ CommitUnanswered(k)
       \/ CommitRefused(k)
       \/ GiveUp(k)
  \/ Crash
  \/ Resolve

Spec == Init /\ [][Next]_vars

-----------------------------------------------------------------------------
(* Types *)

Receipt == (1..MaxCalls) \X (1..MaxAttempts)

TypeOK ==
  /\ \A s \in db.events :
       /\ s.chain \in Chains /\ s.entry \in Entries /\ s.sequence \in Nat \ {0}
       /\ s.tablet \in Tablets
  /\ \A s \in db.sales :
       /\ s.chain \in Chains /\ s.order \in Orders /\ s.type \in {"sealed", "legacy"}
  /\ \A r \in db.receipts : r.chain \in Chains /\ r.receipt \in Receipt
  /\ db.spent \subseteq DOMAIN calls
  /\ db.revoked \subseteq Tablets
  /\ open.call \in {0} \cup DOMAIN calls
  /\ \A k \in DOMAIN calls :
       /\ calls[k].phase \in {"work", "commit", "answered", "lost"}
       /\ calls[k].attempt \in 1..MaxAttempts
       /\ calls[k].commits \in 0..MaxCommits
       /\ calls[k].verdict \in
            {"none", "committed", "auth", "permanent", "recovery", "temporary"}

-----------------------------------------------------------------------------
(* Properties *)

(* A call whose transaction was applied is never given a definite refusal: *)
(* the tablet would take its own, stored entries for rejected ones, or     *)
(* itself for revoked (transactions.ts: "no callback may be rerun").       *)
RefusedNotApplied ==
  \A k \in DOMAIN calls :
    calls[k].verdict \in {"auth", "permanent", "recovery"} =>
      k \notin db.spent /\ open.call # k

(* What is acknowledged is stored, for good, with the receipt the          *)
(* acknowledgement carries: no entry is ever given two receipts.           *)
AckedDurable ==
  /\ \A k \in DOMAIN calls : calls[k].verdict = "committed" => calls[k].acks \subseteq db.receipts
  /\ \A r, q \in db.receipts :
       r.chain = q.chain /\ r.type = q.type /\ r.id = q.id => r = q

(* The audit of a chain: its entries follow one another up to the head,    *)
(* each with a receipt; a sale, the order a correction names and the       *)
(* session an entry belongs to are stored, the session before the entry.   *)
ChainAudit(c) ==
  LET stored == {s \in db.events : s.chain = c}
      sale(order, seal) == \E s \in db.sales : s.chain = c /\ s.order = order /\ s.seal = seal
  IN  /\ {s.sequence : s \in stored} = 1..db.head[c].sequence
      /\ db.head[c] # NoHead => \E s \in stored : s.entry.digest = db.head[c].digest
      /\ \A s \in stored :
           /\ \A r \in stored :
                r.sequence = s.sequence + 1 => Front(r.entry.digest) = s.entry.digest
           /\ \E r \in db.receipts : r.chain = c /\ r.type = "ledger" /\ r.id = s.entry.id
           /\ s.entry.kind = "sale" => sale(s.entry.about, s.entry.digest)
           /\ s.entry.kind = "correction" => sale(s.entry.about, s.entry.seal)
           /\ s.entry.kind \in {"closure", "counted"} =>
                \E r \in stored :
                  /\ r.entry.kind = "opened" /\ r.entry.about = s.entry.about
                  /\ r.sequence < s.sequence

SaleAudit(s) ==
  CASE s.type = "sealed" ->
         \E e \in db.events : e.chain = s.chain /\ e.entry.kind = "sale"
                              /\ e.entry.about = s.order /\ e.entry.digest = s.seal
    [] OTHER ->
         \E r \in db.receipts : r.chain = s.chain /\ r.type = "legacy" /\ r.id = s.order

ReceiptAudit(r) ==
  CASE r.type = "ledger" -> Stored(r.chain, r.id) # {}
    [] OTHER -> \E s \in SaleOf(r.id) : s.chain = r.chain /\ s.type = "legacy"

(* The offline audit passes at every moment on what the calls committed,   *)
(* whichever copies of a journal were sent, whatever became of the calls   *)
(* and in whatever order an older order and its correction came; an order  *)
(* is sold once: in one chain, at one place, sealed or not.                *)
EvidenceSound ==
  /\ \A c \in Chains : ChainAudit(c)
  /\ \A s \in db.sales : SaleAudit(s)
  /\ \A r \in db.receipts : ReceiptAudit(r)
  /\ \A r, s \in db.sales : r.order = s.order => r = s

(* Nothing a tablet sends is stored after the commit of its revocation,    *)
(* not even by a call that was authorized before.                          *)
RevocationFinal ==
  [][\A s \in db'.events \ db.events : s.tablet \notin db.revoked]_vars

=============================================================================
