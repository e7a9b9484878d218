# A TLA+ model of Samhain POS

Samhain POS is an offline-first cash register: a TypeScript application on an
Android tablet (`src/src`), native Kotlin plugins behind it
(`src/native/android`), and a Fastify/MongoDB server (`src/server`) that
receives a copy of the tablet's sales journal. Paths below are relative to the
root of the repository (`src/` in `PROJECT.json`).

The modules cover the **sales journal** with its checkout intents, cash
sessions, corrections and closures; its **synchronization** and its
**ingestion** by the server; the **tablets** that are enrolled, replaced and
revoked; the **catalogue** they share; **printing**; the selling **screen**;
**backups and replacements**; and the **start** of the server with its
migrations. This file gives the inventory of the system, what each module says,
what is checked and what is proved. `PROJECT.json` ties every definition to the
lines it stands for, every property to the run that checks it and to a mutation
of the code that breaks it, and lists the hazards the properties answer.

## 1. The system

| Component | State it keeps | Operations | Model |
|---|---|---|---|
| Sales journal and cash sessions (`src/services/orderRepository.ts`, `cashSessionService.ts`, `salesLedgerService.ts`, `saleRefund.ts`; same transactions in `RoomOrderStore.kt`) | orders, append-only journal with a SHA-256 chain, metadata record (next numbers, last hash, last closure end) | finalize a sale, open a session, change the float, refund / cancel / adjust, close a period, audit, export, restore | `LedgerRules`, `LedgerAudit`, `SalesLedger`, `SealedJournal` |
| Checkout intents (`checkoutService.ts`, `CheckoutFlow.tsx`) | one durable intent per checkout and its status | create, begin payment, confirm, abandon, finalize, recover at start | in `SalesLedger`; its screen in `AppScreen` |
| Outbox and synchronization (`OutboxStore.kt`, `SyncEngine.kt`, `OutboxWorker.kt`, `OutboxEntry.kt`, `OutboxDestination.kt`) | one row per event with status, owner, lease, backoff; receipts; cursor, batch limit, recovery count | capture, backfill, claim, select, renew, send, acknowledge, release, reduce, recover | `OutboxSync`, `Replication` |
| Server journal ingestion (`server/src/ledger`, `server/src/persistence/store.ts`, `transactions.ts`, `audit.ts`) | entries, sales, receipts, head of each chain | classify and insert a batch in one transaction; rerun it; commit it, or commit it again; audit | `JournalIngestion`, `ServerRules` |
| Printing (`orderPrintService.ts`, `orderPrinting.ts`, `orderService.ts`, `OrderHistory.tsx`, `usePrinterStatus.ts`, `EpsonUsbPrinterPlugin.kt`, `UsbBulkWriter.kt`) | status of the documents of each order, copies held by the screens | begin, transfer, complete, fail, retry, reprint, read the printer | `OrderPrinting`, `PrintLifecycle` |
| Tablet authentication (`server/src/tablet-auth`, `ApiTabletAuthService.kt`, `TabletCredentialVault.kt`) | requests, codes, installations, sessions, generation of a chain; the tablet's vault | enroll, approve, reject, activate, rotate, send, revoke, replace | `TabletRegistry`, `TabletAccess` |
| Catalogue (`catalogRepository.ts`, `catalogDistributionService.ts`, `CatalogDistributionPanel.tsx`, `server/src/catalog`) | products, merge base, active and downloaded versions, conflicts; published versions | edit, download, activate, settle conflicts, publish | `CatalogStore`, `CatalogDistribution` |
| Backup, restoration, replacement (`salesBackupService.ts`, `tabletReplacementService.ts`, `terminalConfigurationService.ts`, `roomOrderRepository.ts`) | archive, marker of a replacement, identity of the register | save a verified backup, replace a tablet, restore, import an older history | `TabletReplacement` |
| Selling screen (`App.tsx`, `CheckoutFlow.tsx`) | cart, open options, copies of intents and products | sell, pay, check a payment after a restart, apply a catalogue | `AppScreen` |
| Server persistence and process (`server/src/persistence/migrations.ts`, `schema.ts`, `privileges.ts`, `mongo.ts`, `server/src/index.ts`) | collections, indexes, recorded versions, the process | migrate, verify, listen, stop | `ServerStart` |
| Responsible mode, local database upgrades, dashboard, legacy Supabase backend | | | not modelled: section 6 |

How they interact. A screen calls a service; the service reads the journal,
computes, and calls one method of the repository, which is one transaction of
IndexedDB or Room. Nothing holds the journal still between the two. On Android
the transaction that journals an entry also inserts its row in the outbox.
WorkManager starts drains that claim rows, send them over HTTPS under the
tablet's session, and write the receipts back. The server decides on a batch in
one MongoDB transaction from the entries it holds and from the head of the
chain. Printing starts after the sale is journaled and never changes it. The
catalogue is read when a cart is built; its activation is refused while a
checkout is open. A replacement restores an archive of the journal on a new
tablet and takes over the identity, hence the chain, and a manager's approval
moves the chain's authorization to it.

What makes it hard:

* a service decides on a journal that may change before its transaction runs:
  another tap, another screen, a retry with the same operation identifier;
* confirmation of a payment and finalization of the sale are two transactions:
  the application may stop between them, and a closure may come in between;
* entries carry dates chosen before their transaction, on a clock that may be
  set back, while closures seal half-open periods of time;
* claims are leases: a stopped worker's thread goes on running, a device may
  sleep longer than a lease, a process dies with rows claimed;
* a request may be applied by the server and its answer lost, or arrive after
  the tablet has given it up; the retry may carry other entries;
* the commit of a transaction may be applied and its answer lost, and the
  client must neither rerun it nor call it refused;
* an enrollment, a rotation or a revocation may be repeated, delayed or overtaken
  by a decision about another tablet of the same chain;
* a screen works on copies: of an order another dialog prints, of a payment
  whose call failed after its transaction, of a catalogue replaced since;
* paper cannot be taken back: a document whose transfer was cut short may or
  may not have been printed;
* Room and the local storage share no transaction, and MongoDB runs a migration
  outside of any.

What makes each component correct, in a line: journal and intents - the stores
always pass the audit, closed periods are complete and final, each operation
counts once, confirmed payments become sales the server accepts; synchronization
- the server holds a prefix, receipts are only for what it holds, everything is
acknowledged in the end; ingestion - an applied transaction is never refused,
what is stored always passes the audit; printing - no document leaves the tablet
more often than somebody asked; authentication - one uploader per chain, whose
session no retry destroys and whose journal the server's copy is a beginning of;
catalogue - no edit is lost, nothing is undone unseen, versions only grow;
screen - a customer pays the prices of one catalogue, no payment is out of
sight; replacement - an identity is taken only with its whole journal; server -
it listens on a complete schema only, and changes no namespace it does not know.

## 2. The sales journal

### LedgerRules, LedgerAudit

`LedgerRules` holds the pure functions of `orderRepository.ts` and of
`saleRefund.ts` and `utils/vat.ts`: closure totals over a half-open period, the
active session read back from the journal, the start of a session's period, VAT
rounding, the validation of corrections. `LedgerAudit` is
`verifyAuditSnapshot`, the audit run before a closure, an export and a
restoration; each conjunct is a family of errors of that function.

A journal entry has the header of `LedgerEntry` and a body. Data is abstracted
to what the rules tell apart: a sale's cart is a quantity per line (`Sold`),
lines have a unit price and a VAT rate, a sale is settled in cash or by card.
Two entries of a chain never share a SHA-256 digest, so `HashOf` names a digest
by the position and identifier of its entry; the chain (`previousHash`) and the
digests kept elsewhere (`originalSaleHash`, an order's `hash`) are modelled.

### SalesLedger

| Variable | In the code |
|---|---|
| `status`, `confirmedAt` | `CheckoutIntent.status`, `paymentConfirmedAt` |
| `orders`, `ledger`, `metadata` | the `orders` and `salesLedger` stores, the `sequences` record |
| `requests` | service calls that have read the journal and not yet run their transaction, or may run it again |
| `issued` | operation and session identifiers already drawn |
| `clock` | the device's clock |

A repository method is one transaction and one action: `CreateCheckoutIntent`,
`MarkCheckoutPaymentToVerify`, `ConfirmCheckoutPayment`,
`AbandonCheckoutIntent`, `FinalizeCheckoutIntent`, `OpenCashSession`,
`UpdateCashFloat`, `RecordCorrection`, `ClosePeriod`. The services in front are
split from it: `RequestOpenSession`, `RequestUpdateFloat`,
`RequestCancelSale`, `RequestRefundSale`, `RequestAdjustSale` and
`RequestClosePeriod` read the journal as it is, compute what the service
computes from it (period start, previous float, VAT of the refund), check what
the screen in front of them checks and post a request: selling and correcting
need `SellingScreen`, a closure the preview of its totals and a clean audit
(`PreviewClosure`, `VerifyIntegrity`). The transaction is applied any time later,
and again for a retry with the same identifier; `Settle` is the end of the call, with or without an
answer. A restart needs no action of its own: it loses no durable state, and a
call it kills is a `Settle` without a transaction. `Tick` and `SetClockBack`
move the clock.

The register starts empty or with a sale sealed by `CreateOrder`, the one call
that sells without an intent: older versions sold that way, before there were
sessions, and the product's checkout no longer does.

### ServerRules

The rules of `server/src/ledger/business.ts` and the references
`persistence/store.ts` checks are a second implementation of what an entry must
satisfy, written apart from the register's. An entry the register seals and the
server refuses would stop its synchronization for good. `ServerAccepts` replays
the register's journal through the server's rules: every entry is accepted on
top of the prefix before it, for any journal `SalesLedger` can produce, refunds
with their quantities and VAT included. `ServerRules` extends `SalesLedger`, so
the two codes meet in one state.

### SealedJournal

The promise about closed periods without sessions, intents, hashes or totals:
dated entries are recorded, a period counts what it contains when it is closed,
and nothing is added to a period once counted. `SalesLedger` implements it
(`ImplementsPromise`): `recorded` is the set of sales and corrections with
their dates, `periods` what each closure counted.

### Runs

| Run | Bounds | Properties |
|---|---|---|
| `ledger_core` | one sale, new or legacy, four operations, two floats, clock 0..2, two calls at a time (323,578 states) | `TypeOK`, `AuditClean`, `PeriodsTile`, `JournaledOnce`, `ImplementsPromise` |
| `ledger_sales` | two sales, of two teas and a cake or of one tea, at 0.32 and 20 % VAT, three operations, clock 0..1 that may be set back (239,432) | `ServerAccepts`, `FinalizedExactlyOnce`, `ClosedPeriodsSealed`, `ConfirmedPaymentKept` |
| `ledger_stuck` | one sale, two operations | `ConfirmedStaysFinalizable`, violated: see section 5 |

Why the bounds are enough: two calls at a time are what it takes for one to be
stale; four operations allow a session, a correction or a float change, a
closure and the next session; instants 0..2 put entries before, at and after a
boundary, in two successive periods. `ledger_core` keeps a clock that only goes
forward: a sale dated, on a clock set back, before the start of the session it
is made in belongs to no period, so `PeriodsTile` needs it. `ledger_sales` needs
no second period and lets the clock go back. The tea is priced so that the VAT of
one is 5 cents and of two is 11: rounding each refund by itself loses a cent. The
identifiers run out, so the runs stop: deadlock is not checked.
`MaxClock`, `MaxRequests` and the sets of identifiers are the only bounds of the
specification. Permutations of the operation identifiers are a symmetry: no
definition tells them apart, and no run with symmetry checks liveness. There is
no fairness: this part is about safety.

## 3. Synchronization

### OutboxSync

| Variable | In the code |
|---|---|
| `journaled` | entries of the journal, numbered from 1 |
| `status`, `owner`, `waiting`, `receipts` | outbox rows: `status` (with `BATCH_TOO_LARGE` told apart from other `needs_recovery` rows), `claimOwner`, rows whose `nextAttemptAt` is in the future, receipts |
| `cursor`, `limit`, `recoveries` | `ledgerCursor`, `batchLimit`, `recoveryAttempts` of the destination |
| `authorized` | whether the server accepts the tablet's session |
| `pc`, `batch`, `call`, `late` | each drain: where it is, the copy of the rows it works on, its request or answer, whether its lease has expired |
| `ghosts` | requests on their way whose caller has given up |
| `held`, `head` | what the server holds, and the head of the chain |
| `left` | how often each fault may still happen (a bound) |

Each Room transaction is an action, and the rest of a drain
(`SyncEngine.drainReady`) is cut at them: `Backfill`, `Claim` (or
`ClaimNothing`, `SkipUnauthorized`), `Select` (the events that fit a request),
`Renew`, `Send` (`markAttempt`), then one action per answer: `Acknowledge`,
`Quarantine`, `HeadMoved`, `TooLarge` and `ReduceBatch`, `Recover`; `ClaimLost`
is the general error handler. `Serve` is `persistLedger` on the server: replays
first, then succession, head, business rules, and all or nothing. Which entries
the business rules refuse, and which are too large to be sent, are constants.
Faults are actions of their own: the server is unreachable, an answer is lost
before or after the commit, the session is refused, the process dies (also
between the two transactions of a recovery, `Interrupted`), a device sleeps past
a lease, a request given up reaches the server late.

Time is abstracted to the two conditions the code tests: whether a lease has
expired (`late`) and whether a backoff has elapsed (`waiting`; rows released
together become due together). `Starts` gives the entries an upgraded register
has already journaled and how often each fault may happen from there.

Left out: orders without a sequence from the very first versions, the choice
of a destination and the enabled flag, protocol versions. `requestRecovery`
is a plugin method no part of the product calls.

### Replication

What synchronization promises without leases, batches and faults: the journal
grows, the server holds a growing prefix, and receipts are for what it holds.
`ImplementsReplication` checks that `OutboxSync` implements it.

### Runs

| Run | Bounds and faults | Properties |
|---|---|---|
| `outbox_races` | two drains, four entries, one journaled before the outbox, backfills of two, claims of three, a server that takes two at once; two lost answers, a late lease and a crash anywhere; or an unreachable server, a session refused in two ways, a late lease; one entry refused, one too large (989,741 states) | `TypeOK`, `HeadIsPrefix`, `LiveClaimsDisjoint`, `ImplementsReplication` |
| `outbox_outages` | two drains, four entries; two failures to reach the server and a refused session while sales are journaled, with batches the server finds too large; or two lost answers and a crash while nothing new is journaled (15,079) | `EventuallyAcknowledged` |

Four entries allow a mixed batch (some replayed, some new) with a row before
and after it; two drains are what it takes for a claim to be contested. The
journal is bounded, so a run stops when everything is acknowledged or the chain
is blocked: deadlock is not checked. Symmetry between drains is used only where
no liveness is checked.

Fairness (`FairSpec`), weak and per drain: WorkManager restarts a drain after
every operation, every fifteen minutes, and as long as a drain leaves work
(`OutboxWorker.kt`), so a drain that can step does; time passes, so the lease of
a dead drain expires and a backoff elapses; a tablet whose session is refused is
authorized again by its background session, or by an administrator. No fault is
fair, no new entry has to be journaled, and a request given up may never arrive.
The liveness result is conditional on a bounded number of faults, and holds only
for the two combinations of the run, in which no `HEAD_MOVED` is met: section 5
lists the combinations of ordinary faults after which synchronization does stop
for good. That an automatic recovery leads on is therefore claimed by no property.

## 4. The other components

The modules of this section hold no RECURSIVE definition and state their types
in a `TypeOK` of their own where they have many variables (printing, tablets,
catalogue, ingestion); those `TypeOK` are documentation of the state and the
starting point of proofs, and no run of their own is spent on them.

### JournalIngestion - the server stores what it is sent

| Variable | In the code |
|---|---|
| `db` | the committed collections: ledger events, sales, receipts, heads, spent challenges, revoked installations |
| `open` | the transaction that has written the organization's fence, and what it would commit |
| `calls` | the requests received, each with its attempt, its tries of a commit and its verdict |

`SendEvents` and `SendLegacy` receive a lot of one tablet, in any of the states
its journal may be sent from: `Copies` holds the journal and what it became
where the tablet's data was put back in time. `RunWork` is the body of
`persistLedger` or `persistLegacyBatch`: conflicts first, then succession, head,
references, and one insertion of everything. Around it is `runTransaction`:
`WriteConflict` reruns the work on a new snapshot, `CommitAnswered`,
`CommitUnanswered` and `CommitRefused` are what a commit may come to, an unknown
one is only committed again, `GiveUp` ends the tries, `Crash` stops the server,
and `Resolve` is the database deciding alone a transaction whose commit nobody
waits for. `Refuse` ends a call without one, `Revoke` is the commit of a
revocation between two transactions.

Every transaction of an organization first updates its fence
(`guards.ts`), so that of two open at once one fails: with one organization
there is at most one open transaction. Contents are valid here (their rules are
in `ServerRules`), operation identifiers are those of the entries, receipts are
named by the call and the attempt that drew them, and `expectedHead` is the
predecessor of the first entry sent (`SyncEngine.kt`, line 53). The answer to a
prefix question is in `OutboxSync`. Left out: canonical forms and syntax,
terminal ranges, the audit of installation keys and catalogues. The branch on a
seal that does not match (`Inconsistent`) is a defence: the run shows no correct
tablet reaches it, and it is kept because the code has it.

| Run | Bounds | Properties |
|---|---|---|
| `ingestion` | two calls, two attempts, two tries of a commit; a tablet with two copies of its journal (a session, a sale, and a correction of an older order, or the same sale at another instant, a count and a refund), and another chain with a copy of the sale and of the older order (286,156 states) | `RefusedNotApplied`, `AckedDurable`, `EvidenceSound`, `RevocationFinal` |

Two calls are what it takes for one to be rerun over the other, for a lot to be
replayed after a commit without an answer, and for an older order to come after
its own correction; two tries tell a commit repeated from the last one.
`EvidenceSound` is the offline audit (`audit.ts`) at every moment.

### TabletRegistry, TabletAccess - who may write a chain

| Variable | In the code |
|---|---|
| `reg` | the server's record of one chain: generation, stored journal, requests with their code and pinned target, installations, sessions with their rotations, audits |
| `vault` | what `TabletCredentialVault` keeps: installation, request, session, rotation and manager operation under way |
| `call`, `late` | the operation each native service is in; requests given up that may still arrive |
| `journal` | the sealed events each tablet holds |
| `trouble` | how much went wrong so far (a bound) |

`TabletRegistry` has one operator per handler of `service.ts`, from the registry
and a message to the registry committed and the answer: `Enroll`, `Decide`
(approval pins the present generation and installation), `Activate` (checks
continuity between the stored journal and the dossier, retires the installation
replaced, opens a session), `Recovered` for a repeated activation, `Refresh`,
`Status`, `Sync`, `Revoke`. Each is one transaction. `TabletAccess` plays the
tablets: `AskEnrollment`, `EnterCode`, `Verify`, `SendSync` write the vault
before the request that must be repeatable, `Refused` and `Answered` are
`ApiTabletAuthService.kt`'s reaction to each code, and a manager on a tablet or
elsewhere approves, rejects and revokes. `Abandon` gives a request up, which
`ServeLate` may still deliver; `AccessExpires` and `Elapse` let tokens and
answers age; `Restore` puts the journal of one tablet on the other, which may go
on selling as a fork.

Abstractions: the manager's calls are atomic, their rights and the scope of the
organization are live throughout, keys never change (a proof always verifies; what
it is bound to is kept). Terminal ranges, rate limits, the idle end of a session
and the OIDC dialogue are not modelled.

| Run | Bounds | Properties |
|---|---|---|
| `tablets` | two installations of one chain, two requests, a code each, one decision prepared on a tablet, one entry each, one late request each, two troubles (975,629 states) | `OneUploader`, `SessionSurvives`, `AuthorizedContinues` |

Two installations make a replacement; two requests make one that comes after
the revocation or the retirement of the first; two troubles are a lost answer
and the expiry, the revocation or the second loss that meets it.

### CatalogStore, CatalogDistribution - one catalogue, many tablets

| Variable | In the code |
|---|---|
| `versions` | the organization's published versions |
| `store` | the tablet's catalogue: local rows, merge base, active and downloaded version, conflicts |
| `task` | the operation of the background and of each dialog: its stage and the snapshot it computed on |
| `visible`, `shown`, `screen` | the dialog, the status it read, the rows the screen last loaded |
| `seen`, `edits` | history: the published value known when a field was last decided; how many edits were made (a bound) |

`CatalogStore` holds what is computed from a snapshot: the three-way merge of an
activation, staging, decisions. `CatalogDistribution` runs them beside each
other: `Compute` and `Commit` are split by the revision check
(`CATALOG_CHANGED`), `Retry` computes again (five times in the code, any number
here), `PublicationAnswered` is the compare-and-set of the server, `AnswerLost`
a publication applied whose answer was lost, `ApplicationRefused` an activation
the selling screen refuses (any time, see `AppScreen`), `Restart` a stop. A
closed dialog leaves its operation behind, which may answer under another one.

Left out: rows are never removed, the local shortages overlay, validity rules
and one-time migrations, publications that change nothing. `ReadsFail = FALSE`
bounds the run to screens whose rows are read again after each change; with
failures `AskedOrKnown` does not hold: section 5.

| Run | Bounds | Properties |
|---|---|---|
| `catalog` | two tablets, two dialogs and the background, two operations under way, one field with three values, two versions, two edits (917,297 states) | `AskedOrKnown`, `PublishedSeen`, `NoEditLost`, `NeverOlder` |

Merges are by field, so one field shows every case of it; two versions make an
old answer overtaken by a newer one; a second dialog is what an operation left
behind needs to be taken for another's.

### OrderPrinting, PrintLifecycle - paper

| Variable | In the code |
|---|---|
| `stored` | the order's printing state in the database |
| `listed`, `screen` | the copies held by the register screen, the checkout and the history |
| `print` | the print calls under way: phase, documents chosen, written, uncertain |
| `status` | the last reading of the printer, and the reading under way |
| `whole`, `due` | history: documents written to the end; per document, the copies asked for of which no byte has left |

`Begin` marks the documents unknown before the transfer, `TakePriority` and
`StartJob` are the queue in front of the printer, `WriteDocument` ends complete,
partial or with nothing sent, `Cut` writes the end of the job, `Finish` records
the outcome, `SaveFails` does not; `StartReading`, `ReadingAnswers` and `Age` are
`usePrinterStatus.ts`; `Stop` is a sudden end of the process. A print is an
asynchronous call that outlives the dialog that asked for it, so that two
prints of one order may be in flight.

| Run | Bounds | Properties |
|---|---|---|
| `printing` | two documents, two prints, two copies due at most (1,018,485 states) | `NoUnaskedCopy`, `RecordMatchesPaper`, `ReadyIsRecent`, `NobodyWaitsForEver` |

`CheckoutDuringPrint = FALSE` bounds the run: the checkout does not take the
order up again while a history closed by its backdrop still prints it; section 5
says what happens otherwise.

`NoUnaskedCopy` and `RecordMatchesPaper` also trust what the transport reports of
a transfer, as the code does: `WriteDocument` takes a write of which no byte was
reported for one of which no byte left. A transfer that fails on its first chunk
(up to 16 KiB, `UsbBulkWriter.kt`, lines 55-64 and 72-81) is reported so; if the
printer had taken part of that chunk, what is on paper is more than the model, or
the record, can know. `NobodyWaitsForEver` is an invariant with ENABLED:
some call under way can always go on.

### AppScreen - selling, paying, and a catalogue applied

| Variable | In the code |
|---|---|
| `intents`, `catalog` | the durable intents, by status and the catalogues their lines were priced from; how many activations were committed |
| `calls` | the calls about payments, in order, with their answers |
| `cart`, `options`, `products`, `dialog`, `checkout`, `recovery` | the state of `App.tsx` and of `CheckoutFlow.tsx` |
| `failures`, `stops` | how often a call failed, how often the application stopped (bounds) |

Each button is an action, guarded by what the checkout offers for the copy it
shows (`PaymentButtons`, `OrderButtons`), each call has one action for its transaction
(`RunCall`, which may fail before or after it) and one for its answer. Payment
calls are run in order on the one executor of `OrderStoragePlugin`; the
catalogue's plugin has its own. `applyCatalog` decides on the copies the screen
had (`IsSafe`), and `CommitActivation` looks at the cart and at the durable
intents again. A refused activation leaves the products in error until they are
read again, as in the code. Printing, the cash session and the contents of a sale
are elsewhere; responsible mode and local price changes are left out, and no
period is closed meanwhile (`ledger_stuck` shows what that would add).

| Run | Bounds | Properties |
|---|---|---|
| `app` | two payments, two activations, two failed calls, one stop (91,900 states) | `OneCatalogue`, `PaymentShown`, `CheckoutEnds` |

Fairness: weak for the calls and their answers; strong for the buttons of the
checkout (a cashier in front of an open checkout presses, some day, each of the
buttons that is offered again and again). `CheckoutEnds` is therefore about the
program: it never leaves a checkout without a button that closes it.

### TabletReplacement - backups, and the tablet that takes over

| Variable | In the code |
|---|---|
| `old`, `backup`, `file`, `since` | the register in use, the backup under way, the document written, and (history) the journals it had meanwhile |
| `room`, `history` | the new tablet's database and its restored flag; what an older version left in IndexedDB |
| `identity`, `marker` | the local storage: terminal identity, pending replacement |
| `process`, `call` | the application's screen and initialization; the replacement under way |
| `failures`, `stops` | bounds |

A journal is its sales and one bit for what printing changes. The old tablet
sells and prints while `ExportArchive`, `SaveJson` and `CompareReread` save a
backup on a medium that may keep part of it or answer early. The replacement is
one action per step between two writes: `ReadTarget`, `PrepareSyncReplacement`,
`SaveMarker`, `Restore`, `RereadTarget`, `AdoptRestoredIdentity`,
`ClearMarker`, with `CallFails` and `Stop` between any two. `EnsureInitialized`
imports the older history once.

The technician follows `docs/tablet-replacement-and-backup.md`: the old tablet is
withdrawn first, an interrupted replacement is taken up again with the same
archive, no register is set up meanwhile. Reprovisioning after a verified
synchronization is not modelled.

| Run | Bounds | Properties |
|---|---|---|
| `replacement` | two sales of a tablet, two stops, two failures, three archives to choose from (499,091 states) | `BackupIsFaithful`, `HistoryKept`, `AdoptsWhatItRestored`, `ReplacementEnds` |

Fairness: weak for the new tablet's own steps, for its restart and for the
technician going on with a replacement once begun. Stops and failures are
bounded and never fair.

### ServerStart - migrations and the process

| Variable | In the code |
|---|---|
| `schema`, `records` | each collection's validator, index and documents; the versions recorded |
| `command` | each migration command: its step, and what it read |
| `grant` | the role of the server's account |
| `process` | the server: down, checking, listening, stopping, its stop rejected |
| `failures` | a bound |

A migration is cut at every command to the database: `Inspect` (the whole
namespace first), `LookAtCollection` and `ChangeCollection`, `BuildIndex`,
`LookAtVersion` and `InsertVersion`, `VerifyMigration`; two may run side by
side, next to an older server that writes. `CheckCollection` and
`CheckPrivileges` come before the server listens, in a production environment
with authentication; `Signal`, `CloseApp`, `CloseDatabase`, `StopRejected`, `Exit`
and `Deadline` are `index.ts` and the `stop` of `lifecycle.ts`. A stop settles in
three ways. The requests and the driver close, and the process ends. They never
answer, and the deadline ends it. Or one of them refuses to close: `stop` rejects,
the deadline is cleared, signals go on being ignored, and the process ends when
nothing left open keeps it alive, which nothing in the program sees to.
`StopEnds` says what the deadline does ensure, and section 5 what it does not.

Validators are followed by their version, with the strict level merged into the
current one; a collection has one index, there are two of them; creating a
collection that exists may or may not be refused, which covers both drivers'
answers. The installation of roles, later readiness checks, configuration, HTTP
hooks and a migrator of an older version are not modelled.

| Run | Bounds | Properties |
|---|---|---|
| `server` | two migrations, two collections in any of eight states each, four sets of records, four roles, one failure (414,788 states) | `ServedIsComplete`, `RefusedUntouched`, `MigrationEnds`, `StopEnds` |

Fairness: weak for the migration the operator runs until it is complete and for
the timer of a stop as long as it is armed; nothing is assumed of the driver, nor
of what it leaves open (`CloseDatabase`, `StopRejected` and `Exit` are not fair).

In all these runs identifiers, failures or sales run out, so the runs stop and
deadlock is not checked. Symmetry (of prints, installations, tablets and dialogs)
is only used where no liveness is checked.

## 5. Disagreements met

Shown by a run:

* `ledger_stuck` - `finalizeCheckoutIntent` refuses an intent whose payment was
  confirmed before the last closure ended, and a closure does not look at
  intents. After a restart between confirmation and finalization, a closure
  leaves the confirmed intent where it can be neither finalized nor abandoned;
  `docs/checkout-intents.md` (lines 28-29) says an error keeps it recoverable.

Observed with the same modules, by changing the constants named or, for the
server, the property, and kept outside of the runs:

* Synchronization stops for good, in `OutboxSync` under `FairSpec`:
  1. `Starts` with one lost answer and sales that go on: a claim that also takes
     an entry journaled since is refused with `HEAD_MOVED`; the recovery makes
     everything pending, the next claim takes the same mixed batch, refused
     again, and no further recovery is automatic.
     `docs/architecture-mongodb-offline-first.md` (line 219) describes a replay
     of complete batches and then the suffix.
  2. with one `suspend`: `renew` refuses a lease that has just lapsed and the
     error handler blocks the rows, which nothing resumes;
     `docs/outbox-synchronization.md` (lines 53-54) says an expired lease is
     recoverable.
  3. with one lost answer and one `suspend`: a late `HEAD_MOVED` makes rows
     pending again that another drain has had acknowledged; when that drain is
     acknowledged in turn, a hole is left that the assertion of `claim`
     (`OutboxStore.kt`, line 120) refuses.
  4. with one `crash_midway`: a process that dies between the release of a batch
     too large, or of a moved head, and the reduction or the recovery that
     follows it (`SyncEngine.kt`, lines 87-95) leaves rows nothing resumes.
* Sales journal: the selling screen is shown once a session was active, and is
  still there after a closure whose dialog was closed because the device was put
  to sleep (`App.tsx`, lines 285-295, reads no session again), so a payment may
  be taken with no active session; `docs/sales-ledger.md` (line 60) says the
  screen stays blocked as long as no active session has a float. `SellingScreen`
  asks for no more than the code does.
* Printing, with `CheckoutDuringPrint = TRUE`: a document whose outcome is
  unknown is printed again without being chosen, when the history that prints it
  was closed by its backdrop (`OrderHistory.tsx`, line 269) and the checkout
  takes the order up; `docs/tm-t88v-usb-test-plan.md` (line 77) says it never is.
* Catalogue, with `ReadsFail = TRUE`: an edit made on rows read before an
  activation, because reading them again failed, departs from a published value
  nobody saw.
* Tablets: a revocation repeated with the same operation number
  (`ApiTabletAuthService.kt`, line 112) leaves a tablet that shows itself revoked
  while its installation keeps access (`docs/tablet-enrollment.md`, line 204);
  two candidates approved against the same generation may both become active in
  turn with a revocation between them (line 207); after a revocation a new
  request may be refused with `EVENT_CONTENT_CONFLICT` while an old one stands
  (line 165).
* Replacement: a stop between the suspension of the synchronization and the
  saved marker leaves a database marked restored without a marker; a register set up
  on it is refused `RECOVERY_REQUIRED` at its enrollment. And
  `docs/tablet-replacement-and-backup.md` (line 88) says an interrupted
  replacement blocks the setting up of a register, while the screen is chosen
  once, at launch (`App.tsx`, lines 169-175).
* Server, with the right side of `StopEnds` reduced to `process = Down`: a driver
  whose `close` rejects makes `stop` reject (`lifecycle.ts`, line 28), and the
  handler of `index.ts` (lines 25-28) clears the deadline and only sets the exit
  code. What the failed closing left open may keep the process alive, and no
  later signal is looked at (line 9), while the comment of the deadline calls it
  absolute and `server/README.md` (line 208) promises a non-zero code once it has
  passed.

## 6. Not modelled

`createOrder` of the repository once there are sessions: the product's checkout
always goes through intents, and falls back to it only when a test injects it
(what it left on an older register is an initial state of `SalesLedger`). What a
refund screen lets a cashier select is bounded by the quantities sold; the quantities left are
checked in the transaction.

Responsible mode (`responsibleModeService.ts`): the timers of one dialog, which
keep nothing and change no stored state; in `SalesLedger` a call that needs the
mode may always be posted, which covers every state of it. Two unlock attempts
side by side around the key derivation (line 127) are untested in the repository
and not covered here either.

Local database upgrades (Room and IndexedDB schemas): what they leave is an
initial state, a sale sealed before sessions existed in `SalesLedger`, entries
journaled before the outbox in `OutboxSync`, an IndexedDB history in
`TabletReplacement`. The dashboard is read-only queries and rendering. The
Supabase backend is replaced by the MongoDB server. Rendering, money entry,
statistics, configuration and plumbing change nothing the properties are about.

## 7. Proofs

TLAPS checks these theorems for every value of the constants that satisfies the
named assumptions: any number of sales, drains, prints, tablets, calls, instants
and faults, where a run has two or three. The assumptions are stated where the
constants are declared (`SalesAssumption`, `LinesAssumption`,
`ParametersAssumption`, `OutboxAssumption`, `DrainsAssumption`,
`IngestionAssumption`, `JournalsAssumption`, `RegistryAssumption`,
`InitialAssumption`, `DocumentsAssumption`, `PrintsAssumption`,
`ServerStartAssumption`); they say of what kind a constant is, and TLC evaluates
them in the runs. Two theorems of printing, two of the catalogue and two of the
journal have a hypothesis (a bound of their run, or what an earlier check of the
code ensures), which is stated with them.

Each module of proofs is laid out alike: the inductive invariant `IInv` in named
parts, a lemma per action (or per handler) that says which parts it can disturb,
and the theorems, where the last step combines the others by temporal logic.
Every `IInv` was first an invariant of the module's run.

### The sales journal (`SalesLedgerProofs`)

| Theorem | Statement |
|---|---|
| `TypeCorrect` | `Spec => []TypeOK` |
| `JournalIsAChain` | sequences and hashes form one unbroken chain, and the metadata names its head |
| `OperationsJournaledOnce` | `Spec => []JournaledOnce` |
| `ClosedPeriodsStaySealed` | `Spec => []ClosedPeriodsSealed` |
| `SalesFinalizedOnce` | `Spec => []FinalizedExactlyOnce` |
| `ConfirmedPaymentsAreKept` | `Spec => ConfirmedPaymentKept`, an action property |
| `Implementation` | `Spec => ImplementsPromise`: `SalesLedger` refines `SealedJournal` |
| `PeriodsStayComplete`, `EntriesCountedOnce` | the two properties of `SealedJournal`, of the register |
| `AuditAlwaysPasses` | `Spec => []AuditClean` |
| `ClosedPeriodsTile` | `~ClockMayGoBack` implies `Spec => []PeriodsTile` |
| `PeriodsTileAfterTheFirst` | without that hypothesis: the same of every closure but the first |
| `ServerAcceptsTheJournal` | `Spec => []ServerAccepts`, of `ServerRules`, if every sale has a cart `validateOrderDraft` lets through |

The argument. `ClosedPeriodsSealed` is not inductive: that a new entry respects
the closures follows from `metadata.lastClosureEnd`, so the invariant must say
that it is the largest end of the closures (`SealInv`). That an entry is
appended at the position its sequence says needs the chain (`ChainInv`), and
that it is not there already needs identifiers to tell the kind of their entry
and the sale they are about (`IdInv`). `IInv` is the conjunction of these with
`TypeOK`. One lemma per action shows that it either leaves the stores alone or
is a `JournalStep` (one entry appended, with what the action's guards say of
it); `ChainStep`, `IdStep` and `SealStep` then show once, for any
`JournalStep`, that each part is preserved. The first section of the module
states what appending to a journal does to its entries of a kind, and that
maxima exist.

`FinalizedExactlyOnce` relates three stores and the numbers printed on tickets.
`SaleInv` adds what makes it inductive: the orders are those of the finalized
intents, a sale's number is its place among the journal's sales, and the next
numbers in the metadata record count them.

The refinement maps a sale or a correction to `Record`, a closure to `Close` and
everything else to a stuttering step. With it and with `PromiseInv`,
`PeriodsStayComplete` says for any number of sales, operations and instants that
a period, once closed, counted everything there will ever be in it, even with a
clock set back, and `EntriesCountedOnce` that no two closures count the same
entry.

The last four results are about amounts, and about a second reader of the
journal.

* The audit walks the journal from its first entry and recomputes what each one
  should say. `AuditInv` says that the walk passes, that the session it ends in
  is the one `getActiveCashSession` finds, and that corrections and orders match
  their entries. An appended entry then only has to fit the end of the walk
  (`EntryFits`), which each action's guards give: what is recomputed for an older
  entry reads the prefix before it, which never changes.
* A total is a fold over a set of entries, and the provers have no induction over
  those. The section on sums defines a total by the same equation (`Sums`) and
  gets what is needed of it (adding an element, the union of disjoint sets,
  signs) from a least counterexample: if a subset of a finite set were bad, there
  would be one of least cardinality (`WFMin`). `NetIs`, `LineTotalIs` and
  `RefundedIs` say that the folds of the model are such totals.
* What a journal counts before the end of a closed period never changes
  (`CountedOnceForAll`), and the active session starts where the last closure
  ended (`FollowsInv`), so a closure's own total is what the cumulative total
  grew by (`TilesInv`). Only the first closure depends on the clock:
  `FirstPeriodInv` says that nothing journaled, confirmed or asked for is dated
  before the first session, which a clock set back can break.
  `PeriodsTileAfterTheFirst` is what is left without that hypothesis.
* The server checks an entry over the prefix it stores, which is the ledger the
  entry was appended to. So it is enough that each journaling step seals an entry
  its rules accept (`AcceptStep`, `AcceptAppend`). The server finds the last
  closure and the active session where the register has them (`ServerFinds`), and
  its totals are those the register sealed (`TotalsAgree`). The VAT a refund gives
  back is the difference of two rounded amounts; `QuotientGrows` and `VatGrows`
  show that it is never negative (`RefundVatOK`). `AskedInv` says what a posted
  correction still satisfies when it is applied late. The hypothesis on carts (at
  least one article, each at 10 or 20 %) is what `validateOrderDraft`
  (`src/src/services/orderValidation.ts`) checks before an intent is stored; the
  sales of `ledger_sales` satisfy it.

### Synchronization (`OutboxSyncProofs`)

| Theorem | Statement |
|---|---|
| `TypeCorrect` | `Spec => []TypeOK` |
| `ServerHoldsAPrefix` | `Spec => []HeadIsPrefix` |
| `LiveClaimsStayDisjoint` | `Spec => []LiveClaimsDisjoint` |
| `Implementation` | `Spec => ImplementsReplication`: `OutboxSync` refines `Replication` |

They hold for any number of drains, entries and faults, whatever the server
refuses. The inductive invariant `IInv` has three parts (the types are cut into
`RowsOK`, `DrainsOK` and `RestOK`, so that an action is only asked about the
variables it writes):

* `TypeOK` itself.
* `ClaimInv`: a drain whose lease still runs owns every row of its batch, and
  they are all being sent. A row has one owner, so two running leases cannot
  overlap; what makes it inductive is that only an expired lease, its holder, or
  a crash ever takes a row away from its owner.
* `ServerInv`: the server holds exactly the entries up to its head, every
  receipt is for an entry it holds, and a drain that has the answer "ok" in its
  hands has a batch the server holds. The last part is what lets a receipt be
  written long after the answer, by a drain whose lease has expired: what the
  server holds only grows.

Each action has a lemma. Most are `Quiet` (the invariant is kept and nothing
`Replication` sees changes); `Serve` and `SettleGhost` map to `Replicate`,
`Acknowledge` to the abstract `Acknowledge`, `Journal` to `Grow`. The actions
that give rows back share `GiveUpOK`, those that end a drain `EndQuiet`.

### Ingestion (`JournalIngestionProofs`)

| Theorem | Statement |
|---|---|
| `EvidencePassesAudit` | `Spec => []EvidenceSound` |
| `RefusalIsFinal` | `Spec => []RefusedNotApplied` |
| `AcknowledgedIsKept` | `Spec => []AckedDurable` |
| `RevokedStoresNothing` | `Spec => RevocationFinal`, an action property |

A transaction is computed on what is committed and applied later: by an answer,
by one that is lost, or by the database alone once its call is gone. `OpenInv`
says what the open transaction still owes to the evidence when it is applied
(its entries continue the head of their chain one by one, its sales and receipts
are new and belong to them); nothing else changes the committed collections
while the transaction holds the fence, except the revocation that aborts it.
`EvidenceInv` is the offline audit with what makes it inductive: heads are the
last entry, receipts and sales name what they are for, whatever copy of a journal
it came from. `CallInv` ties a call's verdict to both: one refused for good has
neither applied a transaction nor one open, one told yes has its receipts stored.
A lot may hold the same operation twice and may not fit at several entries, and
the code refuses at the first of them; that the first exists is the only use of
well-founded induction.

### Tablets (`TabletAccessProofs`)

| Theorem | Statement |
|---|---|
| `OneInstallationWrites` | `Spec => []OneUploader` |
| `ServerContinuesTheAuthorized` | `Spec => []AuthorizedContinues` |
| `NoRetryEndsASession` | `Spec => []SessionSurvives` |

`RegistryInv` is what the registry promises whatever reaches it: `OneWriter`
(at most one active installation, whose sessions alone are active and of the
present generation; an approval pins a generation the chain had) and `Continues`
(what the server stores of the chain is the beginning of the journal of the
authorized installation). One lemma per handler of `TabletRegistry` shows that
it keeps `RegistryInv` for any message, with one condition on the journals a
message carries: each is the beginning of the journal of the tablet that sent
it. `TabletsInv` shows the condition for everything on its way, however late,
from the fact that a journal only grows; `EmptyInv` covers the one exception, a
restoration, which replaces the journal of a tablet that has asked nothing yet.

`NoRetryEndsASession` needs a second invariant, `SessInv`, proved on top of the
first. `SessionsOK` says of the registry that a rotation is named by the token it
used up, that an active installation has exactly one live session and that an
activated request opened one. `VaultInv` ties a vault to it: its token is the
latest, or was used up by the rotation the vault still holds, and the request it
follows is not ahead of the one the server knows. `CallInv` says what the
operation under way may be sending, and `MsgInv` what a request that was given up
may still bring: a rotation for a token the vault has left or is leaving, of a
session the vault will not be given again. Each handler is shown to be `Served`:
the registry keeps `SessionsOK`, the caller's vault and messages stay true to it,
and for the others nothing changed (`Untouched`). Each step of a tablet is a
`SessionStep`: what its vault `Becomes` keeps its messages true. The two meet in
`SessionStepKeeps`. The server ends a session when a token comes back under
another rotation; the invariant leaves no message that could do it.

### Catalogue and the selling screen (`CatalogDistributionProofs`)

| Theorem | Statement |
|---|---|
| `VersionsGoForward` | `Spec => NeverOlder`, an action property |
| `EditsAreKept` | `Spec => NoEditLost`, an action property |
| `DeparturesAreKnown` | `~ReadsFail` implies `Spec => []AskedOrKnown` |
| `NothingIsOverwrittenUnseen` | `~ReadsFail` implies `Spec => []PublishedSeen` |
| `CustomersPayOneCatalogue` | `ScreenSpec => []OneCatalogue`, of `AppScreen` |
| `NoPaymentIsForgotten` | `ScreenSpec => []PaymentShown`, of `AppScreen` |

A change is computed on a snapshot and written steps later. `BaseInv` says what
of it still holds then: the merge base is the content of the active version, a
download under way is later than what it replaces, and what is about to be
written was computed on the present store, or the revision check will refuse it.
That is enough for the first two. The other two are about people: `ScreensInv`
says what each screen and each published snapshot still knows, while operations
of closed dialogs answer under another one. It is false when a read fails after
a change, as section 5 says, hence the hypothesis.

The last part is about `AppScreen`, the screen a catalogue is applied under (its
specification is named `ScreenSpec`, so that one module can speak of both).
Everything it holds was read some time ago; `ScreenInv` says what of it still holds when
it is used. `PricesInv`: products can be chosen only if they are those of the
catalogue in use or are being read again, and while a catalogue is applied
nothing is chosen or paid. `CallsInv`: at most one reading of the payments and
one call of the checkout are under way, in that order, and whatever a reading was
answered still covers every payment made since, because only the checkout makes
one and it shows the one it makes. `CheckoutOK` ties the copy shown to the stored
intent: an order that looks finalized is, so leaving it hides nothing.

### Printing (`PrintLifecycleProofs`)

| Theorem | Statement |
|---|---|
| `ReadyWasReadLast` | `Spec => []ReadyIsRecent` |
| `NoCopyWithoutRequest` | `~CheckoutDuringPrint` implies `Spec => []NoUnaskedCopy` |
| `RecordAgreesWithPaper` | `~CheckoutDuringPrint` implies `Spec => []RecordMatchesPaper` |
| `PrintedWasWritten` | without that hypothesis: what is recorded as printed was written to its end |

`CourseInv` follows each call through its phases and says what a dialog's copy of
the order may still be wrong about: it may be old, never wrong about a settled
document. `CopiesInv` counts: of each document, at least one copy is due for
every call that still has it to send (`Owing`), and one more when the record says
it is to be printed and no call has it (`Unclaimed`). With several prints in
flight the count is over a set of calls, so the lemmas are about the cardinality
of `Owing` when one call enters or leaves it.

### Replacement and start (`TabletReplacementProofs`, `ServerStartProofs`)

| Theorem | Statement |
|---|---|
| `VerifiedBackupIsFaithful` | `Spec => []BackupIsFaithful` |
| `LegacyHistoryIsKept` | `Spec => []HistoryKept` |
| `OnlyTheRestoredIsAdopted` | `Spec => AdoptsWhatItRestored`, an action property |
| `OnlyCompleteIsServed` | `Spec => []ServedIsComplete` |
| `RefusedIsUntouched` | `Spec => RefusedUntouched`, an action property |

Both systems act on what they read several steps before. In `TabletReplacement`,
`BackupInv` says that what a backup carries was the journal since it was asked,
`CallInv` what a replacement has established at each of its steps, and
`StorageInv` why nobody undid it: a register without identity does not sell, and
its database is initialized only once. In `ServerStart` nothing protects what was
read, since two migrations and an older server run beside it; `CheckedInv` and
`InspectedInv` say what lasts nevertheless: a collection in place stays so, and a
namespace once accepted stays acceptable, because a command that goes on has only
found what it may build on.

### What stays with TLC

Every safety invariant and action property of the passing runs has a theorem but
one. What stays with TLC:

* Liveness and its fairness: `EventuallyAcknowledged`, `CheckoutEnds`,
  `ReplacementEnds`, `MigrationEnds`, `StopEnds`.
* ENABLED: `NobodyWaitsForEver`.

The violated property of section 5 is refuted by its run.

## 8. Plan

Done: every module listed in section 1, with a run each, and the proofs of
section 7. What is left has to be modelled before anything can be proved of it:
responsible mode (two unlock attempts side by side) and the upgrades of the local
databases, which are initial states for now (section 6).
