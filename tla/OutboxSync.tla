----------------------------- MODULE OutboxSync -----------------------------
(***************************************************************************)
(* Delivery of the register's journal to the server: the durable outbox    *)
(* (OutboxStore.kt), the drains that empty it (SyncEngine.kt, started by   *)
(* OutboxWorker.kt) and the server's decision on a batch (persistLedger of *)
(* server/src/persistence/store.ts), for the sealed events of one chain.   *)
(*                                                                         *)
(* Every Room transaction is an action.  A drain keeps a copy of the rows  *)
(* it has claimed while it prepares a request and waits for the answer;    *)
(* meanwhile sales are journaled, its lease may expire, another drain may  *)
(* start (a stopped worker's thread goes on running) and its process may   *)
(* die.  A request whose caller has given up is a ghost: the server may    *)
(* still receive it.                                                       *)
(*                                                                         *)
(* Time is abstracted: a drain whose lease has expired is in "late", rows  *)
(* whose backoff has not elapsed are in "waiting".                         *)
(***************************************************************************)
EXTENDS Integers, FiniteSets, FiniteSetsExt

CONSTANTS
  Drains,        \* drains that may run at the same time
  MaxSequence,   \* bound: length of the journal
  BackfillSize,  \* source records captured per backfill transaction
  BatchLimit,    \* events claimed at most at a time
  BodyLimit,     \* events that fit in a request body
  ServerLimit,   \* events the server accepts at most in a batch
  Oversized,     \* entries whose payload is too large to be sent
  Refused,       \* entries the server's business rules refuse
  Starts         \* bound: entries journaled before there was an outbox, and
                 \* how often each fault may happen from then on

Faults == {"unreachable", "answer_lost", "crash", "crash_midway", "suspend", "auth",
           "enrollment"}

ASSUME OutboxAssumption ==
  /\ MaxSequence \in Nat
  /\ BackfillSize \in Nat \ {0}
  /\ BatchLimit \in Nat \ {0}
  /\ BodyLimit \in Nat \ {0}
  /\ ServerLimit \in Nat \ {0}
  /\ Oversized \subseteq 1..MaxSequence
  /\ Refused \subseteq 1..MaxSequence
  /\ Starts \subseteq [upgraded : 0..MaxSequence, allowance : [Faults -> Nat]]

Nobody == "nobody"
Gone == "gone"      \* a drain whose process has died

ASSUME DrainsAssumption == Nobody \notin Drains /\ Gone \notin Drains

VARIABLES
  journaled,   \* entries in the journal: 1..journaled
  status,      \* outbox row of each entry, "none" until it is captured
  owner,       \* claimOwner of each row
  waiting,     \* groups of rows whose common nextAttemptAt is still to come
  receipts,    \* rows that hold a server receipt
  cursor,      \* ledgerCursor of the backfill
  limit,       \* batchLimit, reduced when the server finds a batch too large
  recoveries,  \* recoveryAttempts
  authorized,  \* whether the tablet's session is accepted
  pc,          \* where each drain is
  batch,       \* the rows each drain holds a copy of
  call,        \* the request of each drain, or its answer
  late,        \* drains whose lease has expired
  ghosts,      \* requests on their way whose caller has given up
  held,        \* entries the server holds
  head,        \* head of the chain on the server
  left         \* what is left of each fault's allowance

rowVars == <<status, owner, waiting, receipts>>
storeVars == <<cursor, limit, recoveries>>
drainVars == <<pc, batch, call, late>>
serverVars == <<held, head>>
elsewhere == <<journaled, authorized, ghosts, serverVars, left>>
vars == <<rowVars, storeVars, drainVars, elsewhere>>

Sequences == 1..MaxSequence

Statuses == {"none", "pending", "sending", "synced", "paused_auth",
             "needs_recovery", "batch_too_large", "quarantined"}

Steps == {"idle", "ready", "claimed", "selected", "renewed", "waiting", "recovering", "reducing"}

Answers == {"ok", "HEAD_MOVED", "MISSING_PREDECESSOR", "BATCH_TOO_LARGE", "REFUSED",
            "SEQUENCE_FORK"}

Batches == [from : Sequences, to : Sequences]
NoBatch == [from |-> 1, to |-> 0]

Rows(b) == b.from .. b.to

Init ==
  /\ \E start \in Starts : journaled = start.upgraded /\ left = start.allowance
  /\ status = [s \in Sequences |-> "none"]
  /\ owner = [s \in Sequences |-> Nobody]
  /\ waiting = {}
  /\ receipts = {}
  /\ cursor = 0
  /\ limit = BatchLimit
  /\ recoveries = 0
  /\ authorized = TRUE
  /\ pc = [d \in Drains |-> "idle"]
  /\ batch = [d \in Drains |-> NoBatch]
  /\ call = [d \in Drains |-> "none"]
  /\ late = {}
  /\ ghosts = {}
  /\ held = {}
  /\ head = 0

-----------------------------------------------------------------------------
(* The outbox table *)

Outstanding(st) == {s \in Sequences : st[s] \notin {"none", "synced"}}

(* blockedCount: "batch_too_large" is a needs_recovery row with that error *)
Blocked(st) ==
  \E s \in Sequences : st[s] \in {"needs_recovery", "batch_too_large", "quarantined"}

Mine(d) == {s \in Rows(batch[d]) : status[s] = "sending" /\ owner[s] = d}

(* All the rows of the copy are still claimed by this drain.               *)
HoldsAll(d) == Mine(d) = Rows(batch[d])

(* What a row becomes when its claim ends.                                 *)
SetRows(S, st) ==
  /\ status' = [s \in Sequences |-> IF s \in S THEN st ELSE status[s]]
  /\ owner' = [s \in Sequences |-> IF s \in S THEN Nobody ELSE owner[s]]

(* Mutated form of Release: the claim outlives the release.                *)
ReleaseKeepingClaim(d, st, delayed) ==
  /\ status' = [s \in Sequences |-> IF s \in Mine(d) THEN st ELSE status[s]]
  /\ waiting' = IF delayed /\ Mine(d) # {} THEN waiting \cup {Mine(d)} ELSE waiting
  /\ UNCHANGED <<owner, receipts>>

(* release: only the rows this drain still holds.                          *)
Release(d, st, delayed) ==
  /\ SetRows(Mine(d), st)
  /\ waiting' = IF delayed /\ Mine(d) # {} THEN waiting \cup {Mine(d)} ELSE waiting
  /\ UNCHANGED receipts

Goto(d, step) == pc' = [pc EXCEPT ![d] = step]

(* The drain ends; the scheduler will start another one.                   *)
End(d) ==
  /\ Goto(d, "idle")
  /\ batch' = [batch EXCEPT ![d] = NoBatch]
  /\ call' = [call EXCEPT ![d] = "none"]
  /\ late' = late \ {d}

GiveUp(d, st, delayed) == Release(d, st, delayed) /\ End(d) /\ UNCHANGED storeVars

Spend(fault) ==
  /\ left[fault] > 0
  /\ left' = [left EXCEPT ![fault] = @ - 1]

-----------------------------------------------------------------------------
(* Capture *)

(* A sale, correction, session or closure: captured in its transaction.    *)
Journal ==
  /\ journaled < MaxSequence
  /\ journaled' = journaled + 1
  /\ status' = [status EXCEPT ![journaled + 1] = "pending"]
  /\ UNCHANGED <<owner, waiting, receipts, storeVars, drainVars, authorized, ghosts,
                 serverVars, left>>

(* The entries up to the last one have their row; a row that is there stays *)
(* what it has become.                                                     *)
Captured(last) ==
  [s \in Sequences |-> IF s \in (cursor + 1)..last /\ status[s] = "none"
                       THEN "pending" ELSE status[s]]

(* How far one transaction of the backfill goes.                           *)
LastScanned == Min({cursor + BackfillSize, journaled})

(* A drain starts by capturing what was journaled before the outbox.       *)
Backfill(d) ==
  /\ pc[d] = "idle"
  /\ status' = Captured(LastScanned)
  /\ cursor' = LastScanned
  /\ IF journaled - cursor < BackfillSize THEN Goto(d, "ready") ELSE UNCHANGED pc
  /\ UNCHANGED <<owner, waiting, receipts, limit, recoveries, batch, call, late, elsewhere>>

-----------------------------------------------------------------------------
(* Claim *)

(* Mutated form of Expired: any claim can be taken over.                   *)
AnyClaim(s) == status[s] = "sending"

(* recoverExpired: the claim of a drain whose lease has expired.           *)
Expired(s) == status[s] = "sending" /\ owner[s] \in late

(* Mutated form of Resumed: resumeAuth is forgotten.                       *)
ResumedExpired == [s \in Sequences |-> IF Expired(s) THEN "pending" ELSE status[s]]

(* recoverExpired and resumeAuth, the first thing a claim does.            *)
Resumed ==
  [s \in Sequences |-> IF Expired(s) \/ status[s] = "paused_auth"
                       THEN "pending" ELSE status[s]]

(* The rows a claim takes: the first outstanding ones, in order, as long   *)
(* as they are due, up to the limit.                                       *)
Claimable(st) ==
  LET due(s) == st[s] = "pending" /\ s \notin UNION waiting
  IN  {s \in Outstanding(st) :
         LET upTo == {r \in Outstanding(st) : r <= s}
         IN  Cardinality(upTo) <= limit /\ \A r \in upTo : due(r)}

Contiguous(S) == \E b \in Batches : S = Rows(b)

(* Nothing to claim, or the chain is blocked: rows are only resumed.       *)
ClaimNothing(d) ==
  /\ pc[d] = "ready"
  /\ authorized
  /\ Blocked(Resumed) \/ Claimable(Resumed) = {}
  /\ status' = Resumed
  /\ owner' = [s \in Sequences |-> IF Expired(s) THEN Nobody ELSE owner[s]]
  /\ End(d)
  /\ UNCHANGED <<waiting, receipts, storeVars, elsewhere>>

(* Across a hole the claim is rolled back and the chain blocked at the     *)
(* first row outstanding.                                                  *)
Claim(d) ==
  LET S     == Claimable(Resumed)
      first == Min(Outstanding(status))
  IN  /\ pc[d] = "ready"
      /\ authorized
      /\ ~Blocked(Resumed)
      /\ S # {}
      /\ \/ /\ \E b \in Batches : S = Rows(b) /\ batch' = [batch EXCEPT ![d] = b]
            /\ status' = [s \in Sequences |-> IF s \in S THEN "sending" ELSE Resumed[s]]
            /\ owner' = [s \in Sequences |-> IF s \in S THEN d
                                             ELSE IF Expired(s) THEN Nobody ELSE owner[s]]
            /\ Goto(d, "claimed")
            /\ UNCHANGED <<call, late>>
         \/ /\ ~Contiguous(S)
            /\ status' = [status EXCEPT ![first] = IF @ = "sending" THEN @
                                                   ELSE "needs_recovery"]
            /\ End(d)
            /\ UNCHANGED owner
      /\ UNCHANGED <<waiting, receipts, storeVars, elsewhere>>

(* Without a session accepted by the server a drain ends at once.          *)
SkipUnauthorized(d) ==
  /\ pc[d] = "ready"
  /\ ~authorized
  /\ End(d)
  /\ UNCHANGED <<rowVars, storeVars, elsewhere>>

-----------------------------------------------------------------------------
(* Request *)

(* The events that fit in one body, each small enough.                     *)
Fitting(b) ==
  {s \in Rows(b) : s - b.from < BodyLimit /\ Oversized \cap (b.from .. s) = {}}

(* Keep what fits and release the rest, to be claimed again at once; an    *)
(* event too large to be sent at all quarantines the claim.                *)
Select(d) ==
  LET kept == Fitting(batch[d])
  IN  /\ pc[d] = "claimed"
      /\ IF kept = {}
         THEN Release(d, "quarantined", FALSE) /\ End(d)
         ELSE /\ SetRows(Mine(d) \ kept, "pending")
              /\ \E b \in Batches : kept = Rows(b) /\ batch' = [batch EXCEPT ![d] = b]
              /\ Goto(d, "selected")
              /\ UNCHANGED <<waiting, receipts, call, late>>
      /\ UNCHANGED <<storeVars, elsewhere>>

Renew(d) ==
  /\ pc[d] = "selected"
  /\ HoldsAll(d)
  /\ d \notin late
  /\ Goto(d, "renewed")
  /\ UNCHANGED <<rowVars, storeVars, batch, call, late, elsewhere>>

(* markAttempt, then the request leaves.                                   *)
Send(d) ==
  /\ pc[d] = "renewed"
  /\ HoldsAll(d)
  /\ Goto(d, "waiting")
  /\ call' = [call EXCEPT ![d] = "request"]
  /\ UNCHANGED <<rowVars, storeVars, batch, late, elsewhere>>

(* renew refuses an expired lease, renew and markAttempt rows another      *)
(* drain holds: the rows still held are blocked (LOCAL_SYNC_INCONSISTENCY).*)
ClaimLost(d) ==
  /\ \/ pc[d] \in {"selected", "renewed"} /\ ~HoldsAll(d)
     \/ pc[d] = "selected" /\ d \in late
  /\ GiveUp(d, "needs_recovery", FALSE)
  /\ UNCHANGED elsewhere

-----------------------------------------------------------------------------
(* The server *)

(* Mutated form of Held: a refused batch leaves its other events behind.   *)
HeldPartially(b, verdict) ==
  IF verdict \in {"ok", "REFUSED"} THEN held \cup (Rows(b) \ Refused) ELSE held

(* One transaction: the whole batch, or nothing.                           *)
Held(b, verdict) == IF verdict = "ok" THEN held \cup Rows(b) ELSE held

(* persistLedger: replays come first and are answered with their receipts; *)
(* the first new event must be the successor of the head, and the head the *)
(* request expects, the one before its first event, must be the head.      *)
Verdict(b) ==
  LET new == Rows(b) \ held
  IN  IF b.to - b.from + 1 > ServerLimit      THEN "BATCH_TOO_LARGE"
      ELSE IF new = {}                        THEN "ok"
      ELSE IF Min(new) > head + 1             THEN "MISSING_PREDECESSOR"
      ELSE IF Min(new) < head + 1             THEN "SEQUENCE_FORK"
      ELSE IF b.from - 1 # head               THEN "HEAD_MOVED"
      ELSE IF Refused \cap new # {}           THEN "REFUSED"
      ELSE "ok"

Receive(b) ==
  LET verdict == Verdict(b)
  IN  /\ held' = Held(b, verdict)
      /\ head' = IF verdict = "ok" /\ ~(Rows(b) \subseteq held) THEN b.to ELSE head

Serve(d) ==
  /\ call[d] = "request"
  /\ authorized
  /\ call' = [call EXCEPT ![d] = Verdict(batch[d])]
  /\ Receive(batch[d])
  /\ UNCHANGED <<journaled, rowVars, storeVars, authorized, pc, batch, late, ghosts, left>>

(* A request whose caller has given up is received after all, or is lost.  *)
SettleGhost(b) ==
  /\ ghosts' = ghosts \ {b}
  /\ Receive(b) \/ UNCHANGED serverVars
  /\ UNCHANGED <<journaled, rowVars, storeVars, authorized, drainVars, left>>

-----------------------------------------------------------------------------
(* Answers *)

(* acknowledge: the whole batch, or nothing when a row is no longer held;  *)
(* the rows still held are then sent again.                                *)
Acknowledge(d) ==
  /\ call[d] = "ok"
  /\ IF HoldsAll(d)
     THEN /\ SetRows(Rows(batch[d]), "synced")
          /\ receipts' = receipts \cup Rows(batch[d])
          /\ recoveries' = 0
          /\ End(d)
          /\ UNCHANGED <<waiting, cursor, limit>>
     ELSE GiveUp(d, "pending", TRUE)
  /\ UNCHANGED elsewhere

(* A refusal by the business rules, or an entry that exists otherwise.     *)
Quarantine(d) ==
  /\ call[d] \in {"REFUSED", "SEQUENCE_FORK"}
  /\ GiveUp(d, "quarantined", FALSE)
  /\ UNCHANGED elsewhere

(* The head is not the one expected: the rows wait for a recovery, which   *)
(* is automatic once (release, then allowAutomaticRecovery).               *)
HeadMoved(d) ==
  /\ call[d] \in {"HEAD_MOVED", "MISSING_PREDECESSOR"}
  /\ Release(d, "needs_recovery", FALSE)
  /\ recoveries' = 1
  /\ IF recoveries = 0
     THEN /\ Goto(d, "recovering")
          /\ call' = [call EXCEPT ![d] = "none"]
          /\ batch' = [batch EXCEPT ![d] = NoBatch]
          /\ late' = late \ {d}
     ELSE End(d)
  /\ UNCHANGED <<cursor, limit, elsewhere>>

TooLarge(d) ==
  /\ call[d] = "BATCH_TOO_LARGE"
  /\ Release(d, "batch_too_large", FALSE)
  /\ Goto(d, "reducing")
  /\ call' = [call EXCEPT ![d] = "none"]
  /\ UNCHANGED <<storeVars, batch, late, elsewhere>>

(* reduceBatch: smaller batches from now on.  A single event the server    *)
(* finds too large quarantines the chain (blockChain).                     *)
ReduceBatch(d) ==
  LET first == Min(Outstanding(status))
  IN  /\ pc[d] = "reducing"
      /\ IF batch[d].to > batch[d].from /\ limit > 1
         THEN /\ limit' = limit \div 2
              /\ SetRows({s \in Sequences : status[s] = "batch_too_large"}, "pending")
         ELSE /\ status' = IF Outstanding(status) = {} \/ status[first] = "sending"
                           THEN status
                           ELSE [status EXCEPT ![first] = "quarantined"]
              /\ UNCHANGED <<limit, owner>>
      /\ End(d)
      /\ UNCHANGED <<waiting, receipts, cursor, recoveries, elsewhere>>

-----------------------------------------------------------------------------
(* Recovery: the local history is captured again, every tuple is compared  *)
(* with the server's, and the proven rows are sent again from the first.   *)

(* Mutated form of Requeue: the comparison is taken for an answer.         *)
BelieveComparison ==
  LET proven == {s \in Sequences : status[s] = "needs_recovery"}
  IN  /\ SetRows(proven, "synced")
      /\ receipts' = receipts \cup proven
      /\ UNCHANGED waiting

(* requeueProvenPrefix: a comparison is never an acknowledgement.          *)
Requeue ==
  LET proven == {s \in Sequences :
                   status[s] \in {"synced", "needs_recovery", "batch_too_large"}}
  IN  /\ SetRows(proven, "pending")
      /\ UNCHANGED <<waiting, receipts>>

Recover(d) ==
  /\ pc[d] = "recovering"
  /\ cursor' = journaled
  /\ IF \E s \in Sequences : status[s] = "quarantined" THEN UNCHANGED rowVars ELSE Requeue
  /\ End(d)
  /\ UNCHANGED <<limit, recoveries, elsewhere>>

-----------------------------------------------------------------------------
(* Faults *)

(* The request does not reach the server, or the server answers that it    *)
(* can do nothing now.                                                     *)
Unreachable(d) ==
  /\ call[d] = "request"
  /\ Spend("unreachable")
  /\ GiveUp(d, "pending", TRUE)
  /\ UNCHANGED <<journaled, authorized, ghosts, serverVars>>

(* The comparison of a recovery does not reach the server.                 *)
RecoveryUnreachable(d) ==
  /\ pc[d] = "recovering"
  /\ Spend("unreachable")
  /\ cursor' = journaled
  /\ End(d)
  /\ UNCHANGED <<rowVars, limit, recoveries, journaled, authorized, ghosts, serverVars>>

(* The drain gives up on an answer, before or after the server commits.    *)
LoseAnswer(d) ==
  /\ call[d] # "none"
  /\ Spend("answer_lost")
  /\ GiveUp(d, "pending", TRUE)
  /\ ghosts' = ghosts \cup (IF call[d] = "request" THEN {batch[d]} ELSE {})
  /\ UNCHANGED <<journaled, authorized, serverVars>>

(* The tablet's session is refused, or it must be enrolled again.          *)
RefuseTablet(d) ==
  /\ call[d] = "request"
  /\ \/ Spend("auth") /\ GiveUp(d, "paused_auth", FALSE)
     \/ Spend("enrollment") /\ GiveUp(d, "needs_recovery", FALSE)
     \/ ~authorized /\ GiveUp(d, "paused_auth", FALSE) /\ UNCHANGED left
  /\ authorized' = FALSE
  /\ UNCHANGED <<journaled, ghosts, serverVars>>

Authorize ==
  /\ ~authorized
  /\ authorized' = TRUE
  /\ UNCHANGED <<journaled, rowVars, storeVars, drainVars, ghosts, serverVars, left>>

(* A crash is counted apart when it leaves rows released and not yet       *)
(* requeued: nothing takes them up again.                                  *)
Interrupted == \E d \in Drains : pc[d] \in {"reducing", "recovering"}

(* The process dies: every drain with it, its rows stay claimed.           *)
Crash ==
  /\ \/ ~Interrupted /\ Spend("crash")
     \/ Interrupted /\ Spend("crash_midway")
  /\ owner' = [s \in Sequences |-> IF owner[s] \in Drains THEN Gone ELSE owner[s]]
  /\ pc' = [d \in Drains |-> "idle"]
  /\ batch' = [d \in Drains |-> NoBatch]
  /\ call' = [d \in Drains |-> "none"]
  /\ late' = {}
  /\ ghosts' = ghosts \cup {batch[d] : d \in {x \in Drains : call[x] = "request"}}
  /\ UNCHANGED <<journaled, status, waiting, receipts, storeVars, authorized, serverVars>>

(* The lease of a dead drain expires, in time.                             *)
DeadLeaseExpires ==
  /\ \E s \in Sequences : owner[s] = Gone
  /\ late' = late \cup {Gone}
  /\ UNCHANGED <<rowVars, storeVars, pc, batch, call, elsewhere>>

(* A living drain outlasts its lease when the device sleeps, when its      *)
(* clock is set or when it waits for its turn to use the session.          *)
Suspend(d) ==
  /\ pc[d] \in {"claimed", "selected", "renewed", "waiting"}
  /\ d \notin late
  /\ Spend("suspend")
  /\ late' = late \cup {d}
  /\ UNCHANGED <<rowVars, storeVars, pc, batch, call, journaled, authorized, ghosts,
                 serverVars>>

(* The nextAttemptAt of rows released together is reached.                 *)
BackoffElapses ==
  /\ \E group \in waiting : waiting' = waiting \ {group}
  /\ UNCHANGED <<status, owner, receipts, storeVars, drainVars, elsewhere>>

-----------------------------------------------------------------------------

Drain(d) ==
  \/ Backfill(d)
  \/ ClaimNothing(d)
  \/ Claim(d)
  \/ SkipUnauthorized(d)
  \/ Select(d)
  \/ Renew(d)
  \/ Send(d)
  \/ ClaimLost(d)
  \/ Serve(d)
  \/ Acknowledge(d)
  \/ Quarantine(d)
  \/ HeadMoved(d)
  \/ TooLarge(d)
  \/ ReduceBatch(d)
  \/ Recover(d)

Fault ==
  \/ \E d \in Drains :
       \/ Unreachable(d)
       \/ RecoveryUnreachable(d)
       \/ LoseAnswer(d)
       \/ RefuseTablet(d)
       \/ Suspend(d)
  \/ Crash
  \/ \E b \in ghosts : SettleGhost(b)

Next ==
  \/ Journal
  \/ \E d \in Drains : Drain(d)
  \/ Fault
  \/ Authorize
  \/ DeadLeaseExpires
  \/ BackoffElapses

Spec == Init /\ [][Next]_vars

(* Drains run: the scheduler restarts them after every operation and every *)
(* fifteen minutes.  Time passes.  A refused tablet is authorized again.   *)
Fairness ==
  /\ \A d \in Drains : WF_vars(Drain(d))
  /\ WF_vars(Authorize)
  /\ WF_vars(DeadLeaseExpires)
  /\ WF_vars(BackoffElapses)

FairSpec == Spec /\ Fairness

-----------------------------------------------------------------------------

TypeOK ==
  /\ journaled \in 0..MaxSequence
  /\ status \in [Sequences -> Statuses]
  /\ \A s \in Sequences : s > journaled => status[s] = "none"
  /\ owner \in [Sequences -> Drains \cup {Nobody, Gone}]
  /\ \A s \in Sequences : owner[s] # Nobody <=> status[s] = "sending"
  /\ waiting \subseteq SUBSET Sequences
  /\ \A s \in UNION waiting : status[s] \in {"pending", "quarantined"}
  /\ receipts \subseteq Sequences
  /\ cursor \in 0..journaled
  /\ limit \in 1..BatchLimit
  /\ recoveries \in 0..1
  /\ authorized \in BOOLEAN
  /\ pc \in [Drains -> Steps]
  /\ batch \in [Drains -> Batches \cup {NoBatch}]
  /\ \A d \in Drains : batch[d].to <= journaled
  /\ call \in [Drains -> {"none", "request"} \cup Answers]
  /\ \A d \in Drains : pc[d] = "waiting" <=> call[d] # "none"
  /\ late \subseteq Drains \cup {Gone}
  /\ ghosts \subseteq {b \in Batches : b.to <= journaled}
  /\ held \subseteq 1..journaled
  /\ head \in 0..journaled
  /\ left \in [Faults -> Nat]

(* The server's copy never has a hole, whatever requests are repeated,     *)
(* delayed or refused in the middle: its head says exactly what it holds.  *)
HeadIsPrefix == held = 1..head

(* A claim protects its rows: two drains whose leases run never work on    *)
(* the same row, even though each works on a copy of what it claimed.      *)
LiveClaimsDisjoint ==
  \A d, e \in Drains :
    d # e /\ {pc[d], pc[e]} \subseteq {"claimed", "selected", "renewed", "waiting"}
      => d \in late \/ e \in late \/ Rows(batch[d]) \cap Rows(batch[e]) = {}

(* Synchronization implements the promise.                                 *)
Promise == INSTANCE Replication
             WITH journal <- journaled, replica <- held, acknowledged <- receipts

ImplementsReplication == Promise!Spec

(* Everything journaled is acknowledged in the end.                        *)
EventuallyAcknowledged ==
  \A s \in Sequences : s <= journaled ~> s \in receipts

=============================================================================
