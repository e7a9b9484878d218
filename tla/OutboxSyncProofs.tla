-------------------------- MODULE OutboxSyncProofs --------------------------
(***************************************************************************)
(* Proofs about OutboxSync: its types, the server's prefix, the claims of  *)
(* live drains, and the implementation of Replication, for any number of   *)
(* drains, entries and faults.                                             *)
(***************************************************************************)
EXTENDS OutboxSync, WellFoundedInduction, TLAPS

-----------------------------------------------------------------------------
(* The inductive invariant *)

(* The three parts of TypeOK.                                              *)
RowsOK ==
  /\ status \in [Sequences -> Statuses]
  /\ \A s \in Sequences : s > journaled => status[s] = "none"
  /\ owner \in [Sequences -> Drains \cup {Nobody, Gone}]
  /\ \A s \in Sequences : owner[s] # Nobody <=> status[s] = "sending"
  /\ waiting \subseteq SUBSET Sequences
  /\ \A s \in UNION waiting : status[s] \in {"pending", "quarantined"}
  /\ receipts \subseteq Sequences

DrainsOK ==
  /\ pc \in [Drains -> Steps]
  /\ batch \in [Drains -> Batches \cup {NoBatch}]
  /\ \A d \in Drains : batch[d].to <= journaled
  /\ call \in [Drains -> {"none", "request"} \cup Answers]
  /\ \A d \in Drains : pc[d] = "waiting" <=> call[d] # "none"
  /\ late \subseteq Drains \cup {Gone}

RestOK ==
  /\ journaled \in 0..MaxSequence
  /\ cursor \in 0..journaled
  /\ limit \in 1..BatchLimit
  /\ recoveries \in 0..1
  /\ authorized \in BOOLEAN
  /\ ghosts \subseteq {b \in Batches : b.to <= journaled}
  /\ held \subseteq 1..journaled
  /\ head \in 0..journaled
  /\ left \in [Faults -> Nat]

(* The steps at which a drain relies on its claim.                         *)
Active == {"claimed", "selected", "renewed", "waiting"}

(* A drain whose lease runs holds every row it works on.                   *)
ClaimOK(d) ==
  /\ pc[d] \in Active => batch[d] \in Batches
  /\ pc[d] \in Active /\ d \notin late => HoldsAll(d)
  /\ d \in late => pc[d] \in Active \cup {"reducing"}

ClaimInv == \A d \in Drains : ClaimOK(d)

(* Receipts, and acknowledgements on their way, are for what the server    *)
(* holds.                                                                  *)
ServerInv ==
  /\ HeadIsPrefix
  /\ receipts \subseteq held
  /\ \A d \in Drains : call[d] = "ok" => Rows(batch[d]) \subseteq held

IInv == RowsOK /\ DrainsOK /\ RestOK /\ ClaimInv /\ ServerInv

LEMMA TypeParts == TypeOK <=> RowsOK /\ DrainsOK /\ RestOK
BY DEF TypeOK, RowsOK, DrainsOK, RestOK

-----------------------------------------------------------------------------
(* Facts used by several actions *)

(* Min returns an element of a nonempty set of naturals.                   *)
LEMMA LeastIsElement ==
  ASSUME NEW S, S \subseteq Nat, S # {}
  PROVE  Min(S) \in S /\ \A y \in S : Min(S) <= y
<1>1. PICK x \in S : \A y \in S : ~(<<y, x>> \in OpToRel(<, Nat))
  BY WFMin, NatLessThanWellFounded
<1>2. ASSUME NEW y \in S
      PROVE  x <= y
  <2>1. x \in Nat /\ y \in Nat
    OBVIOUS
  <2>2. ~(y < x)
    BY <1>1, <2>1 DEF OpToRel
  <2> QED
    BY <2>1, <2>2
<1> QED
  BY <1>2 DEF Min

(* The rows of a copy are entries of the journal.                          *)
LEMMA RowsAreEntries ==
  ASSUME DrainsOK, RestOK, NEW d \in Drains
  PROVE  /\ Rows(batch[d]) \subseteq Sequences
         /\ Rows(batch[d]) \subseteq 1..journaled
         /\ Mine(d) \subseteq Rows(batch[d])
<1>1. batch[d] \in Batches \cup {NoBatch} /\ batch[d].to <= journaled
  BY DEF DrainsOK
<1>2. journaled \in 0..MaxSequence /\ MaxSequence \in Nat
  BY OutboxAssumption DEF RestOK
<1> QED
  BY <1>1, <1>2 DEF Batches, NoBatch, Rows, Sequences, Mine

(* What a drain releases leaves the table well typed and touches only the  *)
(* rows it holds.                                                          *)
LEMMA ReleaseOK ==
  ASSUME RowsOK, DrainsOK, RestOK, NEW d \in Drains,
         NEW st \in {"pending", "paused_auth", "needs_recovery", "batch_too_large",
                     "quarantined"},
         NEW delayed \in BOOLEAN, delayed => st = "pending",
         Release(d, st, delayed), UNCHANGED journaled
  PROVE  RowsOK' /\ UNCHANGED receipts
<1>1. /\ Mine(d) \subseteq Sequences
      /\ \A s \in Mine(d) : status[s] = "sending" /\ owner[s] = d
  BY RowsAreEntries DEF Mine
<1>2. /\ status' = [s \in Sequences |-> IF s \in Mine(d) THEN st ELSE status[s]]
      /\ owner' = [s \in Sequences |-> IF s \in Mine(d) THEN Nobody ELSE owner[s]]
      /\ waiting' = IF delayed /\ Mine(d) # {} THEN waiting \cup {Mine(d)} ELSE waiting
      /\ UNCHANGED receipts
  BY DEF Release, SetRows
<1>3. \A s \in UNION waiting' :
        s \in UNION waiting \/ (s \in Mine(d) /\ st = "pending")
  BY <1>2
<1>4. \A s \in UNION waiting' : status'[s] \in {"pending", "quarantined"}
  BY <1>1, <1>2, <1>3 DEF RowsOK
<1>5. waiting' \subseteq SUBSET Sequences
  BY <1>1, <1>2 DEF RowsOK
<1>6. /\ status' \in [Sequences -> Statuses]
      /\ \A s \in Sequences : s > journaled' => status'[s] = "none"
      /\ owner' \in [Sequences -> Drains \cup {Nobody, Gone}]
      /\ \A s \in Sequences : owner'[s] # Nobody <=> status'[s] = "sending"
  BY <1>1, <1>2 DEF RowsOK, Statuses
<1> QED
  BY <1>2, <1>4, <1>5, <1>6 DEF RowsOK

(* The claim of a drain whose lease runs is left alone.                    *)
Keeps(e) ==
  /\ e \notin late =>
       \A s \in Sequences : status[s] = "sending" /\ owner[s] = e
                              => status'[s] = "sending" /\ owner'[s] = e
  /\ pc'[e] = pc[e]
  /\ batch'[e] = batch[e]
  /\ e \in late' <=> e \in late

LEMMA ClaimsKept ==
  ASSUME DrainsOK, RestOK, NEW e \in Drains, ClaimOK(e), Keeps(e)
  PROVE  ClaimOK(e)'
<1>1. Rows(batch[e]) \subseteq Sequences
  BY RowsAreEntries
<1>2. e \notin late /\ HoldsAll(e) => HoldsAll(e)'
  BY <1>1 DEF Keeps, HoldsAll, Mine, Rows
<1> QED
  BY <1>2 DEF ClaimOK, Keeps

(* A drain that ends relies on no claim.                                   *)
LEMMA EndOK ==
  ASSUME DrainsOK, RestOK, NEW d \in Drains, End(d), UNCHANGED journaled
  PROVE  /\ DrainsOK'
         /\ ClaimOK(d)'
         /\ \A e \in Drains \ {d} : /\ pc'[e] = pc[e]
                                    /\ batch'[e] = batch[e]
                                    /\ call'[e] = call[e]
                                    /\ e \in late' <=> e \in late
         /\ call'[d] = "none"
<1>1. NoBatch.to <= journaled
  BY DEF NoBatch, RestOK
<1> QED
  BY <1>1 DEF DrainsOK, End, Goto, ClaimOK, Active, Steps

LEMMA ReleaseKeeps ==
  ASSUME RowsOK, NEW d \in Drains, NEW st, NEW delayed, Release(d, st, delayed),
         NEW e \in Drains \ {d},
         pc'[e] = pc[e], batch'[e] = batch[e], e \in late' <=> e \in late
  PROVE  Keeps(e)
BY DEF Release, SetRows, Mine, Keeps, RowsOK

(* Nothing reached the server, and no acknowledgement is new.              *)
LEMMA ServerQuiet ==
  ASSUME ServerInv, UNCHANGED <<held, head, receipts>>,
         \A e \in Drains : call'[e] = "ok" => call[e] = "ok" /\ batch'[e] = batch[e]
  PROVE  ServerInv'
BY DEF ServerInv, HeadIsPrefix, Rows

(* A drain gives up: it releases its rows and ends.                        *)
LEMMA GiveUpOK ==
  ASSUME IInv, NEW d \in Drains,
         NEW st \in {"pending", "paused_auth", "needs_recovery", "batch_too_large",
                     "quarantined"},
         NEW delayed \in BOOLEAN, delayed => st = "pending",
         GiveUp(d, st, delayed), UNCHANGED <<journaled, serverVars>>
  PROVE  /\ RowsOK' /\ DrainsOK' /\ ClaimInv' /\ ServerInv'
         /\ UNCHANGED <<receipts, cursor, limit, recoveries>>
<1>1. RowsOK' /\ UNCHANGED receipts
  BY ReleaseOK DEF GiveUp, IInv
<1>2. /\ DrainsOK' /\ ClaimOK(d)' /\ call'[d] = "none"
      /\ \A e \in Drains \ {d} : /\ pc'[e] = pc[e]
                                 /\ batch'[e] = batch[e]
                                 /\ call'[e] = call[e]
                                 /\ e \in late' <=> e \in late
  BY EndOK DEF GiveUp, IInv
<1>3. ASSUME NEW e \in Drains \ {d}
      PROVE  ClaimOK(e)'
  BY <1>2, ReleaseKeeps, ClaimsKept DEF GiveUp, IInv, ClaimInv
<1>4. ServerInv'
  <2>1. \A e \in Drains : call'[e] = "ok" => call[e] = "ok" /\ batch'[e] = batch[e]
    BY <1>2
  <2> QED
    BY <1>1, <2>1, ServerQuiet DEF IInv, serverVars
<1> QED
  BY <1>1, <1>2, <1>3, <1>4 DEF ClaimInv, GiveUp, storeVars

-----------------------------------------------------------------------------
(* One lemma per action: the invariant is preserved, and what Replication  *)
(* sees is unchanged, or changes as it allows.                             *)

promised == <<journaled, held, receipts>>

Quiet == IInv' /\ UNCHANGED promised

(* Steps that concern neither the rows nor the server.                     *)
RestKept == UNCHANGED <<journaled, ghosts, held, head>>

LEMMA InitIInv == Init => IInv
<1> SUFFICES ASSUME Init PROVE IInv
  OBVIOUS
<1> USE OutboxAssumption, DrainsAssumption
<1>1. RowsOK
  BY DEF Init, RowsOK, Statuses, Sequences, Nobody
<1>2. DrainsOK
  BY DEF Init, DrainsOK, Steps, NoBatch, Answers
<1>3. RestOK
  BY DEF Init, RestOK
<1>4. ClaimInv
  BY DEF Init, ClaimInv, ClaimOK, Active
<1>5. ServerInv
  BY DEF Init, ServerInv, HeadIsPrefix
<1> QED
  BY <1>1, <1>2, <1>3, <1>4, <1>5 DEF IInv

LEMMA JournalOK == IInv /\ Journal => IInv' /\ Promise!Grow
<1> SUFFICES ASSUME IInv, Journal PROVE IInv' /\ Promise!Grow
  OBVIOUS
<1>1. journaled \in 0..MaxSequence /\ journaled < MaxSequence /\ MaxSequence \in Nat
  BY OutboxAssumption DEF IInv, RestOK, Journal
<1>2. journaled + 1 \in Sequences /\ status[journaled + 1] = "none"
  BY <1>1 DEF IInv, RowsOK, Sequences
<1>3. /\ journaled' = journaled + 1
      /\ status' = [status EXCEPT ![journaled + 1] = "pending"]
      /\ UNCHANGED <<owner, waiting, receipts, cursor, limit, recoveries, pc, batch, call,
                     late, authorized, ghosts, held, head, left>>
  BY DEF Journal, storeVars, drainVars, serverVars
<1>4. RowsOK'
  <2>1. status' \in [Sequences -> Statuses] /\ owner[journaled + 1] = Nobody
    BY <1>2, <1>3 DEF IInv, RowsOK, Statuses
  <2>2. \A s \in Sequences : s > journaled' => status'[s] = "none"
    BY <1>1, <1>2, <1>3 DEF IInv, RowsOK, Sequences
  <2>3. \A s \in Sequences : owner'[s] # Nobody <=> status'[s] = "sending"
    BY <1>2, <1>3, <2>1 DEF IInv, RowsOK
  <2>4. \A s \in UNION waiting' : status'[s] \in {"pending", "quarantined"}
    BY <1>2, <1>3 DEF IInv, RowsOK
  <2> QED
    BY <1>3, <2>1, <2>2, <2>3, <2>4 DEF IInv, RowsOK
<1>5. DrainsOK'
  <2>1. ASSUME NEW d \in Drains
        PROVE  batch'[d].to <= journaled'
    <3>1. batch[d].to \in Int /\ batch[d].to <= journaled
      BY DEF IInv, DrainsOK, Batches, NoBatch, Sequences
    <3> QED
      BY <1>1, <1>3, <3>1
  <2> QED
    BY <1>3, <2>1 DEF IInv, DrainsOK
<1>6. RestOK'
  <2>1. \A b \in ghosts : b \in Batches /\ b.to \in Int /\ b.to <= journaled
    BY DEF IInv, RestOK, Batches, Sequences
  <2>2. \A b \in ghosts : b \in Batches /\ b.to <= journaled'
    BY <1>1, <1>3, <2>1
  <2>3. /\ journaled' \in 0..MaxSequence
        /\ cursor' \in 0..journaled'
        /\ held' \subseteq 1..journaled'
        /\ head' \in 0..journaled'
    BY <1>1, <1>3 DEF IInv, RestOK
  <2> QED
    BY <1>3, <2>2, <2>3 DEF IInv, RestOK
<1>7. ClaimInv'
  <2>1. ASSUME NEW e \in Drains
        PROVE  Keeps(e)
    BY <1>2, <1>3 DEF Keeps, IInv, RowsOK
  <2> QED
    BY <2>1, ClaimsKept DEF IInv, ClaimInv
<1>8. ServerInv'
  BY <1>3, ServerQuiet DEF IInv
<1> QED
  BY <1>1, <1>3, <1>4, <1>5, <1>6, <1>7, <1>8 DEF IInv, Promise!Grow

LEMMA BackfillOK == ASSUME IInv, NEW d \in Drains, Backfill(d) PROVE Quiet
<1> DEFINE last == Min({cursor + BackfillSize, journaled})
<1>1. last \in 0..journaled /\ journaled \in Nat
  <2>1. cursor + BackfillSize \in Nat /\ journaled \in Nat /\ cursor \in 0..journaled
    BY OutboxAssumption DEF IInv, RestOK
  <2>2. last \in {cursor + BackfillSize, journaled}
        /\ \A y \in {cursor + BackfillSize, journaled} : last <= y
    BY <2>1, LeastIsElement
  <2> QED
    BY <2>1, <2>2
<1>2. /\ status' = [s \in Sequences |-> IF s \in (cursor + 1)..last /\ status[s] = "none"
                                        THEN "pending" ELSE status[s]]
      /\ cursor' = last
      /\ pc[d] = "idle"
      /\ pc' = pc \/ pc' = [pc EXCEPT ![d] = "ready"]
      /\ UNCHANGED <<owner, waiting, receipts, limit, recoveries, batch, call, late,
                     journaled, authorized, ghosts, held, head, left>>
  BY DEF Backfill, Captured, LastScanned, Goto, elsewhere, serverVars
<1>3. RowsOK'
  <2>1. \A s \in Sequences : s > journaled => status'[s] = "none"
    BY <1>1, <1>2 DEF IInv, RowsOK, Sequences, RestOK
  <2>2. \A s \in Sequences : status'[s] = status[s] \/ (status[s] = "none" /\ status'[s] = "pending")
    BY <1>2
  <2>3. status' \in [Sequences -> Statuses]
    BY <1>2 DEF IInv, RowsOK, Statuses
  <2>4. \A s \in UNION waiting : status'[s] \in {"pending", "quarantined"}
    BY <2>2 DEF IInv, RowsOK
  <2> QED
    BY <1>2, <2>1, <2>2, <2>3, <2>4 DEF IInv, RowsOK
<1>4. DrainsOK'
  BY <1>2 DEF IInv, DrainsOK, Steps
<1>5. RestOK'
  BY <1>1, <1>2 DEF IInv, RestOK
<1>6. ClaimInv'
  <2>1. ASSUME NEW e \in Drains, pc'[e] = pc[e]
        PROVE  ClaimOK(e)'
    <3>1. Keeps(e)
      BY <1>2, <2>1 DEF Keeps, IInv, RowsOK
    <3> QED
      BY <3>1, ClaimsKept DEF IInv, ClaimInv
  <2>2. ASSUME pc' = [pc EXCEPT ![d] = "ready"]
        PROVE  ClaimOK(d)'
    BY <1>2, <2>2 DEF IInv, ClaimInv, ClaimOK, DrainsOK, Active
  <2> QED
    BY <1>2, <2>1, <2>2 DEF ClaimInv, IInv, DrainsOK
<1>7. ServerInv'
  BY <1>2, ServerQuiet DEF IInv
<1> QED
  BY <1>2, <1>3, <1>4, <1>5, <1>6, <1>7 DEF Quiet, promised, IInv

(* What a claim resumes: only rows paused, or claimed by an expired lease. *)
LEMMA ResumedOK ==
  ASSUME RowsOK
  PROVE  /\ Resumed \in [Sequences -> Statuses]
         /\ \A s \in Sequences : Resumed[s] = "sending" => status[s] = "sending" /\ ~Expired(s)
         /\ \A s \in Sequences : status[s] = "sending" /\ owner[s] \notin late
                                   => Resumed[s] = "sending" /\ ~Expired(s)
         /\ \A s \in Sequences : Resumed[s] = "none" <=> status[s] = "none"
         /\ \A s \in Sequences : Resumed[s] = "synced" <=> status[s] = "synced"
         /\ \A s \in UNION waiting : Resumed[s] = status[s]
         /\ \A s \in Sequences : Expired(s) => status[s] = "sending" /\ Resumed[s] = "pending"
BY DEF RowsOK, Resumed, Expired, Statuses

LEMMA ClaimableOK ==
  ASSUME NEW st, NEW s \in Claimable(st)
  PROVE  s \in Sequences /\ st[s] = "pending" /\ s \notin UNION waiting
<1>1. s \in Sequences /\ s \in Outstanding(st) /\ s <= s
  BY DEF Claimable, Outstanding, Sequences
<1>2. s \in {r \in Outstanding(st) : r <= s}
  BY <1>1
<1> QED
  BY <1>1, <1>2 DEF Claimable

LEMMA ClaimNothingOK == ASSUME IInv, NEW d \in Drains, ClaimNothing(d) PROVE Quiet
<1>1. /\ status' = Resumed
      /\ owner' = [s \in Sequences |-> IF Expired(s) THEN Nobody ELSE owner[s]]
      /\ pc[d] = "ready"
      /\ End(d)
      /\ UNCHANGED <<waiting, receipts, cursor, limit, recoveries, journaled, authorized,
                     ghosts, held, head, left>>
  BY DEF ClaimNothing, storeVars, elsewhere, serverVars
<1>2. RowsOK'
  <2>1. status' \in [Sequences -> Statuses]
    BY <1>1, ResumedOK DEF IInv
  <2>2. \A s \in Sequences : s > journaled => status'[s] = "none"
    BY <1>1, ResumedOK DEF IInv, RowsOK
  <2>3. \A s \in Sequences : owner'[s] # Nobody <=> status'[s] = "sending"
    <3>1. ASSUME NEW s \in Sequences
          PROVE  Resumed[s] = "sending" <=> status[s] = "sending" /\ ~Expired(s)
      BY DEF Resumed
    <3> QED
      BY <1>1, <3>1, ResumedOK DEF IInv, RowsOK
  <2>4. \A s \in UNION waiting : status'[s] \in {"pending", "quarantined"}
    BY <1>1, ResumedOK DEF IInv, RowsOK
  <2> QED
    BY <1>1, <2>1, <2>2, <2>3, <2>4 DEF IInv, RowsOK
<1>3. /\ DrainsOK' /\ ClaimOK(d)' /\ call'[d] = "none"
      /\ \A e \in Drains \ {d} : /\ pc'[e] = pc[e]
                                 /\ batch'[e] = batch[e]
                                 /\ call'[e] = call[e]
                                 /\ e \in late' <=> e \in late
  BY <1>1, EndOK DEF IInv
<1>4. RestOK'
  BY <1>1 DEF IInv, RestOK
<1>5. ASSUME NEW e \in Drains \ {d}
      PROVE  ClaimOK(e)'
  <2>1. Keeps(e)
    BY <1>1, <1>3, ResumedOK DEF Keeps, IInv
  <2> QED
    BY <2>1, ClaimsKept DEF IInv, ClaimInv
<1>6. ServerInv'
  BY <1>1, <1>3, ServerQuiet DEF IInv
<1> QED
  BY <1>1, <1>2, <1>3, <1>4, <1>5, <1>6 DEF Quiet, promised, IInv, ClaimInv

(* The claim of a contiguous group of rows that are due.                   *)
LEMMA ClaimRowsOK ==
  ASSUME IInv, NEW d \in Drains, NEW b \in Batches,
         pc[d] = "ready",
         Claimable(Resumed) = Rows(b), Rows(b) # {},
         batch' = [batch EXCEPT ![d] = b],
         status' = [s \in Sequences |-> IF s \in Rows(b) THEN "sending" ELSE Resumed[s]],
         owner' = [s \in Sequences |-> IF s \in Rows(b) THEN d
                                       ELSE IF Expired(s) THEN Nobody ELSE owner[s]],
         pc' = [pc EXCEPT ![d] = "claimed"],
         UNCHANGED <<call, late, waiting, receipts, cursor, limit, recoveries, journaled,
                     authorized, ghosts, held, head, left>>
  PROVE  Quiet
<1>1. \A s \in Rows(b) : s \in Sequences /\ Resumed[s] = "pending" /\ s \notin UNION waiting
  BY ClaimableOK
<1>2. b.to \in Rows(b) /\ b.to <= journaled
  <2>1. b.to \in Rows(b)
    BY DEF Batches, Rows, Sequences
  <2>2. status[b.to] # "none" /\ b.to \in Sequences
    BY <1>1, <2>1, ResumedOK DEF IInv
  <2> QED
    BY <2>1, <2>2 DEF IInv, RowsOK, RestOK, Sequences
<1>3. RowsOK'
  <2>1. status' \in [Sequences -> Statuses]
    BY ResumedOK DEF IInv, Statuses
  <2>2. \A s \in Sequences : s > journaled => status'[s] = "none"
    <3>1. \A s \in Rows(b) : ~(s > journaled)
      BY <1>2 DEF Rows, Batches, Sequences, IInv, RestOK
    <3> QED
      BY <3>1, ResumedOK DEF IInv, RowsOK
  <2>3. \A s \in Sequences : owner'[s] # Nobody <=> status'[s] = "sending"
    <3>1. ASSUME NEW s \in Sequences
          PROVE  Resumed[s] = "sending" <=> status[s] = "sending" /\ ~Expired(s)
      BY DEF Resumed
    <3>2. d # Nobody
      BY DrainsAssumption
    <3> QED
      BY <3>1, <3>2, ResumedOK DEF IInv, RowsOK
  <2>4. \A s \in UNION waiting : status'[s] \in {"pending", "quarantined"}
    BY <1>1, ResumedOK DEF IInv, RowsOK
  <2>5. owner' \in [Sequences -> Drains \cup {Nobody, Gone}]
    BY DEF IInv, RowsOK
  <2> QED
    BY <2>1, <2>2, <2>3, <2>4, <2>5 DEF IInv, RowsOK
<1>4. DrainsOK'
  BY <1>2 DEF IInv, DrainsOK, Steps
<1>5. RestOK'
  BY DEF IInv, RestOK
<1>6. ClaimOK(d)'
  <2>1. d \notin late
    BY DEF IInv, ClaimInv, ClaimOK, Active
  <2>2. batch'[d] = b /\ \A s \in Rows(b) : status'[s] = "sending" /\ owner'[s] = d
    BY <1>1 DEF IInv, DrainsOK
  <2>3. HoldsAll(d)'
    BY <2>2 DEF HoldsAll, Mine
  <2> QED
    BY <2>1, <2>2, <2>3 DEF ClaimOK
<1>7. ASSUME NEW e \in Drains \ {d}
      PROVE  ClaimOK(e)'
  <2>1. \A s \in Sequences : status[s] = "sending" /\ owner[s] \notin late => s \notin Rows(b)
    BY <1>1, ResumedOK DEF IInv
  <2>2. Keeps(e)
    BY <2>1, ResumedOK DEF Keeps, IInv, DrainsOK
  <2> QED
    BY <2>2, ClaimsKept DEF IInv, ClaimInv
<1>8. ServerInv'
  <2>1. call[d] # "ok"
    BY DEF IInv, DrainsOK
  <2> QED
    BY <2>1, ServerQuiet DEF IInv, DrainsOK
<1> QED
  BY <1>3, <1>4, <1>5, <1>6, <1>7, <1>8 DEF Quiet, promised, IInv, ClaimInv

(* One row is blocked, and the drain ends.                                 *)
LEMMA BlockOK ==
  ASSUME IInv, NEW d \in Drains, NEW st \in {"needs_recovery", "quarantined"},
         NEW s \in Sequences,
         status[s] \notin {"none", "sending"},
         s \in UNION waiting => st = "quarantined",
         status' = [status EXCEPT ![s] = st],
         End(d),
         UNCHANGED <<owner, waiting, receipts, cursor, recoveries, journaled, authorized,
                     ghosts, held, head, left>>,
         limit' \in 1..BatchLimit
  PROVE  Quiet
<1>1. RowsOK'
  BY DEF IInv, RowsOK, Statuses
<1>2. /\ DrainsOK' /\ ClaimOK(d)' /\ call'[d] = "none"
      /\ \A e \in Drains \ {d} : /\ pc'[e] = pc[e]
                                 /\ batch'[e] = batch[e]
                                 /\ call'[e] = call[e]
                                 /\ e \in late' <=> e \in late
  BY EndOK DEF IInv
<1>3. RestOK'
  BY DEF IInv, RestOK
<1>4. ASSUME NEW e \in Drains \ {d}
      PROVE  ClaimOK(e)'
  <2>1. Keeps(e)
    BY <1>2 DEF Keeps, IInv, RowsOK
  <2> QED
    BY <2>1, ClaimsKept DEF IInv, ClaimInv
<1>5. ServerInv'
  BY <1>2, ServerQuiet DEF IInv
<1> QED
  BY <1>1, <1>2, <1>3, <1>4, <1>5 DEF Quiet, promised, IInv, ClaimInv

(* A drain ends without touching any row.                                  *)
LEMMA EndQuiet ==
  ASSUME IInv, NEW d \in Drains, End(d), RestOK',
         UNCHANGED <<status, owner, waiting, receipts, journaled, held, head>>
  PROVE  Quiet
<1>1. /\ DrainsOK' /\ ClaimOK(d)' /\ call'[d] = "none"
      /\ \A e \in Drains \ {d} : /\ pc'[e] = pc[e]
                                 /\ batch'[e] = batch[e]
                                 /\ call'[e] = call[e]
                                 /\ e \in late' <=> e \in late
  BY EndOK DEF IInv
<1>2. ASSUME NEW e \in Drains \ {d}
      PROVE  ClaimOK(e)'
  <2>1. Keeps(e)
    BY <1>1 DEF Keeps
  <2> QED
    BY <2>1, ClaimsKept DEF IInv, ClaimInv
<1>3. ServerInv'
  BY <1>1, ServerQuiet DEF IInv
<1>4. RowsOK'
  BY DEF IInv, RowsOK
<1> QED
  BY <1>1, <1>2, <1>3, <1>4 DEF Quiet, promised, IInv, ClaimInv

(* The first row outstanding.                                              *)
LEMMA FirstOutstanding ==
  ASSUME NEW st, Outstanding(st) # {}
  PROVE  LET first == Min(Outstanding(st))
         IN  /\ first \in Sequences
             /\ st[first] \notin {"none", "synced"}
             /\ \A s \in Outstanding(st) : first <= s
<1>1. Outstanding(st) \subseteq Nat
  BY DEF Outstanding, Sequences
<1> QED
  BY <1>1, LeastIsElement DEF Outstanding

LEMMA ClaimOKStep == ASSUME IInv, NEW d \in Drains, Claim(d) PROVE Quiet
<1> DEFINE first == Min(Outstanding(status))
<1>1. /\ pc[d] = "ready"
      /\ Claimable(Resumed) # {}
      /\ UNCHANGED <<waiting, receipts, cursor, limit, recoveries, journaled, authorized,
                     ghosts, held, head, left>>
  BY DEF Claim, storeVars, elsewhere, serverVars
<1>2. CASE \E b \in Batches : Claimable(Resumed) = Rows(b) /\ batch' = [batch EXCEPT ![d] = b]
                              /\ status' = [s \in Sequences |-> IF s \in Claimable(Resumed)
                                                               THEN "sending" ELSE Resumed[s]]
                              /\ owner' = [s \in Sequences |->
                                             IF s \in Claimable(Resumed) THEN d
                                             ELSE IF Expired(s) THEN Nobody ELSE owner[s]]
                              /\ Goto(d, "claimed")
                              /\ UNCHANGED <<call, late>>
  <2>1. PICK b \in Batches : Claimable(Resumed) = Rows(b) /\ batch' = [batch EXCEPT ![d] = b]
    BY <1>2
  <2>2. /\ Rows(b) # {}
        /\ status' = [s \in Sequences |-> IF s \in Rows(b) THEN "sending" ELSE Resumed[s]]
        /\ owner' = [s \in Sequences |-> IF s \in Rows(b) THEN d
                                         ELSE IF Expired(s) THEN Nobody ELSE owner[s]]
        /\ pc' = [pc EXCEPT ![d] = "claimed"]
        /\ UNCHANGED <<call, late>>
    BY <1>1, <1>2, <2>1 DEF Goto
  <2> QED
    BY <1>1, <2>1, <2>2, ClaimRowsOK
<1>3. CASE /\ status' = [status EXCEPT ![first] = IF @ = "sending" THEN @
                                                  ELSE "needs_recovery"]
           /\ End(d)
           /\ UNCHANGED owner
  <2>1. Outstanding(Resumed) = Outstanding(status)
    BY ResumedOK DEF Outstanding, IInv
  <2>2. PICK s \in Claimable(Resumed) : TRUE
    BY <1>1
  <2>3. s \in Outstanding(status)
    BY <2>1, <2>2, ClaimableOK, ResumedOK DEF Outstanding, IInv
  <2>4. /\ first \in Sequences /\ status[first] \notin {"none", "synced"}
        /\ first \in Outstanding(Resumed) /\ first <= s
    BY <2>1, <2>3, FirstOutstanding DEF Outstanding
  <2>5. first \notin UNION waiting
    BY <2>2, <2>4 DEF Claimable
  <2>6. CASE status[first] = "sending"
    <3>1. status' = status
      BY <1>3, <2>4, <2>6 DEF IInv, RowsOK
    <3>2. RestOK'
      BY <1>1 DEF IInv, RestOK
    <3> QED
      BY <1>1, <1>3, <3>1, <3>2, EndQuiet
  <2>7. CASE status[first] # "sending"
    <3>1. status' = [status EXCEPT ![first] = "needs_recovery"]
      BY <1>3, <2>7
    <3>2. limit' \in 1..BatchLimit
      BY <1>1 DEF IInv, RestOK
    <3> QED
      BY <1>1, <1>3, <2>4, <2>5, <2>7, <3>1, <3>2, BlockOK
  <2> QED
    BY <2>6, <2>7
<1> QED
  BY <1>2, <1>3 DEF Claim

LEMMA SkipOK == ASSUME IInv, NEW d \in Drains, SkipUnauthorized(d) PROVE Quiet
<1>1. /\ End(d)
      /\ UNCHANGED <<status, owner, waiting, receipts, cursor, limit, recoveries, journaled,
                     authorized, ghosts, held, head, left>>
  BY DEF SkipUnauthorized, rowVars, storeVars, elsewhere, serverVars
<1>2. RestOK'
  BY <1>1 DEF IInv, RestOK
<1> QED
  BY <1>1, <1>2, EndQuiet

(* A drain moves on with its claim.                                        *)
LEMMA AdvanceOK ==
  ASSUME IInv, NEW d \in Drains,
         pc[d] \in Active, pc'[d] \in Active,
         pc' \in [Drains -> Steps],
         call' \in [Drains -> {"none", "request"} \cup Answers],
         call'[d] # "ok", pc'[d] = "waiting" <=> call'[d] # "none",
         \A e \in Drains \ {d} : pc'[e] = pc[e] /\ call'[e] = call[e],
         UNCHANGED <<status, owner, waiting, receipts, cursor, limit, recoveries, batch, late,
                     journaled, authorized, ghosts, held, head, left>>
  PROVE  Quiet
<1>1. RowsOK'
  BY DEF IInv, RowsOK
<1>2. DrainsOK'
  BY DEF IInv, DrainsOK
<1>3. RestOK'
  BY DEF IInv, RestOK
<1>4. ASSUME NEW e \in Drains
      PROVE  ClaimOK(e)'
  <2>1. HoldsAll(e)' <=> HoldsAll(e)
    BY DEF HoldsAll, Mine, Rows
  <2>2. pc'[e] = pc[e] \/ (e = d /\ pc[e] \in Active /\ pc'[e] \in Active)
    BY DEF IInv, DrainsOK
  <2> QED
    BY <2>1, <2>2 DEF IInv, ClaimInv, ClaimOK
<1>5. ServerInv'
  BY ServerQuiet DEF IInv, DrainsOK
<1> QED
  BY <1>1, <1>2, <1>3, <1>4, <1>5 DEF Quiet, promised, IInv, ClaimInv

LEMMA RenewOK == ASSUME IInv, NEW d \in Drains, Renew(d) PROVE Quiet
<1>1. /\ pc[d] = "selected" /\ call[d] = "none"
      /\ pc' = [pc EXCEPT ![d] = "renewed"]
      /\ UNCHANGED <<status, owner, waiting, receipts, cursor, limit, recoveries, batch, call,
                     late, journaled, authorized, ghosts, held, head, left>>
  BY DEF Renew, Goto, rowVars, storeVars, elsewhere, serverVars, IInv, DrainsOK
<1>2. /\ pc' \in [Drains -> Steps] /\ pc'[d] = "renewed"
      /\ call' \in [Drains -> {"none", "request"} \cup Answers]
      /\ \A e \in Drains \ {d} : pc'[e] = pc[e] /\ call'[e] = call[e]
  BY <1>1 DEF IInv, DrainsOK, Steps
<1> QED
  BY <1>1, <1>2, AdvanceOK DEF Active

LEMMA SendOK == ASSUME IInv, NEW d \in Drains, Send(d) PROVE Quiet
<1>1. /\ pc[d] = "renewed"
      /\ pc' = [pc EXCEPT ![d] = "waiting"]
      /\ call' = [call EXCEPT ![d] = "request"]
      /\ UNCHANGED <<status, owner, waiting, receipts, cursor, limit, recoveries, batch,
                     late, journaled, authorized, ghosts, held, head, left>>
  BY DEF Send, Goto, rowVars, storeVars, elsewhere, serverVars
<1>2. /\ pc' \in [Drains -> Steps] /\ pc'[d] = "waiting"
      /\ call' \in [Drains -> {"none", "request"} \cup Answers] /\ call'[d] = "request"
      /\ \A e \in Drains \ {d} : pc'[e] = pc[e] /\ call'[e] = call[e]
  BY <1>1 DEF IInv, DrainsOK, Steps
<1> QED
  BY <1>1, <1>2, AdvanceOK DEF Active

LEMMA ClaimLostOK == ASSUME IInv, NEW d \in Drains, ClaimLost(d) PROVE Quiet
<1>1. /\ GiveUp(d, "needs_recovery", FALSE)
      /\ UNCHANGED <<journaled, authorized, ghosts, held, head, left>>
  BY DEF ClaimLost, elsewhere, serverVars
<1>2. /\ RowsOK' /\ DrainsOK' /\ ClaimInv' /\ ServerInv'
      /\ UNCHANGED <<receipts, cursor, limit, recoveries>>
  BY <1>1, GiveUpOK DEF serverVars
<1>3. RestOK'
  BY <1>1, <1>2 DEF IInv, RestOK
<1> QED
  BY <1>1, <1>2, <1>3 DEF Quiet, promised, IInv

LEMMA QuarantineOK == ASSUME IInv, NEW d \in Drains, Quarantine(d) PROVE Quiet
<1>1. /\ GiveUp(d, "quarantined", FALSE)
      /\ UNCHANGED <<journaled, authorized, ghosts, held, head, left>>
  BY DEF Quarantine, elsewhere, serverVars
<1>2. /\ RowsOK' /\ DrainsOK' /\ ClaimInv' /\ ServerInv'
      /\ UNCHANGED <<receipts, cursor, limit, recoveries>>
  BY <1>1, GiveUpOK DEF serverVars
<1>3. RestOK'
  BY <1>1, <1>2 DEF IInv, RestOK
<1> QED
  BY <1>1, <1>2, <1>3 DEF Quiet, promised, IInv

(* What the server does with a batch: its copy stays a prefix, extended at *)
(* most to the end of the batch, and "ok" means it holds the whole batch.  *)
LEMMA ReceiveOK ==
  ASSUME IInv, NEW b \in Batches \cup {NoBatch}, b.to <= journaled, Receive(b)
  PROVE  /\ held' = 1..head'
         /\ head' \in 0..journaled
         /\ held \subseteq held'
         /\ Verdict(b) = "ok" => Rows(b) \subseteq held'
         /\ \/ UNCHANGED <<held, head>>
            \/ \E n \in 1..journaled : held \subseteq 1..n /\ held' = 1..n
<1> DEFINE new == Rows(b) \ held
<1>1. /\ held = 1..head /\ head \in 0..journaled /\ journaled \in Nat
      /\ b.from \in Int /\ b.to \in Int
  BY DEF IInv, RestOK, ServerInv, HeadIsPrefix, Batches, NoBatch, Sequences
<1>2. /\ held' = Held(b, Verdict(b))
      /\ head' = IF Verdict(b) = "ok" /\ ~(Rows(b) \subseteq held) THEN b.to ELSE head
  BY DEF Receive
<1>3. CASE Verdict(b) # "ok"
  BY <1>1, <1>2, <1>3 DEF Held
<1>4. CASE Verdict(b) = "ok" /\ Rows(b) \subseteq held
  BY <1>1, <1>2, <1>4 DEF Held
<1>5. CASE Verdict(b) = "ok" /\ ~(Rows(b) \subseteq held)
  <2>1. new # {}
    BY <1>5
  <2>2. b.from = head + 1
    BY <1>1, <1>5, <2>1 DEF Verdict
  <2>3. b.from <= b.to /\ b.to \in 1..journaled
    BY <1>1, <1>5, <2>2 DEF Rows
  <2>4. held' = 1..b.to /\ head' = b.to
    BY <1>1, <1>2, <1>5, <2>2, <2>3 DEF Held, Rows
  <2>5. held \subseteq 1..b.to /\ Rows(b) \subseteq 1..b.to
    BY <1>1, <2>2, <2>3 DEF Rows
  <2> QED
    BY <1>1, <2>3, <2>4, <2>5
<1> QED
  BY <1>3, <1>4, <1>5

(* What the server's decision leaves of the invariant, wherever the        *)
(* request came from.                                                      *)
LEMMA ReceiveKeeps ==
  ASSUME IInv, NEW b \in Batches \cup {NoBatch}, b.to <= journaled, Receive(b),
         UNCHANGED <<journaled, cursor, limit, recoveries, authorized, receipts, batch, left>>,
         ghosts' \subseteq ghosts,
         \A e \in Drains : call'[e] = "ok" =>
           call[e] = "ok" \/ (Verdict(b) = "ok" /\ batch[e] = b)
  PROVE  /\ RestOK' /\ ServerInv'
         /\ UNCHANGED Promise!vars \/ \E n \in 1..journaled : Promise!Replicate(n)
<1>1. /\ held' = 1..head'
      /\ head' \in 0..journaled
      /\ held \subseteq held'
      /\ Verdict(b) = "ok" => Rows(b) \subseteq held'
      /\ \/ UNCHANGED <<held, head>>
         \/ \E n \in 1..journaled : held \subseteq 1..n /\ held' = 1..n
  BY ReceiveOK
<1>2. RestOK'
  <2>1. held' \subseteq 1..journaled'
    BY <1>1 DEF IInv, RestOK
  <2> QED
    BY <1>1, <2>1 DEF IInv, RestOK
<1>3. ServerInv'
  <2>1. \A e \in Drains : call'[e] = "ok" => Rows(batch[e]) \subseteq held'
    BY <1>1 DEF IInv, ServerInv
  <2>2. \A e \in Drains : call'[e] = "ok" => Rows(batch[e])' \subseteq held'
    BY <2>1 DEF Rows
  <2> QED
    BY <1>1, <2>2 DEF IInv, ServerInv, HeadIsPrefix
<1> QED
  BY <1>1, <1>2, <1>3 DEF Promise!vars, Promise!Replicate

(* What the drains and the rows keep when only answers change.             *)
LEMMA RowsKept ==
  ASSUME IInv, UNCHANGED <<status, owner, waiting, receipts, journaled, pc, batch, late>>
  PROVE  RowsOK' /\ ClaimInv'
<1>1. RowsOK'
  BY DEF IInv, RowsOK
<1>2. \A e \in Drains : HoldsAll(e)' <=> HoldsAll(e)
  BY DEF HoldsAll, Mine, Rows
<1>3. ClaimInv'
  BY <1>2 DEF IInv, ClaimInv, ClaimOK
<1> QED
  BY <1>1, <1>3

Replicates ==
  IInv' /\ (UNCHANGED Promise!vars \/ \E n \in 1..journaled : Promise!Replicate(n))

LEMMA ServeOK == ASSUME IInv, NEW d \in Drains, Serve(d) PROVE Replicates
<1>1. /\ call[d] = "request"
      /\ call' = [call EXCEPT ![d] = Verdict(batch[d])]
      /\ Receive(batch[d])
      /\ UNCHANGED <<journaled, status, owner, waiting, receipts, cursor, limit, recoveries,
                     authorized, pc, batch, late, ghosts, left>>
  BY DEF Serve, rowVars, storeVars
<1>2. batch[d] \in Batches \cup {NoBatch} /\ batch[d].to <= journaled
  BY DEF IInv, DrainsOK
<1>3. Verdict(batch[d]) \in Answers
  BY DEF Verdict, Answers
<1>4. \A e \in Drains : call'[e] = "ok" =>
        call[e] = "ok" \/ (Verdict(batch[d]) = "ok" /\ batch[e] = batch[d])
  BY <1>1 DEF IInv, DrainsOK
<1>5. /\ RestOK' /\ ServerInv'
      /\ UNCHANGED Promise!vars \/ \E n \in 1..journaled : Promise!Replicate(n)
  BY <1>1, <1>2, <1>4, ReceiveKeeps
<1>6. DrainsOK'
  BY <1>1, <1>3 DEF IInv, DrainsOK, Answers
<1> QED
  BY <1>1, <1>5, <1>6, RowsKept DEF Replicates, IInv

LEMMA GhostOK == ASSUME IInv, NEW b \in ghosts, SettleGhost(b) PROVE Replicates
<1>1. /\ ghosts' = ghosts \ {b}
      /\ Receive(b) \/ UNCHANGED <<held, head>>
      /\ UNCHANGED <<journaled, status, owner, waiting, receipts, cursor, limit, recoveries,
                     authorized, pc, batch, call, late, left>>
  BY DEF SettleGhost, rowVars, storeVars, drainVars, serverVars
<1>2. b \in Batches /\ b.to <= journaled
  BY DEF IInv, RestOK
<1>3. RowsOK' /\ ClaimInv' /\ DrainsOK'
  BY <1>1, RowsKept DEF IInv, DrainsOK
<1>4. CASE Receive(b)
  <2>1. /\ RestOK' /\ ServerInv'
        /\ UNCHANGED Promise!vars \/ \E n \in 1..journaled : Promise!Replicate(n)
    BY <1>1, <1>2, <1>4, ReceiveKeeps
  <2> QED
    BY <1>3, <2>1 DEF Replicates, IInv
<1>5. CASE UNCHANGED <<held, head>>
  <2>1. RestOK'
    BY <1>1, <1>5 DEF IInv, RestOK
  <2>2. ServerInv'
    BY <1>1, <1>5, ServerQuiet DEF IInv
  <2> QED
    BY <1>1, <1>3, <1>5, <2>1, <2>2 DEF Replicates, IInv, Promise!vars
<1> QED
  BY <1>1, <1>4, <1>5

LEMMA SelectOK == ASSUME IInv, NEW d \in Drains, Select(d) PROVE Quiet
<1> DEFINE kept == Fitting(batch[d])
<1>1. /\ pc[d] = "claimed" /\ call[d] = "none"
      /\ UNCHANGED <<cursor, limit, recoveries, journaled, authorized, ghosts, held, head,
                     left>>
  BY DEF Select, storeVars, elsewhere, serverVars, IInv, DrainsOK
<1>2. RestOK'
  BY <1>1 DEF IInv, RestOK
<1>3. CASE kept = {}
  <2>1. GiveUp(d, "quarantined", FALSE)
    BY <1>1, <1>3 DEF Select, GiveUp, storeVars
  <2>2. RowsOK' /\ DrainsOK' /\ ClaimInv' /\ ServerInv' /\ UNCHANGED receipts
    BY <1>1, <2>1, GiveUpOK DEF serverVars
  <2> QED
    BY <1>1, <1>2, <2>2 DEF Quiet, promised, IInv
<1>4. CASE kept # {}
  <2>1. PICK b \in Batches : kept = Rows(b) /\ batch' = [batch EXCEPT ![d] = b]
    BY <1>4 DEF Select
  <2>2. /\ status' = [s \in Sequences |-> IF s \in Mine(d) \ kept THEN "pending" ELSE status[s]]
        /\ owner' = [s \in Sequences |-> IF s \in Mine(d) \ kept THEN Nobody ELSE owner[s]]
        /\ pc' = [pc EXCEPT ![d] = "selected"]
        /\ UNCHANGED <<waiting, receipts, call, late>>
    BY <1>4 DEF Select, SetRows, Goto
  <2>3. /\ kept \subseteq Rows(batch[d])
        /\ Rows(batch[d]) \subseteq 1..journaled
        /\ Mine(d) \subseteq Sequences
    BY RowsAreEntries DEF Fitting, IInv
  <2>4. b.to <= journaled
    <3>1. b.to \in Rows(b)
      BY <1>4, <2>1 DEF Rows, Batches, Sequences
    <3> QED
      BY <2>1, <2>3, <3>1 DEF IInv, RestOK
  <2>5. RowsOK'
    <3>1. \A s \in Mine(d) : status[s] = "sending" /\ owner[s] = d
      BY DEF Mine
    <3>2. \A s \in UNION waiting : status'[s] \in {"pending", "quarantined"}
      BY <2>2, <2>3, <3>1 DEF IInv, RowsOK
    <3> QED
      BY <1>1, <2>2, <2>3, <3>1, <3>2 DEF IInv, RowsOK, Statuses
  <2>6. DrainsOK'
    BY <1>1, <2>1, <2>2, <2>4 DEF IInv, DrainsOK, Steps
  <2>7. ClaimOK(d)'
    <3>1. batch'[d] = b /\ pc'[d] = "selected"
      BY <2>1, <2>2 DEF IInv, DrainsOK
    <3>2. ASSUME d \notin late
          PROVE  HoldsAll(d)'
      <4>1. \A s \in Rows(b) : s \in Sequences /\ status[s] = "sending" /\ owner[s] = d
        <5>1. Mine(d) = Rows(batch[d])
          BY <1>1, <3>2 DEF IInv, ClaimInv, ClaimOK, Active, HoldsAll
        <5> QED
          BY <2>1, <2>3, <5>1 DEF Mine
      <4>2. \A s \in Rows(b) : status'[s] = "sending" /\ owner'[s] = d
        BY <2>1, <2>2, <4>1
      <4> QED
        BY <3>1, <4>2 DEF HoldsAll, Mine
    <3> QED
      BY <2>2, <3>1, <3>2 DEF ClaimOK, Active
  <2>8. ASSUME NEW e \in Drains \ {d}
        PROVE  ClaimOK(e)'
    <3>1. Keeps(e)
      BY <2>1, <2>2 DEF Keeps, Mine, IInv, DrainsOK
    <3> QED
      BY <3>1, ClaimsKept DEF IInv, ClaimInv
  <2>9. ServerInv'
    BY <1>1, <2>1, <2>2, ServerQuiet DEF IInv, DrainsOK
  <2> QED
    BY <1>1, <1>2, <2>2, <2>5, <2>6, <2>7, <2>8, <2>9 DEF Quiet, promised, IInv, ClaimInv
<1> QED
  BY <1>3, <1>4

(* Rows that wait for nothing become due, or are acknowledged, and the     *)
(* drain ends.                                                             *)
LEMMA SettleRowsOK ==
  ASSUME IInv, NEW d \in Drains, NEW S, S \subseteq Sequences,
         NEW st \in {"pending", "synced"},
         \A s \in S : \/ status[s] \notin {"none", "sending", "pending", "quarantined"}
                      \/ status[s] = "sending" /\ owner[s] = d,
         SetRows(S, st), End(d), UNCHANGED <<waiting, journaled>>,
         receipts' \subseteq Sequences
  PROVE  RowsOK' /\ DrainsOK' /\ ClaimInv' /\ call'[d] = "none"
         /\ \A e \in Drains \ {d} : batch'[e] = batch[e] /\ call'[e] = call[e]
<1>1. /\ status' = [s \in Sequences |-> IF s \in S THEN st ELSE status[s]]
      /\ owner' = [s \in Sequences |-> IF s \in S THEN Nobody ELSE owner[s]]
  BY DEF SetRows
<1>2. \A s \in UNION waiting : s \notin S
  BY DEF IInv, RowsOK
<1>3. \A s \in UNION waiting : status'[s] \in {"pending", "quarantined"}
  BY <1>1, <1>2 DEF IInv, RowsOK
<1>4. RowsOK'
  BY <1>1, <1>3 DEF IInv, RowsOK, Statuses
<1>5. /\ DrainsOK' /\ ClaimOK(d)' /\ call'[d] = "none"
      /\ \A e \in Drains \ {d} : /\ pc'[e] = pc[e]
                                 /\ batch'[e] = batch[e]
                                 /\ call'[e] = call[e]
                                 /\ e \in late' <=> e \in late
  BY EndOK DEF IInv
<1>6. ASSUME NEW e \in Drains \ {d}
      PROVE  ClaimOK(e)'
  <2>1. Keeps(e)
    BY <1>1, <1>5 DEF Keeps
  <2> QED
    BY <2>1, ClaimsKept DEF IInv, ClaimInv
<1> QED
  BY <1>4, <1>5, <1>6 DEF ClaimInv

LEMMA AcknowledgeOK ==
  ASSUME IInv, NEW d \in Drains, Acknowledge(d)
  PROVE  IInv' /\ (UNCHANGED Promise!vars \/ \E S \in SUBSET held : Promise!Acknowledge(S))
<1>1. /\ call[d] = "ok"
      /\ UNCHANGED <<journaled, authorized, ghosts, held, head, left>>
  BY DEF Acknowledge, elsewhere, serverVars
<1>2. CASE HoldsAll(d)
  <2> DEFINE S == Rows(batch[d])
  <2>1. /\ SetRows(S, "synced")
        /\ receipts' = receipts \cup S
        /\ recoveries' = 0
        /\ End(d)
        /\ UNCHANGED <<waiting, cursor, limit>>
    BY <1>2 DEF Acknowledge
  <2>2. /\ S \subseteq Sequences
        /\ \A s \in S : status[s] = "sending" /\ owner[s] = d
    BY <1>2, RowsAreEntries DEF HoldsAll, Mine, IInv
  <2>3. S \subseteq held
    BY <1>1 DEF IInv, ServerInv
  <2>4. RowsOK' /\ DrainsOK' /\ ClaimInv' /\ call'[d] = "none"
        /\ \A e \in Drains \ {d} : batch'[e] = batch[e] /\ call'[e] = call[e]
    <3>1. receipts' \subseteq Sequences
      BY <2>1, <2>2 DEF IInv, RowsOK
    <3> QED
      BY <1>1, <2>1, <2>2, <3>1, SettleRowsOK
  <2>5. RestOK'
    BY <1>1, <2>1 DEF IInv, RestOK
  <2>6. ServerInv'
    <3>1. \A e \in Drains : call'[e] = "ok" => Rows(batch[e])' \subseteq held'
      BY <1>1, <2>4 DEF IInv, ServerInv, Rows
    <3> QED
      BY <1>1, <2>1, <2>3, <3>1 DEF IInv, ServerInv, HeadIsPrefix
  <2>7. Promise!Acknowledge(S)
    BY <1>1, <2>1 DEF Promise!Acknowledge
  <2> QED
    BY <2>3, <2>4, <2>5, <2>6, <2>7 DEF IInv
<1>3. CASE ~HoldsAll(d)
  <2>1. GiveUp(d, "pending", TRUE)
    BY <1>3 DEF Acknowledge
  <2>2. /\ RowsOK' /\ DrainsOK' /\ ClaimInv' /\ ServerInv'
        /\ UNCHANGED <<receipts, cursor, limit, recoveries>>
    BY <1>1, <2>1, GiveUpOK DEF serverVars
  <2>3. RestOK'
    BY <1>1, <2>2 DEF IInv, RestOK
  <2> QED
    BY <1>1, <2>2, <2>3 DEF IInv, Promise!vars
<1> QED
  BY <1>2, <1>3

LEMMA HeadMovedOK == ASSUME IInv, NEW d \in Drains, HeadMoved(d) PROVE Quiet
<1>1. /\ Release(d, "needs_recovery", FALSE)
      /\ recoveries' = 1
      /\ UNCHANGED <<cursor, limit, journaled, authorized, ghosts, held, head, left>>
  BY DEF HeadMoved, elsewhere, serverVars
<1>2. RowsOK' /\ UNCHANGED receipts
  BY <1>1, ReleaseOK DEF IInv
<1>3. RestOK'
  BY <1>1 DEF IInv, RestOK
<1>4. /\ DrainsOK' /\ ClaimOK(d)' /\ call'[d] = "none"
      /\ \A e \in Drains \ {d} : /\ pc'[e] = pc[e]
                                 /\ batch'[e] = batch[e]
                                 /\ call'[e] = call[e]
                                 /\ e \in late' <=> e \in late
  <2>1. CASE End(d)
    BY <1>1, <2>1, EndOK DEF IInv
  <2>2. CASE /\ pc' = [pc EXCEPT ![d] = "recovering"]
             /\ call' = [call EXCEPT ![d] = "none"]
             /\ batch' = [batch EXCEPT ![d] = NoBatch]
             /\ late' = late \ {d}
    <3>1. NoBatch.to <= journaled
      BY DEF NoBatch, IInv, RestOK
    <3> QED
      BY <1>1, <2>2, <3>1 DEF IInv, DrainsOK, ClaimOK, Active, Steps
  <2> QED
    BY <2>1, <2>2 DEF HeadMoved, Goto
<1>5. ASSUME NEW e \in Drains \ {d}
      PROVE  ClaimOK(e)'
  BY <1>1, <1>4, ReleaseKeeps, ClaimsKept DEF IInv, ClaimInv
<1>6. ServerInv'
  BY <1>1, <1>2, <1>4, ServerQuiet DEF IInv
<1> QED
  BY <1>1, <1>2, <1>3, <1>4, <1>5, <1>6 DEF Quiet, promised, IInv, ClaimInv

LEMMA TooLargeOK == ASSUME IInv, NEW d \in Drains, TooLarge(d) PROVE Quiet
<1>1. /\ call[d] = "BATCH_TOO_LARGE"
      /\ Release(d, "batch_too_large", FALSE)
      /\ pc' = [pc EXCEPT ![d] = "reducing"]
      /\ call' = [call EXCEPT ![d] = "none"]
      /\ UNCHANGED <<cursor, limit, recoveries, batch, late, journaled, authorized, ghosts,
                     held, head, left>>
  BY DEF TooLarge, Goto, storeVars, elsewhere, serverVars
<1>2. RowsOK' /\ UNCHANGED receipts
  BY <1>1, ReleaseOK DEF IInv
<1>3. RestOK'
  BY <1>1 DEF IInv, RestOK
<1>4. DrainsOK' /\ ClaimOK(d)'
  BY <1>1 DEF IInv, DrainsOK, ClaimInv, ClaimOK, Active, Steps
<1>5. ASSUME NEW e \in Drains \ {d}
      PROVE  ClaimOK(e)'
  <2>1. pc'[e] = pc[e] /\ batch'[e] = batch[e] /\ (e \in late' <=> e \in late)
    BY <1>1 DEF IInv, DrainsOK
  <2> QED
    BY <1>1, <2>1, ReleaseKeeps, ClaimsKept DEF IInv, ClaimInv
<1>6. ServerInv'
  BY <1>1, <1>2, ServerQuiet DEF IInv, DrainsOK
<1> QED
  BY <1>1, <1>2, <1>3, <1>4, <1>5, <1>6 DEF Quiet, promised, IInv, ClaimInv

LEMMA ReduceBatchOK == ASSUME IInv, NEW d \in Drains, ReduceBatch(d) PROVE Quiet
<1> DEFINE first == Min(Outstanding(status))
           tooLarge == {s \in Sequences : status[s] = "batch_too_large"}
<1>1. /\ End(d)
      /\ UNCHANGED <<waiting, receipts, cursor, recoveries, journaled, authorized, ghosts,
                     held, head, left>>
  BY DEF ReduceBatch, elsewhere, serverVars
<1>2. CASE limit > 1 /\ limit' = limit \div 2 /\ SetRows(tooLarge, "pending")
  <2>1. RowsOK' /\ DrainsOK' /\ ClaimInv' /\ call'[d] = "none"
        /\ \A e \in Drains \ {d} : batch'[e] = batch[e] /\ call'[e] = call[e]
    <3>1. /\ tooLarge \subseteq Sequences
          /\ \A s \in tooLarge : status[s] \notin {"none", "sending", "pending", "quarantined"}
          /\ receipts' \subseteq Sequences
      BY <1>1 DEF IInv, RowsOK
    <3> QED
      BY <1>1, <1>2, <3>1, SettleRowsOK
  <2>2. RestOK'
    <3>1. limit' \in 1..BatchLimit
      BY <1>2, OutboxAssumption DEF IInv, RestOK
    <3> QED
      BY <1>1, <3>1 DEF IInv, RestOK
  <2>3. ServerInv'
    BY <1>1, <2>1, ServerQuiet DEF IInv
  <2> QED
    BY <1>1, <2>1, <2>2, <2>3 DEF Quiet, promised, IInv
<1>3. CASE /\ status' = status
           /\ UNCHANGED <<limit, owner>>
  <2>1. RestOK'
    BY <1>1, <1>3 DEF IInv, RestOK
  <2> QED
    BY <1>1, <1>3, <2>1, EndQuiet
<1>4. CASE /\ Outstanding(status) # {} /\ status[first] # "sending"
           /\ status' = [status EXCEPT ![first] = "quarantined"]
           /\ UNCHANGED <<limit, owner>>
  <2>1. first \in Sequences /\ status[first] \notin {"none", "sending"}
    BY <1>4, FirstOutstanding
  <2>2. limit' \in 1..BatchLimit
    BY <1>4 DEF IInv, RestOK
  <2> QED
    BY <1>1, <1>4, <2>1, <2>2, BlockOK
<1> QED
  BY <1>2, <1>3, <1>4 DEF ReduceBatch

LEMMA RecoverOK == ASSUME IInv, NEW d \in Drains, Recover(d) PROVE Quiet
<1> DEFINE proven == {s \in Sequences :
                        status[s] \in {"synced", "needs_recovery", "batch_too_large"}}
<1>1. /\ cursor' = journaled
      /\ End(d)
      /\ UNCHANGED <<limit, recoveries, journaled, authorized, ghosts, held, head, left>>
  BY DEF Recover, elsewhere, serverVars
<1>2. RestOK'
  BY <1>1 DEF IInv, RestOK
<1>3. CASE UNCHANGED rowVars
  BY <1>1, <1>2, <1>3, EndQuiet DEF rowVars
<1>4. CASE Requeue
  <2>1. SetRows(proven, "pending") /\ UNCHANGED <<waiting, receipts>>
    BY <1>4 DEF Requeue
  <2>2. RowsOK' /\ DrainsOK' /\ ClaimInv' /\ call'[d] = "none"
        /\ \A e \in Drains \ {d} : batch'[e] = batch[e] /\ call'[e] = call[e]
    <3>1. /\ proven \subseteq Sequences
          /\ \A s \in proven : status[s] \notin {"none", "sending", "pending", "quarantined"}
          /\ receipts' \subseteq Sequences
      BY <2>1 DEF IInv, RowsOK
    <3> QED
      BY <1>1, <2>1, <3>1, SettleRowsOK
  <2>3. ServerInv'
    BY <1>1, <2>1, <2>2, ServerQuiet DEF IInv
  <2> QED
    BY <1>1, <1>2, <2>1, <2>2, <2>3 DEF Quiet, promised, IInv
<1> QED
  BY <1>3, <1>4 DEF Recover

-----------------------------------------------------------------------------
(* Faults *)

LEMMA SpendOK ==
  ASSUME IInv, NEW fault \in Faults, Spend(fault)
  PROVE  left' \in [Faults -> Nat]
<1>1. /\ left \in [Faults -> Nat]
      /\ left[fault] > 0
      /\ left' = [left EXCEPT ![fault] = left[fault] - 1]
  BY DEF Spend, IInv, RestOK
<1>2. left[fault] - 1 \in Nat
  BY <1>1
<1> QED
  BY <1>1, <1>2

(* A drain gives up on its request: only the requests under way, what is   *)
(* authorized and the allowance may change besides.                        *)
LEMMA FailOK ==
  ASSUME IInv, NEW d \in Drains, NEW st \in {"pending", "paused_auth", "needs_recovery"},
         NEW delayed \in BOOLEAN, delayed => st = "pending",
         GiveUp(d, st, delayed), UNCHANGED <<journaled, serverVars>>,
         authorized' \in BOOLEAN,
         ghosts' \subseteq ghosts \cup {b \in Batches : b.to <= journaled},
         left' \in [Faults -> Nat]
  PROVE  Quiet
<1>1. /\ RowsOK' /\ DrainsOK' /\ ClaimInv' /\ ServerInv'
      /\ UNCHANGED <<receipts, cursor, limit, recoveries>>
  BY GiveUpOK
<1>2. UNCHANGED <<journaled, held, head>>
  BY DEF serverVars
<1>3. RestOK'
  BY <1>1, <1>2 DEF IInv, RestOK
<1> QED
  BY <1>1, <1>2, <1>3 DEF Quiet, promised, IInv

LEMMA UnreachableOK == ASSUME IInv, NEW d \in Drains, Unreachable(d) PROVE Quiet
<1>1. /\ GiveUp(d, "pending", TRUE)
      /\ UNCHANGED <<journaled, authorized, ghosts, serverVars>>
      /\ Spend("unreachable")
  BY DEF Unreachable
<1>2. left' \in [Faults -> Nat] /\ authorized' \in BOOLEAN
  BY <1>1, SpendOK DEF Faults, IInv, RestOK
<1> QED
  BY <1>1, <1>2, FailOK

LEMMA RecoveryUnreachableOK ==
  ASSUME IInv, NEW d \in Drains, RecoveryUnreachable(d) PROVE Quiet
<1>1. /\ End(d)
      /\ cursor' = journaled
      /\ Spend("unreachable")
      /\ UNCHANGED <<status, owner, waiting, receipts, limit, recoveries, journaled,
                     authorized, ghosts, held, head>>
  BY DEF RecoveryUnreachable, rowVars, serverVars
<1>2. left' \in [Faults -> Nat]
  BY <1>1, SpendOK DEF Faults
<1>3. RestOK'
  BY <1>1, <1>2 DEF IInv, RestOK
<1> QED
  BY <1>1, <1>3, EndQuiet

LEMMA LoseAnswerOK == ASSUME IInv, NEW d \in Drains, LoseAnswer(d) PROVE Quiet
<1>1. /\ GiveUp(d, "pending", TRUE)
      /\ ghosts' = ghosts \cup (IF call[d] = "request" THEN {batch[d]} ELSE {})
      /\ call[d] # "none"
      /\ UNCHANGED <<journaled, authorized, serverVars>>
      /\ Spend("answer_lost")
  BY DEF LoseAnswer
<1>2. left' \in [Faults -> Nat] /\ authorized' \in BOOLEAN
  BY <1>1, SpendOK DEF Faults, IInv, RestOK
<1>3. batch[d] \in Batches /\ batch[d].to <= journaled
  BY <1>1 DEF IInv, DrainsOK, ClaimInv, ClaimOK, Active
<1>4. ghosts' \subseteq ghosts \cup {b \in Batches : b.to <= journaled}
  BY <1>1, <1>3
<1> QED
  BY <1>1, <1>2, <1>4, FailOK

LEMMA RefuseTabletOK == ASSUME IInv, NEW d \in Drains, RefuseTablet(d) PROVE Quiet
<1>1. /\ \/ GiveUp(d, "paused_auth", FALSE)
         \/ GiveUp(d, "needs_recovery", FALSE)
      /\ authorized' = FALSE
      /\ UNCHANGED <<journaled, ghosts, serverVars>>
  BY DEF RefuseTablet
<1>2. left' \in [Faults -> Nat]
  <2>1. Spend("auth") \/ Spend("enrollment") \/ UNCHANGED left
    BY DEF RefuseTablet
  <2> QED
    BY <2>1, SpendOK DEF Faults, IInv, RestOK
<1> QED
  BY <1>1, <1>2, FailOK

LEMMA SuspendOK == ASSUME IInv, NEW d \in Drains, Suspend(d) PROVE Quiet
<1>1. /\ pc[d] \in Active
      /\ late' = late \cup {d}
      /\ Spend("suspend")
      /\ UNCHANGED <<status, owner, waiting, receipts, cursor, limit, recoveries, pc, batch,
                     call, journaled, authorized, ghosts, held, head>>
  BY DEF Suspend, Active, rowVars, storeVars, serverVars
<1>2. left' \in [Faults -> Nat]
  BY <1>1, SpendOK DEF Faults
<1>3. RestOK' /\ RowsOK' /\ DrainsOK'
  BY <1>1, <1>2 DEF IInv, RestOK, RowsOK, DrainsOK
<1>4. ASSUME NEW e \in Drains
      PROVE  ClaimOK(e)'
  <2>1. HoldsAll(e)' <=> HoldsAll(e)
    BY <1>1 DEF HoldsAll, Mine, Rows
  <2> QED
    BY <1>1, <2>1 DEF IInv, ClaimInv, ClaimOK
<1>5. ServerInv'
  BY <1>1, ServerQuiet DEF IInv
<1> QED
  BY <1>1, <1>3, <1>4, <1>5 DEF Quiet, promised, IInv, ClaimInv

LEMMA CrashOK == ASSUME IInv, Crash PROVE Quiet
<1>1. /\ owner' = [s \in Sequences |-> IF owner[s] \in Drains THEN Gone ELSE owner[s]]
      /\ pc' = [d \in Drains |-> "idle"]
      /\ batch' = [d \in Drains |-> NoBatch]
      /\ call' = [d \in Drains |-> "none"]
      /\ late' = {}
      /\ ghosts' = ghosts \cup {batch[d] : d \in {x \in Drains : call[x] = "request"}}
      /\ Spend("crash") \/ Spend("crash_midway")
      /\ UNCHANGED <<status, waiting, receipts, cursor, limit, recoveries, journaled,
                     authorized, held, head>>
  BY DEF Crash, storeVars, serverVars
<1>2. left' \in [Faults -> Nat]
  BY <1>1, SpendOK DEF Faults
<1>3. RowsOK'
  BY <1>1, DrainsAssumption DEF IInv, RowsOK, Gone, Nobody
<1>4. DrainsOK'
  <2>1. NoBatch.to <= journaled
    BY DEF NoBatch, IInv, RestOK
  <2> QED
    BY <1>1, <2>1 DEF DrainsOK, Steps
<1>5. RestOK'
  <2>1. \A d \in Drains : call[d] = "request" => batch[d] \in Batches /\ batch[d].to <= journaled
    BY DEF IInv, DrainsOK, ClaimInv, ClaimOK, Active
  <2>2. ghosts' \subseteq {b \in Batches : b.to <= journaled}
    BY <1>1, <2>1 DEF IInv, RestOK
  <2> QED
    BY <1>1, <1>2, <2>2 DEF IInv, RestOK
<1>6. ClaimInv'
  BY <1>1 DEF ClaimInv, ClaimOK, Active
<1>7. ServerInv'
  BY <1>1, ServerQuiet DEF IInv
<1> QED
  BY <1>1, <1>3, <1>4, <1>5, <1>6, <1>7 DEF Quiet, promised, IInv

(* Authorization, time, and steps that change nothing.                     *)
LEMMA PassingOK ==
  ASSUME IInv, Authorize \/ DeadLeaseExpires \/ BackoffElapses \/ UNCHANGED vars
  PROVE  Quiet
<1>1. /\ authorized' \in BOOLEAN
      /\ late' = late \/ late' = late \cup {Gone}
      /\ waiting' \subseteq waiting
      /\ UNCHANGED <<status, owner, receipts, cursor, limit, recoveries, pc, batch, call,
                     journaled, ghosts, held, head, left>>
  BY DEF Authorize, DeadLeaseExpires, BackoffElapses, vars, rowVars, storeVars, drainVars,
         elsewhere, serverVars, IInv, RestOK
<1>2. RowsOK' /\ DrainsOK' /\ RestOK'
  BY <1>1 DEF IInv, RowsOK, DrainsOK, RestOK
<1>3. ASSUME NEW e \in Drains
      PROVE  ClaimOK(e)'
  <2>1. Keeps(e)
    BY <1>1, DrainsAssumption DEF Keeps
  <2> QED
    BY <2>1, ClaimsKept DEF IInv, ClaimInv
<1>4. ServerInv'
  BY <1>1, ServerQuiet DEF IInv
<1> QED
  BY <1>1, <1>2, <1>3, <1>4 DEF Quiet, promised, IInv, ClaimInv

-----------------------------------------------------------------------------
(* The theorems *)

(* Every step preserves the invariant and is a step of Replication.        *)
LEMMA NextStep ==
  ASSUME IInv, [Next]_vars
  PROVE  IInv' /\ [Promise!Next]_Promise!vars
<1>1. Quiet => IInv' /\ UNCHANGED Promise!vars
  BY DEF Quiet, promised, Promise!vars
<1>2. ASSUME NEW d \in Drains, Drain(d), ~Serve(d), ~Acknowledge(d)
      PROVE  Quiet
  BY <1>2, BackfillOK, ClaimNothingOK, ClaimOKStep, SkipOK, SelectOK, RenewOK, SendOK,
     ClaimLostOK, QuarantineOK, HeadMovedOK, TooLargeOK, ReduceBatchOK, RecoverOK DEF Drain
<1>3. ASSUME NEW d \in Drains, \/ Unreachable(d)
                               \/ RecoveryUnreachable(d)
                               \/ LoseAnswer(d)
                               \/ RefuseTablet(d)
                               \/ Suspend(d)
      PROVE  Quiet
  BY <1>3, UnreachableOK, RecoveryUnreachableOK, LoseAnswerOK, RefuseTabletOK, SuspendOK
<1>4. ASSUME NEW d \in Drains, Serve(d)
      PROVE  IInv' /\ [Promise!Next]_Promise!vars
  BY <1>4, ServeOK DEF Replicates, Promise!Next
<1>5. ASSUME NEW b \in ghosts, SettleGhost(b)
      PROVE  IInv' /\ [Promise!Next]_Promise!vars
  BY <1>5, GhostOK DEF Replicates, Promise!Next
<1>6. ASSUME NEW d \in Drains, Acknowledge(d)
      PROVE  IInv' /\ [Promise!Next]_Promise!vars
  BY <1>6, AcknowledgeOK DEF Promise!Next
<1>7. CASE Journal
  BY <1>7, JournalOK DEF Promise!Next
<1>8. CASE Crash
  BY <1>1, <1>8, CrashOK
<1>9. CASE Authorize \/ DeadLeaseExpires \/ BackoffElapses \/ UNCHANGED vars
  BY <1>1, <1>9, PassingOK
<1> QED
  BY <1>1, <1>2, <1>3, <1>4, <1>5, <1>6, <1>7, <1>8, <1>9 DEF Next, Fault

(* The inductive invariant holds in every run of the synchronization.      *)
LEMMA Invariance == Spec => []IInv
<1>1. IInv /\ [Next]_vars => IInv'
  BY NextStep
<1> QED
  BY InitIInv, <1>1, PTL DEF Spec

(* Every variable keeps its type: a row is claimed exactly when it is      *)
(* being sent, only rows that are pending or quarantined wait for a        *)
(* backoff, and no drain or request holds a row that was never journaled.  *)
THEOREM TypeCorrect == Spec => []TypeOK
<1>1. IInv => TypeOK
  BY TypeParts DEF IInv
<1> QED
  BY <1>1, Invariance, PTL

(* The server's copy is always the prefix of the journal its head names,   *)
(* whatever requests are repeated, delayed, lost or refused.               *)
THEOREM ServerHoldsAPrefix == Spec => []HeadIsPrefix
<1>1. IInv => HeadIsPrefix
  BY DEF IInv, ServerInv
<1> QED
  BY <1>1, Invariance, PTL

(* Two drains whose leases run never work on the same row, although each   *)
(* works on a copy of what it has claimed.                                 *)
THEOREM LiveClaimsStayDisjoint == Spec => []LiveClaimsDisjoint
<1>1. IInv => LiveClaimsDisjoint
  <2> SUFFICES ASSUME IInv, NEW d \in Drains, NEW e \in Drains, d # e,
                      {pc[d], pc[e]} \subseteq Active, d \notin late, e \notin late
               PROVE  Rows(batch[d]) \cap Rows(batch[e]) = {}
    BY DEF LiveClaimsDisjoint, Active
  <2>1. Mine(d) = Rows(batch[d]) /\ Mine(e) = Rows(batch[e])
    BY DEF IInv, ClaimInv, ClaimOK, HoldsAll
  <2>2. /\ \A s \in Rows(batch[d]) : owner[s] = d
        /\ \A s \in Rows(batch[e]) : owner[s] = e
    BY <2>1 DEF Mine
  <2> QED
    BY <2>2
<1> QED
  BY <1>1, Invariance, PTL

(* Synchronization implements Replication: the journal grows, the server   *)
(* holds a growing prefix of it, and receipts are for what it holds.       *)
THEOREM Implementation == Spec => ImplementsReplication
<1>1. Init => Promise!Init
  BY OutboxAssumption DEF Init, Promise!Init
<1>2. IInv /\ [Next]_vars => [Promise!Next]_Promise!vars
  BY NextStep
<1> QED
  BY <1>1, <1>2, Invariance, PTL DEF Spec, ImplementsReplication, Promise!Spec

=============================================================================
