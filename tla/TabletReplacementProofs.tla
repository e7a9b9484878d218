----------------------- MODULE TabletReplacementProofs -----------------------
(***************************************************************************)
(* A verified backup is faithful, a tablet only takes an identity whose    *)
(* journal it holds, and the history of an older version is kept: for any  *)
(* number of sales, failures and stops.                                    *)
(*                                                                         *)
(* A replacement acts on what it read several steps before: whether a      *)
(* marker stood, whether the database was empty.  The invariant says why   *)
(* nothing else can have changed it meanwhile: the register has no         *)
(* identity yet, hence cannot sell, and its database is initialized.       *)
(***************************************************************************)
EXTENDS TabletReplacement, SequenceTheorems, TLAPS

Sale == {"A", "B", "H", "N"} \X Nat
Journals == [sales : Seq(Sale), prints : {0, 1}]
ArchiveSet == [terminal : {"A", "B"}, journal : Journals, whole : BOOLEAN]
Identities == {NoIdentity, Own, "A", "B"}

\* The steps after the target was read, while the identity is not adopted.
Replacing == {"prepare", "save", "restore", "reread", "adopt"}
Calls ==
  [step : {"target", "clear"} \cup Replacing, archive : ArchiveSet,
   current : Identities, pending : BOOLEAN]

OldOK ==
  /\ old \in [journal : Journals, used : BOOLEAN]
  /\ \/ backup \in [step : {"none", "export"}]
     \/ backup \in [step : {"write", "compare", "verified"}, archive : ArchiveSet]
  /\ file \in ArchiveSet \cup {None}
  /\ since \subseteq Journals

NewOK ==
  /\ room \in [journal : Journals, restored : BOOLEAN, migrated : BOOLEAN]
  /\ history \in Seq(Sale)
  /\ identity \in Identities
  /\ marker \in ArchiveSet \cup {None}
  /\ process \in [screen : {"stopped", "blocked", "configure", "selling"},
                  init : {"pending", "done", "failed"}]
  /\ call \in Calls \cup {NoCall}

(* What a backup carries was the journal at a moment since it was asked.   *)
BackupInv ==
  /\ backup.step = "export" => old.journal \in since
  /\ backup.step \in {"write", "compare", "verified"} =>
       backup.archive.whole /\ backup.archive.journal \in since
  /\ backup.step = "verified" => file = backup.archive

(* What a replacement knows at each of its steps.                          *)
CallInv ==
  /\ call.step = "target" =>
       call.current = identity /\ marker = IF call.pending THEN call.archive ELSE None
  /\ call.step \in Replacing => identity = NoIdentity /\ process.init = "done"
  /\ call.step \in {"prepare", "save"} => Target(call.archive) # "occupied"
  /\ call.step = "save" => room.restored
  /\ call.step \in {"restore", "reread", "adopt"} => marker = call.archive
  /\ call.step = "adopt" => room.journal = call.archive.journal

StorageInv ==
  /\ process.screen = "selling" => identity # NoIdentity
  /\ process.init = "done" => room.migrated
  /\ marker # None => room.restored

OldInv == OldOK /\ BackupInv
NewInv == NewOK /\ CallInv /\ StorageInv /\ HistoryKept
IInv == OldInv /\ NewInv /\ failures \in Nat /\ stops \in Nat
-----------------------------------------------------------------------------
(* Prefixes.                                                               *)

LEMMA PrefixOfItself ==
  ASSUME NEW S, NEW s \in Seq(S)
  PROVE  IsPrefix(s, s)
  BY DEF IsPrefix

LEMMA EmptyIsPrefix ==
  ASSUME NEW S, NEW s \in Seq(S)
  PROVE  IsPrefix(<<>>, s)
  BY DEF IsPrefix

LEMMA PrefixOfEmpty ==
  ASSUME NEW S, NEW s \in Seq(S), IsPrefix(s, <<>>)
  PROVE  s = <<>>
  BY DEF IsPrefix

LEMMA PrefixOfAppend ==
  ASSUME NEW S, NEW s \in Seq(S), NEW t \in Seq(S), NEW e \in S, IsPrefix(s, t)
  PROVE  IsPrefix(s, Append(t, e))
<1>1. Len(s) <= Len(Append(t, e))
  BY DEF IsPrefix
<1>2. SubSeq(Append(t, e), 1, Len(s)) = SubSeq(t, 1, Len(s))
  <2> DEFINE n == Len(s)
             u == Append(t, e)
  <2>1. n \in Nat /\ n <= Len(t) /\ u \in Seq(S)
    BY AppendProperties DEF IsPrefix
  <2>2. \A i \in 1..n : t[i] \in S /\ u[i] = t[i]
    BY <2>1, AppendProperties, ElementOfSeq
  <2>3. /\ SubSeq(u, 1, n) \in Seq(S) /\ SubSeq(t, 1, n) \in Seq(S)
        /\ Len(SubSeq(u, 1, n)) = n /\ Len(SubSeq(t, 1, n)) = n
        /\ \A i \in 1..n : SubSeq(u, 1, n)[i] = u[i] /\ SubSeq(t, 1, n)[i] = t[i]
    <3> HIDE DEF u, n
    <3>1. \A i \in 1..n : u[i] \in S
      BY <2>2
    <3> QED
      BY <2>1, <2>2, <3>1, SubSeqProperties
  <2> HIDE DEF u, n
  <2> QED
    BY <2>1, <2>2, <2>3, SeqEqual DEF u, n
<1> QED
  BY <1>1, <1>2 DEF IsPrefix

(* Journals stay journals.                                                 *)
LEMMA SoldJournal ==
  ASSUME NEW j \in Journals, NEW tablet \in {"A", "B", "H", "N"}
  PROVE  /\ Sold(j, tablet) \in Journals
         /\ Sold(j, tablet).sales = Append(j.sales, <<tablet, Len(j.sales) + 1>>)
<1> DEFINE sale == <<tablet, Len(j.sales) + 1>>
<1>1. j.sales \in Seq(Sale) /\ sale \in Sale
  BY DEF Journals, Sale
<1>2. Append(j.sales, sale) \in Seq(Sale)
  BY <1>1, AppendProperties
<1> QED
  BY <1>2 DEF Sold, Journals

LEMMA PrintedJournal ==
  ASSUME NEW j \in Journals
  PROVE  Printed(j) \in Journals /\ Printed(j).sales = j.sales
  BY DEF Printed, Journals

LEMMA ArchivesAreArchives ==
  ASSUME OldOK
  PROVE  Archives \subseteq ArchiveSet
<1>1. Empty \in Journals /\ [sales |-> <<<<"B", 1>>>>, prints |-> 0] \in Journals
  BY DEF Empty, Journals, Sale
<1>2. Others \subseteq ArchiveSet
  BY <1>1 DEF Others, Archive, ArchiveSet
<1> QED
  BY <1>2 DEF Archives, OldOK

LEMMA NoneIsNoArchive == None \notin ArchiveSet
  BY DEF None, ArchiveSet
-----------------------------------------------------------------------------
(* What an action does not touch stays true.                               *)

LEMMA OldUntouched ==
  ASSUME OldInv, UNCHANGED oldVars
  PROVE  OldInv'
  BY DEF OldInv, OldOK, BackupInv, oldVars

LEMMA NewUntouched ==
  ASSUME NewInv, UNCHANGED newVars
  PROVE  NewInv'
<1>1. NewOK' /\ StorageInv'
  BY DEF NewInv, NewOK, StorageInv, newVars, storage
<1>2. CallInv'
  BY DEF NewInv, CallInv, Target, newVars, storage
<1>3. HistoryKept'
  BY DEF NewInv, HistoryKept, newVars, storage
<1> QED
  BY <1>1, <1>2, <1>3 DEF NewInv

LEMMA InitIInv == Init => IInv
<1> SUFFICES ASSUME Init PROVE IInv
  OBVIOUS
<1>1. Empty \in Journals
  BY DEF Empty, Journals, Sale
<1>2. OldInv
  BY <1>1 DEF Init, OldInv, OldOK, BackupInv
<1>3. history \in Seq(Sale)
  <2>1. <<"H", 1>> \in Sale
    BY DEF Sale
  <2>2. <<>> \in Seq(Sale) /\ <<<<"H", 1>>>> \in Seq(Sale)
    BY <2>1
  <2> QED
    BY <2>2 DEF Init
<1>4. NewOK
  <2>1. room \in [journal : Journals, restored : BOOLEAN, migrated : BOOLEAN]
    BY <1>1 DEF Init
  <2>2. identity \in Identities /\ marker = None /\ call = NoCall
    BY DEF Init, Identities
  <2>3. process \in [screen : {"stopped", "blocked", "configure", "selling"},
                     init : {"pending", "done", "failed"}]
    BY DEF Init, Stopped
  <2> QED
    BY <1>3, <2>1, <2>2, <2>3 DEF NewOK
<1>5. CallInv /\ StorageInv
  BY DEF Init, CallInv, StorageInv, NoCall, Stopped, Replacing
<1>6. HistoryKept
  BY DEF Init, HistoryKept, Empty
<1> QED
  BY <1>2, <1>4, <1>5, <1>6 DEF IInv, NewInv, Init

-----------------------------------------------------------------------------
(* The old tablet.                                                         *)

LEMMA UseOldInv ==
  ASSUME OldInv, UseOld
  PROVE  OldInv'
<1>1. old' \in [journal : Journals, used : BOOLEAN]
  <2>1. old.journal \in Journals /\ old \in [journal : Journals, used : BOOLEAN]
    BY DEF OldInv, OldOK
  <2>2. Sold(old.journal, "A") \in Journals /\ Printed(old.journal) \in Journals
    BY <2>1, SoldJournal, PrintedJournal
  <2> QED
    BY <2>1, <2>2 DEF UseOld
<1>2. since \subseteq since' /\ since' \subseteq Journals
  BY <1>1 DEF UseOld, OldInv, OldOK
<1>3. backup.step = "export" => old'.journal \in since'
  BY DEF UseOld, UnderWay
<1> QED
  BY <1>1, <1>2, <1>3 DEF UseOld, OldInv, OldOK, BackupInv

LEMMA AskBackupInv ==
  ASSUME OldInv, AskBackup
  PROVE  OldInv'
<1>1. backup' = [step |-> "export"] /\ since' = {old.journal} /\ UNCHANGED <<old, file>>
  BY DEF AskBackup
<1> QED
  BY <1>1 DEF OldInv, OldOK, BackupInv

LEMMA ExportArchiveInv ==
  ASSUME OldInv, ExportArchive
  PROVE  OldInv'
<1> DEFINE archive == Archive("A", old.journal)
<1>1. backup' = [step |-> "write", archive |-> archive] /\ UNCHANGED <<old, file, since>>
  BY DEF ExportArchive
<1>2. archive \in ArchiveSet /\ archive.whole /\ archive.journal = old.journal
  BY DEF OldInv, OldOK, Archive, ArchiveSet
<1>3. old.journal \in since
  BY DEF ExportArchive, OldInv, BackupInv
<1> QED
  BY <1>1, <1>2, <1>3 DEF OldInv, OldOK, BackupInv

(* A backup that ends, or is dropped, leaves nothing to be true of it.     *)
LEMMA NoBackupInv ==
  ASSUME OldInv, NoBackup, old' \in [journal : Journals, used : BOOLEAN],
         file' \in ArchiveSet \cup {None}
  PROVE  OldInv'
  BY DEF NoBackup, OldInv, OldOK, BackupInv

LEMMA SaveJsonInv ==
  ASSUME OldInv, SaveJson
  PROVE  OldInv'
<1>1. /\ backup \in [step : {"write", "compare", "verified"}, archive : ArchiveSet]
      /\ backup.step = "write"
  BY DEF SaveJson, OldInv, OldOK
<1>2. file' \in ArchiveSet
  BY <1>1 DEF SaveJson, ArchiveSet
<1>3. CASE backup' = [backup EXCEPT !.step = "compare"] /\ UNCHANGED since
  BY <1>1, <1>2, <1>3 DEF SaveJson, OldInv, OldOK, BackupInv
<1>4. CASE NoBackup
  BY <1>2, <1>4, NoBackupInv DEF SaveJson, OldInv, OldOK
<1> QED
  BY <1>3, <1>4 DEF SaveJson

LEMMA CompareRereadInv ==
  ASSUME OldInv, CompareReread
  PROVE  OldInv'
<1>1. backup \in [step : {"write", "compare", "verified"}, archive : ArchiveSet]
  BY DEF CompareReread, OldInv, OldOK
<1>2. CASE SameArchive(file) /\ backup' = [backup EXCEPT !.step = "verified"] /\ UNCHANGED since
  BY <1>1, <1>2 DEF CompareReread, SameArchive, OldInv, OldOK, BackupInv
<1>3. CASE NoBackup
  BY <1>3, NoBackupInv DEF CompareReread, OldInv, OldOK
<1> QED
  BY <1>2, <1>3 DEF CompareReread

LEMMA OldTabletIInv ==
  ASSUME IInv,
         \/ UseOld \/ AskBackup \/ ExportArchive \/ SaveJson \/ NotSaved \/ CompareReread
         \/ StopOld
  PROVE  IInv'
<1>1. OldInv'
  <2>1. CASE UseOld \/ AskBackup \/ ExportArchive \/ SaveJson \/ CompareReread
    BY <2>1, UseOldInv, AskBackupInv, ExportArchiveInv, SaveJsonInv, CompareRereadInv DEF IInv
  <2>2. CASE NotSaved
    BY <2>2, NoBackupInv DEF NotSaved, IInv, OldInv, OldOK
  <2>3. CASE StopOld
    <3>1. old' \in [journal : Journals, used : BOOLEAN]
      BY <2>3 DEF StopOld, IInv, OldInv, OldOK
    <3> QED
      BY <2>3, <3>1, NoBackupInv DEF StopOld, IInv, OldInv, OldOK
  <2> QED
    BY <2>1, <2>2, <2>3
<1>2. UNCHANGED newVars /\ UNCHANGED faults
  BY DEF UseOld, AskBackup, ExportArchive, SaveJson, NotSaved, CompareReread, StopOld
<1> QED
  BY <1>1, <1>2, NewUntouched DEF IInv, faults
-----------------------------------------------------------------------------
(* The new tablet: its starts, its history, its sales.                     *)

LEMMA LaunchInv ==
  ASSUME NewInv, Launch
  PROVE  NewInv'
<1>1. /\ process' = [screen |-> Screen, init |-> "pending"]
      /\ process.init = "pending"
      /\ UNCHANGED <<room, identity, marker, history, call>>
  BY DEF Launch, Stopped, storage
<1>2. Screen \in {"stopped", "blocked", "configure", "selling"}
  BY DEF Screen
<1>3. NewOK'
  BY <1>1, <1>2 DEF NewInv, NewOK
<1>4. CallInv'
  BY <1>1 DEF NewInv, CallInv, Target
<1>5. StorageInv'
  BY <1>1 DEF NewInv, StorageInv, Screen
<1>6. HistoryKept'
  BY <1>1 DEF NewInv, HistoryKept
<1> QED
  BY <1>3, <1>4, <1>5, <1>6 DEF NewInv

(* Without a call under way there is nothing to be true of it.             *)
LEMMA NoCallStep ==
  ASSUME NewInv, call' = NoCall, NewOK', StorageInv', HistoryKept'
  PROVE  NewInv'
<1>1. CallInv'
  BY DEF CallInv, NoCall, Replacing
<1> QED
  BY <1>1 DEF NewInv

LEMMA StopsInv ==
  ASSUME NewInv, Stop \/ Restart
  PROVE  NewInv'
<1>1. process' = Stopped /\ call' = NoCall /\ UNCHANGED <<room, identity, marker, history>>
  BY DEF Stop, Restart, storage
<1>2. NewOK' /\ StorageInv' /\ HistoryKept'
  BY <1>1 DEF NewInv, NewOK, StorageInv, HistoryKept, Stopped
<1> QED
  BY <1>1, <1>2, NoCallStep

LEMMA EnsureInitializedInv ==
  ASSUME NewInv, EnsureInitialized
  PROVE  NewInv'
<1>1. /\ process.init = "pending" /\ UNCHANGED <<identity, marker, history, call>>
      /\ \/ process' = [process EXCEPT !.init = "failed"]
         \/ process' = [process EXCEPT !.init = "done"] /\ room'.migrated
  BY DEF EnsureInitialized, ImportLegacySnapshot, NewInv, NewOK
<1>2. \/ UNCHANGED room
      \/ room' = [room EXCEPT !.journal.sales = history, !.migrated = TRUE]
  BY DEF EnsureInitialized, ImportLegacySnapshot, LegacySnapshot
<1>3. /\ room' \in [journal : Journals, restored : BOOLEAN, migrated : BOOLEAN]
      /\ room'.restored = room.restored
      /\ UNCHANGED room \/ room'.journal.sales = history
  <2>1. room \in [journal : Journals, restored : BOOLEAN, migrated : BOOLEAN]
    BY DEF NewInv, NewOK
  <2>2. CASE UNCHANGED room
    BY <2>1, <2>2
  <2>3. CASE room' = [room EXCEPT !.journal.sales = history, !.migrated = TRUE]
    <3>1. room' = [journal |-> [room.journal EXCEPT !.sales = history],
                   restored |-> room.restored, migrated |-> TRUE]
      BY <2>1, <2>3
    <3>2. [room.journal EXCEPT !.sales = history] \in Journals
      BY <2>1 DEF Journals, NewInv, NewOK
    <3>3. [room.journal EXCEPT !.sales = history].sales = history
      BY <2>1 DEF Journals
    <3> QED
      BY <2>1, <3>1, <3>2, <3>3
  <2> QED
    BY <1>2, <2>2, <2>3
<1>4. NewOK' /\ StorageInv'
  BY <1>1, <1>3 DEF NewInv, NewOK, StorageInv
<1>5. CallInv'
  BY <1>1 DEF NewInv, CallInv, Replacing
<1>6. HistoryKept'
  BY <1>1, <1>3, PrefixOfItself DEF NewInv, NewOK, HistoryKept
<1> QED
  BY <1>4, <1>5, <1>6 DEF NewInv

LEMMA ProvisionInv ==
  ASSUME NewInv, Provision
  PROVE  NewInv'
<1>1. /\ identity' = Own /\ call' = NoCall /\ process' = [process EXCEPT !.screen = "selling"]
      /\ UNCHANGED <<room, marker, history>>
  BY DEF Provision
<1>2. NewOK' /\ StorageInv' /\ HistoryKept'
  BY <1>1 DEF NewInv, NewOK, StorageInv, HistoryKept, Identities, NoIdentity, Own
<1> QED
  BY <1>1, <1>2, NoCallStep

(* A register that sells has no replacement beyond its first step, and has *)
(* imported its history.                                                   *)
LEMMA UseNewInv ==
  ASSUME NewInv, UseNew
  PROVE  NewInv'
<1>1. /\ UNCHANGED <<identity, marker, history, process, call>>
      /\ identity # NoIdentity /\ room.migrated
      /\ room \in [journal : Journals, restored : BOOLEAN, migrated : BOOLEAN]
      /\ IsPrefix(history, room.journal.sales)
  BY DEF UseNew, Ready, NewInv, NewOK, StorageInv, HistoryKept
<1>2. \/ room' = [room EXCEPT !.journal = Sold(room.journal, "N")]
      \/ room' = [room EXCEPT !.journal = Printed(room.journal)]
  BY DEF UseNew
<1>3. /\ room' \in [journal : Journals, restored : BOOLEAN, migrated : BOOLEAN]
      /\ room'.restored = room.restored /\ room'.migrated = room.migrated
  BY <1>1, <1>2, SoldJournal, PrintedJournal
<1>4. IsPrefix(history, room'.journal.sales)
  <2>1. CASE room' = [room EXCEPT !.journal = Sold(room.journal, "N")]
    <3> DEFINE sale == <<"N", Len(room.journal.sales) + 1>>
    <3>1. room.journal.sales \in Seq(Sale) /\ sale \in Sale /\ history \in Seq(Sale)
      BY <1>1 DEF Journals, Sale, NewInv, NewOK
    <3>2. room'.journal.sales = Append(room.journal.sales, sale)
      BY <1>1, <2>1, SoldJournal
    <3> QED
      BY <1>1, <3>1, <3>2, PrefixOfAppend
  <2>2. CASE room' = [room EXCEPT !.journal = Printed(room.journal)]
    BY <1>1, <2>2, PrintedJournal
  <2> QED
    BY <1>2, <2>1, <2>2
<1>5. NewOK' /\ StorageInv' /\ HistoryKept'
  BY <1>1, <1>3, <1>4 DEF NewInv, NewOK, StorageInv, HistoryKept
<1>6. CallInv'
  BY <1>1 DEF NewInv, CallInv, Replacing
<1> QED
  BY <1>5, <1>6 DEF NewInv

(* Only an empty database is restored, which holds no history either.      *)
LEMMA RestoreSnapshotKeeps ==
  ASSUME NewInv, process.init = "done", UNCHANGED history,
         NEW STATE archive, archive \in ArchiveSet, RestoreSnapshot(archive)
  PROVE  /\ room' \in [journal : Journals, restored : BOOLEAN, migrated : BOOLEAN]
         /\ room'.journal = archive.journal /\ room'.restored
         /\ room'.migrated = room.migrated /\ HistoryKept'
<1>1. /\ room \in [journal : Journals, restored : BOOLEAN, migrated : BOOLEAN]
      /\ archive.journal \in Journals /\ history \in Seq(Sale)
  BY DEF NewInv, NewOK, ArchiveSet
<1>2. room' = [room EXCEPT !.journal = archive.journal, !.restored = TRUE]
  BY DEF RestoreSnapshot
<1>3. history = <<>>
  <2>1. IsPrefix(history, <<>>)
    BY DEF NewInv, StorageInv, HistoryKept, RestoreSnapshot
  <2> QED
    BY <1>1, <2>1, PrefixOfEmpty
<1>4. room'.journal.sales \in Seq(Sale)
  BY <1>1, <1>2 DEF Journals
<1>5. HistoryKept'
  BY <1>3, <1>4, EmptyIsPrefix DEF HistoryKept
<1> QED
  BY <1>1, <1>2, <1>5

LEMMA RestoreArchiveInv ==
  ASSUME OldInv, NewInv, RestoreArchive
  PROVE  NewInv'
<1>1. PICK archive \in Archives : RestoreSnapshot(archive)
  BY DEF RestoreArchive
<1>2. archive \in ArchiveSet
  BY ArchivesAreArchives DEF OldInv
<1>3. /\ UNCHANGED <<identity, marker, history, process, call>>
      /\ process.init = "done" /\ call' = NoCall
  BY DEF RestoreArchive, Ready
<1>4. NewOK' /\ StorageInv' /\ HistoryKept'
  BY <1>1, <1>2, <1>3, RestoreSnapshotKeeps DEF NewInv, NewOK, StorageInv
<1> QED
  BY <1>3, <1>4, NoCallStep

-----------------------------------------------------------------------------
(* The replacement.                                                        *)

LEMMA ReplaceFromArchiveInv ==
  ASSUME NewInv, NEW STATE archive, archive \in ArchiveSet, ReplaceFromArchive(archive)
  PROVE  NewInv'
<1>1. /\ UNCHANGED <<room, identity, marker, history, process>>
      /\ call' = [step |-> "target", archive |-> archive, current |-> identity,
                  pending |-> marker # None]
      /\ marker \in {None, archive}
  BY DEF ReplaceFromArchive, storage
<1>2. call' \in Calls
  BY <1>1 DEF Calls, NewInv, NewOK
<1>3. NewOK' /\ StorageInv' /\ HistoryKept'
  BY <1>1, <1>2 DEF NewInv, NewOK, StorageInv, HistoryKept
<1>4. CallInv'
  BY <1>1 DEF CallInv, Replacing
<1> QED
  BY <1>3, <1>4 DEF NewInv

(* A call that ends, or fails.                                             *)
LEMMA EndsInv ==
  ASSUME NewInv, Ends, UNCHANGED <<room, identity, history, process>>, marker' \in {None, marker}
  PROVE  NewInv'
<1>1. NewOK' /\ StorageInv' /\ HistoryKept'
  BY DEF NewInv, NewOK, StorageInv, HistoryKept, Ends
<1> QED
  BY <1>1, NoCallStep DEF Ends

(* A call is in its first step, or further, with an archive.               *)
LEMMA CallTyped ==
  ASSUME NewInv, call.step # "none"
  PROVE  call \in Calls /\ call.archive \in ArchiveSet
  BY DEF NewInv, NewOK, NoCall, Calls

LEMMA StepsTyped ==
  ASSUME NewInv, call.step # "none", NEW step \in {"target", "clear"} \cup Replacing, Steps(step)
  PROVE  call' \in Calls /\ call' = [call EXCEPT !.step = step] /\ call'.step = step
         /\ call'.archive = call.archive
  BY CallTyped DEF Steps, Calls

LEMMA ReadTargetInv ==
  ASSUME NewInv, ReadTarget
  PROVE  NewInv'
<1>1. /\ call.step = "target" /\ UNCHANGED <<room, identity, history, process>>
      /\ call \in Calls /\ call.archive \in ArchiveSet
  BY CallTyped DEF ReadTarget
<1>2. CASE Ends /\ marker' \in {None, marker}
  BY <1>1, <1>2, EndsInv
<1>3. CASE ~(Ends /\ marker' \in {None, marker})
  <2> DEFINE step == IF call.pending THEN AfterSave(Target(call.archive)) ELSE "prepare"
  <2>1. /\ call.current = NoIdentity /\ Ready /\ Target(call.archive) # "occupied"
        /\ call' = [call EXCEPT !.step = step] /\ UNCHANGED marker
    BY <1>1, <1>3 DEF ReadTarget, Ends
  <2>2. /\ identity = NoIdentity /\ process.init = "done"
        /\ marker = IF call.pending THEN call.archive ELSE None
    BY <1>1, <2>1 DEF NewInv, CallInv, Ready
  <2>3. call' \in Calls /\ call'.step = step /\ call'.archive = call.archive
    BY <1>1, <2>1 DEF Calls, AfterSave, Replacing
  <2>4. NewOK' /\ StorageInv' /\ HistoryKept'
    BY <1>1, <2>1, <2>3 DEF NewInv, NewOK, StorageInv, HistoryKept
  <2>5. Target(call.archive)' = Target(call.archive)
    BY <1>1, <2>3 DEF Target
  <2>6. step = "adopt" => room.journal = call.archive.journal
    BY <2>1 DEF AfterSave, Target
  <2>7. step \in {"prepare", "restore", "adopt"} /\ (step # "prepare" => call.pending)
    BY DEF AfterSave
  <2>8. CallInv'
    <3> HIDE DEF step
    <3> QED
      BY <1>1, <2>1, <2>2, <2>3, <2>5, <2>6, <2>7 DEF CallInv, Replacing
  <2> QED
    BY <2>4, <2>8 DEF NewInv
<1> QED
  BY <1>2, <1>3

LEMMA PrepareSyncReplacementInv ==
  ASSUME NewInv, PrepareSyncReplacement
  PROVE  NewInv'
<1>1. /\ call.step = "prepare" /\ room' = [room EXCEPT !.restored = TRUE] /\ Steps("save")
      /\ UNCHANGED <<identity, marker, history, process>>
  BY DEF PrepareSyncReplacement
<1>2. call' \in Calls /\ call'.step = "save" /\ call'.archive = call.archive
  BY <1>1, StepsTyped DEF Replacing
<1>3. /\ room' \in [journal : Journals, restored : BOOLEAN, migrated : BOOLEAN]
      /\ room'.restored /\ room'.journal = room.journal /\ room'.migrated = room.migrated
  BY <1>1 DEF NewInv, NewOK
<1>4. NewOK' /\ StorageInv' /\ HistoryKept'
  BY <1>1, <1>2, <1>3 DEF NewInv, NewOK, StorageInv, HistoryKept
<1>5. Target(call.archive)' = Target(call.archive)
  BY <1>2, <1>3 DEF Target
<1>6. CallInv'
  BY <1>1, <1>2, <1>3, <1>5 DEF NewInv, CallInv, Replacing
<1> QED
  BY <1>4, <1>6 DEF NewInv

LEMMA SaveMarkerInv ==
  ASSUME NewInv, SaveMarker
  PROVE  NewInv'
<1> DEFINE step == AfterSave(Target(call.archive))
<1>1. /\ call.step = "save" /\ marker' = call.archive /\ Steps(step)
      /\ UNCHANGED <<room, identity, history, process>>
  BY DEF SaveMarker
<1>2. call \in Calls /\ call.archive \in ArchiveSet
  BY <1>1, CallTyped
<1>3. step \in {"restore", "adopt"}
  BY DEF AfterSave
<1>4. step = "adopt" => room.journal = call.archive.journal
  BY <1>1 DEF AfterSave, Target, NewInv, CallInv
<1> HIDE DEF step
<1>5. call' \in Calls /\ call'.step = step /\ call'.archive = call.archive
  BY <1>1, <1>2, <1>3 DEF Steps, Calls, Replacing
<1>6. NewOK' /\ StorageInv' /\ HistoryKept'
  BY <1>1, <1>2, <1>5 DEF NewInv, NewOK, StorageInv, HistoryKept, CallInv
<1>7. CallInv'
  BY <1>1, <1>3, <1>4, <1>5 DEF NewInv, CallInv, Replacing
<1> QED
  BY <1>6, <1>7 DEF NewInv

LEMMA RestoreInv ==
  ASSUME NewInv, Restore
  PROVE  NewInv'
<1>1. /\ call.step = "restore" /\ RestoreSnapshot(call.archive) /\ Steps("reread")
      /\ UNCHANGED <<identity, marker, history, process>>
  BY DEF Restore
<1>2. call \in Calls /\ call.archive \in ArchiveSet
  BY <1>1, CallTyped
<1>3. /\ room' \in [journal : Journals, restored : BOOLEAN, migrated : BOOLEAN]
      /\ room'.journal = call.archive.journal /\ room'.restored
      /\ room'.migrated = room.migrated /\ HistoryKept'
  BY <1>1, <1>2, RestoreSnapshotKeeps DEF NewInv, CallInv, Replacing
<1>4. call' \in Calls /\ call'.step = "reread" /\ call'.archive = call.archive
  BY <1>1, StepsTyped DEF Replacing
<1>5. NewOK' /\ StorageInv'
  BY <1>1, <1>3, <1>4 DEF NewInv, NewOK, StorageInv
<1>6. CallInv'
  BY <1>1, <1>4 DEF NewInv, CallInv, Replacing
<1> QED
  BY <1>3, <1>5, <1>6 DEF NewInv

LEMMA RereadTargetInv ==
  ASSUME NewInv, RereadTarget
  PROVE  NewInv'
<1>1. call.step = "reread" /\ UNCHANGED <<room, identity, marker, history, process>>
  BY DEF RereadTarget, storage
<1>2. CASE Ends
  BY <1>1, <1>2, EndsInv
<1>3. CASE Target(call.archive) = "matches" /\ Steps("adopt")
  <2>1. call' \in Calls /\ call'.step = "adopt" /\ call'.archive = call.archive
    BY <1>1, <1>3, StepsTyped DEF Replacing
  <2>2. room.journal = call.archive.journal
    BY <1>3 DEF Target
  <2>3. NewOK' /\ StorageInv' /\ HistoryKept'
    BY <1>1, <2>1 DEF NewInv, NewOK, StorageInv, HistoryKept
  <2>4. CallInv'
    BY <1>1, <2>1, <2>2 DEF NewInv, CallInv, Replacing
  <2> QED
    BY <2>3, <2>4 DEF NewInv
<1> QED
  BY <1>2, <1>3 DEF RereadTarget

LEMMA AdoptRestoredIdentityInv ==
  ASSUME NewInv, AdoptRestoredIdentity
  PROVE  NewInv'
<1>1. call.step = "adopt" /\ UNCHANGED <<room, marker, history, process>>
  BY DEF AdoptRestoredIdentity
<1>2. call \in Calls /\ call.archive \in ArchiveSet
  BY <1>1, CallTyped
<1>3. CASE Ends /\ UNCHANGED identity
  BY <1>1, <1>3, EndsInv
<1>4. CASE identity' = call.archive.terminal /\ Steps("clear")
  <2>1. identity' \in {"A", "B"}
    BY <1>2, <1>4 DEF ArchiveSet
  <2>2. call' \in Calls /\ call'.step = "clear"
    BY <1>1, <1>4, StepsTyped
  <2>3. NewOK' /\ StorageInv' /\ HistoryKept'
    BY <1>1, <2>1, <2>2 DEF NewInv, NewOK, StorageInv, HistoryKept, Identities, NoIdentity
  <2>4. CallInv'
    BY <2>2 DEF CallInv, Replacing
  <2> QED
    BY <2>3, <2>4 DEF NewInv
<1> QED
  BY <1>3, <1>4 DEF AdoptRestoredIdentity

LEMMA NewTabletIInv ==
  ASSUME IInv,
         \/ Launch \/ Stop \/ Restart \/ EnsureInitialized \/ Provision \/ UseNew
         \/ RestoreArchive \/ (\E archive \in Archives : ReplaceFromArchive(archive))
         \/ Step \/ CallFails
  PROVE  IInv'
<1>1. NewInv'
  <2>1. CASE \/ Launch \/ Stop \/ Restart \/ EnsureInitialized \/ Provision \/ UseNew
             \/ RestoreArchive
    BY <2>1, LaunchInv, StopsInv, EnsureInitializedInv, ProvisionInv, UseNewInv,
       RestoreArchiveInv
    DEF IInv
  <2>2. CASE \E archive \in Archives : ReplaceFromArchive(archive)
    BY <2>2, ArchivesAreArchives, ReplaceFromArchiveInv DEF IInv, OldInv
  <2>3. CASE Step
    <3>1. CASE ClearMarker
      BY <3>1, EndsInv DEF ClearMarker, IInv
    <3> QED
      BY <2>3, <3>1, ReadTargetInv, PrepareSyncReplacementInv, SaveMarkerInv, RestoreInv,
         RereadTargetInv, AdoptRestoredIdentityInv
      DEF Step, IInv
  <2>4. CASE CallFails
    BY <2>4, EndsInv DEF CallFails, storage, IInv
  <2> QED
    BY <2>1, <2>2, <2>3, <2>4
<1>2. UNCHANGED oldVars
  BY DEF Launch, Stop, Restart, EnsureInitialized, Provision, UseNew, RestoreArchive,
     ReplaceFromArchive, Step, ReadTarget, PrepareSyncReplacement, SaveMarker, Restore,
     RereadTarget, AdoptRestoredIdentity, ClearMarker, CallFails
<1>3. failures' \in Nat /\ stops' \in Nat
  BY DEF Launch, Stop, Restart, EnsureInitialized, Provision, UseNew, RestoreArchive,
     ReplaceFromArchive, Step, ReadTarget, PrepareSyncReplacement, SaveMarker, Restore,
     RereadTarget, AdoptRestoredIdentity, ClearMarker, CallFails, Fails, faults, IInv
<1> QED
  BY <1>1, <1>2, <1>3, OldUntouched DEF IInv
-----------------------------------------------------------------------------
(* The theorems.                                                           *)

LEMMA NextIInv == IInv /\ [Next]_vars => IInv'
<1> SUFFICES ASSUME IInv, [Next]_vars PROVE IInv'
  OBVIOUS
<1>1. CASE UNCHANGED vars
  BY <1>1, OldUntouched, NewUntouched DEF vars, IInv, faults
<1> QED
  BY <1>1, OldTabletIInv, NewTabletIInv DEF Next

LEMMA Invariance == Spec => []IInv
  BY InitIInv, NextIInv, PTL DEF Spec

(* A backup reported verified is whole, and is what the journal was at one *)
(* moment of it (salesBackupService.ts, saveVerifiedBackup).               *)
THEOREM VerifiedBackupIsFaithful == Spec => []BackupIsFaithful
<1>1. IInv => BackupIsFaithful
  BY DEF IInv, OldInv, BackupInv, BackupIsFaithful
<1> QED
  BY <1>1, Invariance, PTL

(* The history an older version recorded heads the journal, from the first *)
(* sale on (roomOrderRepository.ts, migrateLegacyIndexedDb).               *)
THEOREM LegacyHistoryIsKept == Spec => []HistoryKept
<1>1. IInv => HistoryKept
  BY DEF IInv, NewInv
<1> QED
  BY <1>1, Invariance, PTL

(* The identity of another register is only adopted with its whole journal *)
(* in the database, the synchronization suspended and the marker standing  *)
(* (tabletReplacementService.ts, replaceFromArchive).                      *)
THEOREM OnlyTheRestoredIsAdopted == Spec => AdoptsWhatItRestored
<1>1. IInv /\ [Next]_vars =>
        [identity' \notin {identity, Own} =>
           /\ marker # None /\ marker.terminal = identity'
           /\ room.journal = marker.journal /\ room.restored]_vars
  <2> SUFFICES ASSUME IInv, Next, identity' \notin {identity, Own}
               PROVE  /\ marker # None /\ marker.terminal = identity'
                      /\ room.journal = marker.journal /\ room.restored
    OBVIOUS
  <2>1. AdoptRestoredIdentity
    BY DEF Next, UseOld, AskBackup, ExportArchive, SaveJson, NotSaved, CompareReread, StopOld,
       Launch, Stop, Restart, EnsureInitialized, Provision, UseNew, RestoreArchive,
       ReplaceFromArchive, Step, ReadTarget, PrepareSyncReplacement, SaveMarker, Restore,
       RereadTarget, ClearMarker, CallFails, newVars, storage
  <2>2. call.step = "adopt" /\ identity' = call.archive.terminal
    BY <2>1 DEF AdoptRestoredIdentity
  <2>3. marker = call.archive /\ room.journal = call.archive.journal
    BY <2>2 DEF IInv, NewInv, CallInv
  <2>4. marker # None
    BY <2>2, <2>3, CallTyped, NoneIsNoArchive DEF IInv
  <2> QED
    BY <2>2, <2>3, <2>4 DEF IInv, NewInv, StorageInv
<1> QED
  BY <1>1, Invariance, PTL DEF Spec, AdoptsWhatItRestored
=============================================================================
