--------------------------- MODULE TabletReplacement ---------------------------
(***************************************************************************)
(* The backup of a register, and the tablet that replaces it.              *)
(*                                                                         *)
(* The old tablet sells, prints and saves backups: the journal is checked, *)
(* exported, written where the responsible chose, read again and compared, *)
(* and the register goes on selling meanwhile.  Once the old tablet is     *)
(* withdrawn, a technician runs the replacement on another tablet: its     *)
(* synchronization is suspended, a marker is saved, the archive restored   *)
(* in one transaction, the identity adopted, the marker cleared.  Room and *)
(* the local storage share no transaction, the tablet may stop between any *)
(* two steps, and a step may fail.  At each start the tablet also imports, *)
(* once, the history an older version of the application kept.             *)
(*                                                                         *)
(* The technician follows docs/tablet-replacement-and-backup.md: the old   *)
(* tablet is withdrawn first, an interrupted replacement is taken up again *)
(* with the same archive, and no register is set up meanwhile.             *)
(***************************************************************************)
EXTENDS Naturals, Sequences, SequencesExt

CONSTANTS MaxSales,    \* sales of a tablet of its own
          MaxFailures, \* calls that fail on the new tablet
          MaxStops     \* sudden stops of the new tablet

VARIABLES old,     \* the old tablet: its journal, and whether it is in use
          backup,  \* the backup under way: its step and the archive exported
          file,    \* the document on the medium
          since,   \* journals the old tablet had while the last backup was under way
          room,    \* the new tablet's database
          history, \* what an older version left on the new tablet
          identity, marker, \* its local storage
          process, \* its application: the screen, and the import of history
          call,    \* the replacement under way
          failures, stops

oldVars == <<old, backup, file, since>>
storage == <<room, identity, marker>>
newVars == <<storage, history, process, call>>
faults == <<failures, stops>>
vars == <<oldVars, newVars, faults>>

None == [none |-> TRUE]
NoIdentity == "none"
Own == "own"

Empty == [sales |-> <<>>, prints |-> 0]
\* An archive is sealed under the hash of all it holds.
Archive(terminal, journal) == [terminal |-> terminal, journal |-> journal, whole |-> TRUE]
Others ==
  {Archive("A", Empty), Archive("B", [sales |-> <<<<"B", 1>>>>, prints |-> 0])}
Archives == Others \cup (IF file = None THEN {} ELSE {file})

\* verifySalesArchive: nothing is missing of it, and nothing was changed.
Verified(archive) == archive.whole

NoCall == [step |-> "none"]
Stopped == [screen |-> "stopped", init |-> "pending"]

Init ==
  /\ old = [journal |-> Empty, used |-> TRUE]
  /\ backup = [step |-> "none"] /\ file = None /\ since = {}
  /\ history \in {<<>>, <<<<"H", 1>>>>}
  /\ room = [journal |-> Empty, restored |-> FALSE, migrated |-> FALSE]
  /\ identity \in {NoIdentity, Own} /\ marker = None
  /\ process = Stopped /\ call = NoCall
  /\ failures = 0 /\ stops = 0

(***************************************************************************)
(* The old tablet.                                                         *)
(***************************************************************************)
Sold(journal, tablet) ==
  [journal EXCEPT !.sales = Append(@, <<tablet, Len(@) + 1>>)]
Printed(journal) == [journal EXCEPT !.prints = 1 - @]

UnderWay == backup.step \in {"export", "write", "compare"}
NoBackup == backup' = [step |-> "none"] /\ since' = {}

UseOld ==
  /\ old.used
  /\ \/ Len(old.journal.sales) < MaxSales /\ old' = [old EXCEPT !.journal = Sold(@, "A")]
     \/ old.journal.sales # <<>> /\ old' = [old EXCEPT !.journal = Printed(@)]
  /\ since' = IF UnderWay THEN since \cup {old'.journal} ELSE since
  /\ UNCHANGED <<backup, file, newVars, faults>>

AskBackup ==
  /\ old.used /\ backup.step \in {"none", "verified"}
  /\ backup' = [step |-> "export"] /\ since' = {old.journal}
  /\ UNCHANGED <<old, file, newVars, faults>>

\* One snapshot is read, verified and sealed under its hash.
ExportArchive ==
  /\ backup.step = "export"
  /\ backup' = [step |-> "write", archive |-> Archive("A", old.journal)]
  /\ UNCHANGED <<old, file, since, newVars, faults>>

\* The document chosen is emptied and written.  A provider may fail half-way,
\* or answer before the medium has everything.
SaveJson ==
  /\ backup.step = "write"
  /\ file' \in {backup.archive, [backup.archive EXCEPT !.whole = FALSE]}
  /\ \/ backup' = [backup EXCEPT !.step = "compare"] /\ UNCHANGED since
     \/ NoBackup
  /\ UNCHANGED <<old, newVars, faults>>

\* The responsible cancels, or the document cannot be opened.
NotSaved ==
  /\ backup.step = "write"
  /\ NoBackup
  /\ UNCHANGED <<old, file, newVars, faults>>

\* mistake: the document read again is not compared with what was written
Written(reread) == TRUE
SameArchive(reread) == reread = backup.archive

CompareReread ==
  /\ backup.step = "compare"
  /\ \/ SameArchive(file) /\ backup' = [backup EXCEPT !.step = "verified"] /\ UNCHANGED since
     \/ NoBackup
  /\ UNCHANGED <<old, file, newVars, faults>>

\* The old tablet stops, or is withdrawn: whatever was under way is lost.
StopOld ==
  /\ old.used
  /\ NoBackup /\ old' \in {old, [old EXCEPT !.used = FALSE]}
  /\ UNCHANGED <<file, newVars, faults>>

(***************************************************************************)
(* The new tablet: starts and stops.                                       *)
(***************************************************************************)
Screen ==
  IF marker # None THEN "blocked"
  ELSE IF identity = NoIdentity THEN "configure" ELSE "selling"

\* The screen is chosen once, when the application starts.
Launch ==
  /\ process = Stopped
  /\ process' = [screen |-> Screen, init |-> "pending"]
  /\ UNCHANGED <<oldVars, storage, history, call, faults>>

Stop ==
  /\ process # Stopped /\ stops < MaxStops
  /\ process' = Stopped /\ call' = NoCall /\ stops' = stops + 1
  /\ UNCHANGED <<oldVars, storage, history, failures>>

\* The technician restarts an application that could not start, or whose
\* screen is no longer that of the register.
Restart ==
  /\ process # Stopped /\ call = NoCall
  /\ process.init = "failed" \/ process.screen # Screen
  /\ process' = Stopped
  /\ UNCHANGED <<oldVars, storage, history, call, faults>>

Fails == failures < MaxFailures /\ failures' = failures + 1

\* mistake: an older database that cannot be read is taken for an empty one
ReadOrEmpty(sales) == {sales, <<>>}
\* exportMigrationSnapshot: what reading the older database may give.
LegacySnapshot(sales) == {sales}

\* importLegacySnapshot: one transaction, refused when Room holds other entries.
ImportLegacySnapshot ==
  \E sales \in LegacySnapshot(history) :
    /\ room.journal.sales \in {<<>>, sales}
    /\ room' = [room EXCEPT !.journal.sales = sales, !.migrated = TRUE]

\* The first use of the database imports the history; a failure stands until
\* the application is restarted.
EnsureInitialized ==
  /\ process # Stopped /\ process.init = "pending"
  /\ \/ room.migrated /\ process' = [process EXCEPT !.init = "done"] /\ UNCHANGED <<room, failures>>
     \/ /\ ~room.migrated /\ ImportLegacySnapshot
        /\ \/ process' = [process EXCEPT !.init = "done"] /\ UNCHANGED failures
           \/ process' = [process EXCEPT !.init = "failed"] /\ Fails
     \/ ~room.migrated /\ process' = [process EXCEPT !.init = "failed"] /\ Fails /\ UNCHANGED room
  /\ UNCHANGED <<oldVars, identity, marker, history, call, stops>>

Ready == process.init = "done"

Provision ==
  /\ process.screen = "configure" /\ identity = NoIdentity
  /\ marker = None /\ call = NoCall
  /\ identity' = Own /\ process' = [process EXCEPT !.screen = "selling"]
  /\ UNCHANGED <<oldVars, room, marker, history, call, faults>>

UseNew ==
  /\ process.screen = "selling" /\ Ready
  /\ \/ /\ Len(room.journal.sales) <= MaxSales
        /\ room' = [room EXCEPT !.journal = Sold(@, "N")]
     \/ room.journal.sales # <<>> /\ room' = [room EXCEPT !.journal = Printed(@)]
  /\ UNCHANGED <<oldVars, identity, marker, history, process, call, faults>>

\* restoreSnapshot: an empty database only, and synchronization is suspended.
RestoreSnapshot(archive) ==
  /\ room.journal.sales = <<>>
  /\ room' = [room EXCEPT !.journal = archive.journal, !.restored = TRUE]

\* restoreArchive of a register already set up under the archive's identity.
RestoreArchive ==
  /\ process.screen = "selling" /\ Ready /\ ~old.used /\ call = NoCall
  /\ \E archive \in Archives :
       Verified(archive) /\ archive.terminal = identity /\ RestoreSnapshot(archive)
  /\ UNCHANGED <<oldVars, identity, marker, history, process, call, faults>>

(***************************************************************************)
(* The replacement.  What was read before an await is kept after it.       *)
(***************************************************************************)
Target(archive) ==
  IF room.journal = archive.journal THEN "matches"
  ELSE IF room.journal.sales = <<>> THEN "empty" ELSE "occupied"

Steps(step) == call' = [call EXCEPT !.step = step]
Ends == call' = NoCall

ReplaceFromArchive(archive) ==
  /\ process # Stopped /\ ~old.used /\ call = NoCall
  /\ Verified(archive)
  /\ marker \in {None, archive} /\ identity \in {NoIdentity, archive.terminal}
  /\ call' = [step |-> "target", archive |-> archive,
              current |-> identity, pending |-> marker # None]
  /\ UNCHANGED <<oldVars, storage, history, process, faults>>

\* mistake: a replacement already begun is taken for restored
Resumed(target) == IF call.pending THEN "adopt" ELSE "restore"
AfterSave(target) == IF target = "empty" THEN "restore" ELSE "adopt"

\* mistake: a register already replaced is always refused
NeverReplaced(target) == FALSE
AlreadyReplaced(target) == target = "matches"

ReadTarget ==
  /\ call.step = "target" /\ process.init # "pending"
  /\ LET target == Target(call.archive)
         refused == \/ ~Ready
                    \/ target = "occupied"
                    \/ target = "matches" /\ ~call.pending /\ call.archive.journal.sales # <<>>
     IN \/ /\ Ready /\ call.current # NoIdentity
           /\ marker' = IF AlreadyReplaced(target) THEN None ELSE marker
           /\ Ends
        \/ /\ ~Ready \/ call.current = NoIdentity
           /\ refused /\ Ends /\ UNCHANGED marker
        \/ /\ call.current = NoIdentity /\ ~refused
           /\ call' = [call EXCEPT !.step = IF call.pending THEN AfterSave(target) ELSE "prepare"]
           /\ UNCHANGED marker
  /\ UNCHANGED <<oldVars, room, identity, history, process, faults>>

\* The credentials are erased and synchronization suspended.
PrepareSyncReplacement ==
  /\ call.step = "prepare"
  /\ room' = [room EXCEPT !.restored = TRUE]
  /\ Steps("save")
  /\ UNCHANGED <<oldVars, identity, marker, history, process, faults>>

SaveMarker ==
  /\ call.step = "save"
  /\ marker' = call.archive
  /\ Steps(AfterSave(Target(call.archive)))
  /\ UNCHANGED <<oldVars, room, identity, history, process, faults>>

Restore ==
  /\ call.step = "restore"
  /\ RestoreSnapshot(call.archive) /\ Steps("reread")
  /\ UNCHANGED <<oldVars, identity, marker, history, process, faults>>

RereadTarget ==
  /\ call.step = "reread"
  /\ IF Target(call.archive) = "matches" THEN Steps("adopt") ELSE Ends
  /\ UNCHANGED <<oldVars, storage, history, process, faults>>

AdoptRestoredIdentity ==
  /\ call.step = "adopt"
  /\ IF identity \in {NoIdentity, call.archive.terminal}
     THEN identity' = call.archive.terminal /\ Steps("clear")
     ELSE Ends /\ UNCHANGED identity
  /\ UNCHANGED <<oldVars, room, marker, history, process, faults>>

ClearMarker ==
  /\ call.step = "clear"
  /\ marker' = None /\ Ends
  /\ UNCHANGED <<oldVars, room, identity, history, process, faults>>

\* A call of the replacement fails, before its effect or once it is done.
CallFails ==
  /\ call.step \in {"target", "prepare", "save", "restore", "reread", "adopt"}
  /\ Fails /\ Ends
  /\ UNCHANGED <<oldVars, storage, history, process, stops>>

Step ==
  \/ ReadTarget \/ PrepareSyncReplacement \/ SaveMarker \/ Restore \/ RereadTarget
  \/ AdoptRestoredIdentity \/ ClearMarker

\* The interrupted replacement is taken up with the archive it was begun with.
Retry == marker # None /\ ReplaceFromArchive(marker)

Next ==
  \/ UseOld \/ AskBackup \/ ExportArchive \/ SaveJson \/ NotSaved \/ CompareReread \/ StopOld
  \/ Launch \/ Stop \/ Restart \/ EnsureInitialized \/ Provision \/ UseNew \/ RestoreArchive
  \/ \E archive \in Archives : ReplaceFromArchive(archive)
  \/ Step \/ CallFails

\* The new tablet's own steps are taken, and the technician goes on with a
\* replacement once begun.
Fairness ==
  /\ WF_vars(Launch) /\ WF_vars(Restart) /\ WF_vars(EnsureInitialized)
  /\ WF_vars(Step) /\ WF_vars(Retry)

Spec == Init /\ [][Next]_vars /\ Fairness
-----------------------------------------------------------------------------
\* A backup reported verified is whole on its medium, and is the journal the
\* register had at one moment while it was made, whatever was sold and printed
\* meanwhile (salesBackupService.ts, saveVerifiedBackup).
BackupIsFaithful ==
  backup.step = "verified" => file.whole /\ file.journal \in since

\* A tablet takes the identity of another register only once it holds the whole
\* journal of the archive it was asked to restore and its synchronization is
\* suspended, whatever stopped or failed before (docs: the repository is
\* restored first, then the identity adopted).
AdoptsWhatItRestored ==
  [][identity' \notin {identity, Own} =>
       /\ marker # None /\ marker.terminal = identity'
       /\ room.journal = marker.journal /\ room.restored]_vars

\* What an older version of the application had recorded is never lost nor mixed
\* with a restored archive: from the first sale on it heads the journal
\* (roomOrderRepository.ts, migrateLegacyIndexedDb).
HistoryKept ==
  room.migrated \/ room.journal.sales # <<>> => IsPrefix(history, room.journal.sales)

\* An interrupted replacement can always be finished with the same archive
\* (docs: taking it up again is idempotent between Room and the local storage).
ReplacementEnds == marker # None ~> marker = None
=============================================================================
