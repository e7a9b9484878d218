--------------------------- MODULE PrintLifecycle ---------------------------
(***************************************************************************)
(* The tickets of one paid order: the screens that ask for them, the state *)
(* the store keeps of them, the USB job that writes them, the reading of    *)
(* the printer's status beside it, and a process that may stop anywhere.    *)
(*                                                                         *)
(* A print is an asynchronous call: it outlives the history dialog that    *)
(* started it, so two prints of one order may be in flight.                *)
(***************************************************************************)
EXTENDS OrderPrinting, Integers, FiniteSets, Sequences

CONSTANTS
  DocumentOrder,   \* the order in which a job writes its documents
  Prints,          \* the print calls that may be in flight together
  NoPrint,
  MaxDue,                \* bound: copies of one document asked for and not begun
  CheckoutDuringPrint   \* may the checkout take the order up again while a closed history still prints it?

ASSUME PrintsAssumption ==
  /\ NoPrint \notin Prints /\ IsFiniteSet(Prints)
  /\ CheckoutDuringPrint \in BOOLEAN
  /\ DocumentOrder \in Seq(Documents)
  /\ \A d \in Documents : \E n \in DOMAIN DocumentOrder : DocumentOrder[n] = d

VARIABLES
  stored,    \* the printing state of the order in the database
  listed,    \* the copy the register screen keeps for "Reprendre l'impression"
  screen,    \* the checkout and history dialogs
  print,     \* the print calls in flight
  whole,     \* the documents written to the end at least once
  due,       \* per document, the copies asked for of which no byte has left yet
  status     \* the reading of the printer's status and what is shown of it

vars == <<stored, listed, screen, print, whole, due, status>>

Screens == {"checkout", "history"}

Closed == [open |-> FALSE, copy |-> [d \in Documents |-> "not_requested"], task |-> NoPrint, picker |-> FALSE]
Opened(copy) == [open |-> TRUE, copy |-> copy, task |-> NoPrint, picker |-> DerivePrintStatus(copy) = "printed"]

Idle == [phase |-> "idle", sel |-> {}, tracked |-> FALSE, guarded |-> FALSE, left |-> {},
         done |-> {}, unk |-> {}, ok |-> FALSE]

Unread == [reading |-> FALSE, outdated |-> FALSE, seen |-> "stale",
           sentSince |-> FALSE,      \* was anything sent since the reading began?
           seenSent |-> FALSE]       \* ... since the one that is shown began?

(* The sale is recorded.  The checkout that recorded it prints it at once,  *)
(* as one that takes the order up after a restart does when it is asked to. *)
Init ==
  /\ stored \in InitialPrintings
  /\ listed = stored
  /\ screen = [s \in Screens |-> Closed]
  /\ print = [t \in Prints |-> Idle]
  /\ whole = {}
  /\ due = [d \in Documents |-> IF stored[d] = "pending" THEN 1 ELSE 0]
  /\ status = Unread

-----------------------------------------------------------------------------
(* The dialogs *)

AllClosed == \A s \in Screens : ~screen[s].open

OpenCheckout ==
  /\ AllClosed
  /\ DerivePrintStatus(listed) # "printed"
  /\ CheckoutDuringPrint \/ \A t \in Prints : print[t] = Idle
  /\ screen' = [screen EXCEPT !["checkout"] = Opened(listed)]
  /\ UNCHANGED <<stored, listed, print, whole, due, status>>

OpenHistory ==
  /\ AllClosed
  /\ screen' = [screen EXCEPT !["history"] = Opened(stored)]
  /\ UNCHANGED <<stored, listed, print, whole, due, status>>

(* The checkout cannot be left while it prints; the backdrop of the history *)
(* closes it whatever it is doing.                                          *)
Close(s) ==
  /\ screen[s].open
  /\ s = "checkout" => screen[s].task = NoPrint
  /\ screen' = [screen EXCEPT ![s] = Closed]
  /\ UNCHANGED <<stored, listed, print, whole, due, status>>

(* "Imprimer" finds nothing it may print by itself: the reprint buttons are *)
(* shown instead.                                                           *)
VerifyTickets ==
  LET copy == screen["checkout"].copy
  IN  /\ screen["checkout"].open /\ screen["checkout"].task = NoPrint
      /\ ~screen["checkout"].picker
      /\ DerivePrintStatus(copy) = "unknown" \/ RetryableDocuments(copy) = {}
      /\ screen' = [screen EXCEPT !["checkout"].picker = TRUE]
      /\ UNCHANGED <<stored, listed, print, whole, due, status>>

(* A job writes its documents in the order of the tickets, whatever the     *)
(* order they were asked in.                                                *)
First(documents) ==
  CHOOSE d \in documents :
    \A e \in documents :
      \E m, n \in DOMAIN DocumentOrder : m <= n /\ DocumentOrder[m] = d /\ DocumentOrder[n] = e

Tap(t, s, selection, documents, tracked, guarded) ==
  /\ screen[s].open /\ screen[s].task = NoPrint
  /\ print[t] = Idle
  /\ screen' = [screen EXCEPT ![s].task = t]
  /\ print' = [print EXCEPT ![t] =
       [Idle EXCEPT !.phase = "asked", !.sel = selection, !.tracked = tracked, !.guarded = guarded,
                    !.left = documents]]
  /\ UNCHANGED <<stored, listed, whole, status>>

(* The print a sale starts, and "Imprimer" on an order taken up again: the  *)
(* documents that are pending or failed in the copy the dialog holds.       *)
CheckoutAndPrint(t) ==
  LET copy == screen["checkout"].copy
      selection == RetryableDocuments(copy)
  IN  /\ ~screen["checkout"].picker
      /\ DerivePrintStatus(copy) # "unknown"
      /\ selection # {}
      /\ Tap(t, "checkout", selection, selection \cap RetryableDocuments(copy), TRUE, FALSE)
      /\ UNCHANGED due

(* A reprint is one more copy, unless it delivers one that is still due and *)
(* that no other call is printing.                                         *)
AskReprint(t, s, selection) ==
  LET copy == screen[s].copy
      inFlight == UNION {print[u].sel : u \in Prints}
      more == {d \in selection : d \notin RetryableDocuments(stored) \/ d \in inFlight}
  IN  /\ s = "checkout" => screen[s].picker
      /\ \A d \in more : due[d] < MaxDue
      /\ Tap(t, s, selection, selection, DerivePrintStatus(copy) # "printed", ProtectedReprint(copy, selection))
      /\ due' = [d \in Documents |-> IF d \in more THEN due[d] + 1 ELSE due[d]]

Reprint(t, s) ==
  \E selection \in {{d} : d \in Available(screen[s].copy)} \cup {Available(screen[s].copy)} :
    AskReprint(t, s, selection)

-----------------------------------------------------------------------------
(* The course of a print *)

(* The dialog that started print t, if it is still the same one. *)
Shows(t, s) == screen[s].task = t

Released(t) == [s \in Screens |-> IF Shows(t, s) THEN [screen[s] EXCEPT !.task = NoPrint] ELSE screen[s]]
WithCopy(dialogs, t, copy) ==
  [s \in Screens |-> IF Shows(t, s) THEN [dialogs[s] EXCEPT !.copy = copy] ELSE dialogs[s]]

(* Once print t is over, a copy is still due only of a document recorded as  *)
(* to be printed, or that another call is printing.                         *)
StillDue(t, printing) ==
  [d \in Documents |->
     IF d \in RetryableDocuments(printing) \/ \E u \in Prints \ {t} : d \in print[u].sel
     THEN due[d] ELSE 0]

Abandoned(t) ==
  /\ print' = [print EXCEPT ![t] = Idle]
  /\ screen' = Released(t)
  /\ due' = StillDue(t, stored)
  /\ UNCHANGED <<stored, listed, whole, status>>

(* A print in progress that the status reader must let through. *)
Pending(p) == {t \in Prints : p[t].phase \in {"waiting", "writing", "cutting"}}

(* Every change of the number of pending prints reaches the status reader: *)
(* what it shows is stale, and an answer on its way is not taken.           *)
NothingOutdated(s) == s   \* mistake: an overtaken answer is taken
Outdate(s) == [s EXCEPT !.outdated = s.reading, !.seen = "stale", !.seenSent = FALSE]
BytesSent(s) == [s EXCEPT !.sentSince = s.reading, !.seenSent = s.seen = "ready"]
Noticed == IF Pending(print') # Pending(print) /\ Pending(print') # {} THEN Outdate(status) ELSE status

(* One transaction of the store; its answer reaches the register screen,   *)
(* and the dialog by WithCopy.                                             *)
UpdateOrderPrinting(printing) == stored' = printing /\ listed' = printing

(* The documents become unknown in the store, then the job is built from   *)
(* the documents chosen in the copy the tap was made on.  An order printed  *)
(* already is not marked again.                                            *)
Begin(t) ==
  /\ print[t].phase = "asked"
  /\ IF print[t].tracked
     THEN /\ UpdateOrderPrinting(BeginPrinting(stored, print[t].sel))
          /\ screen' = WithCopy(screen, t, stored')
     ELSE UNCHANGED <<stored, listed, screen>>
  /\ print' = [print EXCEPT ![t].phase = "connecting"]
  /\ UNCHANGED <<whole, due, status>>

(* The responsible code is not given, or the state cannot be saved: nothing *)
(* is sent.                                                                 *)
GiveUp(t) ==
  /\ print[t].phase = "asked"
  /\ print[t].guarded \/ print[t].tracked
  /\ Abandoned(t)

(* No printer, no permission, receipt header not configured, responsible    *)
(* mode over.                                                              *)
Refuse(t) ==
  /\ print[t].phase = "connecting"
  /\ print' = [print EXCEPT ![t].phase = "answered"]
  /\ UNCHANGED <<stored, listed, screen, whole, due, status>>

TakePriority(t) ==
  /\ print[t].phase = "connecting"
  /\ print' = [print EXCEPT ![t].phase = "waiting"]
  /\ status' = Noticed
  /\ UNCHANGED <<stored, listed, screen, whole, due>>

AnsweredPrint(t, p) == [print EXCEPT ![t] = [p EXCEPT !.phase = "answered", !.left = {}]]

(* A rejected job tells which documents were written and which are uncertain. *)
RejectPrintJob(t, uncertain) == AnsweredPrint(t, [print[t] EXCEPT !.unk = uncertain])

(* The native job: one at a time, after the status reading under way. *)
WaitsForEveryPrint == Cardinality(Pending(print)) = 1   \* mistake: each waits for the others
PrinterFree == \A t \in Prints : print[t].phase \notin {"writing", "cutting"}

StartJob(t) ==
  /\ print[t].phase = "waiting"
  /\ ~status.reading
  /\ PrinterFree
  /\ \/ /\ print' = [print EXCEPT ![t].phase = "writing"]
        /\ UNCHANGED status
     \/ /\ print' = RejectPrintJob(t, {})          \* unplugged, not claimed, not ready
        /\ status' = Noticed
  /\ UNCHANGED <<stored, listed, screen, whole, due>>

(* What a bulk transfer reports: all bytes, some bytes, or none. *)
UsbWriteStatus == {"COMPLETE", "PARTIAL", "NO_BYTES_SENT"}

WriteDocument(t) ==
  LET d == First(print[t].left)
      written == [print[t] EXCEPT !.phase = "cutting", !.left = @ \ {d}, !.done = @ \cup {d}]
  IN  /\ print[t].phase = "writing"
      /\ \E transfer \in UsbWriteStatus :
           /\ print' = CASE transfer = "COMPLETE" -> [print EXCEPT ![t] = written]
                         [] transfer = "PARTIAL" -> RejectPrintJob(t, {d})
                         [] OTHER -> RejectPrintJob(t, {})
           /\ whole' = IF transfer = "COMPLETE" THEN whole \cup {d} ELSE whole
           /\ due' = IF transfer = "NO_BYTES_SENT" THEN due ELSE [due EXCEPT ![d] = @ - 1]
           /\ status' = IF transfer = "NO_BYTES_SENT" THEN Noticed ELSE BytesSent(Noticed)
      /\ UNCHANGED <<stored, listed, screen>>

(* Feed and cut, else a drawn separation; the job stops if that fails too. *)
Cut(t) ==
  /\ print[t].phase = "cutting"
  /\ \/ /\ print[t].left # {}
        /\ print' = [print EXCEPT ![t].phase = "writing"]
        /\ UNCHANGED status
     \/ /\ print[t].left = {}
        /\ print' = AnsweredPrint(t, [print[t] EXCEPT !.ok = TRUE])
        /\ status' = Noticed
     \/ /\ print' = RejectPrintJob(t, {})
        /\ status' = Noticed
  /\ UNCHANGED <<stored, listed, screen, whole, due>>

ShowPicker(dialogs, t) ==
  [s \in Screens |->
     IF Shows(t, s)
     THEN [dialogs[s] EXCEPT !.picker = @ \/ DerivePrintStatus(dialogs[s].copy) = "printed"]
     ELSE dialogs[s]]

Outcome(p) ==
  IF p.ok THEN CompletePrinting(stored, p.sel, p.done) ELSE FailPrinting(stored, p.sel, p.done, p.unk)

(* The outcome is saved and shown, and the dialog may print again. *)
Finish(t) ==
  /\ print[t].phase = "answered"
  /\ IF print[t].tracked
     THEN /\ UpdateOrderPrinting(Outcome(print[t]))
          /\ screen' = ShowPicker(WithCopy(Released(t), t, stored'), t)
     ELSE /\ screen' = Released(t)
          /\ UNCHANGED <<stored, listed>>
  /\ due' = StillDue(t, stored')
  /\ print' = [print EXCEPT ![t] = Idle]
  /\ UNCHANGED <<whole, status>>

(* The outcome cannot be saved: the documents stay unknown. *)
SaveFails(t) ==
  /\ print[t].phase = "answered" /\ print[t].tracked
  /\ Abandoned(t)

-----------------------------------------------------------------------------
(* The status of the printer *)

StartReading ==
  /\ ~status.reading
  /\ Pending(print) = {}
  /\ status' = [status EXCEPT !.reading = TRUE, !.outdated = FALSE, !.sentSince = FALSE]
  /\ UNCHANGED <<stored, listed, screen, print, whole, due>>

Unanswered(s) == [s EXCEPT !.reading = FALSE, !.outdated = FALSE, !.sentSince = FALSE]

(* An answer overtaken by a print, a new request or a hidden page is not    *)
(* taken.                                                                   *)
ReadingAnswers ==
  /\ status.reading
  /\ status' = IF status.outdated THEN Unanswered(status)
               ELSE [Unanswered(status) EXCEPT !.seen = "ready", !.seenSent = status.sentSince]
  /\ UNCHANGED <<stored, listed, screen, print, whole, due>>

(* 60 seconds, a refresh or a change of visibility. *)
Age ==
  /\ status.seen = "ready"
  /\ status' = Outdate(status)
  /\ UNCHANGED <<stored, listed, screen, print, whole, due>>

-----------------------------------------------------------------------------
(* The process stops, perhaps in the middle of a document, and starts again *)
Stop ==
  /\ listed' = stored
  /\ screen' = [s \in Screens |-> Closed]
  /\ print' = [t \in Prints |-> Idle]
  /\ status' = Unread
  /\ \E torn \in BOOLEAN :
       due' = [d \in Documents |->
         IF d \notin RetryableDocuments(stored) THEN 0
         ELSE IF torn /\ \E t \in Prints : print[t].phase = "writing" /\ First(print[t].left) = d
         THEN due[d] - 1 ELSE due[d]]
  /\ UNCHANGED <<stored, whole>>

Continue(t) ==
  \/ Begin(t) \/ GiveUp(t) \/ Refuse(t) \/ TakePriority(t) \/ StartJob(t)
  \/ WriteDocument(t) \/ Cut(t) \/ SaveFails(t) \/ Finish(t)

Next ==
  \/ OpenCheckout \/ OpenHistory \/ VerifyTickets
  \/ \E s \in Screens : Close(s)
  \/ \E t \in Prints : CheckoutAndPrint(t) \/ Continue(t)
  \/ \E t \in Prints, s \in Screens : Reprint(t, s)
  \/ StartReading \/ ReadingAnswers \/ Age
  \/ Stop

Spec == Init /\ [][Next]_vars

-----------------------------------------------------------------------------
(* Properties *)

(* Every variable keeps its type: a print in flight belongs to a dialog     *)
(* that asked for it, its documents are documents of the order.             *)
TypeOK ==
  /\ stored \in Printings /\ listed \in Printings
  /\ screen \in [Screens -> [open : BOOLEAN, copy : Printings, task : Prints \cup {NoPrint}, picker : BOOLEAN]]
  /\ \A t \in Prints :
       /\ print[t].phase \in {"idle", "asked", "connecting", "waiting", "writing", "cutting", "answered"}
       /\ print[t].sel \cup print[t].done \cup print[t].unk \subseteq Documents
       /\ print[t].phase = "writing" => print[t].left # {}
       /\ \A s \in Screens : screen[s].task = t => print[t].phase # "idle"
  /\ whole \subseteq Documents /\ due \in [Documents -> Int]
  /\ status.seen \in {"ready", "stale"}

(* No paper nobody asked for: a document never leaves the tablet more often *)
(* than it was asked for, whatever failed, was retried, ran side by side    *)
(* or was cut short by a stop; what may be on paper is never printed again  *)
(* by itself (orderService.ts:164, "A process termination after USB         *)
(* transfer must require checking the paper output").                       *)
NoUnaskedCopy == \A d \in Documents : due[d] >= 0

(* The record agrees with the paper: a document recorded as printed was     *)
(* written to the end at least once, and one recorded as pending or failed  *)
(* still misses a copy that was asked for (failPrinting, completePrinting). *)
RecordMatchesPaper ==
  \A d \in Documents :
    /\ stored[d] = "printed" => d \in whole
    /\ stored[d] \in {"pending", "failed"} => due[d] > 0

(* A printer shown as ready was read after everything sent to it so far:    *)
(* a reading overtaken by a print is not shown (usePrinterStatus.ts:72).    *)
ReadyIsRecent == status.seen = "ready" /\ Pending(print) = {} => ~status.seenSent

(* No print waits for ever behind another print or behind a reading of the  *)
(* status: as long as a call is in flight, one of the calls can go on       *)
(* (withPrintPriority waits for the reading, the native job for its turn).  *)
NobodyWaitsForEver ==
  (\E t \in Prints : print[t] # Idle) => ENABLED ReadingAnswers \/ \E t \in Prints : ENABLED Continue(t)

=============================================================================
