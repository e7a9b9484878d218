------------------------ MODULE PrintLifecycleProofs ------------------------
(***************************************************************************)
(* The tickets of an order, for any documents and any number of prints in  *)
(* flight: what the record says, what left on paper and what was asked for.*)
(*                                                                         *)
(* CourseInv follows each call through its phases and says what the        *)
(* dialogs and the status reader know of them.  CopiesInv counts: a copy   *)
(* is due for each call that still has it to begin and one more for a      *)
(* document the record says is to be printed.                              *)
(***************************************************************************)
EXTENDS PrintLifecycle, FiniteSetTheorems, SequenceTheorems, WellFoundedInduction, TLAPS

Phases == {"idle", "asked", "connecting", "waiting", "writing", "cutting", "answered"}
Calls ==
  [phase : Phases, sel : SUBSET Documents, tracked : BOOLEAN, guarded : BOOLEAN,
   left : SUBSET Documents, done : SUBSET Documents, unk : SUBSET Documents, ok : BOOLEAN]
Dialogs == [open : BOOLEAN, copy : Printings, task : Prints \cup {NoPrint}, picker : BOOLEAN]
Readings ==
  [reading : BOOLEAN, outdated : BOOLEAN, seen : {"ready", "stale"}, sentSince : BOOLEAN,
   seenSent : BOOLEAN]

TypesOK ==
  /\ stored \in Printings /\ listed = stored
  /\ screen \in [Screens -> Dialogs] /\ print \in [Prints -> Calls]
  /\ whole \in SUBSET Documents /\ due \in [Documents -> Int]
  /\ status \in Readings

(* What a call has left to write, has written and does not know, at each   *)
(* of its phases; one that is not recorded is of an order wholly printed.  *)
CallPart(p) ==
  /\ p.phase = "idle" => p.sel = {}
  /\ p.phase # "idle" => p.sel # {}
  /\ p.done \cup p.unk \subseteq p.sel
  /\ p.phase \in {"idle", "asked", "connecting", "waiting"} => p.done = {}
  /\ p.phase # "answered" => p.left = p.sel \ p.done /\ p.unk = {}
  /\ p.phase = "writing" => p.left # {}
  /\ p.ok => p.phase = "answered" /\ p.sel \subseteq p.done
  /\ p.done \subseteq whole
  /\ p.phase # "idle" /\ ~p.tracked => \A d \in Documents : Settled(stored[d])

CallInv == \A t \in Prints : CallPart(print[t])

(* The copy a dialog holds may be old, never wrong about what is settled.  *)
DialogPart(x) ==
  /\ x.open => \A d \in Documents : Settled(x.copy[d]) => stored[d] = x.copy[d]
  /\ ~x.open => x.task = NoPrint
  /\ x.task # NoPrint => print[x.task].phase # "idle"

DialogInv ==
  /\ \A s \in Screens : DialogPart(screen[s])
  /\ screen["checkout"].open => ~screen["history"].open

PaperInv == \A d \in Documents : stored[d] = "printed" => d \in whole

(* Nothing is sent while a reading that will be taken is under way.        *)
StatusInv ==
  /\ Pending(print) # {} => status.seen = "stale" /\ (status.reading => status.outdated)
  /\ status.seen = "ready" => ~status.seenSent
  /\ status.reading /\ ~status.outdated => ~status.sentSince

CourseInv == TypesOK /\ CallInv /\ DialogInv /\ PaperInv /\ StatusInv

-----------------------------------------------------------------------------
(* The copies that are due, where a checkout does not take up an order     *)
(* that is being printed: it is then the only one to print, on a copy that *)
(* is up to date.                                                          *)
CheckoutInv ==
  screen["checkout"].open =>
    /\ screen["checkout"].copy = stored
    /\ \A t \in Prints : print[t].phase # "idle" => screen["checkout"].task = t

(* A copy is due for each call that has one left to begin, and one more of *)
(* a document to be printed that no call has just taken up.                *)
Owes(t, d) == d \in print[t].sel /\ d \notin print[t].done \cup print[t].unk
Owing(d) == {t \in Prints : Owes(t, d)}
Unclaimed(d) ==
  /\ stored[d] \in {"pending", "failed"}
  /\ \A t \in Prints : print[t].phase = "asked" => d \notin print[t].sel

DuePart(d) == due[d] >= Cardinality(Owing(d)) + (IF Unclaimed(d) THEN 1 ELSE 0)
DueInv == \A d \in Documents : DuePart(d)

CopiesInv == CheckoutInv /\ DueInv
-----------------------------------------------------------------------------
(* What the operators return.                                              *)

LEMMA PrintingTyped ==
  ASSUME NEW p \in Printings, NEW sel, NEW done, NEW unk
  PROVE  /\ BeginPrinting(p, sel) \in Printings
         /\ CompletePrinting(p, sel, done) \in Printings
         /\ FailPrinting(p, sel, done, unk) \in Printings
BY DEF BeginPrinting, CompletePrinting, FailPrinting, Printings, DocumentStates

(* What each change makes of one document.                                 *)
LEMMA BegunPart ==
  ASSUME NEW p \in Printings, NEW sel, NEW d \in Documents
  PROVE  BeginPrinting(p, sel)[d] = IF d \in sel /\ ~Settled(p[d]) THEN "unknown" ELSE p[d]
BY DEF BeginPrinting

LEMMA CompletedPart ==
  ASSUME NEW p \in Printings, NEW sel, NEW done, NEW d \in Documents
  PROVE  CompletePrinting(p, sel, done)[d] =
           IF d \in sel /\ ~Settled(p[d]) THEN IF d \in done THEN "printed" ELSE "failed" ELSE p[d]
BY DEF CompletePrinting

LEMMA FailedPart ==
  ASSUME NEW p \in Printings, NEW sel, NEW done, NEW unk, NEW d \in Documents
  PROVE  FailPrinting(p, sel, done, unk)[d] =
           IF d \in sel /\ ~Settled(p[d])
           THEN IF d \in done THEN "printed" ELSE IF d \in unk THEN "unknown" ELSE "failed"
           ELSE p[d]
BY DEF FailPrinting

(* An order is printed when nothing asked for is left.                     *)
LEMMA PrintedSettled ==
  ASSUME NEW p \in Printings, DerivePrintStatus(p) = "printed"
  PROVE  \A d \in Documents : Settled(p[d])
<1> SUFFICES ASSUME NEW d \in Documents, p[d] # "not_requested", p[d] # "printed"
             PROVE  FALSE
  BY DEF Settled
<1> DEFINE requested == {p[x] : x \in Documents} \ {"not_requested"}
<1>1. p[d] \in requested
  OBVIOUS
<1>2. ~(requested \subseteq {"printed"})
  BY <1>1
<1> HIDE DEF requested
<1>3. DerivePrintStatus(p) = IF "unknown" \in requested THEN "unknown"
                             ELSE IF "printed" \in requested THEN "partial"
                             ELSE IF "pending" \in requested THEN "pending" ELSE "failed"
  BY <1>2 DEF DerivePrintStatus, requested
<1> QED
  BY <1>3

(* A job has a first document among those it is left to write.             *)
LEMMA FirstIsLeft ==
  ASSUME NEW documents, documents \subseteq Documents, documents # {}
  PROVE  First(documents) \in documents
<1> DEFINE places == {n \in DOMAIN DocumentOrder : DocumentOrder[n] \in documents}
<1>1. DOMAIN DocumentOrder \subseteq Nat
  BY PrintsAssumption
<1>2. \A e \in documents : \E n \in places : DocumentOrder[n] = e
  BY PrintsAssumption
<1>3. places \subseteq Nat /\ places # {}
  BY <1>1, <1>2
<1>4. PICK m \in places : \A n \in places : ~(<<n, m>> \in OpToRel(<, Nat))
  BY <1>3, WFMin, NatLessThanWellFounded
<1>5. \A n \in places : m <= n
  <2> SUFFICES ASSUME NEW n \in places
               PROVE  m <= n
    OBVIOUS
  <2>1. m \in Nat /\ n \in Nat
    BY <1>3
  <2>2. ~(n < m)
    BY <1>4, <2>1 DEF OpToRel
  <2> QED
    BY <2>1, <2>2
<1>6. DocumentOrder[m] \in documents
  OBVIOUS
<1>7. \A e \in documents :
        \E k, n \in DOMAIN DocumentOrder :
          k <= n /\ DocumentOrder[k] = DocumentOrder[m] /\ DocumentOrder[n] = e
  BY <1>2, <1>5
<1> QED
  BY <1>6, <1>7 DEF First
-----------------------------------------------------------------------------
(* What a step leaves of the calls, of the dialogs and of the reading.     *)

(* What is settled stays so.                                               *)
Settles ==
  /\ stored' \in Printings /\ listed' = stored'
  /\ \A d \in Documents : Settled(stored[d]) => stored'[d] = stored[d]
  /\ \A d \in Documents : stored'[d] = "printed" => d \in whole'

CallOnly(t) == print' = [print EXCEPT ![t] = print'[t]] /\ print'[t] \in Calls

DialogMove(t, s) ==
  /\ screen'[s] \in Dialogs
  /\ \/ screen[s].task # t /\ screen'[s] = screen[s]
     \/ /\ screen[s].task = t /\ screen'[s].open = screen[s].open
        /\ screen'[s].copy = stored' \/ (screen'[s].copy = screen[s].copy /\ stored' = stored)
        /\ \/ screen'[s].task = t /\ print'[t].phase # "idle"
           \/ screen'[s].task = NoPrint /\ print'[t].phase = "idle"

LEMMA CallTyped ==
  ASSUME TypesOK, NEW t \in Prints
  PROVE  print[t] \in Calls
BY DEF TypesOK

LEMMA SameRecord ==
  ASSUME TypesOK, PaperInv, UNCHANGED <<stored, listed>>, whole \subseteq whole'
  PROVE  Settles
BY DEF TypesOK, PaperInv, Settles

LEMMA CallsKept ==
  ASSUME TypesOK, CallInv, NEW t \in Prints, CallOnly(t), Settles, whole \subseteq whole',
         CallPart(print[t])'
  PROVE  CallInv'
<1> SUFFICES ASSUME NEW u \in Prints, u # t
             PROVE  CallPart(print[u])'
  BY DEF CallInv
<1>1. print'[u] = print[u] /\ CallPart(print[u])
  BY DEF CallOnly, TypesOK, CallInv
<1> QED
  BY <1>1 DEF CallPart, Settles

LEMMA DialogsKept ==
  ASSUME TypesOK, DialogInv, NEW t \in Prints, CallOnly(t), Settles,
         screen' = [s \in Screens |-> screen'[s]], \A s \in Screens : DialogMove(t, s)
  PROVE  DialogInv' /\ screen' \in [Screens -> Dialogs]
<1>1. screen' \in [Screens -> Dialogs]
  BY DEF DialogMove
<1>2. ASSUME NEW s \in Screens
      PROVE  DialogPart(screen[s])'
  <2>1. /\ DialogPart(screen[s]) /\ screen[s] \in Dialogs /\ NoPrint \notin Prints
        /\ \A u \in Prints : u # t => print'[u] = print[u]
    BY PrintsAssumption DEF DialogInv, TypesOK, CallOnly
  <2>2. CASE screen[s].task # t /\ screen'[s] = screen[s]
    BY <2>1, <2>2 DEF DialogPart, Settles, Dialogs
  <2>3. CASE screen[s].task = t
    BY <2>1, <2>3 DEF DialogPart, Settles, DialogMove
  <2> QED
    BY <2>2, <2>3 DEF DialogMove
<1>3. \A s \in Screens : screen'[s].open = screen[s].open
  BY DEF DialogMove
<1> QED
  BY <1>1, <1>2, <1>3 DEF DialogInv, Screens

LEMMA CheckoutKept ==
  ASSUME TypesOK, DialogInv, CheckoutInv, NEW t \in Prints, CallOnly(t), print[t].phase # "idle",
         \A s \in Screens : DialogMove(t, s)
  PROVE  CheckoutInv'
<1> SUFFICES ASSUME screen'["checkout"].open
             PROVE  /\ screen'["checkout"].copy = stored'
                    /\ \A u \in Prints : print'[u].phase # "idle" => screen'["checkout"].task = u
  BY DEF CheckoutInv
<1>1. "checkout" \in Screens /\ \A u \in Prints : u # t => print'[u] = print[u]
  BY DEF Screens, CallOnly, TypesOK
<1>2. screen["checkout"].open
  BY <1>1 DEF DialogMove
<1>3. /\ screen["checkout"].copy = stored /\ screen["checkout"].task = t
      /\ \A u \in Prints : print[u].phase # "idle" => u = t
  BY <1>2 DEF CheckoutInv
<1> QED
  BY <1>1, <1>3 DEF DialogMove

(* The reading of the status.                                              *)
LEMMA PendingCalls ==
  ASSUME NEW t \in Prints
  PROVE  t \in Pending(print) <=> print[t].phase \in {"waiting", "writing", "cutting"}
BY DEF Pending

LEMMA OutdateTyped ==
  ASSUME NEW s \in Readings
  PROVE  /\ Outdate(s) \in Readings /\ Outdate(s).seen = "stale"
         /\ Outdate(s).reading = s.reading /\ Outdate(s).outdated = s.reading
         /\ BytesSent(s) \in Readings /\ BytesSent(s).seen = s.seen
         /\ BytesSent(s).reading = s.reading /\ BytesSent(s).outdated = s.outdated
         /\ BytesSent(s).seenSent <=> s.seen = "ready"
BY DEF Outdate, BytesSent, Readings

LEMMA NoticedStatus ==
  ASSUME status \in Readings, StatusInv, status' = Noticed
  PROVE  status' \in Readings /\ StatusInv'
<1>1. CASE status' = Outdate(status)
  BY <1>1, OutdateTyped DEF StatusInv
<1>2. CASE status' = status /\ (Pending(print') = Pending(print) \/ Pending(print') = {})
  BY <1>2 DEF StatusInv
<1> QED
  BY <1>1, <1>2 DEF Noticed

LEMMA SentStatus ==
  ASSUME status \in Readings, StatusInv, Pending(print) # {}, status' = BytesSent(Noticed)
  PROVE  status' \in Readings /\ StatusInv'
<1>1. PICK x \in Readings : x = Noticed /\ x \in {status, Outdate(status)}
  BY OutdateTyped DEF Noticed
<1>2. x.seen = "stale" /\ (x.reading => x.outdated)
  BY <1>1, OutdateTyped DEF StatusInv
<1>3. /\ status' \in Readings /\ status'.seen = "stale" /\ ~status'.seenSent
      /\ status'.reading => status'.outdated
  BY <1>1, <1>2, OutdateTyped
<1> QED
  BY <1>3 DEF StatusInv

LEMMA SameStatus ==
  ASSUME StatusInv, UNCHANGED status, Pending(print') \subseteq Pending(print)
  PROVE  StatusInv'
BY DEF StatusInv

LEMMA PaperKept == Settles => PaperInv'
BY DEF Settles, PaperInv

Course(t) ==
  /\ CallOnly(t) /\ Settles /\ whole \subseteq whole'
  /\ screen' = [s \in Screens |-> screen'[s]] /\ \A s \in Screens : DialogMove(t, s)

LEMMA CourseStep ==
  ASSUME CourseInv, NEW t \in Prints, Course(t), CallPart(print[t])',
         due' \in [Documents -> Int], whole' \in SUBSET Documents, status' \in Readings, StatusInv'
  PROVE  CourseInv'
<1>1. TypesOK /\ CallInv /\ DialogInv
  BY DEF CourseInv
<1>2. CallInv' /\ DialogInv' /\ PaperInv' /\ screen' \in [Screens -> Dialogs]
  BY <1>1, CallsKept, DialogsKept, PaperKept DEF Course
<1>3. TypesOK'
  BY <1>1, <1>2 DEF TypesOK, Course, CallOnly, Settles
<1> QED
  BY <1>2, <1>3 DEF CourseInv

(* The screens: left as they are, freed by the print that ends, or shown   *)
(* the order as it is stored now.                                          *)
LEMMA ScreensSame ==
  ASSUME TypesOK, NEW t \in Prints, UNCHANGED <<stored, screen>>, print'[t].phase # "idle"
  PROVE  screen' = [s \in Screens |-> screen'[s]] /\ \A s \in Screens : DialogMove(t, s)
<1>1. \A s \in Screens : screen[s] \in Dialogs /\ screen'[s] = screen[s]
  BY DEF TypesOK
<1> QED
  BY <1>1 DEF TypesOK, DialogMove

LEMMA ReleasedDialog ==
  ASSUME TypesOK, NEW t \in Prints, NEW s \in Screens
  PROVE  /\ screen[s].task # t => Released(t)[s] = screen[s]
         /\ screen[s].task = t => Released(t)[s] = [screen[s] EXCEPT !.task = NoPrint]
BY DEF Released, Shows

LEMMA ScreensReleased ==
  ASSUME TypesOK, NEW t \in Prints, UNCHANGED stored, screen' = Released(t),
         print'[t].phase = "idle"
  PROVE  screen' = [s \in Screens |-> screen'[s]] /\ \A s \in Screens : DialogMove(t, s)
<1>1. ASSUME NEW s \in Screens
      PROVE  DialogMove(t, s)
  <2>1. screen[s] \in Dialogs
    BY DEF TypesOK
  <2>2. CASE screen[s].task # t
    BY <2>1, <2>2, ReleasedDialog DEF DialogMove
  <2>3. CASE screen[s].task = t
    <3>1. screen'[s] = [screen[s] EXCEPT !.task = NoPrint]
      BY <2>3, ReleasedDialog
    <3>2. /\ screen'[s] \in Dialogs /\ screen'[s].open = screen[s].open
          /\ screen'[s].copy = screen[s].copy /\ screen'[s].task = NoPrint
      BY <2>1, <3>1 DEF Dialogs
    <3> QED
      BY <2>3, <3>2 DEF DialogMove
  <2> QED
    BY <2>2, <2>3
<1>2. screen' = [s \in Screens |-> screen'[s]]
  BY DEF Released
<1> QED
  BY <1>1, <1>2

LEMMA ScreensCopied ==
  ASSUME TypesOK, NEW t \in Prints, stored' \in Printings, screen' = WithCopy(screen, t, stored'),
         print'[t].phase # "idle"
  PROVE  screen' = [s \in Screens |-> screen'[s]] /\ \A s \in Screens : DialogMove(t, s)
<1>1. ASSUME NEW s \in Screens
      PROVE  DialogMove(t, s)
  <2>1. screen[s] \in Dialogs
    BY DEF TypesOK
  <2>2. screen'[s] = IF screen[s].task = t THEN [screen[s] EXCEPT !.copy = stored'] ELSE screen[s]
    BY DEF WithCopy, Shows
  <2>3. CASE screen[s].task # t
    BY <2>1, <2>2, <2>3 DEF DialogMove
  <2>4. CASE screen[s].task = t
    <3>1. /\ screen'[s] \in Dialogs /\ screen'[s].open = screen[s].open
          /\ screen'[s].copy = stored' /\ screen'[s].task = t
      BY <2>1, <2>2, <2>4 DEF Dialogs
    <3> QED
      BY <2>4, <3>1 DEF DialogMove
  <2> QED
    BY <2>3, <2>4
<1>2. screen' = [s \in Screens |-> screen'[s]]
  BY DEF WithCopy
<1> QED
  BY <1>1, <1>2

LEMMA ScreensEnded ==
  ASSUME TypesOK, NEW t \in Prints, stored' \in Printings,
         screen' = ShowPicker(WithCopy(Released(t), t, stored'), t), print'[t].phase = "idle"
  PROVE  screen' = [s \in Screens |-> screen'[s]] /\ \A s \in Screens : DialogMove(t, s)
<1>1. ASSUME NEW s \in Screens
      PROVE  DialogMove(t, s)
  <2>1. screen[s] \in Dialogs
    BY DEF TypesOK
  <2> DEFINE copied == WithCopy(Released(t), t, stored')
  <2>2. copied[s] = IF screen[s].task = t THEN [Released(t)[s] EXCEPT !.copy = stored']
                    ELSE Released(t)[s]
    BY DEF WithCopy, Shows
  <2>3. screen'[s] = IF screen[s].task = t
                     THEN [copied[s] EXCEPT
                             !.picker = @ \/ DerivePrintStatus(copied[s].copy) = "printed"]
                     ELSE copied[s]
    BY DEF ShowPicker, Shows
  <2> HIDE DEF copied
  <2>4. CASE screen[s].task # t
    BY <2>1, <2>2, <2>3, <2>4, ReleasedDialog DEF DialogMove
  <2>5. CASE screen[s].task = t
    <3>1. /\ copied[s] \in Dialogs /\ copied[s].open = screen[s].open
          /\ copied[s].copy = stored' /\ copied[s].task = NoPrint
      <4>1. Released(t)[s] = [screen[s] EXCEPT !.task = NoPrint]
        BY <2>5, ReleasedDialog
      <4>2. /\ Released(t)[s] \in Dialogs /\ Released(t)[s].open = screen[s].open
            /\ Released(t)[s].task = NoPrint
        BY <2>1, <4>1 DEF Dialogs
      <4>3. copied[s] = [Released(t)[s] EXCEPT !.copy = stored']
        BY <2>2, <2>5
      <4> QED
        BY <4>2, <4>3 DEF Dialogs
    <3>2. /\ screen'[s] \in Dialogs /\ screen'[s].open = screen[s].open
          /\ screen'[s].copy = stored' /\ screen'[s].task = NoPrint
      BY <2>3, <2>5, <3>1 DEF Dialogs
    <3> QED
      BY <2>5, <3>2 DEF DialogMove
  <2> QED
    BY <2>4, <2>5
<1>2. screen' = [s \in Screens |-> screen'[s]]
  BY DEF ShowPicker
<1> QED
  BY <1>1, <1>2

(* What the end of a call leaves due.                                      *)
LEMMA StillDueIs ==
  ASSUME NEW t \in Prints, NEW printing, due \in [Documents -> Int]
  PROVE  /\ StillDue(t, printing) \in [Documents -> Int]
         /\ \A d \in Documents :
              StillDue(t, printing)[d] =
                IF printing[d] \in {"pending", "failed"} \/ \E u \in Prints \ {t} : d \in print[u].sel
                THEN due[d] ELSE 0
BY DEF StillDue, RetryableDocuments

LEMMA IdleCall ==
  /\ Idle \in Calls /\ CallPart(Idle) /\ Idle.phase = "idle" /\ Idle.sel = {}
BY DEF Idle, Calls, CallPart, Phases

LEMMA AbandonedCourse ==
  ASSUME CourseInv, NEW t \in Prints, Abandoned(t)
  PROVE  /\ Course(t) /\ UNCHANGED <<stored, listed, whole, status>> /\ print'[t] = Idle
         /\ due' = StillDue(t, stored) /\ CourseInv'
<1>1. /\ TypesOK /\ PaperInv /\ StatusInv /\ UNCHANGED <<stored, listed, whole, status>>
      /\ print' = [print EXCEPT ![t] = Idle] /\ screen' = Released(t)
      /\ due' = StillDue(t, stored) /\ whole \in SUBSET Documents /\ status \in Readings
  BY DEF CourseInv, Abandoned, TypesOK
<1>2. print'[t] = Idle /\ CallOnly(t)
  BY <1>1, IdleCall DEF TypesOK, CallOnly
<1>3. Settles
  BY <1>1, SameRecord
<1>4. Course(t)
  BY <1>1, <1>2, <1>3, IdleCall, ScreensReleased DEF Course
<1>5. Pending(print') \subseteq Pending(print)
  BY <1>1, IdleCall DEF Pending, TypesOK
<1>6. StatusInv'
  BY <1>1, <1>5, SameStatus
<1>7. due' \in [Documents -> Int]
  BY <1>1, StillDueIs DEF TypesOK
<1>8. CallPart(print[t])'
  BY <1>2 DEF CallPart, Idle
<1> QED
  BY <1>1, <1>2, <1>4, <1>6, <1>7, <1>8, CourseStep
-----------------------------------------------------------------------------
(* The course of a call, step by step.                                     *)

LEMMA BeginStep ==
  ASSUME CourseInv, NEW t \in Prints, Begin(t)
  PROVE  /\ Course(t) /\ CourseInv' /\ UNCHANGED due
         /\ print[t].phase = "asked" /\ print'[t].phase = "connecting"
         /\ print'[t].sel = print[t].sel /\ print'[t].done = print[t].done
         /\ print'[t].unk = print[t].unk
         /\ \A d \in Documents :
              \/ stored'[d] = stored[d] /\ (d \in print[t].sel => Settled(stored[d]))
              \/ stored'[d] = "unknown"
<1>1. /\ TypesOK /\ PaperInv /\ StatusInv /\ UNCHANGED <<whole, due, status>>
      /\ print' = [print EXCEPT ![t].phase = "connecting"] /\ print[t].phase = "asked"
      /\ whole \in SUBSET Documents /\ status \in Readings /\ due \in [Documents -> Int]
      /\ print[t] \in Calls /\ CallPart(print[t])
  BY DEF CourseInv, Begin, TypesOK, CallInv
<1>2. print'[t] = [print[t] EXCEPT !.phase = "connecting"]
  BY <1>1 DEF TypesOK
<1>3. /\ print'[t] \in Calls /\ print'[t].phase = "connecting" /\ print'[t].sel = print[t].sel
      /\ print'[t].done = print[t].done /\ print'[t].unk = print[t].unk
      /\ print'[t].left = print[t].left /\ print'[t].tracked = print[t].tracked
      /\ print'[t].ok = print[t].ok
  BY <1>1, <1>2 DEF Calls, Phases
<1>4. CallOnly(t)
  BY <1>1, <1>2, <1>3 DEF CallOnly, TypesOK
<1>5. /\ Settles
      /\ \A d \in Documents :
           \/ stored'[d] = stored[d] /\ (d \in print[t].sel => Settled(stored[d]))
           \/ stored'[d] = "unknown"
  <2>1. CASE print[t].tracked
    <3>1. stored' = BeginPrinting(stored, print[t].sel) /\ listed' = stored'
      BY <1>1, <2>1 DEF Begin, UpdateOrderPrinting
    <3>2. stored \in Printings /\ stored' \in Printings
      BY <1>1, <3>1, PrintingTyped DEF TypesOK
    <3>3. \A d \in Documents :
            stored'[d] = IF d \in print[t].sel /\ ~Settled(stored[d]) THEN "unknown" ELSE stored[d]
      BY <3>1, <3>2, BegunPart
    <3> QED
      BY <1>1, <3>1, <3>2, <3>3 DEF Settles, PaperInv
  <2>2. CASE ~print[t].tracked
    <3>1. UNCHANGED <<stored, listed>>
      BY <1>1, <2>2 DEF Begin
    <3>2. \A d \in Documents : Settled(stored[d])
      BY <1>1, <2>2 DEF CallPart
    <3> QED
      BY <1>1, <3>1, <3>2, SameRecord
  <2> QED
    BY <2>1, <2>2
<1>6. screen' = [s \in Screens |-> screen'[s]] /\ \A s \in Screens : DialogMove(t, s)
  <2>1. CASE print[t].tracked
    BY <1>1, <1>3, <1>5, <2>1, ScreensCopied DEF Begin, Settles
  <2>2. CASE ~print[t].tracked
    BY <1>1, <1>3, <2>2, ScreensSame DEF Begin
  <2> QED
    BY <2>1, <2>2
<1>7. Course(t)
  BY <1>1, <1>4, <1>5, <1>6 DEF Course
<1>8. CallPart(print[t])'
  BY <1>1, <1>3, <1>5 DEF CallPart, Settles
<1>9. Pending(print') \subseteq Pending(print)
  BY <1>1, <1>3 DEF Pending, TypesOK
<1>10. StatusInv'
  BY <1>1, <1>9, SameStatus
<1> QED
  BY <1>1, <1>3, <1>5, <1>7, <1>8, <1>10, CourseStep

(* A step of a call that does not change the record nor end the call.      *)
LEMMA PhaseStep ==
  ASSUME CourseInv, NEW t \in Prints, CallOnly(t), print'[t].phase # "idle",
         UNCHANGED <<stored, listed, screen>>, whole \subseteq whole', whole' \in SUBSET Documents,
         CallPart(print[t])', due' \in [Documents -> Int], status' \in Readings, StatusInv'
  PROVE  Course(t) /\ CourseInv'
<1>1. TypesOK /\ PaperInv
  BY DEF CourseInv
<1>2. Course(t)
  BY <1>1, SameRecord, ScreensSame DEF Course
<1> QED
  BY <1>2, CourseStep

LEMMA WaitStep ==
  ASSUME CourseInv, NEW t \in Prints, Refuse(t) \/ TakePriority(t)
  PROVE  /\ Course(t) /\ CourseInv' /\ UNCHANGED <<due, stored>>
         /\ print[t].phase \notin {"idle", "asked"} /\ print'[t].phase \notin {"idle", "asked"}
         /\ print'[t].sel = print[t].sel /\ print'[t].done = print[t].done
         /\ print'[t].unk = print[t].unk
<1>1. /\ TypesOK /\ StatusInv /\ UNCHANGED <<stored, listed, screen, whole, due>>
      /\ print[t].phase = "connecting" /\ print[t] \in Calls /\ CallPart(print[t])
      /\ whole \in SUBSET Documents /\ status \in Readings /\ due \in [Documents -> Int]
  BY DEF CourseInv, Refuse, TakePriority, TypesOK, CallInv
<1>2. PICK ph \in {"answered", "waiting"} :
        /\ print' = [print EXCEPT ![t].phase = ph]
        /\ ph = "answered" => UNCHANGED status
        /\ ph = "waiting" => status' = Noticed
  BY DEF Refuse, TakePriority
<1>3. print'[t] = [print[t] EXCEPT !.phase = ph]
  BY <1>1, <1>2 DEF TypesOK
<1>4. /\ print'[t] \in Calls /\ print'[t].phase = ph /\ print'[t].sel = print[t].sel
      /\ print'[t].done = print[t].done /\ print'[t].unk = print[t].unk
      /\ print'[t].left = print[t].left /\ print'[t].tracked = print[t].tracked
      /\ print'[t].ok = print[t].ok
  BY <1>1, <1>3 DEF Calls, Phases
<1>5. CallOnly(t)
  BY <1>1, <1>2, <1>3, <1>4 DEF CallOnly, TypesOK
<1>6. ~print[t].ok
  BY <1>1 DEF CallPart
<1>7. CallPart(print[t])'
  BY <1>1, <1>4, <1>6 DEF CallPart
<1>8. status' \in Readings /\ StatusInv'
  <2>1. CASE ph = "answered"
    <3>1. Pending(print') \subseteq Pending(print)
      BY <1>1, <1>2, <1>4, <2>1 DEF Pending, TypesOK
    <3> QED
      BY <1>1, <1>2, <2>1, <3>1, SameStatus
  <2>2. CASE ph = "waiting"
    BY <1>1, <1>2, <2>2, NoticedStatus
  <2> QED
    BY <2>1, <2>2
<1> QED
  BY <1>1, <1>4, <1>5, <1>7, <1>8, PhaseStep

LEMMA StartJobStep ==
  ASSUME CourseInv, NEW t \in Prints, StartJob(t)
  PROVE  /\ Course(t) /\ CourseInv' /\ UNCHANGED <<due, stored>>
         /\ print[t].phase \notin {"idle", "asked"} /\ print'[t].phase \notin {"idle", "asked"}
         /\ print'[t].sel = print[t].sel /\ print'[t].done = print[t].done
         /\ print'[t].unk = print[t].unk
<1>1. /\ TypesOK /\ StatusInv /\ UNCHANGED <<stored, listed, screen, whole, due>>
      /\ print[t].phase = "waiting" /\ print[t] \in Calls /\ CallPart(print[t])
      /\ whole \in SUBSET Documents /\ status \in Readings /\ due \in [Documents -> Int]
  BY DEF CourseInv, StartJob, TypesOK, CallInv
<1>2. CASE print' = [print EXCEPT ![t].phase = "writing"] /\ UNCHANGED status
  <2>1. print'[t] = [print[t] EXCEPT !.phase = "writing"]
    BY <1>1, <1>2 DEF TypesOK
  <2>2. /\ print'[t] \in Calls /\ print'[t].phase = "writing" /\ print'[t].sel = print[t].sel
        /\ print'[t].done = print[t].done /\ print'[t].unk = print[t].unk
        /\ print'[t].left = print[t].left /\ print'[t].tracked = print[t].tracked
        /\ print'[t].ok = print[t].ok
    BY <1>1, <2>1 DEF Calls, Phases
  <2>3. CallOnly(t)
    BY <1>1, <1>2, <2>1, <2>2 DEF CallOnly, TypesOK
  <2>4. CallPart(print[t])'
    BY <1>1, <2>2 DEF CallPart
  <2>5. Pending(print') \subseteq Pending(print)
    BY <1>1, <1>2, <2>2 DEF Pending, TypesOK
  <2> QED
    BY <1>1, <1>2, <2>2, <2>3, <2>4, <2>5, SameStatus, PhaseStep
<1>3. CASE print' = RejectPrintJob(t, {}) /\ status' = Noticed
  <2>1. print' = [print EXCEPT ![t] = [print[t] EXCEPT !.unk = {}, !.phase = "answered", !.left = {}]]
    BY <1>3 DEF RejectPrintJob, AnsweredPrint
  <2>2. print'[t] = [print[t] EXCEPT !.unk = {}, !.phase = "answered", !.left = {}]
    BY <1>1, <2>1 DEF TypesOK
  <2>3. /\ print'[t] \in Calls /\ print'[t].phase = "answered" /\ print'[t].sel = print[t].sel
        /\ print'[t].done = print[t].done /\ print'[t].unk = {}
        /\ print'[t].left = {} /\ print'[t].tracked = print[t].tracked
        /\ print'[t].ok = print[t].ok
    BY <1>1, <2>2 DEF Calls, Phases
  <2>4. CallOnly(t) /\ print[t].unk = {}
    BY <1>1, <2>1, <2>2, <2>3 DEF CallOnly, TypesOK, CallPart
  <2>5. CallPart(print[t])'
    BY <1>1, <2>3 DEF CallPart
  <2> QED
    BY <1>1, <1>3, <2>3, <2>4, <2>5, NoticedStatus, PhaseStep
<1> QED
  BY <1>2, <1>3 DEF StartJob

LEMMA CutStep ==
  ASSUME CourseInv, NEW t \in Prints, Cut(t)
  PROVE  /\ Course(t) /\ CourseInv' /\ UNCHANGED <<due, stored>>
         /\ print[t].phase \notin {"idle", "asked"} /\ print'[t].phase \notin {"idle", "asked"}
         /\ print'[t].sel = print[t].sel /\ print'[t].done = print[t].done
         /\ print'[t].unk = print[t].unk
<1>1. /\ TypesOK /\ StatusInv /\ UNCHANGED <<stored, listed, screen, whole, due>>
      /\ print[t].phase = "cutting" /\ print[t] \in Calls /\ CallPart(print[t])
      /\ whole \in SUBSET Documents /\ status \in Readings /\ due \in [Documents -> Int]
      /\ print[t].unk = {}
  BY DEF CourseInv, Cut, TypesOK, CallInv, CallPart
<1>2. CASE /\ print[t].left # {} /\ print' = [print EXCEPT ![t].phase = "writing"]
           /\ UNCHANGED status
  <2>1. print'[t] = [print[t] EXCEPT !.phase = "writing"]
    BY <1>1, <1>2 DEF TypesOK
  <2>2. /\ print'[t] \in Calls /\ print'[t].phase = "writing" /\ print'[t].sel = print[t].sel
        /\ print'[t].done = print[t].done /\ print'[t].unk = print[t].unk
        /\ print'[t].left = print[t].left /\ print'[t].tracked = print[t].tracked
        /\ print'[t].ok = print[t].ok
    BY <1>1, <2>1 DEF Calls, Phases
  <2>3. CallOnly(t)
    BY <1>1, <1>2, <2>1, <2>2 DEF CallOnly, TypesOK
  <2>4. CallPart(print[t])'
    BY <1>1, <1>2, <2>2 DEF CallPart
  <2>5. Pending(print') \subseteq Pending(print)
    BY <1>1, <1>2, <2>2 DEF Pending, TypesOK
  <2> QED
    BY <1>1, <1>2, <2>2, <2>3, <2>4, <2>5, SameStatus, PhaseStep
<1>3. ASSUME NEW ok \in BOOLEAN, ok => print[t].left = {},
             print' = [print EXCEPT ![t] = [print[t] EXCEPT !.unk = {}, !.ok = ok,
                                              !.phase = "answered", !.left = {}]],
             status' = Noticed
      PROVE  /\ Course(t) /\ CourseInv' /\ print'[t].phase \notin {"idle", "asked"}
             /\ print'[t].sel = print[t].sel /\ print'[t].done = print[t].done
             /\ print'[t].unk = print[t].unk
  <2>1. print'[t] = [print[t] EXCEPT !.unk = {}, !.ok = ok, !.phase = "answered", !.left = {}]
    BY <1>1, <1>3 DEF TypesOK
  <2>2. /\ print'[t] \in Calls /\ print'[t].phase = "answered" /\ print'[t].sel = print[t].sel
        /\ print'[t].done = print[t].done /\ print'[t].unk = {}
        /\ print'[t].left = {} /\ print'[t].tracked = print[t].tracked
        /\ print'[t].ok = ok
    BY <1>1, <2>1 DEF Calls, Phases
  <2>3. CallOnly(t)
    BY <1>1, <1>3, <2>1, <2>2 DEF CallOnly, TypesOK
  <2>4. CallPart(print[t])'
    BY <1>1, <1>3, <2>2 DEF CallPart
  <2> QED
    BY <1>1, <1>3, <2>2, <2>3, <2>4, NoticedStatus, PhaseStep
<1>4. CASE print[t].left = {} /\ print' = AnsweredPrint(t, [print[t] EXCEPT !.ok = TRUE])
           /\ status' = Noticed
  <2>1. [print[t] EXCEPT !.ok = TRUE, !.phase = "answered", !.left = {}] =
          [print[t] EXCEPT !.unk = {}, !.ok = TRUE, !.phase = "answered", !.left = {}]
    BY <1>1 DEF Calls
  <2> QED
    BY <1>1, <1>3, <1>4, <2>1 DEF AnsweredPrint
<1>5. CASE print' = RejectPrintJob(t, {}) /\ status' = Noticed
  <2>1. ~print[t].ok
    BY <1>1 DEF CallPart
  <2>2. [print[t] EXCEPT !.unk = {}, !.phase = "answered", !.left = {}] =
          [print[t] EXCEPT !.unk = {}, !.ok = FALSE, !.phase = "answered", !.left = {}]
    BY <1>1, <2>1 DEF Calls
  <2> QED
    BY <1>1, <1>3, <1>5, <2>2 DEF RejectPrintJob, AnsweredPrint
<1> QED
  BY <1>1, <1>2, <1>3, <1>4, <1>5 DEF Cut

(* A transfer: the document is written, torn, or none of it was sent.      *)
LEMMA WriteStep ==
  ASSUME CourseInv, NEW t \in Prints, WriteDocument(t)
  PROVE  /\ Course(t) /\ CourseInv' /\ UNCHANGED stored
         /\ print[t].phase \notin {"idle", "asked"} /\ print'[t].phase \notin {"idle", "asked"}
         /\ print'[t].sel = print[t].sel
         /\ \/ /\ UNCHANGED due
               /\ print'[t].done = print[t].done /\ print'[t].unk = print[t].unk
            \/ \E d \in Documents :
                 /\ Owes(t, d) /\ due' = [due EXCEPT ![d] = @ - 1]
                 /\ print'[t].done \cup print'[t].unk = print[t].done \cup print[t].unk \cup {d}
<1>1. /\ TypesOK /\ StatusInv /\ UNCHANGED <<stored, listed, screen>>
      /\ print[t].phase = "writing" /\ print[t] \in Calls /\ CallPart(print[t])
      /\ whole \in SUBSET Documents /\ status \in Readings /\ due \in [Documents -> Int]
  BY DEF CourseInv, WriteDocument, TypesOK, CallInv
<1>2. /\ print[t].left # {} /\ print[t].left = print[t].sel \ print[t].done /\ print[t].unk = {}
      /\ print[t].left \subseteq Documents /\ ~print[t].ok /\ print[t].done \subseteq whole
      /\ print[t].done \subseteq print[t].sel
  BY <1>1 DEF CallPart, Calls
<1>3. PICK d \in Documents : d = First(print[t].left) /\ d \in print[t].left
  BY <1>2, FirstIsLeft
<1>4. Owes(t, d)
  BY <1>2, <1>3 DEF Owes
<1>5. Pending(print) # {}
  BY <1>1, PendingCalls
<1>6. PICK transfer \in UsbWriteStatus :
        /\ print' = CASE transfer = "COMPLETE" ->
                           [print EXCEPT ![t] = [print[t] EXCEPT !.phase = "cutting",
                                                  !.left = @ \ {d}, !.done = @ \cup {d}]]
                      [] transfer = "PARTIAL" -> RejectPrintJob(t, {d})
                      [] OTHER -> RejectPrintJob(t, {})
        /\ whole' = IF transfer = "COMPLETE" THEN whole \cup {d} ELSE whole
        /\ due' = IF transfer = "NO_BYTES_SENT" THEN due ELSE [due EXCEPT ![d] = @ - 1]
        /\ status' = IF transfer = "NO_BYTES_SENT" THEN Noticed ELSE BytesSent(Noticed)
  BY <1>3 DEF WriteDocument
<1>7. /\ due' \in [Documents -> Int] /\ whole' \in SUBSET Documents /\ whole \subseteq whole'
      /\ status' \in Readings /\ StatusInv'
  BY <1>1, <1>5, <1>6, NoticedStatus, SentStatus
<1>8. ASSUME NEW uncertain \in SUBSET {d}, print' = RejectPrintJob(t, uncertain)
      PROVE  /\ Course(t) /\ CourseInv' /\ print'[t].phase = "answered"
             /\ print'[t].sel = print[t].sel /\ print'[t].done = print[t].done
             /\ print'[t].unk = uncertain
  <2>1. print' = [print EXCEPT ![t] = [print[t] EXCEPT !.unk = uncertain, !.phase = "answered", !.left = {}]]
    BY <1>8 DEF RejectPrintJob, AnsweredPrint
  <2>2. print'[t] = [print[t] EXCEPT !.unk = uncertain, !.phase = "answered", !.left = {}]
    BY <1>1, <2>1 DEF TypesOK
  <2>3. /\ print'[t] \in Calls /\ print'[t].phase = "answered" /\ print'[t].sel = print[t].sel
        /\ print'[t].done = print[t].done /\ print'[t].unk = uncertain
        /\ print'[t].left = {} /\ print'[t].tracked = print[t].tracked
        /\ print'[t].ok = print[t].ok
    <3>1. uncertain \in SUBSET Documents
      OBVIOUS
    <3> QED
      BY <1>1, <2>2, <3>1 DEF Calls, Phases
  <2>4. CallOnly(t)
    BY <1>1, <2>1, <2>2, <2>3 DEF CallOnly, TypesOK
  <2>5. CallPart(print[t])'
    BY <1>1, <1>2, <1>3, <1>7, <2>3 DEF CallPart
  <2> QED
    BY <1>1, <1>7, <2>3, <2>4, <2>5, PhaseStep
<1>9. CASE transfer = "COMPLETE"
  <2>1. print' = [print EXCEPT ![t] = [print[t] EXCEPT !.phase = "cutting",
                                         !.left = @ \ {d}, !.done = @ \cup {d}]]
    BY <1>6, <1>9
  <2>2. print'[t] = [print[t] EXCEPT !.phase = "cutting", !.left = @ \ {d}, !.done = @ \cup {d}]
    BY <1>1, <2>1 DEF TypesOK
  <2>3. /\ print'[t] \in Calls /\ print'[t].phase = "cutting" /\ print'[t].sel = print[t].sel
        /\ print'[t].done = print[t].done \cup {d} /\ print'[t].unk = {}
        /\ print'[t].left = print[t].left \ {d} /\ print'[t].tracked = print[t].tracked
        /\ print'[t].ok = print[t].ok
    <3>1. print[t].left \ {d} \in SUBSET Documents /\ print[t].done \cup {d} \in SUBSET Documents
      BY <1>1 DEF Calls
    <3>2. /\ print'[t].phase = "cutting" /\ print'[t].sel = print[t].sel
          /\ print'[t].done = print[t].done \cup {d} /\ print'[t].unk = {}
          /\ print'[t].left = print[t].left \ {d} /\ print'[t].tracked = print[t].tracked
          /\ print'[t].ok = print[t].ok
      BY <1>1, <1>2, <2>2 DEF Calls
    <3>3. print'[t] \in Calls
      BY <1>1, <2>2, <3>1 DEF Calls, Phases
    <3> QED
      BY <3>2, <3>3
  <2>4. CallOnly(t)
    BY <1>1, <2>1, <2>2, <2>3 DEF CallOnly, TypesOK
  <2>5. CallPart(print[t])'
    BY <1>1, <1>2, <1>3, <1>6, <1>9, <2>3 DEF CallPart
  <2> QED
    <3>1. Course(t) /\ CourseInv'
      BY <1>1, <1>7, <2>3, <2>4, <2>5, PhaseStep
    <3>2. due' = [due EXCEPT ![d] = @ - 1]
      BY <1>6, <1>9
    <3>3. /\ print'[t].done \cup print'[t].unk = print[t].done \cup print[t].unk \cup {d}
          /\ print'[t].phase \notin {"idle", "asked"} /\ print'[t].sel = print[t].sel
      BY <1>2, <2>3
    <3> QED
      BY <1>1, <1>2, <1>4, <3>1, <3>2, <3>3
<1>10. CASE transfer = "PARTIAL"
  <2>1. print' = RejectPrintJob(t, {d}) /\ due' = [due EXCEPT ![d] = @ - 1]
    BY <1>6, <1>10
  <2> QED
    BY <1>1, <1>2, <1>4, <1>8, <2>1
<1>11. CASE transfer = "NO_BYTES_SENT"
  <2>1. print' = RejectPrintJob(t, {}) /\ UNCHANGED due
    BY <1>6, <1>11
  <2> QED
    BY <1>1, <1>2, <1>8, <2>1
<1> QED
  BY <1>9, <1>10, <1>11 DEF UsbWriteStatus

(* The end of a call.                                                      *)
LEMMA AbandonStep ==
  ASSUME CourseInv, NEW t \in Prints, GiveUp(t) \/ SaveFails(t)
  PROVE  /\ Course(t) /\ CourseInv' /\ UNCHANGED stored
         /\ print[t].phase # "idle" /\ print'[t] = Idle /\ due' = StillDue(t, stored')
<1>1. Abandoned(t) /\ print[t].phase # "idle"
  BY DEF GiveUp, SaveFails
<1> QED
  BY <1>1, AbandonedCourse

LEMMA FinishStep ==
  ASSUME CourseInv, NEW t \in Prints, Finish(t)
  PROVE  /\ Course(t) /\ CourseInv'
         /\ print[t].phase # "idle" /\ print'[t] = Idle /\ due' = StillDue(t, stored')
         /\ \A d \in Documents :
              \/ stored'[d] = stored[d] /\ (d \in print[t].sel => Settled(stored[d]))
              \/ stored'[d] \in {"printed", "unknown"}
              \/ d \in print[t].sel /\ d \notin print[t].done \cup print[t].unk
<1>1. /\ TypesOK /\ PaperInv /\ StatusInv /\ UNCHANGED <<whole, status>>
      /\ print' = [print EXCEPT ![t] = Idle] /\ print[t].phase = "answered"
      /\ due' = StillDue(t, stored') /\ whole \in SUBSET Documents /\ status \in Readings
      /\ due \in [Documents -> Int] /\ print[t] \in Calls /\ CallPart(print[t])
  BY DEF CourseInv, Finish, TypesOK, CallInv
<1>2. print'[t] = Idle /\ CallOnly(t)
  BY <1>1, IdleCall DEF TypesOK, CallOnly
<1>3. /\ Settles
      /\ \A d \in Documents :
           \/ stored'[d] = stored[d] /\ (d \in print[t].sel => Settled(stored[d]))
           \/ stored'[d] \in {"printed", "unknown"}
           \/ d \in print[t].sel /\ d \notin print[t].done \cup print[t].unk
  <2>1. CASE print[t].tracked
    <3>1. stored' = Outcome(print[t]) /\ listed' = stored'
      BY <1>1, <2>1 DEF Finish, UpdateOrderPrinting
    <3>2. stored \in Printings /\ stored' \in Printings
      BY <1>1, <3>1, PrintingTyped DEF TypesOK, Outcome
    <3>3. ASSUME NEW d \in Documents
          PROVE  \/ stored'[d] = stored[d] /\ (d \in print[t].sel => Settled(stored[d]))
                 \/ /\ d \in print[t].sel /\ ~Settled(stored[d])
                    /\ \/ stored'[d] = "printed" /\ d \in print[t].done
                       \/ stored'[d] = "unknown"
                       \/ stored'[d] = "failed" /\ d \notin print[t].done \cup print[t].unk
      <4>1. CASE print[t].ok
        <5>1. stored'[d] = IF d \in print[t].sel /\ ~Settled(stored[d])
                           THEN IF d \in print[t].done THEN "printed" ELSE "failed" ELSE stored[d]
          BY <3>1, <3>2, <4>1, CompletedPart DEF Outcome
        <5>2. d \in print[t].sel => d \in print[t].done
          BY <1>1, <4>1 DEF CallPart
        <5> QED
          BY <5>1, <5>2
      <4>2. CASE ~print[t].ok
        <5>1. stored'[d] = IF d \in print[t].sel /\ ~Settled(stored[d])
                           THEN IF d \in print[t].done THEN "printed"
                                ELSE IF d \in print[t].unk THEN "unknown" ELSE "failed"
                           ELSE stored[d]
          BY <3>1, <3>2, <4>2, FailedPart DEF Outcome
        <5> QED
          BY <5>1
      <4> QED
        BY <4>1, <4>2
    <3>4. print[t].done \subseteq whole'
      BY <1>1 DEF CallPart
    <3>5. \A d \in Documents : Settled(stored[d]) => stored'[d] = stored[d]
      BY <3>3
    <3>6. \A d \in Documents : stored'[d] = "printed" => d \in whole'
      BY <1>1, <3>3, <3>4 DEF PaperInv
    <3> QED
      BY <3>1, <3>2, <3>3, <3>5, <3>6 DEF Settles
  <2>2. CASE ~print[t].tracked
    <3>1. UNCHANGED <<stored, listed>>
      BY <1>1, <2>2 DEF Finish
    <3>2. \A d \in Documents : Settled(stored[d])
      BY <1>1, <2>2 DEF CallPart
    <3> QED
      BY <1>1, <3>1, <3>2, SameRecord
  <2> QED
    BY <2>1, <2>2
<1>4. print'[t].phase = "idle"
  BY <1>2, IdleCall
<1>5. screen' = [s \in Screens |-> screen'[s]] /\ \A s \in Screens : DialogMove(t, s)
  <2>1. CASE print[t].tracked
    BY <1>1, <1>3, <1>4, <2>1, ScreensEnded DEF Finish, Settles
  <2>2. CASE ~print[t].tracked
    BY <1>1, <1>4, <2>2, ScreensReleased DEF Finish
  <2> QED
    BY <2>1, <2>2
<1>6. Course(t)
  BY <1>1, <1>2, <1>3, <1>5 DEF Course
<1>7. CallPart(print[t])'
  BY <1>2 DEF CallPart, Idle
<1>8. Pending(print') \subseteq Pending(print)
  BY <1>1, <1>4 DEF Pending, TypesOK
<1>9. StatusInv'
  BY <1>1, <1>8, SameStatus
<1>10. due' \in [Documents -> Int]
  BY <1>1, StillDueIs
<1> QED
  BY <1>1, <1>2, <1>3, <1>6, <1>7, <1>9, <1>10, CourseStep
-----------------------------------------------------------------------------
(* The taps, the dialogs, the readings of the status and the stop.         *)

LEMMA TapStep ==
  ASSUME CourseInv, NEW t \in Prints, NEW s \in Screens, NEW selection \in SUBSET Documents,
         NEW tracked \in BOOLEAN, NEW guarded \in BOOLEAN, selection # {},
         Tap(t, s, selection, selection, tracked, guarded),
         ~tracked => \A d \in Documents : Settled(stored[d]), due' \in [Documents -> Int]
  PROVE  /\ CourseInv' /\ CallOnly(t) /\ UNCHANGED stored
         /\ print[t] = Idle /\ screen[s].open
         /\ print'[t].phase = "asked" /\ print'[t].sel = selection
         /\ print'[t].done = {} /\ print'[t].unk = {}
<1>1. /\ TypesOK /\ CallInv /\ DialogInv /\ PaperInv /\ StatusInv
      /\ UNCHANGED <<stored, listed, whole, status>>
      /\ screen[s].open /\ screen[s].task = NoPrint /\ print[t] = Idle
      /\ screen' = [screen EXCEPT ![s].task = t]
      /\ print' = [print EXCEPT ![t] = [Idle EXCEPT !.phase = "asked", !.sel = selection,
                                          !.tracked = tracked, !.guarded = guarded,
                                          !.left = selection]]
      /\ screen[s] \in Dialogs
  BY DEF CourseInv, Tap, TypesOK
<1>2. print'[t] = [Idle EXCEPT !.phase = "asked", !.sel = selection, !.tracked = tracked,
                     !.guarded = guarded, !.left = selection]
  BY <1>1 DEF TypesOK
<1>3. /\ print'[t] \in Calls /\ print'[t].phase = "asked" /\ print'[t].sel = selection
      /\ print'[t].left = selection /\ (print'[t].tracked <=> tracked)
      /\ print'[t].done = {} /\ print'[t].unk = {} /\ ~print'[t].ok
  BY <1>2 DEF Idle, Calls, Phases
<1>4. CallOnly(t)
  BY <1>1, <1>2, <1>3 DEF CallOnly, TypesOK
<1>5. CallPart(print[t])'
  BY <1>1, <1>3 DEF CallPart
<1>6. Settles /\ CallInv' /\ PaperInv'
  BY <1>1, <1>4, <1>5, SameRecord, CallsKept, PaperKept
<1>7. /\ screen'[s] = [screen[s] EXCEPT !.task = t]
      /\ \A x \in Screens : x # s => screen'[x] = screen[x]
      /\ DOMAIN screen' = Screens /\ screen' = [x \in Screens |-> screen'[x]]
  BY <1>1 DEF TypesOK
<1>8. /\ screen'[s] \in Dialogs /\ screen'[s].task = t /\ screen'[s].open
      /\ screen'[s].copy = screen[s].copy
  BY <1>1, <1>7 DEF Dialogs
<1>9. screen' \in [Screens -> Dialogs]
  BY <1>1, <1>7, <1>8 DEF TypesOK
<1>10. ASSUME NEW x \in Screens
       PROVE  DialogPart(screen[x])'
  <2>1. DialogPart(screen[x]) /\ NoPrint \notin Prints /\ screen[x] \in Dialogs
    BY <1>1, PrintsAssumption DEF DialogInv, TypesOK
  <2>2. CASE x = s
    BY <1>1, <1>3, <1>8, <2>1, <2>2 DEF DialogPart
  <2>3. CASE x # s
    <3>1. screen[x].task # t
      BY <1>1, <2>1, IdleCall DEF DialogPart
    <3>2. screen[x].task \in Prints \cup {NoPrint}
      BY <2>1 DEF Dialogs
    <3>3. screen[x].task # NoPrint => print'[screen[x].task] = print[screen[x].task]
      BY <1>1, <1>4, <3>1, <3>2 DEF CallOnly, TypesOK
    <3> QED
      BY <1>1, <1>7, <2>1, <2>3, <3>3 DEF DialogPart
  <2> QED
    BY <2>2, <2>3
<1>11. \A x \in Screens : screen'[x].open <=> screen[x].open
  BY <1>1, <1>7, <1>8
<1>12. DialogInv'
  BY <1>1, <1>10, <1>11 DEF DialogInv, Screens
<1>13. Pending(print') \subseteq Pending(print)
  BY <1>1, <1>3, <1>4 DEF Pending, CallOnly, TypesOK
<1>14. TypesOK'
  BY <1>1, <1>4, <1>9 DEF TypesOK, CallOnly
<1> QED
  BY <1>1, <1>3, <1>4, <1>6, <1>12, <1>13, <1>14, SameStatus DEF CourseInv

LEMMA PrintStep ==
  ASSUME CourseInv, NEW t \in Prints, CheckoutAndPrint(t)
  PROVE  /\ CourseInv' /\ CallOnly(t) /\ UNCHANGED <<stored, due>>
         /\ print[t] = Idle /\ screen["checkout"].open /\ screen["checkout"].task = NoPrint
         /\ screen' = [screen EXCEPT !["checkout"].task = t]
         /\ print'[t].phase = "asked" /\ print'[t].done = {} /\ print'[t].unk = {}
         /\ print'[t].sel = RetryableDocuments(screen["checkout"].copy)
<1> DEFINE selection == RetryableDocuments(screen["checkout"].copy)
<1>1. /\ selection \in SUBSET Documents /\ selection # {}
      /\ Tap(t, "checkout", selection, selection, TRUE, FALSE) /\ UNCHANGED due
      /\ "checkout" \in Screens /\ due \in [Documents -> Int]
  <2>1. selection \cap selection = selection
    OBVIOUS
  <2> QED
    BY <2>1 DEF CheckoutAndPrint, RetryableDocuments, Screens, CourseInv, TypesOK
<1>2. screen["checkout"].task = NoPrint /\ screen' = [screen EXCEPT !["checkout"].task = t]
  BY <1>1 DEF Tap
<1> HIDE DEF selection
<1>3. /\ CourseInv' /\ CallOnly(t) /\ UNCHANGED stored
      /\ print[t] = Idle /\ screen["checkout"].open
      /\ print'[t].phase = "asked" /\ print'[t].sel = selection
      /\ print'[t].done = {} /\ print'[t].unk = {}
  BY <1>1, TapStep
<1> QED
  BY <1>1, <1>2, <1>3 DEF selection

(* A reprint asks for one more copy of what is not to be printed already or *)
(* is being printed.                                                       *)
More(selection) ==
  {d \in selection : \/ d \notin RetryableDocuments(stored)
                     \/ d \in UNION {print[u].sel : u \in Prints}}

LEMMA ReprintStep ==
  ASSUME CourseInv, NEW t \in Prints, NEW s \in Screens, Reprint(t, s)
  PROVE  /\ CourseInv' /\ CallOnly(t) /\ UNCHANGED stored
         /\ print[t] = Idle /\ screen[s].open /\ screen[s].task = NoPrint
         /\ screen' = [screen EXCEPT ![s].task = t]
         /\ print'[t].phase = "asked" /\ print'[t].done = {} /\ print'[t].unk = {}
         /\ print'[t].sel \subseteq Documents
         /\ due' = [d \in Documents |-> IF d \in More(print'[t].sel) THEN due[d] + 1 ELSE due[d]]
<1>1. screen[s].copy \in Printings /\ due \in [Documents -> Int] /\ DialogPart(screen[s])
  BY DEF CourseInv, TypesOK, Dialogs, DialogInv
<1>2. PICK selection \in {{d} : d \in Available(screen[s].copy)} \cup {Available(screen[s].copy)} :
        AskReprint(t, s, selection)
  BY DEF Reprint
<1>3. Available(screen[s].copy) \subseteq Documents /\ Available(screen[s].copy) # {}
  BY DocumentsAssumption DEF Available
<1>4. selection \in SUBSET Documents /\ selection # {}
  BY <1>3
<1>5. PICK tracked \in BOOLEAN, guarded \in BOOLEAN :
        /\ tracked <=> DerivePrintStatus(screen[s].copy) # "printed"
        /\ Tap(t, s, selection, selection, tracked, guarded)
  BY <1>2 DEF AskReprint, ProtectedReprint
<1>6. /\ due' = [d \in Documents |-> IF d \in More(selection) THEN due[d] + 1 ELSE due[d]]
      /\ due' \in [Documents -> Int]
  BY <1>1, <1>2 DEF AskReprint, More
<1>7. screen[s].open /\ screen[s].task = NoPrint /\ screen' = [screen EXCEPT ![s].task = t]
  BY <1>5 DEF Tap
<1>8. ~tracked => \A d \in Documents : Settled(stored[d])
  <2> SUFFICES ASSUME DerivePrintStatus(screen[s].copy) = "printed"
               PROVE  \A d \in Documents : Settled(stored[d])
    BY <1>5
  <2>1. \A d \in Documents : Settled(screen[s].copy[d])
    BY <1>1, PrintedSettled
  <2> QED
    BY <1>1, <1>7, <2>1 DEF DialogPart
<1>9. /\ CourseInv' /\ CallOnly(t) /\ UNCHANGED stored
      /\ print[t] = Idle /\ screen[s].open
      /\ print'[t].phase = "asked" /\ print'[t].sel = selection
      /\ print'[t].done = {} /\ print'[t].unk = {}
  <2>1. Tap(t, s, selection, selection, tracked, guarded)
    BY <1>5
  <2>2. due' \in [Documents -> Int]
    BY <1>6
  <2> QED
    BY <1>4, <1>8, <2>1, <2>2, TapStep, ZenonT(60)
<1> QED
  BY <1>4, <1>6, <1>7, <1>9

(* A dialog alone.                                                         *)
LEMMA ScreenStep ==
  ASSUME CourseInv, UNCHANGED <<stored, listed, print, whole, due, status>>,
         NEW s \in Screens, \A x \in Screens \ {s} : screen'[x] = screen[x],
         screen' = [x \in Screens |-> screen'[x]], screen'[s] \in Dialogs, DialogPart(screen[s])',
         screen'["checkout"].open => ~screen'["history"].open
  PROVE  CourseInv'
<1>1. TypesOK /\ CallInv /\ DialogInv /\ PaperInv /\ StatusInv
  BY DEF CourseInv
<1>2. screen' \in [Screens -> Dialogs]
  BY <1>1 DEF TypesOK
<1>3. DialogInv'
  BY <1>1 DEF DialogInv, DialogPart
<1>4. TypesOK'
  BY <1>1, <1>2 DEF TypesOK
<1> QED
  BY <1>1, <1>3, <1>4 DEF CourseInv, CallInv, CallPart, PaperInv, StatusInv

LEMMA OpenedDialog ==
  ASSUME NEW copy \in Printings
  PROVE  /\ Opened(copy) \in Dialogs /\ Opened(copy).copy = copy /\ Opened(copy).task = NoPrint
         /\ Closed \in Dialogs /\ ~Closed.open /\ Closed.task = NoPrint
BY DEF Opened, Closed, Dialogs, Printings, DocumentStates

LEMMA DialogStep ==
  ASSUME CourseInv, OpenCheckout \/ OpenHistory \/ VerifyTickets \/ \E s \in Screens : Close(s)
  PROVE  CourseInv'
<1>1. /\ stored \in Printings /\ listed = stored /\ screen \in [Screens -> Dialogs]
      /\ "checkout" \in Screens /\ "history" \in Screens
      /\ \A s \in Screens : DialogPart(screen[s])
      /\ screen["checkout"].open => ~screen["history"].open
  BY DEF CourseInv, TypesOK, Screens, DialogInv
<1>2. CASE OpenCheckout
  <2>1. /\ screen'["checkout"] = Opened(stored) /\ screen'["history"] = screen["history"]
        /\ \A x \in Screens \ {"checkout"} : screen'[x] = screen[x]
        /\ screen' = [x \in Screens |-> screen'[x]] /\ ~screen["history"].open
        /\ UNCHANGED <<stored, listed, print, whole, due, status>>
    BY <1>1, <1>2 DEF OpenCheckout, AllClosed
  <2>2. DialogPart(screen["checkout"])'
    BY <1>1, <2>1, OpenedDialog DEF DialogPart
  <2> QED
    BY <1>1, <2>1, <2>2, OpenedDialog, ScreenStep
<1>3. CASE OpenHistory
  <2>1. /\ screen'["history"] = Opened(stored) /\ screen'["checkout"] = screen["checkout"]
        /\ \A x \in Screens \ {"history"} : screen'[x] = screen[x]
        /\ screen' = [x \in Screens |-> screen'[x]] /\ ~screen["checkout"].open
        /\ UNCHANGED <<stored, listed, print, whole, due, status>>
    BY <1>1, <1>3 DEF OpenHistory, AllClosed
  <2>2. DialogPart(screen["history"])'
    BY <1>1, <2>1, OpenedDialog DEF DialogPart
  <2> QED
    BY <1>1, <2>1, <2>2, OpenedDialog, ScreenStep
<1>4. CASE VerifyTickets
  <2>1. /\ screen' = [screen EXCEPT !["checkout"].picker = TRUE]
        /\ UNCHANGED <<stored, listed, print, whole, due, status>>
    BY <1>4 DEF VerifyTickets
  <2>2. /\ screen'["checkout"] = [screen["checkout"] EXCEPT !.picker = TRUE]
        /\ screen'["history"] = screen["history"]
        /\ \A x \in Screens \ {"checkout"} : screen'[x] = screen[x]
        /\ screen' = [x \in Screens |-> screen'[x]] /\ screen["checkout"] \in Dialogs
    BY <1>1, <2>1
  <2>3. /\ screen'["checkout"] \in Dialogs
        /\ screen'["checkout"].open = screen["checkout"].open
        /\ screen'["checkout"].copy = screen["checkout"].copy
        /\ screen'["checkout"].task = screen["checkout"].task
    BY <2>2 DEF Dialogs
  <2>4. DialogPart(screen["checkout"])'
    BY <1>1, <2>1, <2>3 DEF DialogPart
  <2> QED
    BY <1>1, <2>1, <2>2, <2>3, <2>4, ScreenStep
<1>5. ASSUME NEW s \in Screens, Close(s)
      PROVE  CourseInv'
  <2>1. /\ screen'[s] = Closed /\ \A x \in Screens \ {s} : screen'[x] = screen[x]
        /\ screen' = [x \in Screens |-> screen'[x]]
        /\ UNCHANGED <<stored, listed, print, whole, due, status>>
    BY <1>1, <1>5 DEF Close
  <2>2. /\ DialogPart(screen[s])' /\ screen'[s] \in Dialogs
        /\ \A x \in Screens : screen'[x].open => screen[x].open
    BY <1>1, <2>1, OpenedDialog DEF DialogPart
  <2> QED
    BY <1>1, <2>1, <2>2, ScreenStep
<1> QED
  BY <1>2, <1>3, <1>4, <1>5

LEMMA ReadingStep ==
  ASSUME CourseInv, StartReading \/ ReadingAnswers \/ Age
  PROVE  CourseInv' /\ UNCHANGED <<stored, screen, print, due>>
<1>1. /\ TypesOK /\ CallInv /\ DialogInv /\ PaperInv /\ StatusInv /\ status \in Readings
      /\ UNCHANGED <<stored, listed, screen, print, whole, due>>
  BY DEF CourseInv, StartReading, ReadingAnswers, Age, TypesOK
<1>2. status' \in Readings /\ StatusInv'
  <2>1. CASE StartReading
    BY <1>1, <2>1 DEF StartReading, Readings, StatusInv
  <2>2. CASE ReadingAnswers
    BY <1>1, <2>2 DEF ReadingAnswers, Unanswered, Readings, StatusInv
  <2>3. CASE Age
    BY <1>1, <2>3, OutdateTyped DEF Age, StatusInv
  <2> QED
    BY <2>1, <2>2, <2>3
<1>3. TypesOK'
  BY <1>1, <1>2 DEF TypesOK
<1> QED
  BY <1>1, <1>2, <1>3 DEF CourseInv, CallInv, CallPart, DialogInv, DialogPart, PaperInv

LEMMA RestStatus == Unread \in Readings /\ Unread.seen = "stale" /\ ~Unread.reading
BY DEF Unread, Readings

LEMMA StoppedCourse ==
  ASSUME stored' \in Printings, listed' = stored', screen' = [s \in Screens |-> Closed],
         print' = [t \in Prints |-> Idle], status' = Unread, whole' \in SUBSET Documents,
         due' \in [Documents -> Int], PaperInv'
  PROVE  CourseInv'
<1>1. TypesOK'
  BY IdleCall, OpenedDialog, RestStatus DEF TypesOK
<1>2. CallInv'
  BY DEF CallInv, CallPart, Idle
<1>3. DialogInv'
  BY DEF DialogInv, DialogPart, Closed, Screens
<1>4. Pending(print') = {}
  BY DEF Pending, Idle
<1>5. StatusInv'
  BY <1>4, RestStatus DEF StatusInv
<1> QED
  BY <1>1, <1>2, <1>3, <1>5 DEF CourseInv

LEMMA StopStep ==
  ASSUME CourseInv, Stop
  PROVE  CourseInv'
<1>1. /\ stored \in Printings /\ whole \in SUBSET Documents /\ due \in [Documents -> Int] /\ PaperInv
      /\ UNCHANGED <<stored, whole>>
  BY DEF CourseInv, TypesOK, Stop
<1>2. due' \in [Documents -> Int]
  BY <1>1 DEF Stop
<1>3. PaperInv'
  BY <1>1 DEF PaperInv
<1> QED
  BY <1>1, <1>2, <1>3, StoppedCourse DEF Stop

LEMMA InitCourse == Init => CourseInv
<1> SUFFICES ASSUME Init
             PROVE  CourseInv
  OBVIOUS
<1>1. stored \in Printings /\ \A d \in Documents : stored[d] # "printed"
  BY DEF Init, InitialPrintings, Printings, DocumentStates
<1>2. TypesOK
  BY <1>1, IdleCall, OpenedDialog, RestStatus DEF Init, TypesOK
<1>3. CallInv
  BY DEF Init, CallInv, CallPart, Idle
<1>4. DialogInv
  BY DEF Init, DialogInv, DialogPart, Closed, Screens
<1>5. Pending(print) = {}
  BY DEF Init, Pending, Idle
<1>6. StatusInv /\ PaperInv
  BY <1>1, <1>5, RestStatus DEF Init, StatusInv, PaperInv
<1> QED
  BY <1>2, <1>3, <1>4, <1>6 DEF CourseInv

LEMMA NextCourse == CourseInv /\ [Next]_vars => CourseInv'
<1> SUFFICES ASSUME CourseInv, [Next]_vars
             PROVE  CourseInv'
  OBVIOUS
<1>1. ASSUME NEW t \in Prints, CheckoutAndPrint(t)
      PROVE  CourseInv'
  BY <1>1, PrintStep
<1>2. ASSUME NEW t \in Prints, Continue(t)
      PROVE  CourseInv'
  BY <1>2, BeginStep, AbandonStep, WaitStep, StartJobStep, WriteStep, CutStep, FinishStep
     DEF Continue
<1>3. ASSUME NEW t \in Prints, NEW s \in Screens, Reprint(t, s)
      PROVE  CourseInv'
  BY <1>3, ReprintStep
<1>4. CASE UNCHANGED vars
  BY <1>4 DEF vars, CourseInv, TypesOK, CallInv, CallPart, DialogInv, DialogPart, PaperInv, StatusInv
<1> QED
  BY <1>1, <1>2, <1>3, <1>4, DialogStep, ReadingStep, StopStep DEF Next

LEMMA CourseAlways == Spec => []CourseInv
BY InitCourse, NextCourse, PTL DEF Spec

(* A printer shown as ready was read after everything sent to it so far,   *)
(* for any number of prints side by side: an answer that a print overtook  *)
(* is never taken (usePrinterStatus.ts:72, withPrintPriority).             *)
THEOREM ReadyWasReadLast == Spec => []ReadyIsRecent
<1>1. CourseInv => ReadyIsRecent
  BY DEF CourseInv, StatusInv, ReadyIsRecent
<1> QED
  BY <1>1, CourseAlways, PTL
-----------------------------------------------------------------------------
(* Counting the copies: what call t adds to those that are due.            *)

Share(t, d) == (IF Owes(t, d) THEN 1 ELSE 0) + (IF Unclaimed(d) THEN 1 ELSE 0)

LEMMA CountWithout ==
  ASSUME NEW calls \in SUBSET Prints, NEW t \in Prints
  PROVE  /\ Cardinality(calls \ {t}) \in Nat
         /\ Cardinality(calls) = Cardinality(calls \ {t}) + (IF t \in calls THEN 1 ELSE 0)
<1>1. IsFiniteSet(calls)
  BY PrintsAssumption, FS_Subset
<1>2. IsFiniteSet(calls \ {t}) /\ Cardinality(calls \ {t}) \in Nat /\ Cardinality(calls) \in Nat
  BY <1>1, FS_RemoveElement, FS_CardinalityType
<1>3. CASE t \in calls
  BY <1>1, <1>2, <1>3, FS_RemoveElement
<1>4. CASE t \notin calls
  <2>1. calls \ {t} = calls
    BY <1>4
  <2>2. Cardinality(calls \ {t}) = Cardinality(calls)
    BY <2>1, Zenon
  <2> QED
    BY <1>2, <1>4, <2>2
<1> QED
  BY <1>3, <1>4

LEMMA CountSome ==
  ASSUME NEW calls \in SUBSET Prints, calls # {}
  PROVE  Cardinality(calls) \in Nat /\ Cardinality(calls) >= 1
<1>1. IsFiniteSet(calls)
  BY PrintsAssumption, FS_Subset
<1>2. Cardinality(calls) \in Nat /\ Cardinality(calls) # 0
  BY <1>1, FS_EmptySet, FS_CardinalityType
<1> QED
  BY <1>2

LEMMA OwingCalls ==
  ASSUME NEW t \in Prints, NEW d \in Documents
  PROVE  /\ Owing(d) \in SUBSET Prints /\ (t \in Owing(d) <=> Owes(t, d))
         /\ Owing(d)' \in SUBSET Prints /\ (t \in Owing(d)' <=> Owes(t, d)')
BY DEF Owing

(* The others owe what they owed.                                          *)
LEMMA OthersOwe ==
  ASSUME TypesOK, NEW t \in Prints, CallOnly(t)
  PROVE  /\ \A u \in Prints : u # t => print'[u] = print[u]
         /\ \A d : Owing(d)' \ {t} = Owing(d) \ {t}
<1>1. \A u \in Prints : u # t => print'[u] = print[u]
  BY DEF TypesOK, CallOnly
<1> QED
  BY <1>1 DEF Owing, Owes

(* What is due goes down no more than the share of the call that moves.    *)
LEMMA DueKept ==
  ASSUME TypesOK, due' \in [Documents -> Int], NEW t \in Prints, CallOnly(t),
         NEW d \in Documents, DuePart(d), due'[d] - due[d] >= Share(t, d)' - Share(t, d)
  PROVE  DuePart(d)'
<1>1. due[d] \in Int /\ due'[d] \in Int
  BY DEF TypesOK
<1>2. Owing(d)' \ {t} = Owing(d) \ {t}
  BY OthersOwe
<1>3. PICK n \in Nat : n = Cardinality(Owing(d) \ {t})
  BY OwingCalls, CountWithout
<1>4. Cardinality(Owing(d)) = n + (IF Owes(t, d) THEN 1 ELSE 0)
  BY <1>3, OwingCalls, CountWithout
<1>5. Cardinality(Owing(d)') = n + (IF Owes(t, d)' THEN 1 ELSE 0)
  <2>1. Cardinality(Owing(d)') = Cardinality(Owing(d)' \ {t}) + (IF t \in Owing(d)' THEN 1 ELSE 0)
    BY OwingCalls, CountWithout
  <2> QED
    BY <1>2, <1>3, <2>1, OwingCalls
<1>6. due[d] >= Cardinality(Owing(d)) + (IF Unclaimed(d) THEN 1 ELSE 0)
  BY DEF DuePart
<1>7. due'[d] >= Cardinality(Owing(d)') + (IF Unclaimed(d)' THEN 1 ELSE 0)
  BY <1>1, <1>4, <1>5, <1>6 DEF Share
<1> QED
  BY <1>7 DEF DuePart

(* Nothing is due of what no other call prints and is not to be printed.   *)
LEMMA DueGone ==
  ASSUME TypesOK, NEW t \in Prints, CallOnly(t), NEW d \in Documents, due'[d] = 0,
         \A u \in Prints \ {t} : d \notin print[u].sel, ~Owes(t, d)', ~Unclaimed(d)'
  PROVE  DuePart(d)'
<1>1. \A u \in Prints : ~Owes(u, d)'
  BY OthersOwe DEF Owes
<1>2. Owing(d)' = {}
  BY <1>1 DEF Owing
<1>3. Cardinality(Owing(d)') = 0
  BY <1>2, FS_EmptySet
<1> QED
  BY <1>3 DEF DuePart

LEMMA ShareLess ==
  ASSUME TypesOK, due' \in [Documents -> Int], NEW t \in Prints, CallOnly(t),
         NEW d \in Documents, DuePart(d), due'[d] = due[d],
         Owes(t, d)' => Owes(t, d), Unclaimed(d)' => Unclaimed(d)
  PROVE  DuePart(d)'
<1>1. due[d] \in Int
  BY DEF TypesOK
<1>2. due'[d] - due[d] >= Share(t, d)' - Share(t, d)
  BY <1>1 DEF Share
<1> QED
  BY <1>2, DueKept

(* A document is claimed as before when neither the record nor the request *)
(* of the call changes.                                                    *)
LEMMA ClaimedAsBefore ==
  ASSUME TypesOK, UNCHANGED stored, NEW t \in Prints, CallOnly(t),
         print[t].phase # "asked", print'[t].phase # "asked", NEW d \in Documents
  PROVE  Unclaimed(d)' <=> Unclaimed(d)
BY OthersOwe DEF Unclaimed

LEMMA AskedOwes ==
  ASSUME CourseInv, NEW t \in Prints, print[t].phase = "asked"
  PROVE  \A d : Owes(t, d) <=> d \in print[t].sel
<1>1. CallPart(print[t])
  BY DEF CourseInv, CallInv
<1> QED
  BY <1>1 DEF CallPart, Owes

LEMMA BeginDue ==
  ASSUME CourseInv, DueInv, NEW t \in Prints, Begin(t)
  PROVE  DueInv'
<1>1. /\ CallOnly(t) /\ UNCHANGED due /\ TypesOK
      /\ print[t].phase = "asked" /\ print'[t].phase = "connecting"
      /\ print'[t].sel = print[t].sel /\ print'[t].done = print[t].done
      /\ print'[t].unk = print[t].unk /\ due' \in [Documents -> Int]
      /\ \A d \in Documents :
           \/ stored'[d] = stored[d] /\ (d \in print[t].sel => Settled(stored[d]))
           \/ stored'[d] = "unknown"
  BY BeginStep DEF CourseInv, TypesOK, Course
<1>2. ASSUME NEW d \in Documents
      PROVE  DuePart(d)'
  <2>1. DuePart(d) /\ (Owes(t, d)' => Owes(t, d))
    BY <1>1 DEF DueInv, Owes
  <2>2. Unclaimed(d)' => Unclaimed(d)
    BY <1>1, OthersOwe DEF Unclaimed, Settled
  <2> QED
    BY <1>1, <2>1, <2>2, ShareLess
<1> QED
  BY <1>2 DEF DueInv

LEMMA WaitDue ==
  ASSUME CourseInv, DueInv, NEW t \in Prints,
         Refuse(t) \/ TakePriority(t) \/ StartJob(t) \/ Cut(t)
  PROVE  DueInv'
<1>1. /\ CallOnly(t) /\ UNCHANGED <<due, stored>> /\ TypesOK /\ due' \in [Documents -> Int]
      /\ print[t].phase \notin {"idle", "asked"} /\ print'[t].phase \notin {"idle", "asked"}
      /\ print'[t].sel = print[t].sel /\ print'[t].done = print[t].done
      /\ print'[t].unk = print[t].unk
  BY WaitStep, StartJobStep, CutStep DEF CourseInv, TypesOK, Course
<1>2. ASSUME NEW d \in Documents
      PROVE  DuePart(d)'
  <2>1. DuePart(d) /\ (Owes(t, d)' => Owes(t, d))
    BY <1>1 DEF DueInv, Owes
  <2> QED
    BY <1>1, <2>1, ClaimedAsBefore, ShareLess
<1> QED
  BY <1>2 DEF DueInv

LEMMA WriteDue ==
  ASSUME CourseInv, DueInv, NEW t \in Prints, WriteDocument(t)
  PROVE  DueInv'
<1>1. /\ CallOnly(t) /\ UNCHANGED stored /\ TypesOK /\ due' \in [Documents -> Int]
      /\ print[t].phase \notin {"idle", "asked"} /\ print'[t].phase \notin {"idle", "asked"}
      /\ print'[t].sel = print[t].sel /\ due \in [Documents -> Int]
  BY WriteStep DEF CourseInv, TypesOK, Course
<1>2. CASE UNCHANGED due /\ print'[t].done = print[t].done /\ print'[t].unk = print[t].unk
  <2>1. ASSUME NEW d \in Documents
        PROVE  DuePart(d)'
    <3>1. DuePart(d) /\ (Owes(t, d)' => Owes(t, d))
      BY <1>1, <1>2 DEF DueInv, Owes
    <3> QED
      BY <1>1, <1>2, <3>1, ClaimedAsBefore, ShareLess
  <2> QED
    BY <2>1 DEF DueInv
<1>3. ASSUME NEW e \in Documents, Owes(t, e), due' = [due EXCEPT ![e] = @ - 1],
             print'[t].done \cup print'[t].unk = print[t].done \cup print[t].unk \cup {e}
      PROVE  DueInv'
  <2>1. ASSUME NEW d \in Documents
        PROVE  DuePart(d)'
    <3>1. DuePart(d) /\ (Unclaimed(d)' <=> Unclaimed(d))
      BY <1>1, ClaimedAsBefore DEF DueInv
    <3>2. CASE d = e
      <4>1. Owes(t, d) /\ ~Owes(t, d)' /\ due'[d] = due[d] - 1 /\ due[d] \in Int
        BY <1>1, <1>3, <3>2 DEF Owes
      <4>2. due'[d] - due[d] >= Share(t, d)' - Share(t, d)
        BY <3>1, <4>1 DEF Share
      <4> QED
        BY <1>1, <3>1, <4>2, DueKept
    <3>3. CASE d # e
      <4>1. (Owes(t, d)' => Owes(t, d)) /\ due'[d] = due[d]
        BY <1>1, <1>3, <3>3 DEF Owes
      <4> QED
        BY <1>1, <3>1, <4>1, ShareLess
    <3> QED
      BY <3>2, <3>3
  <2> QED
    BY <2>1 DEF DueInv
<1> QED
  BY <1>2, <1>3, WriteStep

(* Once a call is over, what it had not begun is due of a document that is *)
(* to be printed and of no other.                                          *)
LEMMA EndDue ==
  ASSUME TypesOK, NEW t \in Prints, CallOnly(t), print'[t] = Idle, due' = StillDue(t, stored'),
         DueInv, \A d \in Documents : Unclaimed(d)' => Unclaimed(d) \/ Owes(t, d)
  PROVE  DueInv'
<1>1. due \in [Documents -> Int] /\ due' \in [Documents -> Int]
  BY StillDueIs DEF TypesOK
<1>2. ASSUME NEW d \in Documents
      PROVE  DuePart(d)'
  <2>1. DuePart(d) /\ ~Owes(t, d)' /\ (Unclaimed(d)' => Unclaimed(d) \/ Owes(t, d))
    BY IdleCall DEF DueInv, Owes
  <2>2. due'[d] = IF stored'[d] \in {"pending", "failed"} \/ \E u \in Prints \ {t} : d \in print[u].sel
                  THEN due[d] ELSE 0
    BY <1>1, StillDueIs
  <2>3. CASE stored'[d] \in {"pending", "failed"} \/ \E u \in Prints \ {t} : d \in print[u].sel
    <3>1. due'[d] = due[d] /\ due[d] \in Int
      BY <1>1, <2>2, <2>3
    <3>2. due'[d] - due[d] >= Share(t, d)' - Share(t, d)
      BY <2>1, <3>1 DEF Share
    <3> QED
      BY <1>1, <2>1, <3>2, DueKept
  <2>4. CASE ~(stored'[d] \in {"pending", "failed"} \/ \E u \in Prints \ {t} : d \in print[u].sel)
    <3>1. due'[d] = 0 /\ (\A u \in Prints \ {t} : d \notin print[u].sel) /\ ~Unclaimed(d)'
      BY <2>2, <2>4 DEF Unclaimed
    <3> QED
      BY <2>1, <3>1, DueGone
  <2> QED
    BY <2>3, <2>4
<1> QED
  BY <1>2 DEF DueInv

LEMMA AbandonDue ==
  ASSUME CourseInv, DueInv, NEW t \in Prints, GiveUp(t) \/ SaveFails(t)
  PROVE  DueInv'
<1>1. /\ TypesOK /\ CallOnly(t) /\ UNCHANGED stored /\ print'[t] = Idle
      /\ due' = StillDue(t, stored')
  BY AbandonStep DEF CourseInv, Course
<1>2. ASSUME NEW d \in Documents, Unclaimed(d)'
      PROVE  Unclaimed(d) \/ Owes(t, d)
  <2>1. CASE print[t].phase = "asked" /\ d \in print[t].sel
    BY <2>1, AskedOwes
  <2>2. CASE ~(print[t].phase = "asked" /\ d \in print[t].sel)
    BY <1>1, <1>2, <2>2, OthersOwe DEF Unclaimed
  <2> QED
    BY <2>1, <2>2
<1> QED
  BY <1>1, <1>2, EndDue

LEMMA FinishDue ==
  ASSUME CourseInv, DueInv, NEW t \in Prints, Finish(t)
  PROVE  DueInv'
<1>1. /\ TypesOK /\ CallOnly(t) /\ print'[t] = Idle /\ print[t].phase = "answered"
      /\ due' = StillDue(t, stored')
      /\ \A d \in Documents :
           \/ stored'[d] = stored[d] /\ (d \in print[t].sel => Settled(stored[d]))
           \/ stored'[d] \in {"printed", "unknown"}
           \/ d \in print[t].sel /\ d \notin print[t].done \cup print[t].unk
  BY FinishStep DEF CourseInv, Course, Finish
<1>2. ASSUME NEW d \in Documents, Unclaimed(d)'
      PROVE  Unclaimed(d) \/ Owes(t, d)
  <2>1. stored'[d] \in {"pending", "failed"}
    BY <1>2 DEF Unclaimed
  <2>2. CASE stored'[d] = stored[d]
    BY <1>1, <1>2, <2>2, OthersOwe DEF Unclaimed
  <2>3. CASE d \in print[t].sel /\ d \notin print[t].done \cup print[t].unk
    BY <2>3 DEF Owes
  <2> QED
    BY <1>1, <2>1, <2>2, <2>3
<1> QED
  BY <1>1, <1>2, EndDue

(* The checkout takes up what is to be printed when no other call runs.    *)
LEMMA PrintDue ==
  ASSUME CourseInv, CopiesInv, NEW t \in Prints, CheckoutAndPrint(t)
  PROVE  CopiesInv'
<1>1. /\ TypesOK /\ CallOnly(t) /\ UNCHANGED <<stored, due>> /\ print[t] = Idle
      /\ screen["checkout"].open /\ screen["checkout"].task = NoPrint
      /\ screen' = [screen EXCEPT !["checkout"].task = t]
      /\ print'[t].phase = "asked" /\ print'[t].done = {} /\ print'[t].unk = {}
      /\ print'[t].sel = RetryableDocuments(screen["checkout"].copy)
      /\ due' \in [Documents -> Int] /\ screen["checkout"] \in Dialogs
      /\ screen \in [Screens -> Dialogs]
  BY PrintStep DEF CourseInv, TypesOK, Screens
<1>2. /\ screen["checkout"].copy = stored
      /\ \A u \in Prints : print[u].phase = "idle"
  BY <1>1, PrintsAssumption DEF CopiesInv, CheckoutInv
<1>3. CheckoutInv'
  <2>1. screen'["checkout"] = [screen["checkout"] EXCEPT !.task = t]
    BY <1>1 DEF Screens
  <2>2. screen'["checkout"].task = t /\ screen'["checkout"].copy = screen["checkout"].copy
    BY <1>1, <2>1 DEF Dialogs
  <2> QED
    BY <1>1, <1>2, <2>2, OthersOwe DEF CheckoutInv
<1>4. ASSUME NEW d \in Documents
      PROVE  DuePart(d)'
  <2>1. DuePart(d) /\ due'[d] = due[d] /\ due[d] \in Int
    BY <1>1 DEF CopiesInv, DueInv, TypesOK
  <2>2. ~Owes(t, d) /\ (Owes(t, d)' <=> stored[d] \in {"pending", "failed"})
    BY <1>1, <1>2, IdleCall DEF Owes, RetryableDocuments
  <2>3. Unclaimed(d) <=> stored[d] \in {"pending", "failed"}
    BY <1>2 DEF Unclaimed
  <2>4. ~Unclaimed(d)'
    BY <1>1, <1>2 DEF Unclaimed, RetryableDocuments
  <2>5. due'[d] - due[d] >= Share(t, d)' - Share(t, d)
    BY <2>1, <2>2, <2>3, <2>4 DEF Share
  <2> QED
    BY <1>1, <2>1, <2>5, DueKept
<1> QED
  BY <1>3, <1>4 DEF CopiesInv, DueInv

LEMMA ReprintDue ==
  ASSUME CourseInv, CopiesInv, NEW t \in Prints, NEW s \in Screens, Reprint(t, s)
  PROVE  CopiesInv'
<1>1. /\ TypesOK /\ DialogInv /\ CallOnly(t) /\ UNCHANGED stored /\ print[t] = Idle
      /\ screen[s].open /\ screen[s].task = NoPrint
      /\ screen' = [screen EXCEPT ![s].task = t]
      /\ print'[t].phase = "asked" /\ print'[t].done = {} /\ print'[t].unk = {}
      /\ print'[t].sel \subseteq Documents /\ due \in [Documents -> Int]
      /\ due' = [d \in Documents |-> IF d \in More(print'[t].sel) THEN due[d] + 1 ELSE due[d]]
      /\ due' \in [Documents -> Int] /\ screen[s] \in Dialogs
      /\ screen \in [Screens -> Dialogs]
  BY ReprintStep DEF CourseInv, TypesOK
<1>2. CheckoutInv'
  <2>1. CASE s = "checkout"
    <3>1. \A u \in Prints : print[u].phase = "idle"
      BY <1>1, <2>1, PrintsAssumption DEF CopiesInv, CheckoutInv
    <3>2. screen'["checkout"] = [screen["checkout"] EXCEPT !.task = t]
      BY <1>1, <2>1 DEF Screens
    <3>3. screen'["checkout"].task = t /\ screen'["checkout"].copy = screen["checkout"].copy
      BY <1>1, <2>1, <3>2 DEF Dialogs
    <3>4. screen["checkout"].copy = stored
      BY <1>1, <2>1 DEF CopiesInv, CheckoutInv
    <3> QED
      BY <1>1, <3>1, <3>3, <3>4, OthersOwe DEF CheckoutInv
  <2>2. CASE s = "history"
    <3>1. screen'["checkout"] = screen["checkout"] /\ ~screen["checkout"].open
      BY <1>1, <2>2 DEF DialogInv, Screens
    <3> QED
      BY <3>1 DEF CheckoutInv
  <2> QED
    BY <2>1, <2>2 DEF Screens
<1>3. ASSUME NEW d \in Documents
      PROVE  DuePart(d)'
  <2>1. DuePart(d) /\ due[d] \in Int /\ due'[d] \in Int
    BY <1>1 DEF CopiesInv, DueInv
  <2>2. ~Owes(t, d) /\ (Owes(t, d)' <=> d \in print'[t].sel)
    BY <1>1, IdleCall DEF Owes
  <2>3. Unclaimed(d)' => Unclaimed(d) /\ d \notin print'[t].sel
    BY <1>1, OthersOwe, IdleCall DEF Unclaimed
  <2>4. CASE d \notin print'[t].sel
    <3>1. due'[d] = due[d]
      BY <1>1, <2>4 DEF More
    <3> QED
      BY <1>1, <2>1, <2>2, <2>3, <2>4, <3>1, ShareLess
  <2>5. CASE d \in More(print'[t].sel)
    <3>1. due'[d] = due[d] + 1 /\ d \in print'[t].sel
      BY <1>1, <2>5 DEF More
    <3>2. due'[d] - due[d] >= Share(t, d)' - Share(t, d)
      BY <2>1, <2>2, <2>3, <3>1 DEF Share
    <3> QED
      BY <1>1, <2>1, <3>2, DueKept
  <2>6. CASE d \in print'[t].sel /\ d \notin More(print'[t].sel)
    <3>1. due'[d] = due[d] /\ Unclaimed(d)
      BY <1>1, <2>6 DEF More, Unclaimed, RetryableDocuments
    <3>2. due'[d] - due[d] >= Share(t, d)' - Share(t, d)
      BY <2>1, <2>2, <2>3, <2>6, <3>1 DEF Share
    <3> QED
      BY <1>1, <2>1, <3>2, DueKept
  <2> QED
    BY <2>4, <2>5, <2>6
<1> QED
  BY <1>2, <1>3 DEF CopiesInv, DueInv

LEMMA DialogDue ==
  ASSUME ~CheckoutDuringPrint, CourseInv, CopiesInv,
         OpenCheckout \/ OpenHistory \/ VerifyTickets \/ \E s \in Screens : Close(s)
  PROVE  CopiesInv'
<1>1. UNCHANGED <<stored, print, due>>
  BY DEF OpenCheckout, OpenHistory, VerifyTickets, Close
<1>2. DueInv'
  BY <1>1 DEF CopiesInv, DueInv, DuePart, Owing, Owes, Unclaimed
<1>3. /\ screen \in [Screens -> Dialogs] /\ listed = stored /\ screen["checkout"] \in Dialogs
      /\ "checkout" \in Screens /\ "history" \in Screens
  BY DEF CourseInv, TypesOK, Screens
<1>4. CASE OpenCheckout
  <2>1. screen'["checkout"] = Opened(stored) /\ \A u \in Prints : print[u] = Idle
    BY <1>3, <1>4 DEF OpenCheckout
  <2>2. screen'["checkout"].copy = stored /\ \A u \in Prints : print[u].phase = "idle"
    BY <2>1, IdleCall DEF Opened
  <2> QED
    BY <1>1, <1>2, <2>2 DEF CopiesInv, CheckoutInv
<1>5. CASE OpenHistory
  <2>1. screen'["checkout"] = screen["checkout"]
    BY <1>3, <1>5 DEF OpenHistory
  <2> QED
    BY <1>1, <1>2, <2>1 DEF CopiesInv, CheckoutInv
<1>6. CASE VerifyTickets
  <2>1. screen'["checkout"] = [screen["checkout"] EXCEPT !.picker = TRUE]
    BY <1>3, <1>6 DEF VerifyTickets
  <2>2. /\ screen'["checkout"].open = screen["checkout"].open
        /\ screen'["checkout"].copy = screen["checkout"].copy
        /\ screen'["checkout"].task = screen["checkout"].task
    BY <1>3, <2>1 DEF Dialogs
  <2> QED
    BY <1>1, <1>2, <2>2 DEF CopiesInv, CheckoutInv
<1>7. ASSUME NEW s \in Screens, Close(s)
      PROVE  CopiesInv'
  <2>1. screen'["checkout"] = screen["checkout"] \/ screen'["checkout"] = Closed
    BY <1>3, <1>7 DEF Close
  <2> QED
    BY <1>1, <1>2, <2>1 DEF CopiesInv, CheckoutInv, Closed
<1> QED
  BY <1>4, <1>5, <1>6, <1>7

(* What is to be printed is due: by itself, or by the call that took it up. *)
LEMMA RetryableDue ==
  ASSUME CourseInv, DueInv, NEW d \in Documents, stored[d] \in {"pending", "failed"}
  PROVE  /\ due[d] >= 1
         /\ \A w \in Prints : print[w].phase # "asked" /\ Owes(w, d) => due[d] >= 2
<1>1. due[d] \in Int /\ due[d] >= Cardinality(Owing(d)) + (IF Unclaimed(d) THEN 1 ELSE 0)
  BY DEF CourseInv, TypesOK, DueInv, DuePart
<1>2. Owing(d) \in SUBSET Prints
  BY DEF Owing
<1>3. IsFiniteSet(Owing(d)) /\ Cardinality(Owing(d)) \in Nat
  BY <1>2, PrintsAssumption, FS_Subset, FS_CardinalityType
<1>4. CASE Unclaimed(d)
  <2>1. due[d] >= Cardinality(Owing(d)) + 1
    BY <1>1, <1>4
  <2>2. ASSUME NEW w \in Prints, Owes(w, d)
        PROVE  Cardinality(Owing(d)) >= 1
    BY <1>2, <2>2, CountSome DEF Owing
  <2> QED
    BY <1>1, <1>3, <2>1, <2>2
<1>5. CASE ~Unclaimed(d)
  <2>1. PICK u \in Prints : print[u].phase = "asked" /\ Owes(u, d)
    BY <1>5, AskedOwes DEF Unclaimed
  <2>2. Cardinality(Owing(d)) >= 1
    BY <1>2, <2>1, CountSome DEF Owing
  <2>3. ASSUME NEW w \in Prints, print[w].phase # "asked", Owes(w, d)
        PROVE  Cardinality(Owing(d)) >= 2
    <3>1. u \in Owing(d) \ {w} /\ w \in Owing(d)
      BY <2>1, <2>3 DEF Owing
    <3>2. Cardinality(Owing(d) \ {w}) \in Nat /\ Cardinality(Owing(d) \ {w}) >= 1
      <4>1. Owing(d) \ {w} \in SUBSET Prints /\ Owing(d) \ {w} # {}
        BY <1>2, <3>1
      <4> QED
        BY <4>1, CountSome
    <3>3. Cardinality(Owing(d)) = Cardinality(Owing(d) \ {w}) + 1
      BY <1>2, <3>1, CountWithout
    <3> QED
      BY <3>2, <3>3
  <2> QED
    BY <1>1, <1>3, <2>2, <2>3
<1> QED
  BY <1>4, <1>5

LEMMA StopDue ==
  ASSUME CourseInv, DueInv, Stop
  PROVE  CopiesInv'
<1>1. CheckoutInv'
  <2>1. screen'["checkout"] = Closed
    BY DEF Stop, Screens
  <2> QED
    BY <2>1 DEF CheckoutInv, Closed
<1>2. /\ UNCHANGED stored /\ print' = [t \in Prints |-> Idle] /\ due \in [Documents -> Int]
  BY DEF Stop, CourseInv, TypesOK
<1>3. ASSUME NEW d \in Documents
      PROVE  DuePart(d)'
  <2>1. Owing(d)' = {}
    BY <1>2, IdleCall DEF Owing, Owes
  <2>2. Cardinality(Owing(d)') = 0
    BY <2>1, FS_EmptySet
  <2>3. PICK torn \in BOOLEAN :
          due'[d] = IF d \notin RetryableDocuments(stored) THEN 0
                    ELSE IF torn /\ \E t \in Prints : print[t].phase = "writing" /\ First(print[t].left) = d
                    THEN due[d] - 1 ELSE due[d]
    BY DEF Stop
  <2>4. CASE stored[d] \notin {"pending", "failed"}
    <3>1. due'[d] = 0 /\ ~Unclaimed(d)'
      BY <1>2, <2>3, <2>4 DEF RetryableDocuments, Unclaimed
    <3> QED
      BY <2>2, <3>1 DEF DuePart
  <2>5. CASE stored[d] \in {"pending", "failed"}
    <3>1. due[d] \in Int /\ due[d] >= 1
      BY <1>2, <2>5, RetryableDue
    <3>2. ASSUME NEW w \in Prints, print[w].phase = "writing", First(print[w].left) = d
          PROVE  due[d] >= 2
      <4>1. /\ print[w].left # {} /\ print[w].left = print[w].sel \ print[w].done
            /\ print[w].unk = {} /\ print[w].left \subseteq Documents
        BY <3>2 DEF CourseInv, CallInv, CallPart, TypesOK, Calls
      <4>2. d \in print[w].left
        BY <3>2, <4>1, FirstIsLeft
      <4>3. Owes(w, d)
        BY <4>1, <4>2 DEF Owes
      <4> QED
        BY <2>5, <3>2, <4>3, RetryableDue
    <3>3. d \in RetryableDocuments(stored)
      BY <2>5 DEF RetryableDocuments
    <3>4. due'[d] \in Int /\ due'[d] >= 1
      <4>1. CASE torn /\ \E t \in Prints : print[t].phase = "writing" /\ First(print[t].left) = d
        <5>1. due'[d] = due[d] - 1 /\ due[d] >= 2
          BY <2>3, <3>2, <3>3, <4>1
        <5> QED
          BY <3>1, <5>1
      <4>2. CASE ~(torn /\ \E t \in Prints : print[t].phase = "writing" /\ First(print[t].left) = d)
        <5>1. due'[d] = due[d]
          BY <2>3, <3>3, <4>2
        <5> QED
          BY <3>1, <5>1
      <4> QED
        BY <4>1, <4>2
    <3> QED
      BY <2>2, <3>4 DEF DuePart
  <2> QED
    BY <2>4, <2>5
<1> QED
  BY <1>1, <1>3 DEF CopiesInv, DueInv

LEMMA InitDue == Init => CopiesInv
<1> SUFFICES ASSUME Init
             PROVE  CopiesInv
  OBVIOUS
<1>1. CheckoutInv
  <2>1. screen["checkout"] = Closed
    BY DEF Init, Screens
  <2> QED
    BY <2>1 DEF CheckoutInv, Closed
<1>2. ASSUME NEW d \in Documents
      PROVE  DuePart(d)
  <2>1. Owing(d) = {}
    BY IdleCall DEF Init, Owing, Owes
  <2>2. Cardinality(Owing(d)) = 0
    BY <2>1, FS_EmptySet
  <2>3. stored[d] \in {"not_requested", "pending"} /\ due[d] = IF stored[d] = "pending" THEN 1 ELSE 0
    BY DEF Init, InitialPrintings
  <2>4. Unclaimed(d) => stored[d] = "pending"
    BY <2>3 DEF Unclaimed
  <2> QED
    BY <2>2, <2>3, <2>4 DEF DuePart
<1> QED
  BY <1>1, <1>2 DEF CopiesInv, DueInv

LEMMA NextDue ==
  ASSUME ~CheckoutDuringPrint
  PROVE  CourseInv /\ CopiesInv /\ [Next]_vars => CopiesInv'
<1> SUFFICES ASSUME CourseInv, CopiesInv, [Next]_vars
             PROVE  CopiesInv'
  OBVIOUS
<1>1. DueInv /\ CheckoutInv /\ TypesOK /\ DialogInv
  BY DEF CopiesInv, CourseInv
<1>2. ASSUME NEW t \in Prints, Continue(t)
      PROVE  CopiesInv'
  <2>1. Course(t)
    BY <1>2, BeginStep, AbandonStep, WaitStep, StartJobStep, WriteStep, CutStep, FinishStep
       DEF Continue
  <2>2. print[t].phase # "idle"
    BY <1>2 DEF Continue, Begin, GiveUp, Refuse, TakePriority, StartJob, WriteDocument, Cut,
                SaveFails, Finish
  <2>3. CheckoutInv'
    BY <1>1, <2>1, <2>2, CheckoutKept DEF Course
  <2>4. DueInv'
    BY <1>1, <1>2, BeginDue, AbandonDue, WaitDue, WriteDue, FinishDue DEF Continue
  <2> QED
    BY <2>3, <2>4 DEF CopiesInv
<1>3. ASSUME NEW t \in Prints, CheckoutAndPrint(t)
      PROVE  CopiesInv'
  BY <1>3, PrintDue
<1>4. ASSUME NEW t \in Prints, NEW s \in Screens, Reprint(t, s)
      PROVE  CopiesInv'
  BY <1>4, ReprintDue
<1>5. CASE StartReading \/ ReadingAnswers \/ Age
  <2>1. UNCHANGED <<stored, screen, print, due>>
    BY <1>5, ReadingStep
  <2> QED
    BY <1>1, <2>1 DEF CopiesInv, CheckoutInv, DueInv, DuePart, Owing, Owes, Unclaimed
<1>6. CASE UNCHANGED vars
  BY <1>1, <1>6 DEF vars, CopiesInv, CheckoutInv, DueInv, DuePart, Owing, Owes, Unclaimed
<1> QED
  BY <1>1, <1>2, <1>3, <1>4, <1>5, <1>6, DialogDue, StopDue DEF Next

(* What counts the copies says what the properties say.                    *)
LEMMA CopiesCounted == CourseInv /\ CopiesInv => NoUnaskedCopy /\ RecordMatchesPaper
<1> SUFFICES ASSUME CourseInv, CopiesInv, NEW d \in Documents
             PROVE  /\ due[d] >= 0 /\ (stored[d] = "printed" => d \in whole)
                    /\ stored[d] \in {"pending", "failed"} => due[d] > 0
  BY DEF NoUnaskedCopy, RecordMatchesPaper
<1>1. DueInv /\ due[d] \in Int
  BY DEF CopiesInv, CourseInv, TypesOK
<1>2. due[d] >= 0
  <2>1. Owing(d) \in SUBSET Prints
    BY DEF Owing
  <2>2. Cardinality(Owing(d)) \in Nat
    BY <2>1, PrintsAssumption, FS_Subset, FS_CardinalityType
  <2> QED
    BY <1>1, <2>2 DEF DueInv, DuePart
<1>3. stored[d] = "printed" => d \in whole
  BY DEF CourseInv, PaperInv
<1>4. stored[d] \in {"pending", "failed"} => due[d] > 0
  BY <1>1, RetryableDue
<1> QED
  BY <1>2, <1>3, <1>4

LEMMA CopiesAlways ==
  ASSUME ~CheckoutDuringPrint
  PROVE  Spec => [](CourseInv /\ CopiesInv)
<1>1. CourseInv /\ CopiesInv /\ [Next]_vars => CourseInv' /\ CopiesInv'
  BY NextCourse, NextDue
<1> QED
  BY <1>1, InitCourse, InitDue, PTL DEF Spec

(* No paper nobody asked for, for any tickets and any number of prints side *)
(* by side, provided a checkout does not take the order up while a closed   *)
(* history still prints it (orderService.ts:164).                           *)
THEOREM NoCopyWithoutRequest ==
  ASSUME ~CheckoutDuringPrint
  PROVE  Spec => []NoUnaskedCopy
BY CopiesAlways, CopiesCounted, PTL

(* Under the same condition the record agrees with the paper: what is       *)
(* recorded as printed was written to the end, and a copy is still due of   *)
(* what is recorded as pending or failed (failPrinting, completePrinting).  *)
THEOREM RecordAgreesWithPaper ==
  ASSUME ~CheckoutDuringPrint
  PROVE  Spec => []RecordMatchesPaper
BY CopiesAlways, CopiesCounted, PTL

(* Whatever the checkout does, what is recorded as printed was written to   *)
(* the end at least once, and the calls keep their types.                   *)
THEOREM PrintedWasWritten ==
  Spec => [](TypeOK /\ \A d \in Documents : stored[d] = "printed" => d \in whole)
<1>1. CourseInv => TypeOK /\ \A d \in Documents : stored[d] = "printed" => d \in whole
  <2> SUFFICES ASSUME CourseInv
               PROVE  TypeOK /\ \A d \in Documents : stored[d] = "printed" => d \in whole
    OBVIOUS
  <2>1. TypesOK /\ CallInv /\ DialogInv /\ PaperInv
    BY DEF CourseInv
  <2>2. ASSUME NEW t \in Prints
        PROVE  /\ print[t].phase \in Phases
               /\ print[t].sel \cup print[t].done \cup print[t].unk \subseteq Documents
               /\ print[t].phase = "writing" => print[t].left # {}
               /\ \A s \in Screens : screen[s].task = t => print[t].phase # "idle"
    <3>1. print[t] \in Calls /\ CallPart(print[t]) /\ NoPrint \notin Prints
      BY <2>1, PrintsAssumption DEF TypesOK, CallInv
    <3>2. \A s \in Screens : screen[s].task = t => print[t].phase # "idle"
      BY <2>1, <3>1 DEF DialogInv, DialogPart
    <3> QED
      BY <3>1, <3>2 DEF Calls, CallPart
  <2>3. status.seen \in {"ready", "stale"}
    BY <2>1 DEF TypesOK, Readings
  <2> QED
    BY <2>1, <2>2, <2>3 DEF TypeOK, TypesOK, Dialogs, Phases, PaperInv
<1> QED
  BY <1>1, CourseAlways, PTL

=============================================================================
