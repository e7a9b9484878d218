------------------------ MODULE CatalogDistribution -------------------------
(***************************************************************************)
(* The shared catalogue: tablets download the versions published, a        *)
(* manager activates them, settles conflicts, edits and publishes.         *)
(*                                                                         *)
(* Changes of the store are computed by the screen from a snapshot and     *)
(* written only if no other write came between (CATALOG_CHANGED), at most  *)
(* five times.  The download of the background runs beside the dialog, and *)
(* closing the dialog does not stop what it began: an operation left       *)
(* behind may answer after another dialog was opened.                      *)
(***************************************************************************)
EXTENDS CatalogStore, FiniteSets

CONSTANTS Tablets, Dialogs,
          MaxVersions, \* versions the organization publishes
          MaxEdits,    \* edits made on the tablets
          MaxRunning,  \* operations under way at the same time
          MaxShown,    \* dialogs shown at the same time
          ReadsFail    \* the catalogue may fail to be read again after a change

Background == "background"
Slots == Dialogs \cup {Background}
NoDialog == "none"

VARIABLES versions, \* the versions the server holds
          store,    \* the catalogue of each tablet
          task,     \* the operation of the background and of each dialog
          visible,  \* the dialog shown
          shown,    \* the status that dialog last read
          screen,   \* the rows and the base the screen last loaded
          seen,     \* the published value known when a field was last decided
          edits     \* how many edits were made

vars == <<versions, store, task, visible, shown, screen, seen, edits>>

\* version: the one received, or the one a publication was prepared on;
\* snap: the state of the store a change was computed on.
NoTask ==
  [kind |-> "none", stage |-> "none", version |-> 0, content |-> Seed, seen |-> Seed,
   choice |-> "local", asked |-> {}, snap |-> NewStore]
Running == {r \in Tablets \X Slots : task[r[1]][r[2]] # NoTask}
Applying(t) == \E s \in Slots : task[t][s].kind \in {"activate", "resolve"}
Room == Cardinality(Running) < MaxRunning
Edited == edits < MaxEdits /\ edits' = edits + 1

Status(s) ==
  [base |-> s.base, active |-> s.active, pending |-> s.pending, conflicts |-> s.conflicts]

VersionContent(n) == IF n = 0 THEN Seed ELSE versions[n].content

\* Nothing is published yet, or another tablet already published one change.
Init ==
  /\ versions \in {<<>>} \cup
       {<<[content |-> [Seed EXCEPT ![f] = v], unseen |-> {}]>> :
          f \in Fields, v \in Values \ {Initial}}
  /\ store = [t \in Tablets |-> NewStore]
  /\ task = [t \in Tablets |-> [s \in Slots |-> NoTask]]
  /\ visible = [t \in Tablets |-> NoDialog]
  /\ shown = [t \in Tablets |-> Status(NewStore)]
  /\ screen = [t \in Tablets |-> NewStore]
  /\ seen = [t \in Tablets |-> Seed]
  /\ edits = 0

(***************************************************************************)
(* Writes of the store.                                                    *)
(***************************************************************************)
\* mistake: a change is written over whatever another one wrote
NeverOutdated(tasks) == tasks
\* A write makes the snapshots the other operations hold outdated.
Outdate(tasks) ==
  [s \in Slots |-> IF tasks[s].stage = "write"
                   THEN [tasks[s] EXCEPT !.stage = "outdated", !.snap = NewStore]
                   ELSE tasks[s]]

\* The operation of slot s ends; the dialog that began it reads the status again.
Ended(t, s) == [task[t] EXCEPT ![s] = NoTask]
EndWith(t, s, tasks) ==
  /\ task' = [task EXCEPT ![t] = tasks]
  /\ shown' = [shown EXCEPT ![t] = IF visible[t] = s THEN Status(store'[t]) ELSE @]
End(t, s) == UNCHANGED store /\ EndWith(t, s, Ended(t, s))

\* The failure of a download is noted in the store, which outdates other snapshots.
EndNoted(t, s) == UNCHANGED store /\ EndWith(t, s, Outdate(Ended(t, s)))

(***************************************************************************)
(* The dialog.                                                             *)
(***************************************************************************)
\* The screen behind an activation answers to nothing.
OpenDialog(t, d) ==
  /\ visible[t] = NoDialog /\ ~Applying(t) /\ task[t][d] = NoTask
  /\ Cardinality({u \in Tablets : visible[u] # NoDialog}) < MaxShown
  /\ visible' = [visible EXCEPT ![t] = d]
  /\ shown' = [shown EXCEPT ![t] = Status(store[t])]
  /\ UNCHANGED <<versions, store, task, screen, seen, edits>>

\* Closed when idle, or locked because the application is hidden.
CloseDialog(t) ==
  /\ visible[t] # NoDialog
  /\ visible' = [visible EXCEPT ![t] = NoDialog]
  /\ shown' = [shown EXCEPT ![t] = Status(NewStore)]
  /\ UNCHANGED <<versions, store, task, screen, seen, edits>>

\* The manager may use the dialog: nothing it began is under way.
Usable(t) == visible[t] # NoDialog /\ task[t][visible[t]] = NoTask

Save(t) ==
  /\ Usable(t) /\ Edited
  /\ \E form \in Forms : \E f \in form, v \in Values :
       /\ v # screen[t].local[f]
       /\ store' = [store EXCEPT ![t] = Saved(@, form, [screen[t].local EXCEPT ![f] = v])]
       /\ seen' = [seen EXCEPT ![t][f] = screen[t].base[f]]
  /\ screen' = [screen EXCEPT ![t] = store'[t]]
  /\ task' = [task EXCEPT ![t] = Outdate(@)]
  /\ UNCHANGED <<versions, visible, shown>>

(***************************************************************************)
(* Exchanges with the server.                                              *)
(***************************************************************************)
StartDownload(t, s) ==
  /\ task[t][s] = NoTask /\ s \in {Background, visible[t]}
  /\ Room
  /\ task' = [task EXCEPT ![t][s] = [NoTask EXCEPT !.kind = "download", !.stage = "sent"]]
  /\ UNCHANGED <<versions, store, visible, shown, screen, seen, edits>>

Received(n) == [NoTask EXCEPT !.kind = "download", !.stage = "read", !.version = n]

DownloadAnswered(t, s) ==
  /\ task[t][s].kind = "download" /\ task[t][s].stage = "sent"
  /\ IF versions = <<>>
     THEN EndNoted(t, s)
     ELSE /\ task' = [task EXCEPT ![t][s] = Received(Len(versions))]
          /\ UNCHANGED <<store, shown>>
  /\ UNCHANGED <<versions, visible, screen, seen, edits>>

\* Offered while the dialog shows neither a version to activate nor a conflict
\* (a publication that would change nothing is left out).
StartPublication(t) ==
  /\ Usable(t) /\ Room /\ shown[t].pending = 0 /\ shown[t].conflicts = {}
  /\ Len(versions) < MaxVersions /\ store[t].local # store[t].base
  /\ task' = [task EXCEPT ![t][visible[t]] =
                [NoTask EXCEPT !.kind = "publish", !.stage = "sent", !.version = shown[t].active,
                               !.content = store[t].local, !.seen = seen[t]]]
  /\ UNCHANGED <<versions, store, visible, shown, screen, seen, edits>>

\* mistake: a publication is accepted whatever the version it was prepared on
AnyHead(p) == TRUE
HeadMatches(p) == Len(versions) = p.version

Published(p) ==
  LET changed == {f \in Fields : p.content[f] # VersionContent(Len(versions))[f]} IN
  Append(versions,
    [content |-> p.content,
     unseen |-> {f \in changed : p.seen[f] # VersionContent(Len(versions))[f]}])

PublicationAnswered(t, s) ==
  LET p == task[t][s] IN
  /\ p.kind = "publish" /\ p.stage = "sent"
  /\ IF HeadMatches(p)
     THEN /\ versions' = Published(p)
          /\ task' = [task EXCEPT ![t][s] = Received(Len(versions'))]
          /\ UNCHANGED <<store, shown>>
     ELSE End(t, s) /\ UNCHANGED versions
  /\ UNCHANGED <<visible, screen, seen, edits>>

\* No answer comes; a publication may have been accepted all the same.
AnswerLost(t, s) ==
  LET p == task[t][s] IN
  /\ p.kind \in {"download", "publish"} /\ p.stage = "sent"
  /\ versions' \in {versions} \cup
       (IF p.kind = "publish" /\ HeadMatches(p)
        THEN {Published(p)} ELSE {})
  /\ IF p.kind = "download" THEN EndNoted(t, s) ELSE End(t, s)
  /\ UNCHANGED <<visible, screen, seen, edits>>

(***************************************************************************)
(* Activation and decision of conflicts.                                   *)
(***************************************************************************)
StartActivation(t) ==
  /\ Usable(t) /\ Room /\ ~Applying(t) /\ shown[t].pending # 0 /\ shown[t].conflicts = {}
  /\ task' = [task EXCEPT ![t][visible[t]] =
                [NoTask EXCEPT !.kind = "activate", !.stage = "read"]]
  /\ UNCHANGED <<versions, store, visible, shown, screen, seen, edits>>

StartResolution(t) ==
  /\ Usable(t) /\ Room /\ ~Applying(t) /\ shown[t].conflicts # {}
  /\ \E choice \in {"local", "remote"} :
       task' = [task EXCEPT ![t][visible[t]] =
                  [NoTask EXCEPT !.kind = "resolve", !.stage = "read", !.choice = choice,
                     !.asked = {[field |-> c.field, remote |-> shown[t].base[c.field]] :
                                  c \in shown[t].conflicts}]]
  /\ UNCHANGED <<versions, store, visible, shown, screen, seen, edits>>

\* Deciding a conflict on the screen, the manager sees the value published.
SeenWith(p, known, f) ==
  IF p.kind = "resolve" /\ \E a \in p.asked : a.field = f
  THEN (CHOOSE a \in p.asked : a.field = f).remote ELSE known[f]

\* What the operation p refuses on the snapshot s, and what it leaves as it is.
Refuses(p, s) ==
  CASE p.kind = "download" -> p.version # s.active /\ StaleFor(s, p.version)
    [] p.kind = "activate" -> s.conflicts # {}
    [] p.kind = "resolve" -> s.conflicts # {} /\ p.choice = "remote" /\ EditedSince(s)
Nothing(p, s) ==
  CASE p.kind = "download" -> Known(s, p.version)
    [] p.kind = "activate" -> s.pending = 0
    [] p.kind = "resolve" -> s.active = 0 \/ s.conflicts = {}
Changed(p, s) ==
  CASE p.kind = "download" -> Staged(s, p.version)
    [] p.kind = "activate" -> Activated(s, VersionContent(s.pending))
    [] p.kind = "resolve" -> Resolved(s, p.choice)

\* After a change or when there is none: an application reads its rows again.
Done(t, s, tasks) ==
  IF tasks[s].kind = "download"
  THEN EndWith(t, s, [tasks EXCEPT ![s] = NoTask])
  ELSE /\ task' = [task EXCEPT ![t] = [tasks EXCEPT ![s] =
                         [NoTask EXCEPT !.kind = tasks[s].kind, !.stage = "reload"]]]
       /\ UNCHANGED shown

\* The snapshot is read and the change computed.
Compute(t, s) ==
  LET p == task[t][s] IN
  /\ p.stage = "read"
  /\ IF Refuses(p, store[t])
     THEN IF p.kind = "download" THEN EndNoted(t, s) ELSE End(t, s)
     ELSE IF Nothing(p, store[t])
     THEN UNCHANGED store /\ Done(t, s, task[t])
     ELSE /\ task' = [task EXCEPT ![t][s] = [p EXCEPT !.stage = "write", !.snap = store[t]]]
          /\ UNCHANGED <<store, shown>>
  /\ UNCHANGED <<versions, visible, screen, seen, edits>>

Commit(t, s) ==
  LET p == task[t][s] IN
  /\ p.stage = "write"
  /\ store' = [store EXCEPT ![t] = Changed(p, p.snap)]
  /\ Done(t, s, Outdate(task[t]))
  /\ seen' = [seen EXCEPT ![t] =
       [f \in Fields |-> IF store'[t].local[f] = store'[t].base[f]
                         THEN store'[t].base[f] ELSE SeenWith(p, @, f)]]
  /\ UNCHANGED <<versions, visible, screen, edits>>

\* CATALOG_CHANGED: tried again on a new snapshot, or given up (after the fifth
\* attempt in the code, after any of them here).
Retry(t, s) ==
  LET p == task[t][s] IN
  /\ p.stage = "outdated"
  /\ \/ /\ task' = [task EXCEPT ![t][s] = [p EXCEPT !.stage = "read"]]
        /\ UNCHANGED <<store, shown>>
     \/ p.kind = "download" /\ EndNoted(t, s)
     \/ p.kind # "download" /\ End(t, s)
  /\ UNCHANGED <<versions, visible, screen, seen, edits>>

\* An order, a payment or an option sheet is open, a durable intent is not
\* ended, or the merged catalogue is not valid: nothing is written.
ApplicationRefused(t, s) ==
  /\ task[t][s].kind \in {"activate", "resolve"} /\ task[t][s].stage \in {"read", "write", "outdated"}
  /\ End(t, s)
  /\ UNCHANGED <<versions, visible, screen, seen, edits>>

\* The rows shown are loaded again behind the gate; that read may fail.
Reload(t, s) ==
  /\ task[t][s].kind \in {"activate", "resolve"} /\ task[t][s].stage = "reload"
  /\ screen' \in {[screen EXCEPT ![t] = store[t]]} \cup (IF ReadsFail THEN {screen} ELSE {})
  /\ End(t, s)
  /\ UNCHANGED <<versions, visible, seen, edits>>

\* The application stops and starts again from its storage.
Restart(t) ==
  /\ \E s \in Slots : task[t][s] # NoTask
  /\ task' = [task EXCEPT ![t] = [s \in Slots |-> NoTask]]
  /\ visible' = [visible EXCEPT ![t] = NoDialog]
  /\ shown' = [shown EXCEPT ![t] = Status(NewStore)]
  /\ screen' = [screen EXCEPT ![t] = store[t]]
  /\ UNCHANGED <<versions, store, seen, edits>>

Next ==
  \E t \in Tablets :
    \/ \E d \in Dialogs : OpenDialog(t, d)
    \/ CloseDialog(t) \/ Save(t)
    \/ StartPublication(t) \/ StartActivation(t) \/ StartResolution(t) \/ Restart(t)
    \/ \E s \in Slots : \/ StartDownload(t, s) \/ DownloadAnswered(t, s)
                        \/ PublicationAnswered(t, s) \/ AnswerLost(t, s)
                        \/ Compute(t, s) \/ Commit(t, s) \/ Retry(t, s)
                        \/ ApplicationRefused(t, s) \/ Reload(t, s)

Spec == Init /\ [][Next]_vars
-----------------------------------------------------------------------------
Stores == [local : Content, base : Content, active : 0..MaxVersions, pending : 0..MaxVersions,
           conflicts : SUBSET [field : Fields, local : Values]]

\* The versions a tablet names exist, the downloaded one is newer than the
\* active one, its merge base is the content of the active version, and what
\* the dialog or an operation keeps of the store is a state of that store.
TypeOK ==
  /\ \A n \in 1..Len(versions) : versions[n] \in [content : Content, unseen : SUBSET Fields]
  /\ Len(versions) <= MaxVersions
  /\ \A t \in Tablets :
       /\ store[t] \in Stores /\ screen[t] \in Stores /\ seen[t] \in Content
       /\ Newest(store[t]) <= Len(versions)
       /\ store[t].pending # 0 => store[t].pending > store[t].active
       /\ store[t].base = VersionContent(store[t].active)
       /\ visible[t] \in Dialogs \cup {NoDialog}

\* A local value that departs from the active version is an edit made, or a
\* decision taken, by someone who saw that version's value, or a conflict
\* still shown (docs/catalog-distribution.md, rules of the merge).
AskedOrKnown ==
  \A t \in Tablets, f \in Fields :
    store[t].local[f] # store[t].base[f] =>
      \/ \E c \in store[t].conflicts : c.field = f
      \/ seen[t][f] = store[t].base[f]

\* What a publication changes for everybody was decided by someone who saw
\* the value it replaces: no publication undoes another one unseen.
PublishedSeen ==
  \A n \in 1..Len(versions) : versions[n].unseen = {}

\* A local value is replaced only by an edit, by a version while it was not
\* edited, or by the decision of the conflict that showed that very value.
NoEditLost ==
  [][\A t \in Tablets, f \in Fields :
       store'[t].local[f] # store[t].local[f] =>
         \/ edits' # edits
         \/ store[t].local[f] = store[t].base[f]
         \/ [field |-> f, local |-> store[t].local[f]] \in store[t].conflicts]_vars

\* A tablet never goes back to an older version, in use or waiting, whatever
\* the order in which the answers arrive.
NeverOlder ==
  [][\A t \in Tablets : Newest(store'[t]) >= Newest(store[t])]_vars
=============================================================================
