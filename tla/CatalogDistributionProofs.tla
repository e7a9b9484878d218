--------------------- MODULE CatalogDistributionProofs ----------------------
(***************************************************************************)
(* What the tablets make of one catalogue, for any forms, values, tablets, *)
(* dialogs and versions: no tablet goes back to an older version, no edit  *)
(* is lost and, where the rows are read again after each change, nothing   *)
(* published is overwritten by someone who never saw it.                   *)
(*                                                                         *)
(* A change is computed on a snapshot and written later: BaseInv says what *)
(* still holds when it is.  Nothing else is written meanwhile, or the      *)
(* change would be outdated.  ScreensInv says what the screens still know  *)
(* while operations left behind run under them.                            *)
(*                                                                         *)
(* The last part is about the screen a catalogue is applied under          *)
(* (AppScreen): the prices of its cart and the payments it shows.          *)
(***************************************************************************)
EXTENDS CatalogDistribution, AppScreen, SequenceTheorems, TLAPS

Conflict == [field : Fields, local : Values]
Store == [local : Content, base : Content, active : Nat, pending : Nat, conflicts : SUBSET Conflict]
Shown == [base : Content, active : Nat, pending : Nat, conflicts : SUBSET Conflict]
Version == [content : Content, unseen : SUBSET Fields]
Task ==
  [kind : {"none", "download", "publish", "activate", "resolve"},
   stage : {"none", "sent", "read", "write", "outdated", "reload"},
   version : Nat, content : Content, seen : Content, choice : {"local", "remote"},
   asked : SUBSET [field : Fields, remote : Values], snap : Store]

TypesOK ==
  /\ versions \in Seq(Version)
  /\ store \in [Tablets -> Store]
  /\ task \in [Tablets -> [Slots -> Task]]
  /\ visible \in [Tablets -> Dialogs \cup {NoDialog}]
  /\ shown \in [Tablets -> Shown]
  /\ screen \in [Tablets -> Store]
  /\ seen \in [Tablets -> Content]
  /\ edits \in Nat

StorePart(t) ==
  /\ store[t].active <= Len(versions) /\ store[t].pending <= Len(versions)
  /\ store[t].pending # 0 => store[t].pending > store[t].active
  /\ store[t].base = VersionContent(store[t].active)

(* A change is only computed by an operation that makes one, and written   *)
(* on the store it was computed for.                                       *)
WritePart(t, s) ==
  LET p == task[t][s]
  IN  /\ p.stage \in {"read", "write", "outdated"} => p.kind \in {"download", "activate", "resolve"}
      /\ p.stage \in {"read", "write", "outdated"} /\ p.kind = "download" =>
           p.version <= Len(versions)
      /\ p.stage = "reload" => p.kind \in {"activate", "resolve"}
      /\ p.stage = "write" =>
           p.snap = store[t] /\ ~Refuses(p, store[t]) /\ ~Nothing(p, store[t])

BaseInv ==
  /\ TypesOK
  /\ \A t \in Tablets : StorePart(t) /\ \A s \in Slots : WritePart(t, s)
-----------------------------------------------------------------------------
Applies(t, s) == task[t][s].kind \in {"activate", "resolve"}

(* One activation or decision at a time, and only for the dialog shown or  *)
(* for one that was closed.                                                *)
ApplyingPart(t) ==
  \A s \in Slots :
    Applies(t, s) => visible[t] \in {NoDialog, s} /\ \A r \in Slots : Applies(t, r) => r = s

Reloading(t) == \E s \in Slots : task[t][s].stage = "reload"

ShownPart(t) ==
  visible[t] # NoDialog /\ ~Reloading(t) =>
    /\ shown[t].base = store[t].base /\ shown[t].active = store[t].active
    /\ shown[t].conflicts = store[t].conflicts

ScreenPart(t) ==
  ~Reloading(t) => screen[t].local = store[t].local /\ screen[t].base = store[t].base

(* A decision is about the conflicts there are, a publication says what    *)
(* its author saw of the version it replaces.                              *)
AskedPart(t, s) ==
  task[t][s].kind = "resolve" /\ task[t][s].stage # "reload" =>
    \A a : a \in task[t][s].asked <=>
             \E c \in store[t].conflicts :
               a = [field |-> c.field, remote |-> store[t].base[c.field]]

PublishPart(t, s) ==
  LET p == task[t][s]
  IN  p.kind = "publish" =>
        /\ p.version <= Len(versions)
        /\ \A f \in Fields :
             p.content[f] # VersionContent(p.version)[f] => p.seen[f] = VersionContent(p.version)[f]

KnownPart(t) ==
  \A f \in Fields :
    store[t].local[f] # store[t].base[f] =>
      \/ \E c \in store[t].conflicts : c.field = f
      \/ seen[t][f] = store[t].base[f]

ScreensPart(t) ==
  /\ ApplyingPart(t) /\ ShownPart(t) /\ ScreenPart(t) /\ KnownPart(t)
  /\ \A s \in Slots : AskedPart(t, s) /\ PublishPart(t, s)

ScreensInv == PublishedSeen /\ \A t \in Tablets : ScreensPart(t)
-----------------------------------------------------------------------------
(* What the operators return.                                              *)

LEMMA SeedTyped ==
  /\ Seed \in Content /\ NewStore \in Store /\ NoTask \in Task
  /\ Status(NewStore) \in Shown
<1>1. Seed \in Content
  BY InitialAssumption DEF Seed, Content
<1>2. NewStore \in Store
  BY <1>1 DEF NewStore, Store
<1> QED
  BY <1>1, <1>2 DEF NoTask, Task, Status, NewStore, Shown

LEMMA StatusTyped ==
  ASSUME NEW s \in Store
  PROVE  Status(s) \in Shown
BY DEF Store, Status, Shown

(* A version the tablets may name has a content.                           *)
LEMMA VersionTyped ==
  ASSUME versions \in Seq(Version), NEW n \in Nat, n <= Len(versions)
  PROVE  VersionContent(n) \in Content
<1>1. CASE n = 0
  BY <1>1, SeedTyped DEF VersionContent
<1>2. CASE n # 0
  <2>1. n \in 1..Len(versions)
    BY <1>2
  <2>2. versions[n] \in Version
    BY <2>1
  <2> QED
    BY <1>2, <2>2 DEF VersionContent, Version
<1> QED
  BY <1>1, <1>2

LEMMA MergeTyped ==
  ASSUME NEW b \in Content, NEW l \in Content, NEW r \in Content
  PROVE  /\ Merge(b, l, r).content \in Content
         /\ Merge(b, l, r).conflicts \subseteq Conflict
BY DEF Merge, Content, Conflict

(* The changes of a store, and what they leave.                            *)
LEMMA StagedTyped ==
  ASSUME NEW s \in Store, NEW n \in Nat
  PROVE  /\ Staged(s, n) \in Store
         /\ Staged(s, n).local = s.local /\ Staged(s, n).base = s.base
         /\ Staged(s, n).active = s.active /\ Staged(s, n).conflicts = s.conflicts
         /\ Staged(s, n).pending = n
BY DEF Staged, Store

LEMMA ActivatedTyped ==
  ASSUME NEW s \in Store, NEW r \in Content
  PROVE  /\ Activated(s, r) \in Store
         /\ Activated(s, r).base = r /\ Activated(s, r).active = s.pending
         /\ Activated(s, r).pending = 0
         /\ \A f \in Fields :
              Activated(s, r).local[f] = IF Unedited(s.base, s.local, r, f) THEN r[f] ELSE s.local[f]
         /\ \A f \in Fields :
              ~Unedited(s.base, s.local, r, f) /\ r[f] # s.base[f] =>
                \E c \in Activated(s, r).conflicts : c.field = f
<1>1. s.base \in Content /\ s.local \in Content /\ s.pending \in Nat
  BY DEF Store
<1>2. /\ Merge(s.base, s.local, r).content \in Content
      /\ Merge(s.base, s.local, r).conflicts \subseteq Conflict
  BY <1>1, MergeTyped
<1>3. Activated(s, r) \in Store
  BY <1>1, <1>2 DEF Activated, Store
<1>4. \A f \in Fields :
        Activated(s, r).local[f] = IF Unedited(s.base, s.local, r, f) THEN r[f] ELSE s.local[f]
  BY DEF Activated, Merge
<1>5. ASSUME NEW f \in Fields, ~Unedited(s.base, s.local, r, f), r[f] # s.base[f]
      PROVE  \E c \in Activated(s, r).conflicts : c.field = f
  <2>1. [field |-> f, local |-> s.local[f]] \in Activated(s, r).conflicts
    BY <1>5 DEF Activated, Merge
  <2> QED
    BY <2>1
<1> QED
  BY <1>3, <1>4, <1>5 DEF Activated

LEMMA ResolvedTyped ==
  ASSUME NEW s \in Store, NEW choice
  PROVE  /\ Resolved(s, choice) \in Store
         /\ Resolved(s, choice).base = s.base /\ Resolved(s, choice).active = s.active
         /\ Resolved(s, choice).pending = s.pending /\ Resolved(s, choice).conflicts = {}
         /\ choice = "local" => Resolved(s, choice).local = s.local
         /\ choice # "local" =>
              \A f \in Fields :
                Resolved(s, choice).local[f] =
                  IF \E c \in s.conflicts : c.field = f THEN s.base[f] ELSE s.local[f]
<1>1. s.base \in Content /\ s.local \in Content
  BY DEF Store
<1> DEFINE mixed == [f \in Fields |-> IF \E c \in s.conflicts : c.field = f THEN s.base[f]
                                      ELSE s.local[f]]
<1>2. mixed \in Content
  BY <1>1 DEF Content
<1>3. CASE choice = "local"
  BY <1>1, <1>3 DEF Resolved, Store
<1>4. CASE choice # "local"
  <2>1. Resolved(s, choice) = [s EXCEPT !.conflicts = {}, !.local = mixed]
    BY <1>4 DEF Resolved
  <2>2. \A f \in Fields :
          mixed[f] = IF \E c \in s.conflicts : c.field = f THEN s.base[f] ELSE s.local[f]
    OBVIOUS
  <2> HIDE DEF mixed
  <2> QED
    BY <1>2, <1>4, <2>1, <2>2 DEF Store
<1> QED
  BY <1>3, <1>4

LEMMA SavedTyped ==
  ASSUME NEW s \in Store, NEW form \in Forms, NEW values \in Content
  PROVE  /\ Saved(s, form, values) \in Store
         /\ Saved(s, form, values).base = s.base /\ Saved(s, form, values).active = s.active
         /\ Saved(s, form, values).pending = s.pending
         /\ Saved(s, form, values).conflicts = s.conflicts
         /\ \A f \in Fields :
              Saved(s, form, values).local[f] = IF f \in form THEN values[f] ELSE s.local[f]
<1> DEFINE mixed == [f \in Fields |-> IF f \in form THEN values[f] ELSE s.local[f]]
<1>1. mixed \in Content
  BY DEF Content, Store
<1>2. Saved(s, form, values) = [s EXCEPT !.local = mixed]
  BY DEF Saved
<1>3. \A f \in Fields : mixed[f] = IF f \in form THEN values[f] ELSE s.local[f]
  OBVIOUS
<1> HIDE DEF mixed
<1> QED
  BY <1>1, <1>2, <1>3 DEF Store

(* What becomes of the other operations when the store is written.         *)
LEMMA OutdatedTyped ==
  ASSUME NEW tasks \in [Slots -> Task]
  PROVE  /\ Outdate(tasks) \in [Slots -> Task]
         /\ \A s \in Slots :
              LET p == tasks[s] q == Outdate(tasks)[s]
              IN  /\ q.kind = p.kind /\ q.version = p.version /\ q.content = p.content
                  /\ q.seen = p.seen /\ q.choice = p.choice /\ q.asked = p.asked
                  /\ q.stage = IF p.stage = "write" THEN "outdated" ELSE p.stage
                  /\ p.stage # "write" => q = p
<1>1. ASSUME NEW s \in Slots
      PROVE  LET p == tasks[s] q == Outdate(tasks)[s]
             IN  /\ q.kind = p.kind /\ q.version = p.version /\ q.content = p.content
                 /\ q.seen = p.seen /\ q.choice = p.choice /\ q.asked = p.asked
                 /\ q.stage = IF p.stage = "write" THEN "outdated" ELSE p.stage
                 /\ p.stage # "write" => q = p
                 /\ q \in Task
  <2>1. Outdate(tasks)[s] = IF tasks[s].stage = "write"
                            THEN [tasks[s] EXCEPT !.stage = "outdated", !.snap = NewStore]
                            ELSE tasks[s]
    BY DEF Outdate
  <2>2. tasks[s] \in Task
    OBVIOUS
  <2>3. NewStore \in Store
    BY SeedTyped
  <2>4. tasks[s].stage = "write" =>
          /\ Outdate(tasks)[s] \in Task
          /\ Outdate(tasks)[s].stage = "outdated"
          /\ Outdate(tasks)[s] = [tasks[s] EXCEPT !.stage = "outdated", !.snap = NewStore]
    BY <2>1, <2>2, <2>3 DEF Task
  <2>5. tasks[s].stage = "write" =>
          /\ Outdate(tasks)[s].kind = tasks[s].kind
          /\ Outdate(tasks)[s].version = tasks[s].version
          /\ Outdate(tasks)[s].content = tasks[s].content
          /\ Outdate(tasks)[s].seen = tasks[s].seen
          /\ Outdate(tasks)[s].choice = tasks[s].choice
          /\ Outdate(tasks)[s].asked = tasks[s].asked
    BY <2>2, <2>4 DEF Task
  <2> QED
    BY <2>1, <2>2, <2>4, <2>5
<1>2. DOMAIN Outdate(tasks) = Slots
  BY DEF Outdate
<1> QED
  BY <1>1, <1>2 DEF Outdate
-----------------------------------------------------------------------------
(* What a step of one tablet leaves of the others, of the versions and of  *)
(* the other operations of that tablet.                                    *)

Typed(t) ==
  /\ store[t] \in Store /\ task[t] \in [Slots -> Task]
  /\ visible[t] \in Dialogs \cup {NoDialog} /\ shown[t] \in Shown
  /\ screen[t] \in Store /\ seen[t] \in Content

Only(t) ==
  /\ store' = [store EXCEPT ![t] = store'[t]] /\ task' = [task EXCEPT ![t] = task'[t]]
  /\ visible' = [visible EXCEPT ![t] = visible'[t]] /\ shown' = [shown EXCEPT ![t] = shown'[t]]
  /\ screen' = [screen EXCEPT ![t] = screen'[t]] /\ seen' = [seen EXCEPT ![t] = seen'[t]]

Grows ==
  /\ versions' \in Seq(Version) /\ Len(versions) <= Len(versions')
  /\ \A n \in Nat : n <= Len(versions) => VersionContent(n)' = VersionContent(n)

Kept(t, r) ==
  \/ task'[t][r] = task[t][r]
  \/ /\ task[t][r].stage = "write"
     /\ task'[t][r] = [task[t][r] EXCEPT !.stage = "outdated", !.snap = NewStore]

(* A step of the operation of slot s that does not write the store.        *)
Moves(t, s) ==
  /\ UNCHANGED <<store, visible, screen, seen, edits>>
  /\ Only(t) /\ task'[t] \in [Slots -> Task]
  /\ \A r \in Slots \ {s} : Kept(t, r)
  /\ shown'[t] \in {shown[t], Status(store[t])}

LEMMA TabletTyped ==
  ASSUME TypesOK, NEW t \in Tablets
  PROVE  Typed(t) /\ \A s \in Slots : task[t][s] \in Task
BY DEF TypesOK, Typed

LEMMA OthersKept ==
  ASSUME TypesOK, NEW t \in Tablets, Only(t), NEW u \in Tablets, u # t
  PROVE  /\ store'[u] = store[u] /\ task'[u] = task[u] /\ visible'[u] = visible[u]
         /\ shown'[u] = shown[u] /\ screen'[u] = screen[u] /\ seen'[u] = seen[u]
BY DEF TypesOK, Only

LEMMA TypesStep ==
  ASSUME TypesOK, NEW t \in Tablets, Only(t), Grows, edits' \in Nat, Typed(t)'
  PROVE  TypesOK'
BY DEF TypesOK, Only, Grows, Typed

LEMMA SameVersions ==
  ASSUME TypesOK, UNCHANGED versions
  PROVE  Grows
BY DEF TypesOK, Grows, VersionContent

LEMMA PublishedGrows ==
  ASSUME TypesOK, NEW t \in Tablets, NEW s \in Slots, versions' = Published(task[t][s])
  PROVE  /\ Grows /\ Len(versions') = Len(versions) + 1
         /\ \A n \in 1..Len(versions) : versions'[n] = versions[n]
         /\ versions'[Len(versions')].unseen =
              {f \in {g \in Fields : task[t][s].content[g] # VersionContent(Len(versions))[g]} :
                 task[t][s].seen[f] # VersionContent(Len(versions))[f]}
<1> DEFINE p == task[t][s]
           v == VersionContent(Len(versions))
           missed == {f \in {g \in Fields : p.content[g] # v[g]} : p.seen[f] # v[f]}
           new == [content |-> p.content, unseen |-> missed]
<1>1. p \in Task /\ versions \in Seq(Version)
  BY TabletTyped DEF TypesOK
<1>2. new \in Version
  BY <1>1 DEF Task, Version
<1>3. versions' = Append(versions, new)
  BY DEF Published
<1>4. new.unseen = missed
  OBVIOUS
<1> HIDE DEF new
<1>5. /\ versions' \in Seq(Version) /\ Len(versions') = Len(versions) + 1
      /\ \A n \in 1..Len(versions) : versions'[n] = versions[n]
      /\ versions'[Len(versions')] = new
  BY <1>1, <1>2, <1>3
<1>6. Grows
  BY <1>1, <1>5 DEF Grows, VersionContent
<1> QED
  BY <1>4, <1>5, <1>6

LEMMA KeptWrite ==
  ASSUME BaseInv, NEW t \in Tablets, NEW r \in Slots, Grows, Kept(t, r),
         store'[t] = store[t] \/ task'[t][r].stage # "write"
  PROVE  WritePart(t, r)'
<1>1. WritePart(t, r) /\ task[t][r] \in Task /\ versions \in Seq(Version)
  BY TabletTyped DEF BaseInv, TypesOK
<1>2. CASE task'[t][r] = task[t][r]
  <2>1. Len(versions) \in Nat /\ Len(versions') \in Nat /\ task[t][r].version \in Nat
    BY <1>1 DEF Grows, Task
  <2>2. task'[t][r].stage = "write" =>
          Refuses(task[t][r], store[t])' = Refuses(task[t][r], store[t])
    BY <1>2
  <2>3. task'[t][r].stage = "write" =>
          Nothing(task[t][r], store[t])' = Nothing(task[t][r], store[t])
    BY <1>2
  <2> QED
    BY <1>1, <1>2, <2>1, <2>2, <2>3 DEF WritePart, Grows
<1>3. CASE /\ task[t][r].stage = "write"
           /\ task'[t][r] = [task[t][r] EXCEPT !.stage = "outdated", !.snap = NewStore]
  <2>1. /\ task'[t][r].stage = "outdated" /\ task'[t][r].kind = task[t][r].kind
        /\ task'[t][r].version = task[t][r].version
    BY <1>1, <1>3 DEF Task
  <2> QED
    BY <1>1, <1>3, <2>1 DEF WritePart, Grows, Task
<1> QED
  BY <1>2, <1>3 DEF Kept

(* The invariant is kept when the tablet that moves keeps its part of it.  *)
LEMMA BaseStep ==
  ASSUME BaseInv, NEW t \in Tablets, Only(t), Grows, edits' \in Nat, Typed(t)',
         StorePart(t)', \A s \in Slots : WritePart(t, s)'
  PROVE  BaseInv'
<1>1. TypesOK'
  BY TypesStep DEF BaseInv
<1>2. ASSUME NEW u \in Tablets, u # t
      PROVE  StorePart(u)'
  <2>1. StorePart(u) /\ store[u] \in Store /\ store'[u] = store[u]
    BY <1>2, OthersKept, TabletTyped DEF BaseInv, Typed
  <2>2. /\ store[u].active \in Nat /\ store[u].pending \in Nat /\ Len(versions) \in Nat
        /\ Len(versions') \in Nat
    BY <2>1 DEF BaseInv, TypesOK, Store, Grows
  <2>3. VersionContent(store[u].active)' = VersionContent(store[u].active)
    <3> PICK n \in Nat : n = store[u].active
      BY <2>2
    <3>1. VersionContent(n)' = VersionContent(n)
      BY <2>1 DEF Grows, StorePart
    <3> QED
      BY <2>1, <3>1 DEF VersionContent
  <2> QED
    BY <2>1, <2>2, <2>3 DEF StorePart, Grows
<1>3. ASSUME NEW u \in Tablets, u # t, NEW s \in Slots
      PROVE  WritePart(u, s)'
  <2>1. Kept(u, s) /\ store'[u] = store[u]
    BY <1>3, OthersKept DEF BaseInv, Kept
  <2> QED
    BY <2>1, KeptWrite
<1> QED
  BY <1>1, <1>2, <1>3 DEF BaseInv

LEMMA MovesBase ==
  ASSUME BaseInv, NEW t \in Tablets, NEW s \in Slots, Moves(t, s), Grows, WritePart(t, s)'
  PROVE  BaseInv'
<1>1. Typed(t) /\ StorePart(t) /\ edits \in Nat /\ versions \in Seq(Version)
  BY TabletTyped DEF BaseInv, TypesOK
<1>2. Typed(t)'
  BY <1>1, StatusTyped DEF Typed, Moves
<1>3. \A r \in Slots : WritePart(t, r)'
  BY KeptWrite DEF Moves
<1>4. StorePart(t)'
  <2>1. store[t].active \in Nat /\ store[t].pending \in Nat
    BY <1>1 DEF Typed, Store
  <2>2. PICK n \in Nat : n = store[t].active
    BY <2>1
  <2>3. VersionContent(n)' = VersionContent(n)
    BY <1>1, <2>2 DEF Grows, StorePart
  <2> QED
    BY <1>1, <2>1, <2>2, <2>3 DEF StorePart, Grows, Moves, VersionContent
<1> QED
  BY <1>1, <1>2, <1>3, <1>4, BaseStep DEF Moves
-----------------------------------------------------------------------------
(* The steps that do not write the store, each an operation's.             *)

LEMMA Assigned ==
  ASSUME TypesOK, NEW t \in Tablets, NEW s \in Slots,
         task' = [task EXCEPT ![t][s] = task'[t][s]], task'[t][s] \in Task,
         UNCHANGED <<store, visible, shown, screen, seen, edits>>
  PROVE  Moves(t, s)
BY TabletTyped DEF TypesOK, Moves, Only, Kept, Typed

LEMMA ReceivedTyped ==
  ASSUME NEW n \in Nat
  PROVE  /\ Received(n) \in Task /\ Received(n).kind = "download"
         /\ Received(n).stage = "read" /\ Received(n).version = n
BY SeedTyped DEF Received, Task

LEMMA EndMoves ==
  ASSUME TypesOK, NEW t \in Tablets, NEW s \in Slots, End(t, s) \/ EndNoted(t, s),
         UNCHANGED <<visible, screen, seen, edits>>
  PROVE  Moves(t, s) /\ task'[t][s] = NoTask
<1> DEFINE ended == Ended(t, s)
<1>1. /\ ended \in [Slots -> Task] /\ ended[s] = NoTask
      /\ \A r \in Slots \ {s} : ended[r] = task[t][r]
  BY TabletTyped, SeedTyped DEF Ended, Typed
<1>2. NoTask.stage = "none"
  BY DEF NoTask
<1>3. /\ Outdate(ended) \in [Slots -> Task] /\ Outdate(ended)[s] = NoTask
      /\ \A r \in Slots \ {s} :
           \/ Outdate(ended)[r] = task[t][r]
           \/ /\ task[t][r].stage = "write"
              /\ Outdate(ended)[r] =
                   [task[t][r] EXCEPT !.stage = "outdated", !.snap = NewStore]
  BY <1>1, <1>2, OutdatedTyped DEF Outdate
<1>4. PICK tasks \in {ended, Outdate(ended)} : EndWith(t, s, tasks)
  BY DEF End, EndNoted
<1>5. UNCHANGED store
  BY DEF End, EndNoted
<1>6. /\ task' = [task EXCEPT ![t] = tasks] /\ task'[t] = tasks
      /\ shown' = [shown EXCEPT ![t] = IF visible[t] = s THEN Status(store[t]) ELSE @]
  BY <1>4, <1>5 DEF EndWith, TypesOK
<1>7. Only(t) /\ shown'[t] \in {shown[t], Status(store[t])}
  BY <1>5, <1>6 DEF Only, TypesOK
<1> HIDE DEF ended
<1>8. ASSUME NEW r \in Slots \ {s} PROVE Kept(t, r)
  <2>1. \/ tasks[r] = task[t][r]
        \/ /\ task[t][r].stage = "write"
           /\ tasks[r] = [task[t][r] EXCEPT !.stage = "outdated", !.snap = NewStore]
    BY <1>1, <1>3, <1>4
  <2> QED
    BY <1>6, <2>1 DEF Kept
<1>9. tasks \in [Slots -> Task] /\ tasks[s] = NoTask
  BY <1>1, <1>3, <1>4
<1>10. task'[t] \in [Slots -> Task] /\ task'[t][s] = NoTask
  BY <1>6, <1>9
<1> QED
  BY <1>5, <1>7, <1>8, <1>10 DEF Moves

LEMMA StartDownloadMoves ==
  ASSUME TypesOK, NEW t \in Tablets, NEW s \in Slots, StartDownload(t, s)
  PROVE  /\ Moves(t, s) /\ Grows /\ task[t][s] = NoTask
         /\ task'[t][s].kind = "download" /\ task'[t][s].stage = "sent"
<1>1. task'[t][s] = [NoTask EXCEPT !.kind = "download", !.stage = "sent"]
  BY DEF StartDownload, TypesOK
<1>2. task'[t][s] \in Task /\ task'[t][s].kind = "download" /\ task'[t][s].stage = "sent"
  BY <1>1, SeedTyped DEF Task
<1> QED
  BY <1>1, <1>2, Assigned, SameVersions DEF StartDownload

LEMMA DownloadAnsweredMoves ==
  ASSUME TypesOK, NEW t \in Tablets, NEW s \in Slots, DownloadAnswered(t, s)
  PROVE  /\ Moves(t, s) /\ Grows /\ task[t][s].kind = "download" /\ task[t][s].stage = "sent"
         /\ \/ task'[t][s] = NoTask
            \/ /\ task'[t][s].kind = "download" /\ task'[t][s].stage = "read"
               /\ task'[t][s].version = Len(versions')
<1>1. CASE versions = <<>>
  BY <1>1, EndMoves, SameVersions DEF DownloadAnswered
<1>2. CASE versions # <<>>
  <2>1. task'[t][s] = Received(Len(versions))
    BY <1>2 DEF DownloadAnswered, TypesOK
  <2>2. /\ task'[t][s] \in Task /\ task'[t][s].kind = "download" /\ task'[t][s].stage = "read"
        /\ task'[t][s].version = Len(versions)
    <3>1. Len(versions) \in Nat
      BY DEF TypesOK
    <3> QED
      BY <2>1, <3>1, ReceivedTyped
  <2> QED
    BY <1>2, <2>1, <2>2, Assigned, SameVersions DEF DownloadAnswered
<1> QED
  BY <1>1, <1>2

LEMMA StartPublicationMoves ==
  ASSUME TypesOK, NEW t \in Tablets, NEW s \in Slots, s = visible[t], StartPublication(t)
  PROVE  /\ Moves(t, s) /\ Grows /\ task[t][s] = NoTask
         /\ task'[t][s].kind = "publish" /\ task'[t][s].stage = "sent"
         /\ task'[t][s].version = shown[t].active /\ task'[t][s].content = store[t].local
         /\ task'[t][s].seen = seen[t]
<1>1. task'[t][s] = [NoTask EXCEPT !.kind = "publish", !.stage = "sent",
                       !.version = shown[t].active, !.content = store[t].local, !.seen = seen[t]]
  BY DEF StartPublication, TypesOK
<1>2. shown[t].active \in Nat /\ store[t].local \in Content /\ seen[t] \in Content
  BY TabletTyped DEF Typed, Shown, Store
<1>3. /\ task'[t][s] \in Task /\ task'[t][s].kind = "publish" /\ task'[t][s].stage = "sent"
      /\ task'[t][s].version = shown[t].active /\ task'[t][s].content = store[t].local
      /\ task'[t][s].seen = seen[t]
  BY <1>1, <1>2, SeedTyped DEF Task
<1> QED
  BY <1>1, <1>3, Assigned, SameVersions DEF StartPublication, Usable

LEMMA PublicationAnsweredMoves ==
  ASSUME TypesOK, NEW t \in Tablets, NEW s \in Slots, PublicationAnswered(t, s)
  PROVE  /\ Moves(t, s) /\ Grows /\ task[t][s].kind = "publish" /\ task[t][s].stage = "sent"
         /\ \/ task'[t][s] = NoTask
            \/ /\ task'[t][s].kind = "download" /\ task'[t][s].stage = "read"
               /\ task'[t][s].version = Len(versions')
         /\ \/ versions' = versions
            \/ Len(versions) = task[t][s].version /\ versions' = Published(task[t][s])
<1>1. CASE ~HeadMatches(task[t][s])
  <2>1. /\ End(t, s) /\ UNCHANGED <<versions, visible, screen, seen, edits>>
        /\ task[t][s].kind = "publish" /\ task[t][s].stage = "sent"
    BY <1>1 DEF PublicationAnswered
  <2> QED
    BY <2>1, EndMoves, SameVersions
<1>2. CASE HeadMatches(task[t][s])
  <2>1. /\ task' = [task EXCEPT ![t][s] = Received(Len(versions'))]
        /\ versions' = Published(task[t][s]) /\ Len(versions) = task[t][s].version
    BY <1>2 DEF PublicationAnswered, HeadMatches
  <2>2. task'[t][s] = Received(Len(versions')) /\ Grows
    BY <2>1, PublishedGrows DEF TypesOK
  <2>3. /\ task'[t][s] \in Task /\ task'[t][s].kind = "download" /\ task'[t][s].stage = "read"
        /\ task'[t][s].version = Len(versions')
    <3>1. Len(versions') \in Nat
      BY <2>2 DEF Grows
    <3> QED
      BY <2>2, <3>1, ReceivedTyped
  <2> QED
    BY <1>2, <2>1, <2>2, <2>3, Assigned DEF PublicationAnswered
<1> QED
  BY <1>1, <1>2

LEMMA AnswerLostMoves ==
  ASSUME TypesOK, NEW t \in Tablets, NEW s \in Slots, AnswerLost(t, s)
  PROVE  /\ Moves(t, s) /\ Grows /\ task[t][s].stage = "sent" /\ task'[t][s] = NoTask
         /\ \/ versions' = versions
            \/ /\ task[t][s].kind = "publish" /\ Len(versions) = task[t][s].version
               /\ versions' = Published(task[t][s])
<1>1. Moves(t, s) /\ task'[t][s] = NoTask
  BY EndMoves DEF AnswerLost
<1>2. \/ versions' = versions
      \/ /\ task[t][s].kind = "publish" /\ Len(versions) = task[t][s].version
         /\ versions' = Published(task[t][s])
  BY DEF AnswerLost, HeadMatches
<1> QED
  BY <1>1, <1>2, SameVersions, PublishedGrows DEF AnswerLost

LEMMA StartActivationMoves ==
  ASSUME TypesOK, NEW t \in Tablets, NEW s \in Slots, s = visible[t], StartActivation(t)
  PROVE  /\ Moves(t, s) /\ Grows /\ task[t][s] = NoTask
         /\ task'[t][s].kind = "activate" /\ task'[t][s].stage = "read"
<1>1. task'[t][s] = [NoTask EXCEPT !.kind = "activate", !.stage = "read"]
  BY DEF StartActivation, TypesOK
<1>2. task'[t][s] \in Task /\ task'[t][s].kind = "activate" /\ task'[t][s].stage = "read"
  BY <1>1, SeedTyped DEF Task
<1> QED
  BY <1>1, <1>2, Assigned, SameVersions DEF StartActivation, Usable

LEMMA StartResolutionMoves ==
  ASSUME TypesOK, NEW t \in Tablets, NEW s \in Slots, s = visible[t], StartResolution(t)
  PROVE  /\ Moves(t, s) /\ Grows /\ task[t][s] = NoTask
         /\ task'[t][s].kind = "resolve" /\ task'[t][s].stage = "read"
         /\ task'[t][s].asked = {[field |-> c.field, remote |-> shown[t].base[c.field]] :
                                   c \in shown[t].conflicts}
<1> DEFINE asked == {[field |-> c.field, remote |-> shown[t].base[c.field]] :
                       c \in shown[t].conflicts}
<1>1. PICK choice \in {"local", "remote"} :
        task' = [task EXCEPT ![t][s] =
                   [NoTask EXCEPT !.kind = "resolve", !.stage = "read", !.choice = choice,
                      !.asked = asked]]
  BY DEF StartResolution
<1>2. asked \in SUBSET [field : Fields, remote : Values]
  <2>1. shown[t] \in Shown
    BY DEF TypesOK
  <2>2. \A c \in shown[t].conflicts :
          [field |-> c.field, remote |-> shown[t].base[c.field]] \in [field : Fields, remote : Values]
    BY <2>1 DEF Shown, Conflict, Content
  <2> QED
    BY <2>2
<1> HIDE DEF asked
<1>3. task'[t][s] = [NoTask EXCEPT !.kind = "resolve", !.stage = "read", !.choice = choice,
                       !.asked = asked]
  BY <1>1 DEF TypesOK
<1>4. /\ task'[t][s] \in Task /\ task'[t][s].kind = "resolve" /\ task'[t][s].stage = "read"
      /\ task'[t][s].asked = asked
  BY <1>2, <1>3, SeedTyped DEF Task
<1>5. Moves(t, s)
  BY <1>1, <1>3, <1>4, Assigned DEF StartResolution
<1>6. Grows /\ task[t][s] = NoTask
  BY SameVersions DEF StartResolution, Usable
<1> QED
  BY <1>4, <1>5, <1>6 DEF asked

(* What an operation changes depends on what it is, not where it stands.   *)
LEMMA SameChange ==
  ASSUME NEW p, NEW q, NEW s, p.kind \in {"download", "activate", "resolve"},
         q.kind = p.kind, q.version = p.version, q.choice = p.choice
  PROVE  (Refuses(q, s) <=> Refuses(p, s)) /\ (Nothing(q, s) <=> Nothing(p, s))
<1>1. CASE p.kind = "download"
  BY <1>1 DEF Refuses, Nothing
<1>2. CASE p.kind = "activate"
  BY <1>2 DEF Refuses, Nothing
<1>3. CASE p.kind = "resolve"
  BY <1>3 DEF Refuses, Nothing
<1> QED
  BY <1>1, <1>2, <1>3

LEMMA RetryMoves ==
  ASSUME TypesOK, NEW t \in Tablets, NEW s \in Slots, Retry(t, s)
  PROVE  /\ Moves(t, s) /\ Grows /\ task[t][s].stage = "outdated"
         /\ \/ task'[t][s] = NoTask
            \/ task'[t][s] = [task[t][s] EXCEPT !.stage = "read"]
<1>1. CASE task' = [task EXCEPT ![t][s] = [task[t][s] EXCEPT !.stage = "read"]]
           /\ UNCHANGED <<store, shown>>
  <2>1. task'[t][s] = [task[t][s] EXCEPT !.stage = "read"] /\ task[t][s] \in Task
    BY <1>1, TabletTyped DEF TypesOK
  <2>2. task'[t][s] \in Task
    BY <2>1 DEF Task
  <2> QED
    BY <1>1, <2>1, <2>2, Assigned, SameVersions DEF Retry
<1>2. CASE End(t, s) \/ EndNoted(t, s)
  BY <1>2, EndMoves, SameVersions DEF Retry
<1> QED
  BY <1>1, <1>2 DEF Retry

LEMMA ApplicationRefusedMoves ==
  ASSUME TypesOK, NEW t \in Tablets, NEW s \in Slots, ApplicationRefused(t, s)
  PROVE  /\ Moves(t, s) /\ Grows /\ task'[t][s] = NoTask
         /\ task[t][s].stage \in {"read", "write", "outdated"}
BY EndMoves, SameVersions DEF ApplicationRefused

LEMMA ComputeMoves ==
  ASSUME BaseInv, NEW t \in Tablets, NEW s \in Slots, Compute(t, s)
  PROVE  /\ Moves(t, s) /\ Grows /\ task[t][s].stage = "read"
         /\ \/ task'[t][s] = NoTask
            \/ /\ Applies(t, s) /\ task'[t][s].kind = task[t][s].kind
               /\ task'[t][s].stage = "reload"
            \/ /\ task'[t][s] = [task[t][s] EXCEPT !.stage = "write", !.snap = store[t]]
               /\ ~Refuses(task[t][s], store[t]) /\ ~Nothing(task[t][s], store[t])
<1> DEFINE p == task[t][s]
<1>1. /\ TypesOK /\ p \in Task /\ store[t] \in Store /\ p.stage = "read"
      /\ UNCHANGED <<visible, screen, seen, edits>> /\ Grows
      /\ p.kind \in {"download", "activate", "resolve"}
  BY TabletTyped, SameVersions DEF BaseInv, Typed, Compute, WritePart
<1>2. CASE End(t, s) \/ EndNoted(t, s)
  BY <1>1, <1>2, EndMoves
<1>3. CASE UNCHANGED store /\ Done(t, s, task[t])
  <2>1. CASE p.kind = "download"
    <3>1. End(t, s)
      BY <1>3, <2>1 DEF Done, End, Ended
    <3> QED
      BY <3>1, <1>2
  <2>2. CASE p.kind # "download"
    <3>1. /\ task' = [task EXCEPT ![t] = [task[t] EXCEPT ![s] =
                        [NoTask EXCEPT !.kind = p.kind, !.stage = "reload"]]]
          /\ UNCHANGED shown
      BY <1>3, <2>2 DEF Done
    <3>2. task'[t][s] = [NoTask EXCEPT !.kind = p.kind, !.stage = "reload"]
      BY <1>1, <3>1 DEF TypesOK
    <3>3. /\ task'[t][s] \in Task /\ task'[t][s].kind = p.kind
          /\ task'[t][s].stage = "reload"
      BY <1>1, <3>2, SeedTyped DEF Task
    <3>4. task' = [task EXCEPT ![t][s] = task'[t][s]]
      BY <1>1, <3>1, <3>2 DEF TypesOK
    <3> QED
      BY <1>1, <1>3, <2>2, <3>1, <3>3, <3>4, Assigned DEF Applies
  <2> QED
    BY <2>1, <2>2
<1>4. CASE /\ task' = [task EXCEPT ![t][s] = [p EXCEPT !.stage = "write", !.snap = store[t]]]
           /\ UNCHANGED <<store, shown>> /\ ~Refuses(p, store[t]) /\ ~Nothing(p, store[t])
  <2>1. task'[t][s] = [p EXCEPT !.stage = "write", !.snap = store[t]]
    BY <1>1, <1>4 DEF TypesOK
  <2>2. task'[t][s] \in Task
    BY <1>1, <2>1 DEF Task
  <2> QED
    BY <1>1, <1>4, <2>1, <2>2, Assigned
<1> QED
  BY <1>2, <1>3, <1>4 DEF Compute
-----------------------------------------------------------------------------
(* Every step keeps BaseInv.                                               *)

LEMMA IdleWrite ==
  ASSUME NEW t \in Tablets, NEW s \in Slots, task'[t][s].stage \in {"none", "sent"}
  PROVE  WritePart(t, s)'
BY DEF WritePart

LEMMA EndedWrite ==
  ASSUME NEW t \in Tablets, NEW s \in Slots, task'[t][s] = NoTask
  PROVE  WritePart(t, s)'
BY IdleWrite DEF NoTask

LEMMA ReceivedWrite ==
  ASSUME NEW t \in Tablets, NEW s \in Slots, Grows, task'[t][s].kind = "download",
         task'[t][s].stage = "read", task'[t][s].version = Len(versions')
  PROVE  WritePart(t, s)'
<1>1. Len(versions') \in Nat
  BY DEF Grows
<1> QED
  BY <1>1 DEF WritePart

LEMMA ExchangeBase ==
  ASSUME BaseInv, NEW t \in Tablets, NEW s \in Slots,
         \/ StartDownload(t, s) \/ DownloadAnswered(t, s)
         \/ s = visible[t] /\ StartPublication(t)
         \/ PublicationAnswered(t, s) \/ AnswerLost(t, s)
  PROVE  BaseInv'
<1> TypesOK
  BY DEF BaseInv
<1>1. CASE StartDownload(t, s)
  BY <1>1, StartDownloadMoves, IdleWrite, MovesBase
<1>2. CASE DownloadAnswered(t, s)
  BY <1>2, DownloadAnsweredMoves, EndedWrite, ReceivedWrite, MovesBase
<1>3. CASE s = visible[t] /\ StartPublication(t)
  BY <1>3, StartPublicationMoves, IdleWrite, MovesBase
<1>4. CASE PublicationAnswered(t, s)
  BY <1>4, PublicationAnsweredMoves, EndedWrite, ReceivedWrite, MovesBase
<1>5. CASE AnswerLost(t, s)
  BY <1>5, AnswerLostMoves, EndedWrite, MovesBase
<1> QED
  BY <1>1, <1>2, <1>3, <1>4, <1>5

LEMMA OperationBase ==
  ASSUME BaseInv, NEW t \in Tablets, NEW s \in Slots,
         \/ s = visible[t] /\ StartActivation(t)
         \/ s = visible[t] /\ StartResolution(t)
         \/ Compute(t, s) \/ Retry(t, s) \/ ApplicationRefused(t, s)
  PROVE  BaseInv'
<1>0. TypesOK /\ task[t][s] \in Task /\ WritePart(t, s) /\ versions \in Seq(Version)
  BY TabletTyped DEF BaseInv, TypesOK
<1>1. CASE s = visible[t] /\ StartActivation(t)
  BY <1>0, <1>1, StartActivationMoves, MovesBase DEF WritePart
<1>2. CASE s = visible[t] /\ StartResolution(t)
  BY <1>0, <1>2, StartResolutionMoves, MovesBase DEF WritePart
<1>3. CASE ApplicationRefused(t, s)
  BY <1>0, <1>3, ApplicationRefusedMoves, EndedWrite, MovesBase
<1>4. CASE Retry(t, s)
  <2>1. CASE task'[t][s] = NoTask
    BY <1>0, <1>4, <2>1, RetryMoves, EndedWrite, MovesBase
  <2>2. CASE task'[t][s] = [task[t][s] EXCEPT !.stage = "read"]
    <3>1. /\ task'[t][s].stage = "read" /\ task'[t][s].kind = task[t][s].kind
          /\ task'[t][s].version = task[t][s].version /\ task[t][s].version \in Nat
      BY <1>0, <2>2 DEF Task
    <3>2. Moves(t, s) /\ Grows /\ task[t][s].stage = "outdated"
      BY <1>0, <1>4, RetryMoves
    <3>3. Len(versions) \in Nat /\ Len(versions') \in Nat
      BY <1>0, <3>2 DEF Grows
    <3>4. WritePart(t, s)'
      BY <1>0, <3>1, <3>2, <3>3 DEF WritePart, Grows
    <3> QED
      BY <3>2, <3>4, MovesBase
  <2> QED
    BY <1>0, <1>4, <2>1, <2>2, RetryMoves
<1>5. CASE Compute(t, s)
  <2>0. Moves(t, s) /\ Grows /\ task[t][s].stage = "read"
    BY <1>5, ComputeMoves
  <2>1. CASE task'[t][s] = NoTask
    BY <2>0, <2>1, EndedWrite, MovesBase
  <2>2. CASE /\ Applies(t, s) /\ task'[t][s].kind = task[t][s].kind
             /\ task'[t][s].stage = "reload"
    BY <2>0, <2>2, MovesBase DEF WritePart, Applies
  <2>3. CASE /\ task'[t][s] = [task[t][s] EXCEPT !.stage = "write", !.snap = store[t]]
             /\ ~Refuses(task[t][s], store[t]) /\ ~Nothing(task[t][s], store[t])
    <3>1. /\ task'[t][s].stage = "write" /\ task'[t][s].snap = store[t]
          /\ task'[t][s].kind = task[t][s].kind /\ task'[t][s].version = task[t][s].version
          /\ task'[t][s].choice = task[t][s].choice /\ task[t][s].version \in Nat
      BY <1>0, <2>3 DEF Task
    <3>2. Len(versions) \in Nat /\ Len(versions') \in Nat /\ Len(versions) <= Len(versions')
      BY <1>0, <2>0 DEF Grows
    <3>3. task[t][s].kind \in {"download", "activate", "resolve"}
      BY <1>0, <2>0 DEF WritePart
    <3>4. store'[t] = store[t]
      BY <2>0 DEF Moves
    <3>5. ~Refuses(task'[t][s], store'[t]) /\ ~Nothing(task'[t][s], store'[t])
      <4> DEFINE q == task'[t][s]
                 p == task[t][s]
                 x == store[t]
      <4>1. (Refuses(q, x) <=> Refuses(p, x)) /\ (Nothing(q, x) <=> Nothing(p, x))
        <5> HIDE DEF q, p, x
        <5> QED
          BY <3>1, <3>3, SameChange DEF q, p
      <4> QED
        BY <2>3, <3>4, <4>1
    <3>6. WritePart(t, s)'
      BY <1>0, <2>0, <3>1, <3>2, <3>3, <3>4, <3>5 DEF WritePart
    <3> QED
      BY <2>0, <3>6, MovesBase
  <2> QED
    BY <1>5, <2>1, <2>2, <2>3, ComputeMoves
<1> QED
  BY <1>1, <1>2, <1>3, <1>4, <1>5

LEMMA OutdateKept ==
  ASSUME TypesOK, NEW t \in Tablets
  PROVE  /\ Outdate(task[t]) \in [Slots -> Task]
         /\ \A r \in Slots :
              /\ Outdate(task[t])[r].stage # "write" /\ Outdate(task[t])[r].kind = task[t][r].kind
              /\ \/ Outdate(task[t])[r] = task[t][r]
                 \/ /\ task[t][r].stage = "write"
                    /\ Outdate(task[t])[r] = [task[t][r] EXCEPT !.stage = "outdated", !.snap = NewStore]
<1>1. task[t] \in [Slots -> Task]
  BY TabletTyped DEF Typed
<1>2. Outdate(task[t]) \in [Slots -> Task]
  BY <1>1, OutdatedTyped
<1>3. ASSUME NEW r \in Slots
      PROVE  Outdate(task[t])[r].stage # "write" /\ Outdate(task[t])[r].kind = task[t][r].kind
  BY <1>1, OutdatedTyped
<1>4. ASSUME NEW r \in Slots
      PROVE  \/ Outdate(task[t])[r] = task[t][r]
             \/ /\ task[t][r].stage = "write"
                /\ Outdate(task[t])[r] = [task[t][r] EXCEPT !.stage = "outdated", !.snap = NewStore]
  BY DEF Outdate
<1> QED
  BY <1>2, <1>3, <1>4

LEMMA StoreKept ==
  ASSUME BaseInv, NEW t \in Tablets, Grows, store'[t] = store[t]
  PROVE  StorePart(t)'
<1>1. /\ StorePart(t) /\ store[t].active \in Nat /\ store[t].pending \in Nat
      /\ Len(versions) \in Nat /\ Len(versions') \in Nat
  BY TabletTyped DEF BaseInv, Typed, Store, TypesOK, Grows
<1>2. PICK n \in Nat : n = store[t].active
  BY <1>1
<1>3. VersionContent(n)' = VersionContent(n)
  BY <1>1, <1>2 DEF Grows, StorePart
<1> QED
  BY <1>1, <1>2, <1>3 DEF StorePart, Grows, VersionContent

LEMMA DialogBase ==
  ASSUME BaseInv, NEW t \in Tablets,
         \/ \E d \in Dialogs : OpenDialog(t, d)
         \/ CloseDialog(t)
  PROVE  BaseInv'
<1>0. TypesOK /\ Typed(t)
  BY TabletTyped DEF BaseInv
<1>1. /\ UNCHANGED <<versions, store, task, screen, seen, edits>>
      /\ \E d \in Dialogs \cup {NoDialog} : visible' = [visible EXCEPT ![t] = d]
      /\ \E x \in {Status(store[t]), Status(NewStore)} : shown' = [shown EXCEPT ![t] = x]
  BY DEF OpenDialog, CloseDialog
<1>4. visible'[t] \in Dialogs \cup {NoDialog} /\ visible' = [visible EXCEPT ![t] = visible'[t]]
  BY <1>0, <1>1 DEF TypesOK
<1>5. shown'[t] \in Shown /\ shown' = [shown EXCEPT ![t] = shown'[t]]
  BY <1>0, <1>1, SeedTyped, StatusTyped DEF TypesOK, Typed
<1>6. Only(t) /\ Typed(t)'
  BY <1>0, <1>1, <1>4, <1>5 DEF TypesOK, Typed, Only
<1>2. Grows /\ edits' \in Nat
  BY <1>1, SameVersions DEF BaseInv, TypesOK
<1>3. StorePart(t)' /\ \A s \in Slots : WritePart(t, s)'
  BY <1>1, <1>2, StoreKept, KeptWrite DEF Kept
<1> QED
  BY <1>2, <1>3, <1>6, BaseStep

LEMMA ReloadStep ==
  ASSUME TypesOK, NEW t \in Tablets, NEW s \in Slots, Reload(t, s)
  PROVE  /\ Only(t) /\ Typed(t)' /\ Grows /\ UNCHANGED <<versions, store, visible, seen, edits>>
         /\ task'[t][s] = NoTask /\ \A r \in Slots \ {s} : task'[t][r] = task[t][r]
         /\ task[t][s].stage = "reload"
         /\ shown'[t] = IF visible[t] = s THEN Status(store[t]) ELSE shown[t]
         /\ screen'[t] = store[t] \/ ReadsFail
<1> DEFINE ended == Ended(t, s)
<1>1. /\ ended \in [Slots -> Task] /\ ended[s] = NoTask
      /\ \A r \in Slots \ {s} : ended[r] = task[t][r]
  BY TabletTyped, SeedTyped DEF Ended, Typed
<1>2. /\ task' = [task EXCEPT ![t] = ended] /\ UNCHANGED <<versions, store, visible, seen, edits>>
      /\ shown' = [shown EXCEPT ![t] = IF visible[t] = s THEN Status(store[t]) ELSE @]
      /\ screen' = [screen EXCEPT ![t] = store[t]] \/ (ReadsFail /\ screen' = screen)
      /\ task[t][s].stage = "reload"
  BY DEF Reload, End, EndWith
<1> HIDE DEF ended
<1>3. task'[t] = ended /\ Only(t)
  BY <1>2 DEF TypesOK, Only
<1>4. Typed(t)'
  BY <1>1, <1>2, <1>3, TabletTyped, StatusTyped DEF Typed, TypesOK
<1> QED
  BY <1>1, <1>2, <1>3, <1>4, SameVersions DEF TypesOK

LEMMA ReloadBase ==
  ASSUME BaseInv, NEW t \in Tablets, NEW s \in Slots, Reload(t, s)
  PROVE  BaseInv'
<1>1. TypesOK /\ edits \in Nat
  BY DEF BaseInv, TypesOK
<1>2. WritePart(t, s)'
  BY <1>1, ReloadStep, EndedWrite
<1>4. Grows /\ store'[t] = store[t] /\ \A r \in Slots \ {s} : Kept(t, r)
  BY <1>1, ReloadStep DEF Kept
<1>5. \A r \in Slots \ {s} : WritePart(t, r)'
  BY <1>4, KeptWrite
<1>3. StorePart(t)'
  BY <1>1, ReloadStep, StoreKept
<1> QED
  BY <1>1, <1>2, <1>3, <1>5, ReloadStep, BaseStep

LEMMA RestartStep ==
  ASSUME TypesOK, NEW t \in Tablets, Restart(t)
  PROVE  /\ Only(t) /\ Typed(t)' /\ Grows /\ UNCHANGED <<versions, store, seen, edits>>
         /\ \A s \in Slots : task'[t][s] = NoTask
         /\ visible'[t] = NoDialog /\ screen'[t] = store[t]
<1>1. UNCHANGED <<versions, store, seen, edits>> /\ Only(t)
  BY DEF Restart, Only, TypesOK
<1>2. task'[t] = [s \in Slots |-> NoTask]
  BY DEF Restart, TypesOK
<1>3. visible'[t] = NoDialog /\ shown'[t] = Status(NewStore) /\ screen'[t] = store[t]
  BY DEF Restart, TypesOK
<1>4. Typed(t)'
  BY <1>1, <1>2, <1>3, TabletTyped, SeedTyped DEF Typed
<1> QED
  BY <1>1, <1>2, <1>3, <1>4, SameVersions

LEMMA RestartBase ==
  ASSUME BaseInv, NEW t \in Tablets, Restart(t)
  PROVE  BaseInv'
<1>1. TypesOK /\ edits \in Nat
  BY DEF BaseInv, TypesOK
<1> QED
  BY <1>1, RestartStep, EndedWrite, StoreKept, BaseStep

LEMMA SaveStep ==
  ASSUME TypesOK, NEW t \in Tablets, Save(t)
  PROVE  /\ Only(t) /\ Typed(t)' /\ Grows /\ UNCHANGED <<versions, visible, shown>>
         /\ edits' = edits + 1
         /\ \A r \in Slots : Kept(t, r) /\ task'[t][r].stage # "write"
         /\ store'[t].base = store[t].base /\ store'[t].active = store[t].active
         /\ store'[t].pending = store[t].pending /\ store'[t].conflicts = store[t].conflicts
         /\ screen'[t] = store'[t]
         /\ \E f \in Fields :
              /\ seen'[t][f] = screen[t].base[f]
              /\ \A g \in Fields \ {f} :
                   seen'[t][g] = seen[t][g] /\ store'[t].local[g] \in {store[t].local[g], screen[t].local[g]}
<1>1. /\ UNCHANGED <<versions, visible, shown>> /\ edits' = edits + 1
      /\ screen' = [screen EXCEPT ![t] = store'[t]] /\ task' = [task EXCEPT ![t] = Outdate(@)]
  BY DEF Save, Edited
<1>2. PICK form \in Forms : \E f \in form, v \in Values :
        /\ store' = [store EXCEPT ![t] = Saved(@, form, [screen[t].local EXCEPT ![f] = v])]
        /\ seen' = [seen EXCEPT ![t][f] = screen[t].base[f]]
  BY DEF Save
<1>3. PICK f \in form, v \in Values :
        /\ store' = [store EXCEPT ![t] = Saved(@, form, [screen[t].local EXCEPT ![f] = v])]
        /\ seen' = [seen EXCEPT ![t][f] = screen[t].base[f]]
  BY <1>2
<1> DEFINE values == [screen[t].local EXCEPT ![f] = v]
<1>4. /\ f \in Fields /\ screen[t].local \in Content /\ screen[t].base \in Content
      /\ store[t] \in Store /\ seen[t] \in Content
  BY <1>3, TabletTyped DEF Typed, Store, Fields
<1>5. values \in Content /\ \A g \in Fields \ {f} : values[g] = screen[t].local[g]
  BY <1>4 DEF Content
<1>6. store'[t] = Saved(store[t], form, values)
  BY <1>3 DEF TypesOK
<1> HIDE DEF values
<1>7. /\ store'[t] \in Store
      /\ store'[t].base = store[t].base /\ store'[t].active = store[t].active
      /\ store'[t].pending = store[t].pending /\ store'[t].conflicts = store[t].conflicts
      /\ \A g \in Fields : store'[t].local[g] = IF g \in form THEN values[g] ELSE store[t].local[g]
  BY <1>4, <1>5, <1>6, SavedTyped
<1>8. /\ seen'[t] = [seen[t] EXCEPT ![f] = screen[t].base[f]] /\ seen'[t] \in Content
      /\ seen'[t][f] = screen[t].base[f] /\ \A g \in Fields \ {f} : seen'[t][g] = seen[t][g]
  BY <1>3, <1>4 DEF TypesOK, Content
<1>10. task'[t] = Outdate(task[t])
  BY <1>1 DEF TypesOK
<1>11. task'[t] \in [Slots -> Task] /\ \A r \in Slots : Kept(t, r) /\ task'[t][r].stage # "write"
  <2>1. task'[t] \in [Slots -> Task]
    BY <1>10, OutdateKept
  <2>2. ASSUME NEW r \in Slots
        PROVE  Kept(t, r) /\ task'[t][r].stage # "write"
    <3>1. Outdate(task[t])[r].stage # "write"
      BY OutdateKept
    <3>2. \/ Outdate(task[t])[r] = task[t][r]
          \/ /\ task[t][r].stage = "write"
             /\ Outdate(task[t])[r] = [task[t][r] EXCEPT !.stage = "outdated", !.snap = NewStore]
      BY OutdateKept
    <3> QED
      BY <1>10, <3>1, <3>2 DEF Kept
  <2> QED
    BY <2>1, <2>2
<1>12. screen'[t] = store'[t]
  BY <1>1 DEF TypesOK
<1>13. Only(t)
  BY <1>1, <1>3 DEF Only, TypesOK
<1>14. Typed(t)'
  BY <1>1, <1>7, <1>8, <1>11, <1>12, TabletTyped DEF Typed
<1> QED
  BY <1>1, <1>4, <1>5, <1>7, <1>8, <1>11, <1>12, <1>13, <1>14, SameVersions

LEMMA SaveBase ==
  ASSUME BaseInv, NEW t \in Tablets, Save(t)
  PROVE  BaseInv'
<1>1. TypesOK /\ StorePart(t) /\ edits \in Nat
  BY DEF BaseInv, TypesOK
<1>2. StorePart(t)'
  BY <1>1, SaveStep DEF StorePart, VersionContent
<1>3. \A r \in Slots : WritePart(t, r)'
  BY <1>1, SaveStep, KeptWrite
<1>4. edits' \in Nat
  BY <1>1, SaveStep
<1> QED
  BY <1>1, <1>2, <1>3, <1>4, SaveStep, BaseStep
-----------------------------------------------------------------------------
(* The write of a change: what the store becomes, whatever the change.     *)

After(t, s) == Changed(task[t][s], store[t])

Writes(t, s) ==
  /\ task[t][s].stage = "write" /\ task[t][s].kind \in {"download", "activate", "resolve"}
  /\ ~Refuses(task[t][s], store[t]) /\ ~Nothing(task[t][s], store[t])

(* A write of the store only goes forward and undoes no edit.              *)
AfterOK(t, s) ==
  /\ After(t, s) \in Store
  /\ After(t, s).active <= Len(versions) /\ After(t, s).pending <= Len(versions)
  /\ After(t, s).pending # 0 => After(t, s).pending > After(t, s).active
  /\ After(t, s).base = VersionContent(After(t, s).active)
  /\ Newest(After(t, s)) >= Newest(store[t])
  /\ \A f \in Fields :
       After(t, s).local[f] # store[t].local[f] =>
         \/ store[t].local[f] = store[t].base[f]
         \/ [field |-> f, local |-> store[t].local[f]] \in store[t].conflicts

LEMMA DownloadAfter ==
  ASSUME BaseInv, NEW t \in Tablets, NEW s \in Slots, Writes(t, s), task[t][s].kind = "download"
  PROVE  /\ AfterOK(t, s)
         /\ After(t, s).local = store[t].local /\ After(t, s).base = store[t].base
         /\ After(t, s).active = store[t].active /\ After(t, s).conflicts = store[t].conflicts
<1> DEFINE n == task[t][s].version
           x == store[t]
<1>1. /\ x \in Store /\ n \in Nat /\ x.active \in Nat /\ x.pending \in Nat
      /\ n <= Len(versions) /\ Len(versions) \in Nat /\ StorePart(t)
  <2>1. TypesOK /\ Typed(t) /\ task[t][s] \in Task /\ StorePart(t) /\ WritePart(t, s)
    BY TabletTyped DEF BaseInv
  <2>2. x \in Store /\ n \in Nat
    BY <2>1 DEF Typed, Task
  <2>3. x.active \in Nat /\ x.pending \in Nat
    BY <2>2 DEF Store
  <2>4. n <= Len(versions)
    BY <2>1 DEF WritePart, Writes
  <2>5. Len(versions) \in Nat
    BY <2>1 DEF TypesOK
  <2> QED
    BY <2>1, <2>2, <2>3, <2>4, <2>5
<1>2. n \notin {x.active, x.pending} /\ ~StaleFor(x, n)
  BY DEF Writes, Refuses, Nothing, Known
<1>3. n > x.active /\ n > x.pending
  BY <1>1, <1>2 DEF StaleFor
<1>4. After(t, s) = Staged(x, n)
  BY DEF After, Changed
<1>5. /\ After(t, s) \in Store /\ After(t, s).local = x.local /\ After(t, s).base = x.base
      /\ After(t, s).active = x.active /\ After(t, s).conflicts = x.conflicts
      /\ After(t, s).pending = n
  <2>1. /\ Staged(x, n) \in Store
        /\ Staged(x, n).local = x.local /\ Staged(x, n).base = x.base
        /\ Staged(x, n).active = x.active /\ Staged(x, n).conflicts = x.conflicts
        /\ Staged(x, n).pending = n
    <3> HIDE DEF n, x
    <3> QED
      BY <1>1, StagedTyped
  <2> HIDE DEF n, x
  <2> QED
    BY <1>4, <2>1
<1>6. Newest(After(t, s)) >= Newest(x)
  BY <1>1, <1>3, <1>5 DEF Newest
<1>7. After(t, s).base = VersionContent(After(t, s).active)
  BY <1>1, <1>5 DEF StorePart
<1> QED
  BY <1>1, <1>3, <1>5, <1>6, <1>7 DEF AfterOK

LEMMA ActivateAfter ==
  ASSUME BaseInv, NEW t \in Tablets, NEW s \in Slots, Writes(t, s), task[t][s].kind = "activate"
  PROVE  /\ AfterOK(t, s) /\ store[t].conflicts = {}
         /\ \A f \in Fields :
              After(t, s).local[f] # After(t, s).base[f] =>
                \/ \E c \in After(t, s).conflicts : c.field = f
                \/ /\ store[t].local[f] # store[t].base[f]
                   /\ After(t, s).base[f] = store[t].base[f]
<1> DEFINE x == store[t]
           r == VersionContent(x.pending)
<1>1. /\ x \in Store /\ x.active \in Nat /\ x.pending \in Nat /\ Len(versions) \in Nat
      /\ StorePart(t) /\ TypesOK
  BY TabletTyped DEF BaseInv, Typed, Store, TypesOK
<1>2. x.conflicts = {} /\ x.pending # 0
  BY DEF Writes, Refuses, Nothing
<1>3. r \in Content
  BY <1>1, VersionTyped DEF StorePart, TypesOK
<1>4. After(t, s) = Activated(x, r)
  BY DEF After, Changed
<1> HIDE DEF r
<1>5. /\ After(t, s) \in Store /\ After(t, s).base = r /\ After(t, s).active = x.pending
      /\ After(t, s).pending = 0
      /\ \A f \in Fields :
           After(t, s).local[f] = IF Unedited(x.base, x.local, r, f) THEN r[f] ELSE x.local[f]
      /\ \A f \in Fields :
           ~Unedited(x.base, x.local, r, f) /\ r[f] # x.base[f] =>
             \E c \in After(t, s).conflicts : c.field = f
  BY <1>1, <1>3, <1>4, ActivatedTyped
<1>6. Newest(After(t, s)) >= Newest(x)
  BY <1>1, <1>2, <1>5 DEF Newest, StorePart
<1>7. After(t, s).base = VersionContent(After(t, s).active)
  BY <1>5 DEF r
<1>8. \A f \in Fields : After(t, s).local[f] # x.local[f] => x.local[f] = x.base[f]
  BY <1>5 DEF Unedited
<1>9. AfterOK(t, s)
  BY <1>1, <1>5, <1>6, <1>7, <1>8 DEF AfterOK, StorePart
<1> QED
  BY <1>2, <1>5, <1>9 DEF Unedited

LEMMA ResolveAfter ==
  ASSUME BaseInv, NEW t \in Tablets, NEW s \in Slots, Writes(t, s), task[t][s].kind = "resolve"
  PROVE  /\ AfterOK(t, s) /\ After(t, s).base = store[t].base
         /\ \A f \in Fields :
              After(t, s).local[f] # After(t, s).base[f] =>
                After(t, s).local[f] = store[t].local[f]
<1> DEFINE x == store[t]
           choice == task[t][s].choice
<1>1. /\ x \in Store /\ x.active \in Nat /\ x.pending \in Nat /\ Len(versions) \in Nat
      /\ StorePart(t) /\ choice \in {"local", "remote"}
  <2>1. TypesOK /\ x \in Store /\ task[t][s] \in Task /\ StorePart(t) /\ Len(versions) \in Nat
    BY TabletTyped DEF BaseInv, Typed, TypesOK
  <2> QED
    BY <2>1 DEF Store, Task
<1>2. choice = "remote" => \A c \in x.conflicts : x.local[c.field] = c.local
  BY DEF Writes, Refuses, Nothing, EditedSince
<1>3. After(t, s) = Resolved(x, choice)
  BY DEF After, Changed
<1>4. /\ After(t, s) \in Store /\ After(t, s).base = x.base /\ After(t, s).active = x.active
      /\ After(t, s).pending = x.pending
      /\ choice = "local" => After(t, s).local = x.local
      /\ choice # "local" =>
           \A f \in Fields :
             After(t, s).local[f] =
               IF \E c \in x.conflicts : c.field = f THEN x.base[f] ELSE x.local[f]
  BY <1>1, <1>3, ResolvedTyped
<1>5. Newest(After(t, s)) >= Newest(x)
  BY <1>1, <1>4 DEF Newest
<1>6. After(t, s).base = VersionContent(After(t, s).active)
  BY <1>1, <1>4 DEF StorePart
<1>7. ASSUME NEW f \in Fields, After(t, s).local[f] # x.local[f]
      PROVE  [field |-> f, local |-> x.local[f]] \in x.conflicts
  <2>1. choice = "remote"
    BY <1>1, <1>4, <1>7
  <2>2. PICK c \in x.conflicts : c.field = f
    BY <1>4, <1>7, <2>1
  <2>3. c \in Conflict /\ c.local = x.local[f]
    BY <1>1, <1>2, <2>1, <2>2 DEF Store
  <2>4. c = [field |-> f, local |-> x.local[f]]
    BY <2>2, <2>3 DEF Conflict
  <2> QED
    BY <2>2, <2>4
<1>8. AfterOK(t, s)
  BY <1>1, <1>4, <1>5, <1>6, <1>7 DEF AfterOK, StorePart
<1>9. ASSUME NEW f \in Fields, After(t, s).local[f] # After(t, s).base[f]
      PROVE  After(t, s).local[f] = x.local[f]
  BY <1>1, <1>4, <1>9
<1> QED
  BY <1>4, <1>8, <1>9

LEMMA WritesAfter ==
  ASSUME BaseInv, NEW t \in Tablets, NEW s \in Slots, Writes(t, s)
  PROVE  AfterOK(t, s)
BY DownloadAfter, ActivateAfter, ResolveAfter DEF Writes

LEMMA SeenTyped ==
  ASSUME NEW p \in Task, NEW known \in Content, NEW f \in Fields
  PROVE  SeenWith(p, known, f) \in Values
<1>1. CASE p.kind = "resolve" /\ \E a \in p.asked : a.field = f
  <2>1. (CHOOSE a \in p.asked : a.field = f) \in p.asked
    BY <1>1
  <2>2. \A a \in p.asked : a.remote \in Values
    BY DEF Task
  <2> QED
    BY <1>1, <2>1, <2>2 DEF SeenWith
<1>2. CASE ~(p.kind = "resolve" /\ \E a \in p.asked : a.field = f)
  BY <1>2 DEF SeenWith, Content
<1> QED
  BY <1>1, <1>2

LEMMA CommitStep ==
  ASSUME BaseInv, NEW t \in Tablets, NEW s \in Slots, Commit(t, s)
  PROVE  /\ Writes(t, s) /\ Only(t) /\ Typed(t)' /\ Grows
         /\ UNCHANGED <<versions, visible, screen, edits>>
         /\ store'[t] = After(t, s)
         /\ \A r \in Slots \ {s} : Kept(t, r) /\ task'[t][r].stage # "write"
         /\ \/ /\ task[t][s].kind = "download" /\ task'[t][s] = NoTask
               /\ shown'[t] = IF visible[t] = s THEN Status(store'[t]) ELSE shown[t]
            \/ /\ Applies(t, s) /\ task'[t][s].kind = task[t][s].kind
               /\ task'[t][s].stage = "reload"
         /\ \A f \in Fields :
              seen'[t][f] = IF store'[t].local[f] = store'[t].base[f] THEN store'[t].base[f]
                            ELSE SeenWith(task[t][s], seen[t], f)
<1> DEFINE p == task[t][s]
           tasks == Outdate(task[t])
           last == IF p.kind = "download" THEN NoTask
                   ELSE [NoTask EXCEPT !.kind = p.kind, !.stage = "reload"]
<1>1. /\ TypesOK /\ p \in Task /\ store[t] \in Store /\ seen[t] \in Content
      /\ p.stage = "write" /\ WritePart(t, s)
      /\ UNCHANGED <<versions, visible, screen, edits>> /\ Grows
  BY TabletTyped, SameVersions DEF BaseInv, Typed, Commit
<1>2. Writes(t, s) /\ p.snap = store[t]
  BY <1>1 DEF WritePart, Writes
<1>3. store' = [store EXCEPT ![t] = After(t, s)] /\ store'[t] = After(t, s)
  BY <1>1, <1>2 DEF Commit, After, TypesOK
<1>4. After(t, s) \in Store
  BY <1>2, WritesAfter DEF AfterOK
<1>5. /\ tasks \in [Slots -> Task] /\ tasks[s].kind = p.kind
      /\ \A r \in Slots : tasks[r].stage # "write"
  BY <1>1, OutdateKept
<1>6. \A r \in Slots :
        \/ tasks[r] = task[t][r]
        \/ /\ task[t][r].stage = "write"
           /\ tasks[r] = [task[t][r] EXCEPT !.stage = "outdated", !.snap = NewStore]
  BY <1>1, OutdateKept
<1>7. Done(t, s, tasks)
  BY DEF Commit
<1> HIDE DEF tasks
<1>8. /\ task' = [task EXCEPT ![t] = [tasks EXCEPT ![s] = last]]
      /\ \/ shown' = shown /\ p.kind # "download"
         \/ /\ shown' = [shown EXCEPT ![t] = IF visible[t] = s THEN Status(store'[t]) ELSE @]
            /\ p.kind = "download"
  BY <1>5, <1>7 DEF Done, EndWith
<1>9. last \in Task
  BY <1>1, SeedTyped DEF Task
<1>10. p.kind # "download" => last.kind = p.kind /\ last.stage = "reload"
  BY SeedTyped DEF Task
<1>11. p.kind = "download" => last = NoTask
  OBVIOUS
<1> HIDE DEF last
<1>12. /\ task'[t] \in [Slots -> Task] /\ task'[t][s] = last
       /\ task' = [task EXCEPT ![t] = task'[t]]
       /\ \A r \in Slots \ {s} : task'[t][r] = tasks[r]
  BY <1>1, <1>5, <1>8, <1>9 DEF TypesOK
<1>13. \A r \in Slots \ {s} : Kept(t, r) /\ task'[t][r].stage # "write"
  BY <1>5, <1>6, <1>12 DEF Kept
<1>14. /\ shown' = [shown EXCEPT ![t] = shown'[t]] /\ shown'[t] \in Shown
       /\ p.kind = "download" =>
            shown'[t] = IF visible[t] = s THEN Status(store'[t]) ELSE shown[t]
  BY <1>1, <1>3, <1>4, <1>8, StatusTyped DEF TypesOK
<1>15. seen' = [seen EXCEPT ![t] =
         [f \in Fields |-> IF store'[t].local[f] = store'[t].base[f]
                           THEN store'[t].base[f] ELSE SeenWith(p, seen[t], f)]]
  BY DEF Commit
<1>16. \A f \in Fields :
         seen'[t][f] = IF store'[t].local[f] = store'[t].base[f] THEN store'[t].base[f]
                       ELSE SeenWith(p, seen[t], f)
  BY <1>1, <1>15 DEF TypesOK
<1>17. seen'[t] \in Content /\ seen' = [seen EXCEPT ![t] = seen'[t]]
  <2>1. \A f \in Fields : store'[t].base[f] \in Values /\ SeenWith(p, seen[t], f) \in Values
    BY <1>1, <1>3, <1>4, SeenTyped DEF Store, Content
  <2> QED
    BY <1>1, <1>15, <2>1 DEF TypesOK, Content
<1>18. Only(t)
  BY <1>1, <1>3, <1>12, <1>14, <1>17 DEF Only, TypesOK
<1>19. Typed(t)'
  BY <1>1, <1>3, <1>4, <1>12, <1>14, <1>17, TabletTyped DEF Typed
<1>20. \/ /\ p.kind = "download" /\ task'[t][s] = NoTask
          /\ shown'[t] = IF visible[t] = s THEN Status(store'[t]) ELSE shown[t]
       \/ /\ Applies(t, s) /\ task'[t][s].kind = p.kind /\ task'[t][s].stage = "reload"
  BY <1>2, <1>10, <1>11, <1>12, <1>14 DEF Writes, Applies
<1> QED
  BY <1>1, <1>2, <1>3, <1>13, <1>16, <1>18, <1>19, <1>20

LEMMA CommitBase ==
  ASSUME BaseInv, NEW t \in Tablets, NEW s \in Slots, Commit(t, s)
  PROVE  BaseInv'
<1>1. /\ Writes(t, s) /\ Only(t) /\ Typed(t)' /\ Grows /\ store'[t] = After(t, s)
      /\ UNCHANGED <<versions, edits>> /\ edits \in Nat
  BY CommitStep DEF BaseInv, TypesOK
<1>2. StorePart(t)'
  BY <1>1, WritesAfter DEF AfterOK, StorePart, VersionContent
<1>3. \A r \in Slots \ {s} : WritePart(t, r)'
  BY <1>1, CommitStep, KeptWrite
<1>4. WritePart(t, s)'
  <2>1. \/ task'[t][s] = NoTask
        \/ Applies(t, s) /\ task'[t][s].kind = task[t][s].kind /\ task'[t][s].stage = "reload"
    BY CommitStep
  <2> QED
    BY <2>1, EndedWrite DEF WritePart, Applies
<1> QED
  BY <1>1, <1>2, <1>3, <1>4, BaseStep
-----------------------------------------------------------------------------
(* What holds whatever the reads of the screen become.                     *)

LEMMA BaseInit == Init => BaseInv
<1> SUFFICES ASSUME Init
             PROVE  BaseInv
  OBVIOUS
<1>1. versions \in Seq(Version)
  <2>1. <<>> \in Seq(Version)
    OBVIOUS
  <2>2. ASSUME NEW f \in Fields, NEW v \in Values
        PROVE  <<[content |-> [Seed EXCEPT ![f] = v], unseen |-> {}]>> \in Seq(Version)
    <3>1. [Seed EXCEPT ![f] = v] \in Content
      BY SeedTyped DEF Content
    <3>2. [content |-> [Seed EXCEPT ![f] = v], unseen |-> {}] \in Version
      BY <3>1 DEF Version
    <3> QED
      BY <3>2
  <2>3. \/ versions = <<>>
        \/ \E f \in Fields, v \in Values :
             versions = <<[content |-> [Seed EXCEPT ![f] = v], unseen |-> {}]>>
    BY DEF Init
  <2> QED
    BY <2>1, <2>2, <2>3
<1>2. /\ store \in [Tablets -> Store] /\ task \in [Tablets -> [Slots -> Task]]
      /\ visible \in [Tablets -> Dialogs \cup {NoDialog}] /\ shown \in [Tablets -> Shown]
      /\ screen \in [Tablets -> Store] /\ seen \in [Tablets -> Content] /\ edits \in Nat
  BY SeedTyped DEF Init
<1>3. \A t \in Tablets : StorePart(t)
  BY <1>1 DEF Init, StorePart, NewStore, VersionContent
<1>4. \A t \in Tablets, s \in Slots : WritePart(t, s)
  BY DEF Init, WritePart, NoTask
<1> QED
  BY <1>1, <1>2, <1>3, <1>4 DEF BaseInv, TypesOK

LEMMA BaseNext == BaseInv /\ [Next]_vars => BaseInv'
<1> SUFFICES ASSUME BaseInv, [Next]_vars
             PROVE  BaseInv'
  OBVIOUS
<1>1. CASE UNCHANGED vars
  BY <1>1 DEF BaseInv, TypesOK, StorePart, WritePart, VersionContent, vars
<1>2. ASSUME NEW t \in Tablets,
             \/ \E d \in Dialogs : OpenDialog(t, d)
             \/ CloseDialog(t)
             \/ Save(t)
             \/ StartPublication(t)
             \/ StartActivation(t)
             \/ StartResolution(t)
             \/ Restart(t)
      PROVE  BaseInv'
  <2>1. StartPublication(t) \/ StartActivation(t) \/ StartResolution(t) => visible[t] \in Slots
    BY DEF StartPublication, StartActivation, StartResolution, Usable, Slots, BaseInv, TypesOK
  <2> QED
    BY <1>2, <2>1, DialogBase, SaveBase, ExchangeBase, OperationBase, RestartBase
<1>3. ASSUME NEW t \in Tablets, NEW s \in Slots,
             \/ StartDownload(t, s)
             \/ DownloadAnswered(t, s)
             \/ PublicationAnswered(t, s)
             \/ AnswerLost(t, s)
             \/ Compute(t, s)
             \/ Commit(t, s)
             \/ Retry(t, s)
             \/ ApplicationRefused(t, s)
             \/ Reload(t, s)
      PROVE  BaseInv'
  BY <1>3, ExchangeBase, OperationBase, CommitBase, ReloadBase
<1> QED
  BY <1>1, <1>2, <1>3 DEF Next

LEMMA BaseAlways == Spec => []BaseInv
  BY BaseInit, BaseNext, PTL DEF Spec

(* Only an edit and a write change a store.                                *)
LEMMA StoreWritten ==
  ASSUME BaseInv, [Next]_vars, NEW t \in Tablets
  PROVE  \/ store'[t] = store[t]
         \/ Save(t)
         \/ \E s \in Slots : Writes(t, s) /\ store'[t] = After(t, s)
<1>1. CASE UNCHANGED store
  BY <1>1
<1>2. CASE \E u \in Tablets : Save(u)
  BY <1>2, SaveStep, OthersKept DEF BaseInv
<1>3. CASE \E u \in Tablets, s \in Slots : Commit(u, s)
  <2>1. PICK u \in Tablets, s \in Slots : Commit(u, s)
    BY <1>3
  <2>2. Writes(u, s) /\ Only(u) /\ store'[u] = After(u, s)
    BY <2>1, CommitStep
  <2> QED
    BY <2>2, OthersKept DEF BaseInv
<1>4. ASSUME NEW u \in Tablets,
             \/ \E d \in Dialogs : OpenDialog(u, d)
             \/ CloseDialog(u)
             \/ StartPublication(u)
             \/ StartActivation(u)
             \/ StartResolution(u)
             \/ Restart(u)
      PROVE  UNCHANGED store
  BY <1>4 DEF OpenDialog, CloseDialog, StartPublication, StartActivation, StartResolution, Restart
<1>5. ASSUME NEW u \in Tablets, NEW s \in Slots,
             \/ StartDownload(u, s)
             \/ DownloadAnswered(u, s)
             \/ PublicationAnswered(u, s)
             \/ AnswerLost(u, s)
             \/ Compute(u, s)
             \/ Retry(u, s)
             \/ ApplicationRefused(u, s)
             \/ Reload(u, s)
      PROVE  UNCHANGED store
  BY <1>5 DEF StartDownload, DownloadAnswered, PublicationAnswered, AnswerLost, Compute, Retry,
              ApplicationRefused, Reload, End, EndNoted
<1>6. CASE UNCHANGED vars
  BY <1>1, <1>6 DEF vars
<1> QED
  BY <1>1, <1>2, <1>3, <1>4, <1>5, <1>6 DEF Next

(* No tablet goes back to an older version, in use or downloaded, in       *)
(* whatever order the answers come and the changes are written.            *)
THEOREM VersionsGoForward == Spec => NeverOlder
<1>1. BaseInv /\ [Next]_vars =>
        [\A t \in Tablets : Newest(store'[t]) >= Newest(store[t])]_vars
  <2> SUFFICES ASSUME BaseInv, [Next]_vars, NEW t \in Tablets
               PROVE  Newest(store'[t]) >= Newest(store[t])
    OBVIOUS
  <2>1. Newest(store[t]) \in Nat
    BY TabletTyped DEF BaseInv, Typed, Store, Newest
  <2>2. CASE store'[t] = store[t]
    BY <2>1, <2>2
  <2>3. CASE Save(t)
    <3>1. store'[t].active = store[t].active /\ store'[t].pending = store[t].pending
      BY <2>3, SaveStep DEF BaseInv
    <3> QED
      BY <2>1, <3>1 DEF Newest
  <2>4. CASE \E s \in Slots : Writes(t, s) /\ store'[t] = After(t, s)
    BY <2>4, WritesAfter DEF AfterOK
  <2> QED
    BY <2>2, <2>3, <2>4, StoreWritten
<1> QED
  BY <1>1, BaseAlways, PTL DEF Spec, NeverOlder

(* A local value changes by an edit, by a version while it was not edited  *)
(* or by the decision of the conflict that showed that very value.         *)
THEOREM EditsAreKept == Spec => NoEditLost
<1>1. BaseInv /\ [Next]_vars =>
        [\A t \in Tablets, f \in Fields :
           store'[t].local[f] # store[t].local[f] =>
             \/ edits' # edits
             \/ store[t].local[f] = store[t].base[f]
             \/ [field |-> f, local |-> store[t].local[f]] \in store[t].conflicts]_vars
  <2> SUFFICES ASSUME BaseInv, [Next]_vars, NEW t \in Tablets, NEW f \in Fields,
                      store'[t].local[f] # store[t].local[f]
               PROVE  \/ edits' # edits
                      \/ store[t].local[f] = store[t].base[f]
                      \/ [field |-> f, local |-> store[t].local[f]] \in store[t].conflicts
    OBVIOUS
  <2>1. CASE Save(t)
    <3>1. edits' = edits + 1 /\ edits \in Nat
      BY <2>1, SaveStep DEF BaseInv, TypesOK
    <3> QED
      BY <3>1
  <2>2. CASE \E s \in Slots : Writes(t, s) /\ store'[t] = After(t, s)
    BY <2>2, WritesAfter DEF AfterOK
  <2> QED
    BY <2>1, <2>2, StoreWritten
<1> QED
  BY <1>1, BaseAlways, PTL DEF Spec, NoEditLost
-----------------------------------------------------------------------------
(* What the screens still know, where the rows are read after each change. *)

LEMMA PublishKept ==
  ASSUME BaseInv, NEW t \in Tablets, NEW r \in Slots, Grows, PublishPart(t, r),
         task'[t][r].kind = task[t][r].kind, task'[t][r].version = task[t][r].version,
         task'[t][r].content = task[t][r].content, task'[t][r].seen = task[t][r].seen
  PROVE  PublishPart(t, r)'
<1>1. CASE task[t][r].kind # "publish"
  BY <1>1 DEF PublishPart
<1>2. CASE task[t][r].kind = "publish"
  <2>1. task[t][r].version \in Nat
    BY TabletTyped DEF BaseInv, Task
  <2>2. PICK n \in Nat : n = task[t][r].version
    BY <2>1
  <2>3. n <= Len(versions) /\ Len(versions) \in Nat /\ Len(versions') \in Nat
    BY <1>2, <2>2 DEF PublishPart, BaseInv, TypesOK, Grows
  <2>4. VersionContent(n)' = VersionContent(n)
    BY <2>3 DEF Grows
  <2>5. VersionContent(task[t][r].version)' = VersionContent(n)
    BY <2>2, <2>4 DEF VersionContent
  <2> QED
    BY <1>2, <2>2, <2>3, <2>5 DEF PublishPart, Grows
<1> QED
  BY <1>1, <1>2

LEMMA KeptTask ==
  ASSUME TypesOK, NEW t \in Tablets, NEW r \in Slots, Kept(t, r)
  PROVE  /\ task'[t][r].kind = task[t][r].kind /\ task'[t][r].version = task[t][r].version
         /\ task'[t][r].content = task[t][r].content /\ task'[t][r].seen = task[t][r].seen
         /\ task'[t][r].asked = task[t][r].asked
         /\ task'[t][r].stage = "reload" <=> task[t][r].stage = "reload"
<1>1. task[t][r] \in Task
  BY TabletTyped
<1> QED
  BY <1>1 DEF Kept, Task

LEMMA SlotKept ==
  ASSUME BaseInv, ScreensInv, NEW t \in Tablets, NEW r \in Slots, Grows, Kept(t, r),
         \/ task[t][r].kind # "resolve"
         \/ store'[t].base = store[t].base /\ store'[t].conflicts = store[t].conflicts
  PROVE  AskedPart(t, r)' /\ PublishPart(t, r)'
<1>1. AskedPart(t, r) /\ PublishPart(t, r) /\ TypesOK
  BY DEF ScreensInv, ScreensPart, BaseInv
<1>2. PublishPart(t, r)'
  BY <1>1, KeptTask, PublishKept
<1>3. AskedPart(t, r)'
  BY <1>1, KeptTask DEF AskedPart
<1> QED
  BY <1>2, <1>3

LEMMA ScreensStep ==
  ASSUME BaseInv, ScreensInv, NEW t \in Tablets, Only(t), Grows, ScreensPart(t)', PublishedSeen'
  PROVE  ScreensInv'
<1>1. ASSUME NEW u \in Tablets, u # t
      PROVE  ScreensPart(u)'
  <2>1. /\ store'[u] = store[u] /\ task'[u] = task[u] /\ visible'[u] = visible[u]
        /\ shown'[u] = shown[u] /\ screen'[u] = screen[u] /\ seen'[u] = seen[u]
    BY <1>1, OthersKept DEF BaseInv
  <2>2. ScreensPart(u)
    BY DEF ScreensInv
  <2>3. \A s \in Slots : AskedPart(u, s)' /\ PublishPart(u, s)'
    BY <2>1, SlotKept DEF Kept
  <2>4. ApplyingPart(u)' /\ ShownPart(u)' /\ ScreenPart(u)' /\ KnownPart(u)'
    BY <2>1, <2>2 DEF ScreensPart, ApplyingPart, ShownPart, ScreenPart, KnownPart, Applies, Reloading
  <2> QED
    BY <2>3, <2>4 DEF ScreensPart
<1> QED
  BY <1>1 DEF ScreensInv

LEMMA MovesScreens ==
  ASSUME BaseInv, ScreensInv, NEW t \in Tablets, NEW s \in Slots, Moves(t, s), Grows,
         PublishedSeen', task[t][s].stage # "reload", AskedPart(t, s)', PublishPart(t, s)',
         Applies(t, s)' => Applies(t, s) \/ (visible[t] = s /\ ~Applying(t))
  PROVE  ScreensInv'
<1>1. /\ UNCHANGED <<store, visible, screen, seen>> /\ Only(t)
      /\ \A r \in Slots \ {s} : Kept(t, r)
      /\ shown'[t] \in {shown[t], Status(store[t])}
  BY DEF Moves
<1>2. /\ ApplyingPart(t) /\ ShownPart(t) /\ ScreenPart(t) /\ KnownPart(t) /\ TypesOK
  BY DEF ScreensInv, ScreensPart, BaseInv
<1>3. \A r \in Slots \ {s} : Applies(t, r)' <=> Applies(t, r)
  BY <1>1, <1>2, KeptTask DEF Applies
<1>4. Reloading(t) => Reloading(t)'
  BY <1>1, <1>2, KeptTask DEF Reloading
<1>5. ApplyingPart(t)'
  <2>1. CASE Applies(t, s)' => Applies(t, s)
    BY <1>1, <1>2, <1>3, <2>1 DEF ApplyingPart
  <2>2. CASE visible[t] = s /\ ~Applying(t)
    <3>1. \A r \in Slots : ~Applies(t, r)
      BY <2>2 DEF Applying, Applies
    <3> QED
      BY <1>1, <1>3, <2>2, <3>1 DEF ApplyingPart
  <2> QED
    BY <2>1, <2>2
<1>6. ShownPart(t)'
  BY <1>1, <1>2, <1>4 DEF ShownPart, Status
<1>7. ScreenPart(t)' /\ KnownPart(t)'
  BY <1>1, <1>2, <1>4 DEF ScreenPart, KnownPart
<1>8. \A r \in Slots : AskedPart(t, r)' /\ PublishPart(t, r)'
  BY <1>1, SlotKept
<1> QED
  BY <1>1, <1>5, <1>6, <1>7, <1>8, ScreensStep DEF ScreensPart

LEMMA SeenKept ==
  ASSUME PublishedSeen, UNCHANGED versions
  PROVE  PublishedSeen'
BY DEF PublishedSeen

(* A publication accepted on the version its author saw undoes nothing     *)
(* unseen.                                                                 *)
LEMMA PublishedUnseen ==
  ASSUME BaseInv, ScreensInv, NEW t \in Tablets, NEW s \in Slots, task[t][s].kind = "publish",
         Len(versions) = task[t][s].version, versions' = Published(task[t][s])
  PROVE  PublishedSeen'
<1>1. PublishPart(t, s) /\ PublishedSeen /\ TypesOK /\ Len(versions) \in Nat
  BY DEF ScreensInv, ScreensPart, BaseInv, TypesOK
<1>2. \A f \in Fields :
        task[t][s].content[f] # VersionContent(Len(versions))[f] =>
          task[t][s].seen[f] = VersionContent(Len(versions))[f]
  BY <1>1 DEF PublishPart
<1>3. /\ Len(versions') = Len(versions) + 1
      /\ \A n \in 1..Len(versions) : versions'[n] = versions[n]
      /\ versions'[Len(versions')].unseen =
           {f \in {g \in Fields : task[t][s].content[g] # VersionContent(Len(versions))[g]} :
              task[t][s].seen[f] # VersionContent(Len(versions))[f]}
  BY <1>1, PublishedGrows
<1>4. versions'[Len(versions')].unseen = {}
  BY <1>2, <1>3
<1>5. ASSUME NEW n \in 1..Len(versions')
      PROVE  versions'[n].unseen = {}
  <2>1. CASE n = Len(versions')
    BY <1>4, <2>1
  <2>2. CASE n # Len(versions')
    <3>1. n \in 1..Len(versions)
      BY <1>1, <1>3, <2>2
    <3> QED
      BY <1>1, <1>3, <3>1 DEF PublishedSeen
  <2> QED
    BY <2>1, <2>2
<1> QED
  BY <1>5 DEF PublishedSeen

LEMMA OtherSlot ==
  ASSUME NEW t \in Tablets, NEW s \in Slots,
         task'[t][s].kind \in {"none", "download"}
  PROVE  AskedPart(t, s)' /\ PublishPart(t, s)' /\ ~Applies(t, s)'
BY DEF AskedPart, PublishPart, Applies

LEMMA NoTaskSlot ==
  ASSUME NEW t \in Tablets, NEW s \in Slots, task'[t][s] = NoTask
  PROVE  AskedPart(t, s)' /\ PublishPart(t, s)' /\ ~Applies(t, s)'
BY OtherSlot DEF NoTask

(* A dialog that may be used is not behind an activation.                  *)
LEMMA UsableSees ==
  ASSUME BaseInv, ScreensInv, NEW t \in Tablets, Usable(t)
  PROVE  /\ ~Reloading(t) /\ visible[t] \in Slots
         /\ shown[t].base = store[t].base /\ shown[t].active = store[t].active
         /\ shown[t].conflicts = store[t].conflicts
         /\ screen[t].local = store[t].local /\ screen[t].base = store[t].base
<1>1. /\ visible[t] # NoDialog /\ visible[t] \in Slots /\ task[t][visible[t]] = NoTask
      /\ ApplyingPart(t) /\ ShownPart(t) /\ ScreenPart(t)
  BY DEF Usable, BaseInv, TypesOK, Slots, ScreensInv, ScreensPart
<1>2. ASSUME NEW s \in Slots, task[t][s].stage = "reload"
      PROVE  FALSE
  <2>1. Applies(t, s)
    BY <1>2 DEF BaseInv, WritePart, Applies
  <2>2. visible[t] = s
    BY <1>1, <2>1 DEF ApplyingPart
  <2> QED
    BY <1>1, <1>2, <2>2 DEF NoTask
<1> QED
  BY <1>1, <1>2 DEF Reloading, ShownPart, ScreenPart

LEMMA ExchangeScreens ==
  ASSUME BaseInv, ScreensInv, NEW t \in Tablets, NEW s \in Slots,
         \/ StartDownload(t, s)
         \/ DownloadAnswered(t, s)
         \/ PublicationAnswered(t, s)
         \/ AnswerLost(t, s)
  PROVE  ScreensInv'
<1>0. TypesOK /\ PublishedSeen
  BY DEF BaseInv, ScreensInv
<1>1. CASE StartDownload(t, s)
  <2>1. PublishedSeen'
    BY <1>0, <1>1, SeenKept DEF StartDownload
  <2> QED
    BY <1>0, <1>1, <2>1, StartDownloadMoves, OtherSlot, MovesScreens DEF NoTask
<1>2. CASE DownloadAnswered(t, s)
  <2>1. PublishedSeen'
    BY <1>0, <1>2, SeenKept DEF DownloadAnswered
  <2>2. /\ Moves(t, s) /\ Grows /\ task[t][s].stage = "sent"
        /\ task'[t][s] = NoTask \/ task'[t][s].kind = "download"
    BY <1>0, <1>2, DownloadAnsweredMoves
  <2>3. AskedPart(t, s)' /\ PublishPart(t, s)' /\ ~Applies(t, s)'
    BY <2>2, NoTaskSlot, OtherSlot
  <2> QED
    BY <2>1, <2>2, <2>3, MovesScreens
<1>3. CASE PublicationAnswered(t, s)
  <2>1. /\ Moves(t, s) /\ Grows /\ task[t][s].stage = "sent" /\ task[t][s].kind = "publish"
        /\ task'[t][s] = NoTask \/ task'[t][s].kind = "download"
    BY <1>0, <1>3, PublicationAnsweredMoves
  <2>2. PublishedSeen'
    BY <1>0, <1>3, <2>1, PublicationAnsweredMoves, SeenKept, PublishedUnseen
  <2>3. AskedPart(t, s)' /\ PublishPart(t, s)' /\ ~Applies(t, s)'
    BY <2>1, NoTaskSlot, OtherSlot
  <2> QED
    BY <2>1, <2>2, <2>3, MovesScreens
<1>4. CASE AnswerLost(t, s)
  <2>1. Moves(t, s) /\ Grows /\ task[t][s].stage = "sent" /\ task'[t][s] = NoTask
    BY <1>0, <1>4, AnswerLostMoves
  <2>2. PublishedSeen'
    BY <1>0, <1>4, AnswerLostMoves, SeenKept, PublishedUnseen
  <2> QED
    BY <2>1, <2>2, NoTaskSlot, MovesScreens
<1> QED
  BY <1>1, <1>2, <1>3, <1>4

LEMMA OperationScreens ==
  ASSUME BaseInv, ScreensInv, NEW t \in Tablets, NEW s \in Slots,
         \/ Compute(t, s)
         \/ Retry(t, s)
         \/ ApplicationRefused(t, s)
  PROVE  ScreensInv'
<1>0. /\ TypesOK /\ PublishedSeen /\ task[t][s] \in Task
      /\ AskedPart(t, s) /\ PublishPart(t, s) /\ WritePart(t, s)
  BY TabletTyped DEF BaseInv, ScreensInv, ScreensPart
<1>1. UNCHANGED <<versions, store>>
  BY DEF Compute, Retry, ApplicationRefused, End, EndNoted
<1>2. PublishedSeen'
  BY <1>0, <1>1, SeenKept
<1>3. /\ Moves(t, s) /\ Grows /\ task[t][s].stage \in {"read", "write", "outdated"}
      /\ \/ task'[t][s] = NoTask
         \/ Applies(t, s) /\ task'[t][s].kind = task[t][s].kind /\ task'[t][s].stage = "reload"
         \/ task'[t][s] = [task[t][s] EXCEPT !.stage = "write", !.snap = store[t]]
         \/ task'[t][s] = [task[t][s] EXCEPT !.stage = "read"]
  <2>1. CASE Compute(t, s)
    BY <1>0, <2>1, ComputeMoves
  <2>2. CASE Retry(t, s)
    BY <1>0, <2>2, RetryMoves
  <2>3. CASE ApplicationRefused(t, s)
    BY <1>0, <2>3, ApplicationRefusedMoves
  <2> QED
    BY <2>1, <2>2, <2>3
<1>4. CASE task'[t][s] = NoTask
  BY <1>2, <1>3, <1>4, NoTaskSlot, MovesScreens
<1>5. CASE Applies(t, s) /\ task'[t][s].kind = task[t][s].kind /\ task'[t][s].stage = "reload"
  <2>1. AskedPart(t, s)' /\ PublishPart(t, s)'
    BY <1>5 DEF AskedPart, PublishPart, Applies
  <2> QED
    BY <1>2, <1>3, <1>5, <2>1, MovesScreens
<1>6. CASE \/ task'[t][s] = [task[t][s] EXCEPT !.stage = "write", !.snap = store[t]]
           \/ task'[t][s] = [task[t][s] EXCEPT !.stage = "read"]
  <2>1. /\ task'[t][s].kind = task[t][s].kind /\ task'[t][s].version = task[t][s].version
        /\ task'[t][s].content = task[t][s].content /\ task'[t][s].seen = task[t][s].seen
        /\ task'[t][s].asked = task[t][s].asked
    BY <1>0, <1>6 DEF Task
  <2>2. PublishPart(t, s)'
    BY <1>0, <1>3, <2>1, PublishKept
  <2>3. AskedPart(t, s)'
    BY <1>0, <1>1, <1>3, <2>1 DEF AskedPart
  <2>4. Applies(t, s)' => Applies(t, s)
    BY <2>1 DEF Applies
  <2> QED
    BY <1>2, <1>3, <2>2, <2>3, <2>4, MovesScreens
<1> QED
  BY <1>3, <1>4, <1>5, <1>6

LEMMA ManagerScreens ==
  ASSUME BaseInv, ScreensInv, NEW t \in Tablets,
         \/ StartPublication(t)
         \/ StartActivation(t)
         \/ StartResolution(t)
  PROVE  ScreensInv'
<1>0. /\ TypesOK /\ PublishedSeen /\ KnownPart(t) /\ StorePart(t) /\ Usable(t)
      /\ UNCHANGED <<versions, store>>
  BY DEF BaseInv, ScreensInv, ScreensPart, StartPublication, StartActivation, StartResolution
<1>1. /\ visible[t] \in Slots /\ shown[t].active = store[t].active /\ shown[t].base = store[t].base
      /\ shown[t].conflicts = store[t].conflicts
  BY <1>0, UsableSees
<1>2. PICK s \in Slots : s = visible[t]
  BY <1>1
<1>3. PublishedSeen'
  BY <1>0, SeenKept
<1>4. CASE StartPublication(t)
  <2>1. /\ Moves(t, s) /\ Grows /\ task[t][s] = NoTask
        /\ task'[t][s].kind = "publish" /\ task'[t][s].stage = "sent"
        /\ task'[t][s].version = shown[t].active /\ task'[t][s].content = store[t].local
        /\ task'[t][s].seen = seen[t]
    BY <1>0, <1>2, <1>4, StartPublicationMoves
  <2>2. shown[t].conflicts = {}
    BY <1>4 DEF StartPublication
  <2>3. \A f \in Fields : store[t].local[f] # store[t].base[f] => seen[t][f] = store[t].base[f]
    BY <1>0, <1>1, <2>2 DEF KnownPart
  <2>4. VersionContent(task[t][s].version)' = store[t].base
    BY <1>0, <1>1, <2>1 DEF StorePart, VersionContent
  <2>5. PublishPart(t, s)'
    BY <1>0, <1>1, <2>1, <2>3, <2>4 DEF PublishPart, StorePart
  <2>6. AskedPart(t, s)' /\ ~Applies(t, s)'
    BY <2>1 DEF AskedPart, Applies
  <2> QED
    BY <1>2, <1>3, <2>1, <2>5, <2>6, MovesScreens DEF NoTask
<1>5. CASE StartActivation(t)
  <2>1. /\ Moves(t, s) /\ Grows /\ task[t][s] = NoTask /\ task'[t][s].kind = "activate"
    BY <1>0, <1>2, <1>5, StartActivationMoves
  <2>2. AskedPart(t, s)' /\ PublishPart(t, s)' /\ ~Applying(t)
    BY <1>5, <2>1 DEF AskedPart, PublishPart, StartActivation
  <2> QED
    BY <1>2, <1>3, <2>1, <2>2, MovesScreens DEF NoTask
<1>6. CASE StartResolution(t)
  <2>1. /\ Moves(t, s) /\ Grows /\ task[t][s] = NoTask /\ task'[t][s].kind = "resolve"
        /\ task'[t][s].asked = {[field |-> c.field, remote |-> shown[t].base[c.field]] :
                                  c \in shown[t].conflicts}
    BY <1>0, <1>2, <1>6, StartResolutionMoves
  <2>2. \A a : a \in task'[t][s].asked <=>
                 \E c \in store'[t].conflicts :
                   a = [field |-> c.field, remote |-> store'[t].base[c.field]]
    BY <1>0, <1>1, <2>1
  <2>3. AskedPart(t, s)' /\ PublishPart(t, s)' /\ ~Applying(t)
    BY <1>6, <2>1, <2>2 DEF AskedPart, PublishPart, StartResolution
  <2> QED
    BY <1>2, <1>3, <2>1, <2>3, MovesScreens DEF NoTask
<1> QED
  BY <1>4, <1>5, <1>6

LEMMA DialogScreens ==
  ASSUME BaseInv, ScreensInv, NEW t \in Tablets,
         \/ \E d \in Dialogs : OpenDialog(t, d)
         \/ CloseDialog(t)
  PROVE  ScreensInv'
<1>0. /\ TypesOK /\ PublishedSeen /\ ScreensPart(t)
      /\ UNCHANGED <<versions, store, task, screen, seen, edits>>
  BY DEF BaseInv, ScreensInv, OpenDialog, CloseDialog
<1>1. PublishedSeen' /\ Grows
  BY <1>0, SeenKept, SameVersions
<1>2. /\ Only(t)
      /\ \/ visible'[t] = NoDialog
         \/ shown'[t] = Status(store[t]) /\ ~Applying(t)
  BY <1>0 DEF OpenDialog, CloseDialog, Only, TypesOK
<1>3. \A s \in Slots : AskedPart(t, s)' /\ PublishPart(t, s)'
  BY <1>0, <1>1, SlotKept DEF Kept
<1>4. ScreenPart(t)' /\ KnownPart(t)'
  BY <1>0 DEF ScreensPart, ScreenPart, KnownPart, Reloading
<1>5. CASE visible'[t] = NoDialog
  BY <1>0, <1>1, <1>2, <1>3, <1>4, <1>5, ScreensStep
  DEF ScreensPart, ApplyingPart, ShownPart, Applies
<1>6. CASE shown'[t] = Status(store[t]) /\ ~Applying(t)
  <2>1. ApplyingPart(t)'
    BY <1>0, <1>6 DEF ApplyingPart, Applying, Applies
  <2>2. ShownPart(t)'
    BY <1>0, <1>6 DEF ShownPart, Status
  <2> QED
    BY <1>1, <1>2, <1>3, <1>4, <2>1, <2>2, ScreensStep DEF ScreensPart
<1> QED
  BY <1>2, <1>5, <1>6

LEMMA RestartScreens ==
  ASSUME BaseInv, ScreensInv, NEW t \in Tablets, Restart(t)
  PROVE  ScreensInv'
<1>1. /\ Only(t) /\ Grows /\ UNCHANGED <<versions, store, seen>> /\ KnownPart(t) /\ PublishedSeen
      /\ \A s \in Slots : task'[t][s] = NoTask
      /\ visible'[t] = NoDialog /\ screen'[t] = store[t]
  BY RestartStep DEF BaseInv, ScreensInv, ScreensPart
<1>2. PublishedSeen'
  BY <1>1, SeenKept
<1>3. \A s \in Slots : AskedPart(t, s)' /\ PublishPart(t, s)' /\ ~Applies(t, s)'
  BY <1>1, NoTaskSlot
<1>4. ApplyingPart(t)' /\ ShownPart(t)' /\ ScreenPart(t)' /\ KnownPart(t)'
  BY <1>1, <1>3 DEF ApplyingPart, ShownPart, ScreenPart, KnownPart
<1> QED
  BY <1>1, <1>2, <1>3, <1>4, ScreensStep DEF ScreensPart

(* The rows are read again: the screen knows the store again.              *)
LEMMA ReloadScreens ==
  ASSUME BaseInv, ScreensInv, NEW t \in Tablets, NEW s \in Slots, Reload(t, s), ~ReadsFail
  PROVE  ScreensInv'
<1>1. /\ Only(t) /\ Grows /\ UNCHANGED <<versions, store, visible, seen>>
      /\ task'[t][s] = NoTask /\ \A r \in Slots \ {s} : task'[t][r] = task[t][r]
      /\ task[t][s].stage = "reload"
      /\ shown'[t] = IF visible[t] = s THEN Status(store[t]) ELSE shown[t]
      /\ screen'[t] = store[t]
  BY ReloadStep DEF BaseInv
<1>2. /\ PublishedSeen /\ ApplyingPart(t) /\ KnownPart(t) /\ Applies(t, s)
  BY <1>1 DEF ScreensInv, ScreensPart, BaseInv, WritePart, Applies
<1>3. PublishedSeen'
  BY <1>1, <1>2, SeenKept
<1>4. AskedPart(t, s)' /\ PublishPart(t, s)' /\ ~Applies(t, s)'
  BY <1>1, NoTaskSlot
<1>5. ASSUME NEW r \in Slots \ {s}
      PROVE  AskedPart(t, r)' /\ PublishPart(t, r)' /\ ~Applies(t, r)'
  <2>1. Kept(t, r) /\ store'[t] = store[t]
    BY <1>1 DEF Kept
  <2>2. ~Applies(t, r)
    BY <1>2 DEF ApplyingPart
  <2> QED
    BY <1>1, <2>1, <2>2, SlotKept DEF Applies
<1>6. ApplyingPart(t)'
  BY <1>4, <1>5 DEF ApplyingPart
<1>7. visible[t] \in {NoDialog, s}
  BY <1>2 DEF ApplyingPart
<1>8. ShownPart(t)' /\ ScreenPart(t)' /\ KnownPart(t)'
  BY <1>1, <1>2, <1>7 DEF ShownPart, ScreenPart, KnownPart, Status
<1> QED
  BY <1>1, <1>3, <1>4, <1>5, <1>6, <1>8, ScreensStep DEF ScreensPart

LEMMA SaveScreens ==
  ASSUME BaseInv, ScreensInv, NEW t \in Tablets, Save(t)
  PROVE  ScreensInv'
<1>1. TypesOK /\ PublishedSeen /\ ScreensPart(t) /\ Usable(t)
  BY DEF BaseInv, ScreensInv, Save
<1>2. /\ Only(t) /\ Grows /\ UNCHANGED <<versions, visible, shown>>
      /\ \A r \in Slots : Kept(t, r)
      /\ store'[t].base = store[t].base /\ store'[t].active = store[t].active
      /\ store'[t].conflicts = store[t].conflicts /\ screen'[t] = store'[t]
  BY <1>1, SaveStep
<1>3. /\ ~Reloading(t) /\ shown[t].base = store[t].base /\ shown[t].active = store[t].active
      /\ shown[t].conflicts = store[t].conflicts
      /\ screen[t].local = store[t].local /\ screen[t].base = store[t].base
  BY <1>1, UsableSees
<1>4. PICK f \in Fields :
        /\ seen'[t][f] = screen[t].base[f]
        /\ \A g \in Fields \ {f} :
             seen'[t][g] = seen[t][g] /\ store'[t].local[g] \in {store[t].local[g], screen[t].local[g]}
  BY <1>1, SaveStep
<1>5. KnownPart(t)'
  BY <1>1, <1>2, <1>3, <1>4 DEF ScreensPart, KnownPart
<1>6. PublishedSeen' /\ \A r \in Slots : AskedPart(t, r)' /\ PublishPart(t, r)'
  BY <1>1, <1>2, SeenKept, SlotKept
<1>7. \A r \in Slots : Applies(t, r)' <=> Applies(t, r)
  BY <1>1, <1>2, KeptTask DEF Applies
<1>8. ApplyingPart(t)' /\ ShownPart(t)' /\ ScreenPart(t)'
  BY <1>1, <1>2, <1>3, <1>7 DEF ScreensPart, ApplyingPart, ShownPart, ScreenPart
<1> QED
  BY <1>2, <1>5, <1>6, <1>8, ScreensStep DEF ScreensPart

(* The manager who decides a conflict was shown the value published.       *)
LEMMA DecisionSeen ==
  ASSUME BaseInv, ScreensInv, NEW t \in Tablets, NEW s \in Slots, Writes(t, s),
         task[t][s].kind = "resolve", NEW f \in Fields, store[t].local[f] # store[t].base[f]
  PROVE  SeenWith(task[t][s], seen[t], f) = store[t].base[f]
<1> DEFINE p == task[t][s]
<1>1. \A a : a \in p.asked <=>
              \E c \in store[t].conflicts :
                a = [field |-> c.field, remote |-> store[t].base[c.field]]
  BY DEF ScreensInv, ScreensPart, AskedPart, Writes
<1>2. CASE \E a \in p.asked : a.field = f
  <2>1. (CHOOSE a \in p.asked : a.field = f) \in p.asked
        /\ (CHOOSE a \in p.asked : a.field = f).field = f
    BY <1>2
  <2>2. \A a \in p.asked : a.field = f => a.remote = store[t].base[f]
    BY <1>1
  <2> QED
    BY <1>2, <2>1, <2>2 DEF SeenWith
<1>3. CASE ~\E a \in p.asked : a.field = f
  <2>1. ~\E c \in store[t].conflicts : c.field = f
    <3> SUFFICES ASSUME NEW c \in store[t].conflicts, c.field = f
                 PROVE  FALSE
      OBVIOUS
    <3>1. [field |-> c.field, remote |-> store[t].base[c.field]] \in p.asked
      BY <1>1
    <3> QED
      BY <1>3, <3>1
  <2>2. KnownPart(t)
    BY DEF ScreensInv, ScreensPart
  <2> QED
    BY <1>3, <2>1, <2>2 DEF SeenWith, KnownPart
<1> QED
  BY <1>2, <1>3

LEMMA CommitKnown ==
  ASSUME BaseInv, ScreensInv, NEW t \in Tablets, NEW s \in Slots, Commit(t, s)
  PROVE  KnownPart(t)'
<1> SUFFICES ASSUME NEW f \in Fields, store'[t].local[f] # store'[t].base[f],
                    ~\E c \in store'[t].conflicts : c.field = f
             PROVE  seen'[t][f] = store'[t].base[f]
  BY DEF KnownPart
<1>1. /\ Writes(t, s) /\ store'[t] = After(t, s) /\ KnownPart(t)
      /\ seen'[t][f] = SeenWith(task[t][s], seen[t], f)
  BY CommitStep DEF ScreensInv, ScreensPart
<1>2. CASE task[t][s].kind = "download"
  <2>1. /\ After(t, s).local = store[t].local /\ After(t, s).base = store[t].base
        /\ After(t, s).conflicts = store[t].conflicts
    BY <1>1, <1>2, DownloadAfter
  <2> QED
    BY <1>1, <1>2, <2>1 DEF SeenWith, KnownPart
<1>3. CASE task[t][s].kind = "activate"
  <2>1. /\ store[t].conflicts = {} /\ store[t].local[f] # store[t].base[f]
        /\ After(t, s).base[f] = store[t].base[f]
    BY <1>1, <1>3, ActivateAfter
  <2> QED
    BY <1>1, <1>3, <2>1 DEF SeenWith, KnownPart
<1>4. CASE task[t][s].kind = "resolve"
  <2>1. /\ After(t, s).base = store[t].base /\ After(t, s).local[f] = store[t].local[f]
    BY <1>1, <1>4, ResolveAfter
  <2> QED
    BY <1>1, <1>4, <2>1, DecisionSeen
<1> QED
  BY <1>1, <1>2, <1>3, <1>4 DEF Writes

LEMMA CommitScreens ==
  ASSUME BaseInv, ScreensInv, NEW t \in Tablets, NEW s \in Slots, Commit(t, s)
  PROVE  ScreensInv'
<1>1. /\ Writes(t, s) /\ Only(t) /\ Grows /\ UNCHANGED <<versions, visible, screen>>
      /\ store'[t] = After(t, s) /\ \A r \in Slots \ {s} : Kept(t, r)
      /\ \/ /\ task[t][s].kind = "download" /\ task'[t][s] = NoTask
            /\ shown'[t] = IF visible[t] = s THEN Status(store'[t]) ELSE shown[t]
         \/ /\ Applies(t, s) /\ task'[t][s].kind = task[t][s].kind
            /\ task'[t][s].stage = "reload"
  BY CommitStep
<1>2. TypesOK /\ PublishedSeen /\ ScreensPart(t)
  BY DEF BaseInv, ScreensInv
<1>3. PublishedSeen' /\ KnownPart(t)'
  BY <1>1, <1>2, SeenKept, CommitKnown
<1>4. \A r \in Slots \ {s} :
        /\ Applies(t, r)' <=> Applies(t, r)
        /\ task'[t][r].stage = "reload" <=> task[t][r].stage = "reload"
  BY <1>1, <1>2, KeptTask DEF Applies
<1>5. CASE task[t][s].kind = "download"
  <2>1. /\ After(t, s).local = store[t].local /\ After(t, s).base = store[t].base
        /\ After(t, s).active = store[t].active /\ After(t, s).conflicts = store[t].conflicts
    BY <1>1, <1>5, DownloadAfter
  <2>2. /\ task'[t][s] = NoTask /\ task[t][s].stage = "write"
        /\ shown'[t] = IF visible[t] = s THEN Status(store'[t]) ELSE shown[t]
    BY <1>1, <1>5 DEF Applies, Writes
  <2>3. AskedPart(t, s)' /\ PublishPart(t, s)' /\ ~Applies(t, s)'
    BY <2>2, NoTaskSlot
  <2>4. \A r \in Slots \ {s} : AskedPart(t, r)' /\ PublishPart(t, r)'
    BY <1>1, <2>1, SlotKept
  <2>5. ApplyingPart(t)'
    <3>1. \A r \in Slots : Applies(t, r)' => Applies(t, r)
      BY <1>4, <2>3
    <3>2. visible'[t] = visible[t] /\ ApplyingPart(t)
      BY <1>1, <1>2 DEF ScreensPart
    <3> QED
      BY <3>1, <3>2 DEF ApplyingPart
  <2>6. Reloading(t) => Reloading(t)'
    BY <1>4, <2>2 DEF Reloading
  <2>7. ShownPart(t)' /\ ScreenPart(t)'
    BY <1>1, <1>2, <2>1, <2>2, <2>6 DEF ScreensPart, ShownPart, ScreenPart, Status
  <2> QED
    BY <1>1, <1>3, <2>3, <2>4, <2>5, <2>7, ScreensStep DEF ScreensPart
<1>6. CASE Applies(t, s)
  <2>1. task'[t][s].kind = task[t][s].kind /\ task'[t][s].stage = "reload"
    BY <1>1, <1>6 DEF Applies
  <2>2. AskedPart(t, s)' /\ PublishPart(t, s)' /\ Applies(t, s)'
    BY <1>6, <2>1 DEF AskedPart, PublishPart, Applies
  <2>3. ASSUME NEW r \in Slots \ {s}
        PROVE  AskedPart(t, r)' /\ PublishPart(t, r)'
    <3>1. ~Applies(t, r)
      BY <1>2, <1>6 DEF ScreensPart, ApplyingPart
    <3> QED
      BY <1>1, <3>1, SlotKept DEF Applies
  <2>4. ApplyingPart(t)'
    <3>1. \A r \in Slots : Applies(t, r)' => Applies(t, r)
      BY <1>4, <1>6
    <3>2. visible'[t] = visible[t] /\ ApplyingPart(t)
      BY <1>1, <1>2 DEF ScreensPart
    <3> QED
      BY <3>1, <3>2 DEF ApplyingPart
  <2>5. ShownPart(t)' /\ ScreenPart(t)'
    BY <2>1 DEF ShownPart, ScreenPart, Reloading
  <2> QED
    BY <1>1, <1>3, <2>2, <2>3, <2>4, <2>5, ScreensStep DEF ScreensPart
<1> QED
  BY <1>1, <1>5, <1>6

LEMMA ScreensInit == Init => ScreensInv
<1> SUFFICES ASSUME Init
             PROVE  ScreensInv
  OBVIOUS
<1>1. PublishedSeen
  <2>1. \/ versions = <<>>
        \/ \E f \in Fields, v \in Values :
             versions = <<[content |-> [Seed EXCEPT ![f] = v], unseen |-> {}]>>
    BY DEF Init
  <2> QED
    BY <2>1 DEF PublishedSeen
<1>2. \A t \in Tablets :
        /\ visible[t] = NoDialog /\ store[t] = NewStore /\ screen[t] = NewStore
        /\ \A s \in Slots : task[t][s] = NoTask
  BY DEF Init
<1>3. \A t \in Tablets, s \in Slots : AskedPart(t, s) /\ PublishPart(t, s) /\ ~Applies(t, s)
  BY <1>2 DEF AskedPart, PublishPart, Applies, NoTask
<1>4. \A t \in Tablets : ApplyingPart(t) /\ ShownPart(t) /\ ScreenPart(t) /\ KnownPart(t)
  BY <1>2, <1>3 DEF ApplyingPart, ShownPart, ScreenPart, KnownPart, NewStore
<1> QED
  BY <1>1, <1>3, <1>4 DEF ScreensInv, ScreensPart

LEMMA ScreensNext ==
  ASSUME ~ReadsFail
  PROVE  BaseInv /\ ScreensInv /\ [Next]_vars => ScreensInv'
<1> SUFFICES ASSUME BaseInv, ScreensInv, [Next]_vars
             PROVE  ScreensInv'
  OBVIOUS
<1>1. CASE UNCHANGED vars
  BY <1>1 DEF ScreensInv, ScreensPart, ApplyingPart, ShownPart, ScreenPart, KnownPart, AskedPart,
              PublishPart, Applies, Reloading, PublishedSeen, VersionContent, vars
<1>2. ASSUME NEW t \in Tablets,
             \/ \E d \in Dialogs : OpenDialog(t, d)
             \/ CloseDialog(t)
             \/ Save(t)
             \/ StartPublication(t)
             \/ StartActivation(t)
             \/ StartResolution(t)
             \/ Restart(t)
      PROVE  ScreensInv'
  BY <1>2, DialogScreens, SaveScreens, ManagerScreens, RestartScreens
<1>3. ASSUME NEW t \in Tablets, NEW s \in Slots,
             \/ StartDownload(t, s)
             \/ DownloadAnswered(t, s)
             \/ PublicationAnswered(t, s)
             \/ AnswerLost(t, s)
             \/ Compute(t, s)
             \/ Commit(t, s)
             \/ Retry(t, s)
             \/ ApplicationRefused(t, s)
             \/ Reload(t, s)
      PROVE  ScreensInv'
  BY <1>3, ExchangeScreens, OperationScreens, CommitScreens, ReloadScreens
<1> QED
  BY <1>1, <1>2, <1>3 DEF Next

LEMMA ScreensAlways ==
  ASSUME ~ReadsFail
  PROVE  Spec => [](BaseInv /\ ScreensInv)
<1>1. Init => BaseInv /\ ScreensInv
  BY BaseInit, ScreensInit
<1>2. BaseInv /\ ScreensInv /\ [Next]_vars => (BaseInv /\ ScreensInv)'
  BY BaseNext, ScreensNext
<1> QED
  BY <1>1, <1>2, PTL DEF Spec

(* Where the rows are read again after each change: a local value that     *)
(* departs from the active version is a choice of someone who saw that     *)
(* version's value, or a conflict still shown.                             *)
THEOREM DeparturesAreKnown ==
  ASSUME ~ReadsFail
  PROVE  Spec => []AskedOrKnown
<1>1. ScreensInv => AskedOrKnown
  BY DEF ScreensInv, ScreensPart, KnownPart, AskedOrKnown
<1> QED
  BY <1>1, ScreensAlways, PTL

(* Where the rows are read again after each change: what a publication     *)
(* changes was decided by someone who saw the value it replaces.           *)
THEOREM NothingIsOverwrittenUnseen ==
  ASSUME ~ReadsFail
  PROVE  Spec => []PublishedSeen
<1>1. ScreensInv => PublishedSeen
  BY DEF ScreensInv
<1> QED
  BY <1>1, ScreensAlways, PTL

-----------------------------------------------------------------------------
(* The selling screen.  Whatever was read of the catalogue, of the payments *)
(* and of the answers is stale as soon as it is read; the invariant says   *)
(* what of it may be relied on until it is used.                           *)
OpenStatuses == {"pending_payment", "payment_to_verify", "payment_confirmed"}
Intent == [status : OpenStatuses \cup Terminal, prices : SUBSET Nat]

ShownProducts == [catalog : Nat, status : {"loading", "ready", "error"}]
OptionsShown == [open : BOOLEAN, catalog : Nat]

ScreenTypes ==
  /\ catalog \in Nat /\ intents \in Seq(Intent) /\ cart \in SUBSET Nat
  /\ options = NoOptions \/ options \in OptionsShown
  /\ products \in ShownProducts
  /\ dialog \in {"closed", "open", "activating", "reloading"}
  /\ DOMAIN recovery = {"status", "list"}

(* What can be chosen is at the prices of the catalogue in use, once it    *)
(* has been read again; nothing is being chosen while it changes.          *)
PricesInv ==
  /\ OneCatalogue
  /\ products.status = "ready" /\ dialog # "reloading" => products.catalog = catalog
  /\ cart # {} \/ options.open => products.catalog = catalog
  /\ dialog = "reloading" => cart = {}
  /\ dialog # "closed" => ~options.open /\ ~checkout.open

Paid(i) == intents[i].status \in {"payment_to_verify", "payment_confirmed"}
InCheckout(i) == checkout.open /\ checkout.intent = i

(* The checkout shown: an order not paid yet, a payment the database       *)
(* knows, or an order that is finalized there too.                         *)
CheckoutOK ==
  \/ checkout = Closed
  \/ /\ DOMAIN checkout = {"open", "intent", "status", "resumed"} /\ checkout.open
     /\ checkout.resumed \in BOOLEAN
     /\ \/ checkout.status = "none" /\ checkout.intent = 0 /\ cart # {}
        \/ checkout.status \in OpenStatuses /\ checkout.intent \in DOMAIN intents
        \/ /\ checkout.status = "finalized" /\ checkout.intent \in DOMAIN intents
           /\ intents[checkout.intent].status = "finalized"

(* A list of payments to check: none is invented, none is missing that is  *)
(* not in the checkout.                                                    *)
Listed(list) == \A copy \in list : copy.intent \in DOMAIN intents /\ copy.status \in OpenStatuses
Covers(list) ==
  \A i \in DOMAIN intents : Paid(i) => InCheckout(i) \/ \E copy \in list : copy.intent = i
ToCheckInv ==
  /\ Listed(recovery.list)
  /\ recovery.status = "checked" => Covers(recovery.list)

(* The calls: a reading of the payments, then one call of the checkout;    *)
(* what they were answered still holds when the answer is read.            *)
Good(a) == a.done /\ a.ok
AnswerOK(a) ==
  \/ a = Pending \/ a = Failed
  \/ DOMAIN a = {"done", "ok", "value"} /\ Good(a)
ReadOK(c) ==
  /\ DOMAIN c = {"kind", "answer"} /\ c.kind = "read" /\ AnswerOK(c.answer)
  /\ Good(c.answer) => Listed(c.answer.value) /\ Covers(c.answer.value)
PaymentKinds == {"create", "begin", "confirm", "abandon", "finalize"}
Matches(c, v) ==
  /\ v.intent \in DOMAIN intents /\ v.status = intents[v.intent].status
  /\ IF c.kind = "create" THEN v.status = "pending_payment"
     ELSE v.intent = c.intent /\ v.status = Result[c.kind]
PaymentOK(c) ==
  /\ DOMAIN c = {"kind", "intent", "answer"} /\ AnswerOK(c.answer)
  /\ c.kind \in PaymentKinds
  /\ checkout.open /\ c.intent = checkout.intent
  /\ c.kind = "create" <=> checkout.status = "none"
  /\ Good(c.answer) => Matches(c, c.answer.value)
CallsInv ==
  \/ calls = <<>>
  \/ \E c : calls = <<c>> /\ (ReadOK(c) \/ PaymentOK(c))
  \/ \E r, c : calls = <<r, c>> /\ ReadOK(r) /\ PaymentOK(c)

ScreenInv == ScreenTypes /\ PricesInv /\ CheckoutOK /\ ToCheckInv /\ CallsInv

LEMMA ReadKept ==
  ASSUME NEW c, ReadOK(c), UNCHANGED <<intents, checkout>>
  PROVE  ReadOK(c)'
  BY DEF ReadOK, Listed, Covers, Paid, InCheckout

LEMMA PaymentKept ==
  ASSUME NEW c, PaymentOK(c), UNCHANGED <<intents, checkout>>
  PROVE  PaymentOK(c)'
  BY DEF PaymentOK, Matches

LEMMA PaymentCallsKept ==
  ASSUME CallsInv, UNCHANGED <<intents, checkout, calls>>
  PROVE  CallsInv'
  BY ReadKept, PaymentKept DEF CallsInv

LEMMA ToCheckKept ==
  ASSUME ToCheckInv, UNCHANGED <<intents, checkout, recovery>>
  PROVE  ToCheckInv'
  BY DEF ToCheckInv, Listed, Covers, Paid, InCheckout

(* One call of the checkout at a time, and only while it is shown.         *)
LEMMA OnlyReads ==
  ASSUME CallsInv, ~Busy
  PROVE  calls = <<>> \/ \E c : calls = <<c>> /\ ReadOK(c)
<1>1. ASSUME NEW c, calls = <<c>>, PaymentOK(c) PROVE FALSE
  <2>1. 1 \in DOMAIN calls /\ calls[1] = c
    BY <1>1
  <2> QED
    BY <1>1, <2>1 DEF Busy, PaymentOK, PaymentKinds
<1>2. ASSUME NEW r, NEW c, calls = <<r, c>>, PaymentOK(c) PROVE FALSE
  <2>1. 2 \in DOMAIN calls /\ calls[2] = c
    BY <1>2
  <2> QED
    BY <1>2, <2>1 DEF Busy, PaymentOK, PaymentKinds
<1> QED
  BY <1>1, <1>2 DEF CallsInv

LEMMA ClosedIsIdle ==
  ASSUME CallsInv, ~checkout.open
  PROVE  ~Busy
<1>1. calls = <<>> \/ \E c : calls = <<c>> /\ ReadOK(c)
  BY DEF CallsInv, PaymentOK
<1>2. CASE calls = <<>>
  BY <1>2 DEF Busy
<1>3. ASSUME NEW c, calls = <<c>>, ReadOK(c) PROVE ~Busy
  <2>1. DOMAIN calls = {1} /\ calls[1] = c
    BY <1>3
  <2> QED
    BY <1>3, <2>1 DEF Busy, ReadOK
<1> QED
  BY <1>1, <1>2, <1>3

(* The checkout shows another payment while none of its calls is under     *)
(* way, and leaves no paid one.                                            *)
LEMMA CheckoutMoves ==
  ASSUME CallsInv, ToCheckInv, ~Busy, UNCHANGED <<intents, calls, recovery>>,
         \A i \in DOMAIN intents : Paid(i) /\ InCheckout(i) => InCheckout(i)'
  PROVE  CallsInv' /\ ToCheckInv'
<1>1. \A list : (Covers(list) => Covers(list)') /\ (Listed(list) => Listed(list)')
  BY DEF Covers, Listed, Paid
<1>2. ToCheckInv'
  BY <1>1 DEF ToCheckInv
<1>3. ASSUME NEW c, ReadOK(c) PROVE ReadOK(c)'
  BY <1>1, <1>3 DEF ReadOK
<1>4. CallsInv'
  BY <1>3, OnlyReads DEF CallsInv
<1> QED
  BY <1>2, <1>4

LEMMA CheckoutCases ==
  ASSUME CheckoutOK
  PROVE  ~checkout.open => checkout = Closed
  BY DEF CheckoutOK

(* What prices depend on: the products shown, or the lines and options.    *)
LEMMA ProductsShown ==
  ASSUME PricesInv, UNCHANGED <<intents, catalog, cart, options, checkout>>,
         products'.catalog = catalog
           \/ (products'.catalog = products.catalog /\ products'.status # "ready"),
         dialog' = dialog \/ (dialog = "reloading" /\ dialog' = "open")
  PROVE  PricesInv'
<1>1. OneCatalogue'
  BY DEF PricesInv, OneCatalogue
<1> QED
  BY <1>1 DEF PricesInv

LEMMA ReadInVain ==
  ASSUME products \in ShownProducts, products' = [products EXCEPT !.status = "error"]
  PROVE  products' \in ShownProducts /\ products'.catalog = products.catalog /\ products'.status = "error"
  BY DEF ShownProducts

LEMMA ReadAgain ==
  ASSUME catalog \in Nat, products' = [catalog |-> catalog, status |-> "ready"]
  PROVE  products' \in ShownProducts /\ products'.catalog = catalog
  BY DEF ShownProducts

LEMMA Chosen ==
  ASSUME PricesInv, UNCHANGED <<intents, catalog, products, dialog, checkout>>,
         dialog = "closed", products.catalog = catalog \/ (cart' = {} /\ ~options'.open),
         cart' \subseteq {catalog}, options'.open => options'.catalog = catalog
  PROVE  PricesInv'
<1>1. OneCatalogue'
  BY DEF PricesInv, OneCatalogue
<1> QED
  BY <1>1 DEF PricesInv

(* Choosing.                                                               *)
LEMMA ScreenStop ==
  ASSUME ScreenInv, Stop
  PROVE  ScreenInv'
<1>1. /\ cart' = {} /\ options' = NoOptions /\ dialog' = "closed"
      /\ checkout' = Closed
      /\ products' = [catalog |-> 0, status |-> "loading"]
      /\ recovery' = [status |-> "reading", list |-> {}]
      /\ calls' = <<Read>> /\ UNCHANGED <<intents, catalog>>
  BY DEF Stop, Started, database
<1>2. ScreenTypes'
  <2>1. products' \in ShownProducts
    BY <1>1 DEF ShownProducts
  <2>2. DOMAIN recovery' = {"status", "list"}
    BY <1>1
  <2> QED
    BY <1>1, <2>1, <2>2 DEF ScreenInv, ScreenTypes
<1>3. PricesInv'
  BY <1>1 DEF ScreenInv, PricesInv, OneCatalogue, NoOptions
<1>4. CheckoutOK' /\ ToCheckInv'
  BY <1>1 DEF CheckoutOK, ToCheckInv, Listed
<1>5. CallsInv'
  <2>1. ReadOK(Read)'
    BY DEF ReadOK, Read, AnswerOK, Good, Pending
  <2> QED
    BY <1>1, <2>1 DEF CallsInv, Read
<1> QED
  BY <1>2, <1>3, <1>4, <1>5 DEF ScreenInv

(* The steps that touch neither the payments nor the checkout.             *)
LEMMA OnlySelling ==
  ASSUME ScreenInv, UNCHANGED <<intents, checkout, calls, recovery>>,
         ScreenTypes', PricesInv', cart' # {} \/ cart' = cart \/ ~checkout.open
  PROVE  ScreenInv'
<1>1. CheckoutOK'
  BY DEF ScreenInv, CheckoutOK, Closed
<1> QED
  BY <1>1, PaymentCallsKept, ToCheckKept DEF ScreenInv

LEMMA ScreenLoadCatalog ==
  ASSUME ScreenInv, LoadCatalog
  PROVE  ScreenInv'
<1>1. /\ products.status = "loading"
      /\ \/ products' = [catalog |-> catalog, status |-> "ready"]
         \/ products' = [products EXCEPT !.status = "error"]
      /\ UNCHANGED <<intents, catalog, calls, cart, options, dialog, checkout, recovery>>
  BY DEF LoadCatalog, database
<1>3. /\ products' \in ShownProducts
      /\ \/ products'.catalog = catalog
         \/ products'.catalog = products.catalog /\ products'.status # "ready"
  BY <1>1, ReadInVain, ReadAgain DEF ScreenInv, ScreenTypes
<1>2. ScreenTypes'
  BY <1>1, <1>3 DEF ScreenInv, ScreenTypes
<1>4. PricesInv'
  BY <1>1, <1>3, ProductsShown DEF ScreenInv
<1> QED
  BY <1>1, <1>2, <1>4, OnlySelling

LEMMA ScreenSelectProduct ==
  ASSUME ScreenInv, SelectProduct
  PROVE  ScreenInv'
<1>1. /\ Uncovered /\ products.status = "ready"
      /\ \/ cart' = cart \cup {products.catalog} /\ UNCHANGED options
         \/ options' = [open |-> TRUE, catalog |-> products.catalog] /\ UNCHANGED cart
      /\ UNCHANGED <<intents, catalog, calls, products, dialog, checkout, recovery>>
  BY DEF SelectProduct, database
<1>2. ScreenTypes'
  <2>1. products.catalog \in Nat
    BY DEF ScreenInv, ScreenTypes, ShownProducts
  <2>2. cart' \in SUBSET Nat
    BY <1>1, <2>1 DEF ScreenInv, ScreenTypes
  <2>3. [open |-> TRUE, catalog |-> products.catalog] \in OptionsShown
    BY <2>1 DEF OptionsShown
  <2>4. options' = options \/ options' \in OptionsShown
    BY <1>1, <2>3
  <2> QED
    BY <1>1, <2>2, <2>4 DEF ScreenInv, ScreenTypes
<1>3. products.catalog = catalog /\ dialog = "closed"
  BY <1>1 DEF ScreenInv, PricesInv, Uncovered
<1>4. cart \subseteq {catalog} /\ (options.open => options.catalog = catalog)
  BY DEF ScreenInv, PricesInv, OneCatalogue
<1>5. cart' \subseteq {catalog} /\ (options'.open => options'.catalog = catalog)
  BY <1>1, <1>3, <1>4
<1>6. PricesInv'
  BY <1>1, <1>3, <1>5, Chosen DEF ScreenInv
<1> QED
  BY <1>1, <1>2, <1>6, OnlySelling DEF Uncovered

LEMMA ScreenEndOptions ==
  ASSUME ScreenInv, EndOptions
  PROVE  ScreenInv'
<1>1. /\ options.open /\ cart' \in {cart, cart \cup {options.catalog}}
      /\ options' = NoOptions
      /\ UNCHANGED <<intents, catalog, calls, products, dialog, checkout, recovery>>
  BY DEF EndOptions, database
<1>2. ScreenTypes'
  <2>1. options.catalog \in Nat
    BY <1>1 DEF ScreenInv, ScreenTypes, PricesInv, OneCatalogue
  <2>2. cart' \in SUBSET Nat
    BY <1>1, <2>1 DEF ScreenInv, ScreenTypes
  <2> QED
    BY <1>1, <2>2 DEF ScreenInv, ScreenTypes
<1>3. /\ dialog = "closed" /\ products.catalog = catalog
      /\ cart \subseteq {catalog} /\ options.catalog = catalog
  BY <1>1 DEF ScreenInv, PricesInv, OneCatalogue
<1>4. cart' \subseteq {catalog} /\ ~options'.open
  BY <1>1, <1>3 DEF NoOptions
<1>5. PricesInv'
  BY <1>1, <1>3, <1>4, Chosen DEF ScreenInv
<1>6. cart' # {} \/ cart' = cart
  BY <1>1
<1> QED
  BY <1>1, <1>2, <1>5, <1>6, OnlySelling

LEMMA ScreenChangeLine ==
  ASSUME ScreenInv, ChangeLine
  PROVE  ScreenInv'
<1>1. /\ Uncovered
      /\ UNCHANGED <<intents, catalog, calls, options, products, dialog, checkout, recovery>>
  BY DEF ChangeLine, database
<1>2. PICK line \in cart : cart' \in {cart \ {line}, (cart \ {line}) \cup {products.catalog}}
  BY DEF ChangeLine
<1>3. ScreenTypes'
  <2>1. products.catalog \in Nat
    BY DEF ScreenInv, ScreenTypes, ShownProducts
  <2>2. cart' \in SUBSET Nat
    BY <1>2, <2>1 DEF ScreenInv, ScreenTypes
  <2> QED
    BY <1>1, <2>2 DEF ScreenInv, ScreenTypes
<1>4. products.catalog = catalog /\ cart \subseteq {catalog}
  BY <1>2 DEF ScreenInv, PricesInv, OneCatalogue
<1>5. cart' \subseteq {catalog}
  BY <1>2, <1>4
<1>6. PricesInv'
  BY <1>1, <1>4, <1>5, Chosen DEF ScreenInv, Uncovered
<1> QED
  BY <1>1, <1>3, <1>6, OnlySelling DEF Uncovered

LEMMA ScreenManagement ==
  ASSUME ScreenInv, OpenManagement \/ CloseManagement \/ ApplyCatalog
  PROVE  ScreenInv'
<1>1. /\ dialog' \in {"closed", "open", "activating"}
      /\ dialog # "reloading" /\ (dialog = "closed" => Uncovered)
      /\ UNCHANGED <<intents, catalog, calls, cart, options, products, checkout, recovery>>
  BY DEF OpenManagement, CloseManagement, ApplyCatalog, database,
     Uncovered
<1>2. ScreenTypes'
  BY <1>1 DEF ScreenInv, ScreenTypes
<1>3. PricesInv'
  <2>1. OneCatalogue'
    BY <1>1 DEF ScreenInv, PricesInv, OneCatalogue
  <2> QED
    BY <1>1, <2>1 DEF ScreenInv, PricesInv, Uncovered
<1> QED
  BY <1>1, <1>2, <1>3, OnlySelling

LEMMA ScreenCommitActivation ==
  ASSUME ScreenInv, CommitActivation
  PROVE  ScreenInv'
<1>1. /\ dialog = "activating" /\ UNCHANGED <<intents, calls, cart, options, checkout, recovery>>
      /\ \/ /\ cart = {} /\ NoOpenIntent /\ catalog' = catalog + 1 /\ dialog' = "reloading"
            /\ UNCHANGED products
         \/ /\ dialog' = "open" /\ products' = [products EXCEPT !.status = "error"]
            /\ catalog' = catalog \/ (cart = {} /\ NoOpenIntent /\ catalog' = catalog + 1)
  BY DEF CommitActivation
<1>5. /\ products' \in ShownProducts
      /\ \/ dialog' = "reloading" /\ products' = products
         \/ products'.status = "error" /\ products'.catalog = products.catalog
  BY <1>1, ReadInVain DEF ScreenInv, ScreenTypes
<1>2. ScreenTypes'
  BY <1>1, <1>5 DEF ScreenInv, ScreenTypes
<1>3. ~options.open /\ ~checkout.open /\ (cart # {} => products.catalog = catalog)
  BY <1>1 DEF ScreenInv, PricesInv
<1>4. OneCatalogue'
  <2>1. CASE catalog' = catalog
    BY <1>1, <2>1 DEF ScreenInv, PricesInv, OneCatalogue
  <2>2. CASE cart = {} /\ NoOpenIntent
    BY <1>1, <1>3, <2>2 DEF OneCatalogue, NoOpenIntent
  <2> QED
    BY <1>1, <2>1, <2>2
<1>6. PricesInv'
  <2>1. dialog' # "reloading" => products'.status = "error"
    BY <1>1, <1>5
  <2>2. cart' # {} => products'.catalog = catalog'
    BY <1>1, <1>3, <1>5
  <2>3. dialog' = "reloading" => cart' = {}
    BY <1>1
  <2> QED
    BY <1>1, <1>3, <1>4, <2>1, <2>2, <2>3 DEF PricesInv
<1> QED
  BY <1>1, <1>2, <1>6, OnlySelling

LEMMA ScreenReload ==
  ASSUME ScreenInv, ReloadProducts \/ SaveProduct
  PROVE  ScreenInv'
<1>1. /\ dialog \in {"reloading", "open"} /\ dialog' = "open"
      /\ UNCHANGED <<intents, catalog, calls, cart, options, checkout, recovery>>
      /\ \/ products' = [catalog |-> catalog, status |-> "ready"]
         \/ dialog = "reloading" /\ products' = [products EXCEPT !.status = "error"]
  BY DEF ReloadProducts, SaveProduct, database
<1>3. /\ products' \in ShownProducts
      /\ \/ products'.catalog = catalog
         \/ products'.catalog = products.catalog /\ products'.status # "ready"
  BY <1>1, ReadInVain, ReadAgain DEF ScreenInv, ScreenTypes
<1>2. ScreenTypes'
  BY <1>1, <1>3 DEF ScreenInv, ScreenTypes
<1>4. PricesInv'
  BY <1>1, <1>3, ProductsShown DEF ScreenInv
<1> QED
  BY <1>1, <1>2, <1>4, OnlySelling
(* Entering and leaving a checkout.                                        *)
LEMMA CheckoutShown ==
  ASSUME ScreenInv, UNCHANGED <<intents, catalog, options, products, dialog>>,
         cart' = cart \/ cart' = {}, dialog = "closed"
  PROVE  PricesInv'
<1>1. OneCatalogue'
  BY DEF ScreenInv, PricesInv, OneCatalogue
<1> QED
  BY <1>1 DEF ScreenInv, PricesInv

LEMMA ScreenValidateOrder ==
  ASSUME ScreenInv, ValidateOrder
  PROVE  ScreenInv'
<1>1. /\ Uncovered /\ cart # {}
      /\ checkout' = [open |-> TRUE, intent |-> 0, status |-> "none", resumed |-> FALSE]
      /\ UNCHANGED <<intents, catalog, calls, cart, options, products, dialog, recovery>>
  BY DEF ValidateOrder, database, selling
<1>2. ScreenTypes'
  BY <1>1 DEF ScreenInv, ScreenTypes
<1>3. PricesInv'
  BY <1>1, CheckoutShown DEF Uncovered
<1>4. CheckoutOK'
  BY <1>1 DEF CheckoutOK
<1>5. CallsInv' /\ ToCheckInv'
  BY <1>1, ClosedIsIdle, CheckoutMoves DEF ScreenInv, Uncovered, InCheckout
<1> QED
  BY <1>2, <1>3, <1>4, <1>5 DEF ScreenInv

LEMMA ScreenResumePayment ==
  ASSUME ScreenInv, ResumePayment
  PROVE  ScreenInv'
<1>1. /\ Uncovered
      /\ UNCHANGED <<intents, catalog, calls, cart, options, products, dialog, recovery>>
  BY DEF ResumePayment, database, selling
<1>2. PICK copy \in recovery.list :
        checkout' = [open |-> TRUE, intent |-> copy.intent, status |-> copy.status,
                     resumed |-> TRUE]
  BY DEF ResumePayment
<1>3. copy.intent \in DOMAIN intents /\ copy.status \in OpenStatuses
  BY DEF ScreenInv, ToCheckInv, Listed
<1>4. ScreenTypes'
  BY <1>1 DEF ScreenInv, ScreenTypes
<1>5. PricesInv'
  BY <1>1, CheckoutShown DEF Uncovered
<1>6. CheckoutOK'
  BY <1>1, <1>2, <1>3 DEF CheckoutOK
<1>7. CallsInv' /\ ToCheckInv'
  BY <1>1, ClosedIsIdle, CheckoutMoves DEF ScreenInv, Uncovered, InCheckout
<1> QED
  BY <1>4, <1>5, <1>6, <1>7 DEF ScreenInv

LEMMA ScreenCancel ==
  ASSUME ScreenInv, Cancel
  PROVE  ScreenInv'
<1>1. /\ checkout.open /\ ~Busy /\ checkout' = Closed
      /\ UNCHANGED <<intents, catalog, calls, cart, options, products, dialog, recovery>>
  BY DEF Cancel, Offered, database, selling
<1>2. checkout.status = "none" /\ checkout.intent = 0
  <2>1. checkout.status # "finalized"
    BY DEF Cancel, Offered, OrderButtons
  <2>2. CASE checkout.status \in OpenStatuses
    BY <2>1, <2>2 DEF Cancel, Offered, PaymentButtons, OpenStatuses
  <2> QED
    BY <1>1, <2>1, <2>2 DEF ScreenInv, CheckoutOK, Closed
<1>3. \A i \in DOMAIN intents : ~InCheckout(i)
  BY <1>2 DEF ScreenInv, ScreenTypes, InCheckout
<1>4. dialog = "closed"
  BY <1>1 DEF ScreenInv, PricesInv
<1>5. ScreenTypes'
  BY <1>1 DEF ScreenInv, ScreenTypes
<1>6. PricesInv'
  BY <1>1, <1>4, CheckoutShown
<1>7. CheckoutOK'
  BY <1>1 DEF CheckoutOK
<1>8. CallsInv' /\ ToCheckInv'
  BY <1>1, <1>3, CheckoutMoves DEF ScreenInv
<1> QED
  BY <1>5, <1>6, <1>7, <1>8 DEF ScreenInv

LEMMA ScreenNewOrder ==
  ASSUME ScreenInv, NewOrder
  PROVE  ScreenInv'
<1>1. /\ checkout.open /\ ~Busy /\ checkout' = Closed /\ cart' \in {cart, {}}
      /\ UNCHANGED <<intents, catalog, calls, options, products, dialog, recovery>>
  BY DEF NewOrder, StartNewOrder, Offered, database
<1>2. checkout.status = "finalized"
  <2>1. checkout.status \in OpenStatuses \cup {"none", "finalized"}
    BY <1>1 DEF ScreenInv, CheckoutOK, Closed
  <2> QED
    BY <2>1 DEF NewOrder, Offered, PaymentButtons, OpenStatuses
<1>3. \A i \in DOMAIN intents : InCheckout(i) => ~Paid(i)
  BY <1>1, <1>2 DEF ScreenInv, CheckoutOK, Closed, OpenStatuses, InCheckout, Paid
<1>4. dialog = "closed"
  BY <1>1 DEF ScreenInv, PricesInv
<1>5. ScreenTypes'
  BY <1>1 DEF ScreenInv, ScreenTypes
<1>6. PricesInv'
  BY <1>1, <1>4, CheckoutShown
<1>7. CheckoutOK'
  BY <1>1 DEF CheckoutOK
<1>8. CallsInv' /\ ToCheckInv'
  BY <1>1, <1>3, CheckoutMoves DEF ScreenInv
<1> QED
  BY <1>5, <1>6, <1>7, <1>8 DEF ScreenInv

(* Asking.                                                                 *)
LEMMA Waiting ==
  ASSUME ScreenInv, CallsInv', UNCHANGED <<database, selling, checkout, recovery>>
  PROVE  ScreenInv'
<1>1. ScreenTypes' /\ CheckoutOK'
  BY DEF database, selling, ScreenInv, ScreenTypes, CheckoutOK
<1>2. PricesInv'
  BY DEF database, selling, ScreenInv, PricesInv, OneCatalogue
<1> QED
  BY <1>1, <1>2, ToCheckKept DEF ScreenInv, database

LEMMA ScreenRename ==
  ASSUME ScreenInv, Rename
  PROVE  ScreenInv'
<1>1. /\ ~checkout.open /\ \A n \in DOMAIN calls : calls[n].kind # "read"
      /\ calls' = Append(calls, Read)
      /\ UNCHANGED <<database, selling, checkout, recovery>>
  BY DEF Rename
<1>2. calls = <<>>
  <2>1. ~Busy
    BY <1>1, ClosedIsIdle DEF ScreenInv
  <2>2. ASSUME NEW c, calls = <<c>>, ReadOK(c) PROVE FALSE
    <3>1. DOMAIN calls = {1} /\ calls[1] = c
      BY <2>2
    <3> QED
      BY <1>1, <2>2, <3>1 DEF ReadOK
  <2> QED
    BY <2>1, <2>2, OnlyReads DEF ScreenInv
<1>3. ReadOK(Read)'
  BY DEF ReadOK, Read, AnswerOK, Good, Pending
<1>4. CallsInv'
  BY <1>1, <1>2, <1>3 DEF CallsInv, Read
<1> QED
  BY <1>1, <1>4, Waiting

LEMMA TwoCalls ==
  ASSUME NEW a, NEW b
  PROVE  Append(<<a>>, b) = <<a, b>>
<1>1. <<a>> \in Seq({a, b}) /\ <<a, b>> \in Seq({a, b})
  OBVIOUS
<1>2. /\ Append(<<a>>, b) \in Seq({a, b}) /\ Len(Append(<<a>>, b)) = 2
      /\ Append(<<a>>, b)[1] = a /\ Append(<<a>>, b)[2] = b
  BY <1>1, AppendProperties
<1> DEFINE s == Append(<<a>>, b)
           t == <<a, b>>
<1>3. t \in Seq({a, b}) /\ Len(t) = 2 /\ t[1] = a /\ t[2] = b
  BY <1>1
<1> HIDE DEF s, t
<1>4. s \in Seq({a, b}) /\ Len(s) = 2 /\ s[1] = a /\ s[2] = b
  BY <1>2 DEF s
<1>5. \A i \in 1..Len(s) : s[i] = t[i]
  BY <1>3, <1>4
<1>6. s = t
  BY <1>3, <1>4, <1>5, SeqEqual
<1> QED
  BY <1>6 DEF s, t

LEMMA Asked ==
  ASSUME ScreenInv, checkout.open, ~Busy, NEW kind \in PaymentKinds,
         kind = "create" <=> checkout.status = "none",
         Ask(kind), UNCHANGED <<database, selling, checkout, recovery>>
  PROVE  ScreenInv'
<1> DEFINE call == Call(kind, checkout.intent)
<1>1. PaymentOK(call)'
  BY DEF PaymentOK, Call, AnswerOK, Good, Pending
<1>2. call' = call
  BY DEF Call
<1>3. calls' = Append(calls, call)
  BY DEF Ask
<1> HIDE DEF call
<1>4. CASE calls = <<>>
  <2>1. calls' = <<call>>
    BY <1>3, <1>4
  <2> QED
    BY <1>1, <1>2, <2>1, Waiting DEF CallsInv
<1>5. ASSUME NEW r, calls = <<r>>, ReadOK(r) PROVE ScreenInv'
  <2>1. calls' = <<r, call>>
    BY <1>3, <1>5, TwoCalls
  <2>2. ReadOK(r)'
    BY <1>5, ReadKept DEF database
  <2> QED
    BY <1>1, <1>2, <2>1, <2>2, Waiting DEF CallsInv
<1> QED
  BY <1>4, <1>5, OnlyReads DEF ScreenInv

LEMMA ScreenCheckoutAndPrint ==
  ASSUME ScreenInv, CheckoutAndPrint
  PROVE  ScreenInv'
<1>1. /\ checkout.open /\ ~Busy
      /\ Ask(NextCall[checkout.status])
      /\ UNCHANGED <<database, selling, checkout, recovery>>
  BY DEF CheckoutAndPrint, Offered
<1>2. checkout.status \in OpenStatuses \cup {"none"}
  BY <1>1 DEF CheckoutAndPrint, Offered, OrderButtons, ScreenInv,
     CheckoutOK, Closed
<1>3. /\ NextCall[checkout.status] \in PaymentKinds
      /\ NextCall[checkout.status] = "create" <=> checkout.status = "none"
  BY <1>2 DEF NextCall, PaymentKinds, OpenStatuses
<1> QED
  BY <1>1, <1>3, Asked

LEMMA ScreenAbandonPayment ==
  ASSUME ScreenInv, AbandonPayment
  PROVE  ScreenInv'
<1>1. /\ checkout.open /\ ~Busy /\ Ask("abandon")
      /\ UNCHANGED <<database, selling, checkout, recovery>>
  BY DEF AbandonPayment, Offered
<1>2. checkout.status # "none"
  BY DEF AbandonPayment, Offered, PaymentButtons
<1> QED
  BY <1>1, <1>2, Asked DEF PaymentKinds

(* What a transaction does to the intents the screen works on.             *)
Progress ==
  /\ DOMAIN intents \subseteq DOMAIN intents'
  /\ \A i \in DOMAIN intents' :
       Paid(i)' => InCheckout(i) \/ (i \in DOMAIN intents /\ Paid(i))
  /\ \A i \in DOMAIN intents :
       intents[i].status = "finalized" => intents'[i].status = "finalized"
OpenPriced ==
  \A i \in DOMAIN intents : Open(intents[i].status) => intents[i].prices = {catalog}

LEMMA Created ==
  ASSUME ScreenInv, NEW c, PaymentOK(c), c.kind = "create", intents' = Transaction(c),
         UNCHANGED <<catalog, checkout>>
  PROVE  /\ Progress /\ intents' \in Seq(Intent) /\ OpenPriced'
         /\ \A v : v = Answer(c, intents') => Matches(c, v)'
<1> DEFINE new == [status |-> "pending_payment", prices |-> cart]
           last == Len(intents) + 1
<1>1. intents \in Seq(Intent) /\ new \in Intent
  BY DEF ScreenInv, ScreenTypes, Intent, OpenStatuses
<1>2. cart = {catalog}
  <2>1. checkout.status = "none" /\ checkout.open
    BY DEF PaymentOK
  <2>2. cart # {}
    BY <2>1 DEF ScreenInv, CheckoutOK, Closed, OpenStatuses
  <2> QED
    BY <2>2 DEF ScreenInv, PricesInv, OneCatalogue
<1>3. intents' = Append(intents, new)
  BY DEF Transaction
<1>4. new.status = "pending_payment" /\ new.prices = cart
  OBVIOUS
<1> HIDE DEF new
<1>5. /\ intents' \in Seq(Intent) /\ Len(intents') = last
      /\ DOMAIN intents' = 1..last /\ DOMAIN intents = 1..Len(intents) /\ Len(intents) \in Nat
      /\ \A i \in 1..Len(intents) : intents'[i] = intents[i]
      /\ intents'[last] = new
  BY <1>1, <1>3, AppendProperties
<1>6. \A i \in DOMAIN intents' : i \in DOMAIN intents \/ i = last
  BY <1>5
<1>7. Progress
  BY <1>4, <1>5, <1>6 DEF Progress, Paid
<1>8. OpenPriced'
  BY <1>2, <1>4, <1>5, <1>6 DEF OpenPriced, ScreenInv, PricesInv, OneCatalogue
<1>9. ASSUME NEW v, v = Answer(c, intents') PROVE Matches(c, v)'
  <2>1. v.intent = last /\ v.status = "pending_payment"
    BY <1>5, <1>9 DEF Answer
  <2>2. last \in DOMAIN intents'
    BY <1>5
  <2> QED
    BY <1>4, <1>5, <2>1, <2>2 DEF Matches
<1> QED
  BY <1>5, <1>7, <1>8, <1>9

LEMMA Advanced ==
  ASSUME ScreenInv, NEW c, PaymentOK(c), c.kind # "create", Accepts(c),
         intents' = Transaction(c), UNCHANGED <<catalog, checkout>>
  PROVE  /\ Progress /\ intents' \in Seq(Intent) /\ OpenPriced'
         /\ \A v : v = Answer(c, intents') => Matches(c, v)'
<1> DEFINE k == c.intent
           reached == Result[c.kind]
<1>1. c.kind \in {"begin", "confirm", "abandon", "finalize"}
  BY DEF PaymentOK, PaymentKinds
<1>2. k \in DOMAIN intents /\ InCheckout(k)
  BY DEF PaymentOK, ScreenInv, CheckoutOK, Closed, InCheckout
<1>3. intents[k].status \in Allowed[c.kind]
  BY <1>1 DEF Accepts, Allowed
<1>4. /\ reached \in OpenStatuses \cup Terminal
      /\ Open(reached) => Open(intents[k].status)
      /\ intents[k].status = "finalized" => reached = "finalized"
  BY <1>1, <1>3 DEF Allowed, Result, Open, Terminal, OpenStatuses
<1>5. intents' = [intents EXCEPT ![k].status = reached]
  BY <1>1 DEF Transaction
<1>6. intents \in Seq(Intent)
  BY DEF ScreenInv, ScreenTypes
<1> HIDE DEF k, reached
<1>7. /\ DOMAIN intents' = DOMAIN intents
      /\ \A i \in DOMAIN intents : i # k => intents'[i] = intents[i]
      /\ intents'[k] = [intents[k] EXCEPT !.status = reached]
  BY <1>2, <1>5
<1>8. /\ intents[k] \in Intent /\ intents'[k] \in Intent
      /\ intents'[k].status = reached /\ intents'[k].prices = intents[k].prices
  <2>1. intents[k] \in Intent
    BY <1>2, <1>6
  <2> QED
    BY <1>4, <1>7, <2>1 DEF Intent
<1>9. intents' \in Seq(Intent)
  <2>1. intents' = [intents EXCEPT ![k] = intents'[k]]
    BY <1>2, <1>5, <1>7
  <2>2. k \in 1..Len(intents)
    BY <1>2, <1>6
  <2> QED
    BY <1>6, <1>8, <2>1, <2>2, ExceptSeq
<1>10. Progress
  <2>1. \A i \in DOMAIN intents : i = k \/ intents'[i] = intents[i]
    BY <1>7
  <2>2. \A i \in DOMAIN intents : Paid(i)' => InCheckout(i) \/ Paid(i)
    BY <1>2, <2>1 DEF Paid
  <2>3. \A i \in DOMAIN intents :
          intents[i].status = "finalized" => intents'[i].status = "finalized"
    BY <1>4, <1>8, <2>1
  <2> QED
    BY <1>7, <2>2, <2>3 DEF Progress
<1>11. OpenPriced'
  <2>1. OpenPriced
    BY DEF OpenPriced, ScreenInv, PricesInv, OneCatalogue
  <2>2. ASSUME NEW i \in DOMAIN intents, Open(intents'[i].status)
        PROVE  intents'[i].prices = {catalog}
    <3>1. CASE i = k
      BY <1>2, <1>4, <1>8, <2>1, <2>2, <3>1 DEF OpenPriced
    <3>2. CASE i # k
      BY <1>7, <2>1, <2>2, <3>2 DEF OpenPriced
    <3> QED
      BY <3>1, <3>2
  <2> QED
    BY <1>7, <2>2 DEF OpenPriced, Open
<1>12. ASSUME NEW v, v = Answer(c, intents') PROVE Matches(c, v)'
  <2>1. v.intent = k /\ v.status = reached
    BY <1>1, <1>12 DEF Answer, k, reached
  <2> QED
    BY <1>2, <1>7, <1>8, <2>1 DEF Matches, k, reached
<1> QED
  BY <1>9, <1>10, <1>11, <1>12

LEMMA ReadAfter ==
  ASSUME NEW c, ReadOK(c), Progress, UNCHANGED checkout
  PROVE  ReadOK(c)'
<1>1. \A list : Listed(list) => Listed(list)'
  BY DEF Progress, Listed
<1>2. ASSUME NEW list, Covers(list) PROVE Covers(list)'
  <2>1. \A i : InCheckout(i)' <=> InCheckout(i)
    BY DEF InCheckout
  <2> QED
    BY <1>2, <2>1 DEF Progress, Covers
<1> QED
  BY <1>1, <1>2 DEF ReadOK

LEMMA ReadAnswered ==
  ASSUME NEW c, ReadOK(c), NEW a, AnswerOK(a),
         Good(a) => Listed(a.value)' /\ Covers(a.value)'
  PROVE  ReadOK([c EXCEPT !.answer = a])'
<1> DEFINE d == [c EXCEPT !.answer = a]
<1>1. DOMAIN d = DOMAIN c /\ d.kind = "read" /\ d.answer = a
  BY DEF ReadOK
<1> HIDE DEF d
<1>2. ReadOK(d)'
  BY <1>1 DEF ReadOK, AnswerOK, Good
<1> QED
  BY <1>2 DEF d

LEMMA PaymentAnswered ==
  ASSUME NEW c, PaymentOK(c), NEW a, AnswerOK(a), UNCHANGED checkout,
         Good(a) => Matches(c, a.value)'
  PROVE  PaymentOK([c EXCEPT !.answer = a])'
<1> DEFINE d == [c EXCEPT !.answer = a]
<1>1. DOMAIN d = DOMAIN c /\ d.kind = c.kind /\ d.intent = c.intent /\ d.answer = a
  BY DEF PaymentOK
<1> HIDE DEF d
<1>2. Good(a) => Matches(d, a.value)'
  BY <1>1 DEF Matches
<1>3. PaymentOK(d)'
  BY <1>1, <1>2 DEF PaymentOK, AnswerOK, Good
<1> QED
  BY <1>3 DEF d

(* A reading answers every payment it can be asked about.                  *)
LEMMA CopiesRead ==
  ASSUME ScreenInv, NEW list, list = RecoverableCopies(intents)
  PROVE  Listed(list) /\ Covers(list)
<1>1. \A i \in DOMAIN intents : intents[i].status \in OpenStatuses \cup Terminal
  <2>1. intents \in Seq(Intent)
    BY DEF ScreenInv, ScreenTypes
  <2>2. \A i \in DOMAIN intents : intents[i] \in Intent
    BY <2>1
  <2> QED
    BY <2>2 DEF Intent
<1>2. \A copy \in list :
        \E i \in DOMAIN intents : /\ copy = Copy(intents, i)
                                  /\ Recoverable(intents[i].status)
  BY DEF RecoverableCopies
<1>3. Listed(list)
  BY <1>1, <1>2 DEF Listed, Copy, Recoverable, Open, Terminal
<1>4. ASSUME NEW i \in DOMAIN intents, Paid(i) PROVE \E copy \in list : copy.intent = i
  <2>1. Recoverable(intents[i].status)
    BY <1>4 DEF Paid, Recoverable, Open, Terminal
  <2>2. Copy(intents, i) \in list
    BY <2>1 DEF RecoverableCopies
  <2>3. Copy(intents, i).intent = i
    BY DEF Copy
  <2> QED
    BY <2>2, <2>3
<1> QED
  BY <1>3, <1>4 DEF Covers

(* What running a call may answer, and what it leaves behind.              *)
Ran(c, a) ==
  /\ Progress /\ intents' \in Seq(Intent) /\ OpenPriced' /\ AnswerOK(a)
  /\ Good(a) => IF c.kind = "read" THEN Listed(a.value)' /\ Covers(a.value)'
                ELSE Matches(c, a.value)'

LEMMA NothingRan ==
  ASSUME ScreenInv, UNCHANGED <<intents, catalog>>, NEW c, NEW a, a = Failed
  PROVE  Ran(c, a)
<1>1. Progress
  BY DEF Progress, Paid
<1>2. OpenPriced'
  BY DEF OpenPriced, ScreenInv, PricesInv, OneCatalogue
<1> QED
  BY <1>1, <1>2 DEF Ran, AnswerOK, Good, Failed, ScreenInv, ScreenTypes

LEMMA CallRan ==
  ASSUME ScreenInv, NEW c, ReadOK(c) \/ PaymentOK(c), Accepts(c),
         intents' = Transaction(c), UNCHANGED <<catalog, checkout>>,
         NEW a, \/ a = Failed
                \/ a = [done |-> TRUE, ok |-> TRUE, value |-> Answer(c, intents')]
  PROVE  Ran(c, a)
<1>1. AnswerOK(a) /\ (Good(a) => a.value = Answer(c, intents'))
  BY DEF AnswerOK, Good, Failed
<1>2. CASE ReadOK(c)
  <2>1. c.kind = "read"
    BY <1>2 DEF ReadOK
  <2>2. intents' = intents
    BY <2>1 DEF Transaction
  <2>3. Answer(c, intents') = RecoverableCopies(intents)
    BY <2>1, <2>2 DEF Answer
  <2>4. Progress /\ OpenPriced'
    BY <2>2 DEF Progress, Paid, OpenPriced, ScreenInv, PricesInv, OneCatalogue
  <2>5. ASSUME Good(a) PROVE Listed(a.value)' /\ Covers(a.value)'
    <3>1. Listed(a.value) /\ Covers(a.value)
      BY <1>1, <2>3, <2>5, CopiesRead
    <3> QED
      BY <2>2, <3>1 DEF Listed, Covers, Paid, InCheckout
  <2> QED
    BY <1>1, <2>1, <2>2, <2>4, <2>5 DEF Ran, ScreenInv, ScreenTypes
<1>3. CASE PaymentOK(c)
  <2>1. c.kind # "read"
    BY <1>3 DEF PaymentOK, PaymentKinds
  <2>2. /\ Progress /\ intents' \in Seq(Intent) /\ OpenPriced'
        /\ \A v : v = Answer(c, intents') => Matches(c, v)'
    BY <1>3, Created, Advanced
  <2>3. Good(a) => Matches(c, a.value)'
    BY <1>1, <2>2
  <2> QED
    BY <1>1, <2>1, <2>2, <2>3 DEF Ran
<1> QED
  BY <1>2, <1>3

LEMMA ScreenRunCall ==
  ASSUME ScreenInv, RunCall
  PROVE  ScreenInv'
<1>1. PICK n \in DOMAIN calls :
        /\ ~calls[n].answer.done /\ \A m \in 1..(n - 1) : calls[m].answer.done
        /\ \/ /\ Accepts(calls[n])
              /\ intents' = Transaction(calls[n])
              /\ \/ /\ Answered(n, [done |-> TRUE, ok |-> TRUE,
                                           value |-> Answer(calls[n], intents')])
                    /\ UNCHANGED failures
                 \/ Answered(n, Failed) /\ Fails
           \/ /\ ~Accepts(calls[n]) /\ Answered(n, Failed)
              /\ UNCHANGED <<intents, failures>>
           \/ Answered(n, Failed) /\ Fails /\ UNCHANGED intents
  BY DEF RunCall
<1>2. UNCHANGED <<catalog, cart, options, products, dialog, checkout, recovery>>
  BY DEF RunCall, selling
<1>3. PICK c : c = calls[n]
  OBVIOUS
<1>4. PICK a :
        /\ calls' = [calls EXCEPT ![n].answer = a]
        /\ \/ /\ Accepts(c) /\ intents' = Transaction(c)
              /\ \/ a = Failed
                 \/ a = [done |-> TRUE, ok |-> TRUE, value |-> Answer(c, intents')]
           \/ intents' = intents /\ a = Failed
  BY <1>1, <1>3 DEF Answered
<1> DEFINE d == [c EXCEPT !.answer = a]
<1>5. DOMAIN calls' = DOMAIN calls /\ calls' = [calls EXCEPT ![n] = d]
  BY <1>3, <1>4
<1> HIDE DEF d
<1>6. ReadOK(c) \/ PaymentOK(c)
  <2>1. ASSUME NEW x, calls = <<x>> PROVE c = x
    BY <1>3, <2>1
  <2>2. ASSUME NEW r, NEW x, calls = <<r, x>> PROVE c = r \/ c = x
    BY <1>3, <2>2
  <2> QED
    BY <1>1, <2>1, <2>2 DEF ScreenInv, CallsInv
<1>7. Ran(c, a)
  BY <1>2, <1>4, <1>6, CallRan, NothingRan
<1>8. ReadOK(c) => ReadOK(d)'
  <2>1. ASSUME ReadOK(c) PROVE ReadOK(d)'
    <3>1. c.kind = "read"
      BY <2>1 DEF ReadOK
    <3> QED
      BY <1>7, <2>1, <3>1, ReadAnswered DEF Ran, d
  <2> QED
    BY <2>1
<1>9. PaymentOK(c) => PaymentOK(d)'
  <2>1. ASSUME PaymentOK(c) PROVE PaymentOK(d)'
    <3>1. c.kind # "read"
      BY <2>1 DEF PaymentOK, PaymentKinds
    <3> QED
      BY <1>2, <1>7, <2>1, <3>1, PaymentAnswered DEF Ran, d
  <2> QED
    BY <2>1
<1>10. CallsInv'
  <2>1. ASSUME NEW x, calls = <<x>>, ReadOK(x) \/ PaymentOK(x) PROVE CallsInv'
    <3>1. c = x /\ n = 1
      BY <1>3, <2>1
    <3>2. calls' = <<d>>
      BY <1>5, <2>1, <3>1
    <3> QED
      BY <1>8, <1>9, <2>1, <3>1, <3>2 DEF CallsInv
  <2>2. ASSUME NEW r, NEW x, calls = <<r, x>>, ReadOK(r), PaymentOK(x) PROVE CallsInv'
    <3>1. CASE n = 1
      <4>1. c = r
        BY <1>3, <2>2, <3>1
      <4>2. calls' = <<d, x>>
        BY <1>5, <2>2, <3>1
      <4>3. r.kind = "read"
        BY <2>2 DEF ReadOK
      <4>4. intents' = intents
        BY <1>4, <4>1, <4>3 DEF Transaction
      <4>5. PaymentOK(x)'
        BY <1>2, <2>2, <4>4, PaymentKept
      <4> QED
        BY <1>8, <2>2, <4>1, <4>2, <4>5 DEF CallsInv
    <3>2. CASE n = 2
      <4>1. c = x
        BY <1>3, <2>2, <3>2
      <4>2. calls' = <<r, d>>
        BY <1>5, <2>2, <3>2
      <4>3. ReadOK(r)'
        BY <1>2, <1>7, <2>2, ReadAfter DEF Ran
      <4> QED
        BY <1>9, <2>2, <4>1, <4>2, <4>3 DEF CallsInv
    <3> QED
      BY <2>2, <3>1, <3>2
  <2>3. calls # <<>>
    BY <1>1
  <2> QED
    BY <2>1, <2>2, <2>3 DEF ScreenInv, CallsInv
<1>11. ScreenTypes'
  BY <1>2, <1>7 DEF ScreenInv, ScreenTypes, Ran
<1>12. PricesInv'
  <2>1. OneCatalogue'
    BY <1>2, <1>7 DEF ScreenInv, PricesInv, OneCatalogue, OpenPriced, Ran
  <2> QED
    BY <1>2, <2>1 DEF ScreenInv, PricesInv
<1>13. CheckoutOK'
  BY <1>2, <1>7 DEF ScreenInv, CheckoutOK, Ran, Progress
<1>14. ToCheckInv'
  <2>1. Listed(recovery.list)'
    BY <1>2, <1>7 DEF ScreenInv, ToCheckInv, Listed, Ran, Progress
  <2>2. ASSUME recovery.status = "checked" PROVE Covers(recovery.list)'
    <3>1. Covers(recovery.list)
      BY <2>2 DEF ScreenInv, ToCheckInv
    <3>2. \A i : InCheckout(i)' <=> InCheckout(i)
      BY <1>2 DEF InCheckout
    <3> QED
      BY <1>2, <1>7, <3>1, <3>2 DEF Covers, Ran, Progress
  <2> QED
    BY <1>2, <2>1, <2>2 DEF ToCheckInv
<1> QED
  BY <1>10, <1>11, <1>12, <1>13, <1>14 DEF ScreenInv

(* The answers.                                                            *)
LEMMA TailOfOne ==
  ASSUME NEW a
  PROVE  Tail(<<a>>) = <<>>
<1>1. <<a>> \in Seq({a}) /\ <<a>> # <<>> /\ Len(<<a>>) = 1
  OBVIOUS
<1>2. Tail(<<a>>) \in Seq({a}) /\ Len(Tail(<<a>>)) = 0
  BY <1>1, HeadTailProperties
<1> QED
  BY <1>2, EmptySeq

LEMMA TailOfTwo ==
  ASSUME NEW a, NEW b
  PROVE  Tail(<<a, b>>) = <<b>>
<1> DEFINE s == Tail(<<a, b>>)
           t == <<b>>
<1>1. <<a, b>> \in Seq({a, b}) /\ <<a, b>> # <<>> /\ Len(<<a, b>>) = 2 /\ <<a, b>>[2] = b
  OBVIOUS
<1>2. s \in Seq({a, b}) /\ Len(s) = 1 /\ s[1] = b
  BY <1>1, HeadTailProperties
<1>3. t \in Seq({a, b}) /\ Len(t) = 1 /\ t[1] = b
  OBVIOUS
<1> HIDE DEF s, t
<1>4. \A i \in 1..Len(s) : s[i] = t[i]
  BY <1>2, <1>3
<1>5. s = t
  BY <1>2, <1>3, <1>4, SeqEqual
<1> QED
  BY <1>5 DEF s, t

LEMMA FirstRead ==
  ASSUME CallsInv, First("read")
  PROVE  \E r : /\ ReadOK(r) /\ calls[1] = r
                /\ \/ Tail(calls) = <<>>
                   \/ \E c : Tail(calls) = <<c>> /\ PaymentOK(c)
<1>1. calls # <<>> /\ calls[1].kind = "read"
  BY DEF First
<1>2. ASSUME NEW c, calls = <<c>>, ReadOK(c) \/ PaymentOK(c)
      PROVE  ReadOK(c) /\ calls[1] = c /\ Tail(calls) = <<>>
  <2>1. calls[1] = c
    BY <1>2
  <2> QED
    BY <1>1, <1>2, <2>1, TailOfOne DEF PaymentOK, PaymentKinds
<1>3. ASSUME NEW r, NEW c, calls = <<r, c>>, ReadOK(r), PaymentOK(c)
      PROVE  calls[1] = r /\ Tail(calls) = <<c>>
  BY <1>3, TailOfTwo
<1> QED
  BY <1>1, <1>2, <1>3 DEF CallsInv

LEMMA FirstPayment ==
  ASSUME CallsInv, calls # <<>>, calls[1].kind # "read"
  PROVE  PaymentOK(calls[1]) /\ Tail(calls) = <<>>
<1>1. ASSUME NEW c, calls = <<c>>, ReadOK(c) \/ PaymentOK(c)
      PROVE  PaymentOK(calls[1]) /\ Tail(calls) = <<>>
  <2>1. calls[1] = c
    BY <1>1
  <2> QED
    BY <1>1, <2>1, TailOfOne DEF ReadOK
<1>2. ASSUME NEW r, NEW c, calls = <<r, c>>, ReadOK(r) PROVE FALSE
  <2>1. calls[1] = r
    BY <1>2
  <2> QED
    BY <1>2, <2>1 DEF ReadOK
<1> QED
  BY <1>1, <1>2 DEF CallsInv

LEMMA ScreenRecoveryRead ==
  ASSUME ScreenInv, RecoveryRead
  PROVE  ScreenInv'
<1>1. /\ First("read") /\ calls[1].answer.done /\ calls' = Tail(calls)
      /\ recovery' = IF calls[1].answer.ok
                     THEN [status |-> "checked", list |-> calls[1].answer.value]
                     ELSE [recovery EXCEPT !.status = "failed"]
      /\ UNCHANGED <<intents, catalog, cart, options, products, dialog, checkout>>
  BY DEF RecoveryRead, First, Value, database, selling
<1>2. PICK r : /\ ReadOK(r) /\ calls[1] = r
               /\ \/ Tail(calls) = <<>>
                  \/ \E c : Tail(calls) = <<c>> /\ PaymentOK(c)
  BY <1>1, FirstRead DEF ScreenInv
<1>3. CallsInv'
  BY <1>1, <1>2, PaymentKept DEF CallsInv
<1>4. \A list : (Listed(list) => Listed(list)') /\ (Covers(list) => Covers(list)')
  BY <1>1 DEF Listed, Covers, Paid, InCheckout
<1>5. DOMAIN recovery' = {"status", "list"} /\ ToCheckInv'
  <2>1. CASE r.answer.ok
    <3>1. Listed(r.answer.value) /\ Covers(r.answer.value)
      BY <1>1, <1>2, <2>1 DEF ReadOK, Good
    <3>2. recovery' = [status |-> "checked", list |-> r.answer.value]
      BY <1>1, <1>2, <2>1
    <3>3. DOMAIN recovery' = {"status", "list"} /\ recovery'.list = r.answer.value
      BY <3>2
    <3> QED
      BY <1>4, <3>1, <3>3 DEF ToCheckInv
  <2>2. CASE ~r.answer.ok
    <3>1. recovery' = [recovery EXCEPT !.status = "failed"]
      BY <1>1, <1>2, <2>2
    <3>2. DOMAIN recovery = {"status", "list"}
      BY DEF ScreenInv, ScreenTypes
    <3>3. /\ DOMAIN recovery' = {"status", "list"} /\ recovery'.list = recovery.list
          /\ recovery'.status = "failed"
      BY <3>1, <3>2
    <3> QED
      BY <1>4, <3>3 DEF ToCheckInv, ScreenInv
  <2> QED
    BY <2>1, <2>2
<1>6. ScreenTypes' /\ CheckoutOK'
  BY <1>1, <1>5 DEF ScreenInv, ScreenTypes, CheckoutOK
<1>7. PricesInv'
  BY <1>1 DEF ScreenInv, PricesInv, OneCatalogue
<1> QED
  BY <1>3, <1>5, <1>6, <1>7 DEF ScreenInv

LEMMA ScreenCallFailed ==
  ASSUME ScreenInv, CallFailed
  PROVE  ScreenInv'
<1>1. /\ calls # <<>> /\ calls[1].kind # "read" /\ calls' = Tail(calls)
      /\ UNCHANGED <<database, selling, checkout, recovery>>
  BY DEF CallFailed
<1>2. CallsInv'
  BY <1>1, FirstPayment DEF ScreenInv, CallsInv
<1> QED
  BY <1>1, <1>2, Waiting

(* The payments to check, once a copy of one of them is answered.          *)
LEMMA ListUpdated ==
  ASSUME ScreenInv, NEW v, v.intent \in DOMAIN intents, v.status = intents[v.intent].status,
         UNCHANGED intents, UpdateRecoveryIntent(v),
         \A i \in DOMAIN intents : Paid(i) /\ InCheckout(i) => InCheckout(i)' \/ i = v.intent
  PROVE  ToCheckInv' /\ DOMAIN recovery' = {"status", "list"}
<1> DEFINE others == {c \in recovery.list : c.intent # v.intent}
<1>0. PICK after : after = IF Open(v.status) THEN others \cup {v} ELSE others
  OBVIOUS
<1>1. recovery' = [recovery EXCEPT !.list = after] /\ DOMAIN recovery = {"status", "list"}
  BY <1>0 DEF UpdateRecoveryIntent, ScreenInv, ScreenTypes
<1>2. /\ DOMAIN recovery' = {"status", "list"} /\ recovery'.list = after
      /\ recovery'.status = recovery.status
  BY <1>1
<1>3. v.status \in OpenStatuses \cup Terminal
  <2>1. intents \in Seq(Intent)
    BY DEF ScreenInv, ScreenTypes
  <2>2. intents[v.intent] \in Intent
    BY <2>1
  <2> QED
    BY <2>2 DEF Intent
<1>4. Listed(after)'
  <2>1. ASSUME NEW c \in after PROVE c.intent \in DOMAIN intents /\ c.status \in OpenStatuses
    <3>1. CASE c \in others
      BY <3>1 DEF ScreenInv, ToCheckInv, Listed
    <3>2. CASE c = v /\ Open(v.status)
      BY <1>3, <3>2 DEF Open
    <3> QED
      BY <1>0, <2>1, <3>1, <3>2
  <2> QED
    BY <2>1 DEF Listed
<1>5. ASSUME recovery.status = "checked" PROVE Covers(after)'
  <2>1. ASSUME NEW i \in DOMAIN intents, Paid(i)
        PROVE  InCheckout(i)' \/ \E copy \in after : copy.intent = i
    <3>1. CASE i = v.intent
      <4>1. v \in after
        BY <1>0, <2>1, <3>1 DEF Open, Terminal, Paid
      <4> QED
        BY <3>1, <4>1
    <3>2. CASE i # v.intent
      <4>1. InCheckout(i) \/ \E copy \in recovery.list : copy.intent = i
        BY <1>5, <2>1 DEF ScreenInv, ToCheckInv, Covers
      <4>2. ASSUME NEW copy \in recovery.list, copy.intent = i PROVE copy \in after
        BY <1>0, <3>2, <4>2
      <4> QED
        BY <2>1, <3>2, <4>1, <4>2
    <3> QED
      BY <3>1, <3>2
  <2> QED
    BY <2>1 DEF Covers, Paid
<1> QED
  BY <1>2, <1>4, <1>5 DEF ToCheckInv

LEMMA ScreenStoreUpdatedIntent ==
  ASSUME ScreenInv, StoreUpdatedIntent
  PROVE  ScreenInv'
<1>1. PICK kind \in {"create", "begin", "confirm", "finalize"} :
        Succeeded(kind) /\ calls' = Tail(calls) \o Follow(kind)
  BY DEF StoreUpdatedIntent
<1>2. PICK v : v = Value
  OBVIOUS
<1>3. /\ checkout' = [checkout EXCEPT !.intent = v.intent, !.status = v.status]
      /\ UpdateRecoveryIntent(v)
      /\ UNCHANGED <<intents, catalog, cart, options, products, dialog>>
  BY <1>2 DEF StoreUpdatedIntent, database, selling
<1>4. /\ calls # <<>> /\ calls[1].kind = kind /\ Good(calls[1].answer)
      /\ v = calls[1].answer.value
  BY <1>1, <1>2 DEF Succeeded, First, Good, Value
<1>5. PaymentOK(calls[1]) /\ Tail(calls) = <<>>
  BY <1>1, <1>4, FirstPayment DEF ScreenInv
<1>6. /\ v.intent \in DOMAIN intents /\ v.status = intents[v.intent].status
      /\ kind = "create" => v.status = "pending_payment"
      /\ kind # "create" => v.intent = checkout.intent /\ v.status = Result[kind]
      /\ kind = "create" <=> checkout.status = "none"
      /\ checkout.open
  BY <1>4, <1>5 DEF PaymentOK, Matches
<1>7. v.status \in OpenStatuses \cup {"finalized"}
  BY <1>1, <1>6 DEF Result, OpenStatuses
<1>8. /\ DOMAIN checkout = {"open", "intent", "status", "resumed"}
      /\ checkout.resumed \in BOOLEAN
  BY <1>6 DEF ScreenInv, CheckoutOK, Closed
<1>9. /\ DOMAIN checkout' = {"open", "intent", "status", "resumed"}
      /\ checkout'.open /\ checkout'.resumed \in BOOLEAN
      /\ checkout'.intent = v.intent /\ checkout'.status = v.status
  BY <1>3, <1>6, <1>8
<1>10. CheckoutOK'
  BY <1>3, <1>6, <1>7, <1>9 DEF CheckoutOK
<1>11. \A i \in DOMAIN intents : InCheckout(i) => i = v.intent
  <2>1. kind = "create" => checkout.intent = 0
    BY <1>6 DEF ScreenInv, CheckoutOK, Closed, OpenStatuses
  <2> QED
    BY <1>6, <2>1 DEF InCheckout, ScreenInv, ScreenTypes
<1>12. ToCheckInv' /\ DOMAIN recovery' = {"status", "list"}
  BY <1>3, <1>6, <1>11, ListUpdated
<1>13. CallsInv'
  <2>1. CASE Follow(kind) = <<>>
    BY <1>1, <1>5, <2>1 DEF CallsInv
  <2>2. CASE kind \in {"create", "confirm"}
    <3> DEFINE next == IF kind = "create" THEN "begin" ELSE "finalize"
               call == Call(next, v.intent)
    <3>1. Follow(kind) = <<call>>
      BY <1>2, <2>2 DEF Follow
    <3>2. calls' = <<call>>
      <4> HIDE DEF call
      <4>1. calls' = <<>> \o <<call>>
        BY <1>1, <1>5, <3>1
      <4>2. <<call>> \in Seq({call})
        OBVIOUS
      <4>3. <<>> \o <<call>> = <<call>>
        BY <4>2, ConcatEmptySeq
      <4> QED
        BY <4>1, <4>3
    <3>3. PaymentOK(call)'
      <4>1. v.status # "none"
        BY <1>7 DEF OpenStatuses
      <4> QED
        BY <1>9, <4>1 DEF PaymentOK, PaymentKinds, Call, AnswerOK, Good, Pending
    <3>4. call' = call
      BY DEF Call
    <3> HIDE DEF call
    <3> QED
      BY <3>2, <3>3, <3>4 DEF CallsInv
  <2>3. kind \in {"begin", "finalize"} => Follow(kind) = <<>>
    BY DEF Follow
  <2> QED
    BY <1>1, <2>1, <2>2, <2>3
<1>14. dialog = "closed"
  BY <1>6 DEF ScreenInv, PricesInv
<1>15. ScreenTypes'
  BY <1>3, <1>12 DEF ScreenInv, ScreenTypes
<1>16. PricesInv'
  BY <1>3, <1>14, CheckoutShown
<1> QED
  BY <1>10, <1>12, <1>13, <1>15, <1>16 DEF ScreenInv

LEMMA ScreenPaymentAbandoned ==
  ASSUME ScreenInv, PaymentAbandoned
  PROVE  ScreenInv'
<1>1. PICK v : v = Value
  OBVIOUS
<1>2. /\ Succeeded("abandon") /\ calls' = Tail(calls) /\ UpdateRecoveryIntent(v)
      /\ cart' \in {cart, {}} /\ checkout' = Closed
      /\ UNCHANGED <<intents, catalog, options, products, dialog>>
  BY <1>1 DEF PaymentAbandoned, StartNewOrder, database
<1>3. /\ calls # <<>> /\ calls[1].kind = "abandon" /\ Good(calls[1].answer)
      /\ v = calls[1].answer.value
  BY <1>1, <1>2 DEF Succeeded, First, Good, Value
<1>4. PaymentOK(calls[1]) /\ Tail(calls) = <<>>
  BY <1>3, FirstPayment DEF ScreenInv
<1>5. /\ v.intent \in DOMAIN intents /\ v.status = intents[v.intent].status
      /\ v.intent = checkout.intent /\ checkout.open
  BY <1>3, <1>4 DEF PaymentOK, Matches
<1>6. \A i \in DOMAIN intents : InCheckout(i) => i = v.intent
  BY <1>5 DEF InCheckout
<1>7. ToCheckInv' /\ DOMAIN recovery' = {"status", "list"}
  BY <1>2, <1>5, <1>6, ListUpdated
<1>8. CallsInv' /\ CheckoutOK'
  BY <1>2, <1>4 DEF CallsInv, CheckoutOK
<1>9. dialog = "closed"
  BY <1>5 DEF ScreenInv, PricesInv
<1>10. ScreenTypes'
  BY <1>2, <1>7 DEF ScreenInv, ScreenTypes
<1>11. PricesInv'
  BY <1>2, <1>9, CheckoutShown
<1> QED
  BY <1>7, <1>8, <1>10, <1>11 DEF ScreenInv

LEMMA ScreenStarts ==
  ASSUME ScreenInit
  PROVE  ScreenInv
<1>1. /\ intents = <<>> /\ catalog = 0 /\ cart = {} /\ options = NoOptions
      /\ dialog = "closed" /\ checkout = Closed
      /\ products = [catalog |-> 0, status |-> "loading"]
      /\ recovery = [status |-> "reading", list |-> {}]
      /\ calls = <<Read>>
  BY DEF ScreenInit
<1>2. ScreenTypes
  <2>1. products \in ShownProducts
    BY <1>1 DEF ShownProducts
  <2>2. DOMAIN recovery = {"status", "list"}
    BY <1>1
  <2> QED
    BY <1>1, <2>1, <2>2 DEF ScreenTypes
<1>3. PricesInv
  BY <1>1 DEF PricesInv, OneCatalogue, NoOptions
<1>4. CheckoutOK /\ ToCheckInv
  BY <1>1 DEF CheckoutOK, ToCheckInv, Listed
<1>5. CallsInv
  <2>1. ReadOK(Read)
    BY DEF ReadOK, Read, AnswerOK, Good, Pending
  <2> QED
    BY <1>1, <2>1 DEF CallsInv
<1> QED
  BY <1>2, <1>3, <1>4, <1>5 DEF ScreenInv

(* Every step of the screen.                                               *)
LEMMA SellingStep ==
  ASSUME ScreenInv, [ScreenNext]_screenVars
  PROVE  ScreenInv'
<1>1. CASE UNCHANGED screenVars
  <2>1. CallsInv'
    BY <1>1, PaymentCallsKept DEF ScreenInv, screenVars, database
  <2> QED
    BY <1>1, <2>1, Waiting DEF screenVars
<1> QED
  BY <1>1, ScreenStop, ScreenLoadCatalog, ScreenSelectProduct, ScreenEndOptions,
     ScreenChangeLine, ScreenValidateOrder, ScreenResumePayment, ScreenRename,
     ScreenCheckoutAndPrint, ScreenAbandonPayment, ScreenCancel, ScreenNewOrder,
     ScreenRunCall, ScreenRecoveryRead, ScreenCallFailed, ScreenStoreUpdatedIntent,
     ScreenPaymentAbandoned, ScreenManagement, ScreenCommitActivation, ScreenReload
     DEF ScreenNext

LEMMA ScreenAlways == ScreenSpec => []ScreenInv
<1>1. ScreenInit => ScreenInv
  BY ScreenStarts
<1>2. ScreenInv /\ [ScreenNext]_screenVars => ScreenInv'
  BY SellingStep
<1> QED
  BY <1>1, <1>2, PTL DEF ScreenSpec

(* A customer pays the prices of the catalogue in use (App.tsx,             *)
(* applyCatalog): products are only chosen once they were read again, and  *)
(* nothing is being chosen or paid when a catalogue is activated.          *)
THEOREM CustomersPayOneCatalogue == ScreenSpec => []OneCatalogue
<1>1. ScreenInv => OneCatalogue
  BY DEF ScreenInv, PricesInv
<1> QED
  BY <1>1, ScreenAlways, PTL

(* A payment the customer may have made stays in front of the cashier,      *)
(* whatever fails and whenever the application stops: a reading of the     *)
(* payments to check that is answered late still misses none of them.      *)
THEOREM NoPaymentIsForgotten == ScreenSpec => []PaymentShown
<1>1. ScreenInv => PaymentShown
  BY DEF ScreenInv, ToCheckInv, Covers, PaymentShown, Paid, InCheckout
<1> QED
  BY <1>1, ScreenAlways, PTL
=============================================================================
