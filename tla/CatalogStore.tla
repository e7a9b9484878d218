---------------------------- MODULE CatalogStore ----------------------------
(***************************************************************************)
(* The catalogue a tablet keeps and the changes computed on it.            *)
(*                                                                         *)
(* A field is one property of one product or category (an array of         *)
(* variants, options or ingredients is one field).  The store holds the    *)
(* local value of each field, the value it had in the version last         *)
(* activated (the base of the next merge), the numbers of the active and   *)
(* of the downloaded version (0 = none) and the fields in conflict with    *)
(* the local value each had when the conflict was found.                   *)
(* Rows are never removed (a version that omits one leaves it), and a row  *)
(* nobody created yet has its fields at their initial value.               *)
(* Local stock shortages are an overlay that merges and publications skip; *)
(* they are left out.                                                      *)
(***************************************************************************)
EXTENDS Naturals, Sequences

CONSTANTS Forms,  \* sets of fields saved together: a product, a category's name
          Values, \* values of a field
          Initial \* the value every tablet is installed with

ASSUME InitialAssumption == Initial \in Values

Fields == UNION Forms
Content == [Fields -> Values]

\* The catalogue the application is installed with.
Seed == [f \in Fields |-> Initial]

NewStore == [local |-> Seed, base |-> Seed, active |-> 0, pending |-> 0, conflicts |-> {}]

(***************************************************************************)
(* The merge of a version into local rows.                                 *)
(***************************************************************************)
Unedited(b, l, r, f) == l[f] = b[f] \/ l[f] = r[f]

\* mistake: a field edited on both sides keeps its local value and says nothing
KeepsSilently(b, l, r) ==
  [content |-> [f \in Fields |-> IF Unedited(b, l, r, f) THEN r[f] ELSE l[f]], conflicts |-> {}]
\* A field edited on both sides keeps its local value and becomes a conflict.
Merge(b, l, r) ==
  [content |-> [f \in Fields |-> IF Unedited(b, l, r, f) THEN r[f] ELSE l[f]],
   conflicts |-> {[field |-> f, local |-> l[f]] :
                    f \in {g \in Fields : ~Unedited(b, l, r, g) /\ r[g] # b[g]}}]

(***************************************************************************)
(* Changes computed from a snapshot s of the store.                        *)
(***************************************************************************)
Newest(s) == IF s.active > s.pending THEN s.active ELSE s.pending

\* mistake: only the active version is compared with the one received
StaleOnlyIfActive(s, n) == s.active > n
StaleFor(s, n) == \E known \in {s.active, s.pending} : known > n

Known(s, n) == n \in {s.active, s.pending}
Staged(s, n) == [s EXCEPT !.pending = n]

Activated(s, remote) ==
  LET merged == Merge(s.base, s.local, remote) IN
  [local |-> merged.content, base |-> remote, active |-> s.pending, pending |-> 0,
   conflicts |-> merged.conflicts]

\* A local edit more recent than the conflict.
EditedSince(s) == \E c \in s.conflicts : s.local[c.field] # c.local

\* One decision for all the fields in conflict.
Resolved(s, choice) ==
  [s EXCEPT !.conflicts = {},
            !.local = IF choice = "local" THEN @
                      ELSE [f \in Fields |-> IF \E c \in s.conflicts : c.field = f
                                             THEN s.base[f] ELSE @[f]]]

\* A form writes all its fields, the ones left as they were shown included.
Saved(s, form, values) ==
  [s EXCEPT !.local = [f \in Fields |-> IF f \in form THEN values[f] ELSE @[f]]]
=============================================================================
