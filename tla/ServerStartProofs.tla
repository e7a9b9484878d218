-------------------------- MODULE ServerStartProofs --------------------------
(***************************************************************************)
(* A server only listens on a complete schema, and a migration changes     *)
(* nothing of a namespace it does not accept as a whole: for any number of *)
(* collections, of commands run side by side and of failures.              *)
(*                                                                         *)
(* Both are about what was read steps earlier and may have changed since.  *)
(* The invariant says what of it lasts: a collection in place stays so,    *)
(* and a namespace once accepted stays acceptable, since a command that    *)
(* goes on has only ever found what it may build on.                       *)
(***************************************************************************)
EXTENDS ServerStart, TLAPS

Inspecting == {"inspect", "records"}
Changing == {"look", "change", "index", "version", "insert", "verify"}
CommandSteps == {"idle"} \cup Inspecting \cup Changing
ProcessSteps == {"down", "check", "privileges", "listen", "close", "stop", "disconnect",
                 "rejected"}

(* The steps that go through the collections, and those that go through    *)
(* the versions.                                                           *)
OnCollection == {"inspect", "look", "change", "index", "verify"}
OnVersion == {"version", "insert"}

SchemaOK ==
  schema \in [Collections -> [validator : Validators, index : Indexes, documents : Documents]]

CommandOK ==
  /\ command \in [Migrators -> [step : CommandSteps, at : Nat, saw : Validators \cup {"nothing"}]]
  /\ \A m \in Migrators :
       /\ command[m].step \in OnCollection => command[m].at \in Collections
       /\ command[m].step \in OnVersion => command[m].at \in Versions

TypeOK ==
  /\ SchemaOK
  /\ CommandOK
  /\ records \subseteq Versions \cup {0}
  /\ grant \in DOMAIN Grants
  /\ process \in [step : ProcessSteps, at : Collections]
  /\ failures \in Nat

(* What the server has checked is still in place.                          *)
CheckedInv ==
  /\ process.step = "check" => \A c \in 1..(process.at - 1) : InPlace(c)
  /\ process.step \in {"privileges", "listen"} => \A c \in Collections : InPlace(c)
  /\ process.step = "listen" => records = Versions /\ VerifyRuntimePrivileges

(* What a command has inspected is still acceptable; a collection that is  *)
(* not there yet has no index and no document either.                      *)
InspectedInv ==
  /\ \A c \in Collections :
       schema[c].validator = "absent" => schema[c].index # "other" /\ schema[c].documents # "foreign"
  /\ \A m \in Migrators :
       /\ command[m].step = "inspect" => \A c \in 1..(command[m].at - 1) : Compatible(c)
       /\ command[m].step \in {"records"} \cup Changing => \A c \in Collections : Compatible(c)
       /\ command[m].step \in Changing => records \subseteq Versions

IInv == TypeOK /\ CheckedInv /\ InspectedInv
-----------------------------------------------------------------------------
(* Facts about the database.                                               *)

(* The one runtime role that can bind a terminal range and cannot rewrite  *)
(* the evidence is the current one.                                        *)
LEMMA OnlyRuntimeV2 ==
  ASSUME grant \in DOMAIN Grants, VerifyRuntimePrivileges
  PROVE  grant = "runtime_v2"
<1>1. grant \in {"runtime_v1", "runtime_v2", "migrator_v1", "readWrite"}
  BY DEF Grants
<1>2. ASSUME grant = "runtime_v1" PROVE "update" \notin Grants[grant]["ranges"]
  BY <1>2 DEF Grants, Holdings
<1>3. ASSUME grant = "migrator_v1" PROVE "update" \notin Grants[grant]["ranges"]
  BY <1>3 DEF Grants, Holdings
<1>4. ASSUME grant = "readWrite" PROVE "update" \in Grants[grant]["evidence"]
  BY <1>4 DEF Grants, Holdings
<1> QED
  BY <1>1, <1>2, <1>3, <1>4 DEF VerifyRuntimePrivileges

(* What a step leaves as it was, or better: the collections in place and   *)
(* the acceptable ones.                                                    *)
Kept ==
  \A c \in Collections :
    /\ InPlace(c) => InPlace(c)'
    /\ Compatible(c) => Compatible(c)'
    /\ schema'[c].validator = "absent" =>
         schema'[c].index # "other" /\ schema'[c].documents # "foreign"

LEMMA UnchangedKept ==
  ASSUME InspectedInv, schema' = schema
  PROVE  Kept
  BY DEF Kept, InspectedInv, InPlace, Compatible

LEMMA InitIInv == Init => IInv
<1> SUFFICES ASSUME Init PROVE IInv
  OBVIOUS
<1> USE ServerStartAssumption
<1>1. Found \subseteq [validator : Validators, index : Indexes, documents : Documents]
  BY DEF Found, State, Validators, Indexes, Documents
<1>2. SchemaOK
  BY <1>1 DEF Init, SchemaOK
<1>3. CommandOK
  BY DEF Init, Idle, CommandOK, CommandSteps, Inspecting, Changing, Validators, OnCollection, OnVersion
<1>4. TypeOK
  BY <1>2, <1>3 DEF Init, TypeOK, Down, ProcessSteps, Collections, Versions
<1>5. CheckedInv
  BY DEF Init, CheckedInv, Down
<1>6. InspectedInv
  <2>1. \A c \in Collections : schema[c] \in Found
    BY DEF Init
  <2> QED
    BY <2>1 DEF Init, InspectedInv, Idle, Found, State, Changing
<1> QED
  BY <1>4, <1>5, <1>6 DEF IInv
-----------------------------------------------------------------------------
(* Steps.                                                                  *)

(* What a command may find itself at, given what there is.                 *)
CommandFine(m) ==
  /\ command[m] \in [step : CommandSteps, at : Nat, saw : Validators \cup {"nothing"}]
  /\ command[m].step \in OnCollection => command[m].at \in Collections
  /\ command[m].step \in OnVersion => command[m].at \in Versions
  /\ command[m].step = "inspect" => \A c \in 1..(command[m].at - 1) : Compatible(c)
  /\ command[m].step \in {"records"} \cup Changing => \A c \in Collections : Compatible(c)
  /\ command[m].step \in Changing => records \subseteq Versions

(* A step of command m: the database is kept, versions are only added, the *)
(* server sees nothing of it.                                              *)
LEMMA CommandStep ==
  ASSUME IInv, NEW m \in Migrators, Kept, SchemaOK',
         records' = records \/ (\E v \in Versions : records' = records \cup {v}),
         command' = [command EXCEPT ![m] = command'[m]], CommandFine(m)',
         UNCHANGED <<grant, process>>, failures' \in Nat
  PROVE  IInv'
<1> USE ServerStartAssumption
<1>1. \A n \in Migrators : n # m => command'[n] = command[n]
  BY DEF IInv, TypeOK, CommandOK
<1>2. \A n \in Migrators : CommandFine(n)'
  <2>1. \A n \in Migrators : CommandFine(n)
    BY DEF IInv, TypeOK, CommandOK, InspectedInv, CommandFine
  <2>2. records \subseteq Versions => records' \subseteq Versions
    OBVIOUS
  <2>3. SUFFICES ASSUME NEW n \in Migrators, n # m PROVE CommandFine(n)'
    OBVIOUS
  <2>4. command'[n] = command[n]
    BY <1>1, <2>3
  <2>5. CommandFine(n)
    BY <2>1
  <2>6. command[n].step \in {"inspect"} => command[n].at \in Collections
    BY <2>5 DEF CommandFine, OnCollection
  <2>7. \A c \in Collections : Compatible(c) => Compatible(c)'
    BY DEF Kept
  <2>8. command[n].step = "inspect" => \A c \in 1..(command[n].at - 1) : c \in Collections
    BY <2>6 DEF Collections
  <2> QED
    BY <2>2, <2>4, <2>5, <2>7, <2>8 DEF CommandFine
<1>3. CommandOK'
  BY <1>2 DEF IInv, TypeOK, CommandOK, CommandFine
<1>4. TypeOK'
  BY <1>3 DEF IInv, TypeOK
<1>5. CheckedInv'
  <2>1. \A c \in Collections : InPlace(c) => InPlace(c)'
    BY DEF Kept
  <2>2. process.step = "check" => \A c \in 1..(process.at - 1) : c \in Collections
    BY DEF IInv, TypeOK, Collections
  <2>3. records = Versions => records' = Versions
    OBVIOUS
  <2>4. VerifyRuntimePrivileges => VerifyRuntimePrivileges'
    BY DEF VerifyRuntimePrivileges
  <2> QED
    BY <2>1, <2>2, <2>3, <2>4 DEF IInv, CheckedInv
<1>6. InspectedInv'
  BY <1>2 DEF Kept, InspectedInv, CommandFine
<1> QED
  BY <1>4, <1>5, <1>6 DEF IInv

(* A step of the server: the database and the commands see nothing of it.  *)
LEMMA ServerStep ==
  ASSUME IInv, UNCHANGED <<schema, records, command, grant>>, failures' \in Nat,
         process' \in [step : ProcessSteps, at : Collections], CheckedInv'
  PROVE  IInv'
<1>1. TypeOK'
  BY DEF IInv, TypeOK, SchemaOK, CommandOK
<1>2. InspectedInv'
  BY DEF IInv, InspectedInv, Compatible
<1> QED
  BY <1>1, <1>2 DEF IInv
-----------------------------------------------------------------------------
(* The commands.                                                           *)

(* An action that only moves its command on.                               *)
LEMMA OnlyMoves ==
  ASSUME IInv, NEW m \in Migrators, UNCHANGED <<schema, records, grant, process>>,
         command' = [command EXCEPT ![m] = command'[m]], CommandFine(m)',
         failures' \in Nat
  PROVE  IInv'
<1>1. Kept
  BY UnchangedKept DEF IInv
<1>2. SchemaOK'
  BY DEF IInv, TypeOK, SchemaOK
<1> QED
  BY <1>1, <1>2, CommandStep

(* A command that ends may be run again.                                   *)
LEMMA EndCommandFine ==
  ASSUME IInv, NEW m \in Migrators, EndCommand(m)
  PROVE  command' = [command EXCEPT ![m] = command'[m]] /\ CommandFine(m)'
<1>1. command' = [command EXCEPT ![m] = Idle] /\ command'[m] = Idle
  BY DEF IInv, TypeOK, CommandOK, EndCommand
<1>2. Idle \in [step : CommandSteps, at : Nat, saw : Validators \cup {"nothing"}]
  BY DEF Idle, CommandSteps
<1>3. CommandFine(m)'
  BY <1>1, <1>2 DEF CommandFine, Idle, Changing, OnCollection, OnVersion
<1> QED
  BY <1>1, <1>3

(* What a step writes of its command.                                      *)
LEMMA StepWrites ==
  ASSUME IInv, NEW m \in Migrators, NEW STATE at, at \in Nat,
         NEW step \in CommandSteps, Step(m, step, at)
  PROVE  /\ command' = [command EXCEPT ![m] = command'[m]]
         /\ command'[m] \in [step : CommandSteps, at : Nat, saw : Validators \cup {"nothing"}]
         /\ command'[m].step = step /\ command'[m].at = at
<1>1. command[m] \in [step : CommandSteps, at : Nat, saw : Validators \cup {"nothing"}]
  BY DEF IInv, TypeOK, CommandOK
<1>2. command'[m] = [step |-> step, at |-> at, saw |-> command[m].saw]
  BY <1>1 DEF IInv, TypeOK, CommandOK, Step
<1>3. command' = [command EXCEPT ![m] = command'[m]]
  BY DEF IInv, TypeOK, CommandOK, Step
<1> QED
  BY <1>1, <1>2, <1>3

LEMMA MigrateIInv ==
  ASSUME IInv, NEW m \in Migrators, Migrate(m)
  PROVE  IInv'
<1> USE ServerStartAssumption
<1>1. Step(m, "inspect", 1)
  BY DEF Migrate
<1>2. command' = [command EXCEPT ![m] = command'[m]] /\ CommandFine(m)'
  BY <1>1, StepWrites DEF CommandFine, CommandSteps, Inspecting, Changing, OnVersion,
     Collections
<1> QED
  BY <1>2, OnlyMoves DEF Migrate, IInv, TypeOK

LEMMA InspectIInv ==
  ASSUME IInv, NEW m \in Migrators, Inspect(m)
  PROVE  IInv'
<1> USE ServerStartAssumption
<1>1. UNCHANGED <<schema, records, grant, process>> /\ failures' \in Nat
  BY DEF Inspect, IInv, TypeOK
<1>2. command[m].at \in 1..Last
  BY DEF Inspect, IInv, TypeOK, CommandOK, OnCollection, Collections
<1>3. \A c \in 1..(command[m].at - 1) : Compatible(c)
  BY DEF Inspect, IInv, InspectedInv
<1>4. CASE Compatible(At(m)) /\ At(m) < Last
  <2>1. Step(m, "inspect", At(m) + 1)
    BY <1>4 DEF Inspect, AfterInspect
  <2>2. \A c \in 1..(command'[m].at - 1) : Compatible(c)'
    <3>1. \A c \in 1..command[m].at : Compatible(c)
      BY <1>2, <1>3, <1>4 DEF At
    <3>2. command'[m].at - 1 = command[m].at
      <4>1. command[m].at + 1 \in Nat
        BY <1>2
      <4>2. command'[m].at = command[m].at + 1
        BY <2>1, <4>1, StepWrites DEF At, CommandSteps, Inspecting
      <4> QED
        BY <1>2, <4>2
    <3> QED
      BY <3>1, <3>2, <1>1 DEF Compatible
  <2>3. CommandFine(m)'
    BY <2>1, <2>2, <1>2, <1>4, StepWrites DEF CommandFine, CommandSteps, Inspecting, Changing,
       OnCollection, OnVersion, Collections, At
  <2> QED
    <3>1. command[m].at + 1 \in Nat
      BY <1>2
    <3>2. command' = [command EXCEPT ![m] = command'[m]]
      BY <2>1, <3>1, StepWrites DEF At, CommandSteps, Inspecting
    <3> QED
      BY <2>3, <3>2, <1>1, OnlyMoves
<1>5. CASE Compatible(At(m)) /\ ~(At(m) < Last)
  <2>1. Step(m, "records", 1)
    BY <1>5 DEF Inspect, AfterInspect
  <2>2. \A c \in Collections : Compatible(c)'
    <3>1. \A c \in 1..Last : Compatible(c)
      BY <1>2, <1>3, <1>5 DEF At
    <3> QED
      BY <3>1, <1>1 DEF Compatible, Collections
  <2>3. CommandFine(m)'
    BY <2>1, <2>2, StepWrites DEF CommandFine, CommandSteps, Inspecting, Changing,
       OnCollection, OnVersion
  <2> QED
    BY <2>1, <2>3, <1>1, StepWrites, OnlyMoves DEF CommandSteps, Inspecting
<1>6. CASE ~Compatible(At(m))
  BY <1>6, <1>1, EndCommandFine, OnlyMoves DEF Inspect
<1> QED
  BY <1>4, <1>5, <1>6

LEMMA InspectRecordsIInv ==
  ASSUME IInv, NEW m \in Migrators, InspectRecords(m)
  PROVE  IInv'
<1> USE ServerStartAssumption
<1>1. UNCHANGED <<schema, records, grant, process>> /\ failures' \in Nat
  BY DEF InspectRecords, IInv, TypeOK
<1>2. \A c \in Collections : Compatible(c)'
  BY <1>1 DEF InspectRecords, IInv, InspectedInv, Compatible
<1>3. CASE records \subseteq Versions /\ Step(m, "look", 1)
  <2>1. CommandFine(m)'
    BY <1>1, <1>2, <1>3, StepWrites DEF CommandFine, CommandSteps, Inspecting, Changing,
       OnCollection, OnVersion, Collections
  <2> QED
    BY <2>1, <1>1, <1>3, StepWrites, OnlyMoves DEF CommandSteps, Changing
<1>4. CASE EndCommand(m)
  BY <1>4, <1>1, EndCommandFine, OnlyMoves
<1> QED
  BY <1>3, <1>4 DEF InspectRecords

LEMMA LookAtCollectionIInv ==
  ASSUME IInv, NEW m \in Migrators, LookAtCollection(m)
  PROVE  IInv'
<1>1. command[m] \in [step : CommandSteps, at : Nat, saw : Validators \cup {"nothing"}]
  BY DEF IInv, TypeOK, CommandOK
<1>2. command[m].at \in Collections /\ schema[command[m].at].validator \in Validators
  BY DEF LookAtCollection, IInv, TypeOK, CommandOK, SchemaOK, OnCollection
<1>3. command'[m] = [step |-> "change", at |-> command[m].at,
                     saw |-> schema[command[m].at].validator]
  BY <1>1 DEF LookAtCollection, At, IInv, TypeOK, CommandOK
<1>4. command' = [command EXCEPT ![m] = command'[m]]
  BY <1>3 DEF LookAtCollection, At, IInv, TypeOK, CommandOK
<1>5. \A c \in Collections : Compatible(c)'
  BY DEF LookAtCollection, IInv, InspectedInv, Changing, Compatible
<1>6. records' \subseteq Versions
  BY DEF LookAtCollection, IInv, InspectedInv, Changing
<1>7. CommandFine(m)'
  BY <1>1, <1>2, <1>3, <1>5, <1>6 DEF CommandFine, CommandSteps, Changing, OnVersion
<1> QED
  BY <1>4, <1>7, OnlyMoves DEF LookAtCollection, IInv, TypeOK

(* A collection created or given the current validator keeps an acceptable *)
(* index and documents.                                                    *)
LEMMA ChangeCollectionIInv ==
  ASSUME IInv, NEW m \in Migrators, ChangeCollection(m)
  PROVE  IInv'
<1>1. /\ command[m] \in [step : CommandSteps, at : Nat, saw : Validators \cup {"nothing"}]
      /\ command[m].at \in Collections
      /\ \A c \in Collections : Compatible(c)
      /\ records \subseteq Versions
  BY DEF ChangeCollection, IInv, TypeOK, CommandOK, InspectedInv, OnCollection, Changing
<1>2. UNCHANGED <<records, grant, process>> /\ failures' \in Nat
  BY DEF ChangeCollection, IInv, TypeOK
<1>3. CASE schema' = [schema EXCEPT ![At(m)].validator = "current"] /\ Step(m, "index", At(m))
  <2>1. \A c \in Collections :
          /\ schema'[c] = IF c = command[m].at THEN [schema[c] EXCEPT !.validator = "current"]
                          ELSE schema[c]
          /\ schema[c] \in [validator : Validators, index : Indexes, documents : Documents]
    BY <1>3 DEF At, IInv, TypeOK, SchemaOK
  <2>2. SchemaOK'
    <3>1. \A c \in Collections :
            schema'[c] \in [validator : Validators, index : Indexes, documents : Documents]
      BY <2>1 DEF Validators
    <3>2. schema' = [c \in Collections |-> schema'[c]]
      BY <1>3 DEF IInv, TypeOK, SchemaOK
    <3> QED
      BY <3>1, <3>2 DEF SchemaOK
  <2>3. Kept
    <3>1. ASSUME NEW c \in Collections
          PROVE  /\ InPlace(c) => InPlace(c)'
                 /\ Compatible(c) => Compatible(c)'
                 /\ schema'[c].validator = "absent" =>
                      schema'[c].index # "other" /\ schema'[c].documents # "foreign"
      <4>1. schema[c].validator = "absent" =>
              schema[c].index # "other" /\ schema[c].documents # "foreign"
        BY DEF IInv, InspectedInv
      <4>2. /\ schema'[c].validator \in {"current", schema[c].validator}
            /\ schema'[c].index = schema[c].index
            /\ schema'[c].documents = schema[c].documents
        BY <2>1
      <4> QED
        BY <4>1, <4>2 DEF InPlace, Compatible
    <3> QED
      BY <3>1 DEF Kept
  <2>4. command' = [command EXCEPT ![m] = command'[m]] /\ CommandFine(m)'
    <3>1. \A c \in Collections : Compatible(c)'
      BY <1>1, <2>3 DEF Kept
    <3> QED
      BY <3>1, <1>1, <1>2, <1>3, StepWrites DEF CommandFine, CommandSteps, Changing, OnVersion, At
  <2> QED
    BY <1>2, <2>2, <2>3, <2>4, CommandStep
<1>4. CASE EndCommand(m) /\ UNCHANGED schema
  BY <1>4, <1>2, EndCommandFine, OnlyMoves
<1> QED
  BY <1>3, <1>4 DEF ChangeCollection

LEMMA BuildIndexIInv ==
  ASSUME IInv, NEW m \in Migrators, BuildIndex(m)
  PROVE  IInv'
<1> USE ServerStartAssumption
<1>1. /\ command[m] \in [step : CommandSteps, at : Nat, saw : Validators \cup {"nothing"}]
      /\ command[m].at \in Collections
      /\ \A c \in Collections : Compatible(c)
      /\ records \subseteq Versions
  BY DEF BuildIndex, IInv, TypeOK, CommandOK, InspectedInv, OnCollection, Changing
<1>2. UNCHANGED <<records, grant, process>> /\ failures' \in Nat
  BY DEF BuildIndex, IInv, TypeOK
<1>3. CASE NextCollection(m) /\ schema' = [schema EXCEPT ![At(m)].index = "built"]
  <2>1. \A c \in Collections :
          /\ schema'[c] = IF c = command[m].at THEN [schema[c] EXCEPT !.index = "built"]
                          ELSE schema[c]
          /\ schema[c] \in [validator : Validators, index : Indexes, documents : Documents]
    BY <1>3 DEF At, IInv, TypeOK, SchemaOK
  <2>2. SchemaOK'
    <3>1. \A c \in Collections :
            schema'[c] \in [validator : Validators, index : Indexes, documents : Documents]
      BY <2>1 DEF Indexes
    <3>2. schema' = [c \in Collections |-> schema'[c]]
      BY <1>3 DEF IInv, TypeOK, SchemaOK
    <3> QED
      BY <3>1, <3>2 DEF SchemaOK
  <2>3. Kept
    <3>1. ASSUME NEW c \in Collections
          PROVE  /\ InPlace(c) => InPlace(c)'
                 /\ Compatible(c) => Compatible(c)'
                 /\ schema'[c].validator = "absent" =>
                      schema'[c].index # "other" /\ schema'[c].documents # "foreign"
      <4>1. schema[c].validator = "absent" =>
              schema[c].index # "other" /\ schema[c].documents # "foreign"
        BY DEF IInv, InspectedInv
      <4>2. /\ schema'[c].index \in {"built", schema[c].index}
            /\ schema'[c].validator = schema[c].validator
            /\ schema'[c].documents = schema[c].documents
        BY <2>1
      <4> QED
        BY <4>1, <4>2 DEF InPlace, Compatible
    <3> QED
      BY <3>1 DEF Kept
  <2>4. \A c \in Collections : Compatible(c)'
    BY <1>1, <2>3 DEF Kept
  <2>5. command' = [command EXCEPT ![m] = command'[m]] /\ CommandFine(m)'
    <3>1. CASE command[m].at < Last /\ Step(m, "look", At(m) + 1)
      <4>1. command[m].at + 1 \in Collections /\ command[m].at + 1 \in Nat
        BY <1>1, <3>1 DEF Collections
      <4> QED
        BY <4>1, <3>1, <2>4, <1>1, <1>2, StepWrites
        DEF CommandFine, CommandSteps, Changing, OnVersion, At
    <3>2. CASE Step(m, "version", 1)
      BY <3>2, <2>4, <1>1, <1>2, StepWrites
      DEF CommandFine, CommandSteps, Changing, OnCollection, Versions
    <3> QED
      BY <1>3, <3>1, <3>2 DEF NextCollection, At
  <2> QED
    BY <1>2, <2>2, <2>3, <2>5, CommandStep
<1>4. CASE EndCommand(m) /\ UNCHANGED schema
  BY <1>4, <1>2, EndCommandFine, OnlyMoves
<1> QED
  BY <1>3, <1>4 DEF BuildIndex, NotBuilt

(* What a command that has recorded a version goes on to.                  *)
LEMMA AfterVersionFine ==
  ASSUME IInv, NEW m \in Migrators, command[m].step \in OnVersion, AfterVersion(m),
         schema' = schema, records' \subseteq Versions
  PROVE  command' = [command EXCEPT ![m] = command'[m]] /\ CommandFine(m)'
<1> USE ServerStartAssumption
<1>1. command[m].at \in 1..3
  BY DEF IInv, TypeOK, CommandOK, Versions
<1>2. \A c \in Collections : Compatible(c)'
  BY DEF IInv, InspectedInv, OnVersion, Changing, Compatible
<1>3. CASE command[m].at < 3 /\ Step(m, "version", At(m) + 1)
  <2>1. command[m].at + 1 \in Versions /\ command[m].at + 1 \in Nat
    BY <1>1, <1>3 DEF Versions
  <2> QED
    BY <2>1, <1>2, <1>3, StepWrites DEF CommandFine, CommandSteps, Changing, OnCollection, At
<1>4. CASE Step(m, "verify", 1)
  BY <1>2, <1>4, StepWrites DEF CommandFine, CommandSteps, Changing, OnVersion, Collections
<1> QED
  BY <1>3, <1>4 DEF AfterVersion, At

LEMMA LookAtVersionIInv ==
  ASSUME IInv, NEW m \in Migrators, LookAtVersion(m)
  PROVE  IInv'
<1>1. UNCHANGED <<schema, records, grant, process>> /\ failures' \in Nat
  BY DEF LookAtVersion, IInv, TypeOK
<1>2. command[m].at \in Versions /\ records \subseteq Versions
  BY DEF LookAtVersion, IInv, TypeOK, CommandOK, InspectedInv, OnVersion, Changing
<1>3. CASE Step(m, "insert", At(m))
  <2>1. \A c \in Collections : Compatible(c)'
    BY <1>1 DEF LookAtVersion, IInv, InspectedInv, Changing, Compatible
  <2>2. command[m].at \in Nat
    BY <1>2 DEF Versions
  <2>3. command' = [command EXCEPT ![m] = command'[m]] /\ CommandFine(m)'
    BY <2>1, <2>2, <1>1, <1>2, <1>3, StepWrites
    DEF CommandFine, CommandSteps, Changing, OnCollection, At
  <2> QED
    BY <2>3, <1>1, OnlyMoves
<1>4. CASE AfterVersion(m)
  BY <1>1, <1>2, <1>4, AfterVersionFine, OnlyMoves DEF LookAtVersion, OnVersion
<1> QED
  BY <1>3, <1>4 DEF LookAtVersion

LEMMA InsertVersionIInv ==
  ASSUME IInv, NEW m \in Migrators, InsertVersion(m)
  PROVE  IInv'
<1>1. UNCHANGED <<schema, grant, process>> /\ failures' \in Nat
  BY DEF InsertVersion, IInv, TypeOK
<1>2. /\ command[m].at \in Versions /\ records \subseteq Versions
      /\ records' = records \cup {command[m].at}
  BY DEF InsertVersion, At, IInv, TypeOK, CommandOK, InspectedInv, OnVersion, Changing
<1>3. Kept /\ SchemaOK'
  BY <1>1, UnchangedKept DEF IInv, TypeOK, SchemaOK
<1>4. command' = [command EXCEPT ![m] = command'[m]] /\ CommandFine(m)'
  BY <1>1, <1>2, AfterVersionFine, EndCommandFine DEF InsertVersion, OnVersion
<1>5. \E v \in Versions : records' = records \cup {v}
  BY <1>2
<1> QED
  BY <1>1, <1>3, <1>4, <1>5, CommandStep

LEMMA VerifyMigrationIInv ==
  ASSUME IInv, NEW m \in Migrators, VerifyMigration(m)
  PROVE  IInv'
<1>1. UNCHANGED <<schema, records, grant, process>> /\ failures' \in Nat
  BY DEF VerifyMigration, IInv, TypeOK
<1>2. CASE At(m) < Last /\ Step(m, "verify", At(m) + 1)
  <2>1. command[m].at \in Collections
    BY DEF VerifyMigration, IInv, TypeOK, CommandOK, OnCollection
  <2>2. command[m].at + 1 \in Collections /\ command[m].at + 1 \in Nat
    BY <2>1, <1>2, ServerStartAssumption DEF At, Collections
  <2>3. /\ \A c \in Collections : Compatible(c)'
        /\ records' \subseteq Versions
    BY <1>1 DEF VerifyMigration, IInv, InspectedInv, Changing, Compatible
  <2>4. command' = [command EXCEPT ![m] = command'[m]] /\ CommandFine(m)'
    BY <2>2, <2>3, <1>2, StepWrites DEF CommandFine, CommandSteps, Changing, OnVersion, At
  <2> QED
    BY <2>4, <1>1, OnlyMoves
<1>3. CASE EndCommand(m)
  BY <1>1, <1>3, EndCommandFine, OnlyMoves
<1> QED
  BY <1>2, <1>3 DEF VerifyMigration

LEMMA CommandFailsIInv ==
  ASSUME IInv, NEW m \in Migrators, CommandFails(m)
  PROVE  IInv'
<1>1. UNCHANGED <<schema, records, grant, process>> /\ failures' \in Nat
  BY DEF CommandFails, Fails, IInv, TypeOK
<1> QED
  BY <1>1, EndCommandFine, OnlyMoves DEF CommandFails

LEMMA OlderServerWritesIInv ==
  ASSUME IInv, OlderServerWrites
  PROVE  IInv'
<1>1. PICK c \in Collections :
        /\ schema[c].validator = "known" /\ schema[c].documents = "valid"
        /\ schema' = [schema EXCEPT ![c].documents = "repeated"]
  BY DEF OlderServerWrites
<1>2. UNCHANGED <<records, command, grant, process>> /\ failures' \in Nat
  BY DEF OlderServerWrites, IInv, TypeOK
<1>3. \A d \in Collections :
        /\ schema'[d] = IF d = c THEN [schema[d] EXCEPT !.documents = "repeated"] ELSE schema[d]
        /\ schema[d] \in [validator : Validators, index : Indexes, documents : Documents]
  BY <1>1 DEF IInv, TypeOK, SchemaOK
<1>4. \A d \in Collections :
        /\ InPlace(d)' <=> InPlace(d)
        /\ Compatible(d)' <=> Compatible(d)
        /\ schema'[d].validator = "absent" =>
             schema'[d].index # "other" /\ schema'[d].documents # "foreign"
  BY <1>1, <1>3 DEF InPlace, Compatible, IInv, InspectedInv
<1>5. TypeOK'
  <2>1. SchemaOK'
    BY <1>1, <1>3 DEF SchemaOK, IInv, TypeOK, Documents
  <2> QED
    BY <2>1, <1>2 DEF IInv, TypeOK, CommandOK
<1>6. CheckedInv'
  <2>1. process.step = "check" => \A d \in 1..(process.at - 1) : d \in Collections
    BY ServerStartAssumption DEF IInv, TypeOK, Collections
  <2> QED
    BY <2>1, <1>2, <1>4 DEF IInv, CheckedInv, VerifyRuntimePrivileges
<1>7. InspectedInv'
  <2>1. \A m \in Migrators :
          command[m].step = "inspect" => \A d \in 1..(command[m].at - 1) : d \in Collections
    BY ServerStartAssumption DEF IInv, TypeOK, CommandOK, OnCollection, Collections
  <2> QED
    BY <2>1, <1>2, <1>4 DEF IInv, InspectedInv
<1> QED
  BY <1>5, <1>6, <1>7 DEF IInv
-----------------------------------------------------------------------------
(* The server.                                                             *)

(* A server that is not looking at the schema, nor listening.              *)
LEMMA AwayStep ==
  ASSUME IInv, UNCHANGED <<schema, records, command, grant>>, failures' \in Nat,
         process' \in [step : ProcessSteps \ {"check", "privileges", "listen"}, at : Collections]
  PROVE  IInv'
<1>1. process' \in [step : ProcessSteps, at : Collections]
  OBVIOUS
<1>2. CheckedInv'
  BY DEF CheckedInv
<1> QED
  BY <1>1, <1>2, ServerStep

LEMMA StartIInv ==
  ASSUME IInv, Start
  PROVE  IInv'
<1>1. process' = [step |-> "check", at |-> 1]
  BY DEF Start, Server, Down
<1>2. process' \in [step : ProcessSteps, at : Collections]
  BY <1>1, ServerStartAssumption DEF ProcessSteps, Collections
<1>3. CheckedInv'
  BY <1>1 DEF CheckedInv
<1> QED
  BY <1>2, <1>3, ServerStep DEF Start, IInv, TypeOK

LEMMA CheckCollectionIInv ==
  ASSUME IInv, CheckCollection
  PROVE  IInv'
<1> USE ServerStartAssumption
<1>1. /\ process \in [step : ProcessSteps, at : Collections]
      /\ \A c \in 1..(process.at - 1) : InPlace(c)
      /\ UNCHANGED <<schema, records, command, grant>> /\ failures' \in Nat
  BY DEF CheckCollection, IInv, TypeOK, CheckedInv
<1>2. CASE ~InPlace(process.at)
  <2>1. process' = [process EXCEPT !.step = "close"]
    BY <1>2 DEF CheckCollection
  <2> QED
    BY <2>1, <1>1, AwayStep DEF ProcessSteps
<1>3. CASE InPlace(process.at) /\ process.at < Last
  <2>1. process' = [step |-> "check", at |-> process.at + 1]
    BY <1>1, <1>3 DEF CheckCollection
  <2>2. process.at + 1 \in Collections
    BY <1>1, <1>3 DEF Collections
  <2>3. \A c \in 1..process.at : InPlace(c)
    BY <1>1, <1>3 DEF Collections
  <2>4. process'.at - 1 = process.at
    BY <2>1, <1>1 DEF Collections
  <2>5. CheckedInv'
    BY <2>1, <2>3, <2>4, <1>1 DEF CheckedInv, InPlace
  <2> QED
    BY <2>1, <2>2, <2>5, <1>1, ServerStep DEF ProcessSteps
<1>4. CASE InPlace(process.at) /\ ~(process.at < Last)
  <2>1. process' = [step |-> "privileges", at |-> 1]
    BY <1>4 DEF CheckCollection
  <2>2. \A c \in Collections : InPlace(c)'
    BY <1>1, <1>4 DEF Collections, InPlace
  <2>3. CheckedInv'
    BY <2>1, <2>2 DEF CheckedInv
  <2> QED
    BY <2>1, <2>3, <1>1, ServerStep DEF ProcessSteps, Collections
<1> QED
  BY <1>2, <1>3, <1>4

LEMMA CheckPrivilegesIInv ==
  ASSUME IInv, CheckPrivileges
  PROVE  IInv'
<1>1. /\ process \in [step : ProcessSteps, at : Collections]
      /\ \A c \in Collections : InPlace(c)'
      /\ UNCHANGED <<schema, records, command, grant>> /\ failures' \in Nat
  BY DEF CheckPrivileges, IInv, TypeOK, CheckedInv, InPlace
<1>2. CASE records = Versions /\ VerifyRuntimePrivileges
  <2>1. process' = [process EXCEPT !.step = "listen"]
    BY <1>2 DEF CheckPrivileges, Server
  <2>2. CheckedInv'
    BY <2>1, <1>1, <1>2 DEF CheckedInv, VerifyRuntimePrivileges
  <2> QED
    BY <2>1, <2>2, <1>1, ServerStep DEF ProcessSteps
<1>3. CASE ~(records = Versions /\ VerifyRuntimePrivileges)
  <2>1. process' = [process EXCEPT !.step = "close"]
    BY <1>3 DEF CheckPrivileges, Server
  <2> QED
    BY <2>1, <1>1, AwayStep DEF ProcessSteps
<1> QED
  BY <1>2, <1>3

LEMMA CheckFailsIInv ==
  ASSUME IInv, CheckFails
  PROVE  IInv'
<1>1. process' = [process EXCEPT !.step = "close"]
  BY DEF CheckFails, Server
<1> QED
  BY <1>1, AwayStep DEF CheckFails, Fails, IInv, TypeOK, ProcessSteps

(* A server that stops, or is down.                                        *)
LEMMA StoppingIInv ==
  ASSUME IInv, Signal \/ CloseApp \/ CloseDatabase \/ StopRejected \/ Exit \/ Deadline
  PROVE  IInv'
<1>1. /\ UNCHANGED <<schema, records, command, grant>> /\ failures' \in Nat
      /\ process \in [step : ProcessSteps, at : Collections]
  BY DEF Signal, CloseApp, CloseDatabase, StopRejected, Exit, Deadline, IInv, TypeOK
<1>2. \/ process' = Down
      \/ process' = [process EXCEPT !.step = "stop"]
      \/ process' = [process EXCEPT !.step = "disconnect"]
      \/ process' = [process EXCEPT !.step = "rejected"]
  BY DEF Signal, CloseApp, CloseDatabase, StopRejected, Exit, Deadline, Server
<1>3. process' \in [step : ProcessSteps \ {"check", "privileges", "listen"}, at : Collections]
  BY <1>1, <1>2, ServerStartAssumption DEF ProcessSteps, Down, Collections
<1> QED
  BY <1>1, <1>3, AwayStep

LEMMA NextIInv == IInv /\ [Next]_vars => IInv'
<1> SUFFICES ASSUME IInv, [Next]_vars PROVE IInv'
  OBVIOUS
<1>1. CASE \E m \in Migrators : Migrate(m) \/ Migration(m) \/ CommandFails(m)
  BY <1>1, MigrateIInv, InspectIInv, InspectRecordsIInv, LookAtCollectionIInv,
     ChangeCollectionIInv, BuildIndexIInv, LookAtVersionIInv, InsertVersionIInv,
     VerifyMigrationIInv, CommandFailsIInv
  DEF Migration
<1>2. CASE OlderServerWrites
  BY <1>2, OlderServerWritesIInv
<1>3. CASE Start \/ CheckCollection \/ CheckPrivileges \/ CheckFails
  BY <1>3, StartIInv, CheckCollectionIInv, CheckPrivilegesIInv, CheckFailsIInv
<1>4. CASE Signal \/ CloseApp \/ CloseDatabase \/ StopRejected \/ Exit \/ Deadline
  BY <1>4, StoppingIInv
<1>5. CASE UNCHANGED vars
  BY <1>5 DEF vars, IInv, TypeOK, SchemaOK, CommandOK, CheckedInv, InspectedInv, InPlace,
     Compatible, VerifyRuntimePrivileges
<1> QED
  BY <1>1, <1>2, <1>3, <1>4, <1>5 DEF Next

LEMMA Invariance == Spec => []IInv
  BY InitIInv, NextIInv, PTL DEF Spec
-----------------------------------------------------------------------------
(* The theorems.                                                           *)

(* A server only listens on a complete schema with the current runtime     *)
(* role (lifecycle.ts checks before it listens), whatever ran beside it.   *)
THEOREM OnlyCompleteIsServed == Spec => []ServedIsComplete
<1>1. IInv => ServedIsComplete
  BY OnlyRuntimeV2 DEF IInv, TypeOK, CheckedInv, ServedIsComplete, Complete, InPlace
<1> QED
  BY <1>1, Invariance, PTL

(* A migration that refuses a namespace has changed nothing of it          *)
(* (migrations.ts, migrate: the whole namespace is validated first), even  *)
(* with another one, or a server of the previous version, beside it.       *)
THEOREM RefusedIsUntouched == Spec => RefusedUntouched
<1>1. IInv /\ [Next]_vars =>
        [\A c \in Collections :
           schema'[c].validator # schema[c].validator \/ schema'[c].index # schema[c].index =>
             (\A d \in Collections : Compatible(d)) /\ records \subseteq Versions]_vars
  <2> DEFINE Changed(c) == \/ schema'[c].validator # schema[c].validator
                           \/ schema'[c].index # schema[c].index
             Accepted == (\A d \in Collections : Compatible(d)) /\ records \subseteq Versions
  <2> SUFFICES ASSUME IInv, Next PROVE \A c \in Collections : Changed(c) => Accepted
    OBVIOUS
  <2>1. ASSUME NEW m \in Migrators, command[m].step \in Changing
        PROVE  Accepted
    BY <2>1 DEF IInv, InspectedInv
  <2>2. ASSUME schema' = schema PROVE \A c \in Collections : ~Changed(c)
    BY <2>2
  <2>3. CASE \E m \in Migrators : ChangeCollection(m) \/ BuildIndex(m)
    BY <2>1, <2>3 DEF ChangeCollection, BuildIndex, Changing
  <2>4. CASE OlderServerWrites
    <3>1. \A c \in Collections :
            schema'[c].validator = schema[c].validator /\ schema'[c].index = schema[c].index
      BY <2>4 DEF OlderServerWrites, IInv, TypeOK, SchemaOK
    <3> QED
      BY <3>1
  <2>5. CASE \/ \E m \in Migrators :
                  \/ Migrate(m) \/ CommandFails(m) \/ Inspect(m) \/ InspectRecords(m)
                  \/ LookAtCollection(m) \/ LookAtVersion(m) \/ InsertVersion(m)
                  \/ VerifyMigration(m)
             \/ Start \/ CheckCollection \/ CheckPrivileges \/ CheckFails
             \/ Signal \/ CloseApp \/ CloseDatabase \/ StopRejected \/ Exit \/ Deadline
    <3>1. schema' = schema
      BY <2>5 DEF Migrate, CommandFails, Inspect, InspectRecords, LookAtCollection,
         LookAtVersion, InsertVersion, VerifyMigration, Start, CheckCollection,
         CheckPrivileges, CheckFails, Signal, CloseApp, CloseDatabase, StopRejected, Exit,
         Deadline
    <3> QED
      BY <3>1, <2>2
  <2> QED
    BY <2>3, <2>4, <2>5 DEF Next, Migration
<1> QED
  BY <1>1, Invariance, PTL DEF Spec, RefusedUntouched
=============================================================================
