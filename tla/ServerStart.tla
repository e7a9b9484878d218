------------------------------ MODULE ServerStart ------------------------------
(***************************************************************************)
(* The database of the server is brought to the current schema by an       *)
(* operator's command, and a server only listens on a complete one.        *)
(*                                                                         *)
(* A migration inspects the whole namespace it found before it changes     *)
(* anything, then goes through the collections: it creates the collection  *)
(* or gives it the current validator, and builds the index that is         *)
(* missing.  MongoDB runs none of this in a transaction, a command may     *)
(* fail or be stopped anywhere, and two of them may run side by side, next *)
(* to a server of the previous version.  The versions are recorded last.   *)
(* A server checks the schema and its own privileges before it listens; on *)
(* a signal it stops, and a deadline ends it when the driver never answers.*)
(***************************************************************************)
EXTENDS Naturals, FiniteSets

CONSTANTS Migrators,   \* commands run side by side
          Last,        \* number of collections
          MaxFailures  \* commands and checks that fail or are stopped

ASSUME ServerStartAssumption == Last \in Nat \ {0} /\ MaxFailures \in Nat

\* The collections the schema defines, each with its validator and its indexes.
Collections == 1..Last
Versions == 1..3

VARIABLES schema,   \* what each collection is: validator, index and documents
          records,  \* the versions recorded as applied, 0 for an unknown one
          command,  \* the step of each migration, and what it read
          grant,    \* the role of the server's account
          process,  \* the server: its step, and the collection it checks
          failures

vars == <<schema, records, command, grant, process, failures>>

\* The validator of a collection is followed by its version only: absent (no
\* collection), none, known (of an earlier version), current, or unknown.
Validators == {"absent", "none", "known", "current", "unknown"}
\* Its index: missing, built, or another one of the same name.
Indexes == {"missing", "built", "other"}
\* Its documents: valid, repeated (the index cannot be built), or foreign.
Documents == {"valid", "repeated", "foreign"}

State(validator, index, documents) ==
  [validator |-> validator, index |-> index, documents |-> documents]
Found ==
  {State("absent", "missing", "valid"), State("known", "missing", "valid"),
   State("known", "built", "valid"), State("none", "built", "foreign"),
   State("none", "other", "valid"), State("unknown", "built", "valid"),
   State("current", "missing", "valid"), State("current", "built", "valid")}

\* What an account may do on the evidence (journal, receipts, audit), on the
\* recorded versions, on the terminal ranges and on the rest; readWrite is what
\* MongoDB would grant.  An upgrade does not broaden the first runtime role.
Holdings == {"evidence", "versions", "ranges", "rest"}
Grants ==
  LET read  == [c \in Holdings |-> {"find"}]
      write(p, S, action) == [c \in Holdings |-> IF c \in S THEN p[c] \cup {action} ELSE p[c]]
      added == write(read, Holdings \ {"versions"}, "insert")
      v1    == write(added, {"rest"}, "update")
  IN  [runtime_v1  |-> v1,
       runtime_v2  |-> write(v1, {"ranges"}, "update"),
       migrator_v1 |-> [c \in Holdings |-> {"find", "createCollection", "createIndex", "collMod"}
                                              \cup (IF c = "versions" THEN {"insert"} ELSE {})],
       readWrite   |-> [c \in Holdings |-> {"find", "insert", "update", "remove"}]]

Idle == [step |-> "idle", at |-> 1, saw |-> "nothing"]
Down == [step |-> "down", at |-> 1]

Init ==
  /\ schema \in [Collections -> Found]
  /\ records \in {{}, {1, 2}, Versions, {0, 1}}
  /\ command = [m \in Migrators |-> Idle]
  /\ grant \in DOMAIN Grants
  /\ process = Down
  /\ failures = 0

Fails == failures < MaxFailures /\ failures' = failures + 1

-----------------------------------------------------------------------------
(* What inspect and verifySchema accept of a collection.                   *)
Compatible(c) ==
  \/ schema[c].validator = "absent"
  \/ /\ schema[c].validator # "unknown"
     /\ schema[c].index # "other"
     /\ schema[c].documents # "foreign"

\* mistake: the indexes are not verified
ValidatorOnly(c) == schema[c].validator = "current"
InPlace(c) == schema[c].validator = "current" /\ schema[c].index = "built"

Complete ==
  /\ \A c \in Collections : schema[c].validator = "current" /\ schema[c].index = "built"
  /\ records = Versions

-----------------------------------------------------------------------------
(* A migration.  Each look at the database and each change is a step.      *)
Step(m, step, at) == command' = [command EXCEPT ![m].step = step, ![m].at = at]
EndCommand(m) == command' = [command EXCEPT ![m] = Idle]
At(m) == command[m].at

Migrate(m) ==
  /\ command[m].step = "idle" /\ ~Complete
  /\ Step(m, "inspect", 1)
  /\ UNCHANGED <<schema, records, grant, process, failures>>

\* mistake: each collection is inspected just before it is changed
AfterOne(at) == "look"
AfterInspect(at) == IF at < Last THEN "inspect" ELSE "records"

Inspect(m) ==
  /\ command[m].step = "inspect"
  /\ IF Compatible(At(m))
     THEN LET next == AfterInspect(At(m))
          IN  Step(m, next, IF next = "inspect" THEN At(m) + 1 ELSE 1)
     ELSE EndCommand(m)
  /\ UNCHANGED <<schema, records, grant, process, failures>>

InspectRecords(m) ==
  /\ command[m].step = "records"
  /\ IF records \subseteq Versions THEN Step(m, "look", 1) ELSE EndCommand(m)
  /\ UNCHANGED <<schema, records, grant, process, failures>>

LookAtCollection(m) ==
  /\ command[m].step = "look"
  /\ command' = [command EXCEPT ![m].step = "change", ![m].saw = schema[At(m)].validator]
  /\ UNCHANGED <<schema, records, grant, process, failures>>

\* createCollection of a collection created meanwhile may be refused.
ChangeCollection(m) ==
  /\ command[m].step = "change"
  /\ \/ /\ schema' = [schema EXCEPT ![At(m)].validator = "current"]
        /\ Step(m, "index", At(m))
     \/ /\ command[m].saw = "absent" /\ schema[At(m)].validator # "absent"
        /\ EndCommand(m) /\ UNCHANGED schema
  /\ UNCHANGED <<records, grant, process, failures>>

NextCollection(m) ==
  IF At(m) < Last THEN Step(m, "look", At(m) + 1) ELSE Step(m, "version", 1)

\* An index that cannot be built ends the migration.
NotBuilt(m) == EndCommand(m)

BuildIndex(m) ==
  /\ command[m].step = "index"
  /\ LET c == At(m)
     IN  IF schema[c].index = "missing" /\ schema[c].documents = "repeated"
         THEN NotBuilt(m) /\ UNCHANGED schema
         ELSE NextCollection(m) /\ schema' = [schema EXCEPT ![c].index = "built"]
  /\ UNCHANGED <<records, grant, process, failures>>

AfterVersion(m) ==
  IF At(m) < 3 THEN Step(m, "version", At(m) + 1) ELSE Step(m, "verify", 1)

\* mistake: a version is inserted whether it is recorded or not
Always(version) == TRUE
Unrecorded(version) == version \notin records

LookAtVersion(m) ==
  /\ command[m].step = "version"
  /\ IF Unrecorded(At(m)) THEN Step(m, "insert", At(m)) ELSE AfterVersion(m)
  /\ UNCHANGED <<schema, records, grant, process, failures>>

\* The unique index refuses a version recorded meanwhile.
InsertVersion(m) ==
  /\ command[m].step = "insert"
  /\ IF At(m) \in records THEN EndCommand(m) ELSE AfterVersion(m)
  /\ records' = records \cup {At(m)}
  /\ UNCHANGED <<schema, grant, process, failures>>

VerifyMigration(m) ==
  /\ command[m].step = "verify"
  /\ IF InPlace(At(m)) /\ At(m) < Last THEN Step(m, "verify", At(m) + 1) ELSE EndCommand(m)
  /\ UNCHANGED <<schema, records, grant, process, failures>>

\* A command fails or is stopped; what it did stays.
CommandFails(m) ==
  /\ command[m].step # "idle" /\ Fails
  /\ EndCommand(m)
  /\ UNCHANGED <<schema, records, grant, process>>

\* A server of the previous version goes on writing what no index refuses.
OlderServerWrites ==
  /\ \E c \in Collections :
       /\ schema[c].validator = "known" /\ schema[c].index = "missing"
       /\ schema[c].documents = "valid" /\ failures < MaxFailures
       /\ schema' = [schema EXCEPT ![c].documents = "repeated"]
  /\ failures' = failures + 1
  /\ UNCHANGED <<records, command, grant, process>>

-----------------------------------------------------------------------------
(* The server.                                                             *)
Server(step) == process' = [process EXCEPT !.step = step]

Start ==
  /\ process = Down
  /\ Server("check")
  /\ UNCHANGED <<schema, records, command, grant, failures>>

CheckCollection ==
  /\ process.step = "check"
  /\ process' = IF ~InPlace(process.at) THEN [process EXCEPT !.step = "close"]
                ELSE IF process.at < Last THEN [process EXCEPT !.at = @ + 1]
                ELSE [step |-> "privileges", at |-> 1]
  /\ UNCHANGED <<schema, records, command, grant, failures>>

\* Every effective privilege is looked at, inherited ones included: the account
\* must be able to bind a terminal range, and do no more than read, add, and
\* update what is not evidence.
VerifyRuntimePrivileges ==
  /\ "update" \in Grants[grant]["ranges"]
  /\ \A c \in Holdings : Grants[grant][c] \subseteq {"find", "insert", "update"}
  /\ \A c \in {"evidence", "versions"} : "update" \notin Grants[grant][c]

CheckPrivileges ==
  /\ process.step = "privileges"
  /\ Server(IF records = Versions /\ VerifyRuntimePrivileges THEN "listen" ELSE "close")
  /\ UNCHANGED <<schema, records, command, grant, failures>>

CheckFails ==
  /\ process.step \in {"check", "privileges"} /\ Fails
  /\ Server("close")
  /\ UNCHANGED <<schema, records, command, grant>>

\* Before the server listens a signal ends the process at once.
Signal ==
  /\ process.step \in {"check", "privileges", "listen", "close"}
  /\ process' = IF process.step = "listen" THEN [process EXCEPT !.step = "stop"] ELSE Down
  /\ UNCHANGED <<schema, records, command, grant, failures>>

\* The requests are answered, or their connections cut after a while; whether
\* that went well or not, the database is closed next.
CloseApp ==
  /\ process.step = "stop"
  /\ Server("disconnect")
  /\ UNCHANGED <<schema, records, command, grant, failures>>

\* The driver closes; it may never answer.  After a start that failed nothing
\* more is done, whether it does or not: the process ends when it can.
CloseDatabase ==
  /\ process.step \in {"disconnect", "close"}
  /\ process' = Down
  /\ UNCHANGED <<schema, records, command, grant, failures>>

\* The requests or the driver could not be closed: stop() rejects, which clears
\* the deadline and only sets the exit code.
StopRejected ==
  /\ process.step = "disconnect"
  /\ Server("rejected")
  /\ UNCHANGED <<schema, records, command, grant, failures>>

\* From then on signals are ignored, as one was already received: the process
\* ends when nothing the failed closing left open keeps it alive, if ever.
Exit ==
  /\ process.step = "rejected"
  /\ process' = Down
  /\ UNCHANGED <<schema, records, command, grant, failures>>

\* mistake: the deadline is given up once the requests are answered
UntilClosed == process.step = "stop"
\* The deadline runs until stop() settles, one way or the other.
Armed == process.step \in {"stop", "disconnect"}

Deadline ==
  /\ Armed
  /\ process' = Down
  /\ UNCHANGED <<schema, records, command, grant, failures>>

Migration(m) ==
  \/ Inspect(m) \/ InspectRecords(m) \/ LookAtCollection(m) \/ ChangeCollection(m)
  \/ BuildIndex(m) \/ LookAtVersion(m) \/ InsertVersion(m) \/ VerifyMigration(m)

Next ==
  \/ \E m \in Migrators : Migrate(m) \/ Migration(m) \/ CommandFails(m)
  \/ OlderServerWrites
  \/ Start \/ CheckCollection \/ CheckPrivileges \/ CheckFails
  \/ Signal \/ CloseApp \/ CloseDatabase \/ StopRejected \/ Exit \/ Deadline

\* The operator runs the command until the schema is complete; the deadline of
\* a stop expires while it is armed.  Nothing is assumed of the driver, nor of
\* what it leaves open.
Fairness ==
  /\ \A m \in Migrators : WF_vars(Migrate(m)) /\ WF_vars(Migration(m))
  /\ WF_vars(Deadline)

Spec == Init /\ [][Next]_vars /\ Fairness
-----------------------------------------------------------------------------
\* A server only listens on a complete schema, with an account that cannot
\* rewrite the evidence and lacks nothing authentication writes, whatever
\* namespace was found, however often migrations failed, and while others run
\* (server/README.md: an empty or incompatible database is refused at the start).
ServedIsComplete ==
  process.step = "listen" => Complete /\ grant = "runtime_v2"

\* A namespace that holds something unknown is refused before anything is
\* changed, wherever it is (migrations.ts: validate the entire namespace before
\* any DDL; never silently convert historical or foreign documents).
RefusedUntouched ==
  [][\A c \in Collections :
       schema'[c].validator # schema[c].validator \/ schema'[c].index # schema[c].index =>
         (\A d \in Collections : Compatible(d)) /\ records \subseteq Versions]_vars

\* A migration of a namespace it accepts ends complete, however often it was
\* stopped, unless documents written meanwhile refuse an index.
Acceptable ==
  /\ records \subseteq Versions
  /\ \A c \in Collections : Compatible(c) /\ schema[c].documents # "repeated"
MigrationEnds == <>(Complete \/ ~Acceptable)

\* A stop never hangs: whatever the requests and the driver never answer, the
\* server is down in the end, unless one of them answered that it could not be
\* closed (index.ts: the deadline also covers a stuck driver close).
StopEnds == process.step = "stop" ~> process = Down \/ process.step = "rejected"
=============================================================================
