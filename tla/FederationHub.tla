--------------------------- MODULE FederationHub ---------------------------
(***************************************************************************)
(* fedctl attaching and detaching federated sources on the ClickHouse hub. *)
(*                                                                         *)
(* A source is up to two objects of the hub's catalogue: the database      *)
(* fed_<name> and, for the types that have credentials, the named          *)
(* collection fed_<name>_creds.  The hub has no transactions over DDL, so  *)
(* `source add`, `source remove` and `apply` are sequences of statements   *)
(* and everything can happen between two of them: another invocation's     *)
(* statements, a refusal, an answer that never arrives, the death of the   *)
(* process (the Superset extension kills a fedctl that takes too long).    *)
(***************************************************************************)
EXTENDS Naturals, Sequences, FiniteSets

CONSTANTS
  Names,        \* source names validate.SourceName accepts
  Types,        \* the source types in use
  Targets,      \* what a source points at: a host, or the path of a SQLite file
  Secrets,      \* passwords
  Procs,        \* fedctl processes that may run at the same time
  Operations,   \* the subcommands that are run
  Requests,     \* the sources that `source add` is asked for
  Files,        \* what config/sources.yaml may hold when `apply` reads it
  Faults,       \* <<phase, kind>> of what may go wrong
  MaxFaults,    \* bound on the different things that go wrong in a behaviour
  None          \* no object, no value

SourceTypes == {"postgres", "mysql", "sqlite"}
Subcommands == {"add", "remove", "apply"}
Phases      == {"query", "attach", "rollback", "detach", "process"}
Kinds       == {"refused", "unanswered", "killed"}

\* sources.Type.HasCredentials, and doRemoveSource's engine # "SQLite".
HasCollection(t) == t # "sqlite"

\* What is asked of attachSource: a SQLite source has no password.
Sources ==
  { s \in [name: Names, type: Types, target: Targets, secret: Secrets \cup {None}] :
      s.secret # None <=> HasCollection(s.type) }

\* What a named collection holds.
Logins == [target: Targets, secret: Secrets]

\* A database: its engine, the host in its COMMENT (or its SQLite path), and
\* the contents of the collection it was created over.
Databases == [type: Types, target: Targets, login: Logins \cup {None}]

ASSUME TypesAssumption      == Types \subseteq SourceTypes
ASSUME OperationsAssumption == Operations \subseteq Subcommands
ASSUME FaultsAssumption     == Faults \subseteq Phases \X Kinds
ASSUME BoundAssumption      == MaxFaults \in Nat
ASSUME NoneAssumption ==
  None \notin Types \cup Targets \cup Secrets \cup Logins \cup Databases \cup Sources
              \cup [type: Types, target: Targets]
ASSUME RequestsAssumption == Requests \subseteq Sources
\* config.LoadSourcesFile refuses a file with the same name twice.
ASSUME FilesAssumption ==
  /\ Files \subseteq Seq(Sources)
  /\ \A f \in Files : \A i, j \in DOMAIN f : f[i].name = f[j].name => i = j

VARIABLES
  database,     \* the hub's databases, by source name
  collection,   \* the hub's named collections, by source name
  pc,           \* where each process is
  op,           \* the subcommand it runs, or last ran
  src,          \* the source it works on, or last worked on
  step,         \* its position in the plan it executes
  file,         \* the sources file it applies
  line,         \* its position in that file
  report,       \* apply's result for each source
  reply,        \* what its last invocation returned
  faults        \* history: what has gone wrong so far, in which subcommand

hub   == <<database, collection>>
task  == <<op, file>>
vars  == <<database, collection, pc, op, src, step, file, line, report, reply, faults>>
----------------------------------------------------------------------------
(***************************************************************************)
(* Statements and plans (internal/ddl).                                    *)
(***************************************************************************)
Step(do, undo) == [do |-> do, undo |-> undo]

AttachPlan(t) ==
  IF HasCollection(t)
  THEN << Step("create collection", "drop collection"),
          Step("create database",   "drop database") >>
  ELSE << Step("create database",   "drop database") >>

\* Mutant: the collection goes before the database that uses it.
DetachPlan_CollectionFirst(t) ==
  IF HasCollection(t) THEN << "drop collection", "drop database" >>
                      ELSE << "drop database" >>

\* Mutant: the collection is forgotten.
DetachPlan_DatabaseOnly(t) == << "drop database" >>

DetachPlan(t) ==
  IF HasCollection(t) THEN << "drop database", "drop collection" >>
                      ELSE << "drop database" >>

\* CREATE NAMED COLLECTION IF NOT EXISTS fed_<name>_creds AS host = ?, ..., password = ?
CreateCollection(s) ==
  /\ collection' = IF collection[s.name] = None
                   THEN [collection EXCEPT ![s.name] = [target |-> s.target, secret |-> s.secret]]
                   ELSE collection
  /\ UNCHANGED database

\* CREATE DATABASE IF NOT EXISTS fed_<name> ENGINE = <type>(fed_<name>_creds) COMMENT 'host=...'
CreateDatabase(s) ==
  /\ database' = IF database[s.name] = None
                 THEN [database EXCEPT ![s.name] =
                         [type |-> s.type, target |-> s.target,
                          login |-> IF HasCollection(s.type) THEN collection[s.name] ELSE None]]
                 ELSE database
  /\ UNCHANGED collection

DropDatabase(s) ==
  /\ database' = [database EXCEPT ![s.name] = None]
  /\ UNCHANGED collection

DropCollection(s) ==
  /\ collection' = [collection EXCEPT ![s.name] = None]
  /\ UNCHANGED database

Execute(statement, s) ==
  \/ statement = "create collection" /\ CreateCollection(s)
  \/ statement = "create database"   /\ CreateDatabase(s)
  \/ statement = "drop database"     /\ DropDatabase(s)
  \/ statement = "drop collection"   /\ DropCollection(s)

\* The hub itself refuses a database over a collection that does not exist.
Accepts(statement, s) ==
  statement = "create database" /\ HasCollection(s.type) /\ database[s.name] = None
    => collection[s.name] # None

\* Something goes wrong; it may go wrong again.
Fault(subcommand, phase, kind) ==
  /\ <<phase, kind>> \in Faults
  /\ faults' = faults \cup {[op |-> subcommand, phase |-> phase, kind |-> kind]}
  /\ Cardinality(faults') <= MaxFaults

\* The three ways ExecContext can end: executed and acknowledged, refused, or
\* executed although p sees an error.
Acknowledged(statement, s) ==
  Accepts(statement, s) /\ Execute(statement, s) /\ UNCHANGED faults

Refused(p, phase, statement, s) ==
  /\ UNCHANGED hub
  /\ \/ ~Accepts(statement, s) /\ UNCHANGED faults
     \/ Fault(op[p], phase, "refused")

Unanswered(p, phase, statement, s) ==
  /\ Fault(op[p], phase, "unanswered")
  /\ Accepts(statement, s) /\ Execute(statement, s)

Failed(p, phase, statement, s) ==
  Refused(p, phase, statement, s) \/ Unanswered(p, phase, statement, s)

\* A read of the hub's catalogue that fails.
QueryFails(subcommand) == Fault(subcommand, "query", "refused")
----------------------------------------------------------------------------
Return(p, code) ==
  /\ pc' = [pc EXCEPT ![p] = "idle"]
  /\ reply' = [reply EXCEPT ![p] = code]

\* Mutant: apply stops at the first source that fails.
AttachReturns_StopsApply(p, code) ==
  \/ /\ op[p] = "add"
     /\ Return(p, code)
     /\ UNCHANGED report
  \/ /\ op[p] = "apply"
     /\ IF code = "ok" THEN pc' = [pc EXCEPT ![p] = "next"] /\ UNCHANGED reply
                       ELSE Return(p, "FAILED")
     /\ report' = [report EXCEPT ![p][src[p].name] = code]

\* attachSource returns to doAddSource, or to apply's loop, which notes the
\* result and goes on to the next source whatever it was.
AttachReturns(p, code) ==
  \/ /\ op[p] = "add"
     /\ Return(p, code)
     /\ UNCHANGED report
  \/ /\ op[p] = "apply"
     /\ pc' = [pc EXCEPT ![p] = "next"]
     /\ report' = [report EXCEPT ![p][src[p].name] = code]
     /\ UNCHANGED reply

NoReport == [n \in Names |-> "none"]

\* A new process: it opens the hub, or reports that it cannot.
Start(p, subcommand, label) ==
  /\ pc[p] = "idle" /\ subcommand \in Operations
  /\ op' = [op EXCEPT ![p] = subcommand]
  /\ step' = [step EXCEPT ![p] = 1]
  /\ line' = [line EXCEPT ![p] = 1]
  /\ report' = [report EXCEPT ![p] = NoReport]
  /\ \/ /\ pc' = [pc EXCEPT ![p] = label]
        /\ reply' = [reply EXCEPT ![p] = "none"]
        /\ UNCHANGED faults
     \/ QueryFails(subcommand) /\ Return(p, "HUB_UNAVAILABLE")
  /\ UNCHANGED hub

StartAdd(p, s) ==
  /\ Start(p, "add", "exists")
  /\ src' = [src EXCEPT ![p] = s]
  /\ file' = [file EXCEPT ![p] = <<>>]

\* Mutant: the source is dropped without asking the hub what it is.
StartRemove_NoLookUp(p, n) ==
  /\ Start(p, "remove", "detach")
  /\ src' = [src EXCEPT ![p] = [name |-> n, type |-> None, target |-> None, secret |-> None]]
  /\ file' = [file EXCEPT ![p] = <<>>]

StartRemove(p, n) ==
  /\ Start(p, "remove", "engine")
  /\ src' = [src EXCEPT ![p] = [name |-> n, type |-> None, target |-> None, secret |-> None]]
  /\ file' = [file EXCEPT ![p] = <<>>]

StartApply(p, f) ==
  /\ Start(p, "apply", "next")
  /\ src' = [src EXCEPT ![p] = None]
  /\ file' = [file EXCEPT ![p] = f]
----------------------------------------------------------------------------
(***************************************************************************)
(* source add                                                              *)
(***************************************************************************)
\* Mutant: add relies on IF NOT EXISTS, as apply does.
CheckExists_Passes(p) ==
  /\ pc[p] = "exists"
  /\ pc' = [pc EXCEPT ![p] = "validate"]
  /\ UNCHANGED <<hub, task, src, step, line, report, reply, faults>>

CheckExists(p) ==
  /\ pc[p] = "exists"
  /\ \/ /\ database[src[p].name] = None
        /\ pc' = [pc EXCEPT ![p] = "validate"]
        /\ UNCHANGED <<reply, faults>>
     \/ /\ database[src[p].name] # None
        /\ Return(p, "SOURCE_EXISTS")
        /\ UNCHANGED faults
     \/ QueryFails(op[p]) /\ Return(p, "INTERNAL_ERROR")
  /\ UNCHANGED <<hub, task, src, step, line, report>>

\* sources.Validate, validate.Host twice and buildAttachPlan: whether the
\* parameters pass depends on files and DNS, not on the hub.
Validate(p) ==
  /\ pc[p] = "validate"
  /\ \/ /\ pc' = [pc EXCEPT ![p] = "attach"]
        /\ step' = [step EXCEPT ![p] = 1]
        /\ UNCHANGED <<report, reply>>
     \/ /\ AttachReturns(p, "INVALID")
        /\ UNCHANGED step
  /\ UNCHANGED <<hub, task, src, line, faults>>

\* The steps rolled back when step i fails: plan.Steps[:i] in the code, which
\* counts from 0.  Mutant: the failed step is rolled back too.
LastCompleted_Inclusive(i) == i
LastCompleted(i) == i - 1

AttachStep(p) ==
  /\ pc[p] = "attach"
  /\ LET plan == AttachPlan(src[p].type) IN
     \/ /\ step[p] <= Len(plan)
        /\ \/ /\ Acknowledged(plan[step[p]].do, src[p])
              /\ step' = [step EXCEPT ![p] = @ + 1]
              /\ UNCHANGED pc
           \/ /\ Failed(p, "attach", plan[step[p]].do, src[p])
              /\ step' = [step EXCEPT ![p] = LastCompleted(@)]
              /\ pc' = [pc EXCEPT ![p] = "rollback"]
        /\ UNCHANGED <<report, reply>>
     \/ /\ step[p] > Len(plan)
        /\ AttachReturns(p, "ok")
        /\ UNCHANGED <<hub, step, faults>>
  /\ UNCHANGED <<task, src, line>>

\* The loop of rollback.  Mutants: it leaves the first step alone, or stays where
\* it is.
Undone_AllButFirst(i) == i <= 1
Undone(i) == i = 0
PreviousStep_Same(i) == i
PreviousStep(i) == i - 1

\* Undoes the completed steps in reverse; a failure is only logged.
RollbackStep(p) ==
  /\ pc[p] = "rollback"
  /\ \/ /\ ~Undone(step[p])
        /\ LET undo == AttachPlan(src[p].type)[step[p]].undo IN
             Acknowledged(undo, src[p]) \/ Failed(p, "rollback", undo, src[p])
        /\ step' = [step EXCEPT ![p] = PreviousStep(@)]
        /\ UNCHANGED <<pc, report, reply>>
     \/ /\ Undone(step[p])
        /\ AttachReturns(p, "INTERNAL_ERROR")
        /\ UNCHANGED <<hub, step, faults>>
  /\ UNCHANGED <<task, src, line>>
----------------------------------------------------------------------------
(***************************************************************************)
(* source remove                                                           *)
(***************************************************************************)
\* What doRemoveSource looks up before it drops anything.  Mutant: no host.
AfterEngine_NoHost(t) == "detach"
AfterEngine(t) == IF HasCollection(t) THEN "host" ELSE "detach"

LookUpEngine(p) ==
  /\ pc[p] = "engine"
  /\ LET db == database[src[p].name] IN
     \/ /\ db # None
        /\ src' = [src EXCEPT ![p].type = db.type]
        /\ pc' = [pc EXCEPT ![p] = AfterEngine(db.type)]
        /\ UNCHANGED <<reply, faults>>
     \/ /\ db = None
        /\ Return(p, "SOURCE_NOT_FOUND")
        /\ UNCHANGED <<src, faults>>
     \/ QueryFails(op[p]) /\ Return(p, "INTERNAL_ERROR") /\ UNCHANGED src
  /\ UNCHANGED <<hub, task, step, line, report>>

\* SourceHost: "" when the database is gone, has no host or cannot be read.
LookUpHost(p) ==
  /\ pc[p] = "host"
  /\ LET db == database[src[p].name] IN
     \/ /\ src' = [src EXCEPT ![p].target =
                     IF db # None /\ HasCollection(db.type) THEN db.target ELSE None]
        /\ UNCHANGED faults
     \/ QueryFails(op[p]) /\ UNCHANGED src
  /\ pc' = [pc EXCEPT ![p] = "detach"]
  /\ UNCHANGED <<hub, task, step, line, report, reply>>

\* There is no rollback: the first failure ends the removal.
DetachStep(p) ==
  /\ pc[p] = "detach"
  /\ LET plan == DetachPlan(src[p].type) IN
     \/ /\ step[p] <= Len(plan)
        /\ \/ /\ Acknowledged(plan[step[p]], src[p])
              /\ step' = [step EXCEPT ![p] = @ + 1]
              /\ UNCHANGED <<pc, reply>>
           \/ /\ Failed(p, "detach", plan[step[p]], src[p])
              /\ Return(p, "INTERNAL_ERROR")
              /\ UNCHANGED step
     \/ /\ step[p] > Len(plan)
        /\ Return(p, "ok")
        /\ UNCHANGED <<hub, step, faults>>
  /\ UNCHANGED <<task, src, line, report>>
----------------------------------------------------------------------------
(***************************************************************************)
(* apply                                                                   *)
(***************************************************************************)
\* ~`failed` in apply's loop.
AllOk(p) == \A n \in Names : report[p][n] \in {"ok", "none"}

NextSource(p) ==
  /\ pc[p] = "next"
  /\ \/ /\ line[p] > Len(file[p])
        /\ Return(p, IF AllOk(p) THEN "ok" ELSE "FAILED")
        /\ UNCHANGED <<src, line, report>>
     \/ /\ line[p] <= Len(file[p])
        /\ line' = [line EXCEPT ![p] = @ + 1]
        /\ src' = [src EXCEPT ![p] = file[p][line[p]]]
        /\ \/ /\ pc' = [pc EXCEPT ![p] = "validate"]
              /\ UNCHANGED report
           \* ResolveParams: the variable password_env names is not set.
           \/ /\ report' = [report EXCEPT ![p][file[p][line[p]].name] = "INVALID"]
              /\ UNCHANGED pc
        /\ UNCHANGED reply
  /\ UNCHANGED <<hub, task, step, faults>>
----------------------------------------------------------------------------
\* The process dies: an interrupt, or the shim's timeout.
Kill(p) ==
  /\ pc[p] # "idle"
  /\ Fault(op[p], "process", "killed")
  /\ Return(p, "killed")
  /\ UNCHANGED <<hub, task, src, step, line, report>>

Proceed(p) ==
  \/ CheckExists(p) \/ Validate(p) \/ AttachStep(p) \/ RollbackStep(p)
  \/ LookUpEngine(p) \/ LookUpHost(p) \/ DetachStep(p)
  \/ NextSource(p)

Init ==
  /\ database = [n \in Names |-> None]
  /\ collection = [n \in Names |-> None]
  /\ pc = [p \in Procs |-> "idle"]
  /\ op = [p \in Procs |-> "none"]
  /\ src = [p \in Procs |-> None]
  /\ step = [p \in Procs |-> 1]
  /\ file = [p \in Procs |-> <<>>]
  /\ line = [p \in Procs |-> 1]
  /\ report = [p \in Procs |-> NoReport]
  /\ reply = [p \in Procs |-> "none"]
  /\ faults = {}

Next ==
  \E p \in Procs :
    \/ \E s \in Requests : StartAdd(p, s)
    \/ \E n \in Names : StartRemove(p, n)
    \/ \E f \in Files : StartApply(p, f)
    \/ Proceed(p)
    \/ Kill(p)

Spec == Init /\ [][Next]_vars

\* A process that runs takes its next step; nothing makes anyone start one.
FairSpec == Spec /\ \A p \in Procs : WF_vars(Proceed(p))
----------------------------------------------------------------------------
(***************************************************************************)
(* Properties                                                              *)
(***************************************************************************)
Labels  == {"idle", "exists", "validate", "attach", "rollback",
            "engine", "host", "detach", "next"}
Results == {"none", "ok", "INVALID", "INTERNAL_ERROR"}
Replies == Results \cup {"SOURCE_EXISTS", "SOURCE_NOT_FOUND", "HUB_UNAVAILABLE",
                         "FAILED", "killed"}

\* What a process can be working on; a remove learns the type on the way.
Subjects == [name: Names, type: Types \cup {None}, target: Targets \cup {None},
             secret: Secrets \cup {None}]

Failures == [op: Subcommands, phase: Phases, kind: Kinds]

Shapes ==
  /\ database \in [Names -> Databases \cup {None}]
  /\ collection \in [Names -> Logins \cup {None}]
  /\ pc \in [Procs -> Labels]
  /\ op \in [Procs -> Operations \cup {"none"}]
  /\ src \in [Procs -> Subjects \cup {None}]
  /\ step \in [Procs -> 0..3]
  /\ file \in [Procs -> Files \cup {<<>>}]
  /\ line \in [Procs -> Nat \ {0}]
  /\ report \in [Procs -> [Names -> Results]]
  /\ reply \in [Procs -> Replies]
  /\ faults \subseteq Failures

SubjectOK(p) ==
  /\ pc[p] \in {"exists", "validate", "attach", "rollback"} => src[p] \in Sources
  /\ pc[p] \in {"engine", "host", "detach"} => src[p] \in Subjects
  /\ pc[p] \in {"host", "detach"} => src[p].type \in Types

\* The hub and the processes' local state have their shapes; a process that
\* executes a plan knows the type the plan is for, and one that attaches has a
\* full declaration (attachSource has validated it).
TypeOK == Shapes /\ \A p \in Procs : SubjectOK(p)

\* Each label belongs to its subcommand, and the position in a plan is one the
\* plan has: a rollback undoes less than the whole plan.
ControlOK(p) ==
  /\ pc[p] = "exists" => op[p] = "add"
  /\ pc[p] \in {"validate", "attach", "rollback"} => op[p] \in {"add", "apply"}
  /\ pc[p] \in {"engine", "host", "detach"} => op[p] = "remove" /\ step[p] >= 1
  /\ pc[p] \in {"engine", "host"} => step[p] = 1
  /\ pc[p] = "next" => op[p] = "apply"
  /\ pc[p] = "attach" => step[p] \in 1 .. Len(AttachPlan(src[p].type)) + 1
  /\ pc[p] = "rollback" => step[p] \in 0 .. Len(AttachPlan(src[p].type)) - 1

\* One operator, who runs one fedctl after the other.
OneAtATime == \A p, q \in Procs : p = q

\* The only CREATEs that failed so far are an add's, and the hub did not execute
\* them.
OnlyAddsWereRefused ==
  \A f \in faults : f.phase = "attach" => f.op = "add" /\ f.kind = "refused"

\* An add that still has statements to run, and an attach that has some to undo,
\* have no database yet, and a detach past its first statement has none any more.
Staged(p) ==
  /\ pc[p] = "validate" /\ op[p] = "add" => database[src[p].name] = None
  /\ pc[p] = "attach" /\ op[p] = "add" /\ step[p] <= Len(AttachPlan(src[p].type))
       => database[src[p].name] = None
  /\ pc[p] = "rollback" => database[src[p].name] = None
  /\ pc[p] = "detach" /\ step[p] # 1 => database[src[p].name] = None

Quiet == \A p \in Procs : pc[p] = "idle"

Credentialed(n) == database[n] # None /\ HasCollection(database[n].type)
Backed == \A n \in Names : Credentialed(n) => collection[n] # None

\* A database of a type with credentials has its named collection on the hub:
\* attach creates the collection first and drops it last, detach drops the database
\* first, and a process that dies anywhere in between keeps to it.  The one way to
\* lose it is a failed CREATE of an apply, or one the hub executed all the same:
\* rollback then drops a collection that a live database uses.
CredentialsBehindEveryDatabase == OnlyAddsWereRefused => Backed

\* Nothing went wrong but queries and an add's own CREATEs.
OnlyQueriesAndAddsFailed ==
  \A f \in faults : f.phase = "query" \/ (f.op = "add" /\ f.phase = "attach" /\ f.kind = "refused")

\* No file declares a source with credentials under a name that an add can have
\* given to a SQLite file.
NoRetyping ==
  \A f \in Files : \A i \in DOMAIN f : HasCollection(f[i].type) =>
    \A s \in Requests \cup UNION {{g[j] : j \in DOMAIN g} : g \in Files} :
      s.name = f[i].name => HasCollection(s.type)

\* When no fedctl runs, the hub holds a collection exactly for the databases that
\* need one: "a failure partway through never leaves an orphaned named collection
\* or database" (hub.Attach).
NothingOrphaned ==
  NoRetyping /\ OnlyQueriesAndAddsFailed /\ Quiet =>
    \A n \in Names : collection[n] # None <=> Credentialed(n)

\* An add that reports success has attached what it was asked to attach, over the
\* credentials it was given and not over some collection it found.
AddToldTheTruth ==
  \A p \in Procs :
    NoRetyping /\ OnlyQueriesAndAddsFailed /\ op[p] = "add" /\ pc[p] = "idle" /\ reply[p] = "ok" =>
      LET s == src[p] IN
        database[s.name] =
          [type |-> s.type, target |-> s.target,
           login |-> IF HasCollection(s.type) THEN [target |-> s.target, secret |-> s.secret]
                                              ELSE None]

DropsOnlyByRemove ==
  \A n \in Names : database[n] # None /\ database'[n] # database[n] =>
    /\ database'[n] = None
    /\ \E p \in Procs : pc[p] = "detach" /\ op[p] = "remove" /\ src[p].name = n

\* A database changes only by disappearing, and only to a remove that has found
\* it: no failed attach takes a live source's database away and none redefines it.
OnlyRemoveDropsADatabase == [][DropsOnlyByRemove]_vars

\* The type and host a remove reports, which the extension's audit log records,
\* are those of the database it dropped; the host is missing only when the hub
\* could not be asked for it.
RemoveReportsWhatItDropped ==
  [][\A p \in Procs : \A n \in Names :
       pc[p] = "detach" /\ src[p].name = n /\ database[n] # None /\ database'[n] = None =>
         /\ src[p].type = database[n].type
         /\ Credentialed(n) =>
              \/ src[p].target = database[n].target
              \/ src[p].target = None /\ \E f \in faults : f.phase = "query"]_vars

\* One broken entry of the file does not stop the others: an apply that ran to its
\* end has a result for every source of its file.
ApplyAttemptsEverySource ==
  \A p \in Procs :
    op[p] = "apply" /\ pc[p] = "idle" /\ reply[p] \in {"ok", "FAILED"} =>
      \A i \in DOMAIN file[p] : report[p][file[p][i].name] # "none"

\* Every invocation comes to an end, through refusals, lost answers and rollbacks.
EveryInvocationReturns ==
  \A p \in Procs : pc[p] # "idle" ~> pc[p] = "idle"
----------------------------------------------------------------------------
(***************************************************************************)
(* What the documentation says of the same operations.                     *)
(***************************************************************************)
\* hub.Detach: a removal that failed partway "simply leaves the remaining objects
\* for the caller to retry", so a source the retry does not find has none left.
RetriedRemoveFinishes ==
  \A p \in Procs :
    op[p] = "remove" /\ pc[p] = "idle" /\ reply[p] = "SOURCE_NOT_FOUND" =>
      collection[src[p].name] = None

\* An apply is "idempotent: safe to re-run": whatever its statements meet, the
\* sources that were attached stay usable.
ApplyIsSafeToRerun == Quiet => Backed
----------------------------------------------------------------------------
(***************************************************************************)
(* The catalogue as the registry of SourceRegistry: a source is its        *)
(* database.  A call has taken effect once its plan has put the database   *)
(* there, or has taken it away.                                            *)
(***************************************************************************)
EntryOf(s) == [type |-> s.type, target |-> s.target]

CallState(p) ==
  IF pc[p] = "idle" THEN "idle"
  ELSE IF \/ op[p] = "add" /\ pc[p] \in {"attach", "rollback"} /\ database[src[p].name] # None
          \/ op[p] = "remove" /\ pc[p] = "detach" /\ database[src[p].name] = None
       THEN "done" ELSE "pending"

Batch(f) == {<<f[i].name, EntryOf(f[i])>> : i \in DOMAIN f}

Wanted(p) ==
  CASE op[p] = "add"   -> Batch(<<src[p]>>)
    [] op[p] = "apply" -> Batch(file[p])
    [] OTHER           -> {}

CallOf(p) ==
  [state |-> CallState(p),
   op    |-> op[p],
   name  |-> IF op[p] = "remove" THEN src[p].name ELSE None,
   wants |-> Wanted(p),
   reply |-> IF reply[p] \in {"none", "ok", "SOURCE_EXISTS", "SOURCE_NOT_FOUND"}
             THEN reply[p] ELSE "error"]

Registry == INSTANCE SourceRegistry WITH
  Clients  <- Procs,
  Entries  <- [type: Types, target: Targets],
  Batches  <- {Batch(f) : f \in Files},
  registry <- [n \in Names |-> IF database[n] = None THEN None ELSE EntryOf(database[n])],
  call     <- [p \in Procs |-> CallOf(p)]

\* Invocations that are run one at a time are the calls of SourceRegistry, whatever
\* statement fails and wherever the process dies: an add or a remove happens at one
\* instant or not at all, an apply brings its sources one by one, and none of them
\* reports a success it has not had.
ImplementsRegistry == Registry!Spec
=============================================================================
