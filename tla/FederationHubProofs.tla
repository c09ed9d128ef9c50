------------------------ MODULE FederationHubProofs ------------------------
(***************************************************************************)
(* Theorems about FederationHub.                                           *)
(***************************************************************************)
EXTENDS FederationHub, TLAPS

\* The types and the control state: inductive for any number of processes and
\* any faults.
Local(p) == SubjectOK(p) /\ ControlOK(p)

Inv == Shapes /\ \A p \in Procs : Local(p)

USE DEF hub, task

\* The plans of internal/ddl, by position: the collection, if there is one, comes
\* first and the database last; what a rollback may undo is the collection only.
LEMMA AttachLength ==
  ASSUME NEW t
  PROVE  Len(AttachPlan(t)) = IF HasCollection(t) THEN 2 ELSE 1
BY DEF AttachPlan, HasCollection, Step

LEMMA AttachDo ==
  ASSUME NEW t, NEW i \in 1 .. Len(AttachPlan(t))
  PROVE  \/ HasCollection(t) /\ i = 1 /\ AttachPlan(t)[i].do = "create collection"
         \/ i = Len(AttachPlan(t)) /\ AttachPlan(t)[i].do = "create database"
<1>1. CASE HasCollection(t)
  <2>1. Len(AttachPlan(t)) = 2
    BY <1>1, AttachLength
  <2>2. i = 1 \/ i = 2
    BY <2>1
  <2>3. AttachPlan(t)[1].do = "create collection" /\ AttachPlan(t)[2].do = "create database"
    BY <1>1 DEF AttachPlan, Step
  <2>4. QED BY <1>1, <2>1, <2>2, <2>3
<1>2. CASE ~HasCollection(t)
  <2>1. Len(AttachPlan(t)) = 1
    BY <1>2, AttachLength
  <2>2. i = 1
    BY <2>1
  <2>3. AttachPlan(t)[1].do = "create database"
    BY <1>2 DEF AttachPlan, Step
  <2>4. QED BY <2>1, <2>2, <2>3
<1>3. QED BY <1>1, <1>2

LEMMA AttachUndo ==
  ASSUME NEW t, NEW i \in 0 .. Len(AttachPlan(t)) - 1, i # 0
  PROVE  HasCollection(t) /\ i = 1 /\ AttachPlan(t)[i].undo = "drop collection"
<1>1. CASE HasCollection(t)
  <2>1. Len(AttachPlan(t)) = 2
    BY <1>1, AttachLength
  <2>2. i = 1
    BY <2>1
  <2>3. AttachPlan(t)[1].undo = "drop collection"
    BY <1>1 DEF AttachPlan, Step
  <2>4. QED BY <1>1, <2>2, <2>3
<1>2. CASE ~HasCollection(t)
  <2>1. Len(AttachPlan(t)) = 1
    BY <1>2, AttachLength
  <2>2. QED BY <2>1
<1>3. QED BY <1>1, <1>2

LEMMA DetachLength ==
  ASSUME NEW t
  PROVE  Len(DetachPlan(t)) = IF HasCollection(t) THEN 2 ELSE 1
BY DEF DetachPlan

LEMMA DetachDo ==
  ASSUME NEW t, NEW i \in 1 .. 3, i <= Len(DetachPlan(t))
  PROVE  \/ i = 1 /\ DetachPlan(t)[i] = "drop database"
         \/ i = 2 /\ DetachPlan(t)[i] = "drop collection"
<1>1. CASE HasCollection(t)
  <2>0. Len(DetachPlan(t)) = 2
    BY <1>1, DetachLength
  <2>1. i = 1 \/ i = 2
    BY <2>0
  <2>2. DetachPlan(t)[1] = "drop database" /\ DetachPlan(t)[2] = "drop collection"
    BY <1>1 DEF DetachPlan
  <2>3. QED BY <2>1, <2>2
<1>2. CASE ~HasCollection(t)
  <2>0. Len(DetachPlan(t)) = 1
    BY <1>2, DetachLength
  <2>1. i = 1
    BY <2>0
  <2>2. DetachPlan(t)[1] = "drop database"
    BY <1>2 DEF DetachPlan
  <2>3. QED BY <2>1, <2>2
<1>3. QED BY <1>1, <1>2

\* What a statement does to the catalogue stays within the catalogue's type.
LEMMA ExecuteType ==
  ASSUME database \in [Names -> Databases \cup {None}],
         collection \in [Names -> Logins \cup {None}],
         NEW s \in Subjects, NEW statement,
         statement \in {"create collection", "create database"} => s \in Sources,
         statement = "create collection" => HasCollection(s.type),
         Execute(statement, s)
  PROVE  /\ database' \in [Names -> Databases \cup {None}]
         /\ collection' \in [Names -> Logins \cup {None}]
<1>1. s.name \in Names
  BY DEF Subjects
<1>2. CASE statement = "create collection" /\ CreateCollection(s)
  <2>1. [target |-> s.target, secret |-> s.secret] \in Logins
    BY <1>2 DEF Sources, Logins
  <2>2. QED BY <1>1, <1>2, <2>1 DEF CreateCollection
<1>3. CASE statement = "create database" /\ CreateDatabase(s)
  <2> DEFINE login == IF HasCollection(s.type) THEN collection[s.name] ELSE None
  <2>1. [type |-> s.type, target |-> s.target, login |-> login] \in Databases
    BY <1>1, <1>3 DEF Sources, Databases
  <2>2. QED BY <1>1, <1>3, <2>1 DEF CreateDatabase
<1>4. CASE statement = "drop database" /\ DropDatabase(s)
  BY <1>1, <1>4 DEF DropDatabase
<1>5. CASE statement = "drop collection" /\ DropCollection(s)
  BY <1>1, <1>5 DEF DropCollection
<1>6. QED BY <1>2, <1>3, <1>4, <1>5 DEF Execute
----------------------------------------------------------------------------
LEMMA InitInv == Init => Inv
BY NoneAssumption DEF Init, Inv, Shapes, Local, SubjectOK, ControlOK, NoReport, Labels, Results, Replies

\* A step of p leaves the local state of every other process alone.
Elsewhere(p) ==
  \A q \in Procs \ {p} :
    pc'[q] = pc[q] /\ op'[q] = op[q] /\ src'[q] = src[q] /\ step'[q] = step[q]

LEMMA Frame ==
  ASSUME Inv, NEW p \in Procs, Shapes', Local(p)', Elsewhere(p)
  PROVE  Inv'
BY DEF Inv, Local, SubjectOK, ControlOK, Elsewhere

\* What goes wrong is noted in `faults`.
LEMMA FaultNoted ==
  ASSUME faults \subseteq Failures, NEW subcommand \in Subcommands, NEW phase \in Phases, NEW kind,
         Fault(subcommand, phase, kind)
  PROVE  faults' \subseteq Failures
<1>1. kind \in Kinds
  BY FaultsAssumption DEF Fault
<1>2. QED BY <1>1 DEF Fault, Failures

LEMMA QueryNoted ==
  ASSUME Inv, NEW subcommand \in Subcommands, QueryFails(subcommand)
  PROVE  faults' \subseteq Failures
BY FaultNoted DEF QueryFails, Phases, Inv, Shapes

LEMMA StartInv ==
  ASSUME Inv, NEW p \in Procs, NEW subcommand \in Subcommands,
         NEW label, NEW s,
         \/ subcommand = "add" /\ label = "exists" /\ s \in Sources
         \/ subcommand = "remove" /\ label = "engine" /\ s \in Subjects
         \/ subcommand = "apply" /\ label = "next" /\ s = None,
         NEW f \in Files \cup {<<>>},
         Start(p, subcommand, label),
         src' = [src EXCEPT ![p] = s], file' = [file EXCEPT ![p] = f]
  PROVE  Inv'
<1>0. s \in Subjects \cup {None}
  BY DEF Sources, Subjects
<1>1. Shapes'
  <2>1. pc' \in [Procs -> Labels]
    BY DEF Start, Return, Inv, Shapes, Labels
  <2>2. op' \in [Procs -> Operations \cup {"none"}] /\ file' \in [Procs -> Files \cup {<<>>}]
    BY DEF Start, Inv, Shapes
  <2>3. src' \in [Procs -> Subjects \cup {None}]
    BY <1>0 DEF Inv, Shapes
  <2>4. step' \in [Procs -> 0..3] /\ line' \in [Procs -> Nat \ {0}]
    BY DEF Start, Inv, Shapes
  <2>5. NoReport \in [Names -> Results]
    BY DEF NoReport, Results
  <2>6. report' \in [Procs -> [Names -> Results]]
    BY <2>5 DEF Start, Inv, Shapes
  <2>7. reply' \in [Procs -> Replies]
    BY DEF Start, Return, Inv, Shapes, Replies, Results
  <2>8. faults' \subseteq Failures /\ UNCHANGED <<database, collection>>
    BY QueryNoted DEF Start, Inv, Shapes
  <2>9. QED BY <2>1, <2>2, <2>3, <2>4, <2>6, <2>7, <2>8 DEF Inv, Shapes
<1>2. Local(p)'
  BY DEF Start, Return, Inv, Shapes, Local, SubjectOK, ControlOK
<1>3. Elsewhere(p)
  BY DEF Start, Return, Inv, Shapes, Elsewhere
<1>4. QED BY <1>1, <1>2, <1>3, Frame

LEMMA CheckExistsInv ==
  ASSUME Inv, NEW p \in Procs, CheckExists(p) PROVE Inv'
<1>1. Shapes'
  <2>1. faults' \subseteq Failures
    BY QueryNoted DEF CheckExists, Inv, Shapes, Local, ControlOK, Subcommands
  <2>2. pc' \in [Procs -> Labels]
    BY DEF CheckExists, Return, Inv, Shapes, Labels
  <2>3. reply' \in [Procs -> Replies]
    BY DEF CheckExists, Return, Inv, Shapes, Replies, Results
  <2>4. UNCHANGED <<database, collection, op, file, src, step, line, report>>
    BY DEF CheckExists
  <2>5. QED BY <2>1, <2>2, <2>3, <2>4 DEF Inv, Shapes
<1>2. Local(p)'
  BY DEF CheckExists, Return, Inv, Shapes, Local, SubjectOK, ControlOK
<1>3. Elsewhere(p)
  BY DEF CheckExists, Return, Inv, Shapes, Elsewhere
<1>4. QED BY <1>1, <1>2, <1>3, Frame

\* The result of attachSource reaches the caller or apply's report.
LEMMA AttachReturnsType ==
  ASSUME Inv, NEW p \in Procs, NEW code \in Results, AttachReturns(p, code)
  PROVE  report' \in [Procs -> [Names -> Results]] /\ reply' \in [Procs -> Replies]
<1>1. CASE op[p] = "add"
  BY <1>1 DEF AttachReturns, Return, Inv, Shapes, Replies
<1>2. CASE op[p] = "apply"
  <2>1. report' = [report EXCEPT ![p][src[p].name] = code] /\ reply' = reply
    BY <1>2 DEF AttachReturns
  <2>2. report \in [Procs -> [Names -> Results]] /\ reply \in [Procs -> Replies]
    BY DEF Inv, Shapes
  <2>3. [report[p] EXCEPT ![src[p].name] = code] \in [Names -> Results]
    BY <2>2
  <2>4. QED BY <2>1, <2>2, <2>3
<1>3. QED BY <1>1, <1>2 DEF AttachReturns

LEMMA ValidateInv ==
  ASSUME Inv, NEW p \in Procs, Validate(p) PROVE Inv'
<1>1. Shapes'
  <2>1. pc' \in [Procs -> Labels]
    BY DEF Validate, AttachReturns, Return, Inv, Shapes, Labels
  <2>2. report' \in [Procs -> [Names -> Results]] /\ reply' \in [Procs -> Replies]
    BY AttachReturnsType DEF Validate, Inv, Shapes, Results
  <2>5. step' \in [Procs -> 0..3]
    <3>1. step' = step \/ step' = [step EXCEPT ![p] = 1]
      BY DEF Validate
    <3>2. step \in [Procs -> 0..3]
      BY DEF Inv, Shapes
    <3>3. QED BY <3>1, <3>2
  <2>3. UNCHANGED <<database, collection, op, file, src, line, faults>>
    BY DEF Validate
  <2>4. QED BY <2>1, <2>2, <2>3, <2>5 DEF Inv, Shapes
<1>2. Local(p)'
  <2>1. pc[p] = "validate" /\ src[p] \in Sources /\ op[p] \in {"add", "apply"}
    BY DEF Validate, Inv, Local, SubjectOK, ControlOK
  <2>2. Len(AttachPlan(src[p].type)) \in {1, 2}
    BY AttachLength
  <2>3. QED BY <2>1, <2>2 DEF Validate, AttachReturns, Return, Inv, Shapes, Local, SubjectOK, ControlOK
<1>3. Elsewhere(p)
  BY DEF Validate, AttachReturns, Return, Inv, Shapes, Elsewhere
<1>4. QED BY <1>1, <1>2, <1>3, Frame

LEMMA LookUpEngineInv ==
  ASSUME Inv, NEW p \in Procs, LookUpEngine(p) PROVE Inv'
<1> DEFINE db == database[src[p].name]
<1>1. pc[p] = "engine" /\ src[p] \in Subjects /\ op[p] = "remove" /\ step[p] = 1
  BY DEF LookUpEngine, Inv, Local, SubjectOK, ControlOK
<1>2. db # None => db.type \in Types
  BY <1>1 DEF Inv, Shapes, Subjects, Databases
<1> DEFINE typed == [src EXCEPT ![p].type = db.type]
<1>7. db # None => typed[p] \in Subjects /\ typed[p].type = db.type /\ typed \in [Procs -> Subjects \cup {None}]
  BY <1>1, <1>2 DEF Inv, Shapes, Subjects
<1>3. Shapes'
  <2>1. faults' \subseteq Failures
    BY <1>1, QueryNoted DEF LookUpEngine, Inv, Shapes, Subcommands
  <2>2. pc' \in [Procs -> Labels]
    BY DEF LookUpEngine, AfterEngine, Return, Inv, Shapes, Labels
  <2>3. reply' \in [Procs -> Replies]
    BY DEF LookUpEngine, Return, Inv, Shapes, Replies, Results
  <2>4. src' \in [Procs -> Subjects \cup {None}]
    BY <1>7 DEF LookUpEngine, Inv, Shapes
  <2>5. UNCHANGED <<database, collection, op, file, step, line, report>>
    BY DEF LookUpEngine
  <2>6. QED BY <2>1, <2>2, <2>3, <2>4, <2>5 DEF Inv, Shapes
<1>4. Local(p)'
  BY <1>1, <1>2, <1>7 DEF LookUpEngine, AfterEngine, Return, Inv, Shapes, Local, SubjectOK, ControlOK
<1>5. Elsewhere(p)
  BY DEF LookUpEngine, Return, Inv, Shapes, Elsewhere
<1>6. QED BY <1>3, <1>4, <1>5, Frame

LEMMA LookUpHostInv ==
  ASSUME Inv, NEW p \in Procs, LookUpHost(p) PROVE Inv'
<1> DEFINE db == database[src[p].name]
<1>1. pc[p] = "host" /\ src[p] \in Subjects /\ src[p].type \in Types /\ op[p] = "remove" /\ step[p] = 1
  BY DEF LookUpHost, Inv, Local, SubjectOK, ControlOK
<1>2. db # None => db.target \in Targets
  BY <1>1 DEF Inv, Shapes, Subjects, Databases
<1> DEFINE host == IF db # None /\ HasCollection(db.type) THEN db.target ELSE None
           hosted == [src EXCEPT ![p].target = host]
<1>7. hosted[p] \in Subjects /\ hosted[p].type = src[p].type /\ hosted \in [Procs -> Subjects \cup {None}]
  BY <1>1, <1>2 DEF Inv, Shapes, Subjects
<1>3. Shapes'
  <2>1. faults' \subseteq Failures /\ pc' \in [Procs -> Labels]
    BY <1>1, QueryNoted DEF LookUpHost, Inv, Shapes, Labels, Subcommands
  <2>2. src' \in [Procs -> Subjects \cup {None}]
    BY <1>7 DEF LookUpHost, Inv, Shapes
  <2>3. UNCHANGED <<database, collection, op, file, step, line, report, reply>>
    BY DEF LookUpHost
  <2>4. QED BY <2>1, <2>2, <2>3 DEF Inv, Shapes
<1>4. Local(p)'
  BY <1>1, <1>7 DEF LookUpHost, Inv, Shapes, Local, SubjectOK, ControlOK
<1>5. Elsewhere(p)
  BY DEF LookUpHost, Inv, Shapes, Elsewhere
<1>6. QED BY <1>3, <1>4, <1>5, Frame

LEMMA NextSourceInv ==
  ASSUME Inv, NEW p \in Procs, NextSource(p) PROVE Inv'
<1>1. line[p] <= Len(file[p]) => file[p][line[p]] \in Sources
  BY FilesAssumption DEF Inv, Shapes
<1>2. Sources \subseteq Subjects
  BY DEF Sources, Subjects
<1>3. Shapes'
  <2>1. pc' \in [Procs -> Labels] /\ reply' \in [Procs -> Replies]
    BY DEF NextSource, Return, Inv, Shapes, Labels, Replies, Results
  <2>2. src' \in [Procs -> Subjects \cup {None}]
    BY <1>1, <1>2 DEF NextSource, Inv, Shapes
  <2>3. line' \in [Procs -> Nat \ {0}]
    <3>1. line \in [Procs -> Nat \ {0}] /\ line[p] + 1 \in Nat \ {0}
      BY DEF Inv, Shapes
    <3>2. line' = line \/ line' = [line EXCEPT ![p] = line[p] + 1]
      BY DEF NextSource
    <3>3. QED BY <3>1, <3>2
  <2>4. report' \in [Procs -> [Names -> Results]]
    <3>1. report \in [Procs -> [Names -> Results]]
      BY DEF Inv, Shapes
    <3>2. report' = report \/ report' = [report EXCEPT ![p][file[p][line[p]].name] = "INVALID"]
      BY DEF NextSource
    <3>3. [report[p] EXCEPT ![file[p][line[p]].name] = "INVALID"] \in [Names -> Results]
      BY <3>1 DEF Results
    <3>4. QED BY <3>1, <3>2, <3>3
  <2>5. UNCHANGED <<database, collection, op, file, step, faults>>
    BY DEF NextSource
  <2>6. QED BY <2>1, <2>2, <2>3, <2>4, <2>5 DEF Inv, Shapes
<1>4. Local(p)'
  BY <1>1 DEF NextSource, Return, Inv, Shapes, Local, SubjectOK, ControlOK
<1>5. Elsewhere(p)
  BY DEF NextSource, Return, Inv, Shapes, Elsewhere
<1>6. QED BY <1>3, <1>4, <1>5, Frame

LEMMA KillInv ==
  ASSUME Inv, NEW p \in Procs, Kill(p) PROVE Inv'
<1>0. op[p] \in Subcommands
  BY OperationsAssumption DEF Kill, Inv, Shapes, Local, ControlOK, Labels, Subcommands
<1>1. Shapes'
  <2>1. faults' \subseteq Failures
    BY <1>0, FaultNoted DEF Kill, Phases, Inv, Shapes
  <2>2. QED BY <2>1 DEF Kill, Return, Inv, Shapes, Labels, Replies
<1>2. Local(p)'
  BY DEF Kill, Return, Inv, Shapes, Local, SubjectOK, ControlOK
<1>3. Elsewhere(p)
  BY DEF Kill, Return, Inv, Shapes, Elsewhere
<1>4. QED BY <1>1, <1>2, <1>3, Frame


\* A statement, however it ends, leaves the catalogue well typed.
LEMMA StatementType ==
  ASSUME Inv, NEW p \in Procs, op[p] \in Subcommands,
         NEW s \in Subjects, NEW statement, NEW phase \in Phases,
         statement \in {"create collection", "create database"} => s \in Sources,
         statement = "create collection" => HasCollection(s.type),
         Acknowledged(statement, s) \/ Failed(p, phase, statement, s)
  PROVE  /\ database' \in [Names -> Databases \cup {None}]
         /\ collection' \in [Names -> Logins \cup {None}]
         /\ faults' \subseteq Failures
<1>1. faults' \subseteq Failures
  <2>1. faults' = faults \/ \E kind \in {"refused", "unanswered"} : Fault(op[p], phase, kind)
    BY DEF Acknowledged, Failed, Refused, Unanswered
  <2>2. QED BY <2>1, FaultNoted DEF Inv, Shapes
<1>2. Execute(statement, s) \/ UNCHANGED <<database, collection>>
  BY DEF Acknowledged, Failed, Refused, Unanswered
<1>3. QED BY <1>1, <1>2, ExecuteType DEF Inv, Shapes

\* attachSource's return ends the process or takes apply to its next source.
LEMMA ReturnsInv ==
  ASSUME Inv, NEW p \in Procs, NEW code \in Results, AttachReturns(p, code),
         UNCHANGED <<database, collection, op, file, src, step, line, faults>>
  PROVE  Inv'
<1>1. pc' = [pc EXCEPT ![p] = "idle"] \/ (op[p] = "apply" /\ pc' = [pc EXCEPT ![p] = "next"])
  BY DEF AttachReturns, Return
<1>2. pc' \in [Procs -> Labels]
  BY <1>1 DEF Inv, Shapes, Labels
<1>3. Shapes'
  BY <1>2, AttachReturnsType DEF Inv, Shapes
<1>4. Local(p)'
  BY <1>1 DEF Inv, Shapes, Local, SubjectOK, ControlOK
<1>5. Elsewhere(p)
  BY <1>1 DEF Elsewhere, Inv, Shapes
<1>6. QED BY <1>3, <1>4, <1>5, Frame

LEMMA AttachStepInv ==
  ASSUME Inv, NEW p \in Procs, AttachStep(p) PROVE Inv'
<1> DEFINE plan == AttachPlan(src[p].type)
           i == step[p]
<1>1. /\ pc[p] = "attach" /\ src[p] \in Sources
      /\ op[p] \in {"add", "apply"} /\ i \in 1 .. Len(plan) + 1
  BY DEF AttachStep, Inv, Local, SubjectOK, ControlOK
<1>2. src[p] \in Subjects
  BY <1>1 DEF Sources, Subjects
<1>3. Len(plan) \in {1, 2}
  BY AttachLength
<1>4. step \in [Procs -> 0..3] /\ pc \in [Procs -> Labels]
  BY DEF Inv, Shapes
<1>5. ASSUME i <= Len(plan),
             Acknowledged(plan[i].do, src[p]) \/ Failed(p, "attach", plan[i].do, src[p])
      PROVE  /\ database' \in [Names -> Databases \cup {None}]
             /\ collection' \in [Names -> Logins \cup {None}]
             /\ faults' \subseteq Failures
  <2>1. i \in 1 .. Len(plan)
    BY <1>1, <1>5, <1>3
  <2>2. plan[i].do = "create collection" => HasCollection(src[p].type)
    BY <2>1, AttachDo
  <2>3. QED BY <1>1, <1>2, <1>5, <2>2, StatementType DEF Phases, Subcommands
<1>6. CASE /\ i <= Len(plan) /\ Acknowledged(plan[i].do, src[p])
           /\ step' = [step EXCEPT ![p] = @ + 1]
           /\ UNCHANGED <<pc, op, file, src, line, report, reply>>
  <2>1. step' \in [Procs -> 0..3] /\ step'[p] \in 1 .. Len(plan) + 1
    BY <1>1, <1>3, <1>4, <1>6
  <2>2. Shapes'
    BY <1>5, <1>6, <2>1 DEF Inv, Shapes
  <2>3. Local(p)'
    BY <1>1, <1>6, <2>1 DEF Local, SubjectOK, ControlOK
  <2>4. Elsewhere(p)
    BY <1>4, <1>6 DEF Elsewhere
  <2>5. QED BY <2>2, <2>3, <2>4, Frame
<1>7. CASE /\ i <= Len(plan) /\ Failed(p, "attach", plan[i].do, src[p])
           /\ step' = [step EXCEPT ![p] = LastCompleted(@)]
           /\ pc' = [pc EXCEPT ![p] = "rollback"]
           /\ UNCHANGED <<op, file, src, line, report, reply>>
  <2>1. step' \in [Procs -> 0..3] /\ step'[p] \in 0 .. Len(plan) - 1
    BY <1>1, <1>3, <1>4, <1>7 DEF LastCompleted
  <2>2. pc' \in [Procs -> Labels] /\ pc'[p] = "rollback"
    BY <1>4, <1>7 DEF Labels
  <2>3. Shapes'
    BY <1>5, <1>7, <2>1, <2>2 DEF Inv, Shapes
  <2>4. Local(p)'
    BY <1>1, <1>7, <2>1, <2>2 DEF Local, SubjectOK, ControlOK
  <2>5. Elsewhere(p)
    BY <1>4, <1>7 DEF Elsewhere
  <2>6. QED BY <2>3, <2>4, <2>5, Frame
<1>8. CASE /\ i > Len(plan) /\ AttachReturns(p, "ok")
           /\ UNCHANGED <<database, collection, op, file, src, step, line, faults>>
  BY <1>8, ReturnsInv DEF Results
<1>9. QED BY <1>6, <1>7, <1>8 DEF AttachStep

LEMMA RollbackStepInv ==
  ASSUME Inv, NEW p \in Procs, RollbackStep(p) PROVE Inv'
<1> DEFINE plan == AttachPlan(src[p].type)
           i == step[p]
<1>1. /\ pc[p] = "rollback" /\ src[p] \in Sources
      /\ op[p] \in {"add", "apply"} /\ i \in 0 .. Len(plan) - 1
  BY DEF RollbackStep, Inv, Local, SubjectOK, ControlOK
<1>2. src[p] \in Subjects
  BY <1>1 DEF Sources, Subjects
<1>3. Len(plan) \in {1, 2}
  BY AttachLength
<1>4. step \in [Procs -> 0..3] /\ pc \in [Procs -> Labels]
  BY DEF Inv, Shapes
<1>5. CASE /\ i # 0
           /\ Acknowledged(plan[i].undo, src[p]) \/ Failed(p, "rollback", plan[i].undo, src[p])
           /\ step' = [step EXCEPT ![p] = @ - 1]
           /\ UNCHANGED <<pc, op, file, src, line, report, reply>>
  <2>1. plan[i].undo = "drop collection"
    BY <1>1, <1>5, AttachUndo
  <2>2. /\ database' \in [Names -> Databases \cup {None}]
        /\ collection' \in [Names -> Logins \cup {None}]
        /\ faults' \subseteq Failures
    BY <1>1, <1>2, <1>5, <2>1, StatementType DEF Phases, Subcommands
  <2>3. step' \in [Procs -> 0..3] /\ step'[p] \in 0 .. Len(plan) - 1
    BY <1>1, <1>3, <1>4, <1>5
  <2>4. Shapes'
    BY <1>5, <2>2, <2>3 DEF Inv, Shapes
  <2>5. Local(p)'
    BY <1>1, <1>5, <2>3 DEF Local, SubjectOK, ControlOK
  <2>6. Elsewhere(p)
    BY <1>4, <1>5 DEF Elsewhere
  <2>7. QED BY <2>4, <2>5, <2>6, Frame
<1>6. CASE /\ AttachReturns(p, "INTERNAL_ERROR")
           /\ UNCHANGED <<database, collection, op, file, src, step, line, faults>>
  BY <1>6, ReturnsInv DEF Results
<1>7. QED BY <1>5, <1>6 DEF RollbackStep, Undone, PreviousStep

LEMMA DetachStepInv ==
  ASSUME Inv, NEW p \in Procs, DetachStep(p) PROVE Inv'
<1> DEFINE plan == DetachPlan(src[p].type)
           i == step[p]
<1>1. /\ pc[p] = "detach" /\ src[p] \in Subjects /\ src[p].type \in Types
      /\ op[p] = "remove" /\ i >= 1
  BY DEF DetachStep, Inv, Local, SubjectOK, ControlOK
<1>2. step \in [Procs -> 0..3] /\ pc \in [Procs -> Labels] /\ reply \in [Procs -> Replies]
  BY DEF Inv, Shapes
<1>3. i \in 1..3 /\ Len(plan) \in {1, 2}
  BY <1>1, <1>2, DetachLength
<1>4. i <= Len(plan) => plan[i] \in {"drop database", "drop collection"}
  BY <1>3, DetachDo
<1>5. ASSUME i <= Len(plan), Acknowledged(plan[i], src[p]) \/ Failed(p, "detach", plan[i], src[p])
      PROVE  /\ database' \in [Names -> Databases \cup {None}]
             /\ collection' \in [Names -> Logins \cup {None}]
             /\ faults' \subseteq Failures
  BY <1>1, <1>4, <1>5, StatementType DEF Phases, Subcommands
<1>6. CASE /\ i <= Len(plan) /\ Acknowledged(plan[i], src[p])
           /\ step' = [step EXCEPT ![p] = @ + 1]
           /\ UNCHANGED <<pc, op, file, src, line, report, reply>>
  <2>1. step' \in [Procs -> 0..3] /\ step'[p] >= 1
    BY <1>2, <1>3, <1>6
  <2>2. Shapes'
    BY <1>5, <1>6, <2>1 DEF Inv, Shapes
  <2>3. Local(p)'
    BY <1>1, <1>6, <2>1 DEF Local, SubjectOK, ControlOK
  <2>4. Elsewhere(p)
    BY <1>2, <1>6 DEF Elsewhere
  <2>5. QED BY <2>2, <2>3, <2>4, Frame
<1>7. CASE /\ \/ i <= Len(plan) /\ Failed(p, "detach", plan[i], src[p]) /\ Return(p, "INTERNAL_ERROR")
              \/ Return(p, "ok") /\ UNCHANGED <<database, collection, faults>>
           /\ UNCHANGED <<op, file, src, step, line, report>>
  <2>1. pc' \in [Procs -> Labels] /\ pc'[p] = "idle" /\ reply' \in [Procs -> Replies]
    BY <1>2, <1>7 DEF Return, Labels, Replies, Results
  <2>2. Shapes'
    BY <1>5, <1>7, <2>1 DEF Inv, Shapes
  <2>3. Local(p)'
    BY <2>1 DEF Local, SubjectOK, ControlOK
  <2>4. Elsewhere(p)
    BY <1>2, <1>7 DEF Return, Elsewhere
  <2>5. QED BY <2>2, <2>3, <2>4, Frame
<1>8. QED BY <1>6, <1>7 DEF DetachStep
----------------------------------------------------------------------------
LEMMA NextInv == Inv /\ [Next]_vars => Inv'
<1> SUFFICES ASSUME Inv, [Next]_vars PROVE Inv'
  OBVIOUS
<1>1. ASSUME NEW p \in Procs, NEW s \in Requests, StartAdd(p, s) PROVE Inv'
  BY <1>1, StartInv, RequestsAssumption DEF StartAdd, Subcommands
<1>2. ASSUME NEW p \in Procs, NEW n \in Names, StartRemove(p, n) PROVE Inv'
  <2>1. [name |-> n, type |-> None, target |-> None, secret |-> None] \in Subjects
    BY DEF Subjects
  <2>2. QED BY <1>2, <2>1, StartInv DEF StartRemove, Subcommands
<1>3. ASSUME NEW p \in Procs, NEW f \in Files, StartApply(p, f) PROVE Inv'
  BY <1>3, StartInv DEF StartApply, Subcommands
<1>4. ASSUME NEW p \in Procs, Proceed(p) PROVE Inv'
  BY <1>4, CheckExistsInv, ValidateInv, AttachStepInv, RollbackStepInv, LookUpEngineInv,
     LookUpHostInv, DetachStepInv, NextSourceInv DEF Proceed
<1>5. ASSUME NEW p \in Procs, Kill(p) PROVE Inv'
  BY <1>5, KillInv
<1>6. CASE UNCHANGED vars
  BY <1>6 DEF vars, Inv, Shapes, Local, SubjectOK, ControlOK
<1>7. QED BY <1>1, <1>2, <1>3, <1>4, <1>5, <1>6 DEF Next

\* The hub and every fedctl process keep their types, and each process keeps to
\* the plan it executes, whatever runs beside it and whatever fails.
THEOREM TypeCorrect == Spec => []TypeOK
<1>1. Inv => TypeOK
  BY DEF Inv, TypeOK, Local
<1>2. QED BY InitInv, NextInv, <1>1, PTL DEF Spec
----------------------------------------------------------------------------
(***************************************************************************)
(* Only a remove drops a database.                                         *)
(***************************************************************************)
\* What one statement can do to a database that is there.
DropsAtMost(statement, s) ==
  \A n \in Names : database[n] # None /\ database'[n] # database[n] =>
    statement = "drop database" /\ s.name = n /\ database'[n] = None

LEMMA StatementDrops ==
  ASSUME database \in [Names -> Databases \cup {None}],
         NEW p, NEW s \in Subjects, NEW statement, NEW phase,
         Acknowledged(statement, s) \/ Failed(p, phase, statement, s)
  PROVE  DropsAtMost(statement, s)
<1> SUFFICES ASSUME NEW n \in Names, database[n] # None, database'[n] # database[n]
             PROVE  statement = "drop database" /\ s.name = n /\ database'[n] = None
  BY DEF DropsAtMost
<1>0. s.name \in Names
  BY DEF Subjects
<1>1. Execute(statement, s) \/ UNCHANGED database
  BY DEF Acknowledged, Failed, Refused, Unanswered
<1>2. CASE statement = "create database" /\ CreateDatabase(s)
  BY <1>0, <1>2 DEF CreateDatabase
<1>3. CASE statement = "drop database" /\ DropDatabase(s)
  BY <1>0, <1>3 DEF DropDatabase
<1>4. CASE statement \in {"create collection", "drop collection"} /\ UNCHANGED database
  BY <1>4
<1>5. QED BY <1>1, <1>2, <1>3, <1>4 DEF Execute, CreateCollection, DropCollection

LEMMA AttachNeverDrops ==
  ASSUME Inv, NEW p \in Procs, AttachStep(p) \/ RollbackStep(p) PROVE DropsOnlyByRemove
<1> SUFFICES ASSUME NEW n \in Names, database[n] # None, database'[n] # database[n]
             PROVE  FALSE
  BY DEF DropsOnlyByRemove
<1> DEFINE plan == AttachPlan(src[p].type)
           i == step[p]
<1>1. database \in [Names -> Databases \cup {None}] /\ step \in [Procs -> 0..3]
  BY DEF Inv, Shapes
<1>2. pc[p] \in {"attach", "rollback"} => src[p] \in Subjects
  BY DEF Inv, Local, SubjectOK, Sources, Subjects
<1>3. CASE AttachStep(p)
  <2>1. pc[p] = "attach" /\ i \in 1 .. Len(plan) + 1
    BY <1>3 DEF AttachStep, Inv, Local, ControlOK
  <2>2. /\ i <= Len(plan)
        /\ Acknowledged(plan[i].do, src[p]) \/ Failed(p, "attach", plan[i].do, src[p])
    BY <1>3 DEF AttachStep
  <2>3. DropsAtMost(plan[i].do, src[p])
    BY <1>1, <1>2, <2>1, <2>2, StatementDrops
  <2>4. Len(plan) \in {1, 2}
    BY AttachLength
  <2>5. i \in 1 .. Len(plan)
    BY <2>1, <2>2, <2>4
  <2>6. plan[i].do # "drop database"
    BY <2>5, AttachDo
  <2>7. QED BY <2>3, <2>6 DEF DropsAtMost
<1>4. CASE RollbackStep(p)
  <2>1. pc[p] = "rollback" /\ i \in 0 .. Len(plan) - 1
    BY <1>4 DEF RollbackStep, Inv, Local, ControlOK
  <2>2. /\ i # 0
        /\ Acknowledged(plan[i].undo, src[p]) \/ Failed(p, "rollback", plan[i].undo, src[p])
    BY <1>4 DEF RollbackStep, Undone
  <2>3. plan[i].undo = "drop collection"
    BY <2>1, <2>2, AttachUndo
  <2>4. DropsAtMost(plan[i].undo, src[p])
    BY <1>1, <1>2, <2>1, <2>2, StatementDrops
  <2>5. QED BY <2>3, <2>4 DEF DropsAtMost
<1>5. QED BY <1>3, <1>4

LEMMA DetachDropsItsOwn ==
  ASSUME Inv, NEW p \in Procs, DetachStep(p) PROVE DropsOnlyByRemove
<1>1. database \in [Names -> Databases \cup {None}]
  BY DEF Inv, Shapes
<1>2. pc[p] = "detach" /\ op[p] = "remove" /\ src[p] \in Subjects /\ src[p].name \in Names
  BY DEF DetachStep, Inv, Local, SubjectOK, ControlOK, Subjects
<1>3. ASSUME NEW n \in Names, database[n] # None, database'[n] # database[n]
      PROVE  database'[n] = None /\ src[p].name = n
  <2> DEFINE statement == DetachPlan(src[p].type)[step[p]]
  <2>1. Acknowledged(statement, src[p]) \/ Failed(p, "detach", statement, src[p])
    BY <1>3 DEF DetachStep
  <2>2. DropsAtMost(statement, src[p])
    BY <1>1, <1>2, <2>1, StatementDrops
  <2>3. QED BY <1>3, <2>2 DEF DropsAtMost
<1>4. QED BY <1>2, <1>3 DEF DropsOnlyByRemove

LEMMA StepDrops == Inv /\ [Next]_vars => [DropsOnlyByRemove]_vars
<1> SUFFICES ASSUME Inv, Next PROVE DropsOnlyByRemove
  OBVIOUS
<1>1. UNCHANGED database => DropsOnlyByRemove
  BY DEF DropsOnlyByRemove
<1>2. PICK p \in Procs :
        \/ \E s \in Requests : StartAdd(p, s)
        \/ \E n \in Names : StartRemove(p, n)
        \/ \E f \in Files : StartApply(p, f)
        \/ Proceed(p)
        \/ Kill(p)
  BY DEF Next
<1>3. \/ UNCHANGED database
      \/ AttachStep(p) \/ RollbackStep(p) \/ DetachStep(p)
  BY <1>2 DEF StartAdd, StartRemove, StartApply, Start, Proceed, Kill, CheckExists, Validate,
              LookUpEngine, LookUpHost, NextSource
<1>4. QED BY <1>1, <1>3, AttachNeverDrops, DetachDropsItsOwn

\* Neither a second process, nor a failure, nor a rollback makes an attach drop or
\* redefine a database that is there: only the remove of that name drops it.
THEOREM DatabasesDropOnlyByRemove == Spec => OnlyRemoveDropsADatabase
BY InitInv, NextInv, StepDrops, PTL DEF Spec, OnlyRemoveDropsADatabase
----------------------------------------------------------------------------
(***************************************************************************)
(* No database without its credentials, for one operator.                  *)
(* Backed is not inductive: Staged adds that what a rollback, or the       *)
(* second statement of a detach, drops is a collection no database uses.   *)
(***************************************************************************)
Good == Backed /\ \A p \in Procs : Staged(p)

CredInv == Inv /\ (OnlyAddsWereRefused => Good)

\* Nothing that went wrong is forgotten.
LEMMA FaultsGrow == Next => faults \subseteq faults'
<1> SUFFICES ASSUME Next PROVE faults \subseteq faults'
  OBVIOUS
<1>1. ASSUME NEW subcommand, NEW phase, NEW kind, Fault(subcommand, phase, kind)
      PROVE  faults \subseteq faults'
  BY <1>1 DEF Fault
<1>2. ASSUME NEW p, NEW phase, NEW statement, NEW s,
             Acknowledged(statement, s) \/ Failed(p, phase, statement, s)
      PROVE  faults \subseteq faults'
  BY <1>1, <1>2 DEF Acknowledged, Failed, Refused, Unanswered
<1>3. ASSUME NEW p, NEW subcommand, NEW label, Start(p, subcommand, label)
      PROVE  faults \subseteq faults'
  BY <1>1, <1>3 DEF Start, QueryFails
<1>4. ASSUME NEW p, Proceed(p) PROVE faults \subseteq faults'
  <2>1. CASE CheckExists(p)
    BY <1>1, <2>1 DEF CheckExists, QueryFails
  <2>2. CASE Validate(p) \/ NextSource(p)
    BY <2>2 DEF Validate, NextSource
  <2>3. CASE AttachStep(p)
    BY <1>2, <2>3 DEF AttachStep
  <2>4. CASE RollbackStep(p)
    BY <1>2, <2>4 DEF RollbackStep
  <2>5. CASE LookUpEngine(p) \/ LookUpHost(p)
    BY <1>1, <2>5 DEF LookUpEngine, LookUpHost, QueryFails
  <2>6. CASE DetachStep(p)
    BY <1>2, <2>6 DEF DetachStep
  <2>7. QED BY <1>4, <2>1, <2>2, <2>3, <2>4, <2>5, <2>6 DEF Proceed
<1>5. ASSUME NEW p, Kill(p) PROVE faults \subseteq faults'
  BY <1>1, <1>5 DEF Kill
<1>6. QED BY <1>3, <1>4, <1>5 DEF Next, StartAdd, StartRemove, StartApply

\* A single process: its step accounts for all of them.
LEMMA CredFrame ==
  ASSUME OneAtATime, Inv', NEW p \in Procs, Backed', Staged(p)'
  PROVE  Good'
<1>1. \A q \in Procs : q = p
  BY DEF OneAtATime
<1>2. \A q \in Procs : Staged(q)'
  BY <1>1
<1>3. QED BY <1>2 DEF Good

LEMMA CredUnchanged ==
  ASSUME Backed, UNCHANGED <<database, collection>>
  PROVE  Backed'
BY DEF Backed, Credentialed

\* A statement keeps the credentials behind every database, provided it drops a
\* collection only when the database of that name is gone.
LEMMA StatementCred ==
  ASSUME Inv, Backed, NEW p, NEW s \in Subjects, NEW statement, NEW phase,
         statement \in {"create collection", "create database"} => s \in Sources,
         statement = "create collection" => HasCollection(s.type),
         statement = "drop collection" => database[s.name] = None,
         Acknowledged(statement, s) \/ Failed(p, phase, statement, s)
  PROVE  Backed'
<1>1. /\ database \in [Names -> Databases \cup {None}]
      /\ collection \in [Names -> Logins \cup {None}]
      /\ s.name \in Names
  BY DEF Inv, Shapes, Subjects
<1>2. CASE UNCHANGED <<database, collection>>
  BY <1>2, CredUnchanged
<1>3. CASE statement = "create collection" /\ CreateCollection(s)
  <2>1. [target |-> s.target, secret |-> s.secret] \in Logins
    BY <1>3 DEF Sources, Logins
  <2>2. [target |-> s.target, secret |-> s.secret] # None
    BY <2>1, NoneAssumption
  <2>3. QED BY <1>1, <1>3, <2>2 DEF CreateCollection, Backed, Credentialed
<1>4. CASE statement = "create database" /\ CreateDatabase(s) /\ Accepts(statement, s)
  <2>1. s.type \in Types
    BY <1>4 DEF Sources
  <2>2. QED
    BY <1>1, <1>4 DEF CreateDatabase, Accepts, Backed, Credentialed
<1>5. CASE statement = "drop database" /\ DropDatabase(s)
  BY <1>1, <1>5 DEF DropDatabase, Backed, Credentialed
<1>6. CASE statement = "drop collection" /\ DropCollection(s)
  BY <1>1, <1>6 DEF DropCollection, Backed, Credentialed
<1>7. \/ UNCHANGED <<database, collection>>
      \/ Execute(statement, s) /\ Accepts(statement, s)
  BY DEF Acknowledged, Failed, Refused, Unanswered
<1>8. QED BY <1>2, <1>3, <1>4, <1>5, <1>6, <1>7 DEF Execute

LEMMA AttachStepCred ==
  ASSUME OneAtATime, Inv, Good, Inv', OnlyAddsWereRefused', NEW p \in Procs, AttachStep(p)
  PROVE  Good'
<1> DEFINE plan == AttachPlan(src[p].type)
           i == step[p]
<1>1. /\ pc[p] = "attach" /\ src[p] \in Sources /\ src[p] \in Subjects
      /\ i \in 1 .. Len(plan) + 1
  BY DEF AttachStep, Inv, Local, SubjectOK, ControlOK, Sources, Subjects
<1>2. Inv /\ Backed /\ Staged(p)
  BY DEF Good
<1>3. step \in [Procs -> 0..3] /\ pc \in [Procs -> Labels]
  BY <1>2 DEF Inv, Shapes
<1>4. Len(plan) \in {1, 2}
  BY AttachLength
<1>5. ASSUME i <= Len(plan)
      PROVE  /\ op[p] = "add" => database[src[p].name] = None
             /\ plan[i].do = "create collection" \/ plan[i].do = "create database"
             /\ plan[i].do = "create collection" => HasCollection(src[p].type)
             /\ i < Len(plan) => plan[i].do = "create collection"
  <2>1. i \in 1 .. Len(plan)
    BY <1>1, <1>4, <1>5
  <2>2. op[p] = "add" => database[src[p].name] = None
    BY <1>1, <1>2, <1>5 DEF Staged
  <2>3. \/ HasCollection(src[p].type) /\ i = 1 /\ plan[i].do = "create collection"
        \/ i = Len(plan) /\ plan[i].do = "create database"
    BY <2>1, AttachDo
  <2>4. i = Len(plan) => ~(i < Len(plan))
    BY <1>4
  <2>5. QED BY <2>2, <2>3, <2>4
<1>6. CASE /\ i <= Len(plan) /\ Acknowledged(plan[i].do, src[p])
           /\ step' = [step EXCEPT ![p] = @ + 1]
           /\ UNCHANGED <<pc, op, src>>
  <2>1. Backed'
    BY <1>1, <1>2, <1>5, <1>6, StatementCred
  <2>2. step'[p] = i + 1
    BY <1>3, <1>6
  <2>3. i < Len(plan) => UNCHANGED database
    BY <1>5, <1>6 DEF Acknowledged, Execute, CreateCollection
  <2>4. i + 1 <= Len(plan) => i < Len(plan)
    BY <1>1, <1>4
  <2>5. Staged(p)'
    BY <1>1, <1>5, <1>6, <2>2, <2>3, <2>4 DEF Staged
  <2>6. QED BY <2>1, <2>5, CredFrame
<1>7. CASE /\ i <= Len(plan) /\ Failed(p, "attach", plan[i].do, src[p])
           /\ pc' = [pc EXCEPT ![p] = "rollback"]
           /\ UNCHANGED src
  <2>1. UNCHANGED <<database, collection>> /\ database[src[p].name] = None
    <3>1. ASSUME NEW kind, Fault(op[p], "attach", kind) PROVE op[p] = "add" /\ kind = "refused"
      <4>1. [op |-> op[p], phase |-> "attach", kind |-> kind] \in faults'
        BY <3>1 DEF Fault
      <4>2. QED BY <4>1 DEF OnlyAddsWereRefused
    <3>2. CASE Refused(p, "attach", plan[i].do, src[p])
      BY <1>5, <1>7, <3>1, <3>2 DEF Refused, Accepts
    <3>3. CASE Unanswered(p, "attach", plan[i].do, src[p])
      BY <3>1, <3>3 DEF Unanswered
    <3>4. QED BY <1>7, <3>2, <3>3 DEF Failed
  <2>2. Backed'
    BY <1>2, <2>1, CredUnchanged
  <2>3. pc'[p] = "rollback"
    BY <1>3, <1>7
  <2>4. Staged(p)'
    BY <1>5, <1>7, <2>1, <2>3 DEF Staged
  <2>5. QED BY <2>2, <2>4, CredFrame
<1>8. CASE AttachReturns(p, "ok") /\ UNCHANGED <<database, collection>>
  <2>1. pc'[p] \in {"idle", "next"}
    BY <1>3, <1>8 DEF AttachReturns, Return
  <2>2. Staged(p)'
    BY <2>1 DEF Staged
  <2>3. QED BY <1>2, <1>8, <2>2, CredUnchanged, CredFrame
<1>9. QED BY <1>6, <1>7, <1>8 DEF AttachStep

LEMMA RollbackStepCred ==
  ASSUME OneAtATime, Inv, Good, Inv', NEW p \in Procs, RollbackStep(p)
  PROVE  Good'
<1> DEFINE plan == AttachPlan(src[p].type)
           i == step[p]
<1>1. /\ pc[p] = "rollback" /\ src[p] \in Subjects /\ i \in 0 .. Len(plan) - 1
  BY DEF RollbackStep, Inv, Local, SubjectOK, ControlOK, Sources, Subjects
<1>2. Inv /\ Backed /\ database[src[p].name] = None
  BY <1>1 DEF Good, Staged
<1>3. pc \in [Procs -> Labels]
  BY <1>2 DEF Inv, Shapes
<1>4. CASE /\ i # 0
           /\ Acknowledged(plan[i].undo, src[p]) \/ Failed(p, "rollback", plan[i].undo, src[p])
           /\ UNCHANGED <<pc, src>>
  <2>1. plan[i].undo = "drop collection"
    BY <1>1, <1>4, AttachUndo
  <2>2. Backed'
    BY <1>1, <1>2, <1>4, <2>1, StatementCred
  <2>3. UNCHANGED database
    BY <1>4, <2>1 DEF Acknowledged, Failed, Refused, Unanswered, Execute, DropCollection
  <2>4. Staged(p)'
    BY <1>1, <1>2, <1>4, <2>3 DEF Staged
  <2>5. QED BY <2>2, <2>4, CredFrame
<1>5. CASE AttachReturns(p, "INTERNAL_ERROR") /\ UNCHANGED <<database, collection>>
  <2>1. pc'[p] \in {"idle", "next"}
    BY <1>3, <1>5 DEF AttachReturns, Return
  <2>2. Staged(p)'
    BY <2>1 DEF Staged
  <2>3. QED BY <1>2, <1>5, <2>2, CredUnchanged, CredFrame
<1>6. QED BY <1>4, <1>5 DEF RollbackStep, Undone

LEMMA DetachStepCred ==
  ASSUME OneAtATime, Inv, Good, Inv', NEW p \in Procs, DetachStep(p)
  PROVE  Good'
<1> DEFINE plan == DetachPlan(src[p].type)
           i == step[p]
<1>1. pc[p] = "detach" /\ src[p] \in Subjects /\ src[p].name \in Names /\ i >= 1
  BY DEF DetachStep, Inv, Local, SubjectOK, ControlOK, Subjects
<1>2. Inv /\ Backed /\ Staged(p)
  BY DEF Good
<1>3. /\ step \in [Procs -> 0..3] /\ pc \in [Procs -> Labels]
      /\ database \in [Names -> Databases \cup {None}]
  BY <1>2 DEF Inv, Shapes
<1>4. i <= Len(plan) =>
        \/ plan[i] = "drop database"
        \/ plan[i] = "drop collection" /\ database[src[p].name] = None
  <2>1. i \in 1 .. 3
    BY <1>1, <1>3
  <2>2. i <= Len(plan) =>
          \/ plan[i] = "drop database"
          \/ plan[i] = "drop collection" /\ i = 2
    BY <2>1, DetachDo
  <2>3. i = 2 => database[src[p].name] = None
    BY <1>1, <1>2 DEF Staged
  <2>4. QED BY <2>2, <2>3
<1>5. ASSUME i <= Len(plan), Acknowledged(plan[i], src[p]) \/ Failed(p, "detach", plan[i], src[p])
      PROVE  Backed'
  BY <1>1, <1>2, <1>4, <1>5, StatementCred
<1>6. CASE /\ i <= Len(plan) /\ Acknowledged(plan[i], src[p])
           /\ UNCHANGED <<pc, src>>
  <2>1. database'[src[p].name] = None
    BY <1>1, <1>3, <1>4, <1>6 DEF Acknowledged, Execute, DropDatabase, DropCollection
  <2>2. Staged(p)'
    BY <1>1, <1>6, <2>1 DEF Staged
  <2>3. QED BY <1>5, <1>6, <2>2, CredFrame
<1>7. CASE \/ /\ i <= Len(plan) /\ Failed(p, "detach", plan[i], src[p])
              /\ Return(p, "INTERNAL_ERROR")
           \/ Return(p, "ok") /\ UNCHANGED <<database, collection>>
  <2>1. pc'[p] = "idle"
    BY <1>3, <1>7 DEF Return
  <2>2. Staged(p)'
    BY <2>1 DEF Staged
  <2>3. Backed'
    BY <1>2, <1>5, <1>7, CredUnchanged
  <2>4. QED BY <2>2, <2>3, CredFrame
<1>8. QED BY <1>6, <1>7 DEF DetachStep

\* The steps that do not touch the catalogue.
LEMMA QuietStepCred ==
  ASSUME OneAtATime, Inv, Good, Inv', NEW p \in Procs,
         \/ \E s \in Requests : StartAdd(p, s)
         \/ \E n \in Names : StartRemove(p, n)
         \/ \E f \in Files : StartApply(p, f)
         \/ CheckExists(p) \/ Validate(p) \/ LookUpEngine(p) \/ LookUpHost(p)
         \/ NextSource(p) \/ Kill(p)
  PROVE  Good'
<1>1. Inv /\ Backed /\ Staged(p)
  BY DEF Good
<1>2. UNCHANGED <<database, collection>>
  BY DEF StartAdd, StartRemove, StartApply, Start, CheckExists, Validate, LookUpEngine,
         LookUpHost, NextSource, Kill
<1>3. Backed'
  BY <1>1, <1>2, CredUnchanged
<1>4. pc \in [Procs -> Labels] /\ op \in [Procs -> Operations \cup {"none"}]
  BY <1>1 DEF Inv, Shapes
<1>5. Staged(p)'
  <2>1. ASSUME NEW subcommand, NEW label \in {"exists", "engine", "next"},
               Start(p, subcommand, label)
        PROVE  Staged(p)'
    BY <1>4, <2>1 DEF Start, Return, Staged
  <2>2. CASE CheckExists(p)
    BY <1>2, <1>4, <2>2 DEF CheckExists, Return, Staged
  <2>3. CASE Validate(p)
    BY <1>1, <1>2, <1>4, <2>3 DEF Validate, AttachReturns, Return, Staged
  <2>4. CASE LookUpEngine(p) \/ LookUpHost(p)
    <3>1. step[p] = 1
      BY <1>1, <2>4 DEF LookUpEngine, LookUpHost, Inv, Local, ControlOK
    <3>2. pc'[p] \in {"host", "detach", "idle"} /\ UNCHANGED step
      BY <1>4, <2>4 DEF LookUpEngine, LookUpHost, AfterEngine, Return
    <3>3. QED BY <3>1, <3>2 DEF Staged
  <2>5. CASE NextSource(p)
    <3>1. op[p] = "apply"
      BY <1>1, <2>5 DEF NextSource, Inv, Local, ControlOK
    <3>2. pc'[p] \in {"idle", "validate", "next"} /\ op' = op
      BY <1>4, <2>5 DEF NextSource, Return, task
    <3>3. QED BY <3>1, <3>2 DEF Staged
  <2>6. CASE Kill(p)
    BY <1>4, <2>6 DEF Kill, Return, Staged
  <2>7. QED BY <2>1, <2>2, <2>3, <2>4, <2>5, <2>6 DEF StartAdd, StartRemove, StartApply
<1>6. QED BY <1>3, <1>5, CredFrame

LEMMA NextCred ==
  ASSUME OneAtATime, CredInv, [Next]_vars
  PROVE  CredInv'
<1>1. Inv /\ Inv'
  BY NextInv DEF CredInv
<1>2. CASE UNCHANGED vars
  BY <1>1, <1>2 DEF vars, CredInv, OnlyAddsWereRefused, Good, Backed, Credentialed, Staged
<1>3. CASE Next
  <2> SUFFICES ASSUME OnlyAddsWereRefused' PROVE Good'
    BY <1>1 DEF CredInv
  <2>1. Good
    BY <1>3, FaultsGrow DEF CredInv, OnlyAddsWereRefused
  <2>2. QED
    BY <1>1, <1>3, <2>1, QuietStepCred, AttachStepCred, RollbackStepCred, DetachStepCred
       DEF Next, Proceed
<1>4. QED BY <1>2, <1>3

\* One operator never loses the credentials behind a database, for any sources and
\* files, any failed query, rollback or detach, any kill, and any refused CREATE of
\* an add; only the CREATEs of an apply, and those the hub executes and reports as
\* failed, are excluded.
THEOREM CredentialsKept ==
  ASSUME OneAtATime
  PROVE  Spec => []CredentialsBehindEveryDatabase
<1>1. Init => CredInv
  <2>1. Init => Backed
    BY DEF Init, Backed, Credentialed
  <2>2. Init => \A p \in Procs : Staged(p)
    BY DEF Init, Staged
  <2>3. QED BY <2>1, <2>2, InitInv DEF CredInv, Good
<1>2. CredInv /\ [Next]_vars => CredInv'
  BY NextCred
<1>3. CredInv => CredentialsBehindEveryDatabase
  BY DEF CredInv, Good, CredentialsBehindEveryDatabase
<1>4. QED BY <1>1, <1>2, <1>3, PTL DEF Spec
----------------------------------------------------------------------------
(***************************************************************************)
(* An apply attempts every source of its file, for any number of           *)
(* processes.                                                              *)
(***************************************************************************)
Attaching(p) == pc[p] \in {"validate", "attach", "rollback"}

\* The entries an apply is done with: the one it attaches is the last it has read.
Behind(p) == IF Attaching(p) THEN line[p] - 1 ELSE line[p]

Noted(p, i) == report[p][file[p][i].name] # "none"

\* A source has its result before the loop comes to the next one.
Attended(p) ==
  op[p] = "apply" =>
    /\ Attaching(p) => line[p] - 1 \in DOMAIN file[p] /\ src[p] = file[p][line[p] - 1]
    /\ pc[p] # "idle" => \A i \in DOMAIN file[p] : i < Behind(p) => Noted(p, i)
    /\ pc[p] = "idle" /\ reply[p] \in {"ok", "FAILED"} => \A i \in DOMAIN file[p] : Noted(p, i)

ApplyInv == Inv /\ \A p \in Procs : Attended(p)

LEMMA FileEntries ==
  ASSUME Inv, NEW p \in Procs
  PROVE  /\ file[p] \in Seq(Sources) /\ DOMAIN file[p] = 1 .. Len(file[p]) /\ Len(file[p]) \in Nat
         /\ \A i \in DOMAIN file[p] : file[p][i].name \in Names
<1>1. file[p] \in Seq(Sources)
  <2>1. file[p] \in Files \/ file[p] = <<>>
    BY DEF Inv, Shapes
  <2>2. <<>> \in Seq(Sources)
    OBVIOUS
  <2>3. QED BY <2>1, <2>2, FilesAssumption
<1>2. \A i \in DOMAIN file[p] : file[p][i] \in Sources
  BY <1>1
<1>3. QED BY <1>1, <1>2 DEF Sources

LEMMA AttendedApart ==
  ASSUME NEW q \in Procs, Attended(q), op'[q] = op[q],
         op[q] = "apply" => /\ pc'[q] = pc[q] /\ src'[q] = src[q] /\ file'[q] = file[q]
                            /\ line'[q] = line[q] /\ report'[q] = report[q] /\ reply'[q] = reply[q]
  PROVE  Attended(q)'
BY DEF Attended, Attaching, Behind, Noted

\* The result of attachSource goes to the entry that the apply is at.
LEMMA ReturnAttended ==
  ASSUME Inv, NEW p \in Procs, Attended(p), Attaching(p),
         NEW code \in Results \ {"none"}, AttachReturns(p, code),
         UNCHANGED <<op, file, src, line>>
  PROVE  Attended(p)'
<1> DEFINE i == line[p] - 1
<1>1. SUFFICES ASSUME op[p] = "apply" PROVE Attended(p)'
  BY DEF Attended
<1>2. /\ pc' = [pc EXCEPT ![p] = "next"]
      /\ report' = [report EXCEPT ![p][src[p].name] = code]
  BY <1>1 DEF AttachReturns
<1>3. /\ i \in DOMAIN file[p] /\ src[p] = file[p][i] /\ line[p] \in Nat
      /\ \A j \in DOMAIN file[p] : j < i => Noted(p, j)
  BY <1>1 DEF Attended, Attaching, Behind, Inv, Shapes
<1>4. report \in [Procs -> [Names -> Results]] /\ pc \in [Procs -> Labels]
  BY DEF Inv, Shapes
<1>5. report'[p] = [report[p] EXCEPT ![src[p].name] = code] /\ pc'[p] = "next"
  BY <1>2, <1>4
<1>6. ASSUME NEW j \in DOMAIN file[p], j < line[p] PROVE report'[p][file[p][j].name] # "none"
  <2>1. file[p][j].name \in Names /\ j \in Nat
    BY FileEntries
  <2>2. CASE j = i
    BY <1>3, <1>4, <1>5, <2>1, <2>2
  <2>3. CASE j # i
    <3>1. Noted(p, j)
      BY <1>3, <1>6, <2>1, <2>3
    <3>2. QED BY <1>4, <1>5, <2>1, <3>1 DEF Noted
  <2>4. QED BY <2>2, <2>3
<1>7. QED BY <1>5, <1>6 DEF Attended, Attaching, Behind, Noted

\* Between two results an attach only moves on.
LEMMA AttachingAttended ==
  ASSUME Inv, NEW p \in Procs, Attended(p), Attaching(p), pc'[p] \in {"attach", "rollback"},
         UNCHANGED <<op, file, src, line, report>>
  PROVE  Attended(p)'
BY DEF Attended, Attaching, Behind, Noted

LEMMA NextSourceAttended ==
  ASSUME Inv, NEW p \in Procs, Attended(p), NextSource(p)
  PROVE  Attended(p)'
<1> DEFINE i == line[p]
<1>1. /\ pc[p] = "next" /\ op[p] = "apply" /\ UNCHANGED <<op, file>>
      /\ pc \in [Procs -> Labels] /\ line \in [Procs -> Nat \ {0}] /\ i \in Nat \ {0}
      /\ report \in [Procs -> [Names -> Results]] /\ src \in [Procs -> Subjects \cup {None}]
  BY DEF NextSource, Inv, Shapes, Local, ControlOK
<1>2. \A j \in DOMAIN file[p] : j < i => Noted(p, j)
  BY <1>1 DEF Attended, Attaching, Behind
<1>3. DOMAIN file[p] = 1 .. Len(file[p]) /\ Len(file[p]) \in Nat
  BY FileEntries
<1>4. CASE i > Len(file[p])
  <2>1. UNCHANGED report /\ pc'[p] = "idle"
    BY <1>1, <1>3, <1>4 DEF NextSource, Return
  <2>2. \A j \in DOMAIN file[p] : Noted(p, j)
    BY <1>1, <1>2, <1>3, <1>4
  <2>3. QED BY <1>1, <2>1, <2>2 DEF Attended, Attaching, Noted
<1>5. CASE i <= Len(file[p])
  <2>1. i \in DOMAIN file[p] /\ line'[p] = i + 1 /\ src'[p] = file[p][i]
    BY <1>1, <1>3, <1>5 DEF NextSource
  <2>2. CASE pc' = [pc EXCEPT ![p] = "validate"] /\ UNCHANGED report
    <3>1. pc'[p] = "validate" /\ line'[p] - 1 = i
      BY <1>1, <2>1, <2>2
    <3>2. QED BY <1>1, <1>2, <2>1, <2>2, <3>1 DEF Attended, Attaching, Behind, Noted
  <2>3. CASE report' = [report EXCEPT ![p][file[p][i].name] = "INVALID"] /\ UNCHANGED pc
    <3>1. report'[p] = [report[p] EXCEPT ![file[p][i].name] = "INVALID"]
      BY <1>1, <2>3
    <3>2. ASSUME NEW j \in DOMAIN file[p], j < i + 1 PROVE report'[p][file[p][j].name] # "none"
      <4>1. file[p][j].name \in Names /\ j \in Nat
        BY FileEntries
      <4>2. CASE j = i
        BY <1>1, <3>1, <4>1, <4>2
      <4>3. CASE j # i
        <5>1. j < i
          <6>1. i \in Nat /\ j \in Nat
            BY <1>1, <4>1
          <6>2. QED BY <3>2, <4>3, <6>1
        <5>2. Noted(p, j)
          BY <1>2, <5>1
        <5>3. QED BY <1>1, <3>1, <4>1, <5>2 DEF Noted
      <4>4. QED BY <4>2, <4>3
    <3>3. pc'[p] = "next"
      BY <1>1, <2>3
    <3>4. QED BY <1>1, <2>1, <3>2, <3>3 DEF Attended, Attaching, Behind, Noted
  <2>4. QED BY <1>3, <1>5, <2>2, <2>3, <1>1 DEF NextSource
<1>6. QED BY <1>1, <1>3, <1>4, <1>5

LEMMA ProceedAttended ==
  ASSUME Inv, NEW p \in Procs, Attended(p), Proceed(p)
  PROVE  Attended(p)'
<1>1. /\ pc \in [Procs -> Labels] /\ Local(p)
      /\ "ok" \in Results \ {"none"} /\ "INVALID" \in Results \ {"none"}
      /\ "INTERNAL_ERROR" \in Results \ {"none"}
  BY DEF Inv, Shapes, Results
<1>2. CASE CheckExists(p) \/ LookUpEngine(p) \/ LookUpHost(p) \/ DetachStep(p)
  <2>1. op[p] # "apply" /\ UNCHANGED op
    BY <1>1, <1>2 DEF CheckExists, LookUpEngine, LookUpHost, DetachStep, Local, ControlOK
  <2>2. QED BY <2>1 DEF Attended
<1>3. CASE Validate(p)
  <2>1. Attaching(p) /\ UNCHANGED <<op, file, src, line>>
    BY <1>3 DEF Validate, Attaching
  <2>2. CASE pc' = [pc EXCEPT ![p] = "attach"] /\ UNCHANGED report
    BY <1>1, <2>1, <2>2, AttachingAttended
  <2>3. CASE AttachReturns(p, "INVALID")
    BY <1>1, <2>1, <2>3, ReturnAttended
  <2>4. QED BY <1>3, <2>2, <2>3 DEF Validate
<1>4. CASE AttachStep(p)
  <2>1. Attaching(p) /\ pc[p] = "attach" /\ UNCHANGED <<op, file, src, line>>
    BY <1>4 DEF AttachStep, Attaching
  <2>2. CASE (UNCHANGED pc \/ pc' = [pc EXCEPT ![p] = "rollback"]) /\ UNCHANGED report
    BY <1>1, <2>1, <2>2, AttachingAttended
  <2>3. CASE AttachReturns(p, "ok")
    BY <1>1, <2>1, <2>3, ReturnAttended
  <2>4. QED BY <1>4, <2>2, <2>3 DEF AttachStep
<1>5. CASE RollbackStep(p)
  <2>1. Attaching(p) /\ pc[p] = "rollback" /\ UNCHANGED <<op, file, src, line>>
    BY <1>5 DEF RollbackStep, Attaching
  <2>2. CASE UNCHANGED <<pc, report>>
    BY <2>1, <2>2, AttachingAttended
  <2>3. CASE AttachReturns(p, "INTERNAL_ERROR")
    BY <1>1, <2>1, <2>3, ReturnAttended
  <2>4. QED BY <1>5, <2>2, <2>3 DEF RollbackStep
<1>6. CASE NextSource(p)
  BY <1>6, NextSourceAttended
<1>7. QED BY <1>2, <1>3, <1>4, <1>5, <1>6 DEF Proceed

\* A step of p leaves the file and the results of every other process alone.
LEMMA AttendedElsewhere ==
  ASSUME Inv, NEW p \in Procs,
         \/ \E s \in Requests : StartAdd(p, s)
         \/ \E n \in Names : StartRemove(p, n)
         \/ \E f \in Files : StartApply(p, f)
         \/ Proceed(p)
         \/ Kill(p),
         NEW q \in Procs \ {p}
  PROVE  /\ pc'[q] = pc[q] /\ op'[q] = op[q] /\ src'[q] = src[q] /\ file'[q] = file[q]
         /\ line'[q] = line[q] /\ report'[q] = report[q] /\ reply'[q] = reply[q]
<1>1. /\ pc \in [Procs -> Labels] /\ op \in [Procs -> Operations \cup {"none"}]
      /\ src \in [Procs -> Subjects \cup {None}] /\ file \in [Procs -> Files \cup {<<>>}]
      /\ line \in [Procs -> Nat \ {0}] /\ report \in [Procs -> [Names -> Results]]
      /\ reply \in [Procs -> Replies]
  BY DEF Inv, Shapes
<1>2. CASE \/ \E s \in Requests : StartAdd(p, s)
           \/ \E n \in Names : StartRemove(p, n)
           \/ \E f \in Files : StartApply(p, f)
  BY <1>1, <1>2 DEF StartAdd, StartRemove, StartApply, Start, Return
<1>3. CASE Kill(p)
  BY <1>1, <1>3 DEF Kill, Return
<1>4. CASE CheckExists(p) \/ LookUpEngine(p) \/ LookUpHost(p)
  BY <1>1, <1>4 DEF CheckExists, LookUpEngine, LookUpHost, Return
<1>5. CASE Validate(p)
  BY <1>1, <1>5 DEF Validate, AttachReturns, Return
<1>6. CASE AttachStep(p)
  BY <1>1, <1>6 DEF AttachStep, AttachReturns, Return
<1>7. CASE RollbackStep(p)
  BY <1>1, <1>7 DEF RollbackStep, AttachReturns, Return
<1>8. CASE DetachStep(p)
  BY <1>1, <1>8 DEF DetachStep, Return
<1>9. CASE NextSource(p)
  BY <1>1, <1>9 DEF NextSource, Return
<1>10. QED BY <1>2, <1>3, <1>4, <1>5, <1>6, <1>7, <1>8, <1>9 DEF Proceed

LEMMA StartAttended ==
  ASSUME Inv, NEW p \in Procs,
         \/ \E s \in Requests : StartAdd(p, s)
         \/ \E n \in Names : StartRemove(p, n)
         \/ \E f \in Files : StartApply(p, f)
  PROVE  Attended(p)'
<1>1. CASE (\E s \in Requests : StartAdd(p, s)) \/ (\E n \in Names : StartRemove(p, n))
  BY <1>1 DEF StartAdd, StartRemove, Start, Attended, Inv, Shapes
<1>2. ASSUME NEW f \in Files, StartApply(p, f) PROVE Attended(p)'
  <2>1. \/ pc'[p] = "next"
        \/ pc'[p] = "idle" /\ reply'[p] = "HUB_UNAVAILABLE"
    BY <1>2 DEF StartApply, Start, Return, Inv, Shapes
  <2>2. line'[p] = 1 /\ file'[p] = f
    BY <1>2 DEF StartApply, Start, Inv, Shapes
  <2>3. \A i \in DOMAIN f : ~(i < 1)
    BY FilesAssumption
  <2>4. QED BY <2>1, <2>2, <2>3 DEF Attended, Attaching, Behind
<1>3. QED BY <1>1, <1>2

LEMMA NextAttended ==
  ASSUME ApplyInv, [Next]_vars
  PROVE  ApplyInv'
<1>1. Inv /\ Inv'
  BY NextInv DEF ApplyInv
<1>2. CASE UNCHANGED vars
  BY <1>1, <1>2, AttendedApart DEF vars, ApplyInv
<1>3. ASSUME NEW p \in Procs,
             \/ \E s \in Requests : StartAdd(p, s)
             \/ \E n \in Names : StartRemove(p, n)
             \/ \E f \in Files : StartApply(p, f)
             \/ Proceed(p)
             \/ Kill(p)
      PROVE  ApplyInv'
  <2>1. \A q \in Procs \ {p} : Attended(q)'
    BY <1>1, <1>3, AttendedElsewhere, AttendedApart DEF ApplyInv
  <2>2. Kill(p) => Attended(p)'
    BY <1>1 DEF Kill, Return, Attended, Attaching, Inv, Shapes
  <2>3. Attended(p)'
    BY <1>1, <1>3, <2>2, StartAttended, ProceedAttended DEF ApplyInv
  <2>4. QED BY <1>1, <2>1, <2>3 DEF ApplyInv
<1>4. QED BY <1>2, <1>3 DEF Next

\* One broken entry does not stop an apply, and neither does anything else that
\* leaves the process alive: an apply that ran to its end has a result for every
\* source of its file, for any files, faults and processes beside it.
THEOREM AppliesAttemptEverySource == Spec => []ApplyAttemptsEverySource
<1>1. Init => ApplyInv
  BY InitInv DEF Init, ApplyInv, Attended
<1>2. ApplyInv /\ [Next]_vars => ApplyInv'
  BY NextAttended
<1>3. ApplyInv => ApplyAttemptsEverySource
  BY DEF ApplyInv, Attended, Noted, ApplyAttemptsEverySource
<1>4. QED BY <1>1, <1>2, <1>3, PTL DEF Spec
=============================================================================
