------------------------- MODULE ExtensionShimProofs -------------------------
(***************************************************************************)
(* Theorems about ExtensionShim, and about HubReads under it.              *)
(***************************************************************************)
EXTENDS ExtensionShim, FederationHubProofs

USE DEF hub, task, reads, shim, orphans

Places == {"idle", "engine", "tables", "probe", "touch", "dial", "databases", "rows", "done"}
Codes  == {"none", "ok", "INVALID", "SOURCE_NOT_FOUND", "HUB_UNAVAILABLE", "CONNECTION_FAILED",
           "INTERNAL_ERROR"}
Entries  == [type: Types, target: Targets]
Readings == [op: ReadOps \cup {"none"}, name: Names \cup {None}, at: Places,
             rows: SUBSET RowsOf, todo: SUBSET Names, code: Codes]

\* Each label belongs to its subcommands.
ReadControl(w) ==
  LET r == reading[w] IN
  /\ r.op = "none" => r = NoRead
  /\ r.op # "none" => r.name \in Names
  /\ r.at = "idle" => r.op = "none"
  /\ r.at \in {"engine", "tables", "probe", "touch"} => r.op \in {"tables", "probe"}
  /\ r.at \in {"databases", "rows"} => r.op = "list"
  /\ r.at = "dial" => r.op = "test"
  /\ r.at # "done" => r.code = "none"

ReadShapes ==
  /\ reading \in [Workers -> Readings]
  /\ seen \in [Workers -> SUBSET [Names -> Entries \cup {None}]]

Statuses == {0, 200, 201, 400, 403, 404, 409, 500, 502}

ShimShapes ==
  /\ serving \in [Workers -> BOOLEAN]
  /\ status \in [Workers -> Statuses]
  /\ logged \in [Workers -> Lines \cup {None}]
  /\ change \in [Workers -> Lines \cup {None}]

\* What a killed process can have left to the hub: a CREATE has its declaration,
\* and a DROP DATABASE comes from a removal.
Lawful(l) ==
  /\ l \in LateStatements
  /\ l.do \in {"create collection", "create database"} => l.of \in Sources
  /\ l.do = "create collection" => HasCollection(l.of.type)
  /\ l.do = "drop database" => l.op = "remove"

Orphans ==
  /\ \A l \in late : Lawful(l)
  /\ left \in 0 .. MaxLate
  /\ left = 0 => late = {}

\* Nobody applies, and what has succeeded knows its source.
Called(p) ==
  /\ op[p] # "apply"
  /\ pc[p] = "idle" /\ reply[p] = "ok" =>
       op[p] \in {"add", "remove"} /\ src[p] \in Subjects /\ src[p].type \in Types

Serves(w) ==
  /\ pc[w] # "idle" => serving[w] /\ reading[w] = NoRead
  /\ reading[w] # NoRead => serving[w]

Sound ==
  /\ Inv /\ ReadShapes /\ ShimShapes /\ Orphans
  /\ \A p \in Procs : Called(p)
  /\ \A w \in Workers : ReadControl(w) /\ Serves(w)
----------------------------------------------------------------------------
(***************************************************************************)
(* What the extension adds to the processes of FederationHub.              *)
(***************************************************************************)
\* A process ends without a word, wherever it is.
LEMMA QuitInv ==
  ASSUME Inv, NEW p \in Procs, NEW code \in Replies, Return(p, code),
         UNCHANGED <<database, collection, op, file, src, step, line, report, faults>>
  PROVE  Inv'
<1>1. Shapes'
  BY DEF Return, Inv, Shapes, Labels
<1>2. Local(p)'
  BY DEF Return, Inv, Shapes, Local, SubjectOK, ControlOK
<1>3. Elsewhere(p)
  BY DEF Return, Inv, Shapes, Elsewhere
<1>4. QED BY <1>1, <1>2, <1>3, Frame

LEMMA ForgetInv ==
  ASSUME Inv, NEW p \in Procs, pc[p] = "idle", Forget(p) PROVE Inv'
<1>1. Shapes'
  <2>1. NoReport \in [Names -> Results]
    BY DEF NoReport, Results
  <2>2. report' \in [Procs -> [Names -> Results]]
    BY <2>1 DEF Forget, Inv, Shapes
  <2>3. reply' \in [Procs -> Replies]
    BY DEF Forget, Inv, Shapes, Replies, Results
  <2>4. src' \in [Procs -> Subjects \cup {None}] /\ file' \in [Procs -> Files \cup {<<>>}]
    BY DEF Forget, Inv, Shapes
  <2>5. step' \in [Procs -> 0..3] /\ line' \in [Procs -> Nat \ {0}]
    BY DEF Forget, Inv, Shapes
  <2>6. QED BY <2>2, <2>3, <2>4, <2>5 DEF Forget, Inv, Shapes
<1>2. Local(p)'
  BY DEF Forget, Inv, Shapes, Local, SubjectOK, ControlOK
<1>3. Elsewhere(p)
  BY DEF Forget, Inv, Shapes, Elsewhere
<1>4. QED BY <1>1, <1>2, <1>3, Frame

\* A statement without its process does what statements do.
LEMMA LateInv ==
  ASSUME Inv, Orphans, Late PROVE Inv'
<1>1. PICK l \in late :
        IF Accepts(l.do, l.of) THEN Execute(l.do, l.of) ELSE UNCHANGED hub
  BY DEF Late
<1>2. Lawful(l) /\ l.of \in Subjects
  BY DEF Orphans, Lawful, LateStatements
<1>3. /\ database' \in [Names -> Databases \cup {None}]
      /\ collection' \in [Names -> Logins \cup {None}]
  BY <1>1, <1>2, ExecuteType DEF Inv, Shapes, Lawful
<1>4. UNCHANGED <<pc, op, file, src, step, line, report, reply, faults>>
  BY DEF Late
<1>5. Shapes'
  BY <1>3, <1>4 DEF Inv, Shapes
<1>6. \A p \in Procs : Local(p)'
  BY <1>4 DEF Inv, Local, SubjectOK, ControlOK
<1>7. QED BY <1>5, <1>6 DEF Inv

\* What a killed process leaves to the hub is the statement of its plan.
LEMMA InFlightLawful ==
  ASSUME Inv, NEW p \in Procs, NEW l \in InFlight(p)
  PROVE  Lawful(l)
<1> DEFINE attach == AttachPlan(src[p].type)
           detach == DetachPlan(src[p].type)
           i == step[p]
           Left(do) == l = [op |-> op[p], do |-> do, of |-> Text(do, src[p])]
<1>1. \/ pc[p] = "attach" /\ i <= Len(attach) /\ Left(attach[i].do)
      \/ pc[p] = "rollback" /\ i > 0 /\ Left(attach[i].undo)
      \/ pc[p] = "detach" /\ i <= Len(detach) /\ Left(detach[i])
  BY DEF InFlight
<1>2. src[p] \in Subjects /\ op[p] \in Operations
  BY <1>1 DEF Inv, Shapes, Local, SubjectOK, ControlOK, Sources, Subjects
<1>3. [name |-> src[p].name, type |-> None, target |-> None, secret |-> None] \in Subjects
  BY <1>2 DEF Subjects
<1>4. CASE pc[p] = "attach" /\ i <= Len(attach) /\ Left(attach[i].do)
  <2>1. src[p] \in Sources /\ i \in 1 .. Len(attach) + 1 /\ Len(attach) \in {1, 2}
    BY <1>4, AttachLength DEF Inv, Local, SubjectOK, ControlOK
  <2>2. i \in 1 .. Len(attach)
    BY <1>4, <2>1
  <2>3. \/ HasCollection(src[p].type) /\ attach[i].do = "create collection"
        \/ attach[i].do = "create database"
    BY <2>2, AttachDo
  <2>4. Text(attach[i].do, src[p]) = src[p]
    BY <2>3 DEF Text
  <2>5. QED BY <1>2, <1>4, <2>1, <2>3, <2>4 DEF Lawful, LateStatements
<1>5. CASE pc[p] = "rollback" /\ i > 0 /\ Left(attach[i].undo)
  <2>1. i \in 0 .. Len(attach) - 1 /\ i # 0
    BY <1>5 DEF Inv, Shapes, Local, ControlOK
  <2>2. attach[i].undo = "drop collection"
    BY <2>1, AttachUndo
  <2>3. QED BY <1>2, <1>3, <1>5, <2>2 DEF Lawful, LateStatements, Text
<1>6. CASE pc[p] = "detach" /\ i <= Len(detach) /\ Left(detach[i])
  <2>1. i \in 1 .. 3 /\ op[p] = "remove"
    BY <1>6 DEF Inv, Shapes, Local, ControlOK
  <2>2. detach[i] \in {"drop database", "drop collection"}
    BY <1>6, <2>1, DetachDo
  <2>3. QED BY <1>2, <1>3, <1>6, <2>1, <2>2 DEF Lawful, LateStatements, Text
<1>7. QED BY <1>1, <1>4, <1>5, <1>6

LEMMA LeavesOrphans ==
  ASSUME Inv, Orphans, NEW p \in Procs, Leaves(p) PROVE Orphans'
<1>1. CASE UNCHANGED orphans
  BY <1>1 DEF Orphans
<1>2. CASE /\ left < MaxLate
           /\ left' = left + 1
           /\ \E l \in InFlight(p) : late' = late \cup {l}
  <2>1. left' \in 0 .. MaxLate /\ left' # 0
    BY <1>2, LateAssumption DEF Orphans
  <2>2. \A l \in late' : Lawful(l)
    BY <1>2, InFlightLawful DEF Orphans
  <2>3. Orphans'
    BY <2>1, <2>2 DEF Orphans, Lawful
  <2>4. QED BY <2>3
<1>3. QED BY <1>1, <1>2 DEF Leaves
----------------------------------------------------------------------------
(***************************************************************************)
(* One step of a fedctl that does not apply.                               *)
(***************************************************************************)
LEMMA ProceedApart ==
  ASSUME Inv, NEW p \in Procs, Proceed(p)
  PROVE  /\ pc[p] # "idle" /\ UNCHANGED <<op, file>>
         /\ \A q \in Procs \ {p} : /\ pc'[q] = pc[q] /\ src'[q] = src[q]
                                   /\ step'[q] = step[q] /\ reply'[q] = reply[q]
<1>1. /\ pc \in [Procs -> Labels] /\ src \in [Procs -> Subjects \cup {None}]
      /\ step \in [Procs -> 0..3] /\ reply \in [Procs -> Replies]
  BY DEF Inv, Shapes
<1>2. CASE CheckExists(p)
  BY <1>1, <1>2 DEF CheckExists, Return
<1>3. CASE Validate(p)
  BY <1>1, <1>3 DEF Validate, AttachReturns, Return
<1>4. CASE AttachStep(p)
  BY <1>1, <1>4 DEF AttachStep, AttachReturns, Return
<1>5. CASE RollbackStep(p)
  BY <1>1, <1>5 DEF RollbackStep, AttachReturns, Return
<1>6. CASE LookUpEngine(p)
  BY <1>1, <1>6 DEF LookUpEngine, Return
<1>7. CASE LookUpHost(p)
  BY <1>1, <1>7 DEF LookUpHost
<1>8. CASE DetachStep(p)
  BY <1>1, <1>8 DEF DetachStep, Return
<1>9. CASE NextSource(p)
  BY <1>1, <1>9 DEF NextSource, Return
<1>10. QED BY <1>2, <1>3, <1>4, <1>5, <1>6, <1>7, <1>8, <1>9 DEF Proceed

\* What an add puts on the hub.
Wished(s, login) == [type |-> s.type, target |-> s.target, login |-> login]

\* A database comes with the last statement of an attach and goes with the first of
\* a detach.
AddsIt(p) ==
  LET n == src[p].name IN
  /\ pc[p] = "attach" /\ src[p] \in Sources /\ step[p] = Len(AttachPlan(src[p].type))
  /\ database[n] = None
  /\ \E login \in Logins \cup {None} : database' = [database EXCEPT ![n] = Wished(src[p], login)]

DropsIt(p) ==
  LET n == src[p].name IN
  /\ pc[p] = "detach" /\ op[p] = "remove" /\ src[p] \in Subjects /\ src[p].type \in Types
  /\ step[p] = 1 /\ database[n] # None
  /\ database' = [database EXCEPT ![n] = None]

LEMMA WishedIsThere ==
  ASSUME NEW s \in Sources, NEW login \in Logins \cup {None}
  PROVE  Wished(s, login) \in Databases /\ Wished(s, login) # None
<1>1. Wished(s, login) \in Databases
  BY DEF Wished, Sources, Databases
<1>2. QED BY <1>1, NoneAssumption

LEMMA ProceedChanges ==
  ASSUME Inv, NEW p \in Procs, Proceed(p), database' # database
  PROVE  AddsIt(p) \/ DropsIt(p)
<1> DEFINE attach == AttachPlan(src[p].type)
           detach == DetachPlan(src[p].type)
           i == step[p]
<1>1. AttachStep(p) \/ RollbackStep(p) \/ DetachStep(p)
  BY DEF Proceed, CheckExists, Validate, LookUpEngine, LookUpHost, NextSource
<1>2. ASSUME NEW statement, NEW phase,
             Acknowledged(statement, src[p]) \/ Failed(p, phase, statement, src[p])
      PROVE  /\ statement \in {"create database", "drop database"}
             /\ statement = "create database" => CreateDatabase(src[p])
             /\ statement = "drop database" => DropDatabase(src[p])
  <2>1. Execute(statement, src[p])
    BY <1>2 DEF Acknowledged, Failed, Refused, Unanswered
  <2>2. QED BY <2>1 DEF Execute, CreateCollection, DropCollection
<1>3. CASE AttachStep(p)
  <2>1. pc[p] = "attach" /\ src[p] \in Sources /\ i \in 1 .. Len(attach) + 1
    BY <1>3 DEF AttachStep, Inv, Local, SubjectOK, ControlOK
  <2>2. i <= Len(attach) /\ (Acknowledged(attach[i].do, src[p]) \/ Failed(p, "attach", attach[i].do, src[p]))
    BY <1>3 DEF AttachStep
  <2>3. Len(attach) \in {1, 2}
    BY AttachLength
  <2>4. i \in 1 .. Len(attach)
    BY <2>1, <2>2, <2>3
  <2>5. \/ HasCollection(src[p].type) /\ i = 1 /\ attach[i].do = "create collection"
        \/ i = Len(attach) /\ attach[i].do = "create database"
    BY <2>4, AttachDo
  <2>6. i = Len(attach) /\ CreateDatabase(src[p])
    BY <1>2, <2>2, <2>5
  <2>7. src[p].name \in Names /\ collection[src[p].name] \in Logins \cup {None}
    BY <2>1 DEF Inv, Shapes, Sources
  <2>8. AddsIt(p)
    BY <2>1, <2>6, <2>7 DEF AddsIt, CreateDatabase, Wished
  <2>9. QED BY <2>8
<1>4. CASE RollbackStep(p)
  <2>1. i \in 0 .. Len(attach) - 1
    BY <1>4 DEF RollbackStep, Inv, Local, ControlOK
  <2>2. i # 0 /\ (Acknowledged(attach[i].undo, src[p]) \/ Failed(p, "rollback", attach[i].undo, src[p]))
    BY <1>4 DEF RollbackStep, Undone
  <2>3. attach[i].undo = "drop collection"
    BY <2>1, <2>2, AttachUndo
  <2>4. QED BY <1>2, <2>2, <2>3
<1>5. CASE DetachStep(p)
  <2>1. /\ pc[p] = "detach" /\ op[p] = "remove" /\ src[p] \in Subjects /\ src[p].type \in Types
        /\ i \in 1 .. 3 /\ src[p].name \in Names
    BY <1>5 DEF DetachStep, Inv, Shapes, Local, SubjectOK, ControlOK, Subjects
  <2>2. i <= Len(detach) /\ (Acknowledged(detach[i], src[p]) \/ Failed(p, "detach", detach[i], src[p]))
    BY <1>5 DEF DetachStep
  <2>3. \/ i = 1 /\ detach[i] = "drop database"
        \/ i = 2 /\ detach[i] = "drop collection"
    BY <2>1, <2>2, DetachDo
  <2>4. i = 1 /\ DropDatabase(src[p])
    BY <1>2, <2>2, <2>3
  <2>5. database[src[p].name] # None
    BY <2>1, <2>4 DEF DropDatabase, Inv, Shapes
  <2>6. DropsIt(p)
    BY <2>1, <2>4, <2>5 DEF DropsIt, DropDatabase
  <2>7. QED BY <2>6
<1>6. QED BY <1>1, <1>3, <1>4, <1>5

\* A plan that has run to its end is what makes a reply good.
LEMMA ProceedSucceeds ==
  ASSUME Inv, NEW p \in Procs, op[p] # "apply", Proceed(p), pc'[p] = "idle", reply'[p] = "ok"
  PROVE  /\ \/ /\ pc[p] = "attach" /\ op[p] = "add" /\ src[p] \in Sources
               /\ step[p] > Len(AttachPlan(src[p].type))
            \/ /\ pc[p] = "detach" /\ op[p] = "remove" /\ src[p] \in Subjects
               /\ src[p].type \in Types /\ step[p] > Len(DetachPlan(src[p].type))
         /\ UNCHANGED <<database, collection, src>>
<1>1. pc \in [Procs -> Labels] /\ reply \in [Procs -> Replies] /\ pc[p] # "idle"
  BY ProceedApart DEF Inv, Shapes
<1>2. Local(p)
  BY DEF Inv
<1>3. CASE CheckExists(p)
  BY <1>1, <1>3 DEF CheckExists, Return
<1>4. CASE Validate(p)
  BY <1>1, <1>2, <1>4 DEF Validate, AttachReturns, Return
<1>5. CASE AttachStep(p)
  <2>1. pc[p] = "attach" /\ op[p] = "add" /\ src[p] \in Sources
    BY <1>2, <1>5 DEF AttachStep, Local, SubjectOK, ControlOK
  <2>2. step[p] > Len(AttachPlan(src[p].type)) /\ UNCHANGED <<database, collection, src>>
    BY <1>1, <1>5, <2>1 DEF AttachStep
  <2>3. QED BY <2>1, <2>2
<1>6. CASE RollbackStep(p)
  BY <1>1, <1>6 DEF RollbackStep, AttachReturns, Return
<1>7. CASE LookUpEngine(p)
  BY <1>1, <1>7 DEF LookUpEngine, AfterEngine, Return
<1>8. CASE LookUpHost(p)
  BY <1>1, <1>8 DEF LookUpHost
<1>9. CASE DetachStep(p)
  <2>1. pc[p] = "detach" /\ op[p] = "remove" /\ src[p] \in Subjects /\ src[p].type \in Types
    BY <1>2, <1>9 DEF DetachStep, Local, SubjectOK, ControlOK
  <2>2. step[p] > Len(DetachPlan(src[p].type)) /\ UNCHANGED <<database, collection, src>>
    BY <1>1, <1>9, <2>1 DEF DetachStep, Return
  <2>3. QED BY <2>1, <2>2
<1>10. CASE NextSource(p)
  BY <1>2, <1>10 DEF NextSource, Local, ControlOK
<1>11. QED BY <1>3, <1>4, <1>5, <1>6, <1>7, <1>8, <1>9, <1>10 DEF Proceed

LEMMA StartApart ==
  ASSUME Inv, NEW p \in Procs,
         (\E s \in Requests : StartAdd(p, s)) \/ (\E n \in Names : StartRemove(p, n))
  PROVE  /\ pc[p] = "idle" /\ UNCHANGED <<database, collection>>
         /\ op'[p] \in {"add", "remove"}
         /\ \/ pc'[p] \in {"exists", "engine"} /\ reply'[p] = "none" /\ UNCHANGED faults
            \/ pc'[p] = "idle" /\ reply'[p] = "HUB_UNAVAILABLE" /\ QueryFails(op'[p])
         /\ \A q \in Procs \ {p} : /\ pc'[q] = pc[q] /\ src'[q] = src[q] /\ op'[q] = op[q]
                                   /\ step'[q] = step[q] /\ reply'[q] = reply[q]
BY DEF StartAdd, StartRemove, Start, Return, Inv, Shapes

LEMMA KillApart ==
  ASSUME Inv, NEW p \in Procs, NEW code, Return(p, code)
  PROVE  /\ pc'[p] = "idle" /\ reply'[p] = code
         /\ \A q \in Procs \ {p} : pc'[q] = pc[q] /\ reply'[q] = reply[q]
BY DEF Return, Inv, Shapes
----------------------------------------------------------------------------
(***************************************************************************)
(* Types and control, for any number of workers, terminals and late        *)
(* statements.                                                             *)
(***************************************************************************)
WorkersAreProcs == \A w \in Workers : w \in Procs

LEMMA EveryWorker == WorkersAreProcs
BY WorkersAssumption DEF WorkersAreProcs

LEMMA CatalogueType ==
  ASSUME database \in [Names -> Databases \cup {None}]
  PROVE  Catalogue \in [Names -> Entries \cup {None}]
BY DEF Catalogue, EntryOf, Entries, Databases

LEMMA NextCatalogueType ==
  ASSUME database' \in [Names -> Databases \cup {None}]
  PROVE  Catalogue' \in [Names -> Entries \cup {None}]
BY DEF Catalogue, EntryOf, Entries, Databases

LEMMA ObserveShapes ==
  ASSUME ReadShapes, Inv', reading' \in [Workers -> Readings], Observe
  PROVE  ReadShapes'
<1>1. Catalogue' \in [Names -> Entries \cup {None}]
  BY NextCatalogueType DEF Inv, Shapes
<1>2. seen' \in [Workers -> SUBSET [Names -> Entries \cup {None}]]
  BY <1>1 DEF Observe, ReadShapes
<1>3. QED BY <1>2 DEF ReadShapes

LEMMA AuditedLine ==
  ASSUME NEW w, Called(w), pc[w] = "idle", reply[w] = "ok"
  PROVE  Audited(w) \in Lines
BY DEF Called, Audited, AuditLine, Lines, HostOf, Subjects

\* The readings of a worker that keeps reading, and of one that stops.
LEMMA NoReadType == NoRead \in Readings
BY DEF NoRead, Readings, ReadOps, Places, Codes

LEMMA GoesType ==
  ASSUME ReadShapes, NEW w \in Workers, NEW r \in Readings, Goes(w, r)
  PROVE  /\ reading' \in [Workers -> Readings] /\ reading'[w] = r
         /\ \A v \in Workers \ {w} : reading'[v] = reading[v]
BY DEF ReadShapes, Goes

\* A step that changes nothing of the other workers but perhaps the hub.
OnlyWorker(w) ==
  \A v \in Workers \ {w} :
    /\ reading'[v] = reading[v] /\ serving'[v] = serving[v] /\ status'[v] = status[v]
    /\ logged'[v] = logged[v] /\ change'[v] = change[v]

OnlyProc(p) ==
  \A q \in Procs \ {p} :
    /\ pc'[q] = pc[q] /\ op'[q] = op[q] /\ src'[q] = src[q] /\ step'[q] = step[q]
    /\ reply'[q] = reply[q]

LEMMA SoundFrame ==
  ASSUME Sound, NEW p \in Procs, Inv', ReadShapes', ShimShapes', Orphans',
         OnlyProc(p), OnlyWorker(p), Called(p)',
         p \in Workers => ReadControl(p)' /\ Serves(p)'
  PROVE  Sound'
<1>1. \A q \in Procs : Called(q)'
  BY DEF Sound, OnlyProc, Called
<1>2. \A w \in Workers : ReadControl(w)' /\ Serves(w)'
  BY EveryWorker DEF Sound, OnlyProc, OnlyWorker, ReadControl, Serves, WorkersAreProcs
<1>3. QED BY <1>1, <1>2 DEF Sound

\* The hub is left to somebody who is not there.
LEMMA LateSound ==
  ASSUME Sound, Late PROVE Sound'
<1>1. Inv'
  BY LateInv DEF Sound
<1>2. UNCHANGED <<pc, op, src, reply, reading, serving, status, logged, change, left>>
  BY DEF Late
<1>3. ReadShapes'
  BY <1>1, <1>2, ObserveShapes DEF Sound, ReadShapes, Late
<1>4. Orphans'
  <2>1. \E l \in late : late' = late \ {l}
    BY DEF Late
  <2>2. QED BY <1>2, <2>1 DEF Sound, Orphans, Lawful
<1>5. ShimShapes' /\ \A p \in Procs : Called(p)'
  BY <1>2 DEF Sound, ShimShapes, Called
<1>6. \A w \in Workers : ReadControl(w)' /\ Serves(w)'
  BY <1>2 DEF Sound, ReadControl, Serves
<1>7. QED BY <1>1, <1>3, <1>4, <1>5, <1>6 DEF Sound

LEMMA ChangeType ==
  ASSUME Sound, Inv', NEW p \in Workers, AddsIt(p) \/ DropsIt(p), op[p] \in {"add", "remove"}
  PROVE  LET n  == src[p].name
             db == IF database'[n] = None THEN database[n] ELSE database'[n] IN
         AuditLine(op[p], n, db.type, HostOf(db.type, db.target)) \in Lines
<1> DEFINE n == src[p].name
           db == IF database'[n] = None THEN database[n] ELSE database'[n]
<1>1. n \in Names /\ database[n] \in Databases \cup {None} /\ database'[n] \in Databases \cup {None}
  BY DEF Sound, Inv, Shapes, AddsIt, DropsIt, Sources, Subjects
<1>2. database[n] # None \/ database'[n] # None
  <2>1. CASE DropsIt(p)
    BY <2>1 DEF DropsIt
  <2>2. CASE AddsIt(p)
    <3>1. PICK login \in Logins \cup {None} : database' = [database EXCEPT ![n] = Wished(src[p], login)]
      BY <2>2 DEF AddsIt
    <3>2. database'[n] = Wished(src[p], login)
      BY <1>1, <3>1 DEF Sound, Inv, Shapes
    <3>3. Wished(src[p], login) # None
      BY <2>2, WishedIsThere DEF AddsIt
    <3>4. QED BY <3>2, <3>3
  <2>3. QED BY <2>1, <2>2
<1>3. db \in Databases
  BY <1>1, <1>2
<1>4. QED BY <1>1, <1>3 DEF AuditLine, Lines, HostOf, Databases

LEMMA HubNextInv ==
  ASSUME Inv, NEW p \in Procs,
         \/ \E s \in Requests : StartAdd(p, s)
         \/ \E n \in Names : StartRemove(p, n)
         \/ Proceed(p) \/ Kill(p)
  PROVE  Inv'
BY NextInv DEF Next

LEMMA SameReads ==
  ASSUME Sound, UNCHANGED reading
  PROVE  reading' \in [Workers -> Readings] /\ \A w \in Workers : ReadControl(w)'
BY DEF Sound, ReadShapes, ReadControl

LEMMA FedctlSound ==
  ASSUME Sound, NEW p \in Procs, Fedctl(p) PROVE Sound'
<1>1. /\ Inv /\ Called(p) /\ pc \in [Procs -> Labels]
      /\ change \in [Workers -> Lines \cup {None}]
  BY DEF Sound, Inv, Shapes, ShimShapes
<1>2. Inv'
  BY <1>1, HubNextInv DEF Fedctl
<1>3. /\ pc[p] # "idle" /\ UNCHANGED op
      /\ \A q \in Procs \ {p} : /\ pc'[q] = pc[q] /\ src'[q] = src[q]
                                /\ step'[q] = step[q] /\ reply'[q] = reply[q]
  BY <1>1, ProceedApart, KillApart DEF Fedctl, Kill
<1>4. reading' \in [Workers -> Readings] /\ UNCHANGED <<reading, serving, status, logged>>
  BY SameReads DEF Fedctl
<1>5. ReadShapes'
  BY <1>2, <1>4, ObserveShapes DEF Sound, Fedctl
<1>6. Orphans'
  BY <1>1, LeavesOrphans DEF Fedctl, Sound, Orphans
<1>7. \A w \in Workers \ {p} : change'[w] = change[w]
  BY <1>1 DEF Fedctl
<1>8. change' \in [Workers -> Lines \cup {None}]
  <2>1. CASE p \in Workers /\ database' # database
    <3>1. AddsIt(p) \/ DropsIt(p)
      BY <1>1, <2>1, ProceedChanges DEF Fedctl, Kill
    <3>2. op[p] \in {"add", "remove"}
      BY <1>1, <3>1, OperationsAssumption
         DEF AddsIt, DropsIt, Called, Inv, Local, ControlOK
    <3> DEFINE n  == src[p].name
               db == IF database'[n] = None THEN database[n] ELSE database'[n]
               noted == AuditLine(op[p], n, db.type, HostOf(db.type, db.target))
    <3>3. noted \in Lines
      BY <1>2, <2>1, <3>1, <3>2, ChangeType
    <3>4. change' = [change EXCEPT ![p] = noted]
      BY <2>1 DEF Fedctl
    <3>5. QED BY <1>1, <3>3, <3>4
  <2>2. CASE ~(p \in Workers /\ database' # database)
    BY <1>1, <2>2 DEF Fedctl
  <2>3. QED BY <2>1, <2>2
<1>9. ShimShapes'
  BY <1>4, <1>8 DEF Sound, ShimShapes
<1>10. OnlyProc(p) /\ OnlyWorker(p)
  BY <1>3, <1>4, <1>7 DEF OnlyProc, OnlyWorker
<1>11. Called(p)'
  <2>1. CASE Kill(p)
    BY <1>1, <2>1 DEF Kill, Return, Called, Inv, Shapes
  <2>2. ASSUME Proceed(p), pc'[p] = "idle", reply'[p] = "ok"
        PROVE  op'[p] \in {"add", "remove"} /\ src'[p] \in Subjects /\ src'[p].type \in Types
    BY <1>1, <1>3, <2>2, ProceedSucceeds DEF Called, Sources, Subjects
  <2>3. op'[p] # "apply"
    BY <1>1, <1>3 DEF Called
  <2>4. QED BY <2>1, <2>2, <2>3 DEF Fedctl, Called
<1>12. p \in Workers => ReadControl(p)' /\ Serves(p)'
  BY <1>3, <1>4, SameReads DEF Sound, Serves
<1>13. QED BY <1>2, <1>5, <1>6, <1>9, <1>10, <1>11, <1>12, SoundFrame

LEMMA TerminalSound ==
  ASSUME Sound, NEW p \in Procs, Terminal(p) PROVE Sound'
<1>1. Inv /\ p \notin Workers
  BY DEF Sound, Terminal
<1>2. Inv'
  BY <1>1, HubNextInv DEF Terminal
<1>3. UNCHANGED <<reading, serving, status, logged, change, late, left>>
  BY DEF Terminal
<1>4. ReadShapes'
  BY <1>2, <1>3, SameReads, ObserveShapes DEF Sound, Terminal
<1>5. ShimShapes' /\ Orphans'
  BY <1>3 DEF Sound, ShimShapes, Orphans
<1>6. OnlyProc(p) /\ OnlyWorker(p)
  BY <1>1, <1>3, StartApart DEF Terminal, OnlyProc, OnlyWorker
<1>7. Called(p)'
  BY <1>1, StartApart DEF Terminal, Called
<1>8. QED BY <1>1, <1>2, <1>4, <1>5, <1>6, <1>7, SoundFrame

\* A request is refused, or it starts a fedctl of the worker's.
LEMMA RefusedSound ==
  ASSUME Sound, NEW w \in Workers, status' = [status EXCEPT ![w] = 403],
         logged' = [logged EXCEPT ![w] = None], change' = [change EXCEPT ![w] = None],
         UNCHANGED <<vars, reading, serving, late, left>>, Observe
  PROVE  Sound'
<1>1. UNCHANGED <<pc, op, src, reply, database, collection>>
  BY DEF vars
<1>2. Inv'
  BY DEF vars, Sound, Inv, Shapes, Local, SubjectOK, ControlOK
<1>3. ReadShapes'
  BY <1>2, SameReads, ObserveShapes DEF Sound
<1>4. ShimShapes' /\ Orphans'
  BY DEF Sound, ShimShapes, Orphans, Statuses
<1>5. \A p \in Procs : Called(p)'
  BY <1>1 DEF Sound, Called
<1>6. \A v \in Workers : ReadControl(v)' /\ Serves(v)'
  BY <1>1, SameReads DEF Sound, Serves
<1>7. QED BY <1>2, <1>3, <1>4, <1>5, <1>6 DEF Sound

\* What a request that is let through does to the worker.
Begins(w) ==
  /\ ~serving[w]
  /\ serving' = [serving EXCEPT ![w] = TRUE] /\ status' = [status EXCEPT ![w] = 0]
  /\ logged' = [logged EXCEPT ![w] = None] /\ change' = [change EXCEPT ![w] = None]
  /\ Observe /\ UNCHANGED <<late, left>>

LEMMA BeginsShapes ==
  ASSUME Sound, NEW w \in Workers, Begins(w)
  PROVE  /\ ShimShapes' /\ Orphans' /\ serving'[w] /\ status'[w] = 0
         /\ logged'[w] = None /\ change'[w] = None
         /\ pc[w] = "idle" /\ reading[w] = NoRead
         /\ \A v \in Workers \ {w} : /\ serving'[v] = serving[v] /\ status'[v] = status[v]
                                     /\ logged'[v] = logged[v] /\ change'[v] = change[v]
BY DEF Sound, ShimShapes, Orphans, Statuses, Begins, Serves

LEMMA MutationSound ==
  ASSUME Sound, NEW w \in Workers, Begins(w), UNCHANGED reading,
         (\E s \in Requests : StartAdd(w, s)) \/ (\E n \in Names : StartRemove(w, n))
  PROVE  Sound'
<1>1. w \in Procs /\ Inv
  BY EveryWorker DEF WorkersAreProcs, Sound
<1>2. Inv'
  BY <1>1, HubNextInv
<1>3. ReadShapes'
  BY <1>2, SameReads, ObserveShapes DEF Sound, Begins
<1>4. OnlyProc(w) /\ OnlyWorker(w)
  BY <1>1, StartApart, BeginsShapes DEF OnlyProc, OnlyWorker
<1>5. Called(w)'
  BY <1>1, StartApart DEF Called
<1>6. ReadControl(w)' /\ Serves(w)'
  BY SameReads, BeginsShapes DEF Serves
<1>7. QED BY <1>1, <1>2, <1>3, <1>4, <1>5, <1>6, BeginsShapes, SoundFrame

\* Where a reading begins.
Begun(r, kind, n) ==
  /\ r.op = kind /\ r.name = n
  /\ \/ r.at = "done" /\ r.code = "HUB_UNAVAILABLE"
     \/ r.code = "none" /\ kind = "list" /\ r.at = "databases"
     \/ r.code = "none" /\ kind = "test" /\ r.at = "dial"
     \/ r.code = "none" /\ kind \in {"tables", "probe"} /\ r.at = "engine"

LEMMA StartReads ==
  ASSUME NEW w \in Workers, NEW kind \in ReadOps, NEW n \in Names, StartRead(w, kind, n)
  PROVE  \E r \in Readings : Goes(w, r) /\ Begun(r, kind, n)
<1> DEFINE r0 == [NoRead EXCEPT !.op = kind, !.name = n]
           place == IF kind = "list" THEN "databases" ELSE IF kind = "test" THEN "dial" ELSE "engine"
           r1 == [r0 EXCEPT !.at = place]
           r2 == [r0 EXCEPT !.at = "done", !.code = "HUB_UNAVAILABLE"]
<1>1. r1 \in Readings /\ r2 \in Readings
  BY DEF NoRead, Readings, ReadOps, Places, Codes
<1>2. r1.op = kind /\ r1.name = n /\ r1.at = place /\ r1.code = "none"
  BY DEF NoRead
<1>3. r2.op = kind /\ r2.name = n /\ r2.at = "done" /\ r2.code = "HUB_UNAVAILABLE"
  BY DEF NoRead
<1>4. Goes(w, r1) \/ Goes(w, r2)
  BY DEF StartRead
<1>5. QED BY <1>1, <1>2, <1>3, <1>4 DEF ReadOps, Begun

LEMMA ReadSound ==
  ASSUME Sound, NEW w \in Workers, Begins(w), NEW kind \in ReadOps, NEW n \in Names,
         StartRead(w, kind, n), Forget(w)
  PROVE  Sound'
<1>1. w \in Procs /\ Inv /\ Called(w) /\ pc[w] = "idle"
  BY EveryWorker, BeginsShapes DEF WorkersAreProcs, Sound
<1>2. Inv'
  BY <1>1, ForgetInv
<1>3. PICK r \in Readings : Goes(w, r) /\ Begun(r, kind, n)
  BY StartReads
<1>4. /\ reading' \in [Workers -> Readings] /\ reading'[w] = r
      /\ \A v \in Workers \ {w} : reading'[v] = reading[v]
  BY <1>3, GoesType DEF Sound
<1>5. ReadShapes'
  BY <1>2, <1>4, ObserveShapes DEF Sound, Begins
<1>6. /\ OnlyProc(w) /\ OnlyWorker(w)
      /\ pc'[w] = "idle" /\ reply'[w] = "none" /\ op'[w] = op[w]
  BY <1>1, <1>4, BeginsShapes DEF OnlyProc, OnlyWorker, Forget, Inv, Shapes
<1>7. Called(w)'
  BY <1>1, <1>6 DEF Called
<1>8. ReadControl(w)' /\ Serves(w)'
  BY <1>3, <1>4, <1>6, BeginsShapes DEF ReadControl, Serves, ReadOps, Begun
<1>9. QED BY <1>1, <1>2, <1>5, <1>6, <1>7, <1>8, BeginsShapes, SoundFrame
----------------------------------------------------------------------------
(***************************************************************************)
(* The rest of what a worker and its fedctl do.                            *)
(***************************************************************************)
LEMMA SameHub ==
  ASSUME Inv, UNCHANGED vars
  PROVE  Inv' /\ UNCHANGED <<database, collection, pc, op, src, step, reply>>
BY DEF vars, Inv, Shapes, Local, SubjectOK, ControlOK

LEMMA MovesType ==
  ASSUME ReadShapes, NEW w \in Workers, NEW label \in Places, Moves(w, label)
  PROVE  /\ reading' \in [Workers -> Readings]
         /\ \A v \in Workers \ {w} : reading'[v] = reading[v]
         /\ reading'[w].op = reading[w].op /\ reading'[w].name = reading[w].name
         /\ reading'[w].at = label /\ reading'[w].code = reading[w].code
         /\ reading'[w].rows = reading[w].rows
<1> DEFINE r == [reading[w] EXCEPT !.at = label]
<1>1. reading[w] \in Readings
  BY DEF ReadShapes
<1>2. /\ r \in Readings /\ r.at = label
      /\ r.op = reading[w].op /\ r.name = reading[w].name /\ r.code = reading[w].code
      /\ r.rows = reading[w].rows
  BY <1>1 DEF Readings
<1>3. Goes(w, r)
  BY DEF Moves
<1>4. QED BY <1>2, <1>3, GoesType

LEMMA EndsType ==
  ASSUME ReadShapes, NEW w \in Workers, NEW code \in Codes, Ends(w, code)
  PROVE  /\ reading' \in [Workers -> Readings]
         /\ \A v \in Workers \ {w} : reading'[v] = reading[v]
         /\ reading'[w].op = reading[w].op /\ reading'[w].name = reading[w].name
         /\ reading'[w].at = "done" /\ reading'[w].code = code
         /\ reading'[w].rows = reading[w].rows
<1> DEFINE r == [reading[w] EXCEPT !.at = "done", !.code = code]
<1>1. reading[w] \in Readings /\ "done" \in Places
  BY DEF ReadShapes, Places
<1>2. /\ r \in Readings /\ r.at = "done"
      /\ r.op = reading[w].op /\ r.name = reading[w].name /\ r.code = code
      /\ r.rows = reading[w].rows
  BY <1>1 DEF Readings
<1>3. Goes(w, r)
  BY DEF Ends
<1>4. QED BY <1>2, <1>3, GoesType

\* Where a step of a list goes, with the rows it leaves.
LEMMA ListsType ==
  ASSUME ReadShapes, NEW w \in Workers, NEW rows \in SUBSET RowsOf, NEW todo \in SUBSET Names,
         Goes(w, [reading[w] EXCEPT !.at = "rows", !.todo = todo, !.rows = rows])
  PROVE  /\ reading' \in [Workers -> Readings]
         /\ \A v \in Workers \ {w} : reading'[v] = reading[v]
         /\ reading'[w].op = reading[w].op /\ reading'[w].name = reading[w].name
         /\ reading'[w].at = "rows" /\ reading'[w].code = reading[w].code
         /\ reading'[w].rows = rows
<1> DEFINE r == [reading[w] EXCEPT !.at = "rows", !.todo = todo, !.rows = rows]
<1>1. reading[w] \in Readings /\ "rows" \in Places
  BY DEF ReadShapes, Places
<1>2. /\ r \in Readings /\ r.at = "rows"
      /\ r.op = reading[w].op /\ r.name = reading[w].name /\ r.code = reading[w].code
      /\ r.rows = rows
  BY <1>1 DEF Readings
<1>3. QED BY <1>2, GoesType

\* The rows of the two queries of a list.
FirstRows == {[name |-> n, type |-> database[n].type, host |-> None] :
                n \in {m \in Names : database[m] # None}}

LEMMA ListStarts ==
  ASSUME Inv, ReadShapes, NEW w \in Workers, ListDatabases(w), ~Ends(w, "INTERNAL_ERROR")
  PROVE  \E todo \in SUBSET Names :
           /\ FirstRows \in SUBSET RowsOf
           /\ Goes(w, [reading[w] EXCEPT !.at = "rows", !.todo = todo, !.rows = FirstRows])
<1> DEFINE found == {n \in Names : database[n] # None}
<1>1. Goes(w, [reading[w] EXCEPT !.at = "rows", !.todo = found, !.rows = FirstRows])
  BY DEF ListDatabases, FirstRows
<1>2. ASSUME NEW n \in found PROVE [name |-> n, type |-> database[n].type, host |-> None] \in RowsOf
  BY DEF Inv, Shapes, Databases, RowsOf
<1>3. FirstRows \in SUBSET RowsOf
  BY <1>2 DEF FirstRows
<1>4. QED BY <1>1, <1>3

LEMMA ListGoesOn ==
  ASSUME Inv, ReadShapes, NEW w \in Workers, ListHost(w), ~Ends(w, "ok")
  PROVE  \E n \in Names : \E host \in {HostNow(n), None} : \E todo \in SUBSET Names :
           /\ WithHost(reading[w].rows, n, host) \in SUBSET RowsOf
           /\ Goes(w, [reading[w] EXCEPT !.at = "rows", !.todo = todo,
                                         !.rows = WithHost(reading[w].rows, n, host)])
<1>1. reading[w] \in Readings /\ reading[w].at = "rows"
  BY DEF ReadShapes, ListHost, At
<1>2. PICK n \in reading[w].todo : \E host \in {HostNow(n), None} :
          Goes(w, [reading[w] EXCEPT !.todo = @ \ {n}, !.rows = WithHost(@, n, host)])
  BY DEF ListHost
<1>3. PICK host \in {HostNow(n), None} :
          Goes(w, [reading[w] EXCEPT !.todo = @ \ {n}, !.rows = WithHost(@, n, host)])
  BY <1>2
<1> DEFINE todo == reading[w].todo \ {n}
           rows == WithHost(reading[w].rows, n, host)
<1>4. n \in Names /\ todo \in SUBSET Names
  BY <1>1 DEF Readings
<1>5. HostNow(n) \in Targets \cup {None}
  BY <1>4 DEF HostNow, Inv, Shapes, Databases
<1>6. ASSUME NEW row \in reading[w].rows
      PROVE  (IF row.name = n THEN [row EXCEPT !.host = host] ELSE row) \in RowsOf
  BY <1>1, <1>5 DEF Readings, RowsOf
<1>7. rows \in SUBSET RowsOf
  BY <1>6 DEF WithHost
<1>8. [reading[w] EXCEPT !.at = "rows", !.todo = todo, !.rows = rows]
        = [reading[w] EXCEPT !.todo = @ \ {n}, !.rows = WithHost(@, n, host)]
  BY <1>1 DEF Readings
<1>9. QED BY <1>3, <1>4, <1>7, <1>8

LEMMA ReadStepControl ==
  ASSUME Inv, ReadShapes, NEW w \in Workers, ReadControl(w), ReadStep(w)
  PROVE  /\ reading' \in [Workers -> Readings] /\ ReadControl(w)'
         /\ \A v \in Workers \ {w} : reading'[v] = reading[v]
         /\ reading[w] # NoRead /\ reading'[w] # NoRead
<1>1. reading[w] \in Readings /\ reading[w].op \in ReadOps \cup {"none"}
  BY DEF ReadShapes, Readings
<1>2. /\ reading[w].at \in {"engine", "tables", "probe", "touch", "dial", "databases", "rows"}
      /\ reading[w].op # "none" /\ reading[w] # NoRead /\ NoRead.op = "none"
  <2>1. reading[w].at \in {"engine", "tables", "probe", "touch", "dial", "databases", "rows"}
    BY Zenon DEF ReadStep, ReadEngine, ReadTables, ProbeTables, ProbeTouches, Dial, ListDatabases,
                 ListHost, At
  <2>2. NoRead.at = "idle" /\ NoRead.op = "none"
    BY DEF NoRead
  <2>3. QED BY <2>1, <2>2 DEF ReadControl
<1>3. ASSUME NEW code \in Codes, Ends(w, code)
      PROVE  /\ reading' \in [Workers -> Readings] /\ ReadControl(w)'
             /\ \A v \in Workers \ {w} : reading'[v] = reading[v]
             /\ reading'[w].op # "none"
  BY <1>2, <1>3, EndsType DEF ReadControl
<1>4. ASSUME NEW label \in {"tables", "probe", "touch"}, Moves(w, label),
             reading[w].op \in {"tables", "probe"}, reading[w].at # "done"
      PROVE  /\ reading' \in [Workers -> Readings] /\ ReadControl(w)'
             /\ \A v \in Workers \ {w} : reading'[v] = reading[v]
             /\ reading'[w].op # "none"
  <2>1. label \in Places
    BY DEF Places
  <2>2. QED BY <1>2, <1>4, <2>1, MovesType DEF ReadControl
<1>5. {"ok", "INVALID", "SOURCE_NOT_FOUND", "CONNECTION_FAILED", "INTERNAL_ERROR"} \subseteq Codes
  BY DEF Codes
<1>6. CASE ReadEngine(w)
  BY <1>2, <1>3, <1>4, <1>5, <1>6 DEF ReadEngine, At, ReadControl
<1>7. CASE ReadTables(w)
  BY <1>2, <1>3, <1>5, <1>7 DEF ReadTables
<1>8. CASE ProbeTables(w)
  BY <1>2, <1>3, <1>4, <1>5, <1>8 DEF ProbeTables, At, ReadControl
<1>9. CASE ProbeTouches(w)
  BY <1>2, <1>3, <1>4, <1>5, <1>9 DEF ProbeTouches, At, ReadControl
<1>10. CASE Dial(w)
  BY <1>2, <1>3, <1>5, <1>10 DEF Dial
<1>11. CASE ListDatabases(w)
  <2>1. CASE Ends(w, "INTERNAL_ERROR")
    BY <1>2, <1>3, <1>5, <2>1
  <2>2. CASE ~Ends(w, "INTERNAL_ERROR")
    BY <1>2, <1>11, <2>2, ListStarts, ListsType DEF ReadControl, ListDatabases, At
  <2>3. QED BY <2>1, <2>2
<1>12. CASE ListHost(w)
  <2>1. CASE Ends(w, "ok")
    BY <1>2, <1>3, <1>5, <2>1
  <2>2. CASE ~Ends(w, "ok")
    BY <1>2, <1>12, <2>2, ListGoesOn, ListsType DEF ReadControl, ListHost, At
  <2>3. QED BY <2>1, <2>2
<1>13. QED BY <1>6, <1>7, <1>8, <1>9, <1>10, <1>11, <1>12 DEF ReadStep

LEMMA FedctlReadsSound ==
  ASSUME Sound, NEW w \in Workers, FedctlReads(w) PROVE Sound'
<1>1. /\ w \in Procs /\ Inv /\ ReadShapes /\ ReadControl(w) /\ Serves(w)
      /\ ReadStep(w) /\ UNCHANGED <<vars, serving, status, logged, change, late, left>> /\ Observe
  BY EveryWorker DEF WorkersAreProcs, Sound, FedctlReads
<1>2. Inv' /\ UNCHANGED <<database, collection, pc, op, src, step, reply>>
  BY <1>1, SameHub
<1>3. /\ reading' \in [Workers -> Readings] /\ ReadControl(w)'
      /\ \A v \in Workers \ {w} : reading'[v] = reading[v]
      /\ reading[w] # NoRead
  BY <1>1, ReadStepControl
<1>4. ReadShapes'
  BY <1>1, <1>2, <1>3, ObserveShapes
<1>5. ShimShapes' /\ Orphans'
  BY <1>1 DEF Sound, ShimShapes, Orphans
<1>6. OnlyProc(w) /\ OnlyWorker(w)
  BY <1>1, <1>2, <1>3 DEF OnlyProc, OnlyWorker
<1>7. Called(w)'
  BY <1>1, <1>2 DEF Sound, Called
<1>8. Serves(w)'
  BY <1>1, <1>2, <1>3 DEF Serves
<1>9. QED BY <1>1, <1>2, <1>3, <1>4, <1>5, <1>6, <1>7, <1>8, SoundFrame

LEMMA ErrorStatusType ==
  ASSUME NEW code PROVE ErrorStatus(code) \in {400, 404, 409, 500, 502}
BY DEF ErrorStatus

LEMMA AnswerSound ==
  ASSUME Sound, NEW w \in Workers, Answer(w) PROVE Sound'
<1>1. /\ w \in Procs /\ Inv /\ Called(w) /\ ShimShapes
      /\ pc[w] = "idle" /\ reading[w] = NoRead
      /\ serving' = [serving EXCEPT ![w] = FALSE]
      /\ UNCHANGED <<vars, reading, seen, change, late, left>>
  BY EveryWorker DEF WorkersAreProcs, Sound, Answer
<1>2. Inv' /\ UNCHANGED <<database, collection, pc, op, src, step, reply>>
  BY <1>1, SameHub
<1>3. ReadShapes' /\ Orphans' /\ Called(w)' /\ ReadControl(w)' /\ Serves(w)'
  BY <1>1, <1>2 DEF Sound, ReadShapes, Orphans, Called, ReadControl, Serves
<1>4. /\ ShimShapes'
      /\ \A v \in Workers \ {w} : status'[v] = status[v] /\ logged'[v] = logged[v]
  <2>1. CASE reply[w] = "ok"
    <3>1. Audited(w) \in Lines
      BY <1>1, <2>1, AuditedLine
    <3>2. /\ status' = [status EXCEPT ![w] = IF op[w] = "add" THEN 201 ELSE 200]
          /\ logged' = [logged EXCEPT ![w] = Audited(w)]
      BY <2>1 DEF Answer
    <3>3. QED BY <1>1, <3>1, <3>2 DEF ShimShapes, Statuses
  <2>2. CASE reply[w] # "ok"
    <3>1. ErrorStatus(reply[w]) \in Statuses
      BY ErrorStatusType DEF Statuses
    <3>2. status' = [status EXCEPT ![w] = ErrorStatus(reply[w])] /\ UNCHANGED logged
      BY <2>2 DEF Answer
    <3>3. QED BY <1>1, <3>1, <3>2 DEF ShimShapes
  <2>3. QED BY <2>1, <2>2
<1>5. OnlyProc(w) /\ OnlyWorker(w)
  BY <1>1, <1>2, <1>4 DEF OnlyProc, OnlyWorker, ShimShapes
<1>6. QED BY <1>1, <1>2, <1>3, <1>4, <1>5, SoundFrame

LEMMA AnswerReadSound ==
  ASSUME Sound, NEW w \in Workers, AnswerRead(w) PROVE Sound'
<1> DEFINE answer == IF reading[w].code = "ok" THEN 200 ELSE ErrorStatus(reading[w].code)
<1>1. /\ w \in Procs /\ Inv /\ Called(w) /\ ShimShapes /\ ReadShapes /\ Serves(w)
      /\ serving' = [serving EXCEPT ![w] = FALSE] /\ status' = [status EXCEPT ![w] = answer]
      /\ Goes(w, NoRead) /\ Observe
      /\ UNCHANGED <<vars, logged, change, late, left>>
  BY EveryWorker DEF WorkersAreProcs, Sound, AnswerRead
<1>2. Inv' /\ UNCHANGED <<database, collection, pc, op, src, step, reply>>
  BY <1>1, SameHub
<1>3. /\ reading' \in [Workers -> Readings] /\ reading'[w] = NoRead
      /\ \A v \in Workers \ {w} : reading'[v] = reading[v]
  BY <1>1, NoReadType, GoesType
<1>4. ReadShapes' /\ Orphans' /\ Called(w)'
  BY <1>1, <1>2, <1>3, ObserveShapes DEF Sound, Orphans, Called
<1>5. answer \in Statuses
  BY ErrorStatusType DEF Statuses
<1>6. ShimShapes'
  BY <1>1, <1>5 DEF ShimShapes
<1>7. OnlyProc(w) /\ OnlyWorker(w)
  BY <1>1, <1>2, <1>3 DEF OnlyProc, OnlyWorker, ShimShapes
<1>8. reading[w] # NoRead
  BY DEF AnswerRead, At, NoRead
<1>9. ReadControl(w)' /\ Serves(w)'
  BY <1>1, <1>2, <1>3, <1>8 DEF ReadControl, Serves, NoRead
<1>10. QED BY <1>1, <1>2, <1>4, <1>6, <1>7, <1>9, SoundFrame

LEMMA TimeoutSound ==
  ASSUME Sound, NEW w \in Workers, Timeout(w) PROVE Sound'
<1>1. /\ w \in Procs /\ Inv /\ Called(w) /\ ShimShapes /\ ReadShapes /\ Serves(w) /\ ReadControl(w)
      /\ serving' = [serving EXCEPT ![w] = FALSE] /\ status' = [status EXCEPT ![w] = 500]
      /\ UNCHANGED <<database, collection, op, file, src, step, line, report, faults, logged, change>>
      /\ Observe
  BY EveryWorker DEF WorkersAreProcs, Sound, Timeout
<1>2. ShimShapes'
  BY <1>1 DEF ShimShapes, Statuses
<1>3. CASE pc[w] # "idle" /\ Return(w, "killed") /\ Leaves(w) /\ UNCHANGED reading
  <2>1. "killed" \in Replies
    BY DEF Replies
  <2>2. Inv'
    BY <1>1, <1>3, <2>1, QuitInv
  <2>3. /\ pc'[w] = "idle" /\ reply'[w] = "killed"
        /\ \A q \in Procs \ {w} : pc'[q] = pc[q] /\ reply'[q] = reply[q]
    BY <1>1, <1>3, KillApart
  <2>4. reading[w] = NoRead
    BY <1>1, <1>3 DEF Serves
  <2>5. ReadShapes'
    BY <1>1, <1>3, <2>2, SameReads, ObserveShapes
  <2>6. Orphans'
    BY <1>1, <1>3, LeavesOrphans DEF Sound
  <2>7. OnlyProc(w) /\ OnlyWorker(w)
    BY <1>1, <1>3, <2>3 DEF OnlyProc, OnlyWorker, ShimShapes
  <2>8. Called(w)' /\ ReadControl(w)' /\ Serves(w)'
    BY <1>1, <1>3, <2>3, <2>4 DEF Called, ReadControl, Serves
  <2>9. QED BY <1>1, <1>2, <2>2, <2>5, <2>6, <2>7, <2>8, SoundFrame
<1>4. CASE reading[w] # NoRead /\ Goes(w, NoRead) /\ UNCHANGED <<pc, reply, late, left>>
  <2>1. Inv' /\ UNCHANGED <<database, collection, pc, op, src, step, reply>>
    BY <1>1, <1>4, SameHub DEF vars
  <2>2. /\ reading' \in [Workers -> Readings] /\ reading'[w] = NoRead
        /\ \A v \in Workers \ {w} : reading'[v] = reading[v]
    BY <1>1, <1>4, NoReadType, GoesType
  <2>3. ReadShapes' /\ Orphans' /\ Called(w)'
    BY <1>1, <1>4, <2>1, <2>2, ObserveShapes DEF Sound, Orphans, Called
  <2>4. OnlyProc(w) /\ OnlyWorker(w)
    BY <1>1, <2>1, <2>2 DEF OnlyProc, OnlyWorker, ShimShapes
  <2>5. ReadControl(w)' /\ Serves(w)'
    BY <1>1, <1>4, <2>1, <2>2 DEF ReadControl, Serves, NoRead
  <2>6. QED BY <1>1, <1>2, <2>1, <2>3, <2>4, <2>5, SoundFrame
<1>5. QED BY <1>3, <1>4 DEF Timeout

\* A request is refused, or it starts a fedctl of the worker's.
LEMMA RequestCases ==
  ASSUME NEW w \in Workers,
         \/ \E u \in Users, s \in Requests : Post(w, u, s)
         \/ \E u \in Users, n \in Names : Delete(w, u, n)
         \/ \E u \in Users, n \in Names, kind \in ReadOps : Get(w, u, kind, n)
  PROVE  \/ /\ status' = [status EXCEPT ![w] = 403]
            /\ logged' = [logged EXCEPT ![w] = None] /\ change' = [change EXCEPT ![w] = None]
            /\ UNCHANGED <<vars, reading, serving, late, left>> /\ ~serving[w] /\ Observe
         \/ /\ Begins(w) /\ UNCHANGED reading
            /\ (\E s \in Requests : StartAdd(w, s)) \/ (\E n \in Names : StartRemove(w, n))
         \/ Begins(w) /\ \E kind \in ReadOps, n \in Names : StartRead(w, kind, n) /\ Forget(w)
<1>1. ASSUME NEW u, NEW s \in Requests, Post(w, u, s)
      PROVE  \/ /\ status' = [status EXCEPT ![w] = 403]
                /\ UNCHANGED <<vars, reading, serving>>
             \/ /\ StartAdd(w, s) /\ UNCHANGED reading
                /\ serving' = [serving EXCEPT ![w] = TRUE] /\ status' = [status EXCEPT ![w] = 0]
  BY <1>1 DEF Post, Receive
<1>2. ASSUME NEW u, NEW n \in Names, Delete(w, u, n)
      PROVE  \/ /\ status' = [status EXCEPT ![w] = 403]
                /\ UNCHANGED <<vars, reading, serving>>
             \/ /\ StartRemove(w, n) /\ UNCHANGED reading
                /\ serving' = [serving EXCEPT ![w] = TRUE] /\ status' = [status EXCEPT ![w] = 0]
  BY <1>2 DEF Delete, Receive
<1>3. ASSUME NEW u, NEW n \in Names, NEW kind \in ReadOps, Get(w, u, kind, n)
      PROVE  \/ /\ status' = [status EXCEPT ![w] = 403]
                /\ UNCHANGED <<vars, reading, serving>>
             \/ /\ StartRead(w, kind, n) /\ Forget(w)
                /\ serving' = [serving EXCEPT ![w] = TRUE] /\ status' = [status EXCEPT ![w] = 0]
  BY <1>3 DEF Get, Receive
<1>4. /\ ~serving[w] /\ Observe /\ UNCHANGED <<late, left>>
      /\ logged' = [logged EXCEPT ![w] = None] /\ change' = [change EXCEPT ![w] = None]
  BY DEF Post, Delete, Get, Receive
<1>5. QED BY <1>1, <1>2, <1>3, <1>4 DEF Begins

LEMMA RequestSound ==
  ASSUME Sound, NEW w \in Workers,
         \/ \E u \in Users, s \in Requests : Post(w, u, s)
         \/ \E u \in Users, n \in Names : Delete(w, u, n)
         \/ \E u \in Users, n \in Names, kind \in ReadOps : Get(w, u, kind, n)
  PROVE  Sound'
BY RequestCases, RefusedSound, MutationSound, ReadSound

LEMMA InitSound ==
  ASSUME ShimInit PROVE Sound
<1>1. Inv
  BY InitInv DEF ShimInit
<1>2. ReadShapes /\ \A w \in Workers : ReadControl(w)
  BY NoReadType DEF ShimInit, ReadsInit, ReadShapes, ReadControl, NoRead
<1>3. ShimShapes /\ Orphans
  BY LateAssumption DEF ShimInit, ShimShapes, Orphans, Statuses
<1>4. /\ \A p \in Procs : Called(p)
      /\ \A w \in Workers : Serves(w)
  BY WorkersAssumption DEF ShimInit, Init, ReadsInit, Called, Serves
<1>5. QED BY <1>1, <1>2, <1>3, <1>4 DEF Sound

LEMMA StutterSound ==
  ASSUME Sound, UNCHANGED allVars PROVE Sound'
<1>1. UNCHANGED <<vars, reading, seen, serving, status, logged, change, late, left>>
  BY DEF allVars
<1>2. Inv' /\ UNCHANGED <<pc, op, src, reply>>
  BY <1>1, SameHub DEF Sound
<1>3. QED
  BY <1>1, <1>2 DEF Sound, ReadShapes, ShimShapes, Orphans, Lawful, Called, ReadControl, Serves

LEMMA StepSound ==
  ASSUME Sound, [ShimNext]_allVars PROVE Sound'
<1>1. CASE UNCHANGED allVars
  BY <1>1, StutterSound
<1>2. CASE Late
  BY <1>2, LateSound
<1>3. ASSUME NEW p \in Procs, Fedctl(p) \/ Terminal(p) PROVE Sound'
  BY <1>3, FedctlSound, TerminalSound
<1>4. ASSUME NEW w \in Workers,
             \/ \E u \in Users, s \in Requests : Post(w, u, s)
             \/ \E u \in Users, n \in Names : Delete(w, u, n)
             \/ \E u \in Users, n \in Names, kind \in ReadOps : Get(w, u, kind, n)
      PROVE  Sound'
  BY <1>4, RequestSound
<1>5. ASSUME NEW w \in Workers, Answer(w) \/ AnswerRead(w) \/ Timeout(w) \/ FedctlReads(w)
      PROVE  Sound'
  BY <1>5, AnswerSound, AnswerReadSound, TimeoutSound, FedctlReadsSound
<1>6. QED BY <1>1, <1>2, <1>3, <1>4, <1>5 DEF ShimNext

LEMMA AlwaysSound == ShimSpec => []Sound
<1>1. ShimInit => Sound
  BY InitSound
<1>2. Sound /\ [ShimNext]_allVars => Sound'
  BY StepSound
<1>3. QED BY <1>1, <1>2, PTL DEF ShimSpec

\* The hub and the reads keep their types under the extension, and a fedctl of the
\* extension runs for one request that waits for it: no timeout, crash or refusal
\* leaves one behind, and no answer is sent while one runs.
THEOREM ShimTypes == ShimSpec => []ShimTypeOK
<1>1. Sound => ShimTypeOK
  <2> SUFFICES ASSUME Sound PROVE ShimTypeOK
    OBVIOUS
  <2>1. TypeOK
    BY DEF Sound, Inv, Local, TypeOK
  <2>2. ASSUME NEW w \in Workers
        PROVE  LET r == reading[w] IN
               /\ r.op \in ReadOps \cup {"none"} /\ r.name \in Names \cup {None}
               /\ r.at \in {"idle", "engine", "tables", "probe", "touch", "dial", "databases", "rows",
                            "done"}
               /\ r.rows \subseteq RowsOf /\ r.todo \subseteq Names
               /\ r.op \in {"tables", "probe"} => r.name \in Names
               /\ r.op = "none" => r = NoRead
    <3>1. reading[w] \in Readings /\ ReadControl(w)
      BY DEF Sound, ReadShapes
    <3>2. QED BY <3>1 DEF Readings, Places, ReadControl
  <2>3. ReadsTypeOK
    BY <2>2 DEF ReadsTypeOK, Sound, ReadShapes, Entries
  <2>4. late \subseteq LateStatements
    BY DEF Sound, Orphans, Lawful
  <2>5. QED BY <2>1, <2>3, <2>4 DEF ShimTypeOK, Sound, ShimShapes, Statuses, Orphans, Serves
<1>2. QED BY <1>1, AlwaysSound, PTL
----------------------------------------------------------------------------
(***************************************************************************)
(* Who takes a database away.                                              *)
(***************************************************************************)
LEMMA TimeoutApart ==
  ASSUME NEW w \in Workers, Timeout(w)
  PROVE  UNCHANGED <<database, collection, op, src, step, faults, logged, change>>
BY DEF Timeout

LEMMA FedctlDrops ==
  ASSUME Sound, NEW p \in Procs, Fedctl(p) PROVE DropsOnlyForRemovals
<1> SUFFICES ASSUME NEW n \in Names, database[n] # None, database'[n] # database[n]
             PROVE  /\ database'[n] = None
                    /\ pc[p] = "detach" /\ op[p] = "remove" /\ src[p].name = n
  BY DEF DropsOnlyForRemovals
<1>1. Inv /\ database \in [Names -> Databases \cup {None}]
  BY DEF Sound, Inv, Shapes
<1>2. Proceed(p)
  BY DEF Fedctl, Kill
<1>3. AddsIt(p) \/ DropsIt(p)
  BY <1>1, <1>2, ProceedChanges
<1>4. ~AddsIt(p)
  BY <1>1 DEF AddsIt
<1>5. QED BY <1>1, <1>3, <1>4 DEF DropsIt

LEMMA LateDrops ==
  ASSUME Sound, Late PROVE DropsOnlyForRemovals
<1> SUFFICES ASSUME NEW n \in Names, database[n] # None, database'[n] # database[n]
             PROVE  database'[n] = None /\ \E l \in late : l.op = "remove" /\ l.of.name = n
  BY DEF DropsOnlyForRemovals
<1>1. PICK l \in late :
        IF Accepts(l.do, l.of) THEN Execute(l.do, l.of) ELSE UNCHANGED hub
  BY DEF Late
<1>2. Lawful(l) /\ database \in [Names -> Databases \cup {None}]
  BY DEF Sound, Orphans, Inv, Shapes
<1>3. Execute(l.do, l.of)
  BY <1>1
<1>4. l.do # "create database"
  BY <1>2, <1>3 DEF Execute, CreateDatabase
<1>5. l.do = "drop database" /\ DropDatabase(l.of)
  BY <1>3, <1>4 DEF Execute, CreateCollection, DropCollection
<1>6. database'[n] = None /\ l.of.name = n
  BY <1>2, <1>5 DEF DropDatabase
<1>7. QED BY <1>2, <1>5, <1>6 DEF Lawful

\* Everybody else leaves the databases alone.
LEMMA RequestApart ==
  ASSUME Sound, NEW w \in Workers,
         \/ \E u \in Users, s \in Requests : Post(w, u, s)
         \/ \E u \in Users, n \in Names : Delete(w, u, n)
         \/ \E u \in Users, n \in Names, kind \in ReadOps : Get(w, u, kind, n)
  PROVE  UNCHANGED database
<1>1. Inv /\ w \in Procs
  BY EveryWorker DEF Sound, WorkersAreProcs
<1>2. QED BY <1>1, RequestCases, StartApart DEF vars, Forget

LEMMA StepDropsForRemovals ==
  ASSUME Sound, [ShimNext]_allVars PROVE [DropsOnlyForRemovals]_allVars
<1>1. Inv
  BY DEF Sound
<1>2. CASE UNCHANGED allVars
  BY <1>2
<1>3. CASE Late
  BY <1>3, LateDrops
<1>4. ASSUME NEW p \in Procs, Fedctl(p) PROVE DropsOnlyForRemovals
  BY <1>4, FedctlDrops
<1>5. ASSUME UNCHANGED database PROVE DropsOnlyForRemovals
  BY <1>5 DEF DropsOnlyForRemovals
<1>6. ASSUME NEW p \in Procs, Terminal(p) PROVE UNCHANGED database
  BY <1>1, <1>6, StartApart DEF Terminal
<1>7. ASSUME NEW w \in Workers,
             Answer(w) \/ AnswerRead(w) \/ Timeout(w) \/ FedctlReads(w)
      PROVE  UNCHANGED database
  BY <1>7, TimeoutApart DEF Answer, AnswerRead, FedctlReads, vars
<1>8. QED BY <1>2, <1>3, <1>4, <1>5, <1>6, <1>7, RequestApart DEF ShimNext

\* A database disappears only because someone has asked for its removal, for any
\* number of workers, terminals and statements that killed processes left behind.
THEOREM DatabasesDropOnlyForRemovals == ShimSpec => OnlyRemovalsDrop
<1>1. Sound /\ [ShimNext]_allVars => [DropsOnlyForRemovals]_allVars
  BY StepDropsForRemovals
<1>2. QED BY <1>1, AlwaysSound, PTL DEF ShimSpec, OnlyRemovalsDrop
----------------------------------------------------------------------------
(***************************************************************************)
(* What a reading has seen.                                                *)
(***************************************************************************)
\* What the rows of a list have to do with what the hub has held meanwhile.
Shows(w) ==
  /\ \A n \in Names :
       (\A c \in seen[w] : c[n] # None) => \E row \in reading[w].rows : row.name = n
  /\ \A row \in reading[w].rows :
       /\ \E c \in seen[w] : c[row.name] # None /\ c[row.name].type = row.type
       /\ row.host # None =>
            \E c \in seen[w] :
              /\ c[row.name] # None /\ HasCollection(c[row.name].type)
              /\ c[row.name].target = row.host

\* Who reads has seen the hub as it is, and every answer that is on its way has its
\* reason in what was seen.
Witnessed(w) ==
  LET r == reading[w] IN
  /\ r.op # "none" => Catalogue \in seen[w]
  /\ r.op = "list" /\ (r.at = "rows" \/ (r.at = "done" /\ r.code = "ok")) => Shows(w)
  /\ \/ r.at \in {"tables", "probe", "touch"}
     \/ r.op \in {"tables", "probe"} /\ r.at = "done" /\ r.code = "ok"
     => \E c \in seen[w] : c[r.name] # None
  /\ r.code = "SOURCE_NOT_FOUND" => r.op # "none" /\ \E c \in seen[w] : c[r.name] = None

LEMMA EntryIsSomething ==
  ASSUME Inv, NEW n \in Names
  PROVE  /\ Catalogue[n] = None <=> database[n] = None
         /\ database[n] # None => /\ Catalogue[n] # None
                                  /\ Catalogue[n].type = database[n].type
                                  /\ Catalogue[n].target = database[n].target
<1>1. CASE database[n] = None
  BY <1>1 DEF Catalogue
<1>2. CASE database[n] # None
  <2>1. database[n] \in Databases
    BY <1>2 DEF Inv, Shapes
  <2>2. EntryOf(database[n]) \in [type: Types, target: Targets]
    BY <2>1 DEF EntryOf, Databases
  <2>3. EntryOf(database[n]) # None
    BY <2>2, NoneAssumption
  <2>4. Catalogue[n] = EntryOf(database[n])
    BY <1>2 DEF Catalogue
  <2>5. QED BY <1>2, <2>3, <2>4 DEF EntryOf
<1>3. QED BY <1>1, <1>2

\* Somebody else's step only adds to what has been seen.
LEMMA WitnessKept ==
  ASSUME Sound, NEW w \in Workers, Witnessed(w), reading'[w] = reading[w],
         Observe \/ UNCHANGED <<database, seen>>
  PROVE  Witnessed(w)'
<1>1. ReadControl(w)
  BY DEF Sound
<1>2. CASE reading[w].op = "none"
  <2>1. reading[w] = NoRead
    BY <1>1, <1>2 DEF ReadControl
  <2>2. QED BY <2>1 DEF Witnessed, NoRead
<1>3. CASE reading[w].op # "none"
  <2>1. seen[w] \subseteq seen'[w] /\ Catalogue' \in seen'[w]
    <3>1. CASE Observe
      BY <1>3, <3>1 DEF Observe
    <3>2. CASE UNCHANGED <<database, seen>>
      <4>1. Catalogue' = Catalogue
        BY <3>2 DEF Catalogue
      <4>2. QED BY <1>3, <3>2, <4>1 DEF Witnessed
    <3>3. QED BY <3>1, <3>2
  <2>2. ASSUME Shows(w) PROVE Shows(w)'
    BY <2>1, <2>2 DEF Shows
  <2>3. QED BY <1>3, <2>1, <2>2 DEF Witnessed
<1>4. QED BY <1>2, <1>3

LEMMA NothingToWitness ==
  ASSUME NEW w \in Workers, reading'[w] = NoRead PROVE Witnessed(w)'
BY DEF Witnessed, NoRead

LEMMA BegunWitnessed ==
  ASSUME Sound, NEW w \in Workers, NEW kind \in ReadOps, NEW n \in Names,
         StartRead(w, kind, n), Observe
  PROVE  Witnessed(w)'
<1>1. PICK r \in Readings : Goes(w, r) /\ Begun(r, kind, n)
  BY StartReads
<1>2. reading'[w] = r
  BY <1>1, GoesType DEF Sound
<1>3. r.op # "none" /\ r.at \in {"done", "databases", "dial", "engine"}
      /\ r.code \in {"none", "HUB_UNAVAILABLE"}
  BY <1>1 DEF Begun, ReadOps
<1>4. Catalogue' \in seen'[w]
  BY <1>2, <1>3 DEF Observe
<1>5. QED BY <1>2, <1>3, <1>4 DEF Witnessed

LEMMA ReadStepWitnessed ==
  ASSUME Sound, NEW w \in Workers, Witnessed(w), FedctlReads(w)
  PROVE  Witnessed(w)'
<1> DEFINE r == reading[w]
           n == r.name
           Witness == \E c \in seen[w] : c[n] # None
<1>1. /\ Inv /\ ReadShapes /\ ReadControl(w) /\ r \in Readings
      /\ ReadStep(w) /\ UNCHANGED <<vars, database>> /\ Observe
  BY DEF Sound, FedctlReads, ReadShapes, vars
<1>2. reading'[w].op # "none" /\ reading[w].op # "none"
  <2>1. reading'[w] # NoRead /\ reading[w] # NoRead /\ ReadControl(w)'
    BY <1>1, ReadStepControl
  <2>2. QED BY <1>1, <2>1 DEF ReadControl
<1>3. Catalogue \in seen[w] /\ Catalogue' = Catalogue
  BY <1>1, <1>2 DEF Witnessed, Catalogue
<1>4. seen'[w] = seen[w]
  BY <1>2, <1>3 DEF Observe, FedctlReads
<1>5. database[n] # None /\ n \in Names => Witness
  BY <1>1, <1>3, EntryIsSomething
<1>6. ASSUME NEW code \in Codes, Ends(w, code),
             code = "ok" => (r.op \in {"tables", "probe"} => Witness) /\ (r.op = "list" => Shows(w)),
             code = "SOURCE_NOT_FOUND" => \E c \in seen[w] : c[n] = None
      PROVE  Witnessed(w)'
  <2>1. /\ reading'[w].op = r.op /\ reading'[w].name = n
        /\ reading'[w].at = "done" /\ reading'[w].code = code /\ reading'[w].rows = r.rows
    BY <1>1, <1>6, EndsType
  <2>2. Shows(w) => Shows(w)'
    BY <1>4, <2>1 DEF Shows
  <2>3. QED BY <1>2, <1>3, <1>4, <1>6, <2>1, <2>2 DEF Witnessed
<1>7. ASSUME NEW label \in {"tables", "probe", "touch"}, Moves(w, label), Witness,
             r.code = "none", r.op \in {"tables", "probe"}
      PROVE  Witnessed(w)'
  <2>1. label \in Places
    BY DEF Places
  <2>2. /\ reading'[w].op = r.op /\ reading'[w].name = n
        /\ reading'[w].at = label /\ reading'[w].code = r.code
    BY <1>1, <1>7, <2>1, MovesType
  <2>3. QED BY <1>2, <1>3, <1>4, <1>7, <2>2 DEF Witnessed
<1>8. ASSUME NEW rows \in SUBSET RowsOf, NEW todo \in SUBSET Names, r.op = "list", r.code = "none",
             Goes(w, [reading[w] EXCEPT !.at = "rows", !.todo = todo, !.rows = rows]),
             \A m \in Names : (\A c \in seen[w] : c[m] # None) => \E row \in rows : row.name = m,
             \A row \in rows :
               /\ \E c \in seen[w] : c[row.name] # None /\ c[row.name].type = row.type
               /\ row.host # None =>
                    \E c \in seen[w] :
                      /\ c[row.name] # None /\ HasCollection(c[row.name].type)
                      /\ c[row.name].target = row.host
      PROVE  Witnessed(w)'
  <2>1. /\ reading'[w].op = r.op /\ reading'[w].at = "rows"
        /\ reading'[w].code = r.code /\ reading'[w].rows = rows
    BY <1>1, <1>8, ListsType
  <2>2. Shows(w)'
    BY <1>4, <1>8, <2>1 DEF Shows
  <2>3. QED BY <1>2, <1>3, <1>4, <1>8, <2>1, <2>2 DEF Witnessed
<1>9. {"ok", "INVALID", "SOURCE_NOT_FOUND", "CONNECTION_FAILED", "INTERNAL_ERROR"} \subseteq Codes
  BY DEF Codes
<1>10. r.op # "none" /\ n \in Names /\ (r.at # "done" => r.code = "none")
  BY <1>1, <1>2 DEF ReadControl
<1>11. CASE ReadEngine(w)
  <2>1. r.at = "engine" /\ r.op \in {"tables", "probe"} /\ r.code = "none"
    BY <1>1, <1>10, <1>11 DEF ReadEngine, At, ReadControl
  <2>2. CASE database[n] # None /\ Moves(w, r.op)
    BY <1>5, <1>7, <1>10, <2>1, <2>2
  <2>3. CASE database[n] = None /\ Ends(w, "SOURCE_NOT_FOUND")
    <3>1. Catalogue[n] = None
      BY <1>1, <1>10, <2>3, EntryIsSomething
    <3>2. QED BY <1>3, <1>6, <1>9, <2>3, <3>1
  <2>4. CASE Ends(w, "INTERNAL_ERROR")
    BY <1>6, <1>9, <2>4
  <2>5. QED BY <1>11, <2>2, <2>3, <2>4 DEF ReadEngine
<1>12. CASE ReadTables(w)
  <2>1. r.at = "tables" /\ r.op \in {"tables", "probe"} /\ r.op # "list"
    BY <1>1, <1>12 DEF ReadTables, At, ReadControl
  <2>2. Witness
    BY <2>1 DEF Witnessed
  <2>3. QED BY <1>6, <1>9, <1>12, <2>1, <2>2 DEF ReadTables
<1>13. CASE ProbeTables(w)
  <2>1. r.at = "probe" /\ r.op \in {"tables", "probe"} /\ r.code = "none"
    BY <1>1, <1>10, <1>13 DEF ProbeTables, At, ReadControl
  <2>2. Witness
    BY <2>1 DEF Witnessed
  <2>3. QED BY <1>6, <1>7, <1>9, <1>13, <2>1, <2>2 DEF ProbeTables
<1>14. CASE ProbeTouches(w)
  <2>1. r.at = "touch" /\ r.op \in {"tables", "probe"} /\ r.code = "none"
    BY <1>1, <1>10, <1>14 DEF ProbeTouches, At, ReadControl
  <2>2. Witness
    BY <2>1 DEF Witnessed
  <2>3. QED BY <1>6, <1>7, <1>9, <1>14, <2>1, <2>2 DEF ProbeTouches
<1>15. CASE Dial(w)
  <2>1. r.op = "test"
    BY <1>1, <1>15 DEF Dial, At, ReadControl
  <2>2. QED BY <1>6, <1>9, <1>15, <2>1 DEF Dial
<1>16. CASE ListDatabases(w)
  <2>1. r.at = "databases" /\ r.op = "list" /\ r.code = "none"
    BY <1>1, <1>10, <1>16 DEF ListDatabases, At, ReadControl
  <2>2. CASE Ends(w, "INTERNAL_ERROR")
    BY <1>6, <1>9, <2>2
  <2>3. CASE ~Ends(w, "INTERNAL_ERROR")
    <3>1. PICK todo \in SUBSET Names :
            /\ FirstRows \in SUBSET RowsOf
            /\ Goes(w, [reading[w] EXCEPT !.at = "rows", !.todo = todo, !.rows = FirstRows])
      BY <1>1, <1>16, <2>3, ListStarts
    <3>2. ASSUME NEW m \in Names, \A c \in seen[w] : c[m] # None
          PROVE  \E row \in FirstRows : row.name = m
      <4>1. database[m] # None
        BY <1>1, <1>3, <3>2, EntryIsSomething
      <4>2. [name |-> m, type |-> database[m].type, host |-> None] \in FirstRows
        BY <4>1 DEF FirstRows
      <4>3. QED BY <4>2
    <3>3. ASSUME NEW row \in FirstRows
          PROVE  /\ \E c \in seen[w] : c[row.name] # None /\ c[row.name].type = row.type
                 /\ row.host = None
      <4>1. PICK m \in Names : /\ database[m] # None
                               /\ row = [name |-> m, type |-> database[m].type, host |-> None]
        BY DEF FirstRows
      <4>2. row.name = m /\ row.type = database[m].type /\ row.host = None
        BY <4>1
      <4>3. QED BY <1>1, <1>3, <4>1, <4>2, EntryIsSomething
    <3>4. QED BY <1>8, <2>1, <3>1, <3>2, <3>3
  <2>4. QED BY <2>2, <2>3
<1>17. CASE ListHost(w)
  <2>1. r.at = "rows" /\ r.op = "list" /\ r.code = "none"
    BY <1>1, <1>10, <1>17 DEF ListHost, At, ReadControl
  <2>2. Shows(w)
    BY <2>1 DEF Witnessed
  <2>3. CASE Ends(w, "ok")
    BY <1>6, <1>9, <2>1, <2>2, <2>3
  <2>4. CASE ~Ends(w, "ok")
    <3>1. PICK m \in Names : \E host \in {HostNow(m), None} : \E todo \in SUBSET Names :
            /\ WithHost(r.rows, m, host) \in SUBSET RowsOf
            /\ Goes(w, [reading[w] EXCEPT !.at = "rows", !.todo = todo,
                                          !.rows = WithHost(r.rows, m, host)])
      BY <1>1, <1>17, <2>4, ListGoesOn
    <3>2. PICK host \in {HostNow(m), None}, todo \in SUBSET Names :
            /\ WithHost(r.rows, m, host) \in SUBSET RowsOf
            /\ Goes(w, [reading[w] EXCEPT !.at = "rows", !.todo = todo,
                                          !.rows = WithHost(r.rows, m, host)])
      BY <3>1
    <3> DEFINE rows == WithHost(r.rows, m, host)
    <3>3. ASSUME NEW old \in r.rows
          PROVE  LET new == IF old.name = m THEN [old EXCEPT !.host = host] ELSE old IN
                 /\ new.name = old.name /\ new.type = old.type
                 /\ new.host = old.host \/ (old.name = m /\ new.host = host)
      BY <1>1 DEF Readings, RowsOf
    <3>4. ASSUME NEW k \in Names, \A c \in seen[w] : c[k] # None
          PROVE  \E row \in rows : row.name = k
      <4>1. PICK old \in r.rows : old.name = k
        BY <2>2, <3>4 DEF Shows
      <4>2. QED BY <3>3, <4>1 DEF WithHost
    <3>5. host # None =>
            \E c \in seen[w] : c[m] # None /\ HasCollection(c[m].type) /\ c[m].target = host
      BY <1>1, <1>3, EntryIsSomething DEF HostNow
    <3>6. ASSUME NEW row \in rows
          PROVE  /\ \E c \in seen[w] : c[row.name] # None /\ c[row.name].type = row.type
                 /\ row.host # None =>
                      \E c \in seen[w] :
                        /\ c[row.name] # None /\ HasCollection(c[row.name].type)
                        /\ c[row.name].target = row.host
      <4>1. PICK old \in r.rows : row = IF old.name = m THEN [old EXCEPT !.host = host] ELSE old
        BY DEF WithHost
      <4>2. /\ row.name = old.name /\ row.type = old.type
            /\ row.host = old.host \/ (old.name = m /\ row.host = host)
        BY <3>3, <4>1
      <4>3. QED BY <2>2, <3>5, <4>2 DEF Shows
    <3>7. QED BY <1>8, <2>1, <3>2, <3>4, <3>6
  <2>5. QED BY <2>3, <2>4
<1>18. QED BY <1>1, <1>11, <1>12, <1>13, <1>14, <1>15, <1>16, <1>17 DEF ReadStep

LEMMA StepWitnessed ==
  ASSUME Sound, ShimNext, \A w \in Workers : Witnessed(w)
  PROVE  \A w \in Workers : Witnessed(w)'
<1> SUFFICES ASSUME NEW w \in Workers PROVE Witnessed(w)'
  OBVIOUS
<1>1. Witnessed(w) /\ ReadShapes
  BY DEF Sound
<1>2. ASSUME NEW v \in Workers, AnswerRead(v) \/ Timeout(v) PROVE Witnessed(w)'
  <2>1. Observe /\ (UNCHANGED reading \/ Goes(v, NoRead))
    BY <1>2 DEF AnswerRead, Timeout
  <2>2. CASE UNCHANGED reading \/ v # w
    BY <1>1, <2>1, <2>2, NoReadType, GoesType, WitnessKept
  <2>3. CASE Goes(v, NoRead) /\ v = w
    BY <1>1, <2>3, NoReadType, GoesType, NothingToWitness
  <2>4. QED BY <2>1, <2>2, <2>3
<1>3. ASSUME NEW v \in Workers, FedctlReads(v) PROVE Witnessed(w)'
  <2>1. CASE v = w
    BY <1>1, <1>3, <2>1, ReadStepWitnessed
  <2>2. CASE v # w
    BY <1>1, <1>3, <2>2, ReadStepControl, WitnessKept DEF FedctlReads, Sound
  <2>3. QED BY <2>1, <2>2
<1>4. ASSUME NEW v \in Workers,
             \/ \E u \in Users, s \in Requests : Post(v, u, s)
             \/ \E u \in Users, n \in Names : Delete(v, u, n)
             \/ \E u \in Users, n \in Names, kind \in ReadOps : Get(v, u, kind, n)
      PROVE  Witnessed(w)'
  <2>1. \/ Observe /\ UNCHANGED reading
        \/ Observe /\ \E kind \in ReadOps, n \in Names : StartRead(v, kind, n)
    BY <1>4, RequestCases DEF Begins
  <2>2. CASE Observe /\ UNCHANGED reading
    BY <1>1, <2>2, WitnessKept
  <2>3. ASSUME Observe, NEW kind \in ReadOps, NEW n \in Names, StartRead(v, kind, n)
        PROVE  Witnessed(w)'
    <3>1. CASE v = w
      BY <2>3, <3>1, BegunWitnessed
    <3>2. CASE v # w
      BY <1>1, <2>3, <3>2, StartReads, GoesType, WitnessKept
    <3>3. QED BY <3>1, <3>2
  <2>4. QED BY <2>1, <2>2, <2>3
<1>5. ASSUME NEW v \in Workers, Answer(v) PROVE Witnessed(w)'
  BY <1>1, <1>5, WitnessKept DEF Answer, vars
<1>6. ASSUME Late \/ \E p \in Procs : Fedctl(p) \/ Terminal(p) PROVE Witnessed(w)'
  BY <1>1, <1>6, WitnessKept DEF Late, Fedctl, Terminal
<1>7. QED BY <1>2, <1>3, <1>4, <1>5, <1>6 DEF ShimNext

Informed == Sound /\ \A w \in Workers : Witnessed(w)

LEMMA AlwaysInformed == ShimSpec => []Informed
<1>1. ShimInit => Informed
  BY InitSound DEF ShimInit, ReadsInit, NoRead, Witnessed, Informed
<1>2. Informed /\ [ShimNext]_allVars => Informed'
  <2> SUFFICES ASSUME Informed, [ShimNext]_allVars PROVE Informed'
    OBVIOUS
  <2>1. Sound'
    BY StepSound DEF Informed
  <2>2. CASE ShimNext
    BY <2>1, <2>2, StepWitnessed DEF Informed
  <2>3. CASE UNCHANGED allVars
    BY <2>1, <2>3, WitnessKept DEF Informed, allVars, vars
  <2>4. QED BY <2>2, <2>3
<1>3. QED BY <1>1, <1>2, PTL DEF ShimSpec

\* However often the sources change while a list is being made, the list shows
\* every source that was there all the time, and of each source it shows, a type and
\* a host that the source had meanwhile.
THEOREM ListsAreTruthful == ShimSpec => []ListShowsTheHub
<1>1. Informed => ListShowsTheHub
  <2> SUFFICES ASSUME Informed, NEW w \in Workers, Succeeded(w, {"list"})
               PROVE  /\ \A n \in Names :
                           None \notin Was(w, n) => \E row \in reading[w].rows : row.name = n
                      /\ \A row \in reading[w].rows :
                           /\ \E e \in Was(w, row.name) : e # None /\ e.type = row.type
                           /\ row.host # None =>
                                \E e \in Was(w, row.name) :
                                  e # None /\ HasCollection(e.type) /\ e.target = row.host
    BY DEF ListShowsTheHub
  <2>1. Shows(w)
    BY DEF Informed, Witnessed, Succeeded, At
  <2>2. ASSUME NEW n, NEW c \in seen[w] PROVE c[n] \in Was(w, n)
    BY DEF Was
  <2>3. QED BY <2>1, <2>2 DEF Shows
<1>2. QED BY <1>1, AlwaysInformed, PTL

\* A source is reported as missing only if it was, and as reachable only if it was
\* there, at some time while the answer was made.
THEOREM AnswersAreTruthful == ShimSpec => []ReadsAreTruthful
<1>1. Informed => ReadsAreTruthful
  <2> SUFFICES ASSUME Informed, NEW w \in Workers
               PROVE  /\ reading[w].code = "SOURCE_NOT_FOUND" => None \in Was(w, reading[w].name)
                      /\ Succeeded(w, {"tables", "probe"}) => Was(w, reading[w].name) # {None}
    BY DEF ReadsAreTruthful
  <2>1. ASSUME NEW n, NEW c \in seen[w] PROVE c[n] \in Was(w, n)
    BY DEF Was
  <2>2. reading[w].code = "SOURCE_NOT_FOUND" => \E c \in seen[w] : c[reading[w].name] = None
    BY DEF Informed, Witnessed
  <2>3. Succeeded(w, {"tables", "probe"}) => \E c \in seen[w] : c[reading[w].name] # None
    BY DEF Informed, Witnessed, Succeeded, At
  <2>4. QED BY <2>1, <2>2, <2>3
<1>2. QED BY <1>1, AlwaysInformed, PTL
----------------------------------------------------------------------------
(***************************************************************************)
(* What a status says.                                                     *)
(***************************************************************************)
Blameless == {"INVALID", "SOURCE_EXISTS", "SOURCE_NOT_FOUND", "HUB_UNAVAILABLE"}
Early     == {"exists", "validate", "engine", "host"}

\* Until its plan runs a request has changed nothing, and neither has one whose
\* reply, or whose status, blames the request or the hub.
Innocent(w) ==
  /\ serving[w] => status[w] = 0 /\ logged[w] = None
  /\ pc[w] \in Early => change[w] = None
  /\ reading[w] # NoRead => change[w] = None
  /\ serving[w] /\ pc[w] = "idle" /\ reply[w] \in Blameless => change[w] = None
  /\ status[w] \in {400, 403, 404, 409, 502} => change[w] = None

\* A process that has reached its plan neither goes back nor blames the request.
LEMMA ProceedEarly ==
  ASSUME Inv, NEW p \in Procs, op[p] # "apply", Proceed(p),
         pc'[p] \in Early \/ (pc'[p] = "idle" /\ reply'[p] \in Blameless)
  PROVE  pc[p] \in Early /\ UNCHANGED database
<1>1. pc \in [Procs -> Labels] /\ reply \in [Procs -> Replies] /\ Local(p)
  BY DEF Inv, Shapes
<1>2. CASE CheckExists(p)
  BY <1>2 DEF CheckExists, Early
<1>3. CASE Validate(p)
  BY <1>3 DEF Validate, Early
<1>4. CASE AttachStep(p)
  <2>1. pc[p] = "attach" /\ op[p] = "add"
    BY <1>1, <1>4 DEF AttachStep, Local, ControlOK
  <2>2. \/ UNCHANGED pc
        \/ pc' = [pc EXCEPT ![p] = "rollback"]
        \/ Return(p, "ok")
    BY <1>4, <2>1 DEF AttachStep, AttachReturns
  <2>3. QED BY <1>1, <2>1, <2>2 DEF Return, Early, Blameless
<1>5. CASE RollbackStep(p)
  <2>1. pc[p] = "rollback" /\ op[p] = "add"
    BY <1>1, <1>5 DEF RollbackStep, Local, ControlOK
  <2>2. UNCHANGED pc \/ Return(p, "INTERNAL_ERROR")
    BY <1>5, <2>1 DEF RollbackStep, AttachReturns
  <2>3. QED BY <1>1, <2>1, <2>2 DEF Return, Early, Blameless
<1>6. CASE LookUpEngine(p)
  BY <1>6 DEF LookUpEngine, Early
<1>7. CASE LookUpHost(p)
  BY <1>7 DEF LookUpHost, Early
<1>8. CASE DetachStep(p)
  <2>1. pc[p] = "detach" /\ (UNCHANGED pc \/ Return(p, "INTERNAL_ERROR") \/ Return(p, "ok"))
    BY <1>8 DEF DetachStep
  <2>2. QED BY <1>1, <2>1 DEF Return, Early, Blameless
<1>9. CASE NextSource(p)
  BY <1>1, <1>9 DEF NextSource, Local, ControlOK
<1>10. QED BY <1>2, <1>3, <1>4, <1>5, <1>6, <1>7, <1>8, <1>9 DEF Proceed

\* What a worker's innocence rests on.
LEMMA InnocenceFrame ==
  ASSUME NEW w \in Workers, Innocent(w), pc'[w] = pc[w], reply'[w] = reply[w],
         reading'[w] = reading[w], serving'[w] = serving[w], status'[w] = status[w],
         logged'[w] = logged[w], change'[w] = change[w]
  PROVE  Innocent(w)'
BY DEF Innocent

LEMMA FedctlInnocent ==
  ASSUME Sound, NEW w \in Workers, NEW p \in Procs, Innocent(w), Fedctl(p)
  PROVE  Innocent(w)'
<1>1. /\ Inv /\ Called(p) /\ Serves(w) /\ change \in [Workers -> Lines \cup {None}]
      /\ UNCHANGED <<reading, serving, status, logged>>
  BY DEF Sound, ShimShapes, Fedctl
<1>2. /\ pc[p] # "idle"
      /\ \A q \in Procs \ {p} : pc'[q] = pc[q] /\ reply'[q] = reply[q]
  BY <1>1, ProceedApart, KillApart DEF Fedctl, Kill
<1>3. CASE p # w
  <2>1. change'[w] = change[w]
    BY <1>1, <1>3 DEF Fedctl
  <2>2. w \in Procs
    BY EveryWorker DEF WorkersAreProcs
  <2>3. QED BY <1>1, <1>2, <1>3, <2>1, <2>2, InnocenceFrame
<1>4. CASE p = w
  <2>1. serving[w] /\ reading[w] = NoRead /\ status[w] = 0 /\ logged[w] = None
    BY <1>1, <1>2, <1>4 DEF Serves, Innocent
  <2>2. UNCHANGED database => change'[w] = change[w]
    BY <1>1 DEF Fedctl
  <2>3. CASE Proceed(w)
    BY <1>1, <1>4, <2>1, <2>2, <2>3, ProceedEarly DEF Innocent, Called
  <2>4. CASE Kill(w)
    <3>1. pc'[w] = "idle" /\ reply'[w] = "killed"
      BY <1>1, <1>4, <2>4, KillApart DEF Kill
    <3>2. QED BY <1>1, <2>1, <3>1 DEF Innocent, Early, Blameless
  <2>5. QED BY <1>4, <2>3, <2>4 DEF Fedctl
<1>5. QED BY <1>3, <1>4

LEMMA RequestInnocent ==
  ASSUME Sound, NEW w \in Workers, Innocent(w), NEW v \in Workers,
         \/ \E u \in Users, s \in Requests : Post(v, u, s)
         \/ \E u \in Users, n \in Names : Delete(v, u, n)
         \/ \E u \in Users, n \in Names, kind \in ReadOps : Get(v, u, kind, n)
  PROVE  Innocent(w)'
<1>1. Inv /\ ShimShapes /\ ReadShapes /\ w \in Procs /\ v \in Procs
  BY EveryWorker DEF Sound, WorkersAreProcs
<1>2. CASE /\ status' = [status EXCEPT ![v] = 403]
           /\ logged' = [logged EXCEPT ![v] = None] /\ change' = [change EXCEPT ![v] = None]
           /\ UNCHANGED <<vars, reading, serving, late, left>> /\ ~serving[v] /\ Observe
  <2>1. UNCHANGED <<pc, reply, reading, serving>>
    BY <1>2 DEF vars
  <2>2. CASE v = w
    BY <1>1, <1>2, <2>1, <2>2 DEF Innocent, ShimShapes
  <2>3. CASE v # w
    BY <1>1, <1>2, <2>1, <2>3, InnocenceFrame DEF ShimShapes
  <2>4. QED BY <2>2, <2>3
<1>3. ASSUME Begins(v),
             \A q \in Procs \ {v} : pc'[q] = pc[q] /\ reply'[q] = reply[q],
             \A x \in Workers \ {v} : reading'[x] = reading[x]
      PROVE  Innocent(w)'
  <2>1. CASE v = w
    <3>1. serving'[w] /\ status'[w] = 0 /\ logged'[w] = None /\ change'[w] = None
      BY <1>3, <2>1, BeginsShapes
    <3>2. QED BY <3>1 DEF Innocent
  <2>2. CASE v # w
    BY <1>1, <1>3, <2>2, BeginsShapes, InnocenceFrame
  <2>3. QED BY <2>1, <2>2
<1>4. CASE /\ Begins(v) /\ UNCHANGED reading
           /\ (\E s \in Requests : StartAdd(v, s)) \/ (\E n \in Names : StartRemove(v, n))
  BY <1>1, <1>3, <1>4, StartApart
<1>5. CASE Begins(v) /\ \E kind \in ReadOps, n \in Names : StartRead(v, kind, n) /\ Forget(v)
  <2>1. \A q \in Procs \ {v} : pc'[q] = pc[q] /\ reply'[q] = reply[q]
    BY <1>1, <1>5 DEF Forget, Inv, Shapes
  <2>2. \A x \in Workers \ {v} : reading'[x] = reading[x]
    BY <1>1, <1>5, StartReads, GoesType
  <2>3. QED BY <1>3, <1>5, <2>1, <2>2
<1>6. QED BY <1>2, <1>4, <1>5, RequestCases

LEMMA AnswersInnocent ==
  ASSUME Sound, NEW w \in Workers, Innocent(w), NEW v \in Workers,
         Answer(v) \/ AnswerRead(v) \/ Timeout(v)
  PROVE  Innocent(w)'
<1>1. /\ Inv /\ ShimShapes /\ ReadShapes /\ w \in Procs /\ v \in Procs /\ Serves(v)
      /\ serving' = [serving EXCEPT ![v] = FALSE] /\ UNCHANGED change
  BY EveryWorker DEF Sound, WorkersAreProcs, Answer, AnswerRead, Timeout
<1>2. \E code \in Statuses : status' = [status EXCEPT ![v] = code]
  BY ErrorStatusType DEF Answer, AnswerRead, Timeout, Statuses
<1>3. /\ \A q \in Procs \ {v} : pc'[q] = pc[q] /\ reply'[q] = reply[q]
      /\ \A x \in Workers \ {v} : reading'[x] = reading[x] /\ logged'[x] = logged[x]
  <2>1. CASE Answer(v)
    BY <1>1, <2>1 DEF Answer, vars, ShimShapes
  <2>2. CASE AnswerRead(v)
    BY <1>1, <2>2, NoReadType, GoesType DEF AnswerRead, vars
  <2>3. CASE Timeout(v)
    BY <1>1, <2>3, NoReadType, GoesType, KillApart DEF Timeout
  <2>4. QED BY <2>1, <2>2, <2>3
<1>4. CASE v # w
  BY <1>1, <1>2, <1>3, <1>4, InnocenceFrame DEF ShimShapes
<1>5. CASE v = w /\ Answer(w)
  <2>1. /\ serving[w] /\ pc[w] = "idle" /\ reading[w] = NoRead
        /\ UNCHANGED <<pc, reply, reading>>
    BY <1>5 DEF Answer, vars
  <2>2. CASE reply[w] = "ok"
    <3>1. status'[w] \in {200, 201}
      BY <1>1, <1>5, <2>2 DEF Answer, ShimShapes
    <3>2. QED BY <1>1, <1>5, <2>1, <3>1 DEF Innocent, Early, ShimShapes
  <2>3. CASE reply[w] # "ok"
    <3>1. status'[w] = ErrorStatus(reply[w])
      BY <1>1, <1>5, <2>3 DEF Answer, ShimShapes
    <3>2. reply[w] \in Replies
      BY <1>1 DEF Inv, Shapes
    <3>3. status'[w] = 500 \/ reply[w] \in Blameless
      BY <3>1, <3>2 DEF ErrorStatus, Replies, Results, Blameless
    <3>4. change[w] = None \/ status'[w] = 500
      BY <2>1, <3>3 DEF Innocent
    <3>5. QED BY <1>1, <1>5, <2>1, <3>4 DEF Innocent, Early, ShimShapes
  <2>4. QED BY <2>2, <2>3
<1>6. CASE v = w /\ AnswerRead(w)
  <2>1. reading[w] # NoRead
    BY <1>6 DEF AnswerRead, At, NoRead
  <2>2. change'[w] = None /\ ~serving'[w]
    BY <1>1, <1>6, <2>1 DEF Innocent, ShimShapes
  <2>3. QED BY <2>2 DEF Innocent
<1>7. CASE v = w /\ Timeout(w)
  <2>1. ~serving'[w] /\ status'[w] = 500
    BY <1>1, <1>7 DEF Timeout, ShimShapes
  <2>2. pc'[w] = "idle" /\ reading'[w] = NoRead
    <3>1. CASE Return(w, "killed") /\ pc[w] # "idle" /\ UNCHANGED reading
      BY <1>1, <1>7, <3>1, KillApart DEF Serves
    <3>2. CASE reading[w] # NoRead /\ Goes(w, NoRead) /\ UNCHANGED pc
      BY <1>1, <1>7, <3>2, NoReadType, GoesType DEF Serves
    <3>3. QED BY <1>7, <3>1, <3>2 DEF Timeout
  <2>3. QED BY <2>1, <2>2 DEF Innocent, Early
<1>8. QED BY <1>4, <1>5, <1>6, <1>7

LEMMA StepInnocent ==
  ASSUME Sound, [ShimNext]_allVars, NEW w \in Workers, Innocent(w)
  PROVE  Innocent(w)'
<1>1. Inv /\ w \in Procs /\ ReadShapes
  BY EveryWorker DEF Sound, WorkersAreProcs
<1>2. CASE UNCHANGED allVars \/ Late
  BY <1>2, InnocenceFrame DEF allVars, vars, Late
<1>3. ASSUME NEW p \in Procs, Terminal(p) PROVE Innocent(w)'
  BY <1>1, <1>3, StartApart, InnocenceFrame DEF Terminal
<1>4. ASSUME NEW v \in Workers, FedctlReads(v) PROVE Innocent(w)'
  <2>1. UNCHANGED <<pc, reply, serving, status, logged, change>>
    BY <1>4 DEF FedctlReads, vars
  <2>2. CASE v = w
    <3>1. reading[w] # NoRead
      BY <1>1, <1>4, <2>2, ReadStepControl DEF Sound, FedctlReads
    <3>2. QED BY <2>1, <3>1 DEF Innocent
  <2>3. CASE v # w
    BY <1>1, <1>4, <2>1, <2>3, ReadStepControl, InnocenceFrame DEF Sound, FedctlReads
  <2>4. QED BY <2>2, <2>3
<1>5. QED
  BY <1>2, <1>3, <1>4, FedctlInnocent, RequestInnocent, AnswersInnocent DEF ShimNext
----------------------------------------------------------------------------
(***************************************************************************)
(* The audit line, when nobody else has run fedctl.                        *)
(***************************************************************************)
\* Where the only fedctl there has been is in its plan tells what it has done.
Alone(w) ==
  LET s == src[w]  db == database[s.name] IN
  /\ pc[w] = "validate" => db = None
  /\ pc[w] = "attach" /\ step[w] <= Len(AttachPlan(s.type)) => db = None /\ change[w] = None
  /\ pc[w] = "attach" /\ step[w] > Len(AttachPlan(s.type)) => db # None /\ change[w] = Audited(w)
  /\ pc[w] = "host" => db # None /\ s.type = db.type
  /\ pc[w] = "detach" /\ step[w] = 1 =>
       /\ db # None /\ change[w] = None /\ s.type = db.type
       /\ HasCollection(s.type) => s.target = db.target
  /\ pc[w] = "detach" /\ step[w] # 1 => db = None /\ change[w] = Audited(w)
  /\ serving[w] /\ reading[w] = NoRead /\ pc[w] = "idle" /\ reply[w] = "ok" =>
       change[w] = Audited(w) /\ (op[w] = "add" <=> db # None)
  /\ logged[w] # None =>
       logged[w] = change[w] /\ (logged[w].action = "add" <=> database[logged[w].name] # None)

\* A worker alone: no other process has a label of its own, and nothing is late.
LEMMA NobodyElse ==
  ASSUME Sound, NEW w \in Workers, Undisturbed(w)
  PROVE  late = {} /\ \A p \in Procs \ {w} : pc[p] = "idle"
<1>1. Orphans /\ Inv
  BY DEF Sound
<1>2. late = {}
  BY <1>1 DEF Orphans, Undisturbed
<1>3. ASSUME NEW p \in Procs \ {w} PROVE pc[p] = "idle"
  <2>1. op[p] = "none" /\ ControlOK(p) /\ pc[p] \in Labels
    BY <1>1 DEF Undisturbed, Inv, Shapes, Local
  <2>2. QED BY <2>1 DEF ControlOK, Labels
<1>4. QED BY <1>2, <1>3

LEMMA AloneFrame ==
  ASSUME NEW w \in Workers, Alone(w), pc'[w] = pc[w], op'[w] = op[w], src'[w] = src[w],
         step'[w] = step[w], reply'[w] = reply[w], reading'[w] = reading[w],
         serving'[w] = serving[w], logged'[w] = logged[w], change'[w] = change[w],
         UNCHANGED database
  PROVE  Alone(w)'
BY DEF Alone, Audited

\* What the databases' changes mean to the worker that makes them.
LEMMA FedctlNotes ==
  ASSUME Sound, NEW w \in Workers, Fedctl(w), database' # database
  PROVE  LET n  == src[w].name
             db == IF database'[n] = None THEN database[n] ELSE database'[n] IN
         change'[w] = AuditLine(op[w], n, db.type, HostOf(db.type, db.target))
<1>1. change \in [Workers -> Lines \cup {None}]
  BY DEF Sound, ShimShapes
<1>2. QED BY <1>1 DEF Fedctl

LEMMA FedctlAdds ==
  ASSUME Sound, NEW w \in Workers, w \in Procs, Fedctl(w), Proceed(w), logged[w] = None,
         database' # database, AddsIt(w)
  PROVE  Alone(w)'
<1> DEFINE s == src[w]
           plan == AttachPlan(s.type)
<1>1. /\ Inv /\ op[w] = "add" /\ pc[w] = "attach" /\ s \in Sources /\ step[w] = Len(plan)
      /\ Len(plan) \in {1, 2} /\ logged'[w] = None
      /\ pc \in [Procs -> Labels] /\ step \in [Procs -> 0..3]
      /\ s.name \in Names /\ database \in [Names -> Databases \cup {None}]
  BY AttachLength DEF Sound, AddsIt, Called, Inv, Shapes, Local, ControlOK, Sources, Fedctl
<1>2. AttachStep(w)
  BY <1>1 DEF Proceed, CheckExists, Validate, RollbackStep, LookUpEngine, LookUpHost, DetachStep,
              NextSource
<1>3. /\ UNCHANGED <<src, op>>
      /\ \/ pc'[w] = "rollback"
         \/ pc'[w] = "attach" /\ step'[w] = Len(plan) + 1
  BY <1>1, <1>2 DEF AttachStep
<1>4. PICK login \in Logins \cup {None} : database' = [database EXCEPT ![s.name] = Wished(s, login)]
  BY DEF AddsIt
<1>5. Wished(s, login) # None /\ database'[s.name] = Wished(s, login)
  BY <1>1, <1>4, WishedIsThere
<1>6. database'[s.name].type = s.type /\ database'[s.name].target = s.target
  BY <1>5 DEF Wished
<1>7. change'[w] = AuditLine(op[w], s.name, s.type, HostOf(s.type, s.target))
  BY <1>5, <1>6, FedctlNotes
<1>8. change'[w] = Audited(w)'
  BY <1>3, <1>7 DEF Audited
<1>9. database'[src'[w].name] # None
  BY <1>3, <1>5
<1>10. pc'[w] = "attach" => step'[w] > Len(AttachPlan(src'[w].type)) /\ ~(step'[w] <= Len(AttachPlan(src'[w].type)))
  BY <1>1, <1>3
<1>11. pc'[w] \in {"attach", "rollback"}
  BY <1>3
<1>12. QED BY <1>1, <1>8, <1>9, <1>10, <1>11 DEF Alone

LEMMA FedctlTakes ==
  ASSUME Sound, NEW w \in Workers, w \in Procs, Fedctl(w), Proceed(w), logged[w] = None,
         Alone(w), database' # database, DropsIt(w)
  PROVE  Alone(w)'
<1> DEFINE s == src[w]
           plan == DetachPlan(s.type)
<1>1. /\ Inv /\ op[w] = "remove" /\ pc[w] = "detach" /\ s \in Subjects /\ step[w] = 1
      /\ logged'[w] = None
      /\ pc \in [Procs -> Labels] /\ step \in [Procs -> 0..3] /\ reply \in [Procs -> Replies]
      /\ s.name \in Names /\ database \in [Names -> Databases \cup {None}]
  BY DEF Sound, DropsIt, Inv, Shapes, Subjects, Fedctl
<1>2. DetachStep(w)
  BY <1>1 DEF Proceed, CheckExists, Validate, RollbackStep, LookUpEngine, LookUpHost, AttachStep,
              NextSource
<1>3. /\ UNCHANGED <<src, op>>
      /\ \/ pc'[w] = "idle" /\ reply'[w] = "INTERNAL_ERROR"
         \/ pc'[w] = "detach" /\ step'[w] = 2
  BY <1>1, <1>2 DEF DetachStep, Return
<1>4. /\ database[s.name] # None /\ s.type = database[s.name].type
      /\ HasCollection(s.type) => s.target = database[s.name].target
  BY <1>1 DEF Alone
<1>5. database'[s.name] = None
  BY <1>1 DEF DropsIt
<1>6. change'[w] = AuditLine(op[w], s.name, s.type, HostOf(s.type, s.target))
  BY <1>4, <1>5, FedctlNotes DEF HostOf
<1>7. change'[w] = Audited(w)'
  BY <1>3, <1>6 DEF Audited
<1>8. QED BY <1>1, <1>3, <1>5, <1>7 DEF Alone

LEMMA DetachNotEmpty ==
  ASSUME NEW t, NEW i \in 1 .. 3, i > Len(DetachPlan(t))
  PROVE  i # 1
<1>1. Len(DetachPlan(t)) = 1 \/ Len(DetachPlan(t)) = 2
  BY DetachLength
<1>2. CASE Len(DetachPlan(t)) = 1
  BY <1>2
<1>3. CASE Len(DetachPlan(t)) = 2
  BY <1>3
<1>4. QED BY <1>1, <1>2, <1>3

\* Steps that leave the databases, and so what is noted, as they are.
LEMMA FedctlWaits ==
  ASSUME Sound, NEW w \in Workers, w \in Procs, Proceed(w), op[w] # "apply", logged'[w] = None,
         Alone(w), Innocent(w), Undisturbed(w)', UNCHANGED database, change'[w] = change[w]
  PROVE  Alone(w)'
<1> DEFINE s == src[w]
<1>1. /\ Inv /\ Local(w) /\ pc \in [Procs -> Labels] /\ step \in [Procs -> 0..3]
      /\ reply \in [Procs -> Replies] /\ src \in [Procs -> Subjects \cup {None}]
      /\ database \in [Names -> Databases \cup {None}]
  BY DEF Sound, Inv, Shapes
<1>2. UNCHANGED op
  BY <1>1, ProceedApart
<1>3. CASE CheckExists(w)
  <2>1. \/ database[s.name] = None /\ pc'[w] = "validate"
        \/ pc'[w] = "idle" /\ reply'[w] \in {"SOURCE_EXISTS", "INTERNAL_ERROR"}
    BY <1>1, <1>3 DEF CheckExists, Return
  <2>2. UNCHANGED src
    BY <1>3 DEF CheckExists
  <2>3. QED BY <2>1, <2>2 DEF Alone
<1>4. CASE Validate(w)
  <2>1. /\ UNCHANGED src /\ op[w] = "add" /\ s \in Sources
        /\ database[s.name] = None /\ change[w] = None
    BY <1>1, <1>4 DEF Validate, Alone, Innocent, Early, Local, SubjectOK, ControlOK
  <2>2. \/ pc'[w] = "attach" /\ step'[w] = 1
        \/ pc'[w] = "idle" /\ reply'[w] = "INVALID"
    BY <1>1, <1>4, <2>1 DEF Validate, AttachReturns, Return
  <2>3. ~(1 > Len(AttachPlan(s.type)))
    BY AttachLength
  <2>4. QED BY <2>1, <2>2, <2>3 DEF Alone
<1>5. CASE AttachStep(w)
  <2> DEFINE plan == AttachPlan(s.type)
  <2>1. /\ UNCHANGED src /\ pc[w] = "attach" /\ op[w] = "add" /\ s \in Sources
        /\ Len(plan) \in {1, 2} /\ step[w] \in 1 .. Len(plan) + 1 /\ s.name \in Names
    BY <1>1, <1>5, AttachLength DEF AttachStep, Local, SubjectOK, ControlOK, Sources
  <2>2. CASE step[w] <= Len(plan) /\ Acknowledged(plan[step[w]].do, s)
             /\ step' = [step EXCEPT ![w] = @ + 1] /\ UNCHANGED pc
    <3>1. database[s.name] = None /\ change[w] = None
      BY <2>1, <2>2 DEF Alone
    <3>2. step[w] # Len(plan)
      <4>1. SUFFICES ASSUME step[w] = Len(plan) PROVE FALSE
        OBVIOUS
      <4>2. step[w] \in 1 .. Len(plan)
        BY <2>1, <2>2
      <4>3. plan[step[w]].do = "create database"
        <5>1. HasCollection(s.type) => Len(plan) = 2
          BY AttachLength
        <5>2. HasCollection(s.type) => step[w] # 1
          BY <4>1, <4>2, <5>1
        <5>3. QED BY <4>2, <5>2, AttachDo
      <4>4. CreateDatabase(s)
        BY <2>2, <4>3 DEF Acknowledged, Execute
      <4>5. database'[s.name] # None
        <5>1. database' = [database EXCEPT ![s.name] =
                             Wished(s, IF HasCollection(s.type) THEN collection[s.name] ELSE None)]
          BY <3>1, <4>4 DEF CreateDatabase, Wished
        <5>2. collection[s.name] \in Logins \cup {None}
          BY <1>1, <2>1 DEF Inv, Shapes
        <5>3. QED BY <1>1, <2>1, <5>1, <5>2, WishedIsThere
      <4>6. QED BY <3>1, <4>5
    <3>3. step'[w] <= Len(plan) /\ ~(step'[w] > Len(plan)) /\ pc'[w] = "attach"
      BY <1>1, <2>1, <2>2, <3>2
    <3>4. QED BY <2>1, <3>1, <3>3 DEF Alone
  <2>3. CASE pc' = [pc EXCEPT ![w] = "rollback"]
    BY <1>1, <2>3 DEF Alone
  <2>4. CASE step[w] > Len(plan) /\ AttachReturns(w, "ok")
    <3>1. database[s.name] # None /\ change[w] = Audited(w)
      BY <2>1, <2>4 DEF Alone
    <3>2. pc'[w] = "idle" /\ reply'[w] = "ok"
      BY <1>1, <2>1, <2>4 DEF AttachReturns, Return
    <3>3. change'[w] = Audited(w)'
      BY <1>2, <2>1, <3>1 DEF Audited
    <3>4. QED BY <1>2, <2>1, <3>1, <3>2, <3>3 DEF Alone
  <2>5. QED BY <1>5, <2>2, <2>3, <2>4 DEF AttachStep
<1>6. CASE RollbackStep(w)
  <2>1. UNCHANGED src /\ pc[w] = "rollback" /\ op[w] = "add"
    BY <1>1, <1>6 DEF RollbackStep, Local, ControlOK
  <2>2. \/ pc'[w] = "rollback"
        \/ pc'[w] = "idle" /\ reply'[w] = "INTERNAL_ERROR"
    BY <1>1, <1>6, <2>1 DEF RollbackStep, AttachReturns, Return
  <2>3. QED BY <2>1, <2>2 DEF Alone
<1>7. CASE LookUpEngine(w)
  <2>1. /\ pc[w] = "engine" /\ step[w] = 1 /\ UNCHANGED step /\ change[w] = None
        /\ s \in Subjects /\ s.name \in Names
    BY <1>1, <1>7 DEF LookUpEngine, Innocent, Early, Local, SubjectOK, ControlOK, Subjects
  <2>2. CASE /\ database[s.name] # None
             /\ src' = [src EXCEPT ![w].type = database[s.name].type]
             /\ pc' = [pc EXCEPT ![w] = AfterEngine(database[s.name].type)]
    <3>1. src'[w].name = s.name /\ src'[w].type = database[s.name].type
      BY <1>1, <2>1, <2>2 DEF Subjects
    <3>2. \/ pc'[w] = "host"
          \/ pc'[w] = "detach" /\ ~HasCollection(src'[w].type)
      BY <1>1, <2>2, <3>1 DEF AfterEngine
    <3>3. QED BY <2>1, <2>2, <3>1, <3>2 DEF Alone
  <2>3. CASE \E code \in {"SOURCE_NOT_FOUND", "INTERNAL_ERROR"} : Return(w, code)
    BY <1>1, <2>3 DEF Return, Alone
  <2>4. QED BY <1>7, <2>2, <2>3 DEF LookUpEngine
<1>8. CASE LookUpHost(w)
  <2>1. /\ pc[w] = "host" /\ step[w] = 1 /\ UNCHANGED step /\ change[w] = None
        /\ s \in Subjects /\ database[s.name] # None /\ s.type = database[s.name].type
        /\ pc'[w] = "detach"
    BY <1>1, <1>8 DEF LookUpHost, Innocent, Early, Alone, Local, SubjectOK, ControlOK
  <2>2. ~QueryFails(op[w])
    <3>1. SUFFICES ASSUME QueryFails(op[w]) PROVE FALSE
      OBVIOUS
    <3>2. [op |-> op[w], phase |-> "query", kind |-> "refused"] \in faults'
      BY <3>1 DEF QueryFails, Fault
    <3>3. \A f \in faults' : f.phase # "query"
      BY DEF Undisturbed
    <3>4. QED BY <3>2, <3>3
  <2>3. src' = [src EXCEPT ![w].target =
                  IF database[s.name] # None /\ HasCollection(database[s.name].type)
                  THEN database[s.name].target ELSE None]
    BY <1>8, <2>2 DEF LookUpHost
  <2>4. /\ src'[w].name = s.name /\ src'[w].type = s.type
        /\ HasCollection(s.type) => src'[w].target = database[s.name].target
    BY <1>1, <2>1, <2>3 DEF Subjects
  <2>5. QED BY <2>1, <2>4 DEF Alone
<1>9. CASE DetachStep(w)
  <2> DEFINE plan == DetachPlan(s.type)
  <2>1. /\ UNCHANGED src /\ pc[w] = "detach" /\ op[w] = "remove"
        /\ s \in Subjects /\ s.name \in Names /\ step[w] \in 1 .. 3
    BY <1>1, <1>9 DEF DetachStep, Local, SubjectOK, ControlOK, Subjects
  <2>2. CASE step[w] <= Len(plan) /\ Acknowledged(plan[step[w]], s)
             /\ step' = [step EXCEPT ![w] = @ + 1] /\ UNCHANGED pc
    <3>1. step[w] # 1
      <4>1. SUFFICES ASSUME step[w] = 1 PROVE FALSE
        OBVIOUS
      <4>2. plan[step[w]] = "drop database"
        BY <4>1 DEF DetachPlan
      <4>3. database'[s.name] = None
        BY <1>1, <2>1, <2>2, <4>2 DEF Acknowledged, Execute, DropDatabase
      <4>4. database[s.name] # None
        BY <2>1, <4>1 DEF Alone
      <4>5. QED BY <4>3, <4>4
    <3>2. database[s.name] = None /\ change[w] = Audited(w)
      BY <2>1, <3>1 DEF Alone
    <3>3. pc'[w] = "detach" /\ step'[w] # 1
      BY <1>1, <2>1, <2>2, <3>1
    <3>4. change'[w] = Audited(w)'
      BY <1>2, <2>1, <3>2 DEF Audited
    <3>5. QED BY <2>1, <3>2, <3>3, <3>4 DEF Alone
  <2>3. CASE Return(w, "INTERNAL_ERROR")
    BY <1>1, <2>3 DEF Return, Alone
  <2>4. CASE step[w] > Len(plan) /\ Return(w, "ok")
    <3>1. step[w] # 1
      <4>1. step[w] \in 1 .. 3 /\ step[w] > Len(plan)
        BY <2>1, <2>4
      <4>2. QED BY <4>1, DetachNotEmpty
    <3>2. database[s.name] = None /\ change[w] = Audited(w)
      BY <2>1, <3>1 DEF Alone
    <3>3. pc'[w] = "idle"
      BY <1>1, <2>4 DEF Return
    <3>4. change'[w] = Audited(w)'
      BY <1>2, <2>1, <3>2 DEF Audited
    <3>5. op'[w] # "add" /\ database'[src'[w].name] = None
      BY <1>2, <2>1, <3>2
    <3>6. QED BY <3>3, <3>4, <3>5 DEF Alone
  <2>5. QED BY <1>9, <2>2, <2>3, <2>4 DEF DetachStep
<1>10. CASE NextSource(w)
  BY <1>1, <1>10 DEF NextSource, Local, ControlOK
<1>11. QED BY <1>3, <1>4, <1>5, <1>6, <1>7, <1>8, <1>9, <1>10 DEF Proceed

LEMMA FedctlAlone ==
  ASSUME Sound, NEW w \in Workers, Innocent(w), Alone(w), Undisturbed(w)', Fedctl(w)
  PROVE  Alone(w)'
<1>1. /\ Inv /\ w \in Procs /\ Called(w) /\ Serves(w) /\ UNCHANGED logged
      /\ change \in [Workers -> Lines \cup {None}]
  BY EveryWorker DEF Sound, WorkersAreProcs, ShimShapes, Fedctl
<1>2. pc[w] # "idle"
  BY <1>1, ProceedApart DEF Fedctl, Kill
<1>3. logged[w] = None /\ logged'[w] = None
  BY <1>1, <1>2 DEF Serves, Innocent
<1>4. CASE Proceed(w)
  <2>1. CASE database' # database
    BY <1>1, <1>3, <1>4, <2>1, ProceedChanges, FedctlAdds, FedctlTakes
  <2>2. CASE UNCHANGED database
    <3>1. change'[w] = change[w]
      BY <1>1, <2>2 DEF Fedctl
    <3>2. QED BY <1>1, <1>3, <1>4, <2>2, <3>1, FedctlWaits DEF Called
  <2>3. QED BY <2>1, <2>2
<1>5. CASE Kill(w)
  <2>1. pc'[w] = "idle" /\ reply'[w] = "killed"
    BY <1>1, <1>5, KillApart DEF Kill
  <2>2. QED BY <1>3, <2>1 DEF Alone
<1>6. QED BY <1>4, <1>5 DEF Fedctl

\* What is left of the past stays.
LEMMA PastStays ==
  ASSUME Sound, ShimNext
  PROVE  /\ faults \subseteq faults' /\ (left' = 0 => left = 0)
         /\ \A p \in Procs : op[p] # "none" => op'[p] # "none"
<1>1. Inv /\ left \in Nat
  BY LateAssumption DEF Sound, Orphans
<1>2. CASE Late
  BY <1>2 DEF Late
<1>3. ASSUME NEW p \in Procs, Fedctl(p)
      PROVE  faults \subseteq faults' /\ (left' = 0 => left = 0) /\ UNCHANGED op
  <2>1. Next /\ UNCHANGED op
    BY <1>1, <1>3, ProceedApart DEF Fedctl, Next, Kill
  <2>2. left' = 0 => left = 0
    BY <1>1, <1>3 DEF Fedctl, Leaves
  <2>3. QED BY <2>1, <2>2, FaultsGrow
<1>4. ASSUME NEW p \in Procs,
             (\E s \in Requests : StartAdd(p, s)) \/ (\E n \in Names : StartRemove(p, n))
      PROVE  faults \subseteq faults' /\ \A q \in Procs : op[q] # "none" => op'[q] # "none"
  <2>1. Next
    BY <1>4 DEF Next
  <2>2. QED BY <1>1, <1>4, <2>1, FaultsGrow, StartApart
<1>5. ASSUME NEW p \in Procs, Terminal(p)
      PROVE  /\ faults \subseteq faults' /\ UNCHANGED left
             /\ \A q \in Procs : op[q] # "none" => op'[q] # "none"
  BY <1>4, <1>5 DEF Terminal
<1>6. ASSUME NEW w \in Workers,
             \/ \E u \in Users, s \in Requests : Post(w, u, s)
             \/ \E u \in Users, n \in Names : Delete(w, u, n)
             \/ \E u \in Users, n \in Names, kind \in ReadOps : Get(w, u, kind, n)
      PROVE  /\ faults \subseteq faults' /\ UNCHANGED left
             /\ \A q \in Procs : op[q] # "none" => op'[q] # "none"
  <2>1. w \in Procs
    BY EveryWorker DEF WorkersAreProcs
  <2>2. QED BY <1>4, <1>6, <2>1, RequestCases DEF Begins, Forget, vars
<1>7. ASSUME NEW w \in Workers, Answer(w) \/ AnswerRead(w) \/ Timeout(w) \/ FedctlReads(w)
      PROVE  UNCHANGED <<faults, op>> /\ (left' = 0 => left = 0)
  <2>1. UNCHANGED left \/ left' = left + 1
    BY <1>7 DEF Answer, AnswerRead, Timeout, FedctlReads, Leaves
  <2>2. UNCHANGED <<faults, op>>
    BY <1>7, TimeoutApart DEF Answer, AnswerRead, FedctlReads, vars
  <2>3. QED BY <1>1, <2>1, <2>2
<1>8. QED BY <1>2, <1>3, <1>5, <1>6, <1>7 DEF ShimNext

LEMMA UndisturbedBefore ==
  ASSUME Sound, ShimNext, NEW w \in Workers, Undisturbed(w)' PROVE Undisturbed(w)
BY PastStays DEF Undisturbed

LEMMA RequestAlone ==
  ASSUME Sound, NEW w \in Workers, Innocent(w), Alone(w), Undisturbed(w)', NEW v \in Workers,
         \/ \E u \in Users, s \in Requests : Post(v, u, s)
         \/ \E u \in Users, n \in Names : Delete(v, u, n)
         \/ \E u \in Users, n \in Names, kind \in ReadOps : Get(v, u, kind, n)
  PROVE  Alone(w)'
<1>1. /\ Inv /\ ShimShapes /\ ReadShapes /\ w \in Procs /\ v \in Procs /\ Serves(v)
      /\ UNCHANGED database
  BY EveryWorker, RequestApart DEF Sound, WorkersAreProcs
<1>2. CASE /\ status' = [status EXCEPT ![v] = 403]
           /\ logged' = [logged EXCEPT ![v] = None] /\ change' = [change EXCEPT ![v] = None]
           /\ UNCHANGED <<vars, reading, serving, late, left>> /\ ~serving[v] /\ Observe
  <2>1. UNCHANGED <<pc, op, src, step, reply, reading, serving>>
    BY <1>2 DEF vars
  <2>2. CASE v = w
    <3>1. logged'[w] = None
      BY <1>1, <1>2, <2>2 DEF ShimShapes
    <3>2. pc'[w] = "idle" /\ ~serving'[w]
      BY <1>1, <1>2, <2>1, <2>2 DEF Serves
    <3>3. QED BY <3>1, <3>2 DEF Alone
  <2>3. CASE v # w
    BY <1>1, <1>2, <2>1, <2>3, AloneFrame DEF ShimShapes
  <2>4. QED BY <2>2, <2>3
<1>3. CASE /\ Begins(v) /\ UNCHANGED reading
           /\ (\E s \in Requests : StartAdd(v, s)) \/ (\E n \in Names : StartRemove(v, n))
  <2>1. v = w
    BY <1>1, <1>3, StartApart DEF Undisturbed
  <2>2. logged'[w] = None
    BY <1>3, <2>1, BeginsShapes
  <2>3. \/ pc'[w] \in {"exists", "engine"}
        \/ pc'[w] = "idle" /\ reply'[w] = "HUB_UNAVAILABLE"
    BY <1>1, <1>3, <2>1, StartApart
  <2>4. QED BY <2>2, <2>3 DEF Alone
<1>4. CASE Begins(v) /\ \E kind \in ReadOps, n \in Names : StartRead(v, kind, n) /\ Forget(v)
  <2>1. CASE v = w
    <3>1. logged'[w] = None /\ pc[w] = "idle"
      BY <1>4, <2>1, BeginsShapes
    <3>2. pc'[w] = "idle" /\ reply'[w] = "none"
      BY <1>1, <1>4, <2>1, <3>1 DEF Forget, Inv, Shapes
    <3>3. QED BY <3>1, <3>2 DEF Alone
  <2>2. CASE v # w
    <3>1. /\ pc'[w] = pc[w] /\ op'[w] = op[w] /\ src'[w] = src[w]
          /\ step'[w] = step[w] /\ reply'[w] = reply[w]
      BY <1>1, <1>4, <2>2 DEF Forget, Inv, Shapes
    <3>2. reading'[w] = reading[w]
      BY <1>1, <1>4, <2>2, StartReads, GoesType
    <3>3. QED BY <1>1, <1>4, <2>2, <3>1, <3>2, BeginsShapes, AloneFrame
  <2>3. QED BY <2>1, <2>2
<1>5. QED BY <1>2, <1>3, <1>4, RequestCases

LEMMA AnswerAlone ==
  ASSUME Sound, NEW w \in Workers, Innocent(w), Alone(w), NEW v \in Workers, Answer(v)
  PROVE  Alone(w)'
<1>1. ShimShapes /\ UNCHANGED <<pc, op, src, step, reply, reading, change, database>>
  BY DEF Sound, Answer, vars
<1>2. CASE v # w
  BY <1>1, <1>2, AloneFrame DEF Answer, ShimShapes
<1>3. CASE v = w
  <2>1. /\ serving[w] /\ pc[w] = "idle" /\ reading[w] = NoRead /\ ~serving'[w]
        /\ logged[w] = None
    BY <1>1, <1>3 DEF Answer, ShimShapes, Innocent
  <2>2. CASE reply[w] = "ok"
    <3>1. logged'[w] = Audited(w)
      BY <1>1, <1>3, <2>2 DEF Answer, ShimShapes
    <3>2. change[w] = Audited(w) /\ (op[w] = "add" <=> database[src[w].name] # None)
      BY <2>1, <2>2 DEF Alone
    <3>3. Audited(w).action = op[w] /\ Audited(w).name = src[w].name
      BY DEF Audited, AuditLine
    <3>4. QED BY <1>1, <2>1, <3>1, <3>2, <3>3 DEF Alone
  <2>3. CASE reply[w] # "ok"
    <3>1. logged'[w] = None
      BY <1>3, <2>1, <2>3 DEF Answer
    <3>2. QED BY <1>1, <2>1, <3>1 DEF Alone
  <2>4. QED BY <2>2, <2>3
<1>4. QED BY <1>2, <1>3

LEMMA StepAlone ==
  ASSUME Sound, ShimNext, NEW w \in Workers, Innocent(w), Undisturbed(w) => Alone(w),
         Undisturbed(w)'
  PROVE  Alone(w)'
<1>1. /\ Inv /\ ShimShapes /\ ReadShapes /\ w \in Procs /\ Serves(w)
      /\ Undisturbed(w) /\ Alone(w)
  BY EveryWorker, UndisturbedBefore DEF Sound, WorkersAreProcs
<1>2. ~Late
  BY <1>1, NobodyElse DEF Late
<1>3. ASSUME NEW p \in Procs, Fedctl(p) PROVE Alone(w)'
  <2>1. p = w
    BY <1>1, <1>3, NobodyElse, ProceedApart DEF Fedctl, Kill
  <2>2. QED BY <1>1, <1>3, <2>1, FedctlAlone
<1>4. ASSUME NEW p \in Procs PROVE ~Terminal(p)
  <2>1. Terminal(p) => p # w /\ op'[p] # "none"
    BY <1>1, StartApart DEF Terminal
  <2>2. QED BY <2>1 DEF Undisturbed
<1>5. ASSUME NEW v \in Workers, AnswerRead(v) PROVE Alone(w)'
  <2>1. /\ UNCHANGED <<pc, op, src, step, reply, logged, change, database>>
        /\ serving' = [serving EXCEPT ![v] = FALSE] /\ Goes(v, NoRead) /\ reading[v] # NoRead
    BY <1>5 DEF AnswerRead, vars, At, NoRead
  <2>2. CASE v # w
    BY <1>1, <2>1, <2>2, NoReadType, GoesType, AloneFrame DEF ShimShapes
  <2>3. CASE v = w
    <3>1. pc'[w] = "idle" /\ ~serving'[w] /\ logged'[w] = None
      BY <1>1, <2>1, <2>3 DEF Serves, Innocent, ShimShapes
    <3>2. QED BY <3>1 DEF Alone
  <2>4. QED BY <2>2, <2>3
<1>6. ASSUME NEW v \in Workers, Timeout(v) PROVE Alone(w)'
  <2>1. /\ UNCHANGED <<database, op, src, step, logged, change>> /\ v \in Procs
        /\ serving' = [serving EXCEPT ![v] = FALSE] /\ serving[v]
    BY <1>6, TimeoutApart, EveryWorker DEF Timeout, WorkersAreProcs
  <2>2. \/ Return(v, "killed") /\ UNCHANGED reading
        \/ UNCHANGED <<pc, reply>> /\ Goes(v, NoRead) /\ reading[v] # NoRead
    BY <1>6 DEF Timeout
  <2>3. CASE v # w
    <3>1. pc'[w] = pc[w] /\ reply'[w] = reply[w] /\ reading'[w] = reading[w]
      BY <1>1, <2>1, <2>2, <2>3, KillApart, NoReadType, GoesType
    <3>2. QED BY <1>1, <2>1, <2>3, <3>1, AloneFrame DEF ShimShapes
  <2>4. CASE v = w
    <3>1. pc'[w] = "idle"
      BY <1>1, <2>1, <2>2, <2>4, KillApart DEF Serves
    <3>2. ~serving'[w] /\ logged'[w] = None
      BY <1>1, <2>1, <2>4 DEF Innocent, ShimShapes
    <3>3. QED BY <3>1, <3>2 DEF Alone
  <2>5. QED BY <2>3, <2>4
<1>7. ASSUME NEW v \in Workers, FedctlReads(v) PROVE Alone(w)'
  <2>1. UNCHANGED <<database, pc, op, src, step, reply, serving, logged, change>>
    BY <1>7 DEF FedctlReads, vars
  <2>2. /\ reading[v] # NoRead /\ reading'[v] # NoRead
        /\ \A x \in Workers \ {v} : reading'[x] = reading[x]
    BY <1>1, <1>7, ReadStepControl DEF Sound, FedctlReads
  <2>3. CASE v # w
    BY <2>1, <2>2, <2>3, <1>1, AloneFrame
  <2>4. CASE v = w
    <3>1. pc'[w] = "idle" /\ logged'[w] = None
      BY <1>1, <2>1, <2>2, <2>4 DEF Serves, Innocent
    <3>2. QED BY <2>2, <2>4, <3>1 DEF Alone
  <2>5. QED BY <2>3, <2>4
<1>8. QED BY <1>1, <1>2, <1>3, <1>4, <1>5, <1>6, <1>7, RequestAlone, AnswerAlone DEF ShimNext

Telling == Sound /\ \A w \in Workers : Innocent(w) /\ (Undisturbed(w) => Alone(w))

LEMMA AlwaysTelling == ShimSpec => []Telling
<1>1. ShimInit => Telling
  <2> SUFFICES ASSUME ShimInit, NEW w \in Workers PROVE Innocent(w) /\ Alone(w)
    BY InitSound DEF Telling
  <2>1. /\ pc[w] = "idle" /\ reply[w] = "none" /\ ~serving[w] /\ status[w] = 0
        /\ logged[w] = None /\ change[w] = None
    BY EveryWorker DEF ShimInit, Init, WorkersAreProcs
  <2>2. QED BY <2>1 DEF Innocent, Alone
<1>2. Telling /\ [ShimNext]_allVars => Telling'
  <2> SUFFICES ASSUME Telling, [ShimNext]_allVars, NEW w \in Workers
               PROVE  Innocent(w)' /\ (Undisturbed(w)' => Alone(w)')
    BY StepSound DEF Telling
  <2>1. Innocent(w)'
    BY StepInnocent DEF Telling
  <2>2. CASE ShimNext
    BY <2>1, <2>2, StepAlone DEF Telling
  <2>3. CASE UNCHANGED allVars
    BY <2>1, <2>3 DEF Telling, allVars, vars, Undisturbed, Alone, Audited
  <2>4. QED BY <2>1, <2>2, <2>3
<1>3. QED BY <1>1, <1>2, PTL DEF ShimSpec

\* An audit line names the source, the type and the host of the database that the
\* request created or dropped, as long as nobody else has run fedctl and no query
\* has failed: otherwise another's statement can come in between.
THEOREM AuditLinesMatch == ShimSpec => []AuditMatchesTheHub
<1>1. Telling => AuditMatchesTheHub
  BY DEF Telling, AuditMatchesTheHub, Alone
<1>2. QED BY <1>1, AlwaysTelling, PTL

\* A status that blames the request or the hub is one of a request that has changed
\* nothing, whoever else is at work; a good answer is true of the hub, of a worker
\* that is alone with it.
THEOREM StatusesTellTheOutcome == ShimSpec => []StatusTellsTheOutcome
<1>1. Telling => StatusTellsTheOutcome
  BY DEF Telling, StatusTellsTheOutcome, Alone, Innocent
<1>2. QED BY <1>1, AlwaysTelling, PTL
=============================================================================
