---------------------------- MODULE ExtensionShim ----------------------------
(***************************************************************************)
(* The Superset extension's backend in front of fedctl.                    *)
(*                                                                         *)
(* A worker serves one request at a time: it checks the user's permission, *)
(* runs one fedctl process, waits for it no longer than a timeout, turns   *)
(* its reply into an HTTP status and writes an audit line when the reply   *)
(* is good.  A worker's fedctl is the process of FederationHub, or what    *)
(* reads in HubReads, with the worker's name; the other processes are      *)
(* fedctl in a terminal.                                                   *)
(*                                                                         *)
(* A fedctl that is killed leaves the statement it waits for to the hub,   *)
(* which may still execute it, long after the client has its answer.       *)
(***************************************************************************)
EXTENDS HubReads

CONSTANTS
  Users,      \* who sends the requests
  Managers,   \* the users with can_manage on ChFederationAPI
  MaxLate     \* bound on the statements left to the hub in a behaviour

ASSUME LateAssumption     == MaxLate \in Nat
ASSUME ManagersAssumption == Managers \subseteq Users
ASSUME WebAssumption      == {"add", "remove"} \subseteq Operations

VARIABLES
  serving,    \* whether a worker has a request
  status,     \* the HTTP status of its last answer, 0 before the answer
  logged,     \* the audit line of its last request
  change,     \* history: the database its last request created or dropped
  late,       \* the statements that killed processes left to the hub
  left        \* history: how many they have left

shim    == <<serving, status, logged, change>>
orphans == <<late, left>>
allVars == <<vars, reads, shim, orphans>>

AuditLine(action, n, t, host) ==
  [action |-> action, name |-> n, type |-> t, host |-> host]

HostOf(t, target) == IF HasCollection(t) THEN target ELSE None
----------------------------------------------------------------------------
\* _can_manage: without it no fedctl is run.
Receive(w, u, allowed, start) ==
  /\ ~serving[w]
  /\ logged' = [logged EXCEPT ![w] = None]
  /\ change' = [change EXCEPT ![w] = None]
  /\ \/ /\ u \in allowed /\ start
        /\ serving' = [serving EXCEPT ![w] = TRUE]
        /\ status' = [status EXCEPT ![w] = 0]
     \/ /\ u \notin allowed
        /\ status' = [status EXCEPT ![w] = 403]
        /\ UNCHANGED <<vars, reading, serving>>
  /\ Observe /\ UNCHANGED orphans

Post(w, u, s)   == Receive(w, u, Managers, StartAdd(w, s) /\ UNCHANGED reading)
Delete(w, u, n) == Receive(w, u, Managers, StartRemove(w, n) /\ UNCHANGED reading)

\* Nothing is left of the worker's last fedctl but what it was.
Forget(w) ==
  /\ src' = [src EXCEPT ![w] = None]
  /\ step' = [step EXCEPT ![w] = 1]
  /\ line' = [line EXCEPT ![w] = 1]
  /\ file' = [file EXCEPT ![w] = <<>>]
  /\ report' = [report EXCEPT ![w] = NoReport]
  /\ reply' = [reply EXCEPT ![w] = "none"]
  /\ UNCHANGED <<hub, pc, op, faults>>

\* Every user here may read; a test is a manager's.
Get(w, u, kind, n) ==
  Receive(w, u, IF kind = "test" THEN Managers ELSE Users, StartRead(w, kind, n) /\ Forget(w))

\* ERROR_STATUS.  Mutant: everything fedctl reports is the gateway's fault.
ErrorStatus_BadGateway(code) ==
  CASE code = "INVALID"          -> 400
    [] code = "SOURCE_NOT_FOUND" -> 404
    [] code = "SOURCE_EXISTS"    -> 409
    [] OTHER                     -> 502

ErrorStatus(code) ==
  CASE code = "INVALID"          -> 400
    [] code = "SOURCE_NOT_FOUND" -> 404
    [] code = "SOURCE_EXISTS"    -> 409
    [] code \in {"HUB_UNAVAILABLE", "CONNECTION_FAILED"} -> 502
    [] OTHER                     -> 500

\* What _audit is told: the host of the request for an add, and for a remove
\* what fedctl looked up.  Mutant: the host is not looked up for a remove.
Audited_NoHost(w) ==
  AuditLine(op[w], src[w].name, src[w].type,
            IF op[w] = "add" THEN HostOf(src[w].type, src[w].target) ELSE None)

Audited(w) ==
  AuditLine(op[w], src[w].name, src[w].type, HostOf(src[w].type, src[w].target))

Answer(w) ==
  /\ serving[w] /\ pc[w] = "idle" /\ reading[w] = NoRead
  /\ serving' = [serving EXCEPT ![w] = FALSE]
  /\ \/ /\ reply[w] = "ok"
        /\ status' = [status EXCEPT ![w] = IF op[w] = "add" THEN 201 ELSE 200]
        /\ logged' = [logged EXCEPT ![w] = Audited(w)]
     \/ /\ reply[w] # "ok"
        /\ status' = [status EXCEPT ![w] = ErrorStatus(reply[w])]
        /\ UNCHANGED logged
  /\ UNCHANGED <<vars, reads, change, orphans>>

\* What was read is forgotten with the answer.
AnswerRead(w) ==
  /\ At(w, "done")
  /\ serving' = [serving EXCEPT ![w] = FALSE]
  /\ LET code == reading[w].code IN
       status' = [status EXCEPT ![w] = IF code = "ok" THEN 200 ELSE ErrorStatus(code)]
  /\ Goes(w, NoRead)
  /\ UNCHANGED <<vars, logged, change, orphans>>
  /\ Observe

\* What statement do says of s: a DROP has its name only.
Text(do, s) ==
  IF do \in {"create collection", "create database"} THEN s
  ELSE [name |-> s.name, type |-> None, target |-> None, secret |-> None]

\* The statement that p waits for, if it waits for one.
InFlight(p) ==
  LET attach == AttachPlan(src[p].type)
      detach == DetachPlan(src[p].type)
      statements ==
        CASE pc[p] = "attach" /\ step[p] <= Len(attach) -> {attach[step[p]].do}
          [] pc[p] = "rollback" /\ step[p] > 0          -> {attach[step[p]].undo}
          [] pc[p] = "detach" /\ step[p] <= Len(detach) -> {detach[step[p]]}
          [] OTHER                                      -> {}
  IN {[op |-> op[p], do |-> statement, of |-> Text(statement, src[p])] : statement \in statements}

\* p is killed: the hub has not got its statement, or it has and goes on.
Leaves(p) ==
  \/ UNCHANGED orphans
  \/ /\ left < MaxLate
     /\ left' = left + 1
     /\ \E statement \in InFlight(p) : late' = late \cup {statement}

\* The hub comes to a statement whose process is no longer there.
Late ==
  /\ \E statement \in late :
       /\ late' = late \ {statement}
       /\ IF Accepts(statement.do, statement.of) THEN Execute(statement.do, statement.of)
                                                 ELSE UNCHANGED hub
  /\ UNCHANGED <<pc, task, src, step, line, report, reply, faults, reading, shim, left>>
  /\ Observe

\* subprocess.run kills a fedctl that is still running and raises
\* TimeoutExpired.  Mutants: it waits, or leaves the process running.
Timeout_Never(w) == FALSE

Timeout_NoKill(w) ==
  /\ serving[w] /\ pc[w] # "idle"
  /\ serving' = [serving EXCEPT ![w] = FALSE]
  /\ status' = [status EXCEPT ![w] = 500]
  /\ UNCHANGED <<vars, reads, logged, change, orphans>>

Timeout(w) ==
  /\ serving[w]
  /\ \/ /\ pc[w] # "idle"
        /\ Return(w, "killed") /\ Leaves(w)
        /\ UNCHANGED reading
     \/ /\ reading[w] # NoRead /\ ~At(w, "done")
        /\ Goes(w, NoRead)
        /\ UNCHANGED <<pc, reply, orphans>>
  /\ serving' = [serving EXCEPT ![w] = FALSE]
  /\ status' = [status EXCEPT ![w] = 500]
  /\ UNCHANGED <<hub, task, src, step, line, report, faults, logged, change>>
  /\ Observe

\* A fedctl takes a step or dies (it then prints no envelope, which is an internal
\* error).  What a worker's fedctl does to the databases is noted in `change`.
Fedctl(p) ==
  /\ \/ Proceed(p) /\ UNCHANGED orphans
     \/ Kill(p) /\ Leaves(p)
  /\ change' = IF p \in Workers /\ database' # database
               THEN LET n  == src[p].name
                        db == IF database'[n] = None THEN database[n] ELSE database'[n] IN
                    [change EXCEPT ![p] = AuditLine(op[p], n, db.type, HostOf(db.type, db.target))]
               ELSE change
  /\ UNCHANGED <<reading, serving, status, logged>>
  /\ Observe

FedctlReads(w) ==
  /\ ReadStep(w)
  /\ UNCHANGED <<vars, shim, orphans>>
  /\ Observe

\* Someone runs fedctl in a terminal.  (What apply does is left to FederationHub.)
Terminal(p) ==
  /\ p \notin Workers
  /\ \/ \E s \in Requests : StartAdd(p, s)
     \/ \E n \in Names : StartRemove(p, n)
  /\ UNCHANGED <<reading, shim, orphans>>
  /\ Observe

ShimInit ==
  /\ Init /\ ReadsInit
  /\ serving = [w \in Workers |-> FALSE]
  /\ status = [w \in Workers |-> 0]
  /\ logged = [w \in Workers |-> None]
  /\ change = [w \in Workers |-> None]
  /\ late = {} /\ left = 0

ShimNext ==
  \/ \E w \in Workers :
       \/ \E u \in Users, s \in Requests : Post(w, u, s)
       \/ \E u \in Users, n \in Names : Delete(w, u, n)
       \/ \E u \in Users, n \in Names, kind \in ReadOps : Get(w, u, kind, n)
       \/ Answer(w) \/ AnswerRead(w) \/ Timeout(w) \/ FedctlReads(w)
  \/ Late
  \/ \E p \in Procs : Fedctl(p) \/ Terminal(p)

ShimSpec == ShimInit /\ [][ShimNext]_allVars

\* Only the worker is fair: fedctl may hang for ever.
FairShimSpec == ShimSpec /\ \A w \in Workers : WF_allVars(Answer(w) \/ AnswerRead(w) \/ Timeout(w))
----------------------------------------------------------------------------
(***************************************************************************)
(* Properties                                                              *)
(***************************************************************************)
Lines == [action: {"add", "remove"}, name: Names, type: Types, host: Targets \cup {None}]

LateStatements ==
  [op: Operations, do: {"create collection", "create database", "drop collection", "drop database"},
   of: Subjects]

\* The hub and the reads keep their types under the extension; a fedctl of the
\* extension runs for a request, and for no more than one.
ShimTypeOK ==
  /\ TypeOK /\ ReadsTypeOK
  /\ serving \in [Workers -> BOOLEAN]
  /\ status \in [Workers -> {0, 200, 201, 400, 403, 404, 409, 500, 502}]
  /\ logged \in [Workers -> Lines \cup {None}]
  /\ change \in [Workers -> Lines \cup {None}]
  /\ late \subseteq LateStatements /\ left \in 0 .. MaxLate
  /\ \A w \in Workers :
       /\ pc[w] # "idle" => serving[w] /\ reading[w] = NoRead
       /\ reading[w] # NoRead => serving[w]

\* Nobody else has run fedctl, none of w's left a statement, and no query of w's failed.
Undisturbed(w) ==
  /\ \A p \in Procs \ {w} : op[p] = "none"
  /\ \A f \in faults : f.phase # "query"
  /\ left = 0

\* An audit line names the source, the type and the host of the database that the
\* request created or dropped ("user, source name, type, host, timestamp").
AuditMatchesTheHub ==
  \A w \in Workers : Undisturbed(w) /\ logged[w] # None => logged[w] = change[w]

\* What a client may conclude from the status: after a good answer to an add the hub
\* has the source, after one to a remove it has not, and 400, 403, 404, 409 and 502
\* mean that the request has changed nothing.
StatusTellsTheOutcome ==
  \A w \in Workers :
    /\ Undisturbed(w) /\ logged[w] # None =>
         (logged[w].action = "add" <=> database[logged[w].name] # None)
    /\ status[w] \in {400, 403, 404, 409, 502} => change[w] = None

DropsOnlyForRemovals ==
  \A n \in Names : database[n] # None /\ database'[n] # database[n] =>
    /\ database'[n] = None
    /\ \/ \E p \in Procs : pc[p] = "detach" /\ op[p] = "remove" /\ src[p].name = n
       \/ \E l \in late : l.op = "remove" /\ l.of.name = n

\* A database disappears only because someone has asked for its removal: no attach
\* that fails takes one away, and neither does what is left of a process that was
\* killed, however late the hub comes to it.
OnlyRemovalsDrop == [][DropsOnlyForRemovals]_allVars

\* "A hung fedctl would otherwise hold a gunicorn worker forever": every request
\* is answered, even when fedctl takes no step at all.
EveryRequestIsAnswered ==
  \A w \in Workers : serving[w] ~> ~serving[w]

\* "Audit every mutation": a request that changed the hub has its line when it
\* has been answered.
MutationsAreAudited ==
  \A w \in Workers : ~serving[w] /\ change[w] # None => logged[w] # None
=============================================================================
