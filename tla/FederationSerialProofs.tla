----------------------- MODULE FederationSerialProofs -----------------------
(***************************************************************************)
(* Invocations of fedctl that are run one at a time: they are the calls of *)
(* SourceRegistry, and what they report of the hub is what they leave.     *)
(***************************************************************************)
EXTENDS FederationHubProofs

USE DEF hub, task

Steps(p) == Len(AttachPlan(src[p].type))

\* Where the only process is in its plan tells whether its source's database is
\* there: an add has found none and creates it with its last statement, a remove
\* has found one and drops it with its first.
Course(p) ==
  LET db == database[src[p].name] IN
    /\ op[p] = "add" /\ pc[p] = "validate" => db = None
    /\ op[p] = "add" /\ pc[p] = "attach" /\ step[p] <= Steps(p) => db = None
    /\ pc[p] = "attach" /\ step[p] > Steps(p) => db # None
    /\ pc[p] = "host" => db # None
    /\ pc[p] = "detach" => (step[p] = 1 <=> db # None)

AttachLabels == {"validate", "attach", "rollback"}

\* An apply that is under way: what it has reported as attached is there, every
\* entry of the file before its line has a report, but for the one it works on.
Batchwork(p) ==
  op[p] = "apply" /\ pc[p] # "idle" =>
    /\ \A n \in Names : report[p][n] = "ok" => database[n] # None
    /\ \A i \in DOMAIN file[p] :
         /\ i < line[p]
         /\ ~(pc[p] \in AttachLabels /\ i = line[p] - 1)
         => report[p][file[p][i].name] # "none"
    /\ pc[p] \in AttachLabels =>
         line[p] - 1 \in DOMAIN file[p] /\ src[p] = file[p][line[p] - 1]

RInv == Inv /\ \A p \in Procs : Course(p) /\ Batchwork(p)
----------------------------------------------------------------------------
(***************************************************************************)
(* Steps of the registry, told by what happens to the catalogue and to the *)
(* call of the only process.                                               *)
(***************************************************************************)
AbstractStep == [Registry!Next]_(Registry!vars)

LEMMA Stutters ==
  ASSUME OneAtATime, NEW p \in Procs, UNCHANGED database, CallOf(p)' = CallOf(p)
  PROVE  AbstractStep
<1>1. \A q \in Procs : q = p
  BY DEF OneAtATime
<1>2. \A q \in Procs : CallOf(q)' = CallOf(q)
  BY <1>1
<1>3. [q \in Procs |-> CallOf(q)]' = [q \in Procs |-> CallOf(q)]
  BY <1>2
<1>4. UNCHANGED Registry!vars
  BY <1>3 DEF Registry!vars
<1>5. QED BY <1>4 DEF AbstractStep

Codes == {"ok", "SOURCE_EXISTS", "SOURCE_NOT_FOUND", "error"}

\* What the registry asks of a reply.
Honest(p, r) ==
  \/ r = "ok" /\ CallState(p) = "done"
  \/ r = "ok" /\ op[p] = "apply" /\ \A w \in Wanted(p) : w[1] \in Names /\ database[w[1]] # None
  \/ /\ r = "SOURCE_EXISTS" /\ op[p] = "add" /\ CallState(p) = "pending"
     /\ src[p].name \in Names /\ database[src[p].name] # None
  \/ /\ r = "SOURCE_NOT_FOUND" /\ op[p] = "remove" /\ CallState(p) = "pending"
     /\ src[p].name \in Names /\ database[src[p].name] = None
  \/ r = "error"

\* The call of p, ended with r.
Ended(p, r) ==
  [state |-> "idle", op |-> op[p], name |-> CallOf(p).name, wants |-> Wanted(p), reply |-> r]

\* The call of p, in another state.
InState(p, state) ==
  [state |-> state, op |-> op[p], name |-> CallOf(p).name, wants |-> Wanted(p),
   reply |-> CallOf(p).reply]

LEMMA EndsCall ==
  ASSUME NEW p, NEW r
  PROVE  [CallOf(p) EXCEPT !.state = "idle", !.reply = r] = Ended(p, r)
<1>1. [CallOf(p) EXCEPT !.state = "idle"] = InState(p, "idle")
  BY DEF CallOf, InState
<1>2. [InState(p, "idle") EXCEPT !.reply = r] = Ended(p, r)
  BY DEF InState, Ended
<1>3. QED BY <1>1, <1>2

LEMMA EntryIsSomething ==
  ASSUME NEW d \in Databases PROVE EntryOf(d) # None
BY NoneAssumption DEF EntryOf, Databases

LEMMA WantedByAdd ==
  ASSUME NEW p \in Procs, op[p] = "add"
  PROVE  Wanted(p) = {<< src[p].name, EntryOf(src[p]) >>}
BY DEF Wanted, Batch

LEMMA WantedByApply ==
  ASSUME NEW p \in Procs, op[p] = "apply"
  PROVE  Wanted(p) = Batch(file[p])
BY DEF Wanted

LEMMA WantedByNewAdd ==
  ASSUME NEW p \in Procs, op'[p] = "add"
  PROVE  Wanted(p)' = {<< src'[p].name, EntryOf(src'[p]) >>}
BY DEF Wanted, Batch, EntryOf

LEMMA WantedByNewApply ==
  ASSUME NEW p \in Procs, op'[p] = "apply"
  PROVE  Wanted(p)' = Batch(file'[p])
BY DEF Wanted, Batch, EntryOf

LEMMA RepliesOnce ==
  ASSUME OneAtATime, Inv, NEW p \in Procs, NEW r \in Codes, UNCHANGED database,
         CallState(p) # "idle", CallOf(p)' = Ended(p, r), Honest(p, r)
  PROVE  AbstractStep
<1> DEFINE registry == [n \in Names |-> IF database[n] = None THEN None ELSE EntryOf(database[n])]
           call == [q \in Procs |-> CallOf(q)]
<1>1. \A q \in Procs : q = p
  BY DEF OneAtATime
<1>2. call' = [call EXCEPT ![p].state = "idle", ![p].reply = r]
  <2>1. call'[p] = Ended(p, r)
    OBVIOUS
  <2>2. [CallOf(p) EXCEPT !.state = "idle", !.reply = r] = Ended(p, r)
    BY EndsCall
  <2>3. QED BY <1>1, <2>1, <2>2
<1>3. \A n \in Names : registry[n] = None <=> database[n] = None
  BY EntryIsSomething DEF Inv, Shapes
<1>4. call[p].state = CallState(p) /\ call[p].op = op[p] /\ call[p].wants = Wanted(p)
      /\ (op[p] = "remove" => call[p].name = src[p].name)
  BY DEF CallOf
<1>5. call[p].state # "idle"
  BY <1>4
<1>6. Registry!Succeeded(p) \/ r # "ok"
  <2>1. CASE r = "ok" /\ CallState(p) = "done"
    BY <1>4, <2>1 DEF Registry!Succeeded
  <2>2. CASE /\ r = "ok" /\ op[p] = "apply"
             /\ \A w \in Wanted(p) : w[1] \in Names /\ database[w[1]] # None
    BY <1>3, <1>4, <2>2 DEF Registry!Succeeded
  <2>3. QED BY <2>1, <2>2 DEF Honest
<1>7. r = "SOURCE_EXISTS" =>
        /\ call[p].op = "add" /\ call[p].state = "pending"
        /\ \E w \in call[p].wants : registry[w[1]] # None
  <2> SUFFICES ASSUME r = "SOURCE_EXISTS"
               PROVE  /\ call[p].op = "add" /\ call[p].state = "pending"
                      /\ \E w \in call[p].wants : registry[w[1]] # None
    OBVIOUS
  <2>1. /\ op[p] = "add" /\ CallState(p) = "pending"
        /\ src[p].name \in Names /\ database[src[p].name] # None
    BY DEF Honest
  <2>2. << src[p].name, EntryOf(src[p]) >> \in Wanted(p)
    BY <2>1, WantedByAdd
  <2>3. registry[<< src[p].name, EntryOf(src[p]) >>[1]] # None
    BY <1>3, <2>1
  <2>4. QED BY <1>4, <2>1, <2>2, <2>3
<1>8. r = "SOURCE_NOT_FOUND" =>
        /\ call[p].op = "remove" /\ call[p].state = "pending" /\ registry[call[p].name] = None
  BY <1>3, <1>4 DEF Honest
<1>9. UNCHANGED registry
  OBVIOUS
<1>10. Registry!Reply(p, r)
  BY <1>2, <1>5, <1>6, <1>7, <1>8, <1>9 DEF Registry!Reply, Codes
<1>11. QED BY <1>10 DEF Registry!Next, AbstractStep, Codes

\* An entry that p wants is put there, by an add or by an apply.
LEMMA PutsOne ==
  ASSUME OneAtATime, Inv, NEW p \in Procs, NEW s \in Sources,
         << s.name, EntryOf(s) >> \in Wanted(p),
         database[s.name] = None,
         NEW login, database' = [database EXCEPT ![s.name] =
                                   [type |-> s.type, target |-> s.target, login |-> login]],
         [type |-> s.type, target |-> s.target, login |-> login] \in Databases,
         CallState(p) = "pending",
         \/ op[p] = "add" /\ CallOf(p)' = InState(p, "done")
         \/ op[p] = "apply" /\ CallOf(p)' = CallOf(p)
  PROVE  AbstractStep
<1> DEFINE registry == [n \in Names |-> IF database[n] = None THEN None ELSE EntryOf(database[n])]
           call == [q \in Procs |-> CallOf(q)]
           db == [type |-> s.type, target |-> s.target, login |-> login]
<1>1. \A q \in Procs : q = p
  BY DEF OneAtATime
<1>2. s.name \in Names /\ registry[s.name] = None
  BY DEF Sources
<1>3. db # None /\ EntryOf(db) = EntryOf(s)
  BY NoneAssumption DEF EntryOf
<1>4. registry' = [registry EXCEPT ![s.name] = EntryOf(s)]
  BY <1>2, <1>3 DEF Inv, Shapes
<1>5. call[p].state = "pending" /\ call[p].op = op[p] /\ call[p].wants = Wanted(p)
  BY DEF CallOf
<1>6. Registry!Put(p)
  <2>1. registry[<< s.name, EntryOf(s) >>[1]] = None
    BY <1>2
  <2>2. registry' = [registry EXCEPT ![<< s.name, EntryOf(s) >>[1]] = << s.name, EntryOf(s) >>[2]]
    BY <1>4
  <2>3. QED BY <1>5, <2>1, <2>2 DEF Registry!Put
<1>7. CASE op[p] = "add" /\ CallOf(p)' = InState(p, "done")
  <2>1. call' = [call EXCEPT ![p].state = "done"]
    <3>1. [CallOf(p) EXCEPT !.state = "done"] = InState(p, "done")
      BY DEF CallOf, InState
    <3>2. call'[p] = InState(p, "done")
      BY <1>7
    <3>3. QED BY <1>1, <3>1, <3>2
  <2>2. Registry!TakeEffect(p)
    BY <1>5, <1>6, <1>7, <2>1 DEF Registry!TakeEffect, Registry!Effect
  <2>3. QED BY <2>2 DEF Registry!Next, AbstractStep
<1>8. CASE op[p] = "apply" /\ CallOf(p)' = CallOf(p)
  <2>1. UNCHANGED call
    BY <1>1, <1>8
  <2>2. Registry!Progress(p)
    BY <1>5, <1>6, <1>8, <2>1 DEF Registry!Progress
  <2>3. QED BY <2>2 DEF Registry!Next, AbstractStep
<1>9. QED BY <1>7, <1>8

\* The source that a remove names is taken away, heard or unheard.
LEMMA TakesOne ==
  ASSUME OneAtATime, Inv, NEW p \in Procs, src[p].name \in Names,
         op[p] = "remove", database[src[p].name] # None,
         database' = [database EXCEPT ![src[p].name] = None],
         CallState(p) = "pending",
         CallOf(p)' \in {InState(p, "done"), Ended(p, "error")}
  PROVE  AbstractStep
<1> DEFINE registry == [n \in Names |-> IF database[n] = None THEN None ELSE EntryOf(database[n])]
           call == [q \in Procs |-> CallOf(q)]
           n == src[p].name
<1>1. \A q \in Procs : q = p
  BY DEF OneAtATime
<1>2. call[p].state = "pending" /\ call[p].op = "remove" /\ call[p].name = n
  BY DEF CallOf
<1>3. registry[n] # None
  BY EntryIsSomething DEF Inv, Shapes
<1>4. registry' = [registry EXCEPT ![n] = None]
  BY DEF Inv, Shapes
<1>5. Registry!Effect(p)
  BY <1>2, <1>3, <1>4 DEF Registry!Effect, Registry!Take
<1>6. CASE CallOf(p)' = InState(p, "done")
  <2>1. call' = [call EXCEPT ![p].state = "done"]
    <3>1. [CallOf(p) EXCEPT !.state = "done"] = InState(p, "done")
      BY DEF CallOf, InState
    <3>2. call'[p] = InState(p, "done")
      BY <1>6
    <3>3. QED BY <1>1, <3>1, <3>2
  <2>2. Registry!TakeEffect(p)
    BY <1>5, <2>1 DEF Registry!TakeEffect
  <2>3. QED BY <2>2 DEF Registry!Next, AbstractStep
<1>7. CASE CallOf(p)' = Ended(p, "error")
  <2>1. call' = [call EXCEPT ![p].state = "idle", ![p].reply = "error"]
    <3>1. [CallOf(p) EXCEPT !.state = "idle", !.reply = "error"] = Ended(p, "error")
      BY EndsCall
    <3>2. call'[p] = Ended(p, "error")
      BY <1>7
    <3>3. QED BY <1>1, <3>1, <3>2
  <2>2. Registry!TakeEffectUnheard(p)
    BY <1>5, <2>1 DEF Registry!TakeEffectUnheard
  <2>3. QED BY <2>2 DEF Registry!Next, AbstractStep
<1>8. QED BY <1>6, <1>7

\* What a client may ask for, and what becomes of its call.
Askable(kind, n, wants) ==
  \/ /\ kind = "add" /\ n = None
     /\ \E m \in Names, e \in [type: Types, target: Targets] : wants = {<<m, e>>}
  \/ kind = "remove" /\ n \in Names /\ wants = {}
  \/ kind = "apply" /\ n = None /\ \E f \in Files : wants = Batch(f)

Asked(call, kind, n, wants) ==
  \/ call = [state |-> "pending", op |-> kind, name |-> n, wants |-> wants, reply |-> "none"]
  \/ call = [state |-> "idle", op |-> kind, name |-> n, wants |-> wants, reply |-> "error"]

\* A request of an idle client, which waits for its answer or is refused at once.
LEMMA RequestsOne ==
  ASSUME OneAtATime, NEW p \in Procs, UNCHANGED database, CallState(p) = "idle",
         NEW kind, NEW n, NEW wants, Askable(kind, n, wants),
         Asked(CallOf(p)', kind, n, wants)
  PROVE  AbstractStep
<1> DEFINE call == [q \in Procs |-> CallOf(q)]
<1>1. \A q \in Procs : q = p
  BY DEF OneAtATime
<1>2. call[p].state = "idle"
  BY DEF CallOf
<1>3. \/ call' = [call EXCEPT ![p] = [state |-> "pending", op |-> kind, name |-> n,
                                      wants |-> wants, reply |-> "none"]]
      \/ call' = [call EXCEPT ![p] = [state |-> "idle", op |-> kind, name |-> n,
                                      wants |-> wants, reply |-> "error"]]
  <2>1. call'[p] = CallOf(p)'
    OBVIOUS
  <2>2. QED BY <1>1, <2>1 DEF Asked
<1>4. Registry!Request(p, kind, n, wants)
  BY <1>2, <1>3 DEF Registry!Request
<1>5. QED BY <1>4 DEF Registry!Next, AbstractStep, Askable
----------------------------------------------------------------------------
(***************************************************************************)
(* What a step of fedctl does to its call.                                 *)
(***************************************************************************)
\* The subcommand and what it is asked for stay while it runs.
SameTask(p) ==
  /\ op'[p] = op[p] /\ file'[p] = file[p]
  /\ op[p] = "add" => src'[p] = src[p]
  /\ op[p] = "remove" => src'[p].name = src[p].name

LEMMA TaskKept ==
  ASSUME NEW p \in Procs, SameTask(p)
  PROVE  Wanted(p)' = Wanted(p) /\ CallOf(p)'.name = CallOf(p).name
BY DEF SameTask, Wanted, CallOf

LEMMA CallKept ==
  ASSUME NEW p \in Procs, SameTask(p), reply'[p] = reply[p], CallState(p)' = CallState(p)
  PROVE  CallOf(p)' = CallOf(p)
<1>1. Wanted(p)' = Wanted(p) /\ CallOf(p)'.name = CallOf(p).name
  BY TaskKept
<1>2. QED BY <1>1 DEF CallOf, SameTask

LEMMA CallDone ==
  ASSUME NEW p \in Procs, SameTask(p), reply'[p] = reply[p], CallState(p)' = "done"
  PROVE  CallOf(p)' = InState(p, "done")
<1>1. Wanted(p)' = Wanted(p) /\ CallOf(p)'.name = CallOf(p).name
  BY TaskKept
<1>2. QED BY <1>1 DEF CallOf, InState, SameTask

\* The code of a reply, as the registry has it.
CodeOf(code) ==
  IF code \in {"none", "ok", "SOURCE_EXISTS", "SOURCE_NOT_FOUND"} THEN code ELSE "error"

LEMMA CallEnds ==
  ASSUME NEW p \in Procs, SameTask(p), pc'[p] = "idle"
  PROVE  CallOf(p)' = Ended(p, CodeOf(reply'[p]))
<1>1. Wanted(p)' = Wanted(p) /\ CallOf(p)'.name = CallOf(p).name
  BY TaskKept
<1>2. CallState(p)' = "idle"
  BY DEF CallState
<1>3. QED BY <1>1, <1>2 DEF CallOf, Ended, CodeOf, SameTask

\* A process that ends while the catalogue stays as it is replies.
LEMMA Returns ==
  ASSUME OneAtATime, Inv, NEW p \in Procs, SameTask(p), UNCHANGED database,
         pc[p] # "idle", pc'[p] = "idle", reply'[p] # "none", Honest(p, CodeOf(reply'[p]))
  PROVE  AbstractStep
<1>1. CallState(p) # "idle"
  BY DEF CallState
<1>2. CallOf(p)' = Ended(p, CodeOf(reply'[p]))
  BY CallEnds
<1>3. CodeOf(reply'[p]) \in Codes
  BY DEF CodeOf, Codes
<1>4. QED BY <1>1, <1>2, <1>3, RepliesOnce

\* A step of a process that goes on, between effects.
LEMMA Continues ==
  ASSUME OneAtATime, NEW p \in Procs, SameTask(p), UNCHANGED database,
         reply'[p] = reply[p], CallState(p)' = CallState(p)
  PROVE  AbstractStep
BY CallKept, Stutters
----------------------------------------------------------------------------
(***************************************************************************)
(* The actions.                                                            *)
(***************************************************************************)
Onward(p) == AbstractStep /\ Course(p)' /\ Batchwork(p)'

LEMMA StartOnward ==
  ASSUME OneAtATime, RInv, NEW p \in Procs, NEW subcommand, NEW label, NEW s,
         \/ subcommand = "add" /\ label = "exists" /\ s \in Requests
         \/ subcommand = "remove" /\ label = "engine"
              /\ \E n \in Names : s = [name |-> n, type |-> None, target |-> None, secret |-> None]
         \/ subcommand = "apply" /\ label = "next" /\ s = None,
         NEW f, IF subcommand = "apply" THEN f \in Files ELSE f = <<>>,
         Start(p, subcommand, label),
         src' = [src EXCEPT ![p] = s], file' = [file EXCEPT ![p] = f]
  PROVE  Onward(p)
<1> DEFINE n == IF subcommand = "remove" THEN s.name ELSE None
           wants == IF subcommand = "add" THEN {<< s.name, EntryOf(s) >>}
                    ELSE IF subcommand = "apply" THEN Batch(f) ELSE {}
<1>1. /\ pc[p] = "idle" /\ UNCHANGED database
      /\ op'[p] = subcommand /\ step'[p] = 1 /\ line'[p] = 1 /\ report'[p] = NoReport
      /\ src'[p] = s /\ file'[p] = f
      /\ \/ pc'[p] = label /\ reply'[p] = "none"
         \/ pc'[p] = "idle" /\ reply'[p] = "HUB_UNAVAILABLE"
  <2>1. /\ pc[p] = "idle" /\ UNCHANGED database
        /\ op'[p] = subcommand /\ step'[p] = 1 /\ line'[p] = 1 /\ report'[p] = NoReport
    BY DEF Start, RInv, Inv, Shapes
  <2>2. src'[p] = s /\ file'[p] = f
    BY DEF RInv, Inv, Shapes
  <2>3. \/ pc'[p] = label /\ reply'[p] = "none"
        \/ pc'[p] = "idle" /\ reply'[p] = "HUB_UNAVAILABLE"
    BY DEF Start, Return, RInv, Inv, Shapes
  <2>4. QED BY <2>1, <2>2, <2>3
<1>2. Course(p)' /\ Batchwork(p)'
  <2>1. Course(p)'
    BY <1>1 DEF Course
  <2>2. Batchwork(p)'
    <3>1. \A m \in Names : report'[p][m] # "ok"
      BY <1>1 DEF NoReport
    <3>2. subcommand = "apply" => \A i \in DOMAIN f : ~(i < line'[p])
      BY <1>1, FilesAssumption
    <3>3. op'[p] = subcommand /\ pc'[p] \notin AttachLabels
      BY <1>1 DEF AttachLabels
    <3>4. QED BY <1>1, <3>1, <3>2, <3>3 DEF Batchwork
  <2>3. QED BY <2>1, <2>2
<1>3. Wanted(p)' = wants
  <2>1. CASE subcommand = "add"
    <3>1. Wanted(p)' = {<< s.name, EntryOf(s) >>}
      BY <1>1, <2>1, WantedByNewAdd
    <3>2. QED BY <2>1, <3>1
  <2>2. CASE subcommand = "apply"
    <3>1. Wanted(p)' = Batch(f)
      BY <1>1, <2>2, WantedByNewApply
    <3>2. QED BY <2>2, <3>1
  <2>3. CASE subcommand = "remove"
    BY <1>1, <2>3 DEF Wanted
  <2>4. QED BY <2>1, <2>2, <2>3
<1>4. CallState(p) = "idle" /\ CallState(p)' = IF pc'[p] = "idle" THEN "idle" ELSE "pending"
  BY <1>1 DEF CallState
<1>5. Asked(CallOf(p)', subcommand, n, wants)
  <2> HIDE DEF wants
  <2>1. /\ CallOf(p)'.state = CallState(p)' /\ CallOf(p)'.op = op'[p] /\ CallOf(p)'.name = n
        /\ CallOf(p)'.wants = Wanted(p)'
    BY <1>1 DEF CallOf
  <2>2. CallOf(p)'.reply = IF reply'[p] = "none" THEN "none" ELSE "error"
    BY <1>1 DEF CallOf
  <2>3. CallOf(p)' = [state |-> CallOf(p)'.state, op |-> CallOf(p)'.op, name |-> CallOf(p)'.name,
                      wants |-> CallOf(p)'.wants, reply |-> CallOf(p)'.reply]
    BY DEF CallOf
  <2>4. QED BY <1>1, <1>3, <1>4, <2>1, <2>2, <2>3 DEF Asked
<1>6. Askable(subcommand, n, wants)
  <2>1. CASE subcommand = "add"
    <3>1. s.name \in Names /\ EntryOf(s) \in [type: Types, target: Targets]
      BY <2>1, RequestsAssumption DEF Sources, EntryOf
    <3>2. n = None /\ wants = {<< s.name, EntryOf(s) >>}
      BY <2>1
    <3> HIDE DEF n, wants
    <3>3. \E m \in Names, e \in [type: Types, target: Targets] : wants = {<< m, e >>}
      BY <3>1, <3>2, Zenon
    <3>4. QED BY <2>1, <3>2, <3>3, Zenon DEF Askable
  <2>2. CASE subcommand = "remove"
    BY <2>2 DEF Askable
  <2>3. CASE subcommand = "apply"
    BY <2>3 DEF Askable
  <2>4. QED BY <2>1, <2>2, <2>3
<1> HIDE DEF n, wants
<1>7. AbstractStep
  BY <1>1, <1>4, <1>5, <1>6, RequestsOne
<1>8. QED BY <1>2, <1>7 DEF Onward

LEMMA FileNames ==
  ASSUME Inv, NEW p \in Procs, NEW i \in DOMAIN file[p]
  PROVE  i \in Nat \ {0} /\ i <= Len(file[p]) /\ file[p][i] \in Sources /\ file[p][i].name \in Names
<1>1. file[p] \in Seq(Sources)
  BY FilesAssumption DEF Inv, Shapes
<1>2. QED BY <1>1 DEF Sources

\* An idle process is nowhere in a plan or a file.
LEMMA IdleOnward ==
  ASSUME NEW p \in Procs, pc'[p] = "idle"
  PROVE  Course(p)' /\ Batchwork(p)'
BY DEF Course, Batchwork

LEMMA ReturnOnward ==
  ASSUME OneAtATime, RInv, NEW p \in Procs, SameTask(p), UNCHANGED database,
         pc[p] # "idle", NEW code, code # "none", Return(p, code), Honest(p, CodeOf(code))
  PROVE  Onward(p)
<1>1. pc'[p] = "idle" /\ reply'[p] = code
  BY DEF Return, RInv, Inv, Shapes
<1>2. AbstractStep
  BY <1>1, Returns DEF RInv
<1>3. QED BY <1>1, <1>2, IdleOnward DEF Onward

LEMMA AnyError ==
  ASSUME NEW p, NEW code \in {"INVALID", "INTERNAL_ERROR", "FAILED", "killed", "HUB_UNAVAILABLE"}
  PROVE  Honest(p, CodeOf(code))
BY DEF Honest, CodeOf

LEMMA CheckExistsOnward ==
  ASSUME OneAtATime, RInv, NEW p \in Procs, CheckExists(p) PROVE Onward(p)
<1>1. pc[p] = "exists" /\ op[p] = "add" /\ src[p] \in Sources /\ src[p].name \in Names
  BY DEF CheckExists, RInv, Inv, Local, SubjectOK, ControlOK, Sources
<1>2. SameTask(p) /\ UNCHANGED database
  BY DEF CheckExists, SameTask
<1>3. CASE database[src[p].name] = None /\ pc' = [pc EXCEPT ![p] = "validate"] /\ UNCHANGED reply
  <2>1. pc'[p] = "validate" /\ src'[p] = src[p] /\ op'[p] = "add"
    BY <1>1, <1>3 DEF CheckExists, RInv, Inv, Shapes
  <2>2. CallState(p) = "pending" /\ CallState(p)' = "pending"
    BY <1>1, <2>1 DEF CallState
  <2>3. AbstractStep
    BY <1>2, <1>3, <2>2, Continues
  <2>4. Course(p)' /\ Batchwork(p)'
    BY <1>2, <1>3, <2>1 DEF Course, Batchwork
  <2>5. QED BY <2>3, <2>4 DEF Onward
<1>4. CASE database[src[p].name] # None /\ Return(p, "SOURCE_EXISTS")
  <2>1. CallState(p) = "pending"
    BY <1>1 DEF CallState
  <2>2. Honest(p, CodeOf("SOURCE_EXISTS"))
    BY <1>1, <1>4, <2>1 DEF Honest, CodeOf
  <2>3. QED BY <1>1, <1>2, <1>4, <2>2, ReturnOnward
<1>5. CASE Return(p, "INTERNAL_ERROR")
  BY <1>1, <1>2, <1>5, AnyError, ReturnOnward
<1>6. QED BY <1>3, <1>4, <1>5 DEF CheckExists

\* attachSource returns: a success is only said of a database that is there.
LEMMA AttachReturnsOnward ==
  ASSUME OneAtATime, RInv, NEW p \in Procs, pc[p] \in AttachLabels, src[p] \in Sources,
         NEW code \in {"ok", "INVALID", "INTERNAL_ERROR"}, AttachReturns(p, code),
         code = "ok" => pc[p] = "attach" /\ database[src[p].name] # None,
         UNCHANGED <<database, op, file, src, line>>
  PROVE  Onward(p)
<1>1. SameTask(p) /\ src[p].name \in Names
  BY DEF SameTask, Sources
<1>2. CASE op[p] = "add"
  <2>1. Return(p, code)
    BY <1>2 DEF AttachReturns
  <2>2. code = "ok" => CallState(p) = "done"
    BY <1>2 DEF CallState
  <2>3. Honest(p, CodeOf(code))
    BY <2>2, AnyError DEF Honest, CodeOf
  <2>4. QED BY <1>1, <2>1, <2>3, ReturnOnward DEF AttachLabels
<1>3. CASE op[p] = "apply"
  <2>1. /\ pc'[p] = "next" /\ reply'[p] = reply[p]
        /\ report'[p] = [report[p] EXCEPT ![src[p].name] = code]
    BY <1>3 DEF AttachReturns, RInv, Inv, Shapes
  <2>2. CallState(p) = "pending" /\ CallState(p)' = "pending"
    BY <1>3, <2>1 DEF CallState, AttachLabels
  <2>3. AbstractStep
    BY <1>1, <2>1, <2>2, Continues
  <2>4. Course(p)'
    BY <1>3, <2>1 DEF Course
  <2>5. Batchwork(p)'
    <3>0. Batchwork(p) /\ pc[p] # "idle" /\ report[p] \in [Names -> Results]
      BY DEF RInv, AttachLabels, Inv, Shapes
    <3>1. \A n \in Names : report'[p][n] = "ok" => database'[n] # None
      BY <1>3, <2>1, <3>0 DEF Batchwork
    <3>2. ASSUME NEW i \in DOMAIN file[p], i < line[p] PROVE report'[p][file[p][i].name] # "none"
      <4>0. file[p][i].name \in Names /\ line[p] \in Nat /\ i \in Nat
        BY FileNames DEF RInv, Inv, Shapes
      <4>1. CASE i = line[p] - 1
        BY <1>1, <1>3, <2>1, <3>0, <4>0, <4>1 DEF Batchwork
      <4>2. CASE i # line[p] - 1
        BY <1>1, <1>3, <2>1, <3>0, <3>2, <4>0, <4>2 DEF Batchwork
      <4>3. QED BY <4>1, <4>2
    <3>3. QED BY <2>1, <3>1, <3>2 DEF Batchwork, AttachLabels
  <2>6. QED BY <2>3, <2>4, <2>5 DEF Onward
<1>4. QED BY <1>2, <1>3 DEF AttachReturns

LEMMA ValidateOnward ==
  ASSUME OneAtATime, RInv, NEW p \in Procs, Validate(p) PROVE Onward(p)
<1>1. pc[p] = "validate" /\ op[p] \in {"add", "apply"} /\ src[p] \in Sources
  BY DEF Validate, RInv, Inv, Local, SubjectOK, ControlOK
<1>2. CASE AttachReturns(p, "INVALID")
  BY <1>1, <1>2, AttachReturnsOnward DEF Validate, AttachLabels
<1>3. CASE pc' = [pc EXCEPT ![p] = "attach"] /\ step' = [step EXCEPT ![p] = 1]
           /\ UNCHANGED <<report, reply>>
  <2>1. pc'[p] = "attach" /\ step'[p] = 1
    BY <1>3 DEF RInv, Inv, Shapes
  <2>2. UNCHANGED <<database, op, file, src, line>>
    BY DEF Validate
  <2>3. op[p] = "add" => database[src[p].name] = None
    BY <1>1 DEF RInv, Course
  <2>4. CallState(p) = "pending" /\ CallState(p)' = "pending"
    BY <1>1, <2>1, <2>2, <2>3 DEF CallState
  <2>5. AbstractStep
    BY <1>3, <2>2, <2>4, Continues DEF SameTask
  <2>6. Len(AttachPlan(src[p].type)) \in {1, 2}
    BY AttachLength
  <2>7. Course(p)'
    <3>1. Steps(p)' \in {1, 2}
      BY <2>2, <2>6 DEF Steps
    <3>2. QED BY <1>1, <2>1, <2>2, <2>3, <3>1 DEF Course
  <2>8. Batchwork(p)'
    BY <1>1, <1>3, <2>1, <2>2 DEF RInv, Batchwork, AttachLabels
  <2>9. QED BY <2>5, <2>7, <2>8 DEF Onward
<1>4. QED BY <1>2, <1>3 DEF Validate

\* A CREATE DATABASE that the hub executes puts the source there, if it is not.
LEMMA CreatesOne ==
  ASSUME OneAtATime, Inv, NEW p \in Procs, src[p] \in Sources, CreateDatabase(src[p]),
         << src[p].name, EntryOf(src[p]) >> \in Wanted(p), CallState(p) = "pending",
         \/ op[p] = "add" /\ database[src[p].name] = None /\ CallOf(p)' = InState(p, "done")
         \/ op[p] = "apply" /\ CallOf(p)' = CallOf(p)
  PROVE  AbstractStep
<1> DEFINE s == src[p]
           login == IF HasCollection(s.type) THEN collection[s.name] ELSE None
<1>1. s.name \in Names
  BY DEF Sources
<1>2. CASE database[s.name] = None
  <2>1. database' = [database EXCEPT ![s.name] =
                       [type |-> s.type, target |-> s.target, login |-> login]]
    BY <1>2 DEF CreateDatabase
  <2>2. login \in Logins \cup {None}
    BY <1>1 DEF Inv, Shapes
  <2>3. [type |-> s.type, target |-> s.target, login |-> login] \in Databases
    BY <2>2 DEF Sources, Databases
  <2> HIDE DEF login
  <2>4. QED BY <1>2, <2>1, <2>3, PutsOne
<1>3. CASE database[s.name] # None
  BY <1>3, Stutters DEF CreateDatabase
<1>4. QED BY <1>2, <1>3

LEMMA CreateLeavesOne ==
  ASSUME Inv, NEW s \in Sources, CreateDatabase(s)
  PROVE  \A n \in Names : database[n] # None \/ n = s.name => database'[n] # None
<1> DEFINE login == IF HasCollection(s.type) THEN collection[s.name] ELSE None
<1>1. s.name \in Names
  BY DEF Sources
<1>2. login \in Logins \cup {None}
  BY <1>1 DEF Inv, Shapes
<1>3. [type |-> s.type, target |-> s.target, login |-> login] \in Databases
  BY <1>2 DEF Sources, Databases
<1>4. [type |-> s.type, target |-> s.target, login |-> login] # None
  BY <1>3, NoneAssumption
<1>5. QED BY <1>1, <1>4 DEF CreateDatabase, Inv, Shapes

\* The statement that an attach is at.
StatementAt(p) == AttachPlan(src[p].type)[step[p]].do

LEMMA AttachStatementOnward ==
  ASSUME OneAtATime, RInv, NEW p \in Procs,
         pc[p] = "attach", step[p] \in 1 .. Steps(p), src[p] \in Sources,
         op[p] \in {"add", "apply"},
         NEW done \in BOOLEAN,
         done => Execute(StatementAt(p), src[p]),
         ~done => UNCHANGED database,
         \/ done /\ pc'[p] = "attach" /\ step'[p] = step[p] + 1
         \/ pc'[p] = "rollback",
         UNCHANGED <<op, file, src, line, report, reply>>
  PROVE  Onward(p)
<1> DEFINE do == StatementAt(p)
           creates == done /\ step[p] = Steps(p)
<1>1. SameTask(p) /\ src[p].name \in Names /\ Course(p) /\ Batchwork(p) /\ Inv
  BY DEF SameTask, RInv, Sources
<1>2. Steps(p) \in {1, 2} /\ Steps(p)' = Steps(p)
  BY AttachLength DEF Steps
<1>3. do = IF step[p] = Steps(p) THEN "create database" ELSE "create collection"
  <2>1. step[p] \in 1 .. Len(AttachPlan(src[p].type))
    BY DEF Steps
  <2>2. \/ HasCollection(src[p].type) /\ step[p] = 1 /\ do = "create collection"
        \/ step[p] = Steps(p) /\ do = "create database"
    BY <2>1, AttachDo DEF Steps, StatementAt
  <2>3. HasCollection(src[p].type) => Steps(p) = 2
    BY AttachLength DEF Steps
  <2>4. HasCollection(src[p].type) /\ step[p] = 1 => step[p] # Steps(p)
    BY <2>3
  <2> HIDE DEF do
  <2>5. QED BY <2>2, <2>4
<1>4. op[p] = "add" => database[src[p].name] = None
  BY <1>1, <1>2 DEF Course
<1>5. CallState(p) = "pending"
  BY <1>4 DEF CallState
<1>6. CASE ~creates
  <2>1. UNCHANGED database
    BY <1>3, <1>6 DEF Execute, CreateCollection
  <2>2. CallState(p)' = "pending"
    BY <1>4, <2>1 DEF CallState
  <2>3. AbstractStep
    BY <1>1, <1>5, <2>1, <2>2, Continues
  <2>4. Course(p)'
    BY <1>2, <1>4, <1>6, <2>1 DEF Course
  <2>5. Batchwork(p)'
    BY <1>1, <2>1 DEF Batchwork, AttachLabels
  <2>6. QED BY <2>3, <2>4, <2>5 DEF Onward
<1>7. CASE creates
  <2>1. CreateDatabase(src[p])
    <3>1. do = "create database"
      BY <1>3, <1>7
    <3>2. QED BY <1>7, <3>1 DEF Execute
  <2>2. \A n \in Names : database[n] # None \/ n = src[p].name => database'[n] # None
    BY <1>1, <2>1, CreateLeavesOne
  <2>3. op[p] = "add" => CallOf(p)' = InState(p, "done")
    <3>1. op[p] = "add" => CallState(p)' = "done"
      BY <1>1, <2>2 DEF CallState
    <3>2. QED BY <1>1, <3>1, CallDone
  <2>4. op[p] = "apply" => CallOf(p)' = CallOf(p)
    <3>1. op[p] = "apply" => CallState(p)' = "pending"
      BY DEF CallState
    <3>2. QED BY <1>1, <1>5, <3>1, CallKept
  <2>5. << src[p].name, EntryOf(src[p]) >> \in Wanted(p)
    <3>1. CASE op[p] = "add"
      BY <3>1, WantedByAdd
    <3>2. CASE op[p] = "apply"
      <4>1. line[p] - 1 \in DOMAIN file[p] /\ src[p] = file[p][line[p] - 1]
        BY <1>1, <3>2 DEF Batchwork, AttachLabels
      <4>2. << src[p].name, EntryOf(src[p]) >> \in Batch(file[p])
        BY <4>1 DEF Batch
      <4>3. QED BY <3>2, <4>2, WantedByApply
    <3>3. QED BY <3>1, <3>2
  <2>6. AbstractStep
    BY <1>1, <1>4, <1>5, <2>1, <2>3, <2>4, <2>5, CreatesOne
  <2>7. Course(p)'
    <3>1. database'[src'[p].name] # None
      BY <1>1, <2>2
    <3>2. \/ pc'[p] = "attach" /\ step'[p] > Steps(p)'
          \/ pc'[p] = "rollback"
      BY <1>2, <1>7
    <3>3. QED BY <1>2, <3>1, <3>2 DEF Course
  <2>8. Batchwork(p)'
    BY <1>1, <2>2 DEF Batchwork, AttachLabels
  <2>9. QED BY <2>6, <2>7, <2>8 DEF Onward
<1>8. QED BY <1>6, <1>7

LEMMA AttachStepOnward ==
  ASSUME OneAtATime, RInv, NEW p \in Procs, AttachStep(p) PROVE Onward(p)
<1> DEFINE do == StatementAt(p)
<1>1. /\ pc[p] = "attach" /\ src[p] \in Sources
      /\ op[p] \in {"add", "apply"} /\ step[p] \in 1 .. Steps(p) + 1
  BY DEF AttachStep, RInv, Inv, Local, SubjectOK, ControlOK, Steps
<1>2. pc \in [Procs -> Labels] /\ step \in [Procs -> 0..3] /\ Steps(p) \in {1, 2}
  BY AttachLength DEF RInv, Inv, Shapes, Steps
<1>3. UNCHANGED <<op, file, src, line>>
  BY DEF AttachStep
<1>4. CASE /\ step[p] <= Steps(p) /\ Acknowledged(do, src[p])
           /\ step' = [step EXCEPT ![p] = @ + 1]
           /\ UNCHANGED <<pc, report, reply>>
  <2>1. /\ Execute(do, src[p])
        /\ pc'[p] = "attach" /\ step'[p] = step[p] + 1 /\ step[p] \in 1 .. Steps(p)
    BY <1>1, <1>2, <1>4 DEF Acknowledged
  <2>2. QED BY <1>1, <1>3, <1>4, <2>1, AttachStatementOnward
<1>5. CASE /\ step[p] <= Steps(p) /\ Failed(p, "attach", do, src[p])
           /\ pc' = [pc EXCEPT ![p] = "rollback"]
           /\ UNCHANGED <<report, reply>>
  <2>1. UNCHANGED database \/ Execute(do, src[p])
    BY <1>5 DEF Failed, Refused, Unanswered
  <2>2. pc'[p] = "rollback" /\ step[p] \in 1 .. Steps(p)
    BY <1>1, <1>2, <1>5
  <2>3. QED BY <1>1, <1>3, <1>5, <2>1, <2>2, AttachStatementOnward
<1>6. CASE step[p] > Steps(p) /\ AttachReturns(p, "ok") /\ UNCHANGED database
  <2>1. database[src[p].name] # None
    BY <1>1, <1>6 DEF RInv, Course
  <2>2. QED BY <1>1, <1>3, <1>6, <2>1, AttachReturnsOnward DEF AttachLabels
<1>7. QED BY <1>4, <1>5, <1>6 DEF AttachStep, Steps, StatementAt

LEMMA RollbackStepOnward ==
  ASSUME OneAtATime, RInv, NEW p \in Procs, RollbackStep(p) PROVE Onward(p)
<1> DEFINE undo == AttachPlan(src[p].type)[step[p]].undo
<1>1. /\ pc[p] = "rollback" /\ src[p] \in Sources
      /\ op[p] \in {"add", "apply"} /\ step[p] \in 0 .. Steps(p) - 1
  BY DEF RollbackStep, RInv, Inv, Local, SubjectOK, ControlOK, Steps
<1>2. UNCHANGED <<op, file, src, line>>
  BY DEF RollbackStep
<1>3. CASE /\ ~Undone(step[p])
           /\ Acknowledged(undo, src[p]) \/ Failed(p, "rollback", undo, src[p])
           /\ UNCHANGED <<pc, report, reply>>
  <2>1. undo = "drop collection"
    BY <1>1, <1>3, AttachUndo DEF Undone, Steps
  <2>2. Execute(undo, src[p]) \/ UNCHANGED database
    BY <1>3 DEF Acknowledged, Failed, Refused, Unanswered
  <2>3. UNCHANGED database
    BY <2>1, <2>2 DEF Execute, DropCollection
  <2>4. CallState(p)' = CallState(p)
    BY <1>2, <1>3, <2>3 DEF CallState
  <2>5. AbstractStep
    BY <1>2, <1>3, <2>3, <2>4, Continues DEF SameTask
  <2>6. Course(p)'
    BY <1>1, <1>3 DEF Course
  <2>7. Batchwork(p)'
    BY <1>2, <1>3, <2>3 DEF RInv, Batchwork
  <2>8. QED BY <2>5, <2>6, <2>7 DEF Onward
<1>4. CASE AttachReturns(p, "INTERNAL_ERROR") /\ UNCHANGED database
  BY <1>1, <1>2, <1>4, AttachReturnsOnward DEF AttachLabels
<1>5. QED BY <1>3, <1>4 DEF RollbackStep

LEMMA LookUpEngineOnward ==
  ASSUME OneAtATime, RInv, NEW p \in Procs, LookUpEngine(p) PROVE Onward(p)
<1> DEFINE db == database[src[p].name]
<1>1. /\ pc[p] = "engine" /\ op[p] = "remove" /\ step[p] = 1
      /\ src[p] \in Subjects /\ src[p].name \in Names
  BY DEF LookUpEngine, RInv, Inv, Local, SubjectOK, ControlOK, Subjects
<1>2. UNCHANGED <<database, op, file, step>>
  BY DEF LookUpEngine
<1>3. CASE db # None /\ src' = [src EXCEPT ![p].type = db.type]
           /\ pc' = [pc EXCEPT ![p] = AfterEngine(db.type)] /\ UNCHANGED reply
  <2>1. src'[p].name = src[p].name /\ pc'[p] \in {"host", "detach"}
    BY <1>1, <1>3 DEF AfterEngine, RInv, Inv, Shapes, Subjects
  <2>2. CallState(p) = "pending" /\ CallState(p)' = "pending"
    BY <1>1, <1>2, <1>3, <2>1 DEF CallState
  <2>3. SameTask(p)
    BY <1>1, <1>2, <2>1 DEF SameTask
  <2>4. AbstractStep
    BY <1>2, <1>3, <2>2, <2>3, Continues
  <2>5. Course(p)' /\ Batchwork(p)'
    BY <1>1, <1>2, <1>3, <2>1 DEF Course, Batchwork
  <2>6. QED BY <2>4, <2>5 DEF Onward
<1>4. CASE db = None /\ Return(p, "SOURCE_NOT_FOUND") /\ UNCHANGED src
  <2>1. CallState(p) = "pending"
    BY <1>1 DEF CallState
  <2>2. Honest(p, CodeOf("SOURCE_NOT_FOUND"))
    BY <1>1, <1>4, <2>1 DEF Honest, CodeOf
  <2>3. SameTask(p)
    BY <1>2, <1>4 DEF SameTask
  <2>4. QED BY <1>1, <1>2, <1>4, <2>2, <2>3, ReturnOnward
<1>5. CASE Return(p, "INTERNAL_ERROR") /\ UNCHANGED src
  <2>1. SameTask(p)
    BY <1>2, <1>5 DEF SameTask
  <2>2. QED BY <1>1, <1>2, <1>5, <2>1, AnyError, ReturnOnward
<1>6. QED BY <1>3, <1>4, <1>5 DEF LookUpEngine

LEMMA LookUpHostOnward ==
  ASSUME OneAtATime, RInv, NEW p \in Procs, LookUpHost(p) PROVE Onward(p)
<1>1. /\ pc[p] = "host" /\ op[p] = "remove" /\ step[p] = 1 /\ src[p] \in Subjects
      /\ database[src[p].name] # None
  BY DEF LookUpHost, RInv, Inv, Local, SubjectOK, ControlOK, Course
<1>2. UNCHANGED <<database, op, file, step, reply>>
  BY DEF LookUpHost
<1>3. src'[p].name = src[p].name
  BY <1>1 DEF LookUpHost, RInv, Inv, Shapes, Subjects
<1>4. pc'[p] = "detach"
  BY DEF LookUpHost, RInv, Inv, Shapes
<1>5. CallState(p) = "pending" /\ CallState(p)' = "pending"
  BY <1>1, <1>2, <1>3, <1>4 DEF CallState
<1>6. AbstractStep
  BY <1>1, <1>2, <1>3, <1>5, Continues DEF SameTask
<1>7. Course(p)' /\ Batchwork(p)'
  BY <1>1, <1>2, <1>3, <1>4 DEF Course, Batchwork
<1>8. QED BY <1>6, <1>7 DEF Onward

LEMMA DetachStepOnward ==
  ASSUME OneAtATime, RInv, NEW p \in Procs, DetachStep(p) PROVE Onward(p)
<1> DEFINE drop == DetachPlan(src[p].type)[step[p]]
           n == src[p].name
<1>1. /\ pc[p] = "detach" /\ op[p] = "remove" /\ src[p] \in Subjects /\ n \in Names
      /\ step[p] \in 1 .. 3
  BY DEF DetachStep, RInv, Inv, Shapes, Local, SubjectOK, ControlOK, Subjects
<1>2. UNCHANGED <<op, file, src>> /\ SameTask(p)
  BY DEF DetachStep, SameTask
<1>3. step[p] = 1 <=> database[n] # None
  BY <1>1 DEF RInv, Course
<1>4. CallState(p) = IF step[p] = 1 THEN "pending" ELSE "done"
  BY <1>1, <1>3 DEF CallState
<1>5. ASSUME step[p] <= Len(DetachPlan(src[p].type)), Execute(drop, src[p])
      PROVE  IF step[p] = 1 THEN database' = [database EXCEPT ![n] = None] ELSE UNCHANGED database
  <2>1. \/ step[p] = 1 /\ drop = "drop database"
        \/ step[p] = 2 /\ drop = "drop collection"
    BY <1>1, <1>5, DetachDo
  <2> HIDE DEF drop
  <2>2. CASE step[p] = 1 /\ drop = "drop database"
    BY <1>5, <2>2 DEF Execute, DropDatabase
  <2>3. CASE step[p] = 2 /\ drop = "drop collection"
    <3>1. UNCHANGED database
      BY <1>5, <2>3 DEF Execute, DropCollection
    <3>2. step[p] = 2
      BY <2>3
    <3>3. step[p] # 1
      BY <3>2
    <3>4. QED BY <3>1, <3>3
  <2>4. QED BY <2>1, <2>2, <2>3
<1>6. CASE /\ step[p] <= Len(DetachPlan(src[p].type)) /\ Acknowledged(drop, src[p])
           /\ step' = [step EXCEPT ![p] = @ + 1] /\ UNCHANGED <<pc, reply>>
  <2>1. IF step[p] = 1 THEN database' = [database EXCEPT ![n] = None] ELSE UNCHANGED database
    BY <1>5, <1>6 DEF Acknowledged
  <2>2. database'[n] = None
    BY <1>1, <1>3, <2>1 DEF RInv, Inv, Shapes
  <2>3. step'[p] = step[p] + 1
    BY <1>6 DEF RInv, Inv, Shapes
  <2>4. CallState(p)' = "done"
    BY <1>1, <1>2, <1>6, <2>2 DEF CallState
  <2>5. Course(p)' /\ Batchwork(p)'
    BY <1>1, <1>2, <1>6, <2>2, <2>3 DEF Course, Batchwork
  <2>6. CASE step[p] = 1
    <3>1. CallOf(p)' = InState(p, "done")
      BY <1>2, <1>6, <2>4, CallDone
    <3>2. AbstractStep
      BY <1>1, <1>3, <1>4, <2>1, <2>6, <3>1, TakesOne DEF RInv
    <3>3. QED BY <2>5, <3>2 DEF Onward
  <2>7. CASE step[p] # 1
    <3>1. AbstractStep
      BY <1>2, <1>4, <1>6, <2>1, <2>4, <2>7, Continues
    <3>2. QED BY <2>5, <3>1 DEF Onward
  <2>8. QED BY <2>6, <2>7
<1>7. CASE /\ step[p] <= Len(DetachPlan(src[p].type)) /\ Failed(p, "detach", drop, src[p])
           /\ Return(p, "INTERNAL_ERROR")
  <2>1. CASE UNCHANGED database
    BY <1>1, <1>2, <1>7, <2>1, AnyError, ReturnOnward
  <2>2. CASE step[p] = 1 /\ database' = [database EXCEPT ![n] = None]
    <3>1. pc'[p] = "idle" /\ reply'[p] = "INTERNAL_ERROR"
      BY <1>7 DEF Return, RInv, Inv, Shapes
    <3>2. CallOf(p)' = Ended(p, "error")
      BY <1>2, <3>1, CallEnds DEF CodeOf
    <3>3. AbstractStep
      BY <1>1, <1>3, <1>4, <2>2, <3>2, TakesOne DEF RInv
    <3>4. QED BY <3>1, <3>3, IdleOnward DEF Onward
  <2>3. Execute(drop, src[p]) \/ UNCHANGED database
    BY <1>7 DEF Failed, Refused, Unanswered
  <2>4. QED BY <1>5, <1>7, <2>1, <2>2, <2>3
<1>8. CASE step[p] > Len(DetachPlan(src[p].type)) /\ Return(p, "ok") /\ UNCHANGED database
  <2>1. Len(DetachPlan(src[p].type)) \in {1, 2}
    BY DetachLength
  <2>2. CallState(p) = "done"
    <3>1. step[p] > Len(DetachPlan(src[p].type)) /\ step[p] \in 1 .. 3
      BY <1>1, <1>8
    <3>2. step[p] # 1
      BY <2>1, <3>1
    <3>3. QED BY <1>4, <3>2
  <2>3. Honest(p, CodeOf("ok"))
    BY <2>2 DEF Honest, CodeOf
  <2>4. QED BY <1>1, <1>2, <1>8, <2>3, ReturnOnward
<1>9. QED BY <1>6, <1>7, <1>8 DEF DetachStep

\* The loop of apply: it only ends with every entry of the file reported, and says
\* "ok" when no report was an error.
LEMMA AppliedAll ==
  ASSUME RInv, NEW p \in Procs, pc[p] = "next", op[p] = "apply", line[p] > Len(file[p]), AllOk(p)
  PROVE  \A w \in Wanted(p) : w[1] \in Names /\ database[w[1]] # None
<1> SUFFICES ASSUME NEW w \in Wanted(p) PROVE w[1] \in Names /\ database[w[1]] # None
  OBVIOUS
<1>1. PICK i \in DOMAIN file[p] : w = << file[p][i].name, EntryOf(file[p][i]) >>
  BY WantedByApply DEF Batch
<1> DEFINE n == file[p][i].name
<1>2. n \in Names /\ i < line[p]
  <2>1. line[p] \in Nat /\ Len(file[p]) \in Nat
    BY FilesAssumption DEF RInv, Inv, Shapes
  <2>2. QED BY <2>1, FileNames DEF RInv
<1>3. report[p][n] # "none" /\ (report[p][n] = "ok" => database[n] # None)
  BY <1>2 DEF RInv, Batchwork, AttachLabels
<1>4. report[p][n] \in {"ok", "none"}
  BY <1>2 DEF AllOk
<1>5. QED BY <1>1, <1>2, <1>3, <1>4

LEMMA NextSourceOnward ==
  ASSUME OneAtATime, RInv, NEW p \in Procs, NextSource(p) PROVE Onward(p)
<1>1. pc[p] = "next" /\ op[p] = "apply" /\ Batchwork(p)
  BY DEF NextSource, RInv, Inv, Local, ControlOK
<1>2. UNCHANGED <<database, op, file, step>> /\ SameTask(p)
  BY <1>1 DEF NextSource, SameTask
<1>3. CASE line[p] > Len(file[p]) /\ Return(p, IF AllOk(p) THEN "ok" ELSE "FAILED")
  <2>1. CASE AllOk(p)
    <3>1. Honest(p, CodeOf("ok"))
      BY <1>1, <1>3, <2>1, AppliedAll DEF Honest, CodeOf
    <3>2. QED BY <1>1, <1>2, <1>3, <2>1, <3>1, ReturnOnward
  <2>2. CASE ~AllOk(p)
    BY <1>1, <1>2, <1>3, <2>2, AnyError, ReturnOnward
  <2>3. QED BY <2>1, <2>2
<1>4. CASE /\ line[p] <= Len(file[p])
           /\ line' = [line EXCEPT ![p] = @ + 1] /\ src' = [src EXCEPT ![p] = file[p][line[p]]]
           /\ \/ pc' = [pc EXCEPT ![p] = "validate"] /\ UNCHANGED report
              \/ report' = [report EXCEPT ![p][file[p][line[p]].name] = "INVALID"] /\ UNCHANGED pc
           /\ UNCHANGED reply
  <2> DEFINE n == file[p][line[p]].name
  <2>1. line[p] \in DOMAIN file[p] /\ line[p] \in Nat /\ line'[p] = line[p] + 1
    BY <1>4, FilesAssumption DEF RInv, Inv, Shapes
  <2>2. n \in Names
    BY <2>1, FileNames DEF RInv
  <2>3. src'[p] = file[p][line[p]]
    BY <1>4 DEF RInv, Inv, Shapes
  <2>4. \/ pc'[p] = "validate" /\ report'[p] = report[p]
        \/ pc'[p] = "next" /\ report'[p] = [report[p] EXCEPT ![n] = "INVALID"]
    BY <1>1, <1>4 DEF RInv, Inv, Shapes
  <2>5. CallState(p) = "pending" /\ CallState(p)' = "pending"
    BY <1>1, <1>2, <2>4 DEF CallState
  <2>6. AbstractStep
    BY <1>2, <1>4, <2>5, Continues
  <2>7. Course(p)'
    BY <1>1, <1>2, <2>4 DEF Course
  <2>8. Batchwork(p)'
    <3>0. report[p] \in [Names -> Results]
      BY DEF RInv, Inv, Shapes
    <3>1. \A m \in Names : report'[p][m] = "ok" => database'[m] # None
      BY <1>1, <1>2, <2>4, <3>0 DEF Batchwork
    <3>2. ASSUME NEW i \in DOMAIN file[p], i < line'[p],
                 ~(pc'[p] \in AttachLabels /\ i = line'[p] - 1)
          PROVE  report'[p][file[p][i].name] # "none"
      <4>0. file[p][i].name \in Names /\ i \in Nat
        BY FileNames DEF RInv
      <4>1. CASE i = line[p]
        <5>1. pc'[p] # "validate"
          BY <2>1, <3>2, <4>1 DEF AttachLabels
        <5>2. report'[p] = [report[p] EXCEPT ![n] = "INVALID"]
          BY <2>4, <5>1
        <5>3. QED BY <2>2, <3>0, <4>1, <5>2
      <4>2. CASE i < line[p]
        <5>1. report[p][file[p][i].name] # "none"
          BY <1>1, <4>2 DEF Batchwork, AttachLabels
        <5>2. QED BY <2>4, <3>0, <4>0, <5>1
      <4>3. QED BY <2>1, <3>2, <4>0, <4>1, <4>2
    <3>3. pc'[p] \in AttachLabels =>
            line'[p] - 1 \in DOMAIN file'[p] /\ src'[p] = file'[p][line'[p] - 1]
      BY <1>2, <2>1, <2>3
    <3>4. QED BY <1>2, <3>1, <3>2, <3>3 DEF Batchwork
  <2>9. QED BY <2>6, <2>7, <2>8 DEF Onward
<1>5. QED BY <1>3, <1>4 DEF NextSource

LEMMA KillOnward ==
  ASSUME OneAtATime, RInv, NEW p \in Procs, Kill(p) PROVE Onward(p)
BY AnyError, ReturnOnward DEF Kill, SameTask
----------------------------------------------------------------------------
LEMMA NextOnward ==
  ASSUME OneAtATime, RInv, Next
  PROVE  \E p \in Procs : Onward(p)
<1>1. PICK p \in Procs :
        \/ \E s \in Requests : StartAdd(p, s)
        \/ \E n \in Names : StartRemove(p, n)
        \/ \E f \in Files : StartApply(p, f)
        \/ Proceed(p)
        \/ Kill(p)
  BY DEF Next
<1>2. ASSUME NEW s \in Requests, StartAdd(p, s) PROVE Onward(p)
  BY <1>2, StartOnward DEF StartAdd
<1>3. ASSUME NEW n \in Names, StartRemove(p, n) PROVE Onward(p)
  BY <1>3, StartOnward DEF StartRemove
<1>4. ASSUME NEW f \in Files, StartApply(p, f) PROVE Onward(p)
  BY <1>4, StartOnward DEF StartApply
<1>5. CASE Proceed(p)
  BY <1>5, CheckExistsOnward, ValidateOnward, AttachStepOnward, RollbackStepOnward,
     LookUpEngineOnward, LookUpHostOnward, DetachStepOnward, NextSourceOnward DEF Proceed
<1>6. CASE Kill(p)
  BY <1>6, KillOnward
<1>7. QED BY <1>1, <1>2, <1>3, <1>4, <1>5, <1>6, Zenon

LEMMA InitMaps == Init => RInv /\ Registry!Init
<1> SUFFICES ASSUME Init PROVE RInv /\ Registry!Init
  OBVIOUS
<1>1. RInv
  BY InitInv DEF Init, RInv, Course, Batchwork
<1>2. \A p \in Procs : CallOf(p) = Registry!NoCall
  <2> SUFFICES ASSUME NEW p \in Procs PROVE CallOf(p) = Registry!NoCall
    OBVIOUS
  <2>1. pc[p] = "idle" /\ op[p] = "none" /\ reply[p] = "none"
    BY DEF Init
  <2>2. CallState(p) = "idle" /\ Wanted(p) = {}
    BY <2>1 DEF CallState, Wanted
  <2>3. QED BY <2>1, <2>2 DEF CallOf, Registry!NoCall
<1>3. Registry!Init
  BY <1>2 DEF Init, Registry!Init
<1>4. QED BY <1>1, <1>3

LEMMA NextMaps ==
  ASSUME OneAtATime
  PROVE  RInv /\ [Next]_vars => RInv' /\ AbstractStep
<1> SUFFICES ASSUME RInv, [Next]_vars PROVE RInv' /\ AbstractStep
  OBVIOUS
<1>1. Inv'
  BY NextInv DEF RInv
<1>2. CASE Next
  <2>1. PICK p \in Procs : Onward(p)
    BY <1>2, NextOnward
  <2>2. \A q \in Procs : q = p
    BY DEF OneAtATime
  <2>3. QED BY <1>1, <2>1, <2>2 DEF Onward, RInv
<1>3. CASE UNCHANGED vars
  <2>1. RInv'
    BY <1>1, <1>3 DEF vars, RInv, Course, Batchwork, Steps
  <2>2. AbstractStep
    BY <1>3 DEF vars, AbstractStep, Registry!vars, CallOf, CallState, Wanted
  <2>3. QED BY <2>1, <2>2
<1>4. QED BY <1>2, <1>3

\* Invocations run one at a time are calls of the registry: an add or a remove takes
\* effect at one instant or not at all, an apply attaches its sources one by one, and
\* a success is only reported of what is there (or is gone), whatever statements are
\* refused, executed unheard or never reached, for all sources, files and faults.
THEOREM InvocationsAreCalls ==
  ASSUME OneAtATime
  PROVE  Spec => ImplementsRegistry
<1>1. RInv /\ [Next]_vars => RInv' /\ [Registry!Next]_(Registry!vars)
  BY NextMaps DEF AbstractStep
<1>2. QED BY InitMaps, <1>1, PTL DEF Spec, ImplementsRegistry, Registry!Spec
----------------------------------------------------------------------------
(***************************************************************************)
(* What they leave on the hub, and what they report of it.                 *)
(***************************************************************************)
\* The sources that an add or an apply can be asked for.
Declared == Requests \cup UNION {{f[i] : i \in DOMAIN f} : f \in Files}

Login(s) == [target |-> s.target, secret |-> s.secret]

\* The database that an add of s is asked to make.
Wish(s) == [type |-> s.type, target |-> s.target,
            login |-> IF HasCollection(s.type) THEN Login(s) ELSE None]

Even(n) == collection[n] # None <=> Credentialed(n)

\* Every database was declared under its name and with its type.
Known ==
  \A n \in Names : database[n] # None =>
    \E s \in Declared : s.name = n /\ s.type = database[n].type

Declares(p) == pc[p] \in {"exists", "validate", "attach", "rollback"} => src[p] \in Declared

\* What a remove has learnt of the database it is about to drop.
Told(p) ==
  LET db == database[src[p].name] IN
    /\ pc[p] \in {"engine", "host"} => src[p].target = None
    /\ pc[p] \in {"host", "detach"} /\ db # None => src[p].type = db.type
    /\ pc[p] = "detach" /\ db # None /\ HasCollection(db.type) =>
         \/ src[p].target = db.target
         \/ src[p].target = None /\ \E f \in faults : f.phase = "query"

\* Between the two statements of a plan: the collection is there alone.
Midway(p) ==
  \/ pc[p] = "attach" /\ step[p] = 2 /\ HasCollection(src[p].type)
  \/ pc[p] = "rollback" /\ step[p] = 1
  \/ pc[p] = "detach" /\ step[p] = 2 /\ HasCollection(src[p].type)

\* Collections and databases match, but for the source that is midway.
Balance(p) ==
  LET n == src[p].name  db == database[n] IN
    /\ \A m \in Names : Even(m) \/ (Midway(p) /\ m = n)
    /\ Midway(p) => collection[n] # None
    /\ Midway(p) /\ pc[p] = "attach" =>
         /\ op[p] = "add" => collection[n] = Login(src[p])
         /\ db # None => HasCollection(db.type)
    /\ op[p] = "add" /\ pc[p] = "attach" /\ step[p] > Steps(p) => db = Wish(src[p])
    /\ op[p] = "add" /\ pc[p] = "idle" /\ reply[p] = "ok" => db = Wish(src[p])
    /\ pc[p] = "rollback" => op[p] = "add" /\ db = None

Clean == NoRetyping /\ OnlyQueriesAndAddsFailed

Serial(p) == Known /\ Declares(p) /\ Told(p) /\ (Clean => Balance(p))

SInv == RInv /\ \A p \in Procs : Serial(p)
----------------------------------------------------------------------------
LEMMA CleanBefore ==
  ASSUME faults \subseteq faults', Clean' PROVE Clean
BY DEF Clean, NoRetyping, OnlyQueriesAndAddsFailed

\* What can still go wrong while nothing but queries and adds have failed.
LEMMA CleanFault ==
  ASSUME NEW p \in Procs, NEW phase, NEW kind, Fault(op[p], phase, kind), Clean'
  PROVE  phase = "query" \/ (op[p] = "add" /\ phase = "attach" /\ kind = "refused")
<1> DEFINE f == [op |-> op[p], phase |-> phase, kind |-> kind]
<1>1. f \in faults'
  BY DEF Fault
<1>2. f.phase = "query" \/ (f.op = "add" /\ f.phase = "attach" /\ f.kind = "refused")
  BY <1>1 DEF Clean, OnlyQueriesAndAddsFailed
<1>3. QED BY <1>2

\* A step that leaves the catalogue alone, from a place where the catalogue is even
\* to another.
LEMMA EvenOnward ==
  ASSUME SInv, NEW p \in Procs, faults \subseteq faults', UNCHANGED <<database, collection>>,
         ~Midway(p), ~Midway(p)',
         ~(op'[p] = "add" /\ pc'[p] = "attach" /\ step'[p] > Steps(p)'),
         op'[p] = "add" /\ pc'[p] = "idle" => reply'[p] # "ok",
         pc'[p] # "rollback"
  PROVE  Known' /\ (Clean' => Balance(p)')
<1>1. Known'
  BY DEF SInv, Serial, Known
<1>2. ASSUME Clean' PROVE Balance(p)'
  <2>1. Balance(p)
    BY <1>2, CleanBefore DEF SInv, Serial
  <2>2. \A m \in Names : Even(m)'
    BY <2>1 DEF Balance, Even, Credentialed
  <2>3. QED BY <2>2 DEF Balance
<1>3. QED BY <1>1, <1>2

LEMMA StartSerial ==
  ASSUME SInv, NEW p \in Procs, faults \subseteq faults', NEW subcommand, NEW label, NEW s,
         \/ subcommand = "add" /\ label = "exists" /\ s \in Requests
         \/ subcommand = "remove" /\ label = "engine" /\ s \in Subjects /\ s.target = None
         \/ subcommand = "apply" /\ label = "next" /\ s = None,
         Start(p, subcommand, label), src' = [src EXCEPT ![p] = s]
  PROVE  Serial(p)'
<1>1. pc[p] = "idle" /\ UNCHANGED <<database, collection>> /\ op'[p] = subcommand
  BY DEF Start, SInv, RInv, Inv, Shapes
<1>2. src'[p] = s
  BY DEF SInv, RInv, Inv, Shapes
<1>3. \/ pc'[p] = label
      \/ pc'[p] = "idle" /\ reply'[p] = "HUB_UNAVAILABLE"
  BY DEF Start, Return, SInv, RInv, Inv, Shapes
<1>4. ~Midway(p) /\ ~Midway(p)'
  BY <1>1, <1>3 DEF Midway
<1>5. Known' /\ (Clean' => Balance(p)')
  BY <1>1, <1>3, <1>4, EvenOnward
<1>6. Declares(p)' /\ Told(p)'
  BY <1>2, <1>3 DEF Declares, Told, Declared
<1>7. QED BY <1>5, <1>6 DEF Serial

LEMMA CheckExistsSerial ==
  ASSUME SInv, NEW p \in Procs, faults \subseteq faults', CheckExists(p) PROVE Serial(p)'
<1>1. pc[p] = "exists" /\ UNCHANGED <<database, collection, src, op>>
  BY DEF CheckExists
<1>2. \/ pc'[p] = "validate"
      \/ pc'[p] = "idle" /\ reply'[p] \in {"SOURCE_EXISTS", "INTERNAL_ERROR"}
  BY DEF CheckExists, Return, SInv, RInv, Inv, Shapes
<1>3. ~Midway(p) /\ ~Midway(p)'
  BY <1>1, <1>2 DEF Midway
<1>4. Known' /\ (Clean' => Balance(p)')
  BY <1>1, <1>2, <1>3, EvenOnward
<1>5. Declares(p)' /\ Told(p)'
  BY <1>1, <1>2 DEF SInv, Serial, Declares, Told
<1>6. QED BY <1>4, <1>5 DEF Serial

LEMMA ValidateSerial ==
  ASSUME SInv, NEW p \in Procs, faults \subseteq faults', Validate(p) PROVE Serial(p)'
<1>1. pc[p] = "validate" /\ UNCHANGED <<database, collection, src, op>>
  BY DEF Validate
<1>2. \/ pc'[p] = "attach" /\ step'[p] = 1
      \/ pc'[p] = "idle" /\ reply'[p] = "INVALID"
      \/ pc'[p] = "next"
  BY DEF Validate, AttachReturns, Return, SInv, RInv, Inv, Shapes
<1>3. Steps(p)' \in {1, 2}
  BY <1>1, AttachLength DEF Steps
<1>4. step'[p] = 1 => step'[p] # 2 /\ ~(step'[p] > Steps(p)')
  BY <1>3
<1>5. ~Midway(p) /\ ~Midway(p)'
  BY <1>1, <1>2, <1>4 DEF Midway
<1>6. Known' /\ (Clean' => Balance(p)')
  BY <1>1, <1>2, <1>4, <1>5, EvenOnward
<1>7. Declares(p)' /\ Told(p)'
  BY <1>1, <1>2 DEF SInv, Serial, Declares, Told
<1>8. QED BY <1>6, <1>7 DEF Serial

LEMMA LookUpEngineSerial ==
  ASSUME SInv, NEW p \in Procs, faults \subseteq faults', LookUpEngine(p) PROVE Serial(p)'
<1> DEFINE db == database[src[p].name]
<1>1. /\ pc[p] = "engine" /\ UNCHANGED <<database, collection, op, step>>
      /\ op[p] = "remove" /\ src[p] \in Subjects /\ step[p] = 1 /\ src[p].target = None
  BY DEF LookUpEngine, SInv, RInv, Inv, Local, SubjectOK, ControlOK, Serial, Told
<1>2. \/ /\ pc'[p] = AfterEngine(db.type) /\ db # None
         /\ src'[p].name = src[p].name /\ src'[p].target = None /\ src'[p].type = db.type
      \/ pc'[p] = "idle" /\ reply'[p] \in {"SOURCE_NOT_FOUND", "INTERNAL_ERROR"}
  <2>1. CASE /\ db # None
             /\ src' = [src EXCEPT ![p].type = db.type]
             /\ pc' = [pc EXCEPT ![p] = AfterEngine(db.type)]
    BY <1>1, <2>1 DEF SInv, RInv, Inv, Shapes, Subjects
  <2>2. CASE Return(p, "SOURCE_NOT_FOUND") \/ Return(p, "INTERNAL_ERROR")
    BY <2>2 DEF Return, SInv, RInv, Inv, Shapes
  <2>3. QED BY <2>1, <2>2 DEF LookUpEngine
<1>3. step'[p] = 1
  BY <1>1
<1>4. ~Midway(p) /\ ~Midway(p)'
  <2>1. step'[p] # 2
    BY <1>3
  <2>2. QED BY <1>1, <1>2, <2>1 DEF Midway, AfterEngine
<1>5. Known' /\ (Clean' => Balance(p)')
  BY <1>1, <1>2, <1>4, EvenOnward DEF AfterEngine
<1>6. Declares(p)'
  BY <1>2 DEF Declares, AfterEngine
<1>7. Told(p)'
  BY <1>1, <1>2 DEF Told, AfterEngine
<1>8. QED BY <1>5, <1>6, <1>7 DEF Serial

LEMMA LookUpHostSerial ==
  ASSUME SInv, NEW p \in Procs, faults \subseteq faults', LookUpHost(p) PROVE Serial(p)'
<1> DEFINE db == database[src[p].name]
<1>1. /\ pc[p] = "host" /\ UNCHANGED <<database, collection, op, step>>
      /\ op[p] = "remove" /\ src[p] \in Subjects /\ step[p] = 1 /\ src[p].target = None
      /\ db # None => src[p].type = db.type
  BY DEF LookUpHost, SInv, RInv, Inv, Local, SubjectOK, ControlOK, Serial, Told
<1>2. pc'[p] = "detach"
  BY DEF LookUpHost, SInv, RInv, Inv, Shapes
<1>3. src'[p].name = src[p].name /\ src'[p].type = src[p].type
  BY <1>1 DEF LookUpHost, SInv, RInv, Inv, Shapes, Subjects
<1>4. \/ src'[p].target = IF db # None /\ HasCollection(db.type) THEN db.target ELSE None
      \/ src'[p].target = None /\ \E f \in faults' : f.phase = "query"
  <2>1. CASE src' = [src EXCEPT ![p].target =
                       IF db # None /\ HasCollection(db.type) THEN db.target ELSE None]
    BY <1>1, <2>1 DEF SInv, RInv, Inv, Shapes, Subjects
  <2>2. CASE QueryFails(op[p]) /\ UNCHANGED src
    <3>1. [op |-> op[p], phase |-> "query", kind |-> "refused"] \in faults'
      BY <2>2 DEF QueryFails, Fault
    <3>2. QED BY <1>1, <2>2, <3>1
  <2>3. QED BY <2>1, <2>2 DEF LookUpHost
<1>5. ~Midway(p) /\ ~Midway(p)'
  <2>1. step'[p] # 2
    BY <1>1
  <2>2. QED BY <1>1, <1>2, <2>1 DEF Midway
<1>6. Known' /\ (Clean' => Balance(p)')
  BY <1>1, <1>2, <1>5, EvenOnward
<1>7. Declares(p)'
  BY <1>2 DEF Declares
<1>8. Told(p)'
  BY <1>1, <1>2, <1>3, <1>4 DEF Told
<1>9. QED BY <1>6, <1>7, <1>8 DEF Serial

LEMMA NextSourceSerial ==
  ASSUME SInv, NEW p \in Procs, faults \subseteq faults', NextSource(p) PROVE Serial(p)'
<1>1. pc[p] = "next" /\ op[p] = "apply" /\ UNCHANGED <<database, collection, op>>
  BY DEF NextSource, SInv, RInv, Inv, Local, ControlOK
<1>2. pc'[p] \in {"idle", "validate", "next"}
  BY <1>1 DEF NextSource, Return, SInv, RInv, Inv, Shapes
<1>3. ~Midway(p) /\ ~Midway(p)'
  BY <1>1, <1>2 DEF Midway
<1>4. Known' /\ (Clean' => Balance(p)')
  BY <1>1, <1>2, <1>3, EvenOnward
<1>5. pc'[p] = "validate" => src'[p] \in Declared
  <2> SUFFICES ASSUME pc'[p] = "validate" PROVE src'[p] \in Declared
    OBVIOUS
  <2>1. src'[p] = file[p][line[p]] /\ line[p] <= Len(file[p])
    BY DEF NextSource, Return, SInv, RInv, Inv, Shapes
  <2>2. line[p] \in DOMAIN file[p]
    BY <2>1, FilesAssumption DEF SInv, RInv, Inv, Shapes
  <2>3. file[p] \in Files
    BY <2>2 DEF SInv, RInv, Inv, Shapes
  <2>4. QED BY <2>1, <2>2, <2>3 DEF Declared
<1>6. Declares(p)' /\ Told(p)'
  BY <1>2, <1>5 DEF Declares, Told
<1>7. QED BY <1>4, <1>6 DEF Serial

LEMMA KillSerial ==
  ASSUME SInv, NEW p \in Procs, Kill(p) PROVE Serial(p)'
<1>1. pc'[p] = "idle" /\ UNCHANGED <<database, collection>>
  BY DEF Kill, Return, SInv, RInv, Inv, Shapes
<1>2. ~Clean'
  BY CleanFault DEF Kill
<1>3. QED BY <1>1, <1>2 DEF Serial, SInv, Known, Declares, Told

\* attachSource returns, with the catalogue even.
LEMMA AttachReturnsSerial ==
  ASSUME SInv, NEW p \in Procs, faults \subseteq faults', NEW code, AttachReturns(p, code),
         UNCHANGED <<database, collection, op, src>>, ~Midway(p),
         code = "ok" => pc[p] = "attach" /\ step[p] > Steps(p)
  PROVE  Serial(p)'
<1>1. \/ op[p] = "add" /\ pc'[p] = "idle" /\ reply'[p] = code
      \/ op[p] = "apply" /\ pc'[p] = "next"
  BY DEF AttachReturns, Return, SInv, RInv, Inv, Shapes
<1>2. ~Midway(p)'
  BY <1>1 DEF Midway
<1>3. Known' /\ Declares(p)' /\ Told(p)'
  BY <1>1 DEF SInv, Serial, Known, Declares, Told
<1>4. ASSUME Clean' PROVE Balance(p)'
  <2>1. Balance(p)
    BY <1>4, CleanBefore DEF SInv, Serial
  <2>2. \A m \in Names : Even(m)'
    BY <2>1 DEF Balance, Even, Credentialed
  <2>3. op[p] = "add" /\ code = "ok" => database[src[p].name] = Wish(src[p])
    BY <2>1 DEF Balance
  <2>4. Wish(src[p])' = Wish(src[p])
    BY DEF Wish, Login
  <2>5. QED BY <1>1, <1>2, <2>2, <2>3, <2>4 DEF Balance
<1>5. QED BY <1>3, <1>4 DEF Serial

LEMMA CreateKnown ==
  ASSUME Inv, Known, NEW s \in Sources, s \in Declared, NEW statement, Execute(statement, s)
  PROVE  Known'
<1> SUFFICES ASSUME NEW n \in Names, database'[n] # None
             PROVE  \E t \in Declared : t.name = n /\ t.type = database'[n].type
  BY DEF Known
<1>1. CASE database'[n] = database[n]
  BY <1>1 DEF Known
<1>2. CASE database'[n] # database[n]
  <2>1. CreateDatabase(s) \/ DropDatabase(s)
    BY <1>2 DEF Execute, CreateCollection, DropCollection
  <2>2. n = s.name
    BY <1>2, <2>1 DEF CreateDatabase, DropDatabase, Inv, Shapes
  <2>3. database'[n].type = s.type
    BY <1>2, <2>1, <2>2 DEF CreateDatabase, DropDatabase, Inv, Shapes
  <2>4. QED BY <2>2, <2>3
<1>3. QED BY <1>1, <1>2

\* The first statement of an attach with credentials: the catalogue is uneven from
\* here to the second.
LEMMA CollectionCreated ==
  ASSUME SInv, NEW p \in Procs, NEW s \in Sources, s = src[p],
         pc[p] = "attach", op[p] \in {"add", "apply"}, HasCollection(s.type), ~Midway(p),
         op[p] = "add" => database[s.name] = None,
         CreateCollection(s), Balance(p), Clean,
         pc'[p] = "attach", step'[p] = 2, UNCHANGED <<op, src, file, line>>
  PROVE  Balance(p)'
<1> DEFINE n == s.name
<1>1. n \in Names /\ \A m \in Names : Even(m)
  BY DEF Sources, Balance
<1>2. Midway(p)' /\ Steps(p)' = 2
  BY AttachLength DEF Midway, Steps
<1>3. collection'[n] # None
  <2>1. Login(s) # None
    <3>1. Login(s) \in Logins
      BY DEF Login, Logins, Sources
    <3>2. QED BY <3>1, NoneAssumption
  <2>2. QED BY <1>1, <2>1 DEF CreateCollection, Login, SInv, RInv, Inv, Shapes
<1>4. \A m \in Names : Even(m)' \/ m = n
  BY <1>1 DEF CreateCollection, Even, Credentialed, SInv, RInv, Inv, Shapes
<1>5. op[p] = "add" => collection'[n] = Login(s)
  BY <1>1 DEF CreateCollection, Login, Even, Credentialed, SInv, RInv, Inv, Shapes
<1>6. Login(src[p])' = Login(s)
  BY DEF Login
<1>7. database[n] # None => HasCollection(database[n].type)
  <2> SUFFICES ASSUME database[n] # None PROVE HasCollection(database[n].type)
    OBVIOUS
  <2>1. PICK t \in Declared : t.name = n /\ t.type = database[n].type
    BY <1>1 DEF SInv, Serial, Known
  <2>2. op[p] = "apply" /\ line[p] - 1 \in DOMAIN file[p] /\ s = file[p][line[p] - 1]
    BY DEF SInv, RInv, Batchwork, AttachLabels
  <2>3. file[p] \in Files
    BY <2>2 DEF SInv, RInv, Inv, Shapes
  <2>4. HasCollection(t.type)
    BY <2>1, <2>2, <2>3 DEF Clean, NoRetyping, Declared
  <2>5. QED BY <2>1, <2>4
<1>8. UNCHANGED database
  BY DEF CreateCollection
<1>9. ~(step'[p] > Steps(p)')
  BY <1>2
<1>10. QED BY <1>2, <1>3, <1>4, <1>5, <1>6, <1>7, <1>8, <1>9 DEF Balance

\* The last statement of an attach evens the catalogue out.
LEMMA DatabaseCreated ==
  ASSUME SInv, NEW p \in Procs, NEW s \in Sources, s = src[p],
         pc[p] = "attach", op[p] \in {"add", "apply"}, step[p] = Steps(p),
         op[p] = "add" => database[s.name] = None,
         CreateDatabase(s), Balance(p),
         pc'[p] = "attach", step'[p] = step[p] + 1, UNCHANGED <<op, src>>
  PROVE  Balance(p)'
<1> DEFINE n == s.name
           login == IF HasCollection(s.type) THEN collection[n] ELSE None
           db == [type |-> s.type, target |-> s.target, login |-> login]
<1>1. n \in Names
  BY DEF Sources
<1>2. Steps(p) = IF HasCollection(s.type) THEN 2 ELSE 1
  BY AttachLength DEF Steps
<1>3. Midway(p) <=> HasCollection(s.type)
  <2>1. step[p] = 2 <=> HasCollection(s.type)
    BY <1>2
  <2>2. QED BY <2>1 DEF Midway
<1>4. ~Midway(p)'
  <2>1. step'[p] = 2 => ~HasCollection(s.type)
    BY <1>2
  <2>2. QED BY <2>1 DEF Midway
<1>5. db # None
  <2>1. login \in Logins \cup {None}
    BY <1>1 DEF SInv, RInv, Inv, Shapes
  <2>2. db \in Databases
    BY <2>1 DEF Databases, Sources
  <2>3. QED BY <2>2, NoneAssumption
<1>6. /\ UNCHANGED collection
      /\ database' = IF database[n] = None THEN [database EXCEPT ![n] = db] ELSE database
  BY DEF CreateDatabase
<1>7. \A m \in Names : m # n => Even(m)'
  BY <1>6 DEF Balance, Even, Credentialed, SInv, RInv, Inv, Shapes
<1>8. Even(n)'
  <2>1. CASE database[n] = None
    <3>1. database'[n] = db
      BY <1>1, <1>6, <2>1 DEF SInv, RInv, Inv, Shapes
    <3>2. Credentialed(n)' <=> HasCollection(s.type)
      BY <1>5, <3>1 DEF Credentialed
    <3>3. collection[n] # None <=> HasCollection(s.type)
      BY <1>1, <1>3, <2>1 DEF Balance, Even, Credentialed
    <3>4. QED BY <1>6, <3>2, <3>3 DEF Even
  <2>2. CASE database[n] # None
    BY <1>1, <1>3, <1>6, <2>2 DEF Balance, Even, Credentialed
  <2>3. QED BY <2>1, <2>2
<1>9. op[p] = "add" => database'[n] = Wish(s)
  <2> SUFFICES ASSUME op[p] = "add" PROVE database'[n] = Wish(s)
    OBVIOUS
  <2>1. database'[n] = db
    BY <1>1, <1>6 DEF SInv, RInv, Inv, Shapes
  <2>2. HasCollection(s.type) => collection[n] = Login(s)
    BY <1>3 DEF Balance
  <2>3. QED BY <2>1, <2>2 DEF Wish
<1>10. Wish(src[p])' = Wish(s)
  BY DEF Wish, Login
<1>11. QED BY <1>4, <1>7, <1>8, <1>9, <1>10 DEF Balance

LEMMA StatementOf ==
  ASSUME NEW p, step[p] \in 1 .. Steps(p)
  PROVE  StatementAt(p) = IF step[p] = Steps(p) THEN "create database" ELSE "create collection"
<1>1. step[p] \in 1 .. Len(AttachPlan(src[p].type))
  BY DEF Steps
<1>2. \/ HasCollection(src[p].type) /\ step[p] = 1 /\ StatementAt(p) = "create collection"
      \/ step[p] = Steps(p) /\ StatementAt(p) = "create database"
  BY <1>1, AttachDo DEF Steps, StatementAt
<1>3. HasCollection(src[p].type) => Steps(p) = 2
  BY AttachLength DEF Steps
<1>4. HasCollection(src[p].type) /\ step[p] = 1 => step[p] # Steps(p)
  BY <1>3
<1>5. QED BY <1>2, <1>4

\* The hub refuses an attach's CREATE only if told to by a fault: a collection is
\* there when its database is created.
LEMMA RefusedAttach ==
  ASSUME SInv, NEW p \in Procs, Clean', faults \subseteq faults',
         pc[p] = "attach", src[p] \in Sources, step[p] \in 1 .. Steps(p),
         Failed(p, "attach", StatementAt(p), src[p]), Balance(p)
  PROVE  op[p] = "add" /\ UNCHANGED <<database, collection>>
<1> DEFINE s == src[p]
<1>1. StatementAt(p) = IF step[p] = Steps(p) THEN "create database" ELSE "create collection"
  BY StatementOf
<1>2. Accepts(StatementAt(p), s)
  <2> SUFFICES ASSUME StatementAt(p) = "create database", HasCollection(s.type)
               PROVE  collection[s.name] # None
    BY DEF Accepts
  <2>1. Steps(p) = 2
    BY AttachLength DEF Steps
  <2>2. step[p] = Steps(p)
    BY <1>1
  <2>3. step[p] = 2
    BY <2>1, <2>2
  <2>4. QED BY <2>3 DEF Midway, Balance
<1>3. ~Unanswered(p, "attach", StatementAt(p), s)
  BY CleanFault DEF Unanswered
<1>4. Fault(op[p], "attach", "refused") /\ UNCHANGED <<database, collection>>
  BY <1>2, <1>3 DEF Failed, Refused
<1>5. QED BY <1>4, CleanFault

LEMMA AttachStepSerial ==
  ASSUME SInv, NEW p \in Procs, faults \subseteq faults', AttachStep(p) PROVE Serial(p)'
<1> DEFINE s == src[p]
<1>1. /\ pc[p] = "attach" /\ s \in Sources /\ s \in Declared
      /\ op[p] \in {"add", "apply"} /\ step[p] \in 1 .. Steps(p) + 1
  BY DEF AttachStep, SInv, RInv, Inv, Local, SubjectOK, ControlOK, Steps, Serial, Declares
<1>2. Steps(p) \in {1, 2} /\ (Steps(p) = 2 <=> HasCollection(s.type)) /\ Inv /\ Course(p) /\ Known
  BY AttachLength DEF Steps, SInv, RInv, Serial
<1>3. UNCHANGED <<op, src, file, line>>
  BY DEF AttachStep
<1>4. op[p] = "add" /\ step[p] <= Steps(p) => database[s.name] = None
  BY <1>1, <1>2 DEF Course
<1>5. ASSUME step[p] <= Steps(p) PROVE step[p] \in 1 .. Steps(p)
  BY <1>1, <1>2, <1>5
<1>6. CASE /\ step[p] <= Steps(p) /\ Acknowledged(StatementAt(p), s)
           /\ step' = [step EXCEPT ![p] = @ + 1] /\ UNCHANGED pc
  <2>1. Execute(StatementAt(p), s) /\ pc'[p] = "attach" /\ step'[p] = step[p] + 1
    BY <1>1, <1>6 DEF Acknowledged, SInv, RInv, Inv, Shapes
  <2>2. Known' /\ Declares(p)' /\ Told(p)'
    BY <1>1, <1>2, <1>3, <2>1, CreateKnown DEF Declares, Told
  <2>3. ASSUME Clean' PROVE Balance(p)'
    <3>1. Clean /\ Balance(p)
      BY <2>3, CleanBefore DEF SInv, Serial
    <3>2. StatementAt(p) = IF step[p] = Steps(p) THEN "create database" ELSE "create collection"
      BY <1>5, <1>6, StatementOf
    <3>3. CASE step[p] = Steps(p)
      <4>1. CreateDatabase(s)
        BY <2>1, <3>2, <3>3 DEF Execute
      <4>2. QED BY <1>1, <1>3, <1>4, <1>6, <2>1, <3>1, <3>3, <4>1, DatabaseCreated
    <3>4. CASE step[p] # Steps(p)
      <4>1. CreateCollection(s)
        BY <2>1, <3>2, <3>4 DEF Execute
      <4>2. step[p] = 1 /\ step'[p] = 2 /\ step[p] # 2 /\ Steps(p) = 2
        BY <1>2, <1>5, <1>6, <2>1, <3>4
      <4>3. ~Midway(p)
        BY <1>1, <4>2 DEF Midway
      <4>4. QED BY <1>1, <1>2, <1>3, <1>4, <1>6, <2>1, <3>1, <4>1, <4>2, <4>3, CollectionCreated
    <3>5. QED BY <3>3, <3>4
  <2>4. QED BY <2>2, <2>3 DEF Serial
<1>7. CASE /\ step[p] <= Steps(p) /\ Failed(p, "attach", StatementAt(p), s)
           /\ step' = [step EXCEPT ![p] = LastCompleted(@)]
           /\ pc' = [pc EXCEPT ![p] = "rollback"]
  <2>1. pc'[p] = "rollback" /\ step'[p] = step[p] - 1
    BY <1>7 DEF LastCompleted, SInv, RInv, Inv, Shapes
  <2>2. Known'
    <3>1. Execute(StatementAt(p), s) \/ UNCHANGED database
      BY <1>7 DEF Failed, Refused, Unanswered
    <3>2. QED BY <1>1, <1>2, <3>1, CreateKnown DEF Known
  <2>3. Declares(p)' /\ Told(p)'
    BY <1>1, <1>3, <2>1 DEF Declares, Told
  <2>4. ASSUME Clean' PROVE Balance(p)'
    <3>1. Balance(p)
      BY <2>4, CleanBefore DEF SInv, Serial
    <3>2. op[p] = "add" /\ UNCHANGED <<database, collection>>
      BY <1>1, <1>5, <1>7, <2>4, <3>1, RefusedAttach
    <3>3. database[s.name] = None
      BY <1>4, <1>7, <3>2
    <3>4. Midway(p)' <=> Midway(p)
      <4>1. step'[p] = 1 <=> step[p] = 2
        BY <1>1, <1>2, <2>1
      <4>2. step[p] = 2 => HasCollection(s.type)
        BY <1>2, <1>5, <1>7
      <4>3. QED BY <1>1, <2>1, <4>1, <4>2 DEF Midway
    <3>5. \A m \in Names : Even(m)' <=> Even(m)
      BY <3>2 DEF Even, Credentialed
    <3>6. QED BY <1>3, <2>1, <3>1, <3>2, <3>3, <3>4, <3>5 DEF Balance
  <2>5. QED BY <2>2, <2>3, <2>4 DEF Serial
<1>8. CASE step[p] > Steps(p) /\ AttachReturns(p, "ok") /\ UNCHANGED <<database, collection>>
  <2>1. step[p] = 2 => ~HasCollection(s.type)
    BY <1>2, <1>8
  <2>2. ~Midway(p)
    BY <1>1, <2>1 DEF Midway
  <2>3. QED BY <1>1, <1>3, <1>8, <2>2, AttachReturnsSerial
<1>9. QED BY <1>6, <1>7, <1>8 DEF AttachStep, Steps, StatementAt

LEMMA RollbackStepSerial ==
  ASSUME SInv, NEW p \in Procs, faults \subseteq faults', RollbackStep(p) PROVE Serial(p)'
<1> DEFINE s == src[p]
           undo == AttachPlan(s.type)[step[p]].undo
<1>1. /\ pc[p] = "rollback" /\ s \in Sources /\ s \in Declared /\ s.name \in Names
      /\ step[p] \in 0 .. Steps(p) - 1
  BY DEF RollbackStep, SInv, RInv, Inv, Local, SubjectOK, ControlOK, Steps, Serial, Declares,
     Sources
<1>2. UNCHANGED <<op, src, file, line>>
  BY DEF RollbackStep
<1>3. CASE /\ ~Undone(step[p])
           /\ Acknowledged(undo, s) \/ Failed(p, "rollback", undo, s)
           /\ step' = [step EXCEPT ![p] = PreviousStep(@)] /\ UNCHANGED pc
  <2>1. undo = "drop collection" /\ step[p] = 1
    BY <1>1, <1>3, AttachUndo DEF Undone, Steps
  <2>2. step'[p] = 0
    <3>1. step[p] = 1
      BY <2>1
    <3>2. step' = [step EXCEPT ![p] = step[p] - 1] /\ step \in [Procs -> 0..3]
      BY <1>3 DEF PreviousStep, SInv, RInv, Inv, Shapes
    <3>3. QED BY <3>1, <3>2
  <2>3. DropCollection(s) \/ UNCHANGED <<database, collection>>
    <3>1. Execute(undo, s) \/ UNCHANGED <<database, collection>>
      BY <1>3 DEF Acknowledged, Failed, Refused, Unanswered
    <3> HIDE DEF undo
    <3>2. undo = "drop collection"
      BY <2>1
    <3>3. QED BY <3>1, <3>2 DEF Execute
  <2>4. Known' /\ Declares(p)' /\ Told(p)'
    BY <1>1, <1>2, <1>3, <2>3 DEF SInv, Serial, Known, Declares, Told, DropCollection
  <2>5. ASSUME Clean' PROVE Balance(p)'
    <3>1. Balance(p)
      BY <2>5, CleanBefore DEF SInv, Serial
    <3>2. Midway(p) /\ ~Midway(p)'
      <4>1. step'[p] # 1
        BY <2>2
      <4>2. QED BY <1>1, <1>3, <2>1, <4>1 DEF Midway
    <3>3. DropCollection(s)
      <4>1. undo = "drop collection"
        BY <2>1
      <4>2. Acknowledged(undo, s) \/ Failed(p, "rollback", undo, s)
        BY <1>3
      <4> HIDE DEF undo
      <4>3. Accepts(undo, s)
        BY <4>1 DEF Accepts
      <4>4. ASSUME NEW kind PROVE ~Fault(op[p], "rollback", kind)
        BY <2>5, CleanFault
      <4>5. Execute(undo, s)
        BY <4>2, <4>3, <4>4 DEF Acknowledged, Failed, Refused, Unanswered
      <4>6. QED BY <4>1, <4>5 DEF Execute
    <3>4. Even(s.name)'
      <4>1. database[s.name] = None /\ UNCHANGED database
        BY <1>1, <3>1, <3>3 DEF Balance, DropCollection
      <4>2. collection'[s.name] = None
        BY <1>1, <3>3 DEF DropCollection, SInv, RInv, Inv, Shapes
      <4>3. QED BY <1>2, <4>1, <4>2 DEF Even, Credentialed
    <3>5. \A m \in Names : m # s.name => Even(m)'
      BY <3>1, <3>3 DEF Balance, Even, Credentialed, DropCollection, SInv, RInv, Inv, Shapes
    <3>6. database' = database /\ pc'[p] = "rollback"
      BY <1>1, <1>3, <3>3 DEF DropCollection
    <3>7. QED BY <1>1, <1>2, <3>1, <3>2, <3>4, <3>5, <3>6 DEF Balance
  <2>6. QED BY <2>4, <2>5 DEF Serial
<1>4. CASE /\ Undone(step[p])
           /\ AttachReturns(p, "INTERNAL_ERROR")
           /\ UNCHANGED <<database, collection>>
  <2>1. step[p] # 1
    BY <1>4 DEF Undone
  <2>2. ~Midway(p)
    BY <1>1, <2>1 DEF Midway
  <2>3. QED BY <1>2, <1>4, <2>2, AttachReturnsSerial
<1>5. QED BY <1>3, <1>4 DEF RollbackStep

LEMMA DetachStepSerial ==
  ASSUME SInv, NEW p \in Procs, faults \subseteq faults', DetachStep(p) PROVE Serial(p)'
<1> DEFINE s == src[p]
           n == s.name
           drop == DetachPlan(s.type)[step[p]]
<1>1. /\ pc[p] = "detach" /\ op[p] = "remove" /\ s \in Subjects /\ n \in Names
      /\ step[p] \in 1 .. 3 /\ (step[p] = 1 <=> database[n] # None)
      /\ database[n] # None => s.type = database[n].type
  BY DEF DetachStep, SInv, RInv, Inv, Shapes, Local, SubjectOK, ControlOK, Subjects, Course,
     Serial, Told
<1>2. UNCHANGED <<op, src>>
  BY DEF DetachStep
<1>3. ASSUME step[p] <= Len(DetachPlan(s.type)), Execute(drop, s)
      PROVE  \/ step[p] = 1 /\ DropDatabase(s)
             \/ step[p] = 2 /\ HasCollection(s.type) /\ DropCollection(s)
  <2>1. \/ step[p] = 1 /\ drop = "drop database"
        \/ step[p] = 2 /\ drop = "drop collection"
    BY <1>1, <1>3, DetachDo
  <2>2. step[p] = 2 => HasCollection(s.type)
    BY <1>3, DetachLength
  <2> HIDE DEF drop
  <2>3. CASE step[p] = 1 /\ drop = "drop database"
    BY <1>3, <2>3 DEF Execute
  <2>4. CASE step[p] = 2 /\ drop = "drop collection"
    BY <1>3, <2>2, <2>4 DEF Execute
  <2>5. QED BY <2>1, <2>3, <2>4
<1>4. ASSUME DropDatabase(s) \/ DropCollection(s) \/ UNCHANGED <<database, collection>>
      PROVE  Known'
  BY <1>1, <1>4 DEF DropDatabase, DropCollection, SInv, RInv, Inv, Shapes, Serial, Known
<1>5. CASE /\ step[p] <= Len(DetachPlan(s.type)) /\ Acknowledged(drop, s)
           /\ step' = [step EXCEPT ![p] = @ + 1] /\ UNCHANGED <<pc, reply>>
  <2>1. step'[p] = step[p] + 1 /\ pc'[p] = "detach"
    BY <1>1, <1>5 DEF SInv, RInv, Inv, Shapes
  <2>2. \/ step[p] = 1 /\ DropDatabase(s)
        \/ step[p] = 2 /\ HasCollection(s.type) /\ DropCollection(s)
    BY <1>3, <1>5 DEF Acknowledged
  <2>3. database'[n] = None
    <3>1. CASE step[p] = 1 /\ DropDatabase(s)
      BY <1>1, <3>1 DEF DropDatabase, SInv, RInv, Inv, Shapes
    <3>2. CASE step[p] = 2 /\ DropCollection(s)
      <4>1. step[p] # 1
        BY <3>2
      <4>2. QED BY <1>1, <3>2, <4>1 DEF DropCollection
    <3>3. QED BY <2>2, <3>1, <3>2
  <2>4. Known' /\ Declares(p)' /\ Told(p)'
    BY <1>2, <1>4, <2>1, <2>2, <2>3 DEF Declares, Told
  <2>5. ASSUME Clean' PROVE Balance(p)'
    <3>1. Balance(p)
      BY <2>5, CleanBefore DEF SInv, Serial
    <3>2. CASE step[p] = 1 /\ DropDatabase(s)
      <4>1. ~Midway(p)
        <5>1. step[p] # 2
          BY <3>2
        <5>2. QED BY <1>1, <5>1 DEF Midway
      <4>2. \A m \in Names : Even(m)
        BY <3>1, <4>1 DEF Balance
      <4>3. \A m \in Names : m # n => Even(m)'
        BY <3>2, <4>2 DEF DropDatabase, Even, Credentialed, SInv, RInv, Inv, Shapes
      <4>4. UNCHANGED collection /\ (collection[n] # None <=> HasCollection(s.type))
        BY <1>1, <3>2, <4>2 DEF DropDatabase, Even, Credentialed
      <4>5. Midway(p)' <=> HasCollection(s.type)
        <5>1. step'[p] = 2
          BY <2>1, <3>2
        <5>2. QED BY <1>2, <2>1, <5>1 DEF Midway
      <4>6. Even(n)' <=> ~HasCollection(s.type)
        BY <1>2, <2>3, <4>4 DEF Even, Credentialed
      <4>7. QED BY <1>1, <1>2, <2>1, <4>3, <4>4, <4>5, <4>6 DEF Balance
    <3>3. CASE step[p] = 2 /\ HasCollection(s.type) /\ DropCollection(s)
      <4>1. \A m \in Names : m # n => Even(m)'
        BY <3>1, <3>3 DEF DropCollection, Balance, Even, Credentialed, SInv, RInv, Inv, Shapes
      <4>2. collection'[n] = None
        BY <1>1, <3>3 DEF DropCollection, SInv, RInv, Inv, Shapes
      <4>3. Even(n)'
        BY <1>2, <2>3, <4>2 DEF Even, Credentialed
      <4>4. ~Midway(p)'
        <5>1. step'[p] # 2
          BY <2>1, <3>3
        <5>2. QED BY <2>1, <5>1 DEF Midway
      <4>5. QED BY <1>1, <1>2, <2>1, <4>1, <4>3, <4>4 DEF Balance
    <3>4. QED BY <2>2, <3>2, <3>3
  <2>6. QED BY <2>4, <2>5 DEF Serial
<1>6. CASE /\ step[p] <= Len(DetachPlan(s.type)) /\ Failed(p, "detach", drop, s)
           /\ Return(p, "INTERNAL_ERROR")
  <2>1. pc'[p] = "idle"
    BY <1>6 DEF Return, SInv, RInv, Inv, Shapes
  <2>2. Execute(drop, s) \/ UNCHANGED <<database, collection>>
    BY <1>6 DEF Failed, Refused, Unanswered
  <2>3. Known'
    BY <1>3, <1>4, <1>6, <2>2
  <2>4. ~Clean'
    <3>1. Accepts(drop, s)
      <4>1. drop # "create database"
        BY <1>1, <1>6, DetachDo
      <4> HIDE DEF drop
      <4>2. QED BY <4>1 DEF Accepts
    <3>2. PICK kind : Fault(op[p], "detach", kind)
      BY <1>6, <3>1 DEF Failed, Refused, Unanswered
    <3>3. QED BY <3>2, CleanFault
  <2>5. QED BY <2>1, <2>3, <2>4 DEF Serial, Declares, Told
<1>7. CASE /\ step[p] > Len(DetachPlan(s.type)) /\ Return(p, "ok")
           /\ UNCHANGED <<database, collection, step>>
  <2>1. pc'[p] = "idle"
    BY <1>7 DEF Return, SInv, RInv, Inv, Shapes
  <2>2. ~(step[p] = 2 /\ HasCollection(s.type))
    BY <1>7, DetachLength
  <2>3. ~Midway(p) /\ ~Midway(p)'
    BY <1>1, <2>1, <2>2 DEF Midway
  <2>4. Known' /\ (Clean' => Balance(p)')
    BY <1>1, <1>2, <1>7, <2>1, <2>3, EvenOnward
  <2>5. QED BY <2>1, <2>4 DEF Serial, Declares, Told
<1>8. QED BY <1>5, <1>6, <1>7 DEF DetachStep
----------------------------------------------------------------------------
LEMMA InitSerial == Init => SInv
<1> SUFFICES ASSUME Init PROVE SInv
  OBVIOUS
<1>1. RInv
  BY InitMaps
<1>2. ASSUME NEW p \in Procs PROVE Serial(p)
  BY DEF Init, Serial, Known, Declares, Told, Balance, Midway, Even, Credentialed
<1>3. QED BY <1>1, <1>2 DEF SInv

LEMMA NextSerial ==
  ASSUME OneAtATime
  PROVE  SInv /\ [Next]_vars => SInv'
<1> SUFFICES ASSUME SInv, [Next]_vars PROVE SInv'
  OBVIOUS
<1>1. RInv'
  BY NextMaps DEF SInv
<1>2. CASE Next
  <2>1. faults \subseteq faults'
    BY <1>2, FaultsGrow
  <2>2. PICK p \in Procs :
          \/ \E s \in Requests : StartAdd(p, s)
          \/ \E n \in Names : StartRemove(p, n)
          \/ \E f \in Files : StartApply(p, f)
          \/ Proceed(p)
          \/ Kill(p)
    BY <1>2 DEF Next
  <2>3. ASSUME NEW s \in Requests, StartAdd(p, s) PROVE Serial(p)'
    BY <2>1, <2>3, StartSerial DEF StartAdd
  <2>4. ASSUME NEW n \in Names, StartRemove(p, n) PROVE Serial(p)'
    <3> DEFINE s == [name |-> n, type |-> None, target |-> None, secret |-> None]
    <3>1. s \in Subjects /\ s.target = None
      BY DEF Subjects
    <3>2. Start(p, "remove", "engine") /\ src' = [src EXCEPT ![p] = s]
      BY <2>4 DEF StartRemove
    <3> HIDE DEF s
    <3>3. QED BY <2>1, <3>1, <3>2, StartSerial
  <2>5. ASSUME NEW f \in Files, StartApply(p, f) PROVE Serial(p)'
    BY <2>1, <2>5, StartSerial DEF StartApply
  <2>6. ASSUME Proceed(p) PROVE Serial(p)'
    BY <2>1, <2>6, CheckExistsSerial, ValidateSerial, AttachStepSerial, RollbackStepSerial,
       LookUpEngineSerial, LookUpHostSerial, DetachStepSerial, NextSourceSerial DEF Proceed
  <2>7. ASSUME Kill(p) PROVE Serial(p)'
    BY <2>7, KillSerial
  <2>8. Serial(p)'
    BY <2>2, <2>3, <2>4, <2>5, <2>6, <2>7, Zenon
  <2>9. \A q \in Procs : q = p
    BY DEF OneAtATime
  <2>10. QED BY <1>1, <2>8, <2>9 DEF SInv
<1>3. CASE UNCHANGED vars
  BY <1>1, <1>3 DEF vars, SInv, Serial, Known, Declares, Told, Clean, OnlyQueriesAndAddsFailed,
     NoRetyping, Balance, Midway, Even, Credentialed, Wish, Login, Steps
<1>4. QED BY <1>2, <1>3

LEMMA SerialAlways ==
  ASSUME OneAtATime PROVE Spec => []SInv
<1>1. SInv /\ [Next]_vars => SInv'
  BY NextSerial
<1>2. QED BY InitSerial, <1>1, PTL DEF Spec
----------------------------------------------------------------------------
\* What nobody failed to undo is complete: while only queries and the CREATEs of
\* adds have failed, and no file gives credentials to a name that an add can have
\* given to a SQLite file, the hub holds a named collection exactly for the
\* databases that need one whenever no fedctl runs. The invariant is about what a
\* process may find, so there must be one.
THEOREM NothingIsOrphaned ==
  ASSUME OneAtATime, Procs # {} PROVE Spec => []NothingOrphaned
<1>1. SInv => NothingOrphaned
  <2> SUFFICES ASSUME SInv, NoRetyping, OnlyQueriesAndAddsFailed, Quiet, NEW n \in Names
               PROVE  Even(n)
    BY DEF NothingOrphaned, Even
  <2>1. PICK p \in Procs : TRUE
    OBVIOUS
  <2>2. pc[p] = "idle"
    BY DEF Quiet
  <2>3. Balance(p) /\ ~Midway(p)
    BY <2>2 DEF SInv, Serial, Clean, Midway
  <2>4. QED BY <2>3 DEF Balance
<1>2. QED BY SerialAlways, <1>1, PTL

\* An add that reports success has attached the source it was asked for, over the
\* credentials it was given.
THEOREM AddsAreTruthful ==
  ASSUME OneAtATime PROVE Spec => []AddToldTheTruth
<1>1. SInv => AddToldTheTruth
  <2> SUFFICES ASSUME SInv, NEW p \in Procs, NoRetyping, OnlyQueriesAndAddsFailed,
                      op[p] = "add", pc[p] = "idle", reply[p] = "ok"
               PROVE  database[src[p].name] = Wish(src[p])
    BY DEF AddToldTheTruth, Wish, Login
  <2>1. Balance(p)
    BY DEF SInv, Serial, Clean
  <2>2. QED BY <2>1 DEF Balance
<1>2. QED BY SerialAlways, <1>1, PTL

\* A remove reports the type and the host of the database it drops; it only lacks
\* the host when a query has failed.
THEOREM RemovesAreTruthful ==
  ASSUME OneAtATime PROVE Spec => RemoveReportsWhatItDropped
<1> DEFINE Truthful ==
      \A p \in Procs : \A n \in Names :
        pc[p] = "detach" /\ src[p].name = n /\ database[n] # None /\ database'[n] = None =>
          /\ src[p].type = database[n].type
          /\ Credentialed(n) =>
               \/ src[p].target = database[n].target
               \/ src[p].target = None /\ \E f \in faults : f.phase = "query"
<1>1. SInv => Truthful
  BY DEF SInv, Serial, Told, Credentialed
<1>2. SInv /\ [Next]_vars => [Truthful]_vars
  BY <1>1
<1>3. QED BY SerialAlways, <1>2, PTL DEF Spec, RemoveReportsWhatItDropped
=============================================================================
