------------------------------ MODULE HubReads ------------------------------
(***************************************************************************)
(* The subcommands of fedctl that read: `source list`, `source tables`,    *)
(* `source probe` and `source test`.                                       *)
(*                                                                         *)
(* Each but the last is a sequence of queries, and a source can be         *)
(* removed, or removed and added again, between two of them.  A query that *)
(* fails leaves no trace; how many tables a source has is left out.        *)
(***************************************************************************)
EXTENDS FederationHub

CONSTANT
  Workers     \* the processes that also read

ASSUME WorkersAssumption == Workers \subseteq Procs

VARIABLES
  reading,    \* the reading subcommand a worker runs
  seen        \* history: what the hub has held meanwhile

reads == <<reading, seen>>

ReadOps == {"list", "tables", "probe", "test"}

NoRead == [op |-> "none", name |-> None, at |-> "idle", rows |-> {}, todo |-> {}, code |-> "none"]

\* The sources of the hub, by name.
Catalogue == [n \in Names |-> IF database[n] = None THEN None ELSE EntryOf(database[n])]

\* Taken with every step: a worker that reads sees what the step leaves.
Observe ==
  seen' = [w \in Workers |->
             IF reading'[w].op = "none" THEN {} ELSE seen[w] \cup {Catalogue'}]

Goes(w, r)      == reading' = [reading EXCEPT ![w] = r]
At(w, label)    == reading[w].at = label
Moves(w, label) == Goes(w, [reading[w] EXCEPT !.at = label])
Ends(w, code)   == Goes(w, [reading[w] EXCEPT !.at = "done", !.code = code])
----------------------------------------------------------------------------
\* openHub and, for a probe, openBIReadOnly; a test opens neither.
StartRead(w, kind, n) ==
  /\ reading[w] = NoRead
  /\ LET r == [NoRead EXCEPT !.op = kind, !.name = n] IN
     \/ Goes(w, [r EXCEPT !.at = CASE kind = "list" -> "databases"
                                   [] kind = "test" -> "dial"
                                   [] OTHER         -> "engine"])
     \/ kind # "test" /\ Goes(w, [r EXCEPT !.at = "done", !.code = "HUB_UNAVAILABLE"])

\* DatabaseEngine.  Mutant: nothing is looked up.
ReadEngine_Unchecked(w) ==
  /\ At(w, "engine")
  /\ Moves(w, reading[w].op)

ReadEngine(w) ==
  /\ At(w, "engine")
  /\ \/ database[reading[w].name] # None /\ Moves(w, reading[w].op)
     \/ database[reading[w].name] = None /\ Ends(w, "SOURCE_NOT_FOUND")
     \/ Ends(w, "INTERNAL_ERROR")

\* Tables: a database that is gone has none, and one whose source does not answer
\* may have none.
ReadTables(w) ==
  /\ At(w, "tables")
  /\ Ends(w, "ok") \/ Ends(w, "INTERNAL_ERROR")

\* Probe's first half: the hub's self-check and the list of the tables.
ProbeTables(w) ==
  /\ At(w, "probe")
  /\ \/ database[reading[w].name] # None /\ Moves(w, "touch")
     \/ Ends(w, "CONNECTION_FAILED")
     \/ Ends(w, "INTERNAL_ERROR")

\* Its second half: a query of the first table, as the role that Superset has; then
\* doProbe counts the tables again.
ProbeTouches(w) ==
  /\ At(w, "touch")
  /\ \/ database[reading[w].name] # None /\ Moves(w, "tables")
     \/ Ends(w, "CONNECTION_FAILED")

\* doTestSource validates the parameters and dials the source itself.
Dial(w) ==
  /\ At(w, "dial")
  /\ \E code \in {"ok", "INVALID", "CONNECTION_FAILED"} : Ends(w, code)

\* List's query for the databases gives the names and the types.
ListDatabases(w) ==
  /\ At(w, "databases")
  /\ LET found == {n \in Names : database[n] # None} IN
     \/ Goes(w, [reading[w] EXCEPT
                   !.at = "rows", !.todo = found,
                   !.rows = {[name |-> n, type |-> database[n].type, host |-> None] : n \in found}])
     \/ Ends(w, "INTERNAL_ERROR")

HostNow(n) ==
  IF database[n] # None /\ HasCollection(database[n].type) THEN database[n].target ELSE None

\* A row whose host cannot be read is listed without one.  Mutant: it is left out.
WithHost_OrNotAtAll(rows, n, host) ==
  {row \in rows : row.name # n} \cup
    {[row EXCEPT !.host = host] : row \in {r \in rows : r.name = n /\ host # None}}

WithHost(rows, n, host) ==
  {IF row.name = n THEN [row EXCEPT !.host = host] ELSE row : row \in rows}

\* The query for each row's host is one of its own.
ListHost(w) ==
  /\ At(w, "rows")
  /\ \/ \E n \in reading[w].todo : \E host \in {HostNow(n), None} :
          Goes(w, [reading[w] EXCEPT !.todo = @ \ {n}, !.rows = WithHost(@, n, host)])
     \/ reading[w].todo = {} /\ Ends(w, "ok")

ReadStep(w) ==
  \/ ReadEngine(w) \/ ReadTables(w) \/ ProbeTables(w) \/ ProbeTouches(w)
  \/ Dial(w) \/ ListDatabases(w) \/ ListHost(w)

ReadsInit ==
  /\ reading = [w \in Workers |-> NoRead]
  /\ seen = [w \in Workers |-> {}]
----------------------------------------------------------------------------
(***************************************************************************)
(* Properties                                                              *)
(***************************************************************************)
RowsOf == [name: Names, type: Types, host: Targets \cup {None}]

ReadsTypeOK ==
  /\ \A w \in Workers :
       LET r == reading[w] IN
       /\ r.op \in ReadOps \cup {"none"} /\ r.name \in Names \cup {None}
       /\ r.at \in {"idle", "engine", "tables", "probe", "touch", "dial", "databases", "rows",
                    "done"}
       /\ r.rows \subseteq RowsOf /\ r.todo \subseteq Names
       /\ r.op \in {"tables", "probe"} => r.name \in Names
       /\ r.op = "none" => r = NoRead
  /\ \A w \in Workers : seen[w] \subseteq [Names -> [type: Types, target: Targets] \cup {None}]

\* What name n has been while w was reading.
Was(w, n) == {c[n] : c \in seen[w]}

Succeeded(w, kinds) == reading[w].op \in kinds /\ At(w, "done") /\ reading[w].code = "ok"

\* The list shows a source that was there all the time, and none that was not there
\* at any time; its type and its host are ones that the source had meanwhile.  (Of a
\* source that changed meanwhile they may be of two different databases.)
ListShowsTheHub ==
  \A w \in Workers : Succeeded(w, {"list"}) =>
    /\ \A n \in Names : None \notin Was(w, n) => \E row \in reading[w].rows : row.name = n
    /\ \A row \in reading[w].rows :
         /\ \E e \in Was(w, row.name) : e # None /\ e.type = row.type
         /\ row.host # None =>
              \E e \in Was(w, row.name) : e # None /\ HasCollection(e.type) /\ e.target = row.host

\* A source is reported as missing only if it was, and as there or reachable only if
\* it was, at some time while the answer was made.
ReadsAreTruthful ==
  \A w \in Workers :
    /\ reading[w].code = "SOURCE_NOT_FOUND" => None \in Was(w, reading[w].name)
    /\ Succeeded(w, {"tables", "probe"}) => Was(w, reading[w].name) # {None}
=============================================================================
