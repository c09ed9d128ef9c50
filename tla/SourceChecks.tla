---------------------------- MODULE SourceChecks ----------------------------
(***************************************************************************)
(* What fedctl checks before a source is dialled or attached: `source      *)
(* test`, `source add` and each source of `apply` validate the parameters  *)
(* by the source's type, resolve its host against the denied ranges and    *)
(* the allowlist, resolve a SQLite path inside user_files, and only then   *)
(* dial (test) or hand their statements to the hub (add, apply).  DNS, the *)
(* disk and the servers change between two of these steps.                 *)
(*                                                                         *)
(* What the hub then does with the statements is FederationHub's.          *)
(***************************************************************************)
EXTENDS Integers, SequencesExt, FiniteSets

CONSTANTS
  ValidNames,   \* the names validate.SourceName matches, among those asked for
  Requests,     \* the requests: [name, type, params]
  Numeral,      \* the texts strconv.Atoi reads, and what it reads
  Trim,         \* strings.TrimSpace, on the texts in use
  Lower,        \* strings.ToLower, on the host names in use
  Denied,       \* deniedCIDRs: ranges [base, size]
  Worlds,       \* [allow, dns, server, disk] a command may find: the allowlist,
                \* the addresses of each host, the server at each - the ports it
                \* listens on, whether it speaks TLS, the accounts it lets in and
                \* whether it lists its tables to them - and the disk, absolute
                \* path -> [kind, to, lists]: where a link leads, whether SQLite can
                \* list the tables of a file
  UserFiles,    \* the user_files directory
  Loopback,     \* the address libpq falls back to
  MaxChanges    \* bound: how often DNS, the disk or a server changes

\* What the texts are read as: TrimSpace leaves nothing of the blank ones only, and
\* Atoi reads no text with blanks around it.
TrimAssumption == \A t \in DOMAIN Trim : Trim[t] = "" <=> t \in {"", " "}
ASSUME TrimAssumption
NumeralAssumption ==
  \A t \in DOMAIN Numeral : t \in DOMAIN Trim /\ Trim[t] = t /\ Numeral[t] \in Int
ASSUME NumeralAssumption

\* Addresses are numbers, a range has as many as its mask leaves open.
IsRange(r) == r.base \in Nat /\ r.size \in Nat \ {0}
DeniedAssumption == \A r \in Denied : IsRange(r)
ASSUME DeniedAssumption

\* What the operating system keeps is clean: no directory has an entry `.` or `..` of
\* its own, and links are absolute.
Entries == STRING
CleanPath(p) == p \in Seq(Entries) /\ \A i \in DOMAIN p : p[i] \notin {".", ".."}
UserFilesAssumption == CleanPath(UserFiles)
ASSUME UserFilesAssumption

\* A server that is down, or does not answer in time, listens on no port.
Accounts == [user: DOMAIN Trim, password: DOMAIN Trim, database: DOMAIN Trim]
Servers  == [ports: SUBSET Int, tls: BOOLEAN, logins: SUBSET Accounts, lists: BOOLEAN]

WorldsAssumption ==
  \A w \in Worlds :
    /\ w = [allow |-> w.allow, dns |-> w.dns, server |-> w.server, disk |-> w.disk]
    /\ \A e \in w.allow :
         \/ e.kind = "host"
         \/ e.kind = "ip" /\ e.base \in Nat
         \/ e.kind = "cidr" /\ IsRange(e)
    /\ \A h \in DOMAIN Lower : /\ w.dns[Lower[h]] \subseteq Nat
                               /\ w.server[Lower[h]] \in Servers
    /\ \A p \in DOMAIN w.disk :
         /\ CleanPath(p)
         /\ w.disk[p].kind = "link" => CleanPath(w.disk[p].to)
         /\ w.disk[p].kind = "file" => w.disk[p].lists \in BOOLEAN
ASSUME WorldsAssumption

MaxChangesAssumption == MaxChanges \in Nat
ASSUME MaxChangesAssumption

\* The fields of each type and those the panel's form marks as required
\* (Fields), and those Validate insists on.
Network == {"postgres", "mysql"}
Fields(t) == IF t = "sqlite" THEN {"path"}
             ELSE {"host", "port", "user", "password", "database"}
                    \cup (IF t = "postgres" THEN {"schema"} ELSE {})
Required(t) == Fields(t) \ {"schema"}

\* A request has the fields of its type, all of them texts (sources.Params).
RequestsAssumption ==
  \A r \in Requests :
    /\ r.type \in Network => r.params \in [Fields(r.type) -> DOMAIN Trim]
    /\ r.type = "sqlite"  => r.params.path \in Seq(Entries)
ASSUME RequestsAssumption

VARIABLES
  allow, dns, server, disk,    \* the world
  changes,
  pc,           \* "idle" or the next step of the command that runs
  cmd,          \* the command: [op, req]
  params,       \* its parameters as Validate returned them
  target,       \* what was dialled, or handed to the hub
  tried,        \* the endpoints a dial tried
  reply,        \* the outcome of the last command
  calm,         \* history: nothing has changed since its last own step of work
  steady,       \* history: nothing has changed since the command began
  passed        \* history: [req, target] of the last test passed, nothing having changed since
                \* it began

world == <<allow, dns, server, disk>>
vars  == <<world, changes, pc, cmd, params, target, tried, reply, calm, steady, passed>>

None == [none |-> TRUE]
Blank(text) == Trim[text] = ""

----------------------------------------------------------------------------
(* Ports: two parsers read the same text.                                  *)

AtoiOrZero(text) == IF text \in DOMAIN Numeral THEN Numeral[text] ELSE 0

Port(n) == n >= 1 /\ n <= 65535

----------------------------------------------------------------------------
(* Hosts.                                                                  *)

\* net.IPNet.Contains: the address under the mask is the network's.
InRange(range, ip) == ip \div range.size = range.base \div range.size

\* NewAllowlist: a range, an address - the range of itself alone - or a name.
RangeOf(e) == [base |-> e.base, size |-> IF e.kind = "ip" THEN 1 ELSE e.size]
AllowsHost(h) == \E e \in allow : e.kind = "host" /\ Lower[e.name] = Lower[h]
AllowsIP(ip)  == \E e \in allow : e.kind # "host" /\ InRange(RangeOf(e), ip)
IsDenied(ip)  == \E range \in Denied : InRange(range, ip)

Lookup(h) == IF h \in DOMAIN Lower THEN dns[Lower[h]] ELSE {}

\* Host: the name resolves, and every address may be dialled.
Host(h) ==
  /\ Lookup(h) # {}
  /\ \A ip \in Lookup(h) : AllowsHost(h) \/ AllowsIP(ip) \/ ~ IsDenied(ip)

----------------------------------------------------------------------------
(* Paths: sequences of names, absolute unless said otherwise.              *)

Kind(p) == IF p = <<>> THEN "dir" ELSE IF p \in DOMAIN disk THEN disk[p].kind ELSE "absent"

\* filepath.Clean returns a path that is clean as it is; `..` takes away what the
\* text says, not where a link leads.
Clean(p) ==
  IF \A i \in DOMAIN p : p[i] \notin {".", ".."} THEN p
  ELSE FoldLeft(LAMBDA acc, c : IF c = "." THEN acc
                                ELSE IF c # ".." THEN Append(acc, c)
                                ELSE IF acc = <<>> THEN acc ELSE Front(acc), <<>>, p)

\* No path of the disk: what cannot be resolved.
Missing == <<".">>

\* filepath.EvalSymlinks: the first link on the way is replaced by where it
\* leads, up to 255 times there and four times here: a longer chain counts as one
\* that never ends.
Links(p) == { i \in 1..Len(p) : Kind(SubSeq(p, 1, i)) = "link" }

Follow(p) ==
  IF Links(p) = {} THEN p
  ELSE LET i == Min(Links(p))
       IN  disk[SubSeq(p, 1, i)].to \o SubSeq(p, i + 1, Len(p))

EvalSymlinks(p) ==
  LET q == Follow(Follow(Follow(Follow(p)))) IN
    IF Links(q) # {} \/ Kind(q) = "absent" THEN Missing ELSE q

Accept(path) == [code |-> "ok", path |-> path]
Refuse(code) == [code |-> code, path |-> Missing]

\* Mutant: the path is compared before its links are followed, not after.
SQLitePath_LexicalOnly(requested) ==
  LET candidate == Clean(UserFiles \o requested) IN
    IF requested = <<>> \/ ~ IsPrefix(UserFiles, candidate) THEN Refuse("INVALID_PATH")
    ELSE IF EvalSymlinks(UserFiles) = Missing THEN Refuse("INTERNAL_ERROR")
    ELSE IF Kind(EvalSymlinks(candidate)) # "file" THEN Refuse("INVALID_PATH")
    ELSE Accept(EvalSymlinks(candidate))

\* SQLitePath: inside user_files as written and again with every link
\* followed (withinDir), and a regular file.
SQLitePath(requested) ==
  LET candidate == Clean(UserFiles \o requested)
      base      == EvalSymlinks(UserFiles)
      resolved  == EvalSymlinks(candidate)
  IN
    IF requested = <<>> \/ ~ IsPrefix(UserFiles, candidate) THEN Refuse("INVALID_PATH")
    ELSE IF base = Missing THEN Refuse("INTERNAL_ERROR")
    ELSE IF \/ resolved = Missing
            \/ ~ IsPrefix(base, resolved)
            \/ Kind(resolved) # "file" THEN Refuse("INVALID_PATH")
    ELSE Accept(resolved)

\* listSQLiteFiles, which the panel's form offers: the regular files of the
\* directory itself, links left out.
ListedFiles ==
  LET base == EvalSymlinks(UserFiles) IN
    { p \in DOMAIN disk : /\ Len(p) = Len(base) + 1 /\ IsPrefix(base, p)
                          /\ disk[p].kind = "file" }

----------------------------------------------------------------------------
(* Types: Validate, the plan and the dial of each.                         *)

\* Paths that strings.TrimSpace leaves nothing of, a file's name among them.
BlankPath(path) == path \in {<<>>, <<" ">>}

\* The checks of Validate, in their order; the parameters it returns.
Refusal(t, p) ==
  IF t \notin Network \cup {"sqlite"} THEN "UNKNOWN_SOURCE_TYPE"
  ELSE IF t = "sqlite" THEN IF BlankPath(p.path) THEN "INVALID_PATH" ELSE SQLitePath(p.path).code
  ELSE IF \E f \in Required(t) : Blank(p[f]) THEN "INVALID_REQUEST"
  ELSE IF ~ Port(AtoiOrZero(p.port)) THEN "INVALID_PORT"
  ELSE "ok"

Normalized(t, p) ==
  IF t = "sqlite" THEN [path |-> SQLitePath(p.path).path]
  ELSE IF t = "postgres" /\ p.schema = "" THEN [p EXCEPT !.schema = "public"]
  ELSE p

\* Mutant: the schema asked for is not what is attached.
PlanTarget_DefaultSchema(t, p) ==
  IF t = "sqlite" THEN p
  ELSE [host |-> p.host, port |-> AtoiOrZero(Trim[p.port]), database |-> p.database,
        schema |-> IF t = "postgres" THEN "public" ELSE ""]

\* What the plan's statements carry; parsePort trims, atoiOrZero does not.
PlanTarget(t, p) ==
  IF t = "sqlite" THEN p
  ELSE [host |-> p.host, port |-> AtoiOrZero(Trim[p.port]), database |-> p.database,
        schema |-> IF t = "postgres" THEN p.schema ELSE ""]

\* AttachPostgres, AttachMySQL and AttachSQLite check everything once more.
PlanRefusal(name, t, p) ==
  IF name \notin ValidNames THEN "INVALID_NAME"
  ELSE IF t = "sqlite" THEN "ok"
  ELSE IF \E f \in Required(t) : Blank(p[f]) THEN "INVALID_REQUEST"
  ELSE IF ~ Port(AtoiOrZero(Trim[p.port])) THEN "INVALID_PORT"
  ELSE "ok"

Endpoint(h, n, tls) == [host |-> h, port |-> n, tls |-> tls]

\* What pgx may make of the connection string: itself first, then without
\* TLS for sslmode=prefer, then whatever the environment adds to it.
Parsed(h, n) ==
  LET plain == Endpoint(h, n, FALSE)  local == Endpoint(Loopback, n, FALSE) IN
    { [main |-> Endpoint(h, n, TRUE), fallbacks |-> {plain}],
      [main |-> Endpoint(h, n, TRUE), fallbacks |-> {plain, local}],
      [main |-> Endpoint(Loopback, n, TRUE), fallbacks |-> {local}] }

\* Mutant: no fallback at all, so a server without TLS is never reached.
Kept_None(cfg) == {cfg.main}

\* postgresConnConfig keeps the fallbacks of the same host and port.
Kept(cfg) ==
  {cfg.main} \cup {e \in cfg.fallbacks : e.host = cfg.main.host /\ e.port = cfg.main.port}

\* mysql has one endpoint.
Configs(t, h, n) ==
  IF t = "postgres" THEN Parsed(h, n) ELSE {[main |-> Endpoint(h, n, FALSE), fallbacks |-> {}]}

Account(p) == [user |-> p.user, password |-> p.password, database |-> p.database]

\* What a server makes of a connection to one of its endpoints.
Connects(e, account) ==
  /\ e.host \in DOMAIN Lower
  /\ LET s == server[Lower[e.host]] IN
       e.port \in s.ports /\ (s.tls \/ ~ e.tls) /\ account \in s.logins

\* A dial has to connect, and then to count the tables.
ServerAnswer(cfg, account) ==
  IF \E e \in Kept(cfg) : Connects(e, account) /\ server[Lower[e.host]].lists
    THEN "ok" ELSE "CONNECTION_FAILED"

\* The file must still be there, and then be a database.
FileAnswer(path) ==
  LET q == EvalSymlinks(path) IN
    IF q = Missing THEN "INVALID_PATH"
    ELSE IF Kind(q) = "file" /\ disk[q].lists THEN "ok" ELSE "CONNECTION_FAILED"

----------------------------------------------------------------------------

TypeOK ==
  /\ [allow |-> allow, dns |-> dns, server |-> server, disk |-> disk] \in Worlds
  /\ changes \in 0..MaxChanges
  /\ pc \in {"idle", "validate", "check", "dial", "plan", "recheck", "attach"}
  /\ cmd = None \/ (cmd.op \in {"test", "add", "apply"} /\ cmd.req \in Requests)
  /\ pc \notin {"idle", "validate"} => params # None
  /\ \A e \in tried : e.tls \in BOOLEAN
  /\ calm \in BOOLEAN /\ steady \in BOOLEAN
  /\ passed = None \/ passed.req \in Requests

Init ==
  /\ \E w \in Worlds :
       allow = w.allow /\ dns = w.dns /\ server = w.server /\ disk = w.disk
  /\ changes = 0
  /\ pc = "idle" /\ cmd = None /\ params = None /\ target = None /\ tried = {}
  /\ reply = "none"
  /\ calm = TRUE /\ steady = TRUE
  /\ passed = None

\* The administrator of a server, a name or the volume does something.
Change ==
  /\ changes < MaxChanges
  /\ changes' = changes + 1
  /\ \E w \in Worlds :
       /\ w.allow = allow
       /\ <<w.dns, w.server, w.disk>> # <<dns, server, disk>>
       /\ dns' = w.dns /\ server' = w.server /\ disk' = w.disk
  /\ calm' = FALSE /\ steady' = FALSE /\ passed' = None
  /\ UNCHANGED <<allow, pc, cmd, params, target, tried, reply>>

Ends(r) == pc' = "idle" /\ reply' = r
Goes(next) == pc' = next /\ UNCHANGED reply

\* doAddSource checks the name first; test and apply do not.
Begin(op, req) ==
  /\ pc = "idle"
  /\ cmd' = [op |-> op, req |-> req]
  /\ params' = None /\ target' = None /\ tried' = {}
  /\ calm' = TRUE /\ steady' = TRUE
  /\ IF op = "add" /\ req.name \notin ValidNames THEN Ends("INVALID_NAME") ELSE Goes("validate")
  /\ UNCHANGED <<world, changes, passed>>

\* Mutant: the error of Validate is dropped.
Validate_Unheeded ==
  /\ pc = "validate"
  /\ LET t == cmd.req.type IN
       /\ params' = IF Refusal(t, cmd.req.params) # "ok" THEN None
                    ELSE Normalized(t, cmd.req.params)
       /\ Goes(IF t \in Network THEN "check" ELSE IF cmd.op = "test" THEN "dial" ELSE "plan")
  /\ calm' = TRUE
  /\ UNCHANGED <<world, changes, cmd, target, tried, steady, passed>>

\* A source without a host - whatever its request says of one - skips Host.
Validate ==
  /\ pc = "validate"
  /\ LET t == cmd.req.type
         r == Refusal(t, cmd.req.params)
     IN IF r # "ok"
          THEN Ends(r) /\ UNCHANGED params
          ELSE /\ params' = Normalized(t, cmd.req.params)
               /\ Goes(IF t \in Network THEN "check" ELSE IF cmd.op = "test" THEN "dial" ELSE "plan")
  /\ calm' = TRUE
  /\ UNCHANGED <<world, changes, cmd, target, tried, steady, passed>>

CheckHost ==
  /\ pc = "check"
  /\ IF Host(params.host) THEN Goes(IF cmd.op = "test" THEN "dial" ELSE "plan")
                          ELSE Ends("HOST_NOT_ALLOWED")
  /\ UNCHANGED <<world, changes, cmd, params, target, tried, calm, steady, passed>>

\* TestConnection: postgres refuses a configuration whose first endpoint is
\* not the one asked for.
Dial ==
  /\ pc = "dial"
  /\ LET t == cmd.req.type IN
       IF t = "sqlite" THEN
         /\ target' = params
         /\ UNCHANGED tried
         /\ Ends(FileAnswer(params.path))
       ELSE LET n == AtoiOrZero(params.port) IN
         /\ target' = [host |-> params.host, port |-> n, database |-> params.database,
                       schema |-> IF t = "postgres" THEN params.schema ELSE ""]
         /\ \E cfg \in Configs(t, params.host, n) :
              IF cfg.main.host # params.host \/ cfg.main.port # n
                THEN Ends("INTERNAL_ERROR") /\ UNCHANGED tried
                ELSE tried' = Kept(cfg) /\ Ends(ServerAnswer(cfg, Account(params)))
  /\ passed' = IF reply' = "ok" /\ steady THEN [req |-> cmd.req, target |-> target'] ELSE passed
  /\ UNCHANGED <<world, changes, cmd, params, calm, steady>>

\* Mutant: the plan goes to the hub on the strength of the first check.
Plan_WithoutRecheck ==
  /\ pc = "plan"
  /\ LET r == PlanRefusal(cmd.req.name, cmd.req.type, params) IN
       IF r = "ok" THEN Goes("attach") ELSE Ends(r)
  /\ calm' = TRUE
  /\ UNCHANGED <<world, changes, cmd, params, target, tried, steady, passed>>

Plan ==
  /\ pc = "plan"
  /\ LET r == PlanRefusal(cmd.req.name, cmd.req.type, params) IN
       IF r = "ok" THEN Goes(IF cmd.req.type \in Network THEN "recheck" ELSE "attach")
                   ELSE Ends(r)
  /\ calm' = TRUE
  /\ UNCHANGED <<world, changes, cmd, params, target, tried, steady, passed>>

RecheckHost ==
  /\ pc = "recheck"
  /\ IF Host(params.host) THEN Goes("attach") ELSE Ends("HOST_NOT_ALLOWED")
  /\ UNCHANGED <<world, changes, cmd, params, target, tried, calm, steady, passed>>

Attach ==
  /\ pc = "attach"
  /\ target' = PlanTarget(cmd.req.type, params)
  /\ Ends("ok")
  /\ UNCHANGED <<world, changes, cmd, params, tried, calm, steady, passed>>

Next ==
  \/ \E op \in {"test", "add", "apply"}, req \in Requests : Begin(op, req)
  \/ Validate \/ CheckHost \/ Dial
  \/ Plan \/ RecheckHost \/ Attach
  \/ Change

Spec == Init /\ [][Next]_vars

----------------------------------------------------------------------------
(* Properties, against definitions of their own.                           *)

\* The addresses of a range, counted out.
Addresses(r) == LET first == r.base - (r.base % r.size) IN first..(first + r.size - 1)

Private == UNION { Addresses(r) : r \in Denied }
Exempt  == UNION { IF e.kind = "ip" THEN {e.base} ELSE Addresses(e)
                   : e \in { e \in allow : e.kind # "host" } }
Named(h) == \E e \in allow : e.kind = "host" /\ Lower[e.name] = Lower[h]
Permitted(h) == Lookup(h) # {} /\ (Named(h) \/ Lookup(h) \cap Private \subseteq Exempt)

PortNumbers == 1..65535

Finished == pc = "idle" /\ cmd # None
Done(ops) == Finished /\ cmd.op \in ops /\ reply = "ok"

\* What is dialled, and what the hub is given, is the host of the request: one
\* that was permitted at the last look - for an attach a look after its plan
\* was built, so that a name that moved in between is not attached - and no
\* other endpoint, whatever the driver's parser adds
\* (sourceops.go:45-52, postgres.go:57-66).
OnlyPermittedHostsAreReached ==
  (Done({"test", "add", "apply"}) /\ cmd.req.type \in Network) =>
    /\ calm => Permitted(cmd.req.params.host)
    /\ target.host = cmd.req.params.host
    /\ \A e \in tried : e.host = target.host /\ e.port = target.port

\* The panel lets a source be added on the strength of its test.  With nothing
\* changed since, `source add` of the tested request is refused only for its
\* name (which a test does not check), and attaches what was tested.
TestedSourcesAreAccepted ==
  (passed # None /\ Finished /\ steady /\ cmd.op = "add" /\ cmd.req = passed.req) =>
      \/ reply = "ok" /\ target = passed.target
      \/ reply = "INVALID_NAME" /\ cmd.req.name \notin ValidNames

\* A refusal tells the truth: its code is about the request, or about the world
\* as it is.  In particular a file the form offers is never an invalid path - unless
\* its name is blank - and a connection has failed only when the server does not
\* listen, does not let the account in or does not list its tables, not when it merely
\* lacks TLS (postgres.go:90-100), or when the file is no database.
RefusalsAreJustified ==
  Finished =>
    LET p == cmd.req.params IN
      /\ reply = "INVALID_NAME"    => cmd.req.name \notin ValidNames
      /\ reply = "INVALID_REQUEST" => \E f \in Fields(cmd.req.type) : p[f] \in {"", " "}
      /\ reply = "INVALID_PORT"    => p.port \notin DOMAIN Numeral \/ Numeral[p.port] \notin PortNumbers
      /\ (reply = "HOST_NOT_ALLOWED" /\ steady)  => ~ Permitted(p.host)
      /\ (reply = "INVALID_PATH" /\ steady)      =>
           p.path = <<" ">> \/ EvalSymlinks(UserFiles) \o p.path \notin ListedFiles
      /\ (reply = "CONNECTION_FAILED" /\ steady) =>
           IF cmd.req.type \in Network
             THEN LET s == server[Lower[p.host]] IN
                    Numeral[p.port] \notin s.ports \/ Account(p) \notin s.logins \/ ~ s.lists
             ELSE ~ disk[params.path].lists

\* What passed Validate is fit for use: nothing a plan could still refuse but
\* the name, and a SQLite path that leads, unless the disk has changed since, to a
\* regular file inside user_files with no link left in it.
AcceptedSourcesAreWellFormed ==
  params # None =>
    IF cmd.req.type \in Network
      THEN /\ \A f \in Required(cmd.req.type) : params[f] \notin {"", " "}
           /\ cmd.req.name \in ValidNames => PlanRefusal(cmd.req.name, cmd.req.type, params) = "ok"
      ELSE steady =>
           /\ IsStrictPrefix(EvalSymlinks(UserFiles), params.path)
           /\ disk[params.path].kind = "file"
           /\ \A i \in 1..Len(params.path) : Kind(SubSeq(params.path, 1, i)) # "link"
=============================================================================
