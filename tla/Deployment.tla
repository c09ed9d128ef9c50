----------------------------- MODULE Deployment -----------------------------
(***************************************************************************)
(* Setting the stack up: `fedctl install`, `up` and `down` on the host,    *)
(* run one after the other, each from a shell with an environment of its   *)
(* own.                                                                    *)
(*                                                                         *)
(* A password ends up in up to five places: .env, the environment of the   *)
(* fedctl process, the two containers Compose starts with values of both,  *)
(* and Superset's metadata database, which is outside of the stack and     *)
(* outlives it.                                                            *)
(***************************************************************************)
EXTENDS Naturals

CONSTANTS
  Uris,            \* PostgreSQL databases that Superset's metadata can be in
  Sqlite,          \* a URI of another kind
  Typed,           \* a password an operator types
  Shells,          \* what the shells fedctl is run from export
  MaxGenerations,  \* bound: how often secrets are generated
  MaxMishaps,      \* bound: what goes wrong, and edits by hand
  None

\* The keys of .env that matter: SQLALCHEMY_DATABASE_URI, SUPERSET_ADMIN_PASSWORD,
\* FEDCTL_ADMIN_PASSWORD and SUPERSET_CH_PASSWORD.
Keys  == {"uri", "admin", "fed", "bi"}
Blank == [k \in Keys |-> None]

Secrets == 1 .. MaxGenerations \cup {Typed}

\* What a key can be set to; secrets are numbered by when they were generated.
Kind(k)  == {None} \cup IF k = "uri" THEN Uris \cup {Sqlite} ELSE Secrets
Settings == {s \in [Keys -> UNION {Kind(k) : k \in Keys}] : \A k \in Keys : s[k] \in Kind(k)}

\* What the containers are created with.
HubConfigs      == [fed: Secrets, bi: Secrets, own: Secrets \cup {None}]
SupersetConfigs == [uri: Kind("uri") \ {None}, fed: Secrets \cup {None}]

\* A shell can export any of the keys: what it exports comes before .env.
ASSUME ShellsAssumption == Shells \subseteq Settings /\ Blank \in Shells
ASSUME BoundsAssumption == MaxGenerations \in Nat \ {0} /\ MaxMishaps \in Nat
ASSUME ValuesAssumption ==
  /\ None \notin Uris \cup Secrets \cup {Sqlite} \cup Settings \cup HubConfigs \cup SupersetConfigs
  /\ Sqlite \notin Uris

VARIABLES
  file,         \* .env, or None
  shell,        \* what the shell of the install exports, Blank for other commands
  env,          \* the environment of the process
  command, pc, reply,
  hub,          \* the ClickHouse container's passwords: the two the server accepts, fedctl's own
  superset,     \* the Superset container's metadata URI and fedctl's password
  running,      \* the containers that run
  metadata,     \* the admin's password and the hub's in each metadata database
  generation,   \* how often secrets have been generated
  mishaps,      \* history: what has gone wrong or was done by hand
  offered,      \* history: Superset's passwords at the hubs that have come up healthy
  written       \* history: what this install wrote

host    == <<file, shell, env>>
stack   == <<hub, superset, running, metadata>>
history == <<generation, offered, written>>
vars    == <<host, command, pc, reply, stack, mishaps, history>>

Commands ==
  [name: {"install"}, force: BOOLEAN, yes: BOOLEAN, skipUp: BOOLEAN]
    \cup [name: {"up", "down"}, force: {FALSE}, yes: {FALSE}, skipUp: {FALSE}]

Containers == {"clickhouse", "superset"}

Mishap == mishaps < MaxMishaps /\ mishaps' = mishaps + 1
AllWell == UNCHANGED mishaps

Goto(label)    == pc' = label /\ UNCHANGED reply
Return(answer) == pc' = "idle" /\ reply' = answer
Fails          == Return("error")
----------------------------------------------------------------------------
(***************************************************************************)
(* The environment                                                         *)
(***************************************************************************)
\* loadDotEnv: what is set already stays.
LoadDotEnv(e, f) == [k \in Keys |-> IF e[k] = None /\ f # None THEN f[k] ELSE e[k]]

Start(c, s) ==
  /\ pc = "idle"
  /\ c.force => generation < MaxGenerations
  /\ command' = c
  /\ shell' = IF c.name = "install" THEN s ELSE Blank
  /\ written' = Blank
  /\ env' = LoadDotEnv(s, file)
  /\ pc' = CASE c.name = "install" -> "env file" [] c.name = "up" -> "validate" [] OTHER -> "down"
  /\ reply' = "none"
  /\ UNCHANGED <<file, stack, mishaps, generation, offered>>

\* resolveEnvValues: the URI and the admin's password come from the environment or
\* from prompts, the others are generated.
Resolved ==
  LET g == generation + 1
      Given(k, answers) ==
        IF command.yes THEN {env[k]} ELSE answers IN
  {[k \in Keys |-> CASE k = "uri" -> u [] k = "admin" -> a [] OTHER -> g] :
     u \in Given("uri", Uris) \cap Uris,
     a \in {IF v = None THEN g ELSE v : v \in Given("admin", {None, Typed})}}

\* writeEnvFile.  A write that fails, or whose process dies, leaves the file empty.
WriteEnvFile ==
  \/ /\ file' \in Resolved
     /\ written' = file'
     /\ generation' = generation + 1
     /\ Goto("load") /\ AllWell
  \/ /\ Resolved # {} /\ Mishap
     /\ file' = Blank
     /\ UNCHANGED <<written, generation>>
     /\ Return("error") \/ Return("killed")

EnvFile ==
  /\ pc = "env file"
  /\ \/ /\ file # None /\ ~command.force
        /\ Goto("load") /\ AllWell
        /\ UNCHANGED <<file, history>>
     \/ /\ file = None \/ command.force
        /\ WriteEnvFile
        /\ UNCHANGED offered
     \/ /\ \/ (file = None \/ command.force) /\ Resolved = {} /\ AllWell
           \/ Mishap
        /\ Fails
        /\ UNCHANGED <<file, history>>
  /\ UNCHANGED <<shell, env, command, stack>>

Load ==
  /\ pc = "load"
  /\ env' = LoadDotEnv(env, file)
  /\ Goto("preflight") /\ AllWell
  /\ UNCHANGED <<file, shell, command, stack, history>>

\* An unset URI is not checked.
Passes == env["uri"] # Sqlite

Preflight ==
  /\ pc = "preflight"
  /\ \/ /\ Passes /\ AllWell
        /\ \/ ~command.skipUp /\ Goto("validate")
           \/ (command.skipUp \/ ~command.yes) /\ Return("prepared")
     \/ /\ (~Passes /\ AllWell) \/ Mishap
        /\ Fails
  /\ UNCHANGED <<host, command, stack, history>>
----------------------------------------------------------------------------
(***************************************************************************)
(* up                                                                      *)
(***************************************************************************)
\* Mutant: the URI is not looked at.
Validate_Nothing ==
  /\ pc = "validate"
  /\ \/ AllWell /\ Goto("compose")
     \/ Mishap /\ Fails
  /\ UNCHANGED <<host, command, stack, history>>

Validate ==
  /\ pc = "validate"
  /\ \/ env["uri"] \in Uris /\ AllWell /\ Goto("compose")
     \/ ((env["uri"] \notin Uris /\ AllWell) \/ Mishap) /\ Fails
  /\ UNCHANGED <<host, command, stack, history>>

\* Compose puts the process's environment before .env where compose.yaml names a
\* variable; env_file hands .env's values to the containers as they are.
Interpolated(k) == IF env[k] # None THEN env[k] ELSE file[k]
Startable == file # None /\ \A k \in {"uri", "fed", "bi"} : Interpolated(k) # None

HubConfig      == [fed |-> Interpolated("fed"), bi |-> Interpolated("bi"), own |-> file["fed"]]
SupersetConfig == [uri |-> Interpolated("uri"), fed |-> file["fed"]]

\* `fedctl check clickhouse` in the container.
Healthy(h) == h.own = h.fed

\* One that does not become healthy keeps Superset from starting; an old Superset
\* may run on.
Compose ==
  /\ pc = "compose"
  /\ \/ /\ Startable /\ Healthy(HubConfig)
        /\ hub' = HubConfig /\ superset' = SupersetConfig
        /\ offered' = offered \cup {HubConfig.bi}
        /\ running' = Containers
        /\ Goto("wait") /\ AllWell
     \/ /\ Startable /\ ((~Healthy(HubConfig) /\ AllWell) \/ Mishap)
        /\ hub' = HubConfig /\ superset' \in {superset, SupersetConfig}
        /\ running' \in {{"clickhouse"}, {"clickhouse"} \cup running}
        /\ Fails
        /\ UNCHANGED offered
     \/ /\ (~Startable /\ AllWell) \/ Mishap
        /\ Fails
        /\ UNCHANGED <<hub, superset, running, offered>>
  /\ UNCHANGED <<host, command, metadata, generation, written>>

\* compose ps lists the containers that run; Superset may be gone by now.
AllHealthy == running # {} /\ ("clickhouse" \in running => Healthy(hub))

WaitHealthy ==
  /\ pc = "wait"
  /\ \/ AllHealthy /\ Goto("upgrade") /\ AllWell
     \/ ((~AllHealthy /\ AllWell) \/ Mishap) /\ Fails
  /\ UNCHANGED <<host, command, stack, history>>

\* docker compose exec in the Superset container.
Exec(next) ==
  /\ \/ "superset" \in running /\ Goto(next) /\ AllWell
     \/ (("superset" \notin running /\ AllWell) \/ Mishap) /\ Fails
  /\ UNCHANGED <<host, command, stack, history>>

Meta == metadata[superset.uri]

Upgrade == pc = "upgrade" /\ Exec("create admin")
InitRoles == pc = "init" /\ Exec("login")

\* Mutant: a user that exists is an error.
CreateAdmin_Fatal ==
  /\ pc = "create admin"
  /\ \/ /\ "superset" \in running /\ env["admin"] # None /\ Meta.admin = None
        /\ metadata' = [metadata EXCEPT ![superset.uri].admin = env["admin"]]
        /\ Goto("init") /\ AllWell
     \/ /\ "superset" \notin running \/ env["admin"] = None \/ Meta.admin # None
        /\ Fails /\ AllWell
        /\ UNCHANGED metadata
     \/ Mishap /\ Goto("init") /\ UNCHANGED metadata
  /\ UNCHANGED <<host, command, hub, superset, running, history>>

\* Its failure is not looked at: the common one is that the user exists.
CreateAdmin ==
  /\ pc = "create admin"
  /\ Goto("init")
  /\ \/ /\ "superset" \in running /\ env["admin"] # None /\ Meta.admin = None
        /\ metadata' = [metadata EXCEPT ![superset.uri].admin = env["admin"]]
        /\ AllWell
     \/ /\ "superset" \notin running \/ env["admin"] = None \/ Meta.admin # None
        /\ UNCHANGED metadata
        /\ AllWell
     \/ Mishap /\ UNCHANGED metadata
  /\ UNCHANGED <<host, command, hub, superset, running, history>>

\* Logging in and fetching the CSRF token.
LoginAccepted == "superset" \in running /\ env["admin"] # None /\ Meta.admin = env["admin"]

Login ==
  /\ pc = "login"
  /\ \/ LoginAccepted /\ Goto("create connection") /\ AllWell
     \/ ((~LoginAccepted /\ AllWell) \/ Mishap) /\ Fails
  /\ UNCHANGED <<host, command, stack, history>>

\* Superset tries a new connection before it stores it.
Opens == running = Containers /\ env["bi"] = hub.bi
Create == metadata' = [metadata EXCEPT ![superset.uri].connection = env["bi"]]

\* Mutant: any answer of Superset's is a success.
CreateConnection_Unchecked ==
  /\ pc = "create connection"
  /\ \/ Opens /\ Meta.connection = None /\ Create /\ AllWell
     \/ ~(Opens /\ Meta.connection = None) /\ AllWell /\ UNCHANGED metadata
     \/ Mishap /\ UNCHANGED metadata
  /\ Return("ok")
  /\ UNCHANGED <<host, command, hub, superset, running, history>>

CreateConnection ==
  /\ pc = "create connection"
  /\ \/ /\ "superset" \in running /\ Meta.connection # None
        /\ Return("ok") /\ AllWell
        /\ UNCHANGED metadata
     \/ /\ Opens /\ Meta.connection = None
        /\ Create
        /\ (Return("ok") /\ AllWell) \/ (Fails /\ Mishap)
     \/ /\ \/ "superset" \notin running /\ AllWell
           \/ Meta.connection = None /\ ~Opens /\ AllWell
           \/ Mishap
        /\ Fails
        /\ UNCHANGED metadata
  /\ UNCHANGED <<host, command, hub, superset, running, history>>
----------------------------------------------------------------------------
\* Mutant: the containers are stopped and not removed.
Down_Running ==
  /\ pc = "down"
  /\ \/ /\ Startable
        /\ hub' = None /\ superset' = None
        /\ Return("down") /\ AllWell
     \/ /\ (~Startable /\ AllWell) \/ Mishap
        /\ Fails
        /\ UNCHANGED <<hub, superset>>
  /\ UNCHANGED <<host, command, running, metadata, history>>

\* Compose reads compose.yaml, and with it .env, before it takes anything down.
Down ==
  /\ pc = "down"
  /\ \/ /\ Startable
        /\ hub' = None /\ superset' = None /\ running' = {}
        /\ Return("down") /\ AllWell
     \/ /\ (~Startable /\ AllWell) \/ Mishap
        /\ Fails
        /\ UNCHANGED <<hub, superset, running>>
  /\ UNCHANGED <<host, command, metadata, history>>

\* Ctrl-C, or the terminal is closed.
Kill ==
  /\ pc # "idle" /\ Mishap
  /\ Return("killed")
  /\ UNCHANGED <<host, command, stack, history>>

\* A container ends by itself.
Exit(c) ==
  /\ c \in running /\ Mishap
  /\ running' = running \ {c}
  /\ UNCHANGED <<host, command, pc, reply, hub, superset, metadata, history>>

\* What an operator writes for a key by hand.
ByHand(k) == IF k = "uri" THEN Uris \cup {Sqlite} ELSE {Typed}

\* The operator changes a key of .env.
Edit(k, v) ==
  /\ file # None /\ file[k] # v /\ Mishap
  /\ file' = [file EXCEPT ![k] = v]
  /\ UNCHANGED <<shell, env, command, pc, reply, stack, history>>

Step ==
  \/ EnvFile \/ Load \/ Preflight
  \/ Validate \/ Compose \/ WaitHealthy \/ Upgrade \/ CreateAdmin \/ InitRoles
  \/ Login \/ CreateConnection
  \/ Down

Init ==
  /\ file = None
  /\ shell = Blank /\ env = Blank
  /\ command = [name |-> "down", force |-> FALSE, yes |-> FALSE, skipUp |-> FALSE]
  /\ pc = "idle" /\ reply = "none"
  /\ hub = None /\ superset = None /\ running = {}
  /\ metadata = [u \in Uris |-> [admin |-> None, connection |-> None]]
  /\ generation = 0 /\ mishaps = 0 /\ offered = {}
  /\ written = Blank

Next ==
  \/ \E c \in Commands, s \in Shells : Start(c, s)
  \/ Step
  \/ Kill
  \/ \E c \in Containers : Exit(c)
  \/ \E k \in Keys : \E v \in ByHand(k) : Edit(k, v)

Spec == Init /\ [][Next]_vars

\* Commands go on, and the operator keeps trying `fedctl install --yes`.
Install == [name |-> "install", force |-> FALSE, yes |-> TRUE, skipUp |-> FALSE]
FairSpec == Spec /\ WF_vars(Step) /\ SF_vars(Start(Install, Blank))
----------------------------------------------------------------------------
(***************************************************************************)
(* Properties                                                              *)
(***************************************************************************)
Labels == {"idle", "env file", "load", "preflight", "validate", "compose", "wait", "upgrade",
           "create admin", "init", "login", "create connection", "down"}

\* The state has its shape; what runs has been created, and past Compose it has.
TypeOK ==
  /\ file \in Settings \cup {None}
  /\ {shell, env, written} \subseteq Settings
  /\ command \in Commands
  /\ pc \in Labels
  /\ reply \in {"none", "ok", "prepared", "down", "error", "killed"}
  /\ hub \in HubConfigs \cup {None}
  /\ superset \in SupersetConfigs \cup {None}
  /\ running \subseteq Containers
  /\ metadata \in [Uris -> [admin: Secrets \cup {None}, connection: Secrets \cup {None}]]
  /\ generation \in 0 .. MaxGenerations
  /\ mishaps \in 0 .. MaxMishaps
  /\ offered \subseteq Secrets
  /\ pc \in {"wait", "upgrade", "create admin", "init", "login", "create connection"} =>
       hub # None /\ superset # None
  /\ "clickhouse" \in running => hub # None
  /\ "superset" \in running => superset # None

\* "Failing to start is better than starting wrongly": whatever .env says by the
\* time Compose reads it, the URI the Superset container gets is the one up checked.
SupersetRunsOnPostgres == superset # None => superset.uri \in Uris

\* After an up that reports success, the panel's fedctl can open the hub, the admin can
\* log in, and Superset's connection is there with a password that a healthy hub has
\* had: the hub's own, as long as the hub has had just one.  (An override for a single
\* up, an edit or a forced install gives it another; "already exists" then counts as
\* success and the connection keeps the old one.)  This holds whatever earlier runs left
\* behind when they failed or were killed, and whatever their shells exported.
Agreement ==
  /\ hub # None /\ superset # None
  /\ hub.own = hub.fed /\ superset.fed = hub.fed
  /\ Meta.admin = env["admin"]
  /\ Meta.connection \in offered
  /\ offered = {hub.bi} => Meta.connection = hub.bi

SuccessMeansAgreement == reply = "ok" => Agreement

\* "Safe to re-run": once nothing goes wrong any more, .env is whole, and Superset's
\* admin, if its metadata has one, has the password that .env says, running install
\* again brings the stack up, from wherever earlier runs stopped.
Whole == file # None /\ file["uri"] \in Uris /\ \A k \in Keys : file[k] # None
AdminAsInEnvFile == metadata[file["uri"]].admin \in {None, file["admin"]}

RerunsSucceed == <>[](Whole /\ AdminAsInEnvFile) => []<>(reply = "ok")
----------------------------------------------------------------------------
(***************************************************************************)
(* What a comment says of install.                                         *)
(***************************************************************************)
\* .env is loaded again so that preflight and up see the file just written "within
\* this same process": all but what the shell exports.
InstallSeesTheFileItWrote ==
  pc = "preflight" /\ file = written =>
    \A k \in Keys : shell[k] = None => env[k] = written[k]
=============================================================================
