-------------------------- MODULE DeploymentProofs --------------------------
(***************************************************************************)
(* Theorems about Deployment.                                              *)
(***************************************************************************)
EXTENDS Deployment, TLAPS

USE DEF host, stack, history

\* What the guards rely on: an install that writes .env has a generation left, and
\* Compose is run with a URI that up has accepted.
Control ==
  /\ file = None => generation = 0
  /\ pc = "env file" /\ command.force => generation < MaxGenerations
  /\ pc = "compose" => env["uri"] \in Uris

Inv == TypeOK /\ Control /\ SupersetRunsOnPostgres
----------------------------------------------------------------------------
(***************************************************************************)
(* Settings                                                                *)
(***************************************************************************)
LEMMA SettingsValue ==
  ASSUME NEW s \in Settings, NEW k \in Keys
  PROVE  s[k] \in Kind(k)
BY DEF Settings

LEMMA SettingsMember ==
  ASSUME NEW s, s = [k \in Keys |-> s[k]], \A k \in Keys : s[k] \in Kind(k)
  PROVE  s \in Settings
<1>1. \A k \in Keys : s[k] \in UNION {Kind(j) : j \in Keys}
  OBVIOUS
<1>2. s \in [Keys -> UNION {Kind(j) : j \in Keys}]
  BY <1>1
<1>3. QED BY <1>2 DEF Settings

LEMMA BlankType == Blank \in Settings
<1>1. Blank = [k \in Keys |-> Blank[k]] /\ \A k \in Keys : Blank[k] \in Kind(k)
  BY DEF Blank, Kind
<1>2. QED BY <1>1, SettingsMember

\* Loading .env gives every key a value of its kind.
LEMMA LoadType ==
  ASSUME NEW e \in Settings, NEW f \in Settings \cup {None}
  PROVE  LoadDotEnv(e, f) \in Settings
<1> DEFINE l == LoadDotEnv(e, f)
<1>1. l = [k \in Keys |-> l[k]]
  BY DEF LoadDotEnv
<1>2. ASSUME NEW k \in Keys PROVE l[k] \in Kind(k)
  <2>1. e[k] \in Kind(k)
    BY SettingsValue
  <2>2. f # None => f[k] \in Kind(k)
    BY SettingsValue
  <2>3. QED BY <2>1, <2>2 DEF LoadDotEnv
<1> HIDE DEF l
<1>3. l \in Settings
  BY <1>1, <1>2, SettingsMember
<1>4. QED BY <1>3 DEF l

\* What an install writes has a value of its kind for every key.
LEMMA ResolvedType ==
  ASSUME env \in Settings, generation \in Nat, generation < MaxGenerations, NEW f \in Resolved
  PROVE  f \in Settings
<1> DEFINE g == generation + 1
<1>1. g \in Secrets
  BY BoundsAssumption DEF Secrets
<1>2. PICK u \in Uris,
           a \in {IF v = None THEN g ELSE v :
                    v \in IF command.yes THEN {env["admin"]} ELSE {None, Typed}} :
        f = [k \in Keys |-> CASE k = "uri" -> u [] k = "admin" -> a [] OTHER -> g]
  BY DEF Resolved
<1>3. env["admin"] \in Secrets \cup {None}
  BY SettingsValue DEF Keys, Kind
<1>4. a \in Secrets
  BY <1>1, <1>2, <1>3 DEF Secrets
<1> HIDE DEF g
<1>5. f = [k \in Keys |-> f[k]]
  BY <1>2
<1>6. \A k \in Keys : f[k] \in Kind(k)
  BY <1>1, <1>2, <1>4 DEF Keys, Kind
<1>7. QED BY <1>5, <1>6, SettingsMember
----------------------------------------------------------------------------
(***************************************************************************)
(* Types, and the URI that Superset runs on                                *)
(***************************************************************************)
LEMMA InitInv == Init => Inv
<1> SUFFICES ASSUME Init PROVE Inv
  OBVIOUS
<1>1. Blank \in Settings
  BY BlankType
<1>2. command \in Commands
  BY DEF Init, Commands
<1>3. /\ metadata \in [Uris -> [admin: Secrets \cup {None}, connection: Secrets \cup {None}]]
      /\ generation \in 0 .. MaxGenerations /\ mishaps \in 0 .. MaxMishaps
  <2>1. metadata \in [Uris -> [admin: Secrets \cup {None}, connection: Secrets \cup {None}]]
    BY DEF Init
  <2>2. QED BY <2>1, BoundsAssumption DEF Init
<1>5. TypeOK
  BY <1>1, <1>2, <1>3 DEF Init, TypeOK, Labels
<1>4. Control /\ SupersetRunsOnPostgres
  BY DEF Init, Control, SupersetRunsOnPostgres
<1>6. QED BY <1>4, <1>5 DEF Inv

\* Counting.
LEMMA MishapsType ==
  ASSUME Inv, AllWell \/ Mishap
  PROVE  mishaps' \in 0 .. MaxMishaps
<1>1. mishaps \in 0 .. MaxMishaps
  BY DEF Inv, TypeOK
<1>2. QED BY <1>1, BoundsAssumption DEF AllWell, Mishap

LEMMA BelowTheBound ==
  ASSUME NEW g \in 0 .. MaxGenerations, g = 0 \/ g < MaxGenerations
  PROVE  g \in Nat /\ g < MaxGenerations
BY BoundsAssumption

LEMMA GenerationsLeft ==
  ASSUME Inv, pc = "env file", file = None \/ command.force
  PROVE  generation \in Nat /\ generation < MaxGenerations
<1>1. generation \in 0 .. MaxGenerations
  BY DEF Inv, TypeOK
<1>2. generation = 0 \/ generation < MaxGenerations
  BY DEF Inv, Control
<1>3. QED BY <1>1, <1>2, BelowTheBound

\* Most steps touch no more than the control state and the count of mishaps.
LEMMA QuietInv ==
  ASSUME Inv, UNCHANGED <<host, command, stack, history>>,
         AllWell \/ Mishap,
         pc' \in Labels, reply' \in {"none", "ok", "prepared", "down", "error", "killed"},
         pc' # "env file",
         pc' = "compose" => env["uri"] \in Uris,
         pc' \in {"wait", "upgrade", "create admin", "init", "login", "create connection"} =>
           hub # None /\ superset # None
  PROVE  Inv'
<1>1. mishaps' \in 0 .. MaxMishaps
  BY MishapsType
<1>2. TypeOK'
  BY <1>1 DEF Inv, TypeOK
<1>3. Control' /\ SupersetRunsOnPostgres'
  BY DEF Inv, Control, SupersetRunsOnPostgres
<1>4. QED BY <1>2, <1>3 DEF Inv

LEMMA StartInv ==
  ASSUME Inv, NEW c \in Commands, NEW s \in Shells, Start(c, s)
  PROVE  Inv'
<1>1. s \in Settings
  BY ShellsAssumption
<1>2. env' \in Settings
  BY <1>1, LoadType DEF Inv, TypeOK, Start
<1>3. pc' \in {"env file", "validate", "down"}
  BY DEF Start
<1>4. shell' \in Settings /\ written' \in Settings
  BY <1>1, BlankType DEF Start
<1>5. TypeOK'
  BY <1>2, <1>3, <1>4 DEF Inv, TypeOK, Start, Labels
<1>6. Control'
  BY <1>3 DEF Inv, Control, Start
<1>7. SupersetRunsOnPostgres'
  BY DEF Inv, SupersetRunsOnPostgres, Start
<1>8. QED BY <1>5, <1>6, <1>7 DEF Inv

\* Whoever writes .env has a generation of secrets left.
LEMMA EnvFileInv ==
  ASSUME Inv, EnvFile
  PROVE  Inv'
<1>1. mishaps' \in 0 .. MaxMishaps
  BY MishapsType DEF EnvFile, WriteEnvFile
<1>2. file = None \/ command.force => generation \in Nat /\ generation < MaxGenerations
  BY GenerationsLeft DEF EnvFile
<1>3. /\ file' \in Settings \cup {None} /\ written' \in Settings
      /\ generation' \in 0 .. MaxGenerations /\ offered' \subseteq Secrets
      /\ file' = None => generation' = 0
  <2>1. CASE (file = None \/ command.force) /\ WriteEnvFile /\ UNCHANGED offered
    <3>1. CASE file' \in Resolved /\ written' = file' /\ generation' = generation + 1
      <4>1. file' \in Settings
        BY <1>2, <2>1, <3>1, ResolvedType DEF Inv, TypeOK
      <4>2. file' # None
        BY <4>1, ValuesAssumption
      <4>3. generation' \in 0 .. MaxGenerations
        BY <1>2, <2>1, <3>1, BoundsAssumption
      <4>4. offered' \subseteq Secrets
        BY <2>1 DEF Inv, TypeOK
      <4>5. QED BY <3>1, <4>1, <4>2, <4>3, <4>4
    <3>2. CASE file' = Blank /\ UNCHANGED <<written, generation>>
      <4>1. Blank # None
        BY BlankType, ValuesAssumption
      <4>2. QED BY <2>1, <3>2, <4>1, BlankType DEF Inv, TypeOK
    <3>3. QED BY <2>1, <3>1, <3>2 DEF WriteEnvFile
  <2>2. CASE UNCHANGED <<file, history>>
    BY <2>2 DEF Inv, TypeOK, Control
  <2>3. QED BY <2>1, <2>2 DEF EnvFile
<1>4. pc' \in {"load", "idle"} /\ reply' \in {"none", "ok", "prepared", "down", "error", "killed"}
  BY DEF EnvFile, WriteEnvFile, Goto, Return, Fails, Inv, TypeOK
<1>5. TypeOK'
  BY <1>1, <1>3, <1>4 DEF Inv, TypeOK, EnvFile, Labels
<1>6. Control' /\ SupersetRunsOnPostgres'
  BY <1>3, <1>4 DEF Inv, Control, SupersetRunsOnPostgres, EnvFile
<1>7. QED BY <1>5, <1>6 DEF Inv

LEMMA LoadInv ==
  ASSUME Inv, Load
  PROVE  Inv'
<1>1. env' \in Settings
  BY LoadType DEF Inv, TypeOK, Load
<1>2. TypeOK'
  BY <1>1 DEF Inv, TypeOK, Load, Goto, AllWell, Labels
<1>3. Control' /\ SupersetRunsOnPostgres'
  BY DEF Inv, Control, SupersetRunsOnPostgres, Load, Goto
<1>4. QED BY <1>2, <1>3 DEF Inv

LEMMA PreflightInv ==
  ASSUME Inv, Preflight
  PROVE  Inv'
<1>1. pc' \in {"validate", "idle"} /\ reply' \in {reply, "prepared", "error"}
  BY DEF Preflight, Goto, Return, Fails
<1>2. AllWell \/ Mishap
  BY DEF Preflight
<1>3. QED BY <1>1, <1>2, QuietInv DEF Preflight, Labels, Inv, TypeOK

LEMMA ValidateInv ==
  ASSUME Inv, Validate
  PROVE  Inv'
<1>1. pc' \in {"compose", "idle"} /\ reply' \in {reply, "error"}
  BY DEF Validate, Goto, Return, Fails
<1>2. (AllWell \/ Mishap) /\ (pc' = "compose" => env["uri"] \in Uris)
  BY DEF Validate, Goto, Return, Fails
<1>3. QED BY <1>1, <1>2, QuietInv DEF Validate, Labels, Inv, TypeOK

\* What up has accepted is what Compose interpolates: the process's environment
\* comes before .env.
LEMMA ConfigType ==
  ASSUME Inv, pc = "compose", Startable
  PROVE  /\ HubConfig \in HubConfigs /\ SupersetConfig \in SupersetConfigs
         /\ SupersetConfig.uri \in Uris
<1>1. env["uri"] \in Uris /\ env["uri"] # None
  BY ValuesAssumption DEF Inv, Control
<1>2. env \in Settings /\ file \in Settings
  BY DEF Inv, TypeOK, Startable
<1>3. \A k \in {"fed", "bi"} : env[k] \in Secrets \cup {None} /\ file[k] \in Secrets \cup {None}
  BY <1>2, SettingsValue DEF Keys, Kind
<1>4. \A k \in {"fed", "bi"} : Interpolated(k) \in Secrets
  BY <1>3 DEF Startable, Interpolated
<1>5. Interpolated("uri") \in Uris
  BY <1>1 DEF Interpolated
<1>6. HubConfig \in HubConfigs
  BY <1>3, <1>4 DEF HubConfig, HubConfigs
<1>7. Interpolated("uri") \in Kind("uri") \ {None}
  BY <1>5, ValuesAssumption DEF Kind
<1>8. QED BY <1>3, <1>5, <1>6, <1>7 DEF SupersetConfig, SupersetConfigs

LEMMA ComposeInv ==
  ASSUME Inv, Compose
  PROVE  Inv'
<1>1. mishaps' \in 0 .. MaxMishaps
  BY MishapsType DEF Compose
<1>2. pc' \in {"wait", "idle"} /\ reply' \in {reply, "error"}
  BY DEF Compose, Goto, Return, Fails
<1>3. /\ hub' \in HubConfigs \cup {None}
      /\ superset' \in SupersetConfigs \cup {None}
      /\ superset' # None => superset'.uri \in Uris
      /\ running' \subseteq Containers
      /\ "clickhouse" \in running' => hub' # None
      /\ "superset" \in running' => superset' # None
      /\ pc' = "wait" => hub' # None /\ superset' # None
  <2>1. CASE UNCHANGED <<hub, superset, running>> /\ pc' = "idle"
    BY <2>1 DEF Inv, TypeOK, SupersetRunsOnPostgres
  <2>2. CASE /\ Startable /\ hub' = HubConfig /\ superset' = SupersetConfig
             /\ running' = Containers
    <3>1. HubConfig # None /\ SupersetConfig # None
      BY <2>2, ConfigType, ValuesAssumption DEF Compose
    <3>2. QED BY <2>2, <3>1, ConfigType DEF Compose
  <2>3. CASE /\ Startable /\ hub' = HubConfig /\ superset' \in {superset, SupersetConfig}
             /\ running' \in {{"clickhouse"}, {"clickhouse"} \cup running}
             /\ pc' = "idle"
    <3>1. HubConfig # None /\ SupersetConfig # None
      BY <2>3, ConfigType, ValuesAssumption DEF Compose
    <3>2. QED BY <2>3, <3>1, ConfigType DEF Compose, Inv, TypeOK, SupersetRunsOnPostgres, Containers
  <2>4. QED BY <2>1, <2>2, <2>3 DEF Compose, Fails, Return
<1>4. offered' \subseteq Secrets
  <2>1. CASE Startable /\ offered' = offered \cup {HubConfig.bi}
    BY <2>1, ConfigType DEF Compose, HubConfigs, Inv, TypeOK
  <2>2. CASE UNCHANGED offered
    BY <2>2 DEF Inv, TypeOK
  <2>3. QED BY <2>1, <2>2 DEF Compose
<1>5. TypeOK'
  BY <1>1, <1>2, <1>3, <1>4 DEF Inv, TypeOK, Compose, Labels
<1>6. Control' /\ SupersetRunsOnPostgres'
  BY <1>2, <1>3 DEF Inv, Control, SupersetRunsOnPostgres, Compose
<1>7. QED BY <1>5, <1>6 DEF Inv

\* The steps of up after Compose, the wait included, neither create containers nor
\* read .env.
LEMMA ExecInv ==
  ASSUME Inv, hub # None, superset # None,
         NEW next \in {"upgrade", "create admin", "init", "login", "create connection"}, Exec(next)
  PROVE  Inv'
<1>1. pc' \in {next, "idle"} /\ reply' \in {reply, "error"} /\ (AllWell \/ Mishap)
  BY DEF Exec, Goto, Return, Fails
<1>2. QED BY <1>1, QuietInv DEF Exec, Labels, Inv, TypeOK

LEMMA WaitHealthyInv ==
  ASSUME Inv, WaitHealthy
  PROVE  Inv'
<1>1. pc' \in {"upgrade", "idle"} /\ reply' \in {reply, "error"} /\ (AllWell \/ Mishap)
  BY DEF WaitHealthy, Goto, Return, Fails
<1>2. hub # None /\ superset # None
  BY DEF Inv, TypeOK, WaitHealthy
<1>3. QED BY <1>1, <1>2, QuietInv DEF WaitHealthy, Labels, Inv, TypeOK

LEMMA LoginInv ==
  ASSUME Inv, Login
  PROVE  Inv'
<1>1. pc' \in {"create connection", "idle"} /\ reply' \in {reply, "error"} /\ (AllWell \/ Mishap)
  BY DEF Login, Goto, Return, Fails
<1>2. hub # None /\ superset # None
  BY DEF Inv, TypeOK, Login
<1>3. QED BY <1>1, <1>2, QuietInv DEF Login, Labels, Inv, TypeOK

\* Superset's metadata gets passwords and nothing else.
LEMMA MetadataInv ==
  ASSUME Inv, CreateAdmin \/ CreateConnection
  PROVE  Inv'
<1>1. mishaps' \in 0 .. MaxMishaps
  BY MishapsType DEF CreateAdmin, CreateConnection
<1>2. hub # None /\ superset # None
  BY DEF Inv, TypeOK, CreateAdmin, CreateConnection
<1>3. superset.uri \in Uris /\ hub \in HubConfigs
  BY <1>2 DEF Inv, TypeOK, SupersetRunsOnPostgres
<1>4. env["admin"] \in Secrets \cup {None} /\ env["bi"] \in Secrets \cup {None}
  BY SettingsValue DEF Inv, TypeOK, Keys, Kind
<1>5. metadata \in [Uris -> [admin: Secrets \cup {None}, connection: Secrets \cup {None}]]
  BY DEF Inv, TypeOK
<1>6. metadata' \in [Uris -> [admin: Secrets \cup {None}, connection: Secrets \cup {None}]]
  <2>1. CASE metadata' = [metadata EXCEPT ![superset.uri].admin = env["admin"]]
    BY <1>3, <1>4, <1>5, <2>1
  <2>2. CASE metadata' = [metadata EXCEPT ![superset.uri].connection = env["bi"]]
    BY <1>3, <1>4, <1>5, <2>2
  <2>3. CASE UNCHANGED metadata
    BY <1>5, <2>3
  <2>4. QED BY <2>1, <2>2, <2>3 DEF CreateAdmin, CreateConnection, Create
<1>7. pc' \in {"init", "idle"} /\ reply' \in {reply, "ok", "error"}
  BY DEF CreateAdmin, CreateConnection, Goto, Return, Fails
<1>8. UNCHANGED <<host, command, hub, superset, running, history>>
  BY DEF CreateAdmin, CreateConnection
<1>9. TypeOK'
  BY <1>1, <1>2, <1>6, <1>7, <1>8 DEF Inv, TypeOK, Labels
<1>10. Control' /\ SupersetRunsOnPostgres'
  BY <1>7, <1>8 DEF Inv, Control, SupersetRunsOnPostgres
<1>11. QED BY <1>9, <1>10 DEF Inv

LEMMA DownInv ==
  ASSUME Inv, Down
  PROVE  Inv'
<1>1. mishaps' \in 0 .. MaxMishaps
  BY MishapsType DEF Down
<1>2. pc' = "idle" /\ reply' \in {"down", "error"}
  BY DEF Down, Return, Fails
<1>3. TypeOK'
  BY <1>1, <1>2 DEF Inv, TypeOK, Down, Labels
<1>4. Control' /\ SupersetRunsOnPostgres'
  BY <1>2 DEF Inv, Control, SupersetRunsOnPostgres, Down
<1>5. QED BY <1>3, <1>4 DEF Inv

LEMMA KillInv ==
  ASSUME Inv, Kill
  PROVE  Inv'
BY QuietInv DEF Kill, Return, Labels

LEMMA ExitInv ==
  ASSUME Inv, NEW c \in Containers, Exit(c)
  PROVE  Inv'
<1>1. mishaps' \in 0 .. MaxMishaps
  BY MishapsType DEF Exit
<1>2. TypeOK'
  BY <1>1 DEF Inv, TypeOK, Exit
<1>3. Control' /\ SupersetRunsOnPostgres'
  BY DEF Inv, Control, SupersetRunsOnPostgres, Exit
<1>4. QED BY <1>2, <1>3 DEF Inv

LEMMA EditType ==
  ASSUME NEW f \in Settings, NEW k \in Keys, NEW v \in ByHand(k)
  PROVE  [f EXCEPT ![k] = v] \in Settings
<1> DEFINE g == [f EXCEPT ![k] = v]
<1>1. f = [j \in Keys |-> f[j]]
  BY DEF Settings
<1>2. g = [j \in Keys |-> g[j]] /\ \A j \in Keys : g[j] = IF j = k THEN v ELSE f[j]
  BY <1>1
<1>3. v \in Kind(k)
  BY DEF ByHand, Kind, Secrets
<1>4. \A j \in Keys : g[j] \in Kind(j)
  BY <1>2, <1>3, SettingsValue
<1> HIDE DEF g
<1>5. g \in Settings
  BY <1>2, <1>4, SettingsMember
<1>6. QED BY <1>5 DEF g

LEMMA EditInv ==
  ASSUME Inv, NEW k \in Keys, NEW v \in ByHand(k), Edit(k, v)
  PROVE  Inv'
<1>1. mishaps' \in 0 .. MaxMishaps
  BY MishapsType DEF Edit
<1>2. file' \in Settings /\ file' # None
  <2>1. file \in Settings /\ file' = [file EXCEPT ![k] = v]
    BY DEF Inv, TypeOK, Edit
  <2>2. file' \in Settings
    BY <2>1, EditType
  <2>3. QED BY <2>2, ValuesAssumption
<1>3. TypeOK'
  BY <1>1, <1>2 DEF Inv, TypeOK, Edit
<1>4. Control' /\ SupersetRunsOnPostgres'
  BY <1>2 DEF Inv, Control, SupersetRunsOnPostgres, Edit
<1>5. QED BY <1>3, <1>4 DEF Inv

LEMMA NextInv == Inv /\ [Next]_vars => Inv'
<1> SUFFICES ASSUME Inv, [Next]_vars PROVE Inv'
  OBVIOUS
<1>1. ASSUME NEW c \in Commands, NEW s \in Shells, Start(c, s) PROVE Inv'
  BY <1>1, StartInv
<1>2. CASE Step
  <2>1. CASE Upgrade \/ InitRoles
    <3>1. hub # None /\ superset # None
      BY <2>1 DEF Inv, TypeOK, Upgrade, InitRoles
    <3>2. QED BY <2>1, <3>1, ExecInv DEF Upgrade, InitRoles
  <2>2. QED
    BY <1>2, <2>1, EnvFileInv, LoadInv, PreflightInv, ValidateInv, ComposeInv, WaitHealthyInv,
       LoginInv, MetadataInv, DownInv DEF Step
<1>3. CASE Kill
  BY <1>3, KillInv
<1>4. ASSUME NEW c \in Containers, Exit(c) PROVE Inv'
  BY <1>4, ExitInv
<1>5. ASSUME NEW k \in Keys, NEW v \in ByHand(k), Edit(k, v) PROVE Inv'
  BY <1>5, EditInv
<1>6. CASE UNCHANGED vars
  BY <1>6 DEF vars, Inv, TypeOK, Control, SupersetRunsOnPostgres
<1>7. QED BY <1>1, <1>2, <1>3, <1>4, <1>5, <1>6 DEF Next

\* The host, the containers and the metadata databases keep their shapes, whatever
\* commands are run, fail or are killed.
THEOREM TypeCorrect == Spec => []TypeOK
<1>1. Inv => TypeOK
  BY DEF Inv
<1>2. QED BY InitInv, NextInv, <1>1, PTL DEF Spec

\* No Superset container is ever given a URI that up has not accepted, though .env
\* can be edited or torn between up's check and Compose's reading it.
THEOREM NeverOnSqlite == Spec => []SupersetRunsOnPostgres
<1>1. Inv => SupersetRunsOnPostgres
  BY DEF Inv
<1>2. QED BY InitInv, NextInv, <1>1, PTL DEF Spec
----------------------------------------------------------------------------
(***************************************************************************)
(* Success means agreement                                                 *)
(***************************************************************************)
Past == {"wait", "upgrade", "create admin", "init", "login", "create connection"}

\* A stack that has come up healthy has one password for fedctl.
Checked ==
  pc \in Past => hub.own = hub.fed /\ superset.fed = hub.fed /\ hub.bi \in offered

\* A connection is created with the password of a hub that has come up.
ConnectionOffered == \A u \in Uris : metadata[u].connection \in offered \cup {None}

\* The admin whose login was accepted stays who it is; a success is told at the end.
Told ==
  /\ pc = "create connection" => Meta.admin = env["admin"]
  /\ reply = "ok" => pc = "idle" /\ Agreement

Facts == Checked /\ ConnectionOffered /\ Told

SuccessInv == Inv /\ Facts

\* Steps that leave the environment, the stack and its metadata alone.
LEMMA QuietSuccess ==
  ASSUME Facts, UNCHANGED <<env, hub, superset, metadata, offered>>,
         pc' \in Past => pc \in Past,
         pc' # "create connection" \/ pc' = pc,
         reply' # "ok" \/ UNCHANGED <<pc, reply>>
  PROVE  Facts'
<1>1. Checked' /\ ConnectionOffered'
  BY DEF Facts, Checked, ConnectionOffered
<1>2. Told'
  BY DEF Facts, Told, Meta, Agreement
<1>3. QED BY <1>1, <1>2 DEF Facts

\* A process that begins, or has read .env, is not past Compose.
LEMMA EnvironmentSuccess ==
  ASSUME Facts, UNCHANGED <<hub, superset, metadata, offered>>, pc' \notin Past, reply' # "ok"
  PROVE  Facts'
BY DEF Facts, Checked, ConnectionOffered, Told, Past

LEMMA ComposeSuccess ==
  ASSUME SuccessInv, Compose
  PROVE  Facts'
<1>1. Facts /\ pc = "compose" /\ UNCHANGED <<env, metadata>>
  BY DEF SuccessInv, Compose
<1>2. pc' \in {"wait", "idle"} /\ reply' # "ok"
  BY <1>1 DEF Compose, Goto, Return, Fails, Facts, Told
<1>3. Told'
  BY <1>2 DEF Told
<1>4. ConnectionOffered'
  BY <1>1 DEF Compose, Facts, ConnectionOffered
<1>5. CASE /\ Healthy(HubConfig) /\ hub' = HubConfig /\ superset' = SupersetConfig
           /\ offered' = offered \cup {HubConfig.bi}
  <2>1. Checked'
    BY <1>5 DEF Checked, Healthy, HubConfig, SupersetConfig
  <2>2. QED BY <1>3, <1>4, <2>1 DEF Facts
<1>6. CASE pc' = "idle"
  BY <1>3, <1>4, <1>6 DEF Facts, Checked, Past
<1>7. QED BY <1>5, <1>6 DEF Compose, Fails, Return

LEMMA DownSuccess ==
  ASSUME SuccessInv, Down
  PROVE  Facts'
<1>1. Facts /\ UNCHANGED <<metadata, offered>>
  BY DEF SuccessInv, Down
<1>2. pc' = "idle" /\ reply' # "ok"
  BY DEF Down, Return, Fails
<1>3. QED BY <1>1, <1>2 DEF Facts, Checked, ConnectionOffered, Told, Past

LEMMA LoginSuccess ==
  ASSUME SuccessInv, Login
  PROVE  Facts'
<1>1. Facts /\ UNCHANGED <<env, hub, superset, metadata, offered>> /\ pc = "login"
  BY DEF SuccessInv, Login
<1>2. reply' # "ok" /\ (pc' = "create connection" => Meta.admin = env["admin"])
  BY <1>1 DEF Login, LoginAccepted, Goto, Return, Fails, Facts, Told
<1>3. Told'
  BY <1>1, <1>2 DEF Told, Meta
<1>4. Checked' /\ ConnectionOffered'
  BY <1>1 DEF Facts, Checked, ConnectionOffered, Past
<1>5. QED BY <1>3, <1>4 DEF Facts

LEMMA CreateAdminSuccess ==
  ASSUME SuccessInv, CreateAdmin
  PROVE  Facts'
<1>1. /\ Facts /\ UNCHANGED <<env, hub, superset, offered>>
      /\ pc = "create admin" /\ pc' = "init"
  BY DEF SuccessInv, CreateAdmin, Goto
<1>2. reply' # "ok"
  BY <1>1 DEF CreateAdmin, Goto, Facts, Told
<1>3. ASSUME NEW u \in Uris PROVE metadata'[u].connection = metadata[u].connection
  <2>1. metadata \in [Uris -> [admin: Secrets \cup {None}, connection: Secrets \cup {None}]]
    BY DEF SuccessInv, Inv, TypeOK
  <2>2. CASE metadata' = [metadata EXCEPT ![superset.uri].admin = env["admin"]]
    BY <2>1, <2>2
  <2>3. QED BY <2>2 DEF CreateAdmin
<1>4. Checked' /\ ConnectionOffered'
  BY <1>1, <1>3 DEF Facts, Checked, ConnectionOffered, Past
<1>5. Told'
  BY <1>1, <1>2 DEF Told
<1>6. QED BY <1>4, <1>5 DEF Facts

\* The connection that is there, or the one that is made, has been offered.
LEMMA CreateConnectionSuccess ==
  ASSUME SuccessInv, CreateConnection
  PROVE  Facts'
<1>1. /\ Facts /\ UNCHANGED <<env, hub, superset, offered>>
      /\ pc = "create connection" /\ pc' = "idle"
  BY DEF SuccessInv, CreateConnection, Return, Fails
<1>2. hub # None /\ superset # None /\ superset.uri \in Uris
  BY <1>1 DEF SuccessInv, Inv, TypeOK, SupersetRunsOnPostgres
<1>3. hub.own = hub.fed /\ superset.fed = hub.fed /\ hub.bi \in offered /\ Meta.admin = env["admin"]
  BY <1>1 DEF Facts, Checked, Past, Told
<1>4. metadata \in [Uris -> [admin: Secrets \cup {None}, connection: Secrets \cup {None}]]
  BY DEF SuccessInv, Inv, TypeOK
<1>5. ASSUME NEW u \in Uris
      PROVE  /\ metadata'[u].admin = metadata[u].admin
             /\ metadata'[u].connection \in {metadata[u].connection, hub.bi}
  <2>1. CASE Opens /\ Create
    <3>1. metadata' = [metadata EXCEPT ![superset.uri].connection = hub.bi]
      BY <2>1 DEF Opens, Create
    <3>2. QED BY <1>4, <3>1
  <2>2. CASE UNCHANGED metadata
    BY <2>2
  <2>3. QED BY <2>1, <2>2 DEF CreateConnection
<1>6. reply' = "ok" => metadata'[superset.uri].connection # None
  <2>1. CASE Opens /\ Create
    <3>1. metadata'[superset.uri].connection = hub.bi
      BY <1>2, <1>4, <2>1 DEF Opens, Create
    <3>2. hub.bi # None
      BY <1>2, ValuesAssumption DEF SuccessInv, Inv, TypeOK, HubConfigs
    <3>3. QED BY <3>1, <3>2
  <2>2. CASE UNCHANGED metadata /\ Meta.connection # None
    BY <2>2 DEF Meta
  <2>3. QED BY <2>1, <2>2 DEF CreateConnection, Return, Fails
<1>7. ConnectionOffered'
  BY <1>1, <1>3, <1>5 DEF Facts, ConnectionOffered
<1>8. Checked'
  BY <1>1 DEF Checked, Past
<1>9. reply' = "ok" => Agreement'
  BY <1>1, <1>2, <1>3, <1>5, <1>6, <1>7 DEF Agreement, Meta, ConnectionOffered
<1>10. QED BY <1>1, <1>7, <1>8, <1>9 DEF Facts, Told

LEMMA NextSuccess == SuccessInv /\ [Next]_vars => SuccessInv'
<1> SUFFICES ASSUME SuccessInv, [Next]_vars PROVE SuccessInv'
  OBVIOUS
<1>1. Inv' /\ Facts
  BY NextInv DEF SuccessInv
<1> SUFFICES Facts'
  BY <1>1 DEF SuccessInv
<1>2. reply = "ok" => pc = "idle"
  BY <1>1 DEF Facts, Told
<1>3. ASSUME NEW c \in Commands, NEW s \in Shells, Start(c, s) PROVE Facts'
  BY <1>1, <1>3, EnvironmentSuccess DEF Start, Past
<1>4. CASE EnvFile \/ Preflight \/ Validate
  BY <1>1, <1>2, <1>4, QuietSuccess
     DEF EnvFile, WriteEnvFile, Preflight, Validate, Goto, Return, Fails, Past
<1>5. CASE WaitHealthy \/ Upgrade \/ InitRoles
  BY <1>1, <1>2, <1>5, QuietSuccess
     DEF WaitHealthy, Upgrade, InitRoles, Exec, Goto, Return, Fails, Past
<1>6. CASE Load \/ Down
  BY <1>1, <1>2, <1>6, EnvironmentSuccess, DownSuccess DEF Load, Goto, Past
<1>7. CASE Compose \/ CreateAdmin \/ Login \/ CreateConnection
  BY <1>7, ComposeSuccess, CreateAdminSuccess, LoginSuccess, CreateConnectionSuccess
<1>8. CASE Kill
  BY <1>1, <1>8, QuietSuccess DEF Kill, Return, Past
<1>9. ASSUME NEW c \in Containers, Exit(c) PROVE Facts'
  BY <1>1, <1>9, QuietSuccess DEF Exit
<1>10. ASSUME NEW k \in Keys, NEW v \in ByHand(k), Edit(k, v) PROVE Facts'
  BY <1>1, <1>10, QuietSuccess DEF Edit
<1>11. CASE UNCHANGED vars
  BY <1>1, <1>11, QuietSuccess DEF vars
<1>12. QED BY <1>3, <1>4, <1>5, <1>6, <1>7, <1>8, <1>9, <1>10, <1>11 DEF Next, Step

\* An up that reports success has left everybody with a password that is accepted, the
\* connection with one that the hub has had, for any metadata databases and any shells,
\* whatever they export, and after any number of failures, kills, containers that exit,
\* edits and forced installs.
THEOREM SuccessIsTrue == Spec => []SuccessMeansAgreement
<1>1. Init => SuccessInv
  <2>1. Init => Facts
    BY DEF Init, Facts, Checked, ConnectionOffered, Told, Past
  <2>2. QED BY <2>1, InitInv DEF SuccessInv
<1>2. SuccessInv /\ [Next]_vars => SuccessInv'
  BY NextSuccess
<1>3. SuccessInv => SuccessMeansAgreement
  BY DEF SuccessInv, Facts, Told, SuccessMeansAgreement
<1>4. QED BY <1>1, <1>2, <1>3, PTL DEF Spec
=============================================================================
