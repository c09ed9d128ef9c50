# A verification project for the Superset + ClickHouse federation hub

The repository runs Apache Superset and a ClickHouse "federation hub" as two
containers. `fedctl`, a Go program, sets the stack up and attaches other
databases (PostgreSQL, MySQL, SQLite files) to the hub; a Superset extension
offers the same operations in a browser by running `fedctl`. This directory
holds TLA+ modules of that system, TLC instances of them, and proofs. Paths
below are relative to the repository; line numbers are of the commit the
modules were translated from. `PROJECT.json` maps each definition to its lines.

## 1. The system

| component | state it keeps | operations | talks to |
|---|---|---|---|
| hub operations (`cmd/fedctl/source.go`, `sourceops.go`, `apply.go`) | none beyond one process | add, remove, test, list, tables, probe; apply, plan of `config/sources.yaml` | hub connection |
| hub connection (`internal/hub`) | the hub's databases `fed_<name>` and named collections `fed_<name>_creds`, both in ClickHouse | Attach with rollback, Detach, DatabaseExists, DatabaseEngine, SourceHost, List, Tables, Probe | ClickHouse, one statement at a time |
| DDL plans (`internal/ddl`) | none | attach plans with undo statements, detach plan | |
| source types (`internal/sources`), validation (`internal/validate`), configuration (`internal/config`) | a registry and an allowlist filled at start | Validate and TestConnection of each type; hosts, ports, SQLite paths; reading the sources file | DNS, the disk, the source itself |
| sqlite-files and seed (`sqlitefiles.go`, `seed.go`) | files of the `ch-user-files` volume | put, list; seed | both containers mount the volume |
| extension backend (`entrypoint.py`) | the audit log | REST endpoints, each one `fedctl` subprocess with a time-out | fedctl, Superset |
| extension panel (`extension/frontend`) | React state of the panel, two dialogs and a file field | list, probe, test, add, remove; list, select, upload, replace files | the backend, by asynchronous requests |
| installation (`install.go`, `dotenv.go`) | `.env`, the process's environment | install, loading `.env` | up |
| stack lifecycle (`up.go`, `down.go`, `superset.go`, `compose.yaml`) | containers, Superset's metadata database | up, down, bootstrap, registering the hub in Superset | Docker Compose, Superset's API |
| preflight, check, doctor | none | checks | Docker, PostgreSQL, both containers |
| version tool (`tools/version`) | `VERSION` and the files that carry a copy of it | check, set | the source tree |
| JSON envelope, testkit, packaging | none, or files at release time | encoding, build and release | |

What is hard about it:

* **No transactions over DDL.** Attaching is two statements, removing is two, and
  a statement can be refused, executed without an answer, or never reached because
  `fedctl` died; `rollback` is itself made of statements. `apply` repeats this per
  source and goes on after failures. Two `fedctl` can work on one name.
* **Time-outs that kill.** The backend kills `fedctl` after 30 seconds and
  answers, whatever the hub has executed by then; a statement may run for 60, so
  that it can take effect long after the answer.
* **Answers put together from several queries** while other processes change the
  hub between them.
* **What was checked is used later.** A host's address, a path's links and the
  source under a name are looked at once and acted upon after.
* **A volume shared by two containers**, written by uploads (temporary file and
  rename) and by seeds (in place) while ClickHouse reads it.
* **Answers in any order.** Every button of the panel awaits a request while all
  others work; what follows an await uses what was on the screen before it.
* **Five places for a password**: `.env`, the environment of the process, each of
  two containers, Superset's metadata database. `install`, `up` and `down` are
  "safe to re-run" after failing or dying anywhere.
* **A version in many files**, written one after the other without a way back.

Each is listed, with its line, under `hazards` in `PROJECT.json`.

What makes each component correct: a database that needs credentials has them; a
failed or killed operation leaves nothing that belongs to nobody; a reply says what
happened; no operation destroys what another made (hub). A client, and the audit
log, can rely on what they are told, and no request hangs (backend). No host is
reached that is not permitted, no path leads out of `user_files`, and what is refused
deserves it (checks). What a name points to is one whole file (volume). No wait
without a request, no addition of what was not tested, the lists are the server's
(panel). Superset never runs on SQLite, success means that the
passwords fit, and a re-run finishes (set-up). What check says of the tree is
so, and a set that stops can be finished (version tool).

## 2. Modules

| module | models | composed with |
|---|---|---|
| `SourceRegistry` | what add, remove and apply promise, without statements | instantiated by `FederationHub` |
| `FederationHub` | those operations statement by statement, by any number of processes | `ImplementsRegistry` |
| `HubReads` | list, tables, probe and test query by query, while the hub changes | extends `FederationHub` |
| `ExtensionShim` | the backend's workers, each with a process of `FederationHub` or of `HubReads`; statements that outlive their process | extends `HubReads` |
| `SourceChecks` | what is checked before a source is dialled or attached, while DNS, the disk and the servers change | stands alone |
| `SqliteFiles` | uploads, seeds and readers of the volume | stands alone |
| `FederationPanel` | the panel, its dialogs and the file field, with the backend as one step per request | stands alone |
| `Deployment` | install, up, down on the host | stands alone |
| `VersionTool` | check and set of `tools/version`, file by file | stands alone |
| `FederationHubProofs`, `SourceChecksProofs`, `SqliteFilesProofs`, `FederationPanelProofs`, `DeploymentProofs`, `VersionToolProofs` | theorems | each extends its module |
| `ExtensionShimProofs` | theorems about the backend and the reads it runs | extends `ExtensionShim` and `FederationHubProofs`, whose lemmas about one step of `fedctl` it uses |
| `FederationSerialProofs` | invocations that are run one at a time: the refinement, and what they leave and report | extends `FederationHubProofs` |
| `MC<Module>` | constants for TLC | extends the module |

### FederationHub

State: the catalogue (`database`, `collection`, by source name) and, for each
process, where it is (`pc`), its subcommand, source, position in the plan, sources
file, results and reply. Actions follow the functions: `StartAdd/Remove/Apply`
(openHub), `CheckExists` (doAddSource), `Validate` (attachSource), `AttachStep` and
`RollbackStep` (hub.Attach), `LookUpEngine`, `LookUpHost`, `DetachStep`
(doRemoveSource), `NextSource` (apply's loop), `Kill`. A statement is acknowledged,
refused, or executed with its answer lost (`Acknowledged`, `Refused`, `Unanswered`).
`IF NOT EXISTS` and `IF EXISTS` are in the statements' definitions, and ClickHouse
refuses a database over a collection that does not exist (`Accepts`).

`SourceRegistry` is the abstract specification: an add or a remove takes effect
at one instant or not at all, `ok` is only said of what took effect, an error says
nothing. `FederationHub` maps a source to its database and a call to "done" once
its plan has created or dropped that database.

### HubReads

`reading` is a reading subcommand with its progress: List's query for the databases
and one for each row's host (`ListDatabases`, `ListHost`), the look-up before tables
and probe (`ReadEngine`), Probe's two halves, and test, which asks only the source.
`seen` is a history variable: all that the hub has been while the command runs;
it is what an answer is compared with. Every action of a composed module ends with
`Observe`.

### ExtensionShim

`Post`, `Delete` and `Get` start the process named after the worker if the user may,
`Timeout` kills it, `Answer` and `AnswerRead` turn its reply into a status and, after
a change, an audit line. `change` is a history variable: the database the request
really created or dropped. A process that is killed may leave the statement it waits
for to the hub (`Leaves`), which executes it at any later time (`Late`). Terminals
start processes of their own at any time.

### SourceChecks

A command (test, add, or one source of an apply) goes through Validate, the check of
the host, and then either TestConnection or the plan, the second check of the host and
the hand-over to the hub; `Change` is the administrator of a name, a disk or a server
between any two of these steps. The checks are definitions that are evaluated: ranges
of addresses (`Contains`), the allowlist, the two parsers of a port, `Clean` and the
links of a path (`SQLitePath`), the fallback endpoints of the PostgreSQL driver
(`Parsed`, `Kept`). A dial connects and then counts the tables, and either can fail:
a server listens on some ports, speaks TLS or not, lets some accounts in, and lists its
tables to them or not (`ServerAnswer`); a file that is there may be no database
(`FileAnswer`). The properties compare them with definitions of another shape: a range
counted out, the files that the form offers, links looked for along the path. That what the operating system keeps is clean - links
are absolute, no directory has an entry `..` of its own - is `WorldsAssumption`.

### SqliteFiles

Names point to inodes, inodes hold pieces; `temps` are those behind `.upload-*`. An
upload is stat, CreateTemp, copy (piece by piece, up to one more than the limit),
chmod, rename, and the deferred remove; a seed truncates and writes in place, and
goes on writing its inode if an upload takes the name; a reader opens a name and
then reads the inode. An inode that nothing refers to any more is taken back
(`Reclaim`).

### FederationPanel

`requests` are under way in `Slots`: the server serves one (`Serve`), its answer is
delivered later (`Deliver`), in any order. `panel`, `checking`, `form` and `field` are
the components' `useState`s. A component that is unmounted loses its state, and
answers to its requests no longer reach it (`reaches`, `Lose`): closing the dialog
unmounts it with its field (`Unmount`), choosing another type the field only
(`Remount`), whose uploads then still reach the dialog through its `onChange`.

### Deployment

`file`, `env` and `shell` are `.env`, the process's environment and what the shell
exported; `hub` and `superset` are the values the containers were created with;
`metadata` is Superset's database, by URI. Steps are those of runInstall and runUp
in order. Compose's precedence is a definition of its own: `${VAR}` in
`compose.yaml` takes the process's value before `.env`'s (`Interpolated`), while
`env_file` hands over `.env`'s. Secrets are numbered by generation, so that two
passwords are equal only when they were generated together, and `Typed` is one that
an operator types at a prompt, exports or writes into `.env`. A shell may export any
of the keys, and another for each command: what it exports comes before `.env` in
`fedctl` and in Compose (dotenv.go:16-18). `offered` is a history variable: the
passwords for Superset that the hubs which have come up healthy were created with. Every
`docker compose` command reads `compose.yaml` and with it `.env`, so that `up` and `down`
alike fail where a required variable has no value (`Startable`).

### VersionTool

A file is the sequence of versions its pattern captures, or `Gone`. check reads every
target and goes on after a wrong one; set reads, truncates and fills one target after
the other and `VERSION` last. A write may fail, leaving an empty file or some of
its copies (`WriteFails`), the tool may be killed, and somebody may edit the tree.

## 3. Runs

Seven runs must find no error, five must find a disagreement between a comment or
document and the code (section 6).

| run | instance | shows |
|---|---|---|
| `hub_operations` | 1 process, 2 names, 3 types, 2 different faults; 268,025 states | credentials behind every database, nothing orphaned, add and remove tell the truth, apply attempts every source, refinement of `SourceRegistry`, termination |
| `shim_requests` | a worker that also reads and a terminal, 1 name, any one kind of fault, 1 late statement; 1,282,562 states | audit lines and statuses match the hub, lists and look-ups are truthful, only a removal drops a database, every request is answered |
| `files_uploads` | 2 uploads, 1 seed, 1 reader, 1 name, two at a time, any one kind of fault; 483,991 states, symmetry | named files are whole and within the limit, readers see one version, temporary files have an owner, only late files are overwritten |
| `panel_requests` | 2 names, a server type and the SQLite type, 1 file, 2 requests under way; 1,370,659 states, symmetry | one removal at a time, current lists, no wait without its request, only tested forms are added |
| `deploy_setup` | 2 metadata URIs and a SQLite one, 3 shells, 2 generations of secrets, 1 mishap; 2,357,878 states | Superset runs on PostgreSQL only, an up that succeeds leaves passwords that fit, re-running install succeeds |
| `version_sync` | 3 files with 2, 1 and 1 copies, 2 versions, 2 edits; 539,070 states | check tells the truth, set leaves a prefix of its work and is honest about its end |
| `source_checks` | requests of 3 types with good and bad parameters, addresses 0 to 7, 5 servers, 15 paths, 1 change of the world; 2,153,914 states | only permitted hosts are reached, tested sources are accepted, refusals are justified, accepted parameters are well formed |

The bounds, and why they suffice:

* *Processes.* Whatever two `fedctl` can do to each other happens on one name, so
  `shim_requests` has one name and two processes, of which one may time out.
  `hub_operations` has two names because apply goes on after a failure.
  `OneAtATime` is its condition: two concurrent adds of one name do not refine the
  registry (section 6).
* *`MaxFaults`* bounds the number of **different** things (subcommand, phase, kind)
  that go wrong; each may recur any number of times. Two cover a failure and the
  failure of what cleans up after it.
* *`MaxMishaps`* of `Deployment` counts occurrences, hand edits and containers that exit
  included. `up` undoes nothing, so that what a second mishap meets is what one has left
  and a command has then built on; one is enough for each step to meet a stack, an `.env`
  or a metadata database left by a command that stopped anywhere, before or after a
  forced install and under any shell. `SuccessMeansAgreement` is proved for any number.
* *Shells* of `deploy_setup`: nothing, what an unattended install exports with
  Superset's password for the hub, and fedctl's password for it: an override of either of
  the hub's passwords, for one command, or for all.
* *`MaxLate`* = 1: statements left behind are independent of each other, and one can
  already be overtaken by a whole later request.
* *`MaxRunning`* = 2 of the volume's four processes: every pair overlaps, in every
  order, and what they leave meets the others later.
* *Pieces.* `small`, `full`, `big` are below, at and above the limit of 2 pieces.
* *Slots* bounds the panel's requests under way; two show every pairwise
  overlap. Both dialogs may be open at a time (by keyboard).
* *`MaxChanges`* = 1 in `source_checks`: between the steps of one command a second
  change can only undo or replace the first, and a change followed by a later command
  is another initial state. Addresses 0 to 7, with denied ranges of two and of one,
  have names that are inside, outside and on both sides of a range, and exemptions that
  equal, overlap and miss it. The disk has a link to a file, to a directory, to
  itself, out of `user_files` and to nothing, with `user_files` a link or not.
* *`MaxEdits`* = 2: an edit before a command and one during it.
* *Symmetry* is used only in runs without liveness properties, over sets that no
  formula names an element of.

Deadlock is checked except for the panel: one whose first list failed or was
empty has no button left.

### Fairness

* `FederationHub`: weak fairness of a running process's next step. Dialling has 5
  seconds, the server stops a statement after 60 (`hub.go:69`), the driver times out.
* `ExtensionShim`: only the worker is fair (`Answer \/ AnswerRead \/ Timeout`), since
  `subprocess.run` has a time-out. `fedctl` may hang for ever, and a late statement
  need never come.
* `Deployment`: weak fairness of a command's next step (`waitHealthy` and HTTP
  calls have time-outs; docker's own commands are assumed to end), and strong
  fairness of `install --yes` being run again, which is the premise of "safe to
  re-run" and not a claim about operators. Mishaps are finitely many.
* The others: none.

## 4. Properties worth knowing

Hub:

* `CredentialsBehindEveryDatabase`: the order of the plans (collection first,
  database last; dropped the other way round) keeps credentials behind every
  database wherever a process dies. Its premise, `OnlyAddsWereRefused`, names the
  one hole: rollback of an apply drops a collection that an earlier run made.
* `NothingOrphaned`, `AddToldTheTruth` hold as long as only queries and an add's
  CREATEs fail and no name changes from a file to a server (`NoRetyping`).
* `OnlyRemoveDropsADatabase`, `OnlyRemovalsDrop`: for concurrent processes too, no
  rollback ever drops a database, because the undone step is never the last one; with
  late statements, only what is left of a removal does.
* `RemoveReportsWhatItDropped`: the type and host of a removal's report are those of
  the database it dropped.

Backend and reads:

* `AuditMatchesTheHub`, `StatusTellsTheOutcome`: 404, 409, 400, 403 and 502 mean
  that nothing changed, also under concurrency; 500 says nothing.
* `ListShowsTheHub`, `ReadsAreTruthful`: a list shows what was there all the time and
  nothing that never was; a source is called missing, present or reachable only if
  it was at some time while the answer was made.

Checks:

* `OnlyPermittedHostsAreReached`: what is dialled or attached is the request's host
  and was permitted at the last look, whatever the driver adds.
* `TestedSourcesAreAccepted`: with nothing changed meanwhile, an add of what was tested
  attaches what was tested, or refuses the name.
* `RefusalsAreJustified`: a refusal's code is about the request or about the world. A
  file that the form offers is no invalid path, unless its name is blank: Validate trims
  it (sqlite.go:37). It may fail its test all the same, when it is no database. A
  connection to a server fails only if the server does not listen, does not let the
  account in, or does not list its tables, and not because it lacks TLS.
* `AcceptedSourcesAreWellFormed`: no path with links or `..` gets in that leads
  elsewhere.

Volume:

* `ReadersSeeOneVersion`: holds because rename leaves the old inode to who has
  it open.
* `OnlyLateFilesAreOverwritten`: without `--replace` an upload can only take the place
  of a file that came after it looked. `SeededFilesGetWhole`: an upload renamed over a
  file that is being seeded does not get the rest of the seed. It is checked for one
  seed at a time; two seeds of one name write the same inode and can mix.

Panel:

* `EveryWaitHasItsRequest`: no spinner turns for ever, however dialogs are closed
  and opened around the answers.
* `AddsPassedTheirTest`: also on the file: a name whose file is uploaded anew is not
  tested any more. (That an upload, as opposed to a replacement, never does this to
  a form that has passed is a lemma of the proof: a form only names files that exist.)
* `ListsAreCurrent` excludes overlapping reads of one list, an upload during the
  reading of the files, and errors that hide a change.

Set-up and release:

* `SuccessMeansAgreement`: after any earlier failures, and whatever shells export, an up
  that says success leaves the hub, its own fedctl and Superset's fedctl with one
  password, an admin with the password of the process, and a connection in Superset. Of
  the connection the code cannot promise more than a password that a healthy hub has
  had: "already exists" is a success (superset.go:116). It is the hub's password if
  the hubs have had only one; section 6 says what happens otherwise.
* `RerunsSucceed`: once mishaps end, with a whole `.env` that agrees with the admin
  Superset has, re-running install succeeds. Neither condition can be dropped:
  install without `--force` leaves a torn `.env` as it is, and create-admin never changes the password of a user who
  exists (superset.go:149-160).
* `SetLeavesAPrefix`, `SetsEndHonestly`, `CheckTellsTheTruth`: a set that stops
  between two files is finished by running it again; one that tears a file is not, and
  says so.

Every property of a passing run has a mutant in `PROJECT.json`: a plausible bug in
the code (definitions named `<Definition>_<Bug>`) that makes TLC find it violated.

## 5. Proofs

All are checked by TLAPS for every value of the constants that satisfies the
modules' `ASSUME`s.

`FederationHubProofs` (any number of processes, names, types, files and faults):

* `TypeCorrect`: `Spec => []TypeOK`, by the invariant `Inv`: shapes and, per
  process, `SubjectOK` and `ControlOK` (which label belongs to which subcommand and
  which positions of the plan it can be at). `ControlOK` is needed because a
  plan is a sequence that is applied to `step[p]`: outside its domain nothing could be
  said of the statement. One lemma per action.
* `DatabasesDropOnlyByRemove`: `Spec => OnlyRemoveDropsADatabase`, with no bound on
  concurrency. `AttachUndo` shows that what a rollback can undo is a named
  collection, never a database; `AttachNeverDrops` and `DetachDropsItsOwn` follow.
* `CredentialsKept`: `OneAtATime /\ Spec => []CredentialsBehindEveryDatabase`. The
  property is not inductive: `Staged` adds that an add with statements to run, a
  rollback, and a detach past its first statement have no database under their name.
* `AppliesAttemptEverySource`: `Spec => []ApplyAttemptsEverySource`. `Attended` says
  that an apply at line i, wherever in the plan of that line's source it is, has a
  report for every line before it; only `NextSource` past the last line ends the run.

`FederationSerialProofs`, for one process with any number of invocations, faults and
kills (`OneAtATime`):

* `InvocationsAreCalls`: `Spec => ImplementsRegistry`. One lemma per action shows that
  it is a step of `SourceRegistry` or a stutter: the last statement of an add puts the
  source, the first of a remove takes it, a return is the reply. The invariant has two
  parts. `Course`: where the process is in its plan tells whether its database is
  there, without which an add's last statement could meet a database and a
  remove's first miss it. `Batchwork`: an apply has a report for every entry before
  its line, and what it reports as attached is there, without which its `ok` would not
  be the registry's.

* `NothingIsOrphaned` (for at least one process), `AddsAreTruthful`,
  `RemovesAreTruthful`. `Balance` says that collections and databases match in every
  name but that of a source which is between its two statements, and that a finished
  add finds what it wished for. `Known` is needed for the condition
  `NoRetyping`, which is about the requests and not about the catalogue: every
  database has the type of some declaration of its name. `Told` is
  what a remove has learnt, and that a host it lacks is the fault of a query.

`SqliteFilesProofs` (any number of uploads, seeds, readers, names, inodes and faults,
files of any length, any limit):

* `Types` and `UploadsCleanUp`: by `Inv`, which is the types, `Control` (what a process
  at each label has open) and `Apart`: a temporary file is behind no name and in the
  hands of one upload, so that nobody else's write or rename can touch it.
* `NoOldFileIsOverwritten`: `Late` carries from the stat to the rename that without
  `--replace` there was no file.
* `NamesAreWhole`, `ReadersGetOneVersion`: `Contents` says what every inode holds: an
  upload's copy is so many pieces of its own data while it is copied, and one whole
  file within the limit from then on; a file not seeded never changes again.
  `Follows` adds that what a reader has got is the beginning of what its inode holds.

* `SeedsFinishTheirFiles`: `Spec /\ []SeedsApart => []SeededFilesGetWhole`. A seed that
  writes holds a growing beginning of its own data (`Copied`), and no temporary file is
  ever a seeded one, so that an upload can take a seed's name but not write its inode
  (`Settled`). `SeedsApart`, that no two seeds write one inode at a time, is a real
  condition: `cp` truncates in place, and two of them on one name mix. It holds of every
  behaviour of an instance with one seed, such as that of `files_uploads`.

`FederationPanelProofs` (any number of sources, types, files and requests under way):

* `Types`: by `Sound`: the shapes, `About` (what a request of each kind is about and
  what its answer can reach) and `Closed` (while the dialog is not shown its state is
  blank and no answer reaches it; an upload reaches only a dialog with a draft).
* `RemovalsTakeTurns`: `OneRemoval` adds that as long as there is a removal, or the
  refresh it awaits, the panel is busy.
* `WaitsEnd`: `Spec => []EveryWaitHasItsRequest`. Each part of the panel keeps its
  waits through the answers of the others (`PanelStillWaits`, `DialogStillWaits`,
  `FieldStillWaits`); the interesting steps are those that unmount a component and
  those that answer one of two requests of a kind.
* `AddsAreTested`: `Spec => AddsPassedTheirTest`, by `Kept`: what the dialog takes for
  tested has passed, and every file that a form, an answer or the field names is
  stored.
* `AnsweredPanelIsCurrent`: `Spec => []ListsAreCurrent`. While nothing has gone wrong in
  a way the property excludes, `HubTold` says that at most one list of sources is being
  read, and that either an answer that will tell the change is on its way or the panel
  has what the hub has; `FilesTold` says the same of the field, where the answer to an
  upload or a replacement adds a name instead of bringing a list.

`ExtensionShimProofs` (any number of workers, terminals, names, kinds of fault and late
statements; `ShimSpec => ...`):

* `ShimTypes` and `DatabasesDropOnlyForRemovals`: by `Sound`, which adds to the hub's
  `Inv` that a worker that is not serving runs nothing, that a worker runs a change or a
  reading and not both, and that what outlives a process is a statement of a plan. The
  hub's lemmas are about steps of one process and apply to `Fedctl`; the late
  statements need their own.
* `ListsAreTruthful`, `AnswersAreTruthful`: by `Witnessed`: what the hub is now is among
  what the reader has seen, and every row that is on its way, every row that has yet to
  get its host, and every source taken for missing or present has a catalogue among them
  that shows it. The rows are built by a query for the names and one query per row, and
  the hub may change before each.
* `StatusesTellTheOutcome`, `AuditLinesMatch`: `Innocent` says that until its plan
  runs a request has changed nothing, and that whoever replies with a refusal has not
  reached its plan; it needs no condition. `Alone` says, for a worker that is
  `Undisturbed`, what the position in the plan tells about the database and about
  `change`; without the condition both fail, as another process may work on the name.

`SourceChecksProofs` (any requests, ranges, allowlists, names, disks and servers, any
number of changes):

* `Types`, `HostsArePermitted`, `TestsPredictAdds` and `RefusalsTellTheTruth`, by `IInv`,
  which is these properties and four parts: `Course` (which command is at which step),
  `Given` (what Validate has made of the parameters; of a path only as long as nothing
  changes), `Looked` (before a dial and before an attach the host is permitted, if
  nothing has changed since the look) and `Tested` (what a test has passed would pass
  again, and what it dialled is what a plan would carry). With them each step is
  short; the work is in what the checks compute:
  * `RangeIsCounted`: an address has the network's prefix exactly if it is one of the
    range's addresses counted out; `HostIsPermitted` follows for denied ranges, for
    allowed ones and for single addresses.
  * `AcceptableParams`: what Validate lets through, a plan does not refuse: a text that
    `Atoi` reads as it is reads the same trimmed, the default schema is not blank.
  * `ListedIsAccepted`: a file the form offers is accepted. What `EvalSymlinks` makes of
    `user_files/a` is `a` below what it makes of `user_files`: a link on the way to the
    directory is the first link on both ways (`FollowWithEntry`), so they are followed
    side by side, four times, until none is left, and the last entry is no link itself.
  * `KeptIsOwn`: of whatever endpoints the driver's parser returns, those kept are on
    the host and port asked for, and the one without TLS is among them.
* `AcceptedIsFit`: `Spec /\ []UserFilesIsNoFile => []AcceptedSourcesAreWellFormed`. The
  condition is needed: `withinDir` takes the directory for inside itself
  (validate.go:230-236), so that if `user_files` were a regular file, the path `.`
  would name it. Compose mounts a directory there, as in every world of `source_checks`.

Of `Clean` the proofs use only that it leaves a clean path as it is: what makes a path
safe is that it is compared with `user_files` after its links are followed, whatever
`Clean` has made of it.

`DeploymentProofs` (any metadata databases, shells and bounds):

* `TypeCorrect`, and `NeverOnSqlite`: `Spec => []SupersetRunsOnPostgres`, by `Inv`. Its
  conjunct `Control` says what the guards rely on: the URI that `up` has checked is
  still in the process's environment when Compose is run, and Compose prefers it to
  whatever `.env` has become since.
* `SuccessIsTrue`: `Spec => []SuccessMeansAgreement`, with no condition on what shells
  export. The property speaks of the end of a successful run only; `Facts` says how it
  comes about. `Checked`: from Compose's success to the answer, the hub and both
  containers' fedctl have one password, and Superset's password at it is offered.
  `ConnectionOffered`: every connection was created with the password that opened the
  hub of its time, and is therefore among `offered`, which only grows. `Told`: the admin
  whose login was accepted keeps that password, as create-admin comes before the login,
  and a success is told at the end only.

`VersionToolProofs` (any number of targets, copies, versions and edits): `Types`,
`SetsStopInOrder`, `SetsAreHonest`, `ChecksTellTheTruth`. The properties speak of the
command's end or of what it has passed; `SetInv` adds that the targets it has not
come to are untouched, and that the one it is at was well formed before it began, and
`CheckAllInv` that the problems so far are those of the targets so far.

The assumptions (`None` is not a value, faults are pairs of phase and kind, a sources
file names no source twice, ...) are evaluated by TLC on every run.

Every invariant and action property of a passing run is proved. Only model-checked
are the liveness properties, which with fairness and `ENABLED` are out of the
prover's reach: `EveryInvocationReturns`, `EveryRequestIsAnswered`, `RerunsSucceed`.

## 6. Where the code and its documentation disagree

Five violation runs, quoted in `PROJECT.json` under `findings`:

* `hub_retried_remove`: a removal whose second statement fails cannot be retried;
  the retry says SOURCE_NOT_FOUND and the named collection stays.
* `hub_apply_again`: re-applying an unchanged file can drop the collection of a
  live database.
* `shim_unaudited`: a mutation followed by a time-out has no audit line.
* `panel_empty`: an empty hub is `null` in JSON, and the panel throws.
* `deploy_forced_install`: `install --force` goes on with the old `.env`'s values.

Seen while modelling, without a run of their own:

* An attach whose answer is lost is not undone (hub.go:113-114, 118-123).
* apply of changed parameters says ok and changes nothing (apply.go:23); retyping a
  source from SQLite to a server leaves an unused collection.
* Two concurrent adds of one name can both succeed, one with the other's
  credentials (sourceops.go:67-73).
* Because a statement may run for 60 seconds and `fedctl` is killed after 30, a source
  can come back after a removal's 404, or go after an add that succeeded: that is why
  the outcome properties exclude statements left behind (`Undisturbed`).
* A row of a list may have the type of one database and the host of the next under
  its name; a probe may report a reachable source with 0 tables if it is dropped in
  between. The list matches `LIKE 'fed_%'`, where `_` is a wildcard: a database
  called `fedora` would be listed (hub.go:232).
* Two uploads of one new name without `--replace`: the later overwrites, though put
  "refuses to overwrite an existing file" (sqlitefiles.go:127, 138, 171,
  docs/04:747). `OnlyLateFilesAreOverwritten` bounds it.
* A stream whose sender dies is renamed into place (sqlitefiles.go:120-123,
  docs/04:737-740); the backend is not affected, it buffers the body first. A killed
  upload's `.upload-*` file is a regular file of the directory and is listed.
* A test does not look at the name, so an add may still refuse it.
* Two overlapping refreshes can leave the older list (docs/09:332). An upload that
  overlaps the list of files selects a file that the list then does not offer. A late
  answer to an add or a removal closes whichever dialog is open by then. After a failed
  first load the panel has no button to try again.
* Health dots are kept by name: a source that is removed and added again under its
  name shows the old one's dot (FederationPanel.tsx:19,52,122; docs/07:405-406).
* Replacing a SQLite file does not invalidate a test that passed.
* Once the hub has had two passwords for Superset, up can report "ClickHouse connection
  registered" over a connection that has the old one and no longer opens
  (superset.go:116). An up with `SUPERSET_CH_PASSWORD` exported followed by one without
  is enough, though dotenv.go:16-18 and docs/04-fedctl-cli.md:143-145 say that a one-off
  override works as expected; so are an edit of `.env` and a forced install. That is why
  `SuccessMeansAgreement` speaks of `offered`.
* An exported `FEDCTL_ADMIN_PASSWORD` that differs from `.env`'s is another override that
  does not work: Compose gives the server the exported one (compose.yaml:53) and the
  container's fedctl, through env_file, `.env`'s, so that the health check fails.
* An admin password exported, or typed, for another install than the one that created the
  user in that metadata database makes the login fail, and up with it.
* A torn `.env` is left alone by later installs (install.go:74, 236).
* `waitComposeHealthy` sees only containers that run; that Superset has exited is
  found by the exec that follows.
* set is meant to "fail before VERSION itself has changed, leaving the tree consistent"
  (tools/version/main.go:176-177): VERSION is indeed untouched, but the targets before
  the failing one already carry the new version. check's "%d file(s)" counts
  copies (main.go:144).
* `ReadRequest` says that it rejects trailing garbage, but `dec.More()` is false before
  a closing brace or bracket, which it lets through (jsonio.go:95, 105).

## 7. What the models leave out

* *Hub.* ClickHouse may refuse to drop a collection in use; in the model it does
  not. A duplicate or malformed sources file returns before the hub is opened
  (`FilesAssumption`). `database/sql` may repeat a statement on a bad connection
  (the statements are idempotent). `fedctl` handles no signal, so `Kill` is
  immediate. Quoting and redaction are left out, how many tables a source has too. Late
  statements are modelled where processes are killed as a matter of course, in
  `ExtensionShim`; in `FederationHub` alone, a statement takes effect before a kill or
  not at all.
* *Backend.* FAB's permission tables; `source_types`, a constant; what apply does is
  left to `FederationHub`.
* *Checks.* Which names `SourceName` matches is a constant (`ValidNames`), as are the
  texts `Atoi`, `TrimSpace` and `ToLower` are applied to. Links are absolute, and chains
  of more than four (Go: 255) count as endless. `Clean`, `EvalSymlinks` and
  pgx's `ParseConfig` are external, modelled by what they do. Addresses are numbers,
  IPv4 and IPv6 are not told apart. A server lists its tables to all accounts or to
  none. The SQLite driver reads a `?` in a file's name as the end of the name
  (`sql.Open`, sqlite.go:59); the model's names have none. `QuoteIdentifier`, `CredentialFlagName` and the
  redactor are transformations of text.
* *Volume.* No file is ever deleted by this code; the deferred remove succeeds; a
  seed has no size limit; names are valid ones.
* *Panel.* The user may manage sources; other clients do not change the hub
  meanwhile; messages, the browser's file picker and the escape key are left out.
* *Deployment.* One `fedctl` at a time. The shell's values are non-empty ones: a
  variable that is exported empty counts as set for `loadDotEnv` and as unset for
  `:?`. Superset's
  secret key, volumes, `--dev`, builds and images are left out. Compose's precedence,
  recreating of changed containers, and Superset's test of a new connection are
  external.
* *Version tool.* Regular expressions are the number of copies a file must have;
  what surrounds the copies is left out.
* *Not modelled at all*: the JSON envelope (its codes are the outcomes of an
  invocation), testkit, doctor's report, the panel's entry and styles, packaging and
  workflows: they print, encode or build and keep no state.

## 8. Plan

Order followed: hub (the system's core and its only persistent shared state), its
abstract registry and proofs; the backend over it; the volume; the panel; set-up;
then the reads and late statements, the file field, the checks, the version tool; then
the proofs about each of them, the refinement's included. What is left, in order:

1. Two seeds of one name in `SqliteFiles`, with the property they still have, so that
   `SeedsFinishTheirFiles` needs no condition.
2. An abstract specification of the volume (an upload that ends well is one step that
   replaces a file, or nothing) and `SqliteFiles` shown to implement it.
3. A user of the panel who may not manage sources, and other clients of the hub.
