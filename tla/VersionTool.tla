---------------------------- MODULE VersionTool ----------------------------
(***************************************************************************)
(* tools/version: `set` writes one version into every file that carries a  *)
(* copy of it and then into VERSION; `check`, the gate of a release, says  *)
(* whether all of them agree.  A file is what the tool sees of it: the     *)
(* sequence of versions its pattern captures, or Gone when it cannot be    *)
(* read.  Between two steps of a command somebody may edit the tree, or    *)
(* kill the command; a write truncates its file before it fills it.        *)
(***************************************************************************)
EXTENDS Naturals, Sequences

CONSTANTS
  N,         \* the number of targets, rewritten in the order 1, 2, ..., N
  Copies,    \* Copies[t]: how many copies target t must carry (its `want`)
  Versions,  \* the strings of the form X.Y.Z
  Bad,       \* what VERSION holds, or `set` is given, that is not of that form
  Gone,      \* a file that cannot be read
  MaxEdits   \* bound: how often somebody edits the tree

ASSUME TargetsAssumption ==
  /\ N \in Nat
  /\ Copies \in [1..N -> Nat \ {0}]
  /\ MaxEdits \in Nat

ASSUME ContentsAssumption ==
  /\ Bad \notin Versions
  /\ Gone \notin Seq(Versions)

VARIABLES
  version,   \* what the VERSION file holds
  files,     \* target -> the versions captured in it, or Gone
  pc,        \* what the command does next; "idle" between commands
  cmd,       \* the command: [op, arg, at], at the target it has come to
  problems,  \* check: the targets it has found wrong
  exit,      \* how the last command ended: "none", "ok", "failed", "killed"
  before,    \* history: the tree when the command started
  troubled,  \* history: the command was disturbed: "edited", "faulted"
  edits

tree == <<version, files>>
vars == <<version, files, pc, cmd, problems, exit, before, troubled, edits>>

Targets == 1..N

\* Every occurrence in target t replaced by v.
Carrying(t, v) == [i \in 1..Copies[t] |-> v]

\* versionsIn and the first half of rewrite: readable, and as many matches
\* as the target must have.
WellShaped(c, t) == c # Gone /\ Len(c) = Copies[t]

\* All files agree on version v, which is what check looks for in target t.
Agrees(c, t, v) == WellShaped(c, t) /\ \A i \in 1..Len(c) : c[i] = v

Agreement == /\ version \in Versions
             /\ \A t \in Targets : Agrees(files[t], t, version)

Contents == Seq(Versions) \cup {Gone}

TypeOK ==
  /\ version \in Versions \cup {Bad}
  /\ files \in [Targets -> Contents]
  /\ pc \in {"idle", "check", "read", "open", "fill", "version"}
  /\ cmd \in [op : {"none", "check", "set"}, arg : Versions \cup {Bad}, at : 1..N+1]
  /\ problems \subseteq Targets
  /\ exit \in {"none", "ok", "failed", "killed"}
  /\ before \in [version : Versions \cup {Bad}, files : [Targets -> Contents]]
  /\ troubled \subseteq {"edited", "faulted"}
  /\ edits \in 0..MaxEdits

\* A released tree: everything agrees.
Init ==
  /\ version \in Versions
  /\ files = [t \in Targets |-> Carrying(t, version)]
  /\ pc = "idle"
  /\ cmd = [op |-> "none", arg |-> Bad, at |-> 1]
  /\ problems = {}
  /\ exit = "none"
  /\ before = [version |-> version, files |-> files]
  /\ troubled = {}
  /\ edits = 0

----------------------------------------------------------------------------
(* Both commands.                                                          *)

Starts(op, arg) ==
  /\ pc = "idle"
  /\ cmd' = [op |-> op, arg |-> arg, at |-> 1]
  /\ problems' = {}
  /\ before' = [version |-> version, files |-> files]
  /\ troubled' = {}
  /\ UNCHANGED <<tree, edits>>

Ends(how) == pc' = "idle" /\ exit' = how

Runs == pc # "idle" /\ UNCHANGED <<before, edits>>

Undisturbed == UNCHANGED troubled

\* The process stops between two of its steps.
Killed ==
  /\ Runs
  /\ Ends("killed")
  /\ troubled' = troubled \cup {"faulted"}
  /\ UNCHANGED <<tree, cmd, problems>>

Edits ==
  /\ edits < MaxEdits
  /\ edits' = edits + 1
  /\ troubled' = troubled \cup {"edited"}
  /\ UNCHANGED <<pc, cmd, problems, exit, before>>

\* Somebody restructures target t, removes it, or gives it a version by hand.
EditTarget(t) ==
  /\ Edits
  /\ \E c \in {Gone, <<>>} \cup {Carrying(t, v) : v \in Versions} :
       files' = [files EXCEPT ![t] = c]
  /\ UNCHANGED version

EditVersion ==
  /\ Edits
  /\ version' \in Versions \cup {Bad}
  /\ UNCHANGED files

----------------------------------------------------------------------------
(* check                                                                   *)

\* readVersion decides first; its version is what every copy is compared to.
Check ==
  /\ IF version = Bad THEN Ends("failed") ELSE pc' = "check" /\ UNCHANGED exit
  /\ Starts("check", version)

\* Mutant: A check that passes over the files it cannot compare.
CheckTarget_SkipsChanged ==
  /\ pc = "check" /\ cmd.at <= N
  /\ Runs /\ Undisturbed
  /\ problems' = IF ~ WellShaped(files[cmd.at], cmd.at) \/ Agrees(files[cmd.at], cmd.at, cmd.arg)
                   THEN problems ELSE problems \cup {cmd.at}
  /\ cmd' = [cmd EXCEPT !.at = @ + 1]
  /\ UNCHANGED <<tree, pc, exit>>

\* A file that cannot be read or has changed its structure is a problem like
\* a wrong version, and does not stop the loop.
CheckTarget ==
  /\ pc = "check" /\ cmd.at <= N
  /\ Runs /\ Undisturbed
  /\ problems' = IF Agrees(files[cmd.at], cmd.at, cmd.arg)
                   THEN problems ELSE problems \cup {cmd.at}
  /\ cmd' = [cmd EXCEPT !.at = @ + 1]
  /\ UNCHANGED <<tree, pc, exit>>

CheckEnds ==
  /\ pc = "check" /\ cmd.at > N
  /\ Runs /\ Undisturbed
  /\ Ends(IF problems = {} THEN "ok" ELSE "failed")
  /\ UNCHANGED <<tree, cmd, problems>>

----------------------------------------------------------------------------
(* set                                                                     *)

\* Mutant: A set that takes whatever it is given.
Set_Unchecked(v) ==
  /\ pc' = "read" /\ UNCHANGED exit
  /\ Starts("set", v)

Set(v) ==
  /\ IF v = Bad THEN Ends("failed") ELSE pc' = "read" /\ UNCHANGED exit
  /\ Starts("set", v)

\* Mutant: A set that passes over them.
ReadTarget_SkipsChanged ==
  /\ pc = "read" /\ cmd.at <= N
  /\ Runs /\ Undisturbed
  /\ IF WellShaped(files[cmd.at], cmd.at)
       THEN pc' = "open" /\ UNCHANGED cmd
       ELSE cmd' = [cmd EXCEPT !.at = @ + 1] /\ UNCHANGED pc
  /\ UNCHANGED <<tree, exit, problems>>

\* rewrite reads the target and refuses one with another number of matches.
ReadTarget ==
  /\ pc = "read" /\ cmd.at <= N
  /\ Runs /\ Undisturbed
  /\ IF WellShaped(files[cmd.at], cmd.at)
       THEN pc' = "open" /\ UNCHANGED exit
       ELSE Ends("failed")
  /\ UNCHANGED <<tree, cmd, problems>>

\* os.WriteFile opens the file for writing, which empties it.
OpenTarget ==
  /\ pc = "open"
  /\ Runs /\ Undisturbed
  /\ files' = [files EXCEPT ![cmd.at] = <<>>]
  /\ pc' = "fill"
  /\ UNCHANGED <<version, cmd, problems, exit>>

\* The content read, with every captured span replaced.
FillTarget ==
  /\ pc = "fill"
  /\ Runs /\ Undisturbed
  /\ files' = [files EXCEPT ![cmd.at] = Carrying(cmd.at, cmd.arg)]
  /\ cmd' = [cmd EXCEPT !.at = @ + 1]
  /\ pc' = "read"
  /\ UNCHANGED <<version, problems, exit>>

\* Mutant: VERSION moves before the last copy has.
OpenVersion_Early ==
  /\ pc = "read" /\ cmd.at >= N
  /\ Runs /\ Undisturbed
  /\ version' = Bad
  /\ pc' = "version"
  /\ UNCHANGED <<files, cmd, problems, exit>>

\* The copies are done: VERSION is emptied, and then filled.
OpenVersion ==
  /\ pc = "read" /\ cmd.at > N
  /\ Runs /\ Undisturbed
  /\ version' = Bad
  /\ pc' = "version"
  /\ UNCHANGED <<files, cmd, problems, exit>>

FillVersion ==
  /\ pc = "version"
  /\ Runs /\ Undisturbed
  /\ version' = cmd.arg
  /\ Ends("ok")
  /\ UNCHANGED <<files, cmd, problems>>

\* A file that may not be opened, or a write that stops after some copies:
\* `set` returns at once, and what it has rewritten stays rewritten.
WriteFails ==
  /\ \/ pc \in {"open", "fill", "version"}
     \/ pc = "read" /\ cmd.at > N
  /\ Runs
  /\ Ends("failed")
  /\ troubled' = troubled \cup {"faulted"}
  /\ IF pc = "fill"
       THEN \E k \in 0..Copies[cmd.at] :
              files' = [files EXCEPT ![cmd.at] = [i \in 1..k |-> cmd.arg]]
       ELSE UNCHANGED files
  /\ UNCHANGED <<version, cmd, problems>>

----------------------------------------------------------------------------

Next ==
  \/ Check \/ CheckTarget \/ CheckEnds
  \/ \E v \in Versions \cup {Bad} : Set(v)
  \/ ReadTarget \/ OpenTarget \/ FillTarget
  \/ OpenVersion \/ FillVersion
  \/ WriteFails \/ Killed
  \/ EditVersion \/ \E t \in Targets : EditTarget(t)

Spec == Init /\ [][Next]_vars

----------------------------------------------------------------------------
(* Properties.                                                             *)

Quiet == "edited" \notin troubled

\* The gate of a release: a check during which nobody edits the tree says ok
\* exactly when every copy agrees with VERSION, and otherwise has listed every
\* file that does not, not only the first (main.go:117-119).
CheckTellsTheTruth ==
  (cmd.op = "check" /\ pc = "idle" /\ Quiet) =>
    /\ exit = "ok" => Agreement
    /\ (exit = "failed" /\ version # Bad) =>
         problems = {t \in Targets : ~ Agrees(files[t], t, version)} /\ problems # {}

\* Wherever a set stops, nobody having edited the tree meanwhile: the targets
\* before the one it had come to carry the new version, those after it and
\* VERSION are what they were, and only one file can be torn.
SetLeavesAPrefix ==
  (cmd.op = "set" /\ Quiet) =>
    /\ \A t \in Targets :
         /\ t < cmd.at => files[t] = Carrying(t, cmd.arg)
         /\ t > cmd.at => files[t] = before.files[t]
    /\ cmd.at <= N => version = before.version
    /\ version \in {before.version, Bad, cmd.arg}

\* A set that says it is done leaves a tree that agrees on the new version, and
\* one that fails has a reason: it was not given a version, a write failed, or
\* a file had another structure before it started - never its own last attempt
\* (a set that stopped between two files is finished by running it again).
SetsEndHonestly ==
  (cmd.op = "set" /\ pc = "idle" /\ Quiet) =>
    /\ exit = "ok" => Agreement /\ version = cmd.arg
    /\ exit = "failed" =>
         \/ cmd.arg = Bad
         \/ "faulted" \in troubled
         \/ \E t \in Targets : ~ WellShaped(before.files[t], t)
=============================================================================
