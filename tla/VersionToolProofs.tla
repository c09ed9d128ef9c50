-------------------------- MODULE VersionToolProofs --------------------------
(***************************************************************************)
(* Theorems about VersionTool, for any number of targets, copies, versions *)
(* and edits.                                                              *)
(***************************************************************************)
EXTENDS VersionTool, TLAPS

USE DEF tree, Targets

\* Which command runs at each step, and at which target.
Control ==
  /\ pc = "check" => cmd.op = "check" /\ cmd.arg \in Versions
  /\ pc \in {"read", "open", "fill", "version"} => cmd.op = "set" /\ cmd.arg \in Versions
  /\ pc \in {"open", "fill"} => cmd.at \in Targets
  /\ pc = "version" => cmd.at = N + 1

Inv == TypeOK /\ Control

LEMMA CarryingWorks ==
  ASSUME NEW t \in Targets, NEW v \in Versions
  PROVE  /\ Carrying(t, v) \in Seq(Versions)
         /\ Carrying(t, v) \in Contents
         /\ Agrees(Carrying(t, v), t, v)
<1>1. Copies[t] \in Nat
  BY TargetsAssumption
<1>2. Carrying(t, v) \in Seq(Versions) /\ Len(Carrying(t, v)) = Copies[t]
  BY <1>1 DEF Carrying
<1>3. \A i \in 1..Copies[t] : Carrying(t, v)[i] = v
  BY DEF Carrying
<1>4. Carrying(t, v) # Gone
  BY <1>2, ContentsAssumption
<1>5. QED BY <1>2, <1>3, <1>4 DEF Agrees, WellShaped, Contents

LEMMA EmptyIsContent == <<>> \in Contents /\ Gone \in Contents
BY DEF Contents

LEMMA PrefixIsContent ==
  ASSUME NEW v \in Versions, NEW k \in Nat
  PROVE  [i \in 1..k |-> v] \in Contents
BY DEF Contents

LEMMA InitInv == Init => Inv
<1> SUFFICES ASSUME Init PROVE Inv
  OBVIOUS
<1>1. files \in [Targets -> Contents]
  BY CarryingWorks DEF Init
<1>2. 1 \in 1..N+1 /\ 0 \in 0..MaxEdits
  BY TargetsAssumption
<1>3. QED BY <1>1, <1>2 DEF Init, Inv, TypeOK, Control

LEMMA TypeOfStep == Inv /\ [Next]_vars => Inv'
<1> SUFFICES ASSUME Inv, [Next]_vars PROVE Inv'
  OBVIOUS
<1> USE TargetsAssumption DEF Inv
<1>a. ASSUME pc = "idle", Check PROVE Inv'
  BY <1>a DEF TypeOK, Control, Check, Starts, Ends
<1>1. CASE Check
  BY <1>1, <1>a DEF Check, Starts
<1>2. CASE CheckTarget
  BY <1>2 DEF TypeOK, Control, CheckTarget, Runs, Undisturbed
<1>3. CASE CheckEnds
  BY <1>3 DEF TypeOK, Control, CheckEnds, Runs, Undisturbed, Ends
<1>4. ASSUME NEW v \in Versions \cup {Bad}, Set(v) PROVE Inv'
  BY <1>4 DEF TypeOK, Control, Set, Starts, Ends
<1>5. CASE ReadTarget
  BY <1>5 DEF TypeOK, Control, ReadTarget, Runs, Undisturbed, Ends
<1>6. CASE OpenTarget
  BY <1>6, EmptyIsContent DEF TypeOK, Control, OpenTarget, Runs, Undisturbed
<1>7. CASE FillTarget
  <2>1. cmd.at \in Targets /\ cmd.arg \in Versions
    BY <1>7 DEF TypeOK, Control, FillTarget
  <2>2. Carrying(cmd.at, cmd.arg) \in Contents
    BY <2>1, CarryingWorks
  <2>3. files' \in [Targets -> Contents]
    BY <1>7, <2>1, <2>2 DEF TypeOK, FillTarget
  <2>4. cmd'.at = cmd.at + 1 /\ cmd'.op = "set" /\ cmd'.arg = cmd.arg /\ pc' = "read"
    BY <1>7 DEF TypeOK, Control, FillTarget
  <2>5. cmd' \in [op : {"none", "check", "set"}, arg : Versions \cup {Bad}, at : 1..N+1]
    <3>1. cmd.at + 1 \in 1..N+1
      BY <2>1
    <3>2. cmd' = [cmd EXCEPT !.at = cmd.at + 1]
      BY <1>7 DEF FillTarget
    <3>3. QED BY <3>1, <3>2, Zenon DEF TypeOK
  <2>6. TypeOK'
    BY <1>7, <2>3, <2>4, <2>5 DEF TypeOK, FillTarget, Runs, Undisturbed
  <2>7. QED BY <2>1, <2>4, <2>6 DEF Control
<1>8. CASE OpenVersion
  BY <1>8 DEF TypeOK, Control, OpenVersion, Runs, Undisturbed
<1>9. CASE FillVersion
  BY <1>9 DEF TypeOK, Control, FillVersion, Runs, Undisturbed, Ends
<1>10. CASE WriteFails
  <2>1. files' \in [Targets -> Contents]
    <3>1. CASE pc = "fill"
      <4>1. cmd.at \in Targets /\ cmd.arg \in Versions /\ Copies[cmd.at] \in Nat
        BY <3>1 DEF TypeOK, Control
      <4>2. PICK k \in 0..Copies[cmd.at] : files' = [files EXCEPT ![cmd.at] = [i \in 1..k |-> cmd.arg]]
        BY <1>10, <3>1 DEF WriteFails
      <4>3. [i \in 1..k |-> cmd.arg] \in Contents
        BY <4>1, PrefixIsContent
      <4>4. QED BY <4>2, <4>3 DEF TypeOK
    <3>2. CASE pc # "fill"
      BY <1>10, <3>2 DEF WriteFails, TypeOK
    <3>3. QED BY <3>1, <3>2
  <2>2. QED BY <1>10, <2>1 DEF TypeOK, Control, WriteFails, Runs, Ends
<1>11. CASE Killed
  BY <1>11 DEF TypeOK, Control, Killed, Runs, Ends
<1>12. CASE EditVersion
  BY <1>12 DEF TypeOK, Control, EditVersion, Edits
<1>13. ASSUME NEW t \in Targets, EditTarget(t) PROVE Inv'
  <2>1. PICK c \in {Gone, <<>>} \cup {Carrying(t, v) : v \in Versions} :
          files' = [files EXCEPT ![t] = c]
    BY <1>13 DEF EditTarget
  <2>2. c \in Contents
    BY CarryingWorks, EmptyIsContent
  <2>3. QED BY <1>13, <2>1, <2>2 DEF TypeOK, Control, EditTarget, Edits
<1>14. CASE UNCHANGED vars
  BY <1>14 DEF TypeOK, Control, vars
<1>15. QED
  BY <1>1, <1>2, <1>3, <1>4, <1>5, <1>6, <1>7, <1>8, <1>9, <1>10, <1>11, <1>12, <1>13, <1>14
     DEF Next

\* The state of the tool and of its files has the type it should have, whatever
\* is edited, fails or is killed.
THEOREM Types == Spec => []TypeOK
<1>1. Inv => TypeOK
  BY DEF Inv
<1>2. QED BY InitInv, TypeOfStep, <1>1, PTL DEF Spec

----------------------------------------------------------------------------
(* Half-done sets.                                                         *)

\* The target a set reads or opens, and every later one, is as it was: why a
\* set that refuses a file refuses what it found there before it started.
Untouched ==
  (cmd.op = "set" /\ Quiet /\ pc \in {"read", "open"}) =>
    \A t \in Targets : t >= cmd.at => files[t] = before.files[t]

SetInv == SetLeavesAPrefix /\ Untouched /\ SetsEndHonestly

LEMMA InitSetInv == Init => SetInv
BY DEF Init, SetInv, SetLeavesAPrefix, Untouched, SetsEndHonestly

\* Somebody edits the tree: nothing is claimed of it from here on.
LEMMA EditsUnsettle ==
  ASSUME Edits PROVE SetInv' /\ ~ Quiet'
BY DEF Edits, SetInv, SetLeavesAPrefix, Untouched, SetsEndHonestly, Quiet

LEMMA SetInvStep == Inv /\ Inv' /\ SetInv /\ [Next]_vars => SetInv'
<1> SUFFICES ASSUME Inv, Inv', SetInv, [Next]_vars PROVE SetInv'
  OBVIOUS
<1> USE TargetsAssumption DEF Inv
<1>1. CASE Check
  BY <1>1 DEF Check, Starts, SetInv, SetLeavesAPrefix, Untouched, SetsEndHonestly
<1>2. CASE CheckTarget
  BY <1>2 DEF CheckTarget, Control, SetInv, SetLeavesAPrefix, Untouched, SetsEndHonestly, TypeOK
<1>3. CASE CheckEnds
  BY <1>3 DEF CheckEnds, Control, SetInv, SetLeavesAPrefix, Untouched, SetsEndHonestly
<1>4. ASSUME NEW v \in Versions \cup {Bad}, Set(v) PROVE SetInv'
  <2>1. cmd' = [op |-> "set", arg |-> v, at |-> 1] /\ UNCHANGED tree
        /\ before' = [version |-> version, files |-> files]
    BY <1>4 DEF Set, Starts
  <2>2. SetLeavesAPrefix' /\ Untouched'
    BY <2>1 DEF SetLeavesAPrefix, Untouched, TypeOK
  <2>3. SetsEndHonestly'
    BY <1>4, <2>1, ContentsAssumption DEF Set, Ends, SetsEndHonestly
  <2>4. QED BY <2>2, <2>3 DEF SetInv
<1>5. CASE ReadTarget
  <2>1. SetLeavesAPrefix' /\ Untouched'
    BY <1>5 DEF ReadTarget, Runs, Undisturbed, Ends, Quiet, SetInv, SetLeavesAPrefix, Untouched
  <2>2. SetsEndHonestly'
    <3>1. CASE WellShaped(files[cmd.at], cmd.at)
      BY <1>5, <3>1 DEF ReadTarget, SetsEndHonestly
    <3>2. CASE ~ WellShaped(files[cmd.at], cmd.at)
      <4>1. cmd.at \in Targets /\ exit' = "failed" /\ UNCHANGED <<before, cmd, troubled>>
        BY <1>5, <3>2 DEF ReadTarget, Runs, Undisturbed, Ends, TypeOK
      <4>2. Quiet => before.files[cmd.at] = files[cmd.at]
        BY <1>5, <4>1 DEF ReadTarget, Control, SetInv, Untouched, TypeOK
      <4>3. Quiet' => Quiet
        BY <4>1 DEF Quiet
      <4>4. Quiet' => \E t \in Targets : ~ WellShaped(before'.files[t], t)
        BY <3>2, <4>1, <4>2, <4>3
      <4>5. QED BY <4>1, <4>4 DEF SetsEndHonestly
    <3>3. QED BY <3>1, <3>2
  <2>3. QED BY <2>1, <2>2 DEF SetInv
<1>6. CASE OpenTarget
  <2>1. cmd.at \in Targets /\ UNCHANGED <<version, cmd, before, troubled>>
        /\ files' = [files EXCEPT ![cmd.at] = <<>>] /\ pc' = "fill"
    BY <1>6 DEF OpenTarget, Runs, Undisturbed, Control
  <2>2. \A t \in Targets : t # cmd.at => files'[t] = files[t]
    BY <2>1 DEF TypeOK
  <2>3. QED BY <2>1, <2>2 DEF SetInv, SetLeavesAPrefix, Untouched, SetsEndHonestly, Quiet, TypeOK
<1>7. CASE FillTarget
  <2>1. cmd.at \in Targets /\ UNCHANGED <<version, before, troubled>> /\ pc' = "read"
        /\ files' = [files EXCEPT ![cmd.at] = Carrying(cmd.at, cmd.arg)]
    BY <1>7 DEF FillTarget, Runs, Undisturbed, Control
  <2>2. cmd'.at = cmd.at + 1 /\ cmd'.op = cmd.op /\ cmd'.arg = cmd.arg
    BY <1>7 DEF FillTarget, TypeOK
  <2>3. \A t \in Targets : files'[t] = IF t = cmd.at THEN Carrying(t, cmd.arg) ELSE files[t]
    BY <2>1 DEF TypeOK
  <2>4. cmd.at \in Nat /\ cmd.at <= N
    BY <2>1
  <2>5. SetLeavesAPrefix' /\ Untouched'
    BY <2>1, <2>2, <2>3, <2>4 DEF SetInv, SetLeavesAPrefix, Untouched, Quiet, TypeOK
  <2>6. QED BY <2>1, <2>5 DEF SetInv, SetsEndHonestly
<1>8. CASE OpenVersion
  <2>1. cmd.at > N /\ version' = Bad /\ UNCHANGED <<files, cmd, before, troubled>> /\ pc' = "version"
    BY <1>8 DEF OpenVersion, Runs, Undisturbed
  <2>2. QED BY <2>1 DEF SetInv, SetLeavesAPrefix, Untouched, SetsEndHonestly, Quiet, TypeOK
<1>9. CASE FillVersion
  <2>1. /\ cmd.at = N + 1 /\ cmd.op = "set" /\ cmd.arg \in Versions
        /\ version' = cmd.arg /\ exit' = "ok" /\ pc' = "idle"
        /\ UNCHANGED <<files, cmd, before, troubled>>
    BY <1>9 DEF FillVersion, Runs, Undisturbed, Ends, Control
  <2>2. SetLeavesAPrefix' /\ Untouched'
    BY <2>1 DEF SetInv, SetLeavesAPrefix, Untouched, Quiet, TypeOK
  <2>3. ASSUME Quiet PROVE Agreement'
    <3>1. \A t \in Targets : files[t] = Carrying(t, cmd.arg)
      BY <2>1, <2>3 DEF SetInv, SetLeavesAPrefix
    <3>2. \A t \in Targets : Agrees(files'[t], t, version')
      BY <2>1, <3>1, CarryingWorks
    <3>3. QED BY <2>1, <3>2 DEF Agreement
  <2>4. QED BY <2>1, <2>2, <2>3 DEF SetInv, SetsEndHonestly, Quiet
<1>10. CASE WriteFails
  <2>1. /\ pc' = "idle" /\ exit' = "failed" /\ "faulted" \in troubled'
        /\ UNCHANGED <<version, cmd, before>> /\ (Quiet' => Quiet)
    BY <1>10 DEF WriteFails, Runs, Ends, Quiet
  <2>2. \A t \in Targets : t # cmd.at => files'[t] = files[t]
    BY <1>10 DEF WriteFails, TypeOK
  <2>3. QED BY <2>1, <2>2 DEF SetInv, SetLeavesAPrefix, Untouched, SetsEndHonestly, TypeOK
<1>11. CASE Killed
  <2>1. /\ pc' = "idle" /\ exit' = "killed" /\ UNCHANGED <<version, files, cmd, before>>
        /\ (Quiet' => Quiet)
    BY <1>11 DEF Killed, Runs, Ends, Quiet
  <2>2. QED BY <2>1 DEF SetInv, SetLeavesAPrefix, Untouched, SetsEndHonestly
<1>12. CASE EditVersion
  BY <1>12, EditsUnsettle DEF EditVersion
<1>13. ASSUME NEW t \in Targets, EditTarget(t) PROVE SetInv'
  BY <1>13, EditsUnsettle DEF EditTarget
<1>14. CASE UNCHANGED vars
  BY <1>14 DEF vars, SetInv, SetLeavesAPrefix, Untouched, SetsEndHonestly, Quiet, Agreement
<1>15. QED
  BY <1>1, <1>2, <1>3, <1>4, <1>5, <1>6, <1>7, <1>8, <1>9, <1>10, <1>11, <1>12, <1>13, <1>14
     DEF Next

\* Wherever a set stops, and however, it has rewritten a prefix of the targets
\* and at most one file is torn; the others are what they were.
THEOREM SetsStopInOrder == Spec => []SetLeavesAPrefix
<1>1. SetInv => SetLeavesAPrefix
  BY DEF SetInv
<1>2. QED BY InitInv, TypeOfStep, InitSetInv, SetInvStep, <1>1, PTL DEF Spec

\* A set that reports success leaves an agreeing tree; one that fails has a
\* reason, which is never a half-done set before it.
THEOREM SetsAreHonest == Spec => []SetsEndHonestly
<1>1. SetInv => SetsEndHonestly
  BY DEF SetInv
<1>2. QED BY InitInv, TypeOfStep, InitSetInv, SetInvStep, <1>1, PTL DEF Spec

----------------------------------------------------------------------------
(* Checks.                                                                 *)

\* While a check runs, its problems are exactly the targets it has come past
\* that disagree.
Found(n) == {t \in Targets : t < n /\ ~ Agrees(files[t], t, version)}

CheckInv ==
  (pc = "check" /\ Quiet) => cmd.arg = version /\ problems = Found(cmd.at)

CheckAllInv == CheckInv /\ CheckTellsTheTruth

LEMMA InitCheckInv == Init => CheckAllInv
BY DEF Init, CheckAllInv, CheckInv, CheckTellsTheTruth

LEMMA CheckInvStep == Inv /\ Inv' /\ CheckAllInv /\ [Next]_vars => CheckAllInv'
<1> SUFFICES ASSUME Inv, Inv', CheckAllInv, [Next]_vars PROVE CheckAllInv'
  OBVIOUS
<1> USE TargetsAssumption DEF Inv
<1>1. CASE Check
  <2>1. /\ cmd' = [op |-> "check", arg |-> version, at |-> 1] /\ problems' = {}
        /\ UNCHANGED tree
    BY <1>1 DEF Check, Starts
  <2>2. version = Bad => pc' = "idle" /\ exit' = "failed"
    BY <1>1 DEF Check, Ends
  <2>3. version # Bad => pc' = "check"
    BY <1>1 DEF Check
  <2>4. Found(1) = {}
    BY DEF Found
  <2>5. CheckInv'
    BY <2>1, <2>2, <2>3, <2>4 DEF CheckInv, Found
  <2>6. CheckTellsTheTruth'
    BY <2>1, <2>2, <2>3 DEF CheckTellsTheTruth
  <2>7. QED BY <2>5, <2>6 DEF CheckAllInv
<1>2. CASE CheckTarget
  <2>1. /\ cmd.at \in Targets /\ pc = "check" /\ pc' = "check"
        /\ UNCHANGED <<version, files, troubled>>
        /\ problems' = IF Agrees(files[cmd.at], cmd.at, cmd.arg) THEN problems
                       ELSE problems \cup {cmd.at}
    BY <1>2 DEF CheckTarget, Runs, Undisturbed, TypeOK
  <2>2. cmd'.at = cmd.at + 1 /\ cmd'.arg = cmd.arg
    BY <1>2 DEF CheckTarget, TypeOK
  <2>3. Found(cmd.at + 1) = IF Agrees(files[cmd.at], cmd.at, version) THEN Found(cmd.at)
                            ELSE Found(cmd.at) \cup {cmd.at}
    <3>1. \A t \in Targets : t < cmd.at + 1 <=> t < cmd.at \/ t = cmd.at
      BY <2>1
    <3>2. cmd.at \in Targets
      BY <2>1
    <3>3. QED BY <3>1, <3>2 DEF Found
  <2>4. CheckInv'
    BY <2>1, <2>2, <2>3 DEF CheckAllInv, CheckInv, Quiet, Found
  <2>5. QED BY <2>1, <2>4 DEF CheckAllInv, CheckTellsTheTruth
<1>3. CASE CheckEnds
  <2>1. /\ cmd.at = N + 1 /\ pc = "check" /\ pc' = "idle"
        /\ exit' = IF problems = {} THEN "ok" ELSE "failed"
        /\ UNCHANGED <<version, files, cmd, problems, troubled>>
    BY <1>3 DEF CheckEnds, Runs, Undisturbed, Ends, TypeOK
  <2>2. Found(N + 1) = {t \in Targets : ~ Agrees(files[t], t, version)}
    BY DEF Found
  <2>3. Quiet => version \in Versions /\ problems = {t \in Targets : ~ Agrees(files[t], t, version)}
    BY <2>1, <2>2 DEF CheckAllInv, CheckInv, Control
  <2>4. CheckTellsTheTruth'
    BY <2>1, <2>3 DEF CheckTellsTheTruth, Agreement, Quiet
  <2>5. QED BY <2>1, <2>4 DEF CheckAllInv, CheckInv
<1>4. ASSUME NEW v \in Versions \cup {Bad}, Set(v) PROVE CheckAllInv'
  BY <1>4 DEF Set, Starts, Ends, CheckAllInv, CheckInv, CheckTellsTheTruth
<1>5. CASE pc \in {"read", "open", "fill", "version"} /\ cmd'.op = "set" /\ pc' # "check"
  BY <1>5 DEF CheckAllInv, CheckInv, CheckTellsTheTruth
<1>6. CASE Killed
  <2>1. pc' = "idle" /\ exit' = "killed"
    BY <1>6 DEF Killed, Ends
  <2>2. QED BY <2>1 DEF CheckAllInv, CheckInv, CheckTellsTheTruth
<1>7. CASE EditVersion
  BY <1>7, EditsUnsettle DEF EditVersion, CheckAllInv, CheckInv, CheckTellsTheTruth
<1>8. ASSUME NEW t \in Targets, EditTarget(t) PROVE CheckAllInv'
  BY <1>8, EditsUnsettle DEF EditTarget, CheckAllInv, CheckInv, CheckTellsTheTruth
<1>9. CASE UNCHANGED vars
  BY <1>9 DEF vars, CheckAllInv, CheckInv, CheckTellsTheTruth, Quiet, Agreement, Found
<1>10. CASE ReadTarget \/ OpenTarget \/ FillTarget \/ OpenVersion \/ FillVersion \/ WriteFails
  <2>1. pc \in {"read", "open", "fill", "version"} /\ pc' # "check"
    BY <1>10 DEF ReadTarget, OpenTarget, FillTarget, OpenVersion, FillVersion, WriteFails, Ends
  <2>2. cmd'.op = cmd.op
    BY <1>10 DEF ReadTarget, OpenTarget, FillTarget, OpenVersion, FillVersion, WriteFails, TypeOK
  <2>3. QED BY <1>5, <2>1, <2>2 DEF Control
<1>11. QED
  BY <1>1, <1>2, <1>3, <1>4, <1>6, <1>7, <1>8, <1>9, <1>10 DEF Next

\* The gate of a release tells the truth: for any tree that nobody edits while
\* the check runs, ok means that every copy agrees, and a failure names exactly
\* the files that do not.
THEOREM ChecksTellTheTruth == Spec => []CheckTellsTheTruth
<1>1. CheckAllInv => CheckTellsTheTruth
  BY DEF CheckAllInv
<1>2. QED BY InitInv, TypeOfStep, InitCheckInv, CheckInvStep, <1>1, PTL DEF Spec

=============================================================================
