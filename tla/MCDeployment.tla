---------------------------- MODULE MCDeployment ----------------------------
(***************************************************************************)
(* Instances of Deployment for TLC: a shell that exports nothing, one with *)
(* what an unattended install is given, and one that overrides the other   *)
(* password of the hub's for a single command.                             *)
(***************************************************************************)
EXTENDS Deployment

CONSTANT u1

ShellEnvironments ==
  {Blank,
   [Blank EXCEPT !["uri"] = u1, !["admin"] = Typed, !["bi"] = Typed],
   [Blank EXCEPT !["fed"] = Typed]}
=============================================================================
