\* The same file is applied again, and the second statement is refused.
SPECIFICATION Spec
CONSTANTS
  None = None
  n1 = n1
  n2 = n2
  h1 = h1
  h2 = h2
  k1 = k1
  Names = {n1}
  Types = {"postgres", "sqlite"}
  Targets = {h1, h2}
  Secrets = {k1}
  Procs = {p1}
  Operations = {"apply"}
  Requests <- OneName
  Files <- OneFile
  Faults <- AttachRefused
  MaxFaults = 1
INVARIANT ApplyIsSafeToRerun
