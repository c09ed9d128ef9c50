\* One worker and a timeout; no statement fails.
SPECIFICATION ShimSpec
CONSTANTS
  None = None
  n1 = n1
  h1 = h1
  h2 = h2
  k1 = k1
  Names = {n1}
  Types = {"postgres", "sqlite"}
  Targets = {h1, h2}
  Secrets = {k1}
  Procs = {w1}
  Workers = {w1}
  Users = {alice}
  Managers = {alice}
  Operations = {"add", "remove"}
  Requests <- SomeSources
  Files <- NoFiles
  Faults <- NoFaults
  MaxFaults = 0
  MaxLate = 0
INVARIANT MutationsAreAudited
