\* A worker and a terminal on one name; no fedctl is fair, and it may time out anywhere.
SPECIFICATION FairShimSpec
CONSTANTS
  None = None
  n1 = n1
  h1 = h1
  h2 = h2
  k1 = k1
  Names = {n1}
  Types = {"postgres", "sqlite"}
  Targets = {h1, h2}
  Secrets = {k1}
  Procs = {w1, p1}
  Workers = {w1}
  Users = {alice, bob}
  Managers = {alice}
  Operations = {"add", "remove"}
  Requests <- SomeSources
  Files <- NoFiles
  Faults <- AnyOfTwo
  MaxFaults = 1
  MaxLate = 1
INVARIANT ShimTypeOK
INVARIANT ListShowsTheHub
INVARIANT ReadsAreTruthful
INVARIANT AuditMatchesTheHub
INVARIANT StatusTellsTheOutcome
PROPERTY OnlyRemovalsDrop
PROPERTY EveryRequestIsAnswered
