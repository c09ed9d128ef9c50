\* One fedctl after the other, every operation and everything that goes wrong.
SPECIFICATION FairSpec
CONSTANTS
  None = None
  n1 = n1
  n2 = n2
  h1 = h1
  h2 = h2
  k1 = k1
  Names = {n1, n2}
  Types = {"postgres", "mysql", "sqlite"}
  Targets = {h1, h2}
  Secrets = {k1}
  Procs = {p1}
  Operations = {"add", "remove", "apply"}
  Requests <- TwoNames
  Files <- Edits
  Faults <- AnyFault
  MaxFaults = 2
INVARIANT TypeOK
INVARIANT CredentialsBehindEveryDatabase
INVARIANT NothingOrphaned
INVARIANT AddToldTheTruth
INVARIANT ApplyAttemptsEverySource
PROPERTY OnlyRemoveDropsADatabase
PROPERTY RemoveReportsWhatItDropped
PROPERTY ImplementsRegistry
PROPERTY EveryInvocationReturns
