\* Two metadata databases; secrets are generated at most twice, one thing goes wrong or is
\* edited by hand.
SPECIFICATION FairSpec
CONSTANTS
  None = None
  Sqlite = sqlite
  Typed = typed
  u1 = u1
  Uris = {u1, u2}
  Shells <- ShellEnvironments
  MaxGenerations = 2
  MaxMishaps = 1
INVARIANT TypeOK
INVARIANT SupersetRunsOnPostgres
INVARIANT SuccessMeansAgreement
PROPERTY RerunsSucceed
