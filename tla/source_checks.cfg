SPECIFICATION Spec

CONSTANTS
  ValidNames <- OkName
  Requests <- SmallRequests
  Numeral <- SmallNumeral
  Trim <- SmallTrim
  Lower <- SmallLower
  Denied <- SmallDenied
  Worlds <- SmallWorlds
  UserFiles <- FilesDir
  Loopback = "127.0.0.1"
  MaxChanges = 1

INVARIANT TypeOK
INVARIANT OnlyPermittedHostsAreReached
INVARIANT TestedSourcesAreAccepted
INVARIANT RefusalsAreJustified
INVARIANT AcceptedSourcesAreWellFormed
