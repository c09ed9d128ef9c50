\* The user's source and another's; two requests at a time.
SPECIFICATION Spec
CONSTANTS
  None = None
  Names = {mine, other}
  Own = {mine}
  Servers = {c1}
  Files = {f1}
  Sqlite = sqlite
  Slots = {i1, i2}
SYMMETRY Symmetry
INVARIANT TypeOK
INVARIANT OneRemovalAtATime
INVARIANT ListsAreCurrent
INVARIANT EveryWaitHasItsRequest
PROPERTY AddsPassedTheirTest
\* A panel whose first list could not be read, or was empty, has no button left.
CHECK_DEADLOCK FALSE
