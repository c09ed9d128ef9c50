\* The panel of a hub that has no sources.
SPECIFICATION Spec
CONSTANTS
  None = None
  Names = {mine, other}
  Own = {mine}
  Servers = {c1}
  Files = {f1}
  Sqlite = sqlite
  Slots = {i1, i2}
INVARIANT AnEmptyHubIsShown
CHECK_DEADLOCK FALSE
