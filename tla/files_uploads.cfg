\* Two uploads, a seed and a reader on one name, two at a time; anything goes wrong.
SPECIFICATION Spec
CONSTANTS
  None = None
  small = small
  full = full
  big = big
  Puts = {u1, u2}
  Seeds = {s1}
  Readers = {r1}
  FileNames = {f1}
  Data = {small, full, big}
  Length <- Pieces
  Limit = 2
  Inodes = {i1, i2, i3}
  MaxRunning = 2
  Faults = {"failed", "cut", "killed", "unfinished"}
  MaxFaults = 1
SYMMETRY Symmetry
INVARIANT TypeOK
INVARIANT NamedFilesAreWhole
INVARIANT SeededFilesGetWhole
INVARIANT ReadersSeeOneVersion
INVARIANT TempsBelongToUploads
PROPERTY OnlyLateFilesAreOverwritten
