SPECIFICATION Spec
CONSTANTS
  Tablets = {a, b}
  Dialogs = {d1, d2}
  Forms = {{price}}
  Initial = v0
  Values = {v0, v1, v2}
  MaxVersions = 2
  MaxEdits = 2
  MaxRunning = 2
  MaxShown = 1
  ReadsFail = FALSE
SYMMETRY MCSymmetry
INVARIANTS AskedOrKnown PublishedSeen
PROPERTIES NoEditLost NeverOlder
CHECK_DEADLOCK FALSE
