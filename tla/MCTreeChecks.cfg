CONSTANTS
  TreePath = {a, b, c, d}
  Root = {a, b, c}
  MaxContent = 6
  WriteOnce = TRUE
  Artifact = {f}
  DirName = {"someone", "other", "topic"}
  Handle = {"someone", "other"}
  MaxLines = 2
INIT Init
NEXT Next
INVARIANT CleanMeansClosed FindingsAreReal
PROPERTY FindingsShrink
CHECK_DEADLOCK FALSE
