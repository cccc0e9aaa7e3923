\* One agent that reads and edits a file of which the browser has a tab open.
SPECIFICATION Spec
CONSTANTS
  Save = {b1}
  Write = {}
  Edit = {e1}
  MaxShell = 0
  Ends = {"git", b1}
INVARIANTS
  StaleMeansChanged
CHECK_DEADLOCK FALSE
