\* The dream of one run against the start of the next.
SPECIFICATION Spec
CONSTANTS
  Message = {m1, m2}
  Op = {}
  Canceller = {}
  Write = {}
  Coordinator = TRUE
  None = None
INVARIANTS
  DreamYieldsToRun
CHECK_DEADLOCK FALSE
