\* Two messages, the titles and dreams they leave behind, a cancel and the stop.
SPECIFICATION FairSpec
CONSTANTS
  Message = {m1, m2}
  Op = {}
  Canceller = {c1}
  Write = {}
  Coordinator = TRUE
  None = None
INVARIANTS
  TitleYieldsToRun
PROPERTIES
  EveryRunProgresses
CHECK_DEADLOCK FALSE
