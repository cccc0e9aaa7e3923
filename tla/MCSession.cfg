\* Two messages race a clear or compact, a cancel and the session's stop.
SPECIFICATION Spec
CONSTANTS
  Message = {m1, m2}
  Op = {o1, o2}
  Canceller = {c1}
  Write = {w1}
  Coordinator = FALSE
  None = None
SYMMETRY Symmetric
INVARIANTS
  TypeOK
  SessionIsExclusive
  HistoryIsHeld
  WritesEndWithTheRun
  CancelHitsItsRun
CHECK_DEADLOCK FALSE
