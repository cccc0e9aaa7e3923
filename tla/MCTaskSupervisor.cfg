\* Two launches that overlap, may ask for the same name, and may be stopped.
SPECIFICATION Spec
CONSTANTS
  Task = {t1, t2}
  Name = {n1}
  Msg = {}
  NoName = NoName
  Capacity = 1
  MaxWorkers = 2
  LaunchesAtOnce = 2
  MaxReports = 1
  MailTo = {}
  LaunchKinds = {"worker", "resumed", "tracked", "plain", "bash"}
SYMMETRY Symmetric
INVARIANTS TypeOK OutcomeIsTold NamesResolve
PROPERTIES WorkerStreamKept
CHECK_DEADLOCK FALSE
