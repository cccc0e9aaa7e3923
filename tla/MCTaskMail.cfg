\* One worker that may be stopped, two senders that retry, a mailbox that
\* fills up; the endings under fairness.
SPECIFICATION FairSpec
CONSTANTS
  Task = {t1}
  Name = {n1}
  Msg = {m1, m2}
  NoName = NoName
  Capacity = 1
  MaxWorkers = 1
  LaunchesAtOnce = 1
  MaxReports = 1
  LaunchKinds = {"worker", "resumed", "tracked", "plain", "bash"}
  MailTo = {t1}
INVARIANTS MailOnceInOrder AcknowledgedMailIsKept
PROPERTIES EveryAnnouncedWorkerFinishes
CHECK_DEADLOCK FALSE
