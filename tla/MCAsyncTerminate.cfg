\* Terminate sets m_ShouldTerminate without m_TaskQueueLock: a worker that
\* tested it just before goes to sleep after the notification.
CONSTANTS
  Tasks = {t1}
  NoTask = NoTask
  Clients = {c1}
  MaxConcurrency = 1
  MaxRuns = 1
  TasksAsk = FALSE
SPECIFICATION Spec
CHECK_DEADLOCK FALSE
PROPERTIES
  TerminateReturns
