\* Two tasks, two workers and a thread that uses the executor: it queues tasks,
\* waits for them, starts and terminates the pool; tasks may ask the executor
\* whether it runs. Nobody is bound to do anything, so the system may stop.
CONSTANTS
  Tasks = {t1, t2}
  NoTask = NoTask
  Clients = {c1}
  MaxConcurrency = 2
  MaxRuns = 2
  TasksAsk = TRUE
SPECIFICATION Spec
CHECK_DEADLOCK FALSE
INVARIANTS
  TypeOK
  FirstTaskIsKept
PROPERTIES
  QueueIsDrained
  WaitReturnsAfterCompletion
  ImplementsTaskPool
