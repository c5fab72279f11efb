--------------------------- MODULE AsyncTaskExecutor ---------------------------
(***************************************************************************)
(* The thread pool of Core/Async: DefaultAsyncTaskExecutor, which runs     *)
(* queued tasks on its worker threads, and DefaultAsyncTask, on whose      *)
(* completion other threads wait.                                          *)
(*                                                                         *)
(* The two condition variables are modelled by what they do: a thread that *)
(* found its predicate false blocks in a later step, still holding the     *)
(* mutex, and only a thread that already blocks is woken by a notification. *)
(* Worker w exists while the pool runs; the thread that calls Terminate    *)
(* holds m_ThreadPoolLock until it has joined them all. What clients may   *)
(* rely on is the module TaskPool, which this one implements.              *)
(***************************************************************************)
EXTENDS Sequences, Naturals

CONSTANTS Tasks,            \* the tasks client code may queue, each once
          NoTask,           \* a moved-out entry of the queue
          Clients,          \* the threads that use the executor
          MaxConcurrency,   \* bound: worker threads
          MaxRuns,          \* bound: calls of Run that start the pool
          TasksAsk          \* whether a task may call IsRunning, Run or SetConcurrency

ASSUME ExecutorAssumption ==
  /\ NoTask \notin Tasks
  /\ MaxConcurrency \in Nat \ {0}
  /\ MaxRuns \in Nat
  /\ TasksAsk \in BOOLEAN

Workers == 1..MaxConcurrency

VARIABLES
  queue,            \* m_TaskQueue
  concurrency,      \* m_Concurrency
  shouldTerminate,  \* m_ShouldTerminate of the executor
  worker,           \* where each worker is in OnThread
  current,          \* the task it runs
  client,           \* where each client thread is
  target,           \* the task it waits for
  shouldWait,       \* [Tasks -> m_ShouldWait]
  shouldStop,       \* [Tasks -> m_ShouldTerminate]: IAsyncTask::Terminate was called
  completed,        \* the tasks with m_IsCompleted
  terminated,       \* the tasks with m_IsTerminated
  queued,           \* the tasks queued so far
  first,            \* those queued while the queue was empty
  started,          \* [Tasks -> times it was started]
  runs,             \* calls of Run that started the pool
  notifying         \* calls of QueueTask that are about to notify a worker

poolVars == <<concurrency, shouldTerminate, runs, notifying>>
waitVars == <<client, target, shouldWait>>
doneVars == <<completed, terminated>>
pastVars == <<queued, first>>
vars == <<queue, concurrency, shouldTerminate, worker, current, client, target, shouldWait,
          shouldStop, completed, terminated, queued, first, started, runs, notifying>>

Init ==
  /\ queue = <<>>
  /\ concurrency \in Workers
  /\ shouldTerminate = FALSE
  /\ worker = [w \in Workers |-> "none"]
  /\ current = [w \in Workers |-> NoTask]
  /\ client = [c \in Clients |-> "idle"]
  /\ target = [c \in Clients |-> NoTask]
  /\ shouldWait = [t \in Tasks |-> FALSE]
  /\ shouldStop = [t \in Tasks |-> FALSE]
  /\ completed = {} /\ terminated = {}
  /\ queued = {} /\ first = {}
  /\ started = [t \in Tasks |-> 0]
  /\ runs = 0
  /\ notifying = 0

PoolIsEmpty == \A w \in Workers : worker[w] = "none"

(* m_ThreadPoolLock, m_TaskQueueLock and the m_WaitLock of a task are free.  *)
PoolUnlocked  == \A c \in Clients : client[c] \notin {"notify", "join"}
QueueUnlocked == \A w \in Workers : worker[w] # "block"
WaitUnlocked(t) == \A c \in Clients : target[c] = t => client[c] \notin {"test", "block"}

Asleep == {w \in Workers : worker[w] = "asleep"}

(* The worker moves the first entry out and drops the last one.              *)
CopyFirst(q) == SubSeq(q, 1, Len(q) - 1)                           \* (variant)
TakeFirst(q) == SubSeq([q EXCEPT ![1] = NoTask], 1, Len(q) - 1)

--------------------------------------------------------------------------------
(* What any thread may call, from a client or from a running task.           *)

QueueInFront(t) ==                                                 \* (variant)
  /\ QueueUnlocked
  /\ t \notin queued
  /\ queue' = <<t>> \o queue
  /\ queued' = queued \cup {t}
  /\ first' = IF queue = <<>> THEN first \cup {t} ELSE first
  /\ notifying' = notifying + 1
  /\ UNCHANGED <<concurrency, shouldTerminate, runs, worker, current, waitVars, shouldStop,
                 doneVars, started>>
QueueTask(t) ==
  /\ QueueUnlocked
  /\ t \notin queued
  /\ queue' = Append(queue, t)
  /\ queued' = queued \cup {t}
  /\ first' = IF queue = <<>> THEN first \cup {t} ELSE first
  /\ notifying' = notifying + 1
  /\ UNCHANGED <<concurrency, shouldTerminate, runs, worker, current, waitVars, shouldStop,
                 doneVars, started>>

(* QueueTask notifies after it has released m_TaskQueueLock; notify_one wakes *)
(* one of the sleepers.                                                      *)
NotifyNobody ==                                                    \* (variant)
  /\ notifying > 0
  /\ notifying' = notifying - 1
  /\ UNCHANGED <<queue, concurrency, shouldTerminate, runs, worker, current, waitVars,
                 shouldStop, doneVars, pastVars, started>>
NotifyOne ==
  /\ notifying > 0
  /\ notifying' = notifying - 1
  /\ \/ \E w \in Asleep : worker' = [worker EXCEPT ![w] = "ready"]
     \/ Asleep = {} /\ UNCHANGED worker
  /\ UNCHANGED <<queue, concurrency, shouldTerminate, runs, current, waitVars, shouldStop,
                 doneVars, pastVars, started>>

TerminateTask(t) ==
  /\ t \in queued
  /\ ~shouldStop[t]
  /\ shouldStop' = [shouldStop EXCEPT ![t] = TRUE]
  /\ UNCHANGED <<queue, poolVars, worker, current, waitVars, doneVars, pastVars, started>>

--------------------------------------------------------------------------------
(* A client thread.                                                          *)

SetConcurrency(c, n) ==
  /\ client[c] = "idle" /\ PoolUnlocked
  /\ PoolIsEmpty
  /\ concurrency # n
  /\ concurrency' = n
  /\ UNCHANGED <<queue, shouldTerminate, runs, notifying, worker, current, waitVars, shouldStop,
                 doneVars, pastVars, started>>

Run(c) ==
  /\ client[c] = "idle" /\ PoolUnlocked
  /\ PoolIsEmpty
  /\ runs < MaxRuns
  /\ runs' = runs + 1
  /\ worker' = [w \in Workers |-> IF w <= concurrency THEN "ready" ELSE "none"]
  /\ UNCHANGED <<queue, concurrency, shouldTerminate, notifying, current, waitVars, shouldStop,
                 doneVars, pastVars, started>>

(* Terminate sets the flag without m_TaskQueueLock, notifies and joins.      *)
Terminate(c) ==
  /\ client[c] = "idle" /\ PoolUnlocked
  /\ ~PoolIsEmpty
  /\ shouldTerminate' = TRUE
  /\ client' = [client EXCEPT ![c] = "notify"]
  /\ UNCHANGED <<queue, concurrency, runs, notifying, worker, current, target, shouldWait, shouldStop,
                 doneVars, pastVars, started>>

NotifyAll(c) ==
  /\ client[c] = "notify"
  /\ worker' = [w \in Workers |-> IF w \in Asleep THEN "ready" ELSE worker[w]]
  /\ client' = [client EXCEPT ![c] = "join"]
  /\ UNCHANGED <<queue, poolVars, current, target, shouldWait, shouldStop, doneVars,
                 pastVars, started>>

Joined(c) ==
  /\ client[c] = "join"
  /\ \A w \in Workers : worker[w] \in {"none", "exited"}
  /\ worker' = [w \in Workers |-> "none"]
  /\ shouldTerminate' = FALSE
  /\ client' = [client EXCEPT ![c] = "idle"]
  /\ UNCHANGED <<queue, concurrency, runs, notifying, current, target, shouldWait, shouldStop, doneVars,
                 pastVars, started>>

(* WaitCompletion looks at the flags first; then it locks and waits until     *)
(* m_ShouldWait, which it sets, is reset.                                    *)
IsDone(t) == t \in completed \cup terminated

WaitCompletion(c, t) ==
  /\ client[c] = "idle"
  /\ t \in queued
  /\ ~IsDone(t)
  /\ client' = [client EXCEPT ![c] = "lock"]
  /\ target' = [target EXCEPT ![c] = t]
  /\ UNCHANGED <<queue, poolVars, worker, current, shouldWait, shouldStop, doneVars, pastVars,
                 started>>

SetShouldWait(c) ==
  /\ client[c] = "lock"
  /\ WaitUnlocked(target[c])
  /\ shouldWait' = [shouldWait EXCEPT ![target[c]] = TRUE]
  /\ client' = [client EXCEPT ![c] = "test"]
  /\ UNCHANGED <<queue, poolVars, worker, current, target, shouldStop, doneVars, pastVars,
                 started>>

NeverMustWait(c) == FALSE                                          \* (variant)
MustWait(c) == shouldWait[target[c]]

(* The predicate is true: block, and sleep in a later step.                   *)
KeepWaiting(c) ==
  /\ \/ client[c] = "test"
     \/ client[c] = "woken" /\ WaitUnlocked(target[c])
  /\ MustWait(c)
  /\ client' = [client EXCEPT ![c] = "block"]
  /\ UNCHANGED <<queue, poolVars, worker, current, target, shouldWait, shouldStop, doneVars,
                 pastVars, started>>

SleepWaiting(c) ==
  /\ client[c] = "block"
  /\ client' = [client EXCEPT ![c] = "asleep"]
  /\ UNCHANGED <<queue, poolVars, worker, current, target, shouldWait, shouldStop, doneVars,
                 pastVars, started>>

WaitReturns(c) ==
  /\ \/ client[c] = "test"
     \/ client[c] = "woken" /\ WaitUnlocked(target[c])
  /\ ~MustWait(c)
  /\ client' = [client EXCEPT ![c] = "idle"]
  /\ target' = [target EXCEPT ![c] = NoTask]
  /\ UNCHANGED <<queue, poolVars, worker, current, shouldWait, shouldStop, doneVars, pastVars,
                 started>>

--------------------------------------------------------------------------------
(* A worker in OnThread.                                                     *)

Goto(w, where) == worker' = [worker EXCEPT ![w] = where]

(* The predicate of the wait: terminate, take a task, or block.              *)
Exit(w) ==
  /\ worker[w] = "ready" /\ QueueUnlocked
  /\ shouldTerminate
  /\ Goto(w, "exited")
  /\ UNCHANGED <<queue, poolVars, current, waitVars, shouldStop, doneVars, pastVars, started>>

(* An entry that was moved out before is dropped; a task is started.         *)
TakeTask(w) ==
  LET t == Head(queue) IN
  /\ worker[w] = "ready" /\ QueueUnlocked
  /\ ~shouldTerminate
  /\ queue # <<>>
  /\ queue' = TakeFirst(queue)
  /\ \/ /\ t = NoTask
        /\ UNCHANGED <<worker, current, started>>
     \/ /\ t # NoTask
        /\ Goto(w, "running")
        /\ current' = [current EXCEPT ![w] = t]
        /\ started' = [started EXCEPT ![t] = @ + 1]
  /\ UNCHANGED <<poolVars, waitVars, shouldStop, doneVars, pastVars>>

Block(w) ==
  /\ worker[w] = "ready" /\ QueueUnlocked
  /\ ~shouldTerminate
  /\ queue = <<>>
  /\ Goto(w, "block")
  /\ UNCHANGED <<queue, poolVars, current, waitVars, shouldStop, doneVars, pastVars, started>>

FallAsleep(w) ==
  /\ worker[w] = "block"
  /\ Goto(w, "asleep")
  /\ UNCHANGED <<queue, poolVars, current, waitVars, shouldStop, doneVars, pastVars, started>>

(* The body of a task asks the executor whether it is running, which takes    *)
(* m_ThreadPoolLock.                                                         *)
AskExecutor(w) ==
  /\ TasksAsk
  /\ worker[w] = "running"
  /\ Goto(w, "asking")
  /\ UNCHANGED <<queue, poolVars, current, waitVars, shouldStop, doneVars, pastVars, started>>

ExecutorAnswers(w) ==
  /\ worker[w] = "asking" /\ PoolUnlocked
  /\ Goto(w, "running")
  /\ UNCHANGED <<queue, poolVars, current, waitVars, shouldStop, doneVars, pastVars, started>>

(* OnCompleted: the flags, then m_ShouldWait, without m_WaitLock.            *)
OnCompleted(w) ==
  LET t == current[w] IN
  /\ worker[w] = "running"
  /\ \/ shouldStop[t] /\ terminated' = terminated \cup {t} /\ UNCHANGED completed
     \/ ~shouldStop[t] /\ completed' = completed \cup {t} /\ UNCHANGED terminated
  /\ Goto(w, "completed")
  /\ UNCHANGED <<queue, poolVars, current, waitVars, shouldStop, pastVars, started>>

KeepTaskPointer(w) ==                                              \* (variant)
  /\ worker[w] = "completed"
  /\ ~shouldWait[current[w]]
  /\ Goto(w, "ready")
  /\ UNCHANGED <<queue, poolVars, current, waitVars, shouldStop, doneVars, pastVars, started>>
NobodyWaits(w) ==
  /\ worker[w] = "completed"
  /\ ~shouldWait[current[w]]
  /\ Goto(w, "ready")
  /\ current' = [current EXCEPT ![w] = NoTask]
  /\ UNCHANGED <<queue, poolVars, waitVars, shouldStop, doneVars, pastVars, started>>

NotifyWaiters(w) ==
  /\ worker[w] = "completed"
  /\ shouldWait[current[w]]
  /\ client' = [c \in Clients |-> IF target[c] = current[w] /\ client[c] = "asleep"
                                  THEN "woken" ELSE client[c]]
  /\ Goto(w, "notified")
  /\ UNCHANGED <<queue, poolVars, current, target, shouldWait, shouldStop, doneVars, pastVars,
                 started>>

ResetShouldWait(w) ==
  /\ worker[w] = "notified"
  /\ shouldWait' = [shouldWait EXCEPT ![current[w]] = FALSE]
  /\ Goto(w, "ready")
  /\ current' = [current EXCEPT ![w] = NoTask]
  /\ UNCHANGED <<queue, poolVars, client, target, shouldStop, doneVars, pastVars, started>>

(* Condition variables also wake without a notification.                     *)
SpuriousWakeUp ==
  /\ \/ /\ \E w \in Asleep : Goto(w, "ready")
        /\ UNCHANGED client
     \/ /\ \E c \in Clients : client[c] = "asleep" /\ client' = [client EXCEPT ![c] = "woken"]
        /\ UNCHANGED worker
  /\ UNCHANGED <<queue, poolVars, current, target, shouldWait, shouldStop, doneVars, pastVars,
                 started>>

--------------------------------------------------------------------------------

WaitStep(c) == SetShouldWait(c) \/ KeepWaiting(c) \/ SleepWaiting(c) \/ WaitReturns(c)
TerminateStep(c) == NotifyAll(c) \/ Joined(c)
WorkerStep(w) == \/ Exit(w) \/ TakeTask(w) \/ Block(w) \/ FallAsleep(w) \/ ExecutorAnswers(w)
                 \/ OnCompleted(w) \/ NobodyWaits(w) \/ NotifyWaiters(w) \/ ResetShouldWait(w)

Next == \/ \E t \in Tasks : QueueTask(t) \/ TerminateTask(t)
        \/ \E c \in Clients :
             \/ Run(c) \/ Terminate(c) \/ TerminateStep(c) \/ WaitStep(c)
             \/ \E n \in Workers : SetConcurrency(c, n)
             \/ \E t \in Tasks : WaitCompletion(c, t)
        \/ \E w \in Workers : WorkerStep(w) \/ AskExecutor(w)
        \/ NotifyOne \/ SpuriousWakeUp

(* A thread that can go on goes on, the locks are fair and the body of a task *)
(* ends. Nobody is bound to queue a task, to run or terminate the executor or *)
(* to wait, and no spurious wake-up is due.                                  *)
Fairness == /\ WF_vars(NotifyOne)
            /\ \A c \in Clients : WF_vars(TerminateStep(c)) /\ WF_vars(WaitStep(c))
            /\ \A w \in Workers : SF_vars(WorkerStep(w)) /\ SF_vars(OnCompleted(w))

Spec == Init /\ [][Next]_vars /\ Fairness

--------------------------------------------------------------------------------
(* PROPERTIES                                                                *)

(* The types of the variables; a worker holds a task exactly while it runs or *)
(* completes it (the shared_ptr of one turn of OnThread's loop), and a client  *)
(* has a target exactly while it is in WaitCompletion.                        *)
TypeOK ==
  /\ queue \in Seq(Tasks \cup {NoTask})
  /\ concurrency \in Workers
  /\ shouldTerminate \in BOOLEAN
  /\ worker \in [Workers -> {"none", "ready", "block", "asleep", "running", "asking",
                             "completed", "notified", "exited"}]
  /\ current \in [Workers -> Tasks \cup {NoTask}]
  /\ \A w \in Workers :
       current[w] # NoTask <=> worker[w] \in {"running", "asking", "completed", "notified"}
  /\ client \in [Clients -> {"idle", "notify", "join", "lock", "test", "block", "asleep",
                             "woken"}]
  /\ target \in [Clients -> Tasks \cup {NoTask}]
  /\ \A c \in Clients :
       target[c] # NoTask <=> client[c] \in {"lock", "test", "block", "asleep", "woken"}
  /\ shouldWait \in [Tasks -> BOOLEAN] /\ shouldStop \in [Tasks -> BOOLEAN]
  /\ completed \subseteq Tasks /\ terminated \subseteq Tasks
  /\ queued \subseteq Tasks /\ first \subseteq queued
  /\ started \in [Tasks -> Nat]
  /\ runs \in 0..MaxRuns
  /\ notifying \in Nat

(* Whatever the queue loses, no task is ever run twice, and the task a worker *)
(* runs or completes is its own.                                             *)
StartedAtMostOnce ==
  /\ \A t \in Tasks : started[t] <= 1
  /\ \A v, w \in Workers : current[v] # NoTask /\ current[v] = current[w] => v = w

(* A task queued on an empty queue is not lost: it is in the queue until a    *)
(* worker starts it. (OnThread drops the last entry instead of the first, so  *)
(* a task queued behind another entry may well be lost.)                     *)
InQueue(t) == \E i \in 1..Len(queue) : queue[i] = t
FirstTaskIsKept == \A t \in first : InQueue(t) \/ started[t] = 1

(* WaitCompletion does not return before the task has completed, although     *)
(* several waiters share one m_ShouldWait.                                   *)
WaitReturnsAfterCompletion ==
  [][\A c \in Clients : WaitReturns(c) => IsDone(target[c])]_vars

(* While the pool runs its queue is drained: no notification of QueueTask is  *)
(* lost.                                                                     *)
QueueIsDrained ==
  (queue # <<>> /\ ~PoolIsEmpty) ~> (queue = <<>> \/ shouldTerminate)

(* "Wake up all threads", "Join all threads" (Terminate): Terminate returns.  *)
TerminateReturns == \A c \in Clients : client[c] = "join" ~> client[c] = "idle"

(* However workers and clients race for the queue and for the flags of the     *)
(* tasks, and whatever the queue loses, the pool is the one of TaskPool: tasks *)
(* start in order, once, not more at a time than the concurrency, and waits   *)
(* end after their task (QueueTask, OnThread, WaitCompletion).                *)
Waiting == IF queue # <<>> /\ queue[1] = NoTask THEN Tail(queue) ELSE queue
Running == [w \in Workers |-> IF worker[w] \in {"running", "asking"} THEN current[w] ELSE NoTask]
Pool == INSTANCE TaskPool WITH waiting <- Waiting, running <- Running,
                               done <- completed \cup terminated, size <- concurrency
ImplementsTaskPool == Pool!Spec
================================================================================
