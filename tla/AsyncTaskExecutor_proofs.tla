------------------------ MODULE AsyncTaskExecutor_proofs ------------------------
(***************************************************************************)
(* For any number of tasks, workers and clients, whatever the queue loses:   *)
(* no task runs twice, a task queued on an empty queue is kept until a        *)
(* worker starts it, no wait for a task returns before it is done, and the    *)
(* executor implements TaskPool.                                             *)
(*                                                                         *)
(* ExecutorInv is TypeOK and four facts. QueueOK: the tasks of the queue are  *)
(* different ones that never started. StartOK: a worker's task was started,   *)
(* once, by that worker. FirstOK: a task queued on an empty queue is at its   *)
(* front until it starts; TakeFirst cuts the queue at its end, so nothing    *)
(* else can be there. WaitOK: m_ShouldWait is reset only by the worker that   *)
(* completed the task, so who waits for a task that is not done finds it set. *)
(***************************************************************************)
EXTENDS AsyncTaskExecutor, TLAPS

QueueOK ==
  /\ \A i \in 1..Len(queue) : queue[i] # NoTask => queue[i] \in queued /\ started[queue[i]] = 0
  /\ \A i, j \in 1..Len(queue) : queue[i] # NoTask /\ queue[i] = queue[j] => i = j

StartOK ==
  /\ \A t \in Tasks : started[t] \in {0, 1} /\ (started[t] = 1 => t \in queued)
  /\ \A w \in Workers : current[w] # NoTask => started[current[w]] = 1
  /\ \A v, w \in Workers : current[v] # NoTask /\ current[v] = current[w] => v = w

FirstOK == \A t \in first : started[t] = 1 \/ (queue # <<>> /\ queue[1] = t)

WaitOK ==
  /\ \A w \in Workers : worker[w] \in {"completed", "notified"} => IsDone(current[w])
  /\ \A c \in Clients :
       client[c] \in {"test", "block", "asleep", "woken"} =>
         IsDone(target[c]) \/ shouldWait[target[c]]

ExecutorInv == TypeOK /\ QueueOK /\ StartOK /\ FirstOK /\ WaitOK

Busy == {"running", "asking", "completed", "notified"}
Free == {"none", "ready", "block", "asleep", "exited"}

--------------------------------------------------------------------------------

LEMMA ExecutorInit == Init => ExecutorInv
<1>. SUFFICES ASSUME Init PROVE ExecutorInv
  OBVIOUS
<1>. USE ExecutorAssumption
<1>1. TypeOK
  <2>1. /\ \A w \in Workers : current[w] = NoTask /\ worker[w] = "none"
        /\ \A c \in Clients : target[c] = NoTask /\ client[c] = "idle"
    BY DEF Init
  <2>2. /\ queue \in Seq(Tasks \cup {NoTask}) /\ started \in [Tasks -> Nat]
        /\ shouldWait \in [Tasks -> BOOLEAN] /\ shouldStop \in [Tasks -> BOOLEAN]
        /\ runs \in 0..MaxRuns
    BY DEF Init
  <2>. QED
    BY <2>1, <2>2 DEF Init, TypeOK
<1>2. QueueOK /\ StartOK /\ FirstOK
  BY DEF Init, QueueOK, StartOK, FirstOK
<1>3. WaitOK
  BY DEF Init, WaitOK
<1>. QED
  BY <1>1, <1>2, <1>3 DEF ExecutorInv

(* What is left of a queue once its first entry was moved out.               *)
LEMMA TakeFirstProperties ==
  ASSUME NEW q \in Seq(Tasks \cup {NoTask}), q # <<>>
  PROVE  /\ TakeFirst(q) \in Seq(Tasks \cup {NoTask})
         /\ Len(TakeFirst(q)) = Len(q) - 1
         /\ \A i \in 1..(Len(q) - 1) : TakeFirst(q)[i] = IF i = 1 THEN NoTask ELSE q[i]
<1> DEFINE r == [q EXCEPT ![1] = NoTask]
<1>1. Len(q) \in Nat /\ Len(q) >= 1
  OBVIOUS
<1>2. r \in Seq(Tasks \cup {NoTask}) /\ Len(r) = Len(q)
  BY <1>1
<1>3. \A i \in 1..Len(q) : r[i] = IF i = 1 THEN NoTask ELSE q[i]
  BY <1>1
<1>. QED
  BY <1>1, <1>2, <1>3 DEF TakeFirst

(* Steps that leave the queue, the tasks and what was started alone.          *)
Calm == UNCHANGED <<queue, current, queued, first, started>>

LEMMA CalmKeepsTasks ==
  ASSUME QueueOK, StartOK, FirstOK, Calm
  PROVE  QueueOK' /\ StartOK' /\ FirstOK'
BY DEF QueueOK, StartOK, FirstOK, Calm

--------------------------------------------------------------------------------
(* The queue.                                                                *)

LEMMA QueueTaskInv ==
  ASSUME ExecutorInv, NEW t \in Tasks, QueueTask(t)
  PROVE  ExecutorInv'
<1>. USE ExecutorAssumption
<1> DEFINE n == Len(queue)
<1>1. /\ queue \in Seq(Tasks \cup {NoTask}) /\ n \in Nat
      /\ queue' = Append(queue, t) /\ queue' \in Seq(Tasks \cup {NoTask})
      /\ Len(queue') = n + 1 /\ queue'[n + 1] = t
      /\ \A i \in 1..n : queue'[i] = queue[i]
      /\ t # NoTask /\ t \notin queued
  BY DEF ExecutorInv, TypeOK, QueueTask
<1>2. TypeOK'
  BY <1>1 DEF ExecutorInv, TypeOK, QueueTask, waitVars, doneVars
<1>3. started' = started /\ current' = current /\ queued' = queued \cup {t}
  BY DEF QueueTask
<1>4. started[t] = 0 /\ \A i \in 1..n : queue[i] # t
  BY <1>1 DEF ExecutorInv, StartOK, QueueOK
<1>5. QueueOK'
  <2>1. \A i \in 1..(n + 1) : i \in 1..n \/ i = n + 1
    BY <1>1
  <2>. QED
    BY <1>1, <1>3, <1>4, <2>1 DEF ExecutorInv, QueueOK
<1>6. StartOK'
  BY <1>3 DEF ExecutorInv, StartOK
<1>7. FirstOK'
  <2>1. CASE queue = <<>>
    <3>1. queue' # <<>> /\ queue'[1] = t /\ first' = first \cup {t}
      BY <1>1, <2>1 DEF QueueTask
    <3>. QED
      BY <3>1, <1>3, <2>1 DEF ExecutorInv, FirstOK
  <2>2. CASE queue # <<>>
    <3>1. 1 \in 1..n /\ queue' # <<>> /\ queue'[1] = queue[1] /\ first' = first
      BY <1>1, <2>2 DEF QueueTask
    <3>. QED
      BY <3>1, <1>3, <2>2 DEF ExecutorInv, FirstOK
  <2>. QED
    BY <2>1, <2>2
<1>8. WaitOK'
  BY DEF ExecutorInv, WaitOK, QueueTask, IsDone, waitVars, doneVars
<1>. QED
  BY <1>2, <1>5, <1>6, <1>7, <1>8 DEF ExecutorInv

LEMMA TakeTaskInv ==
  ASSUME ExecutorInv, NEW w \in Workers, TakeTask(w)
  PROVE  ExecutorInv'
<1>. USE ExecutorAssumption
<1> DEFINE n == Len(queue)
           t == Head(queue)
<1>1. queue \in Seq(Tasks \cup {NoTask}) /\ queue # <<>> /\ n \in Nat /\ n >= 1 /\ t = queue[1]
  BY DEF ExecutorInv, TypeOK, TakeTask
<1>2. queue' = TakeFirst(queue)
  BY DEF TakeTask
<1>3. /\ queue' \in Seq(Tasks \cup {NoTask}) /\ Len(queue') = n - 1
      /\ \A i \in 1..(n - 1) : i \in 1..n /\ queue'[i] = IF i = 1 THEN NoTask ELSE queue[i]
  BY <1>1, <1>2, TakeFirstProperties
<1>4. /\ 1 \in 1..n /\ t \in Tasks \cup {NoTask}
      /\ t # NoTask => t \in queued /\ started[t] = 0 /\ \A i \in 1..n : queue[i] = t => i = 1
  <2>1. 1 \in 1..n /\ t \in Tasks \cup {NoTask}
    BY <1>1
  <2>. QED
    BY <2>1, <1>1 DEF ExecutorInv, QueueOK
<1>5. UNCHANGED <<queued, first, client, target, shouldWait, shouldStop, completed, terminated,
                  concurrency, shouldTerminate, runs, notifying>>
  BY DEF TakeTask, poolVars, waitVars, doneVars, pastVars
<1>6. CASE t = NoTask
  <2>1. UNCHANGED <<worker, current, started>>
    BY <1>6 DEF TakeTask
  <2>2. TypeOK'
    BY <1>3, <1>5, <2>1 DEF ExecutorInv, TypeOK
  <2>3. QueueOK'
    BY <1>3, <1>5, <2>1 DEF ExecutorInv, QueueOK
  <2>4. StartOK' /\ WaitOK'
    BY <1>5, <2>1 DEF ExecutorInv, StartOK, WaitOK, IsDone
  <2>5. FirstOK'
    <3>1. first \subseteq Tasks
      BY DEF ExecutorInv, TypeOK
    <3>. QED
      BY <3>1, <1>1, <1>5, <1>6, <2>1 DEF ExecutorInv, FirstOK
  <2>. QED
    BY <2>2, <2>3, <2>4, <2>5 DEF ExecutorInv
<1>7. CASE t # NoTask
  <2>1. /\ worker' = [worker EXCEPT ![w] = "running"]
        /\ current' = [current EXCEPT ![w] = t]
        /\ started' = [started EXCEPT ![t] = @ + 1]
        /\ t \in Tasks
    BY <1>4, <1>7 DEF TakeTask, Goto
  <2>2. /\ started \in [Tasks -> Nat] /\ started'[t] = 1
        /\ \A x \in Tasks : x # t => started'[x] = started[x]
        /\ started' \in [Tasks -> Nat]
    BY <2>1, <1>4, <1>7 DEF ExecutorInv, TypeOK
  <2>3. TypeOK'
    BY <1>3, <1>5, <1>7, <2>1, <2>2 DEF ExecutorInv, TypeOK
  <2>4. QueueOK'
    <3>1. \A i \in 1..Len(queue') : queue'[i] # NoTask =>
            /\ i \in 1..n /\ queue'[i] = queue[i] /\ queue[i] # t
            /\ queue[i] \in Tasks
      BY <1>1, <1>3, <1>4, <1>7
    <3>. QED
      BY <3>1, <2>2, <1>5 DEF ExecutorInv, QueueOK
  <2>5. StartOK'
    <3>1. current \in [Workers -> Tasks \cup {NoTask}]
      BY DEF ExecutorInv, TypeOK
    <3>2. \A v \in Workers : current[v] # t
      BY <1>4, <1>7 DEF ExecutorInv, StartOK
    <3>3. /\ current'[w] = t
          /\ \A v \in Workers : v # w => current'[v] = current[v]
      BY <2>1, <3>1
    <3>4. \A x \in Tasks : started'[x] \in {0, 1} /\ (started'[x] = 1 => x \in queued')
      BY <2>2, <1>4, <1>5, <1>7 DEF ExecutorInv, StartOK
    <3>5. \A v \in Workers : current'[v] # NoTask => started'[current'[v]] = 1
      BY <3>1, <3>2, <3>3, <2>2 DEF ExecutorInv, StartOK
    <3>6. \A u, v \in Workers : current'[u] # NoTask /\ current'[u] = current'[v] => u = v
      BY <3>2, <3>3 DEF ExecutorInv, StartOK
    <3>. QED
      BY <3>4, <3>5, <3>6 DEF StartOK
  <2>6. FirstOK'
    <3>1. first \subseteq Tasks
      BY DEF ExecutorInv, TypeOK
    <3>. QED
      BY <3>1, <1>1, <1>5, <2>2 DEF ExecutorInv, FirstOK
  <2>7. WaitOK'
    <3>1. /\ worker \in [Workers -> Busy \cup Free] /\ current \in [Workers -> Tasks \cup {NoTask}]
      BY DEF ExecutorInv, TypeOK, Busy, Free
    <3>. QED
      BY <3>1, <1>5, <2>1 DEF ExecutorInv, WaitOK, IsDone
  <2>. QED
    BY <2>3, <2>4, <2>5, <2>6, <2>7 DEF ExecutorInv
<1>. QED
  BY <1>6, <1>7

--------------------------------------------------------------------------------
(* The threads of the pool.                                                  *)

LEMMA CalmInv ==
  ASSUME ExecutorInv, Calm, TypeOK', WaitOK'
  PROVE  ExecutorInv'
BY CalmKeepsTasks DEF ExecutorInv

LEMMA NotifyOneInv == ASSUME ExecutorInv, NotifyOne PROVE ExecutorInv'
<1>1. Calm
  BY DEF NotifyOne, Calm, pastVars
<1>2. TypeOK'
  <2>1. /\ worker' \in [Workers -> Busy \cup Free]
        /\ \A w \in Workers : current[w] # NoTask <=> worker'[w] \in Busy
    <3>1. /\ worker \in [Workers -> Busy \cup Free]
          /\ \A w \in Workers : current[w] # NoTask <=> worker[w] \in Busy
      BY DEF ExecutorInv, TypeOK, Busy, Free
    <3>2. CASE UNCHANGED worker
      BY <3>1, <3>2
    <3>3. CASE \E w \in Asleep : worker' = [worker EXCEPT ![w] = "ready"]
      BY <3>1, <3>3 DEF Asleep, Busy, Free
    <3>. QED
      BY <3>2, <3>3 DEF NotifyOne
  <2>2. notifying' \in Nat
    BY DEF ExecutorInv, TypeOK, NotifyOne
  <2>. QED
    BY <2>1, <2>2 DEF ExecutorInv, TypeOK, NotifyOne, waitVars, doneVars, pastVars, Busy, Free
<1>3. WaitOK'
  BY DEF ExecutorInv, TypeOK, WaitOK, NotifyOne, Asleep, IsDone, waitVars, doneVars
<1>. QED
  BY <1>1, <1>2, <1>3, CalmInv

LEMMA PoolInv ==
  ASSUME ExecutorInv, NEW c \in Clients,
         Run(c) \/ Terminate(c) \/ TerminateStep(c) \/ \E n \in Workers : SetConcurrency(c, n)
  PROVE  ExecutorInv'
<1>1. CASE Run(c)
  <2>1. Calm
    BY <1>1 DEF Run, Calm, pastVars
  <2>2. TypeOK'
    <3>1. \A w \in Workers : worker[w] = "none" /\ worker'[w] \in {"ready", "none"}
      BY <1>1 DEF Run, PoolIsEmpty
    <3>2. worker' = [w \in Workers |-> worker'[w]]
      BY <1>1 DEF Run
    <3>3. runs' \in 0..MaxRuns
      BY <1>1, ExecutorAssumption DEF Run, ExecutorInv, TypeOK
    <3>. QED
      BY <1>1, <3>1, <3>2, <3>3 DEF ExecutorInv, TypeOK, Run, waitVars, doneVars, pastVars
  <2>3. WaitOK'
    BY <1>1 DEF ExecutorInv, WaitOK, Run, IsDone, waitVars, doneVars
  <2>. QED
    BY <2>1, <2>2, <2>3, CalmInv
<1>2. CASE Terminate(c)
  <2>1. Calm
    BY <1>2 DEF Terminate, Calm, pastVars
  <2>2. TypeOK'
    BY <1>2 DEF ExecutorInv, TypeOK, Terminate, doneVars, pastVars
  <2>3. WaitOK'
    BY <1>2 DEF ExecutorInv, TypeOK, WaitOK, Terminate, IsDone, doneVars
  <2>. QED
    BY <2>1, <2>2, <2>3, CalmInv
<1>3. CASE NotifyAll(c)
  <2>1. Calm
    BY <1>3 DEF NotifyAll, Calm, pastVars
  <2>2. TypeOK'
    BY <1>3 DEF ExecutorInv, TypeOK, NotifyAll, Asleep, poolVars, doneVars, pastVars
  <2>3. WaitOK'
    BY <1>3 DEF ExecutorInv, TypeOK, WaitOK, NotifyAll, Asleep, IsDone, doneVars
  <2>. QED
    BY <2>1, <2>2, <2>3, CalmInv
<1>4. CASE Joined(c)
  <2>1. Calm
    BY <1>4 DEF Joined, Calm, pastVars
  <2>2. TypeOK'
    BY <1>4 DEF ExecutorInv, TypeOK, Joined, doneVars, pastVars
  <2>3. WaitOK'
    BY <1>4 DEF ExecutorInv, TypeOK, WaitOK, Joined, IsDone, doneVars
  <2>. QED
    BY <2>1, <2>2, <2>3, CalmInv
<1>5. ASSUME NEW n \in Workers, SetConcurrency(c, n)
      PROVE  ExecutorInv'
  <2>1. Calm
    BY <1>5 DEF SetConcurrency, Calm, pastVars
  <2>2. TypeOK'
    BY <1>5 DEF ExecutorInv, TypeOK, SetConcurrency, waitVars, doneVars, pastVars
  <2>3. WaitOK'
    BY <1>5 DEF ExecutorInv, WaitOK, SetConcurrency, IsDone, waitVars, doneVars
  <2>. QED
    BY <2>1, <2>2, <2>3, CalmInv
<1>. QED
  BY <1>1, <1>2, <1>3, <1>4, <1>5 DEF TerminateStep

--------------------------------------------------------------------------------
(* The tasks.                                                                *)

LEMMA TerminateTaskInv ==
  ASSUME ExecutorInv, NEW t \in Tasks, TerminateTask(t)
  PROVE  ExecutorInv'
<1>1. Calm
  BY DEF TerminateTask, Calm, pastVars
<1>2. TypeOK'
  BY DEF ExecutorInv, TypeOK, TerminateTask, poolVars, waitVars, doneVars, pastVars
<1>3. WaitOK'
  BY DEF ExecutorInv, WaitOK, TerminateTask, IsDone, waitVars, doneVars
<1>. QED
  BY <1>1, <1>2, <1>3, CalmInv

(* Who waits tests m_ShouldWait after it has set it.                          *)
LEMMA WaitInv ==
  ASSUME ExecutorInv, NEW c \in Clients,
         WaitStep(c) \/ \E t \in Tasks : WaitCompletion(c, t)
  PROVE  ExecutorInv'
<1>. USE ExecutorAssumption
<1>1. ASSUME NEW t \in Tasks, WaitCompletion(c, t)
      PROVE  ExecutorInv'
  <2>1. Calm
    BY <1>1 DEF WaitCompletion, Calm, pastVars
  <2>2. TypeOK'
    BY <1>1 DEF ExecutorInv, TypeOK, WaitCompletion, poolVars, doneVars, pastVars
  <2>3. WaitOK'
    BY <1>1 DEF ExecutorInv, TypeOK, WaitOK, WaitCompletion, IsDone, doneVars
  <2>. QED
    BY <2>1, <2>2, <2>3, CalmInv
<1>2. CASE SetShouldWait(c)
  <2>1. Calm
    BY <1>2 DEF SetShouldWait, Calm, pastVars
  <2>2. target[c] \in Tasks
    BY <1>2 DEF ExecutorInv, TypeOK, SetShouldWait
  <2>3. TypeOK'
    BY <1>2, <2>2 DEF ExecutorInv, TypeOK, SetShouldWait, poolVars, doneVars, pastVars
  <2>4. WaitOK'
    BY <1>2, <2>2 DEF ExecutorInv, TypeOK, WaitOK, SetShouldWait, IsDone, doneVars
  <2>. QED
    BY <2>1, <2>3, <2>4, CalmInv
<1>3. CASE KeepWaiting(c)
  <2>1. Calm
    BY <1>3 DEF KeepWaiting, Calm, pastVars
  <2>2. TypeOK'
    BY <1>3 DEF ExecutorInv, TypeOK, KeepWaiting, poolVars, doneVars, pastVars
  <2>3. WaitOK'
    BY <1>3 DEF ExecutorInv, TypeOK, WaitOK, KeepWaiting, IsDone, doneVars
  <2>. QED
    BY <2>1, <2>2, <2>3, CalmInv
<1>4. CASE SleepWaiting(c)
  <2>1. Calm
    BY <1>4 DEF SleepWaiting, Calm, pastVars
  <2>2. TypeOK'
    BY <1>4 DEF ExecutorInv, TypeOK, SleepWaiting, poolVars, doneVars, pastVars
  <2>3. WaitOK'
    BY <1>4 DEF ExecutorInv, TypeOK, WaitOK, SleepWaiting, IsDone, doneVars
  <2>. QED
    BY <2>1, <2>2, <2>3, CalmInv
<1>5. CASE WaitReturns(c)
  <2>1. Calm
    BY <1>5 DEF WaitReturns, Calm, pastVars
  <2>2. TypeOK'
    BY <1>5 DEF ExecutorInv, TypeOK, WaitReturns, poolVars, doneVars, pastVars
  <2>3. WaitOK'
    BY <1>5 DEF ExecutorInv, TypeOK, WaitOK, WaitReturns, IsDone, doneVars
  <2>. QED
    BY <2>1, <2>2, <2>3, CalmInv
<1>. QED
  BY <1>1, <1>2, <1>3, <1>4, <1>5 DEF WaitStep

--------------------------------------------------------------------------------
(* The workers.                                                              *)

(* A turn of OnThread that starts and ends no task.                           *)
Turn(w) == Exit(w) \/ Block(w) \/ FallAsleep(w) \/ AskExecutor(w) \/ ExecutorAnswers(w)

LEMMA TurnInv ==
  ASSUME ExecutorInv, NEW w \in Workers, Turn(w)
  PROVE  ExecutorInv'
<1>1. /\ UNCHANGED <<queue, poolVars, current, waitVars, shouldStop, doneVars, pastVars, started>>
      /\ \/ worker[w] \in {"ready", "block"}
            /\ \E at \in {"exited", "block", "asleep"} : worker' = [worker EXCEPT ![w] = at]
         \/ worker[w] \in {"running", "asking"}
            /\ \E at \in {"running", "asking"} : worker' = [worker EXCEPT ![w] = at]
  BY DEF Turn, Exit, Block, FallAsleep, AskExecutor, ExecutorAnswers, Goto
<1>2. Calm
  BY <1>1 DEF Calm, pastVars
<1>3. TypeOK'
  BY <1>1 DEF ExecutorInv, TypeOK, poolVars, waitVars, doneVars, pastVars
<1>4. WaitOK'
  BY <1>1 DEF ExecutorInv, TypeOK, WaitOK, IsDone, waitVars, doneVars
<1>. QED
  BY <1>2, <1>3, <1>4, CalmInv

LEMMA OnCompletedInv ==
  ASSUME ExecutorInv, NEW w \in Workers, OnCompleted(w)
  PROVE  ExecutorInv'
<1>. USE ExecutorAssumption
<1>1. Calm
  BY DEF OnCompleted, Calm, pastVars
<1>2. current[w] \in Tasks
  BY DEF ExecutorInv, TypeOK, OnCompleted
<1>3. TypeOK'
  BY <1>2 DEF ExecutorInv, TypeOK, OnCompleted, Goto, poolVars, waitVars, pastVars
<1>4. WaitOK'
  BY <1>2 DEF ExecutorInv, TypeOK, WaitOK, OnCompleted, Goto, IsDone, waitVars
<1>. QED
  BY <1>1, <1>3, <1>4, CalmInv

LEMMA NotifyWaitersInv ==
  ASSUME ExecutorInv, NEW w \in Workers, NotifyWaiters(w)
  PROVE  ExecutorInv'
<1>1. Calm
  BY DEF NotifyWaiters, Calm, pastVars
<1>2. TypeOK'
  BY DEF ExecutorInv, TypeOK, NotifyWaiters, Goto, poolVars, doneVars, pastVars
<1>3. WaitOK'
  BY DEF ExecutorInv, TypeOK, WaitOK, NotifyWaiters, Goto, IsDone, doneVars
<1>. QED
  BY <1>1, <1>2, <1>3, CalmInv

(* The worker drops its task, which is done.                                 *)
LEMMA DropTaskInv ==
  ASSUME ExecutorInv, NEW w \in Workers, NobodyWaits(w) \/ ResetShouldWait(w)
  PROVE  ExecutorInv'
<1>. USE ExecutorAssumption
<1>1. /\ worker' = [worker EXCEPT ![w] = "ready"] /\ current' = [current EXCEPT ![w] = NoTask]
      /\ UNCHANGED <<queue, poolVars, client, target, shouldStop, doneVars, pastVars, started>>
      /\ \/ UNCHANGED shouldWait
         \/ shouldWait' = [shouldWait EXCEPT ![current[w]] = FALSE]
      /\ worker[w] \in {"completed", "notified"}
  BY DEF NobodyWaits, ResetShouldWait, Goto, waitVars
<1>2. current[w] \in Tasks /\ IsDone(current[w])
  BY <1>1 DEF ExecutorInv, TypeOK, WaitOK
<1>3. TypeOK'
  BY <1>1, <1>2 DEF ExecutorInv, TypeOK, poolVars, doneVars, pastVars
<1>4. QueueOK' /\ FirstOK'
  BY <1>1 DEF ExecutorInv, QueueOK, FirstOK, pastVars
<1>5. StartOK'
  BY <1>1 DEF ExecutorInv, TypeOK, StartOK, pastVars
<1>6. WaitOK'
  BY <1>1, <1>2 DEF ExecutorInv, TypeOK, WaitOK, IsDone, doneVars
<1>. QED
  BY <1>3, <1>4, <1>5, <1>6 DEF ExecutorInv

LEMMA SpuriousWakeUpInv == ASSUME ExecutorInv, SpuriousWakeUp PROVE ExecutorInv'
<1>1. Calm
  BY DEF SpuriousWakeUp, Calm, pastVars
<1>2. TypeOK'
  BY DEF ExecutorInv, TypeOK, SpuriousWakeUp, Asleep, Goto, poolVars, doneVars, pastVars
<1>3. WaitOK'
  BY DEF ExecutorInv, TypeOK, WaitOK, SpuriousWakeUp, Asleep, Goto, IsDone, doneVars
<1>. QED
  BY <1>1, <1>2, <1>3, CalmInv

--------------------------------------------------------------------------------

LEMMA ExecutorNext == ExecutorInv /\ [Next]_vars => ExecutorInv'
<1>. SUFFICES ASSUME ExecutorInv, [Next]_vars PROVE ExecutorInv'
  OBVIOUS
<1>1. ASSUME NEW t \in Tasks, QueueTask(t) \/ TerminateTask(t)
      PROVE  ExecutorInv'
  BY <1>1, QueueTaskInv, TerminateTaskInv
<1>2. ASSUME NEW c \in Clients,
             \/ Run(c) \/ Terminate(c) \/ TerminateStep(c) \/ WaitStep(c)
             \/ \E n \in Workers : SetConcurrency(c, n)
             \/ \E t \in Tasks : WaitCompletion(c, t)
      PROVE  ExecutorInv'
  BY <1>2, PoolInv, WaitInv
<1>3. ASSUME NEW w \in Workers, WorkerStep(w) \/ AskExecutor(w)
      PROVE  ExecutorInv'
  BY <1>3, TakeTaskInv, TurnInv, OnCompletedInv, NotifyWaitersInv, DropTaskInv
     DEF WorkerStep, Turn
<1>4. CASE UNCHANGED vars
  <2>1. Calm /\ TypeOK' /\ WaitOK'
    BY <1>4 DEF vars, Calm, ExecutorInv, TypeOK, WaitOK, IsDone
  <2>. QED
    BY <2>1, CalmInv
<1>. QED
  BY <1>1, <1>2, <1>3, <1>4, NotifyOneInv, SpuriousWakeUpInv DEF Next

(* The types of the variables; a worker has a task exactly while it runs or    *)
(* completes it, a client a target while it is in WaitCompletion.             *)
THEOREM ExecutorTypeCorrect == Spec => []TypeOK
<1>1. ExecutorInv => TypeOK
  BY DEF ExecutorInv
<1>. QED
  BY <1>1, ExecutorInit, ExecutorNext, PTL DEF Spec

(* OnThread never starts a task twice, and no two workers have the same one.   *)
THEOREM StartedOnce == Spec => []StartedAtMostOnce
<1>1. ExecutorInv => StartedAtMostOnce
  BY DEF ExecutorInv, StartOK, StartedAtMostOnce
<1>. QED
  BY <1>1, ExecutorInit, ExecutorNext, PTL DEF Spec

(* A task that QueueTask put on an empty queue stays there until OnThread      *)
(* starts it, although OnThread drops the last entry instead of the first.    *)
THEOREM FirstTaskKept == Spec => []FirstTaskIsKept
<1>1. ExecutorInv => FirstTaskIsKept
  <2>. SUFFICES ASSUME ExecutorInv, NEW t \in first PROVE InQueue(t) \/ started[t] = 1
    BY DEF FirstTaskIsKept
  <2>1. queue # <<>> => 1 \in 1..Len(queue)
    BY DEF ExecutorInv, TypeOK
  <2>. QED
    BY <2>1 DEF ExecutorInv, FirstOK, InQueue
<1>. QED
  BY <1>1, ExecutorInit, ExecutorNext, PTL DEF Spec

(* WaitCompletion does not return before the task is done, however many        *)
(* threads share the task's m_ShouldWait and wake without a notification.     *)
THEOREM WaitsForCompletion == Spec => WaitReturnsAfterCompletion
<1>1. ExecutorInv /\ [Next]_vars =>
        [\A c \in Clients : WaitReturns(c) => IsDone(target[c])]_vars
  BY DEF ExecutorInv, WaitOK, WaitReturns, MustWait
<1>. QED
  BY <1>1, ExecutorInit, ExecutorNext, PTL DEF Spec, WaitReturnsAfterCompletion

--------------------------------------------------------------------------------
(* The refinement of TaskPool. Only the workers of the pool's size exist.      *)
PoolOK == \A w \in Workers : worker[w] # "none" => w <= concurrency

LEMMA PoolNext == ExecutorInv /\ PoolOK /\ [Next]_vars => PoolOK'
<1>. SUFFICES ASSUME ExecutorInv, PoolOK, [Next]_vars PROVE PoolOK'
  OBVIOUS
<1>1. ASSUME concurrency' = concurrency,
             \A w \in Workers : worker'[w] # "none" => worker[w] # "none"
      PROVE  PoolOK'
  BY <1>1 DEF PoolOK
<1>2. ASSUME NEW c \in Clients, Run(c)
      PROVE  PoolOK'
  BY <1>2 DEF PoolOK, Run
<1>3. ASSUME NEW c \in Clients, NEW n \in Workers, SetConcurrency(c, n)
      PROVE  PoolOK'
  BY <1>3 DEF PoolOK, SetConcurrency, PoolIsEmpty
<1>4. ASSUME NEW c \in Clients, NotifyAll(c) \/ Joined(c)
      PROVE  PoolOK'
  BY <1>4, <1>1 DEF NotifyAll, Joined, Asleep, poolVars
<1>5. ASSUME NEW c \in Clients, \/ Terminate(c) \/ WaitStep(c)
                                \/ \E t \in Tasks : WaitCompletion(c, t)
      PROVE  PoolOK'
  BY <1>5, <1>1 DEF Terminate, WaitStep, SetShouldWait, KeepWaiting, SleepWaiting, WaitReturns,
                    WaitCompletion, poolVars
<1>6. ASSUME NEW t \in Tasks, QueueTask(t) \/ TerminateTask(t)
      PROVE  PoolOK'
  BY <1>6, <1>1 DEF QueueTask, TerminateTask, poolVars
<1>7. ASSUME NEW w \in Workers, WorkerStep(w) \/ AskExecutor(w)
      PROVE  PoolOK'
  <2>1. worker[w] # "none"
    BY <1>7 DEF WorkerStep, Exit, TakeTask, Block, FallAsleep, ExecutorAnswers, OnCompleted,
                NobodyWaits, NotifyWaiters, ResetShouldWait, AskExecutor
  <2>2. concurrency' = concurrency /\ (UNCHANGED worker \/ \E at : Goto(w, at))
    BY <1>7 DEF WorkerStep, Exit, TakeTask, Block, FallAsleep, ExecutorAnswers, OnCompleted,
                NobodyWaits, NotifyWaiters, ResetShouldWait, AskExecutor, poolVars
  <2>. QED
    BY <1>1, <2>1, <2>2 DEF Goto, ExecutorInv, TypeOK
<1>8. CASE NotifyOne \/ SpuriousWakeUp
  BY <1>8, <1>1 DEF NotifyOne, SpuriousWakeUp, Asleep, Goto, ExecutorInv, TypeOK, poolVars
<1>9. CASE UNCHANGED vars
  BY <1>9, <1>1 DEF vars
<1>. QED
  BY <1>2, <1>3, <1>4, <1>5, <1>6, <1>7, <1>8, <1>9 DEF Next, TerminateStep

(* What waits in a queue whose first entry may have been moved out.          *)
WaitingIn(q) == IF q # <<>> /\ q[1] = NoTask THEN Tail(q) ELSE q

LEMMA AppendWaits ==
  ASSUME NEW q \in Seq(Tasks \cup {NoTask}), NEW t \in Tasks
  PROVE  WaitingIn(Append(q, t)) = Append(WaitingIn(q), t)
<1>1. t # NoTask
  BY ExecutorAssumption
<1>2. CASE q = <<>>
  <2>1. Append(q, t) = <<t>> /\ Append(q, t)[1] = t
    BY <1>2
  <2>. QED
    BY <1>1, <1>2, <2>1 DEF WaitingIn
<1>3. CASE q # <<>>
  <2>1. Append(q, t)[1] = q[1] /\ Append(q, t) # <<>>
    BY <1>3
  <2>2. Tail(Append(q, t)) = Append(Tail(q), t)
    BY <1>3
  <2>. QED
    BY <1>3, <2>1, <2>2 DEF WaitingIn
<1>. QED
  BY <1>2, <1>3

(* The worker takes the first entry; the last one is lost.                   *)
LEMMA TakeFirstWaits ==
  ASSUME NEW q \in Seq(Tasks \cup {NoTask}), q # <<>>
  PROVE  WaitingIn(TakeFirst(q)) = Pool!DropLast(Tail(q))
<1> DEFINE n == Len(q)
           r == TakeFirst(q)
           s == Pool!DropLast(Tail(q))
<1>1. /\ n \in Nat /\ n >= 1 /\ r \in Seq(Tasks \cup {NoTask}) /\ Len(r) = n - 1
      /\ \A i \in 1..(n - 1) : r[i] = IF i = 1 THEN NoTask ELSE q[i]
  BY TakeFirstProperties
<1>2. /\ Tail(q) \in Seq(Tasks \cup {NoTask}) /\ Len(Tail(q)) = n - 1
      /\ \A i \in 1..(n - 1) : Tail(q)[i] = q[i + 1]
  BY <1>1
<1>3. CASE n = 1
  <2> DEFINE u == Tail(q)
  <2>1. /\ r \in Seq(Tasks \cup {NoTask}) /\ Len(r) = 0
        /\ u \in Seq(Tasks \cup {NoTask}) /\ Len(u) = 0
    BY <1>1, <1>2, <1>3
  <2> HIDE DEF r, u
  <2>2. r = <<>> /\ u = <<>>
    BY <2>1
  <2>3. s = <<>>
    <3>1. SubSeq(u, 1, 0 - 1) = <<>>
      BY <2>1
    <3>. QED
      BY <2>1, <3>1 DEF Pool!DropLast, u
  <2>. QED
    BY <2>2, <2>3 DEF WaitingIn, r
<1>4. CASE n > 1
  <2>1. r # <<>> /\ r[1] = NoTask
    BY <1>1, <1>4
  <2>2. /\ Tail(r) \in Seq(Tasks \cup {NoTask}) /\ Len(Tail(r)) = n - 2
        /\ \A i \in 1..(n - 2) : Tail(r)[i] = q[i + 1]
    <3>1. Tail(r) \in Seq(Tasks \cup {NoTask}) /\ Len(Tail(r)) = n - 2
      BY <1>1, <1>4, <2>1
    <3>2. \A i \in 1..(n - 2) : Tail(r)[i] = r[i + 1] /\ i + 1 \in 1..(n - 1) /\ i + 1 # 1
      BY <1>1, <1>4, <2>1
    <3>. QED
      BY <1>1, <3>1, <3>2
  <2>3. /\ s \in Seq(Tasks \cup {NoTask}) /\ Len(s) = n - 2
        /\ \A i \in 1..(n - 2) : s[i] = q[i + 1]
    BY <1>1, <1>2, <1>4 DEF Pool!DropLast
  <2> HIDE DEF n, r, s
  <2>4. Tail(r) = s
    BY <1>1, <2>2, <2>3
  <2>. QED
    BY <2>1, <2>4 DEF WaitingIn, r, s
<1>. QED
  BY <1>1, <1>3, <1>4

--------------------------------------------------------------------------------

RunningOf(w) == IF worker[w] \in {"running", "asking"} THEN current[w] ELSE NoTask

LEMMA RunningStays ==
  ASSUME \A w \in Workers : RunningOf(w)' = RunningOf(w),
         UNCHANGED <<queue, queued, completed, terminated>>
  PROVE  Running' = Running /\ UNCHANGED <<Waiting, queued, completed \cup terminated>>
BY DEF Running, RunningOf, Waiting

LEMMA QueueTaskQueues ==
  ASSUME ExecutorInv, NEW t \in Tasks, QueueTask(t)
  PROVE  Pool!QueueTask(t)
<1>1. queue \in Seq(Tasks \cup {NoTask})
  BY DEF ExecutorInv, TypeOK
<1>2. Waiting' = Append(Waiting, t)
  BY <1>1, AppendWaits DEF QueueTask, Waiting, WaitingIn
<1>. QED
  BY <1>2 DEF QueueTask, Pool!QueueTask, Running, doneVars, waitVars

LEMMA TakeTaskStarts ==
  ASSUME ExecutorInv, PoolOK, NEW w \in Workers, TakeTask(w)
  PROVE  Pool!Start(w) \/ Pool!Lose
<1>. USE ExecutorAssumption
<1>1. /\ queue \in Seq(Tasks \cup {NoTask}) /\ queue # <<>> /\ Head(queue) = queue[1]
      /\ queue' = TakeFirst(queue) /\ worker[w] = "ready"
      /\ UNCHANGED <<queued, completed, terminated, concurrency, target>>
  BY DEF ExecutorInv, TypeOK, TakeTask, poolVars, waitVars, doneVars, pastVars
<1>2. Waiting' = Pool!DropLast(Tail(queue))
  BY <1>1, TakeFirstWaits DEF Waiting, WaitingIn
<1>3. CASE Head(queue) = NoTask
  <2>1. UNCHANGED <<worker, current>>
    BY <1>3 DEF TakeTask
  <2>2. Waiting = Tail(queue)
    BY <1>1, <1>3 DEF Waiting
  <2>. QED
    BY <1>1, <1>2, <2>1, <2>2 DEF Pool!Lose, Running
<1>4. CASE Head(queue) # NoTask
  <2>1. /\ worker' = [worker EXCEPT ![w] = "running"]
        /\ current' = [current EXCEPT ![w] = Head(queue)]
    BY <1>4 DEF TakeTask, Goto
  <2>2. Waiting = queue
    BY <1>1, <1>4 DEF Waiting
  <2>3. w <= concurrency
    BY <1>1 DEF PoolOK
  <2>4. Running[w] = NoTask
    BY <1>1 DEF Running
  <2>5. Running' = [Running EXCEPT ![w] = Head(queue)]
    <3>1. worker \in [Workers -> Busy \cup Free] /\ current \in [Workers -> Tasks \cup {NoTask}]
      BY DEF ExecutorInv, TypeOK, Busy, Free
    <3>. QED
      BY <2>1, <3>1 DEF Running
  <2>. QED
    BY <1>1, <1>2, <2>2, <2>3, <2>4, <2>5 DEF Pool!Start
<1>. QED
  BY <1>3, <1>4

LEMMA OnCompletedEnds ==
  ASSUME ExecutorInv, NEW w \in Workers, OnCompleted(w)
  PROVE  Pool!End(w)
<1>. USE ExecutorAssumption
<1>1. /\ worker[w] = "running" /\ worker' = [worker EXCEPT ![w] = "completed"]
      /\ UNCHANGED <<queue, current, queued, concurrency, target>>
      /\ completed' \cup terminated' = (completed \cup terminated) \cup {current[w]}
  BY DEF OnCompleted, Goto, poolVars, waitVars, pastVars
<1>2. Running[w] = current[w] /\ current[w] \in Tasks
  BY <1>1 DEF Running, ExecutorInv, TypeOK
<1>3. Running' = [Running EXCEPT ![w] = NoTask]
  BY <1>1 DEF Running, ExecutorInv, TypeOK
<1>4. Waiting' = Waiting
  BY <1>1 DEF Waiting
<1>. QED
  BY <1>1, <1>2, <1>3, <1>4 DEF Pool!End

LEMMA WaitWaits ==
  ASSUME ExecutorInv, NEW c \in Clients, NEW t \in Tasks, WaitCompletion(c, t)
  PROVE  Pool!WaitCompletion(c, t)
<1>1. target[c] = NoTask
  BY DEF ExecutorInv, TypeOK, WaitCompletion
<1>. QED
  BY <1>1 DEF WaitCompletion, Pool!WaitCompletion, IsDone, Waiting, Running, poolVars, doneVars,
              pastVars

LEMMA WaitReturnsReturns ==
  ASSUME ExecutorInv, NEW c \in Clients, WaitReturns(c)
  PROVE  Pool!Return(c)
<1>1. target[c] \in completed \cup terminated
  BY DEF ExecutorInv, WaitOK, WaitReturns, MustWait, IsDone
<1>. QED
  BY <1>1 DEF WaitReturns, Pool!Return, Waiting, Running, poolVars, doneVars, pastVars

LEMMA SetConcurrencySets ==
  ASSUME NEW c \in Clients, NEW n \in Workers, SetConcurrency(c, n)
  PROVE  Pool!SetConcurrency(n)
<1>1. Pool!Workers = Workers
  BY DEF Pool!Workers, Workers
<1>. QED
  BY <1>1 DEF SetConcurrency, PoolIsEmpty, Pool!SetConcurrency, Waiting, Running, waitVars,
              doneVars, pastVars

(* Locks, notifications, flags and the other turns of a worker are invisible.  *)
LEMMA PoolStutters ==
  ASSUME ExecutorInv,
         \/ \E c \in Clients :
              \/ Run(c) \/ Terminate(c) \/ NotifyAll(c) \/ Joined(c)
              \/ SetShouldWait(c) \/ KeepWaiting(c) \/ SleepWaiting(c)
         \/ \E w \in Workers :
              Turn(w) \/ NobodyWaits(w) \/ NotifyWaiters(w) \/ ResetShouldWait(w)
         \/ \E t \in Tasks : TerminateTask(t)
         \/ NotifyOne \/ SpuriousWakeUp \/ UNCHANGED vars
  PROVE  UNCHANGED Pool!vars
<1>1. UNCHANGED <<queue, queued, completed, terminated, concurrency, target>>
  BY DEF Run, Terminate, NotifyAll, Joined, SetShouldWait, KeepWaiting, SleepWaiting, Turn, Exit,
         Block, FallAsleep, AskExecutor, ExecutorAnswers, NobodyWaits, NotifyWaiters,
         ResetShouldWait, TerminateTask, NotifyOne, SpuriousWakeUp, vars, poolVars, waitVars,
         doneVars, pastVars
<1>2. worker \in [Workers -> Busy \cup Free] /\ current \in [Workers -> Tasks \cup {NoTask}]
  BY DEF ExecutorInv, TypeOK, Busy, Free
<1>3. ASSUME NEW v \in Workers PROVE RunningOf(v)' = RunningOf(v)
  <2>1. ASSUME UNCHANGED current, worker[v] \in {"running", "asking"}
                                    <=> worker'[v] \in {"running", "asking"}
        PROVE  RunningOf(v)' = RunningOf(v)
    BY <2>1 DEF RunningOf
  <2>2. ASSUME NEW c \in Clients,
               \/ Run(c) \/ Terminate(c) \/ NotifyAll(c) \/ Joined(c)
               \/ SetShouldWait(c) \/ KeepWaiting(c) \/ SleepWaiting(c)
        PROVE  RunningOf(v)' = RunningOf(v)
    BY <2>1, <2>2 DEF Run, PoolIsEmpty, Terminate, NotifyAll, Asleep, Joined, SetShouldWait,
                      KeepWaiting, SleepWaiting
  <2>3. ASSUME NEW w \in Workers, Turn(w)
        PROVE  RunningOf(v)' = RunningOf(v)
    BY <1>2, <2>1, <2>3 DEF Turn, Exit, Block, FallAsleep, AskExecutor, ExecutorAnswers, Goto
  <2>4. ASSUME NEW w \in Workers, NobodyWaits(w) \/ NotifyWaiters(w) \/ ResetShouldWait(w)
        PROVE  RunningOf(v)' = RunningOf(v)
    BY <1>2, <2>4 DEF NobodyWaits, NotifyWaiters, ResetShouldWait, Goto, RunningOf
  <2>5. ASSUME NEW t \in Tasks, TerminateTask(t)
        PROVE  RunningOf(v)' = RunningOf(v)
    BY <2>1, <2>5 DEF TerminateTask
  <2>6. CASE NotifyOne \/ SpuriousWakeUp
    BY <1>2, <2>1, <2>6 DEF NotifyOne, SpuriousWakeUp, Asleep, Goto
  <2>7. CASE UNCHANGED vars
    BY <2>1, <2>7 DEF vars
  <2>. QED
    BY <2>2, <2>3, <2>4, <2>5, <2>6, <2>7
<1>. QED
  BY <1>1, <1>3, RunningStays DEF Pool!vars

LEMMA StepImplementsPool ==
  ASSUME ExecutorInv, PoolOK, [Next]_vars
  PROVE  [Pool!Next]_Pool!vars
<1>1. ASSUME NEW t \in Tasks, QueueTask(t)
      PROVE  Pool!Next
  BY <1>1, QueueTaskQueues DEF Pool!Next
<1>2. ASSUME NEW c \in Clients,
             \/ WaitReturns(c) \/ \E t \in Tasks : WaitCompletion(c, t)
             \/ \E n \in Workers : SetConcurrency(c, n)
      PROVE  Pool!Next
  BY <1>2, WaitWaits, WaitReturnsReturns, SetConcurrencySets DEF Pool!Next, Pool!Workers, Workers
<1>3. ASSUME NEW w \in Workers, TakeTask(w) \/ OnCompleted(w)
      PROVE  Pool!Next
  BY <1>3, TakeTaskStarts, OnCompletedEnds DEF Pool!Next, Pool!Workers, Workers
<1>. QED
  BY <1>1, <1>2, <1>3, PoolStutters DEF Next, TerminateStep, WaitStep, WorkerStep, Turn

(* For any number of tasks, workers, clients and runs of the pool: tasks start *)
(* in the order in which QueueTask queued them, once and at most m_Concurrency *)
(* at a time, and a wait ends after its task.                                *)
THEOREM ExecutorImplementsPool == Spec => ImplementsTaskPool
<1>1. Init => Pool!Init /\ PoolOK
  BY DEF Init, Pool!Init, Pool!Workers, Workers, Waiting, Running, PoolOK
<1>2. Spec => []ExecutorInv
  BY ExecutorInit, ExecutorNext, PTL DEF Spec
<1>3. Spec => []PoolOK
  BY <1>1, <1>2, PoolNext, PTL DEF Spec
<1>. QED
  BY <1>1, <1>2, <1>3, StepImplementsPool, PTL DEF Spec, ImplementsTaskPool, Pool!Spec
================================================================================
