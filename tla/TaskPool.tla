-------------------------------- MODULE TaskPool --------------------------------
(***************************************************************************)
(* What the thread pool promises to its clients, with no locks, condition    *)
(* variables or moved-out entries: tasks start in the order in which they    *)
(* were queued, each once and at most `size' of them at a time, and a wait   *)
(* for a task ends only after the task. Tasks may be lost from the end of    *)
(* the queue; one that was lost never starts, and no wait for it ends.       *)
(* AsyncTaskExecutor implements this specification.                         *)
(***************************************************************************)
EXTENDS Sequences, Integers

CONSTANTS Tasks, NoTask, Clients,
          MaxConcurrency

Workers == 1..MaxConcurrency

VARIABLES waiting,      \* the queued tasks that may still start, in their order
          queued,       \* the tasks queued so far
          running,      \* [Workers -> the task it runs, or NoTask]
          done,         \* the tasks that have ended
          size,         \* how many workers there are
          target        \* [Clients -> the task it waits for, or NoTask]

vars == <<waiting, queued, running, done, size, target>>

Init ==
  /\ waiting = <<>> /\ queued = {} /\ done = {}
  /\ running = [w \in Workers |-> NoTask]
  /\ size \in Workers
  /\ target = [c \in Clients |-> NoTask]

QueueTask(t) ==
  /\ t \notin queued
  /\ waiting' = Append(waiting, t)
  /\ queued' = queued \cup {t}
  /\ UNCHANGED <<running, done, size, target>>

(* The last task may get lost, with or without a start of the first.         *)
DropLast(q) == SubSeq(q, 1, Len(q) - 1)

Start(w) ==
  /\ w <= size /\ running[w] = NoTask
  /\ waiting # <<>>
  /\ running' = [running EXCEPT ![w] = Head(waiting)]
  /\ waiting' \in {Tail(waiting), DropLast(Tail(waiting))}
  /\ UNCHANGED <<queued, done, size, target>>

Lose ==
  /\ waiting' = DropLast(waiting)
  /\ UNCHANGED <<queued, running, done, size, target>>

End(w) ==
  /\ running[w] # NoTask
  /\ running' = [running EXCEPT ![w] = NoTask]
  /\ done' = done \cup {running[w]}
  /\ UNCHANGED <<waiting, queued, size, target>>

WaitCompletion(c, t) ==
  /\ target[c] = NoTask /\ t \in queued \ done
  /\ target' = [target EXCEPT ![c] = t]
  /\ UNCHANGED <<waiting, queued, running, done, size>>

Return(c) ==
  /\ target[c] \in done
  /\ target' = [target EXCEPT ![c] = NoTask]
  /\ UNCHANGED <<waiting, queued, running, done, size>>

SetConcurrency(n) ==
  /\ \A w \in Workers : running[w] = NoTask
  /\ size' = n
  /\ UNCHANGED <<waiting, queued, running, done, target>>

Next ==
  \/ \E t \in Tasks : QueueTask(t)
  \/ \E w \in Workers : Start(w) \/ End(w) \/ SetConcurrency(w)
  \/ \E c \in Clients : Return(c) \/ \E t \in Tasks : WaitCompletion(c, t)
  \/ Lose

Spec == Init /\ [][Next]_vars
================================================================================
