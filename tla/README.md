# A TLA+ development for kxf-framework

`kxf` is a C++ framework on top of wxWidgets: an event system, an application
with an event loop, asynchronous tasks, and a large body of value types, file,
network and drawing code. This directory holds TLA+ models of the parts where
threads, nested calls and callbacks meet, the TLC configurations that check
them on small instances, and theorems about them checked by TLAPS.

Source paths below are relative to the repository's `src/kxf/`. `PROJECT.json`
maps every definition that models code to the lines it stands for, and lists the
hazards, runs, mutated definitions, findings and theorems.

- [1. The system](#1-the-system)
- [2. The modules and the code](#2-the-modules-and-the-code)
- [3. What the runs check](#3-what-the-runs-check)
- [4. Fairness](#4-fairness)
- [5. What is proved](#5-what-is-proved)
- [6. Where the code and its comments disagree](#6-where-the-code-and-its-comments-disagree)
- [7. What is not modelled](#7-what-is-not-modelled)
- [8. The plan](#8-the-plan)
- [9. How to run it](#9-how-to-run-it)

## 1. The system

### Components, their state and their operations

| Component | State | Operations | Interacts with |
|---|---|---|---|
| Pending events (`EventSystem/EvtHandler.cpp`, `Application/CoreApplication.cpp`) | per handler: `m_PendingEvents` under `m_PendingEventsLock`; per application: `m_PendingEvtHandlers` and `m_DelayedPendingEvtHandlers` under `m_PendingEvtHandlersLock` | `DoQueueEvent`, `ProcessPendingEvents`, `DiscardPendingEvents`; `Add-`, `Remove-`, `DelayPendingEventHandler`, `ProcessPendingEventHandlers`, `DiscardPendingEventHandlers` | any thread queues; the main thread processes from the loop, from a yield and from nested loops |
| Event loop (`Application/Private/*EventLoop.cpp`, `Application/IEventLoop.*`) | the active loop, the yield flags and the categories a yield allows, the wake-up event, exit flags | `OnRun`, `DispatchEvents`, `Dispatch`, `YieldFor`, `WakeUp`, `Exit`, `ScheduleExit`, the loop activator | calls `ProcessPendingEventHandlers`; is woken by `DoQueueEvent` |
| Event table (`EventSystem/EvtHandler.cpp`, `EventItem.h`) | `m_EventTable`, `m_EventBindSlot` under the recursive `m_EventTableLock` | `DoBind`, `DoUnbind` by ID and executor or by slot, `UnbindAll`, `SearchEventTable` | its handlers bind, unbind and process events on the same table |
| Event processing (`EvtHandler.cpp`, `IEventFilter`) | the event's private flags (started, processed once, will be processed again, requeued, async) | `TryBefore`, `TryLocally`, `TryHereOnly`, `TryChain`, `TryAfter`, `TryApp`, event filters | chain of handlers, application |
| Blocking events (`BasicEvent.cpp`, `Private/EventWaitInfo.h`) | wait information, the `Waitable` flag | `WaitProcessed`, `SignalProcessed`, `PutWaitResult` | a worker thread waits for the main thread |
| Handler chains (`EventHandlerStack.*`, `EventBroadcastProcessor.*`) | the doubly linked chain `m_PrevHandler`/`m_NextHandler` | `Push`, `PushBottom`, `Pop`, `PopBottom`, `Remove`, `Clear`, `EnumItems`, `Unlink` | event processing walks the chain |
| Thread pool (`Core/Async/DefaultAsync*`) | `m_ThreadPool`, `m_TaskQueue`, `m_Concurrency`, `m_ShouldTerminate`, two locks and a condition; per task its flags, `m_WaitLock` and a condition | `Run`, `Terminate`, `SetConcurrency`, `QueueTask`, `OnThread`; task: `Execute`, `Terminate`, `WaitCompletion`, `OnCompleted` | clients queue and wait; workers run client code |
| Coroutines (`Core/Async/Coroutine/`) | the coroutine's instruction and parameters | `Run`, `Yield...`, `Terminate`, delayed calls | queued on the application as events |
| Application (`CoreApplication.cpp`, `ApplicationInitializer.cpp`) | active loop, event filters, objects scheduled for destruction, stored exceptions | initialise, run, exit, `ScheduleForDestruction`, `FinalizeScheduledForDestruction` | everything above |
| Pool allocator (`Core/StupidMemoryAllocator.*`) | the page table, the hint of the first free page, the region, its page size | `AllocatePool`, `AttachPool`, `FreePool`, `SetPageSize`, `Allocate`, `Free` | any thread, under `m_Lock` |
| RPC over window messages (`RPC/`) | the server's client and procedure tables, the client's session | register, invoke, broadcast, cleanup of dead clients | two processes through window messages and shared memory |
| Web requests (`Network/CURLWebSession/`) | `m_State`, `m_NextState` | `Start`, `Pause`, `Resume`, `Cancel`, libcurl's callbacks | client thread and worker thread |
| Threading primitives (`Threading/`) | handles of Windows primitives | lock, unlock, wait, signal | used by all of the above |

The other components (strings, values, streams, archives, cryptography,
serialization, XML, the file system, registry, processes, localization, log,
drawing, widgets) are listed in `PROJECT.json` with the reason they are left
out: sequential value types and conversions that unit tests reach, wrappers of
operating system or third-party calls, and GUI code.

### What is hard in it

- **Interleaving.** Any thread queues events and dispatches handlers while the
  main thread processes, yields, nests and destroys. Two locks guard a queue and
  the list it is in; a third guards the table.
- **Reentrancy.** A handler runs in the middle of the walk that called it and may
  call back into the same object: process another event, bind, unbind, yield,
  destroy the object, throw.
- **Sleeping and waking.** The main loop sleeps between its look at the list and
  its wait; workers and waiters sleep on conditions whose predicates are changed
  outside the mutex.
- **Ordering.** A selective yield takes events out of the middle of a queue;
  unique events replace pending ones; slots and entries are reused.
- **Failure.** An exception, a veto or a discard leaves a walk half done.

What makes each modelled component correct:

- *Pending events*: a posted event is delivered at most once, in order, and not
  left behind; a handler is listed exactly while it has events; no list points to a
  dead handler; the main thread does not sleep over a pending event.
- *Event table*: a search sees each binding once, from the newest to the oldest,
  whatever its handlers do; a bind slot never names two items; nothing is erased
  below an iterator.
- *Event processing and handler chains*: the pointers of a chain are what pushes and
  removals promise; an event is offered once to every handler that stays in its chain, in
  order, and once to the filters and to the application; the walk ends, unless handlers
  move themselves.
- *Blocking events*: a wait that returns gives the event back, processed; the event has
  one owner at a time; a poster that sleeps is woken.
- *Application*: the active loop is the innermost one; a loop told to exit ends;
  scheduled objects are destroyed, but not under their handlers; a coroutine has one owner.
- *Thread pool*: a task runs at most once; a wait returns after the completion; the
  queue is drained; termination ends.
- *Pool allocator*: blocks do not share pages and have room; they lie in the pool, which the
  code does not ensure for the last one (section 6); the scan of the table ends.

## 2. The modules and the code

| Module | Role |
|---|---|
| `EventQueue` | abstract: what posting, delivery and dropping of events promise |
| `PendingEvents` | the queues, lists, locks and loop that implement `EventQueue` |
| `MCPendingEvents` | instances of `PendingEvents` for TLC |
| `Bindings` | abstract: what an event table promises, as a set of bindings |
| `EventTable` | the event table of one handler, which implements `Bindings` |
| `HandlerStack` | chains of handlers: the links of `EvtHandler` and `EvtHandlerStack` |
| `EventDispatch` | the way of an event through filters, a chain and the application, above `HandlerStack` |
| `MCEventDispatch` | the bases of the two stacks for TLC |
| `BlockingCall` | abstract: what dispatching to a blocking binding promises, a call |
| `BlockingEvent` | a blocking binding between worker threads and the main thread, which implements `BlockingCall` |
| `Application` | the main thread: loops, exceptions, destruction queue, coroutines |
| `TaskPool` | abstract: what the thread pool promises to its clients |
| `AsyncTaskExecutor` | the thread pool and its tasks, which implements `TaskPool` |
| `PageAllocator` | the pool allocator |
| `SequenceLemmas` | what operators of the community modules return |
| `PendingEvents_proofs` ... `PageAllocator_proofs` | theorems about the module they are named after (section 5) |

How they divide the event system: `EventTable` is what one handler does with one event,
`EventDispatch` the order in which handlers are asked (a handler's table is a verdict
there), `PendingEvents` the queues by which events reach the main thread,
`BlockingEvent` the one path that goes through table, queue and main thread and back,
and `Application` the stack of loops and handlers all of this runs in (a queue there
is one sequence).

### PendingEvents

*State.* `pendingEvents[h]` and `pendingLock[h]` are `m_PendingEvents` and the
owner of `m_PendingEventsLock` of handler `h`; `pendingHandlers`,
`delayedHandlers` and `appLock` are the two lists of `CoreApplication` and their
lock. `wakeUp` is the auto-reset event of `Win32CommonEventLoop`. `pc[t]` and
`posting[t]` place each thread in `DoQueueEvent`. The main thread is `loop` (about
to process, or waiting for a message) and `stack`, the nested calls of
`ProcessPendingEventHandlers`: one frame per call, with the handler it works on
and the categories the current yield allows. `posted` and `delivered` are history.

*Granularity.* A critical section that takes no other lock is one action, whose
guard is that its lock is free. `DoQueueEvent` takes the application's lock inside
the handler's, so it is `QueueEvent` (lock, enqueue), `AddPendingEventHandler`
(second lock, list, release both) and `WakeUp`. `EvtHandler::ProcessPendingEvents`
is `TakeEvent`, `NothingPending` or `NothingAllowed`, and then, the handler's lock
still held, `RemovePendingEventHandler` or `DelayPendingEventHandler`.
`ProcessPendingEventHandlers` is `SkipCall`, `PickHandler`, `FinishCall` and
`VetoHandler`; the handler it runs is the frame at `"run"`, where client code
posts, yields (`Yield` pushes a frame), destroys, throws, discards or returns. A
throw leaves every nested call, since the lists are guarded by lock guards only.

*Abstractions.* An event is a model value with a target, a unique ID and a set of
categories. Its unique ID (`UniqueID`) is the one `OnStartProcess` gives it the first time
it is processed or queued. The argument `uuid` of `DoQueueEvent` is another thing
(`QueuedID`): the events of `Requeued` are those that `SearchEventTable` moves into the queue
of a handler with a queued binding; they come with their ID and an empty argument, and so
are appended even if an event with their ID is pending. `YieldFor(mask)` is the nested call of `ProcessPendingEventHandlers`
made while it is in progress (by its idle work or a native message); a yield that
processes no pending event changes nothing here. "Some native message" is the
action `NativeMessage`, always possible. `Destroy(h)` requires that no thread is
in the middle of queuing on `h`: the code has no protection for that and leaves it
to whoever destroys.

`Calls` says which of the disturbing calls client code makes in a run, so that
each run states what it assumes of client code.

`EventQueue` has neither threads nor lists: `Post` (append, or replace in place the last
event with the ID that the new one is queued under), `Deliver` (the first event some mask allows), `Drop`.
`PendingEvents` refines it with `queue <- pendingEvents`.

### EventTable

*State.* `table` and `bindSlot` are `m_EventTable` and `m_EventBindSlot`;
`searches[t]` is the stack of `SearchEventTable` calls of a thread, each with its
reverse iterator (`index`), `initialSize`, `nullCount` and `eventSlot`, and where it
is: searching, executing a handler, or after the loop. A thread holds
`m_EventTableLock`, which is recursive, while one of its searches is in the loop;
`MayLock` is "no other thread holds it". Every binding has a `serial` number, which
the code does not have: properties need it to tell bindings apart.

*Actions.* `Bind`; `Unbind`, `UnbindID`, `UnbindAll` (the overload of `DoUnbind`
with an ID and an executor) and `UnbindSlot` (the overload with a slot), which null
entries in place; `FreeBindSlot` folds the loop that lowers the counter while the
slot freed is the last; `ProcessEvent` starts a search; `ExecuteEventHandler` moves
the iterator to the next item of the ID, counting the nulls it passes;
`HandlerSkips`, `HandlerHandles`, `NobodyHandles` end a step of the loop;
`LeaveTable` or `Purge` ends the search. `Purge` takes the lock anew, unbinds the
one-shot item by its slot, and erases the null items, all in one action.

*Undefined behaviour.* Where the vector is reallocated (`emplace_back`,
`shrink_to_fit`, each may or may not) or erased from at or below the iterator of
another search of the thread, that search goes on with an invalid iterator. The
model sets `dangling` and stops: what follows is undefined, and nothing is claimed
about it. A reallocation is a choice, so every behaviour in which it does not happen
is explored further.

`Bindings` has no vector: `bound` is a set, an offer of an event has a limit instead of an
iterator, and there are no null items and no purge. `Offer` picks the newest binding of the ID
under the limit; `Return` unbinds, by its slot, the one-shot binding that handled the event.
`EventTable` refines it with `bound <- BoundItems`, the live items, and `offers <- Offers`, the
searches without their iterators and null counts; a bind picks any free slot there, the next
slot of the counter here.

### AsyncTaskExecutor

*State.* The fields of `DefaultAsyncTaskExecutor` and, per task, the flags of
`DefaultAsyncTask`; where each worker is in `OnThread` and each client thread in
`Terminate` or `WaitCompletion`. A condition variable is modelled by what it does:
testing the predicate and going to sleep are two steps with the mutex held in
between (`block`), so a notification that comes without the mutex may fall between
them; only a thread that is asleep is woken; `SpuriousWakeUp` is possible.

*Actions.* `QueueTask` then `NotifyOne`, after the lock was released; `Run` creates
the workers; `Terminate`, `NotifyAll`, `Joined` are the three parts of
`Terminate`, with `m_ThreadPoolLock` held from the first to the last; `Exit`,
`TakeTask`, `Block`, `FallAsleep` are a worker's turn; `OnCompleted` sets the flags,
then `NobodyWaits`, or `NotifyWaiters` and `ResetShouldWait`. `TakeFirst` is what
`OnThread` does to the deque: it moves the first element out and removes the last
one, so an entry that was moved out stays in front (`NoTask`) and a task queued
behind another one may be dropped. That is modelled as it is; the properties say
what holds in spite of it.

`TaskPool` has a queue of tasks from whose end tasks may be lost, the tasks that run, those that
are done and who waits for which. `AsyncTaskExecutor` refines it with `waiting <- Waiting`, the
queue without a moved-out entry in front, and `running <- Running`, the tasks whose body is
executed: the completion of a task is `OnCompleted` setting its flags.

### HandlerStack and EventDispatch

*State.* `next` and `prev` are `m_NextHandler` and `m_PrevHandler` of each handler, `top`
is `m_Top` of each stack; `items[s]` is the sequence that the calls on stack `s` promise.
`Push`, `Pop`, `RemoveItem` and `Unlink` assign the pointers in the order of the code.
The code accepts three calls that tear a chain apart (pushing a base on which nothing is
pushed, unlinking a top or a base): they set `misused`, and such chains are followed no
further.

`EventDispatch` adds one walk: `at` is the place in `DoProcessEvent`, `root` the handler
the event was sent to and `cur` the one whose turn it is. The private flags of the event
object (`wasProcessed`, `willBeProcessed`) survive the walk, and the object may be sent
again. `FilterEvent` is the call of the filters, `HandlerHandles`/`HandlerSkips` the
verdict of a handler, `TryChain` and `ChainEnds` the loop over the chain, `TryAfterNext`,
`TryApp` and `NotToApp` the recursion of `TryAfter` up to the application. While a handler
runs it may push, pop, remove and unlink handlers (`HandlerChanges`), its own one
included. `path`, `visited`, `moved` and `lost` are history: the chain as it was when the
walk began, who was asked, who was moved, and whether that was the one being asked. Once
it was (`lost`), the walk may restart in a chain, any number of times, and the other three
are dropped for the rest of it.

### BlockingEvent

*State.* `owner` and `depth` are the recursive table lock, `queue` the handler's queue,
`post[p]` and `main` the places of the posters and of the main thread; `waitable`, `info`,
`flag` and `self` are the fields of the event and of its `EventWaitInfo`, one at a time.
An event is named by its poster.

*Granularity.* Neither `SignalProcessed` nor the `Waitable` flag takes a lock, so every
access to a shared field is an action: `SetWaitable`, `MakeWaitInfo`, `ResetFlag`,
`IsSignaled` with `KeepWaiting`, `FallAsleep` or `TakeSelf` on the poster's side, `PutSelf`, `SetFlag`, `NotifyOne` on the
main thread's. The nested searches a poster is in are the number of times it holds the
table lock, of which `UnlockTable` releases one. A throwing handler destroys the event.

*Undefined behaviour.* An access to a destroyed event or through a null `m_WaitInfo`
sets `undefined` and ends the behaviour.

In `BlockingCall` the event of a poster is posted, processed, given back or lost, and its call
returns only after it was given back. `BlockingEvent` refines it with `call <- CallOf` and
`handling <- Handling`. The losses are part of the promise because the code has them: an event is
destroyed by a handler that throws, and by a signal that comes before the poster marks the
event as waitable.

### Application

*State.* `stack` is the main thread's call stack cut down to the frames that matter: `Run`
of a loop (with the loop its activator restores), `YieldFor`, `DispatchIdle`, a handler,
`Execute` of a coroutine. `active`, `inside`, `exiting` and `wake` are the application's
and the loops' fields; `where[o]` says who owns the object or coroutine at an address
(client, destruction list, queue, the running `Execute`, its timer), and addresses are
reused. `throwing` is an exception on its way up the stack, `stored` the one kept for the
loop, `outcome` whether the program still has defined behaviour.

*Actions.* One per place a frame can be in (`TestLoop`, `AfterIdle`, `AfterPending`,
`AfterDispatch`, `AfterWait`, `EndLoop`, `LeaveLoop`, `EndYield`, `IdleEvent`, `EndIdle` with
`Finalize`), one per call a handler may make (`PostEvent`, `ScheduleForDestruction`,
`RunCoroutine`, `Terminate`, `ExitMainLoop`, `ExitLoop`, `CreateLoop`, `RunLoop`, `DestroyLoop`,
`Yield`, ...), one per way to leave `Execute` (`ContinueCoroutine`, `DelayCoroutine`,
`StopCoroutine`), the unwinding of exceptions (`PassThrough`, `ConsumeException`,
`CatchInLoop`) and what comes from outside: a message, a timer, an event from another
thread. A handler is guarded (`HandleExceptions`) or plain.

*Abstractions.* A posted event is the object whose handler it is for; lists, delays and
categories are those of `PendingEvents`. `MaxCalls` bounds the calls of handlers and of
the system, `MaxDepth` the frames below which no loop or yield is nested.

### PageAllocator

*State.* `table[i]` is the `RegionInfo` the page table has for page `i`; a block is its
`RegionInfo` (`start` stands for its address). `regionSize`, `pageSize`, `pageCount`,
`firstFree`, `pagesUsed` and `bytesRequested` are the fields of the allocator. Sizes count
words, and sums wrap at `Word`. `size[t]`, `pages[t]` and `required[t]` are the local
variables of a call of `Allocate`; `live` is the blocks clients hold.

*Granularity.* The calls other than `Allocate` hold `m_Lock` throughout and are one
action each. `Allocate` reads the size of the region, the table's address and the page
size before it locks (`StartAllocate`, `ReadPool`, `ReadPageSize`, `Lock`); then an
iteration of its loop is an action: `SkipRegion`, `SkipRun`, `Grant`, or `NotFound` at the
end. `Grant` refuses nothing, as the code does: a block that needs more pages than are left
(`Overruns`) is granted and belongs to its client, but its pages lie past the table, or its
`RegionInfo` past an attached buffer, and writing there is undefined behaviour. So is reading
a table whose pool was freed in between (`StalePages`). Both set `undefined`, after which
there are no steps.
`outdated` and `mixed` are history: threads that read before the pool was freed, and
whether one of them was given a block since.

## 3. What the runs check

Every property of a passing run is also checked to fail when one mapped
definition is replaced by a mistaken form of it (the definitions marked
"(variant)"; `PROJECT.json`, "mutants").

| Run | Instance | Distinct states | Shows |
|---|---|---|---|
| `pending_order` | 2 handlers, 4 events, one of them requeued, main and one worker, nesting 2, yields and destruction | 141 k | `ListedIffPending`, `NoLostWakeUp`, `DelayedMovedBack`, the refinement of `EventQueue` with its liveness, and `EventuallyProcessed`; deadlock is checked |
| `pending_all_calls` | the same, with every call of client code | 395 k | `TypeOK`, `ListsHaveNoDuplicates`, `NoDanglingHandler`, `UniquePending` |
| `pending_discard` | 2 events, `DiscardPendingEvents` | violation | `ListedIffPending` fails (section 6) |
| `pending_throw` | 2 events, yields and exceptions | violation | `DelayedMovedBack` fails (section 6) |
| `table` | 2 threads, 3 bindings, 3 searches, nesting 2 | 753 k | `TypeOK`, `SlotsAscend`, `OneShotOncePerThread`, the refinement of `Bindings` |
| `table_erase` | 1 thread, the same bounds | violation | `NoEraseWhileIterating` fails (section 6) |
| `dispatch` | 2 stacks, 5 handlers (one is the application), 2 changes in a handler's turn | 1410 k | `StackTypeOK`, `ChainsAreItems`, `StayingAskedInOrder`, `OnlyChainedAsked`, `FiltersAskedFirst`, `AppAskedOnce`, `WalkEnds` |
| `blocking` | 2 posters, searches nested twice, throwing handlers, spurious wake-ups | 12 k | `TypeOK`, `OneOwner`, the refinement of `BlockingCall`, `SleeperGetsEventBack` |
| `application` | 2 addresses, 2 loops, 7 calls, depth 4 | 165 k | `TypeOK`, `ActiveIsInnermost`, `OneOwner`, `NotDestroyedUnderHandler`, `TerminatedNeverExecutes`, `ScheduledIsDestroyed`, `ExitEndsLoop` |
| `executor` | 2 tasks, 2 workers, 1 client, 2 runs | 136 k | `TypeOK`, `FirstTaskIsKept`, `QueueIsDrained`, `WaitReturnsAfterCompletion`, the refinement of `TaskPool` |
| `executor_terminate` | 1 task, 1 worker, 1 client | violation | `TerminateReturns` fails (section 6) |
| `allocator` | 2 threads, 2 addresses, pools of 3 and 5 pages, two sizes of blocks | 406 k | `TypeOK`, `BlocksAreApart`, `CountersAgree`, `ScanEnds` |

*Why the bounds are enough for the question asked.*

- Pending events. Two handlers give a first and a later entry of the list, and a
  handler that is destroyed while another is processed. Of the four events, `e1`, `e2`
  and `e3` share a unique ID, but `e3` is requeued: `e2` replaces `e1` or the last of two,
  and `e3` is appended beside either. `e1` and `e3` share a category, so reordering and
  delaying show as well; `e4` is allowed by every yield, so one handler can be
  delayed while the other one is not. A second thread is enough for each race between
  a poster and the main thread: posters exclude each other through the locks, and
  the proofs of section 5 hold for any number. Nesting 2 is a yield inside a
  handler; deeper calls meet the same lists.
- Event table. Three bindings are needed for an item that goes while one older and
  one newer stay; nesting 2 for a search under an iterator; three searches for two
  nested ones and one that follows or one of the other thread. One ID and one
  executor suffice because bindings differ by serial number; with them an unbind by
  ID and executor hits every binding.
- Event processing. Two stacks let a handler leave one chain for the other in the middle of
  a walk; two handlers above a base are a chain with a middle. `MaxChanges` bounds the
  changes of one handler's turn, and the count starts anew with the next turn: two are enough
  for a handler to remove and push itself or another one, or to move itself and its
  neighbour. The turns of a walk are not bounded, nor are the changes of a behaviour, so
  walks that never end are in the model (see section 6).
- Blocking events. The second poster takes the lock that the first one released, and shares
  the queue. Depth 2 is the nested search that keeps a level of the lock. Posters post
  again and again: nothing else is bounded.
- Application. Two loops are one nested in the other; two addresses an object and a
  coroutine, or an object at the address of a dead coroutine. Seven calls are enough to
  create, nest, schedule, exit and throw in one behaviour: a coroutine that is created,
  delayed and terminated under a nested loop takes five. Depth 4 is the main loop, a
  handler, a nested loop or yield, and a handler or an idle event in it.
- Thread pool. Two tasks make a queue with a second entry, two workers a race for
  it, one client the start, the end and the waits; two runs let a pool meet the
  queue an earlier one left. Several clients that wait for one task share its
  `m_ShouldWait`: that is what the theorem `WaitsForCompletion` covers for any number.
- Pool allocator. With pages of five words the region has three pages, with the default
  page size (that of a `RegionInfo`, three words here) five; blocks take one, two or three
  pages, so runs are skipped, found in the middle and run past the end: of two blocks of
  three pages the second overruns the pool of five. The size 62 wraps
  around a word of 64 values. The second address tells a new pool from an old one, and
  the second thread frees it between the reads of the first.

*Deadlock.* It is checked in `pending_order`, where it would mean that every thread
waits for a lock. The other runs set `CHECK_DEADLOCK FALSE`: bounded counters end
behaviours (`EventTable`, `AsyncTaskExecutor`, `Application`), so does undefined
behaviour (`EventTable`, `BlockingEvent`, `Application`, `PageAllocator`) or a torn chain
(`EventDispatch`), and two models reach a deadlock the code has. With `discardAll` the
discarding thread waits for a handler's lock whose owner waits for the
application's lock: `DiscardPendingEventHandlers` takes the application's lock and
then the handlers' (`StartDiscard`, `DiscardNext`), `DoQueueEvent` the other way round
(`QueueEvent`, `AddPendingEventHandler`). And in `BlockingEvent` a poster in a nested search
keeps the table lock and locks out the main thread it waits for. No text of the
repository excludes the first; the comment on the second is in section 6.

## 4. Fairness

- `PendingEvents`. Weak fairness of a thread inside `DoQueueEvent`: its critical
  sections are short and each lock is free infinitely often. Weak fairness of the
  main thread's steps in its loop and in `ProcessPendingEventHandlers`: it is one
  thread that runs when it can. Strong fairness of `HandlerReturns`: an event
  handler returns, also one that was suspended by nested calls. Nobody is bound to
  post, yield, destroy, throw or to send a native message, so
  `EventuallyProcessed` relies on `WakeUp` alone.
- `EventDispatch`. Weak fairness of `DispatchStep`: the walk goes on, and a handler
  returns. Nobody is bound to send an event or to change a chain.
- `BlockingEvent`. Weak fairness of each poster inside its call; strong fairness of the main
  thread, which competes with posters for the table lock (a mutex of the operating system
  starves nobody) and whose handlers return or throw. Nobody is bound to post, and no
  spurious wake-up is due.
- `Application`. Weak fairness of `Steps`, what the main thread does of itself: a handler
  returns or throws, a loop goes on. No message, timer or event is due, so a loop may wait
  for ever; `ScheduledIsDestroyed` says so in its premise.
- `AsyncTaskExecutor`. Weak fairness of the notification after `QueueTask`, of the
  steps of `Terminate` and of `WaitCompletion`; strong fairness of a worker's
  steps, since the queue lock is handed to whoever asks and a mutex of the
  operating system starves nobody, and of `OnCompleted`: the body of a task ends
  (a task that goes on asking `IsRunning` included). Nobody is bound to queue, run,
  terminate or wait, and no spurious wake-up is due: a property may not rely on one.
- `PageAllocator`. Weak fairness of `ScanStep`: the thread that holds the lock goes on.
- `EventTable` has safety properties only, and no fairness.

## 5. What is proved

TLAPS checks the following for all values of the constants: any number of threads,
handlers, events, categories, bindings, searches, loops, tasks, pages and depths of
nesting. The only assumptions are the named ones of the modules (`PendingAssumption`,
`TableAssumption`, `StackAssumption`, `DispatchAssumption`, `BlockingAssumption`,
`ApplicationAssumption`, `ExecutorAssumption`, `AllocatorAssumption`): types of the
constants, null values outside of the sets they extend, and different bases for different
stacks. TLC evaluates them in the runs.

| Theorem | States |
|---|---|
| `PendingEvents_proofs!TypeCorrect` | `Safety => []TypeOK` |
| `PendingEvents_proofs!ListsNeverHoldTwice` | neither list holds a handler twice, whatever client code calls |
| `PendingEvents_proofs!PendingIDsAreUnique` | no queue holds two events with one unique ID, unless `SearchEventTable` has queued one with that ID there, whatever client code calls |
| `PendingEvents_proofs!ListedExactlyWhenPending` | `Quiet => (Safety => []ListedIffPending)` |
| `PendingEvents_proofs!DestroyedLeaveNothing` | `Safety => []NoDanglingHandler`, whatever client code calls |
| `PendingEvents_proofs!DelayedAlwaysMovedBack`, `LoopNeverSleepsOverEvents` | `"throw" \notin Calls => (Safety => []DelayedMovedBack)`, and the same for `NoLostWakeUp` |
| `PendingEvents_proofs!QueuesImplementAbstract` | `Safety => ImplementsEventQueueSafety`: every step posts, delivers, drops or stutters |
| `EventTable_proofs!TableTypeCorrect` | `Spec => []TypeOK`, the exclusive lock and suspended searches included |
| `EventTable_proofs!SlotsNeverNameTwoItems` | `Spec => []SlotsAscend` |
| `EventTable_proofs!SearchesGoNewestFirst` | `Spec => NewestFirst`, an action property |
| `EventTable_proofs!OneShotHandlesOnce` | `Spec => OneShotOncePerThread`, for any nesting and any number of threads |
| `EventTable_proofs!TableImplementsBindings` | `Spec => ImplementsBindings`: every step binds, unbinds, offers, answers or stutters |
| `EventTable_proofs!UnnestedErasesSafely` | `MaxDepth <= 1 => (Spec => NoEraseWhileIterating)`: without nested searches, the finding `table_erase` cannot happen |
| `EventDispatch_proofs!WalkImplementsStack` | `Spec => StackSpec`: an event's walk changes the chains only by the calls of `HandlerStack` |
| `EventDispatch_proofs!StackTypeCorrect`, `ChainsCorrect` | the pointers of every chain are its sequence, in both directions, and chains are disjoint |
| `EventDispatch_proofs!FiltersCorrect`, `AppCorrect` | an event object meets the filters and the application as it should, once |
| `EventDispatch_proofs!ChainCorrect` | `Spec => OnlyChainedAsked`, whatever the handlers do to the chains during the walk |
| `EventDispatch_proofs!StayingCorrect` | `Spec => []StayingAskedInOrder`: handlers that stay in the chain are asked once each, in its order |
| `BlockingEvent_proofs!BlockingTypeCorrect` | `Spec => []TypeOK`, who holds the table lock included |
| `BlockingEvent_proofs!CallsReturnProcessed` | `Spec => ImplementsBlockingCall`: every step posts, takes, processes, loses, gives back, returns or stutters |
| `BlockingEvent_proofs!ResultCorrect` | `Spec => []ResultIsProcessedEvent`: a wait that returns has the processed event |
| `BlockingEvent_proofs!OwnerCorrect` | a moved event has one owner at a time |
| `Application_proofs!ApplicationTypeCorrect` | `Spec => []TypeOK` |
| `Application_proofs!ActiveCorrect` | `Spec => []ActiveIsInnermost`, however loops nest and exceptions end them |
| `Application_proofs!CoroutinesHaveOneOwner` | `Spec => []OneOwner`: the queue once, one `Execute` or the timer |
| `Application_proofs!TerminatedStaysStopped`, `HandlersOutliveTheirCalls` | `Spec => TerminatedNeverExecutes`, `Spec => NotDestroyedUnderHandler`, action properties |
| `AsyncTaskExecutor_proofs!ExecutorTypeCorrect`, `StartedOnce`, `FirstTaskKept` | types; no task starts twice; a task queued on an empty queue stays in front until it starts |
| `AsyncTaskExecutor_proofs!ExecutorImplementsPool` | `Spec => ImplementsTaskPool`: every step queues, starts, loses, ends, waits, returns or stutters |
| `AsyncTaskExecutor_proofs!WaitsForCompletion` | `Spec => WaitReturnsAfterCompletion`, for any number of waiting clients |
| `PageAllocator_proofs!AllocatorTypeCorrect`, `BlocksCorrect` | types; `Spec => []BlocksAreApart`: up to and including the first block that overruns the pool no two blocks share a page, and those before it lie in the pool |
| `PageAllocator_proofs!CountersCorrect` | `Spec => []CountersAgree`: the counters of the pool count the pages and words of the live blocks, up to and including that first overrun |

**Pending events.** `TypeOK` is not inductive alone: that the event in hand is an
event depends on where the thread is, and that the top of the stack has a handler
depends on which frames may be suspended. `ControlInv` adds three facts: a thread
inside `DoQueueEvent` has an event; every call but the innermost is in a handler;
the main thread posts from a handler or from the loop.

`ListedIffPending` speaks of handlers whose lock is free, so the induction needs what
the owner of a lock knows. `ListInv` adds `AddingOK` (a thread about to list a handler
owns its lock and left it a non-empty queue) and `WorkOK` (the main thread about to
remove a handler owns its lock and left its queue empty; about to delay it, non-empty),
and `ListsHaveNoDuplicates`, because `Unlist` removes one occurrence. The
hypothesis `Quiet` says that client code discards no queue of a live handler and no
hook vetoes one; section 6 shows that the conclusion fails without it. Yields, destruction
and exceptions are covered.

`NoDanglingHandler` needs to know that whoever lists a handler lists one that lives.
`AliveInv` says so: `PostsAlive` (the target of a thread about to list it lives, since client code
does not destroy a handler another thread posts to), `WorksAlive` (so does the handler that the
innermost call of the main thread works on) and `DeadAreGone` (a destroyed handler is in no
list and has an empty queue).

`SleepInv` relates the delayed list to the call stack. `DelayOK`: while a handler is delayed,
the innermost call past its first test excludes some category; such a call moves
the list back when it ends, and is not the one of the loop, which allows every event. `MaskOK`:
only such a call delays a handler, and when the loop waits, the bottom call allows every event.
`NoLostWakeUp` follows in the same induction, because the list grows either by
a thread that is about to signal or by that last step of a call. An exception takes a call off
the stack without it: the hypothesis `"throw" \notin Calls` is the finding `pending_throw` of
section 6.

For the refinement, every action maps to one of `EventQueue`: `QueueEvent` to a post, `TakeEvent`
to a delivery of the first allowed event, destruction and the two discards to a drop (`DiscardsOK`:
only a call of `DiscardPendingEventHandlers` is at the step that drops), and all others stutter.

**Event table.** `TableInv` has, besides the types, `OrderInv`: slots and serial numbers
both ascend along the table and stay below their counters, which are themselves
ordered. Slots alone would not do: they are reused. Unbinding keeps the order because
`FreeBindSlot` lowers the counter only past slots that are free
(`FreeBindSlotProperties`), and since slots are distinct no live item has a freed one.
`SearchesBounded` says, while no iterator dangles, that every live item below the
iterator of a search is older than the last item it called. The difficult step is
`Purge`, which moves items under the searches of the same thread: as it did not make
them dangle, it erased nothing at or below their iterators, and a strictly increasing
function onto the kept positions is the identity there (`AscendingKeepsPrefix`, by the
pigeonhole principle). The searches of other threads cannot be in the loop, since the
lock is exclusive.

`OneShotHandlesOnce` rests on `OneShotInv`: the live item at the iterator is the binding that
was called (`Called`), and a live one-shot item that has handled an event of a thread is the
one whose slot the innermost search of that thread is about to unbind (`AboutToUnbind`). In
between the thread is in no handler and starts no search, and the slot names no other item.

The refinement needs the other half of `SearchesBounded`: `PassedInv` says that the live items
from the iterator of a search on are at least as new as the one it called last. The two together
make the items that remain under an iterator the candidates below the limit, so that the code's
next item is the newest candidate and its end of the table means that there is none. `Called`
turns the flag and the slot that the search reads from the item into those of the binding it was
offered to. `Return` removes whatever binding has that slot by then: between the loop and the
purge the lock is free, another thread may unbind the one-shot item and bind another with its
slot, and that one is lost. The behaviour is in the code, so `Bindings` has it too.

`NoEraseWhileIterating` is false in general (section 6). `UnnestedErasesSafely` says what it
takes: only a purge erases (`OnlyPurgeErases`); without nesting (`DepthBounded`) the thread
that purges has no other search, and the lock it needs keeps those of other threads out.

**Event processing.** `StackTypeOK` and `ChainsAreItems` are inductive together. A step is
examined in three parts: the chain it works on, the other chains, whose handlers are
others (`Disjoint`), and the handlers in no chain. The walk changes the chains only by
those steps, so `Spec` implements the specification of the stacks (`WalkImplementsStack`).
`FlagInv` relates the flags of the event object to the places of the walk: the filters
were called exactly if the event is marked as processed, and the application only if it is
marked as processed again. `ChainCorrect` follows from `ChainsAreItems` at each step: a handler
whose next pointer is set is an item of a chain, and so is the handler it points to.

`StayingCorrect` speaks of the chain as it was when the walk began (`path`), which changes
under the walk. `OrderInv` adds what makes the walk keep its order: the handlers of the path up to
the current one that have not moved were asked, in their order and once; and as long as the
current handler has not moved, its next pointer skips exactly the handlers of the path that have
(`ChangeSkips`, which needs that the two pointers of neighbours name each other, `Neighbours`).
Once the current handler itself moves, the walk may continue in another chain or restart in this
one (`lost`), and nothing is claimed of what follows.

**Blocking events.** `BlockInv` is `TypeOK`, an injective queue and, for every poster,
`Own(p)`: which states of the poster go with its event being queued, with the main thread,
in its own wait information, given back or destroyed. It is what makes the predicate of the
wait sufficient: `Flag` is only set after `Self`, and cannot be stale, because each post is
a new event object.

Where a call of `BlockingCall` is follows from where the poster is and from `gone`, `result` and
`processed`, in that order (`CallOf`). `FreshInv` is what the step of processing needs: an event that
is queued or with the handler is not marked as processed yet. That the poster gets back an event
that was processed, and the one it posted, is then `Own`; everything between its unlocking the
table and its waking up is a stutter.

**Application.** `ActiveIsInnermost` needs `Bottom`: below every frame is the main loop's,
and nothing has happened before `OnRun`. The steps are divided by what they do to the
loops: most replace, push or pop frames that are no loops (`SameLoopsKeepInv`, over an
index up to which two stacks are alike); the others enter a loop, leave one, create one or
destroy one that does not run.

Who owns an object or a coroutine is `OwnInv`. `KindsOwn` says that exactly the coroutines are
where coroutines can be; `QueueOwn`, `ExecOwn` and `ListOwn` tie each place to the sequence that
stands for it: the posted events, the frames of `Execute`, the owning entries of the list. A
coroutine leaves one place in the step in which it enters the next (`OneMoves`), and a
destroyed object is marked in the queue and on the stack (`Buried`). `HandlersOwn` (the
object of a handler on the stack is alive) and `TermOwn` (a terminated coroutine has the stop
instruction and does not execute) complete the invariant, and `WhereMoves` lists the ways an
address changes hands, from which the two action properties follow.

**Thread pool.** `ExecutorInv` is `TypeOK` with `QueueOK` (the tasks of the queue are
different and never started), `StartOK` (a worker's task was started once, by it), `FirstOK`
and `WaitOK`: `m_ShouldWait` is reset only by the worker that completed the task, so who
waits for a task that is not done finds it raised.

The refinement of `TaskPool` rests on what `TakeFirst` does to the tasks that wait
(`TakeFirstWaits`): whether the first entry is a task or was moved out before, the tasks left are
those after it without the last. So tasks start in order although the code removes the wrong end of
the queue, and a loss is always at its end. `PoolOK` (only the first `m_Concurrency` workers exist)
bounds the tasks that run at a time.

**Pool allocator.** `AllocatorInv` adds `CallOK` (a thread whose reads are not of an
earlier pool requires the pages its block needs, because the page size only changes while
there is no pool) and `RegionOK` (the pages of a pool that was not attached lie in its
region). A granted block is disjoint from the others because the pages of the others lie in
the table, and of its own pages those in the table were seen to be free under the lock
(`GrantTakesFree`, `GrantIsApart`). That the pages of the others lie in the table
(`PagesInTable`) holds as long as no grant has overrun it, which is when there are steps at
all; the pages of the new block do unless `Overruns`, and then the invariant says no more
that they do.

For `CountersAgree` the sums over the blocks are cardinalities: of the set of pages that the
blocks hold (`PagesHeld`) and of the set of pairs of a block and a number below its length
(`WordsHeld`). A granted block adds a set disjoint from the others, a freed one takes its own
away, and the counters follow modulo the word (`ModSum`).

**Only model-checked.** Liveness, which is out of the prover's reach
(`EventuallyProcessed`, `QueueIsDrained`, `WalkEnds`, `SleeperGetsEventBack`,
`ScheduledIsDestroyed`, `ExitEndsLoop`, `ScanEnds`, the fairness part of the refinement of
`EventQueue`). Every invariant that a passing run checks is proved, and so is every property
of a step.

## 6. Where the code and its comments disagree

Each is a run that must find one property violated; `PROJECT.json`, "findings", quotes
the lines.

1. `pending_discard`: the comment in `DoQueueEvent` states "the invariant that a handler
   should be in the list if and only if it has any pending events to process".
   `EvtHandler::DiscardPendingEvents` empties the queue and leaves the handler listed;
   `ProcessPendingEventHandlers` then picks it again and again, because a handler only
   leaves the list when its last event is taken.
2. `pending_throw`: `IEventLoop.h` says that processing moves the delayed handlers back
   before it exits. When a handler throws during a selective yield it does not,
   and every later call finds the helper list non-empty and processes nothing.
3. `table_erase`: `DoUnbind` explains that it nulls entries because "we can't delete the
   entry from the vector if we're currently iterating over it". A nested search erases
   them all the same while the outer one iterates; the theorem `UnnestedErasesSafely` shows that
   nesting is what it takes.
4. `executor_terminate`: `Terminate` sets its flag without the queue's lock; a worker that
   tested it just before goes to sleep after "Wake up all threads", and "Join all
   threads" never ends.

Behaviours that the models have and that a reader of the code may not expect. No run asserts
their absence: either no text of the repository speaks of them, or the properties state what
holds in spite of them.

- *Pending events.* The comment in `DoQueueEvent` says "If this event has a unique ID, search
  for the last posted event with the same ID" (`EvtHandler.cpp:441`). The code searches if the
  *argument* names one. `SearchEventTable` queues `event.Move()` without it (line 268), and the
  event keeps the ID of its first processing: with `QueueUniqueEvent(X)` pending, a
  `ProcessUniqueEvent(X)` that meets a queued binding leaves two pending events with the ID
  `X`. `UniquePending` excepts these IDs.
- *Event processing.* `TryChain` asks the next pointer of the handler it has just asked
  (`EvtHandler.cpp:150`). Two handlers of a chain that remove and push themselves anew on their own
  turn are each in front of the other in turn, and the loop never ends; TLC shows it when
  `lost` is taken out of `WalkEnds`.
- *Event loop.* The exception stored by a message's handler is rethrown from a `ScopeGuard`
  (`CommonEventLoop.cpp:33`), whose destructor is `noexcept`: the program terminates
  instead of reaching the handler of `OnRun`. `ExitMainLoop` does nothing while a nested
  loop is active (`CoreApplication.cpp:314`), although the exception policy relies on it
  (`EvtHandler.cpp:360`). The activator of the outermost loop restores
  nothing (`IEventLoop.cpp:77`): the application points to it until the last loop is
  destroyed, and a loop created in between keeps the pointer.
- *Destruction.* "Actually a user should use `ICoreApplication::ScheduleForDestruction`"
  (`EvtHandler.cpp:299`) does not protect an object from an idle event of a loop or yield nested
  in its own handler. `CoroutineBase` derives from `IObject` privately, so `AbortExecution`
  leaves an address in the list that owns nothing. "If no active loop present the object is
  deleted immediately" (`CoreApplication.cpp:423`): `ScheduleForDestruction` looks at no loop, and
  without one keeps the object in the list until some loop is idle or the application exits;
  `ScheduledIsDestroyed` claims what the code does while a loop is active.
- *Coroutines.* What `Execute` returns overwrites a `Terminate` called meanwhile.
- *Blocking events.* "We need to leave the guard here so the main thread can enter this
  function" (`EvtHandler.cpp:262`): from a nested search one level of the lock is
  left only. The signal takes no lock, so it is lost on a poster that tests the flag just
  then. A throwing handler destroys the event under its waiter.
- *Thread pool.* Workers drop the last entry of the queue instead of the first; a wait that
  tests the flags just before the completion may sleep for ever.
- *Pool allocator.* The scan for a run stops at the last page without failing
  (`StupidMemoryAllocator.cpp:212`), so the last pages are granted to a block that needs more: the
  second block of three pages in a pool of five gets page 3, and "point every page info for
  the entire region to it" (lines 224-225) writes past the table. `BlocksAreApart` says what
  holds of that block, and that the ones before it lie in the pool. The pages of an attached pool extend past
  its buffer, because the page count includes the table; `size + sizeof(RegionInfo)` wraps
  around; the scan jumps by `UsedNext`, one page too few, and so meets the last page of a
  region again; and `m_FirstFreePage` moves past free pages that are found again only after
  a lower block is freed.

## 7. What is not modelled

- *Pending events*: `Move` of a handler; `EnablePendingEventHandlerProcessing`;
  wxWidgets' own pending events; `DelayedCall`.
- *Event loop and application*: `WM_QUIT`; `Dispatch` with a timeout; GUI loops;
  initialisation, DLL notifications, the list of event filters; the time stamps of coroutines.
- *Event table*: queued bindings, which leave the table through `DoQueueEvent`; slot numbers
  near `SIZE_MAX`; an `OnDynamicUnbind` that refuses, as the application's does; handlers
  that throw; two tables and their locks; anything after `dangling`.
- *Event processing*: classes that override `TryBefore`, `TryAfter` or `DoProcessEvent`, and
  filters that are added or removed while an event is processed; `EventBroadcastProcessor`
  and the moves of stacks and handlers.
- *Thread pool*: results and time stamps of tasks; a task that throws (it ends the process),
  terminates its own executor or waits for another task.
- *Pool allocator*: aligned pools, zeroed memory, `QueryAllocationInfo`, pointers that are no
  block's, more than 2^32 pages.
- The components marked `not_modelled` in `PROJECT.json`. Of those, window RPC and web
  requests are planned; the rest are values, conversions, wrappers and GUI code, which make up
  most of the repository's lines and have neither concurrency nor a protocol of their own.

## 8. The plan

What is left, in order of importance.

| Module | Models | Runs and bounds | Theorems worth proving |
|---|---|---|---|
| `WebRequest` | `m_State`, `m_NextState` between the client's thread and libcurl's callbacks | 1 request, 3 client calls | a cancelled request ends; a pause is not overwritten |
| `WindowRPC` | the server's client table, invocations, crash and reconnection of clients | 2 clients, 1 crash | an entry is that of a living client or is cleaned up |
| `PendingEvents`, extended | `Move`, `EnablePendingEventHandlerProcessing` | the bounds of section 3 | the theorems of section 5, with the moved handler's queue |
| `EventTable`, extended | a refusing `OnDynamicUnbind`; two tables and their locks | 2 tables, 2 threads | the theorems of section 5, with both tables |

## 9. How to run it

    tlc -config MCPendingEvents.cfg     MCPendingEvents
    tlc -config MCPendingAllCalls.cfg   MCPendingEvents
    tlc -config MCEventTable.cfg        EventTable
    tlc -config MCEventDispatch.cfg     MCEventDispatch
    tlc -config MCBlockingEvent.cfg     BlockingEvent
    tlc -config MCApplication.cfg       Application
    tlc -config MCAsyncTaskExecutor.cfg AsyncTaskExecutor
    tlc -config MCPageAllocator.cfg     PageAllocator

    tlapm SequenceLemmas.tla
    tlapm PendingEvents_proofs.tla
    tlapm EventTable_proofs.tla
    tlapm EventDispatch_proofs.tla
    tlapm BlockingEvent_proofs.tla
    tlapm Application_proofs.tla
    tlapm AsyncTaskExecutor_proofs.tla
    tlapm PageAllocator_proofs.tla

`MCPendingDiscard.cfg` and `MCPendingThrow.cfg` (with `MCPendingEvents`),
`MCEventTableErase.cfg` and `MCAsyncTerminate.cfg` end with the counterexamples of
section 6. Each run takes between seconds and two minutes with two workers, and each proof
module less than five minutes.
