----------------------------- MODULE PendingEvents -----------------------------
(***************************************************************************)
(* The pending events of the framework: EvtHandler's queue                 *)
(* (EventSystem/EvtHandler.cpp) and the lists of handlers with pending     *)
(* events kept by CoreApplication (Application/CoreApplication.cpp), with  *)
(* the locks that guard them, the threads that queue events and the main   *)
(* thread that runs the event loop.                                        *)
(*                                                                         *)
(* A critical section that takes no other lock is one action: it can start *)
(* when its lock is free. A section that takes a second lock is several    *)
(* actions and its lock has an owner between them. The main thread is a    *)
(* stack of ProcessPendingEventHandlers calls, because an event handler    *)
(* can yield and enter the function again.                                 *)
(***************************************************************************)
EXTENDS SequencesExt, Naturals

CONSTANTS Handlers,     \* the EvtHandler objects
          Events,       \* the events client code may post, each at most once
          Target,       \* [Events -> Handlers]
          UniqueID,     \* [Events -> ID]: IEvent::GetUniqueID
          NoUID,
          Requeued,     \* the events queued by SearchEventTable, not by client code
          Categories,   \* the flags of EventCategory::Everything
          Category,     \* [Events -> SUBSET Categories]
          Threads,      \* every thread, the main one included
          Main,
          NoThread,     \* the owner of a free lock
          NoEvent,
          NoHandler,
          MaxNesting,   \* bound: ProcessPendingEventHandlers calls on the stack
          Calls         \* which of ClientCalls the client code makes

(* What client code may do that disturbs the queues.                        *)
ClientCalls == {"yield", "destroy", "throw", "discard", "discardAll", "veto"}

ASSUME PendingAssumption ==
  /\ Target \in [Events -> Handlers]
  /\ Category \in [Events -> SUBSET Categories]
  /\ Requeued \subseteq Events
  /\ Main \in Threads
  /\ NoThread \notin Threads
  /\ NoEvent \notin Events
  /\ NoHandler \notin Handlers
  /\ MaxNesting \in Nat \ {0}
  /\ Calls \subseteq ClientCalls

VARIABLES
  pendingEvents,    \* EvtHandler::m_PendingEvents
  pendingLock,      \* EvtHandler::m_PendingEventsLock: its owner
  pendingHandlers,  \* CoreApplication::m_PendingEvtHandlers
  delayedHandlers,  \* CoreApplication::m_DelayedPendingEvtHandlers
  appLock,          \* CoreApplication::m_PendingEvtHandlersLock: its owner
  wakeUp,           \* the auto-reset event of Win32CommonEventLoop
  loop,             \* the main thread in CommonEventLoop::OnRun
  stack,            \* its calls of ProcessPendingEventHandlers, innermost last
  pc,               \* where each thread is in DoQueueEvent
  posting,          \* the event it is queuing
  posted,           \* the events posted so far
  delivered,        \* the events taken out of a queue to be processed
  alive             \* the handlers not yet destroyed

queueVars == <<pendingEvents, pendingLock>>
listVars  == <<pendingHandlers, delayedHandlers, appLock>>
postVars  == <<pc, posting, posted>>
vars == <<pendingEvents, pendingLock, pendingHandlers, delayedHandlers, appLock,
          wakeUp, loop, stack, pc, posting, posted, delivered, alive>>

(* A ProcessPendingEventHandlers call: what it does next, the handler it    *)
(* works on, the categories its yield allows (all of them outside a yield)  *)
(* and, for DiscardPendingEventHandlers, the handlers still to visit.       *)
WorkingPCs == {"process", "remove", "delay"}
OtherPCs   == {"enter", "pick", "run", "discard"}
Frames ==
  [pc : WorkingPCs, handler : Handlers, allowed : SUBSET Categories, rest : {<<>>}]
    \cup
  [pc : OtherPCs, handler : {NoHandler}, allowed : SUBSET Categories, rest : Seq(Handlers)]
Working(at, h, mask) == [pc |-> at, handler |-> h, allowed |-> mask, rest |-> <<>>]
Frame(at, mask) == [pc |-> at, handler |-> NoHandler, allowed |-> mask, rest |-> <<>>]

Init ==
  /\ pendingEvents = [h \in Handlers |-> <<>>]
  /\ pendingLock = [h \in Handlers |-> NoThread]
  /\ pendingHandlers = <<>>
  /\ delayedHandlers = <<>>
  /\ appLock = NoThread
  /\ wakeUp = FALSE
  /\ loop = "process"
  /\ stack = <<>>
  /\ pc = [t \in Threads |-> "idle"]
  /\ posting = [t \in Threads |-> NoEvent]
  /\ posted = {}
  /\ delivered = {}
  /\ alive = Handlers

--------------------------------------------------------------------------------
(* The data operations. A definition marked (variant) is a mistaken form of *)
(* the one after it, against which the properties are tried.                *)

(* WriteLockGuard on EvtHandler::m_PendingEventsLock.                        *)
LockNothing(h, t) == UNCHANGED pendingLock                        \* (variant)
SetOwner(h, t) == pendingLock' = [pendingLock EXCEPT ![h] = t]
Unlock(h) == SetOwner(h, NoThread)

(* Container::RemoveSingleIf, Container::Contains with emplace_back, and the *)
(* insertion of the delayed list at the end of the empty main list.          *)
UnlistNothing(list, h) == list                                    \* (variant)
Unlist(list, h) == RemoveFirst(list, h)
AddAlways(list, h) == Append(list, h)                             \* (variant)
AddIfAbsent(list, h) == IF Contains(list, h) THEN list ELSE Append(list, h)
LeaveDelayed == UNCHANGED <<pendingHandlers, delayedHandlers>>    \* (variant)
MoveDelayedBack == pendingHandlers' = delayedHandlers /\ delayedHandlers' = <<>>

(* SetEvent on the auto-reset event of the loop.                             *)
SignalNothing == UNCHANGED wakeUp                                 \* (variant)
Signal == wakeUp' = TRUE

(* The uuid argument of DoQueueEvent. An event that was being processed has   *)
(* its ID from the first call that processed it (OnStartProcess), keeps it   *)
(* when it is moved, and is queued with an empty argument.                   *)
QueuedID(e) == IF e \in Requeued THEN NoUID ELSE UniqueID[e]

(* The last pending event with the ID of the argument is replaced in place.  *)
Replaces(e, f) == QueuedID(e) # NoUID /\ UniqueID[f] = QueuedID(e)
EnqueueAlways(q, e) == Append(q, e)                               \* (variant)
Enqueue(q, e) ==
  LET same == {i \in 1..Len(q) : Replaces(e, q[i])} IN
  IF same = {} THEN Append(q, e) ELSE [q EXCEPT ![Max(same)] = e]

(* The first event a yield allows, 0 if there is none.                       *)
IsAllowed(e, mask) == Category[e] \subseteq mask
LastAllowed(q, mask) == SelectLastInSeq(q, LAMBDA e : IsAllowed(e, mask)) \* (variant)
FirstAllowed(q, mask) == SelectInSeq(q, LAMBDA e : IsAllowed(e, mask))

--------------------------------------------------------------------------------
(* EvtHandler::DoQueueEvent, by any thread, for client code or for           *)
(* SearchEventTable, which moves an event it may not handle here to a queue. *)

MainInHandler == stack # <<>> /\ Last(stack).pc = "run"

(* The main thread queues events from its handlers, or between two           *)
(* iterations of the loop (native messages, idle events).                   *)
MayPost(t) == t = Main => MainInHandler \/ (stack = <<>> /\ loop = "process")

QueueEvent(t, e) ==
  LET h == Target[e] IN
  /\ pc[t] = "idle"
  /\ MayPost(t)
  /\ e \notin posted
  /\ h \in alive
  /\ pendingLock[h] = NoThread
  /\ SetOwner(h, t)
  /\ pendingEvents' = [pendingEvents EXCEPT ![h] = Enqueue(@, e)]
  /\ posted' = posted \cup {e}
  /\ posting' = [posting EXCEPT ![t] = e]
  /\ pc' = [pc EXCEPT ![t] = "add"]
  /\ UNCHANGED <<listVars, wakeUp, loop, stack, delivered, alive>>

(* app->AddPendingEventHandler, with m_PendingEventsLock still held.         *)
AddPendingEventHandler(t) ==
  LET h == Target[posting[t]] IN
  /\ pc[t] = "add"
  /\ appLock = NoThread
  /\ pendingHandlers' = AddIfAbsent(pendingHandlers, h)
  /\ Unlock(h)
  /\ pc' = [pc EXCEPT ![t] = "wake"]
  /\ UNCHANGED <<pendingEvents, delayedHandlers, appLock, wakeUp, loop, stack,
                 posting, posted, delivered, alive>>

(* app->WakeUp(), after m_PendingEventsLock was released.                    *)
WakeUp(t) ==
  /\ pc[t] = "wake"
  /\ Signal
  /\ pc' = [pc EXCEPT ![t] = "idle"]
  /\ posting' = [posting EXCEPT ![t] = NoEvent]
  /\ UNCHANGED <<queueVars, listVars, loop, stack, posted, delivered, alive>>

--------------------------------------------------------------------------------
(* CommonEventLoop::OnRun and Win32CommonEventLoop::GetNextMessage.          *)

MainIdle == pc[Main] = "idle"

(* DispatchEvents calls ProcessPendingEventHandlers, then waits in Dispatch. *)
DispatchEvents ==
  /\ MainIdle /\ stack = <<>> /\ loop = "process"
  /\ stack' = <<Frame("enter", Categories)>>
  /\ loop' = "wait"
  /\ UNCHANGED <<queueVars, listVars, wakeUp, postVars, delivered, alive>>

(* MsgWaitForMultipleObjects returns for the event, which resets it.         *)
WakeFromWait ==
  /\ MainIdle /\ stack = <<>> /\ loop = "wait"
  /\ wakeUp
  /\ wakeUp' = FALSE
  /\ loop' = "process"
  /\ UNCHANGED <<queueVars, listVars, stack, postVars, delivered, alive>>

(* It returns for a native message. Its handler may be inside YieldFor(mask) *)
(* when it calls ProcessPendingEventHandlers.                                *)
NativeMessage ==
  /\ MainIdle /\ stack = <<>> /\ loop = "wait"
  /\ loop' = "process"
  /\ \/ stack' = stack
     \/ /\ "yield" \in Calls
        /\ \E mask \in SUBSET Categories : stack' = <<Frame("enter", mask)>>
  /\ UNCHANGED <<queueVars, listVars, wakeUp, postVars, delivered, alive>>

--------------------------------------------------------------------------------
(* CoreApplication::ProcessPendingEventHandlers and, inside it,              *)
(* EvtHandler::ProcessPendingEvents, on the main thread.                     *)

Top == Last(stack)
At(where) == MainIdle /\ stack # <<>> /\ Top.pc = where
SetTop(frame) == stack' = [stack EXCEPT ![Len(stack)] = frame]
Goto(where) == SetTop(Frame(where, Top.allowed))
GotoUnset(where, h) == Goto(where)                                \* (variant)
GotoWork(where, h) == SetTop(Working(where, h, Top.allowed))
Pop == stack' = Front(stack)

(* "This helper list should be empty": otherwise nothing is processed.       *)
SkipCall ==
  /\ At("enter") /\ appLock = NoThread
  /\ delayedHandlers # <<>>
  /\ Pop
  /\ UNCHANGED <<queueVars, listVars, wakeUp, loop, postVars, delivered, alive>>

MayPick == At("pick") \/ (At("enter") /\ delayedHandlers = <<>>)

(* The loop takes the first handler of the list and unlocks.                 *)
PickHandler ==
  /\ MayPick /\ appLock = NoThread
  /\ pendingHandlers # <<>>
  /\ GotoWork("process", Head(pendingHandlers))
  /\ UNCHANGED <<queueVars, listVars, wakeUp, loop, postVars, delivered, alive>>

(* The list is empty: the delayed handlers move back and the call returns.   *)
FinishCall ==
  /\ MayPick /\ appLock = NoThread
  /\ pendingHandlers = <<>>
  /\ MoveDelayedBack
  /\ Pop
  /\ UNCHANGED <<queueVars, appLock, wakeUp, loop, postVars, delivered, alive>>

(* OnPendingEventHandlerProcess returns false: the handler leaves the lists  *)
(* and its events stay.                                                      *)
VetoHandler ==
  /\ At("process") /\ "veto" \in Calls /\ appLock = NoThread
  /\ pendingHandlers' = Unlist(pendingHandlers, Top.handler)
  /\ delayedHandlers' = Unlist(delayedHandlers, Top.handler)
  /\ Goto("pick")
  /\ UNCHANGED <<queueVars, appLock, wakeUp, loop, postVars, delivered, alive>>

(* EvtHandler::ProcessPendingEvents finds an empty queue.                     *)
NothingPending ==
  /\ At("process") /\ pendingLock[Top.handler] = NoThread
  /\ pendingEvents[Top.handler] = <<>>
  /\ Goto("pick")
  /\ UNCHANGED <<queueVars, listVars, wakeUp, loop, postVars, delivered, alive>>

(* It takes the first event the yield allows; the lock stays held while the  *)
(* handler of an emptied queue is removed from the lists.                     *)
TakeEvent ==
  LET h == Top.handler
      q == pendingEvents[h]
      i == FirstAllowed(q, Top.allowed)
      last == Len(q) = 1
  IN
  /\ At("process") /\ pendingLock[h] = NoThread
  /\ q # <<>> /\ i # 0
  /\ pendingEvents' = [pendingEvents EXCEPT ![h] = RemoveAt(q, i)]
  /\ SetOwner(h, IF last THEN Main ELSE NoThread)
  /\ delivered' = delivered \cup {q[i]}
  /\ IF last THEN GotoWork("remove", h) ELSE Goto("run")
  /\ UNCHANGED <<listVars, wakeUp, loop, postVars, alive>>

(* No pending event is allowed: the lock stays held for the delay.           *)
NothingAllowed ==
  LET h == Top.handler IN
  /\ At("process") /\ pendingLock[h] = NoThread
  /\ pendingEvents[h] # <<>> /\ FirstAllowed(pendingEvents[h], Top.allowed) = 0
  /\ SetOwner(h, Main)
  /\ GotoWork("delay", h)
  /\ UNCHANGED <<pendingEvents, listVars, wakeUp, loop, postVars, delivered, alive>>

RemovePendingEventHandler ==
  /\ At("remove") /\ appLock = NoThread
  /\ pendingHandlers' = Unlist(pendingHandlers, Top.handler)
  /\ delayedHandlers' = Unlist(delayedHandlers, Top.handler)
  /\ Unlock(Top.handler)
  /\ Goto("run")
  /\ UNCHANGED <<pendingEvents, appLock, wakeUp, loop, postVars, delivered, alive>>

DelayPendingEventHandler ==
  /\ At("delay") /\ appLock = NoThread
  /\ pendingHandlers' = Unlist(pendingHandlers, Top.handler)
  /\ delayedHandlers' = AddIfAbsent(delayedHandlers, Top.handler)
  /\ Unlock(Top.handler)
  /\ Goto("pick")
  /\ UNCHANGED <<pendingEvents, appLock, wakeUp, loop, postVars, delivered, alive>>

--------------------------------------------------------------------------------
(* DoProcessEvent runs client code, which returns, throws, yields, destroys  *)
(* handlers or discards queues (it may also queue events: QueueEvent).        *)

HandlerReturns ==
  /\ At("run")
  /\ Goto("pick")
  /\ UNCHANGED <<queueVars, listVars, wakeUp, loop, postVars, delivered, alive>>

(* The exception unwinds every call up to CommonEventLoop::OnRun, which goes *)
(* on with its next iteration; each call relocks and unlocks on its way out. *)
HandlerThrows ==
  /\ At("run") /\ "throw" \in Calls /\ appLock = NoThread
  /\ stack' = <<>>
  /\ loop' = "process"
  /\ UNCHANGED <<queueVars, listVars, wakeUp, postVars, delivered, alive>>

(* YieldFor(mask), whose OnYieldFor or a native message handler calls        *)
(* ProcessPendingEventHandlers.                                              *)
Yield(mask) ==
  /\ At("run") /\ "yield" \in Calls
  /\ Len(stack) < MaxNesting
  /\ stack' = Append(stack, Frame("enter", mask))
  /\ UNCHANGED <<queueVars, listVars, wakeUp, loop, postVars, delivered, alive>>

(* EvtHandler::Destroy, of a handler no thread is queuing events on: that is *)
(* the obligation of whoever destroys it.                                    *)
Destroy(h) ==
  /\ At("run") /\ "destroy" \in Calls
  /\ h \in alive /\ appLock = NoThread
  /\ \A t \in Threads : pc[t] \in {"add", "wake"} => Target[posting[t]] # h
  /\ alive' = alive \ {h}
  /\ pendingHandlers' = Unlist(pendingHandlers, h)
  /\ delayedHandlers' = Unlist(delayedHandlers, h)
  /\ pendingEvents' = [pendingEvents EXCEPT ![h] = <<>>]
  /\ UNCHANGED <<pendingLock, appLock, wakeUp, loop, stack, postVars, delivered>>

(* EvtHandler::DiscardPendingEvents, called by client code.                  *)
DiscardPendingEvents(h) ==
  /\ At("run") /\ "discard" \in Calls
  /\ h \in alive /\ pendingLock[h] = NoThread
  /\ pendingEvents' = [pendingEvents EXCEPT ![h] = <<>>]
  /\ UNCHANGED <<pendingLock, listVars, wakeUp, loop, stack, postVars, delivered, alive>>

(* CoreApplication::DiscardPendingEventHandlers holds the application's lock *)
(* while it takes the lock of one handler after another.                     *)
StartDiscard ==
  /\ At("run") /\ "discardAll" \in Calls
  /\ Len(stack) < MaxNesting /\ appLock = NoThread
  /\ appLock' = Main
  /\ stack' = Append(stack, [Frame("discard", Top.allowed) EXCEPT !.rest = pendingHandlers])
  /\ UNCHANGED <<queueVars, pendingHandlers, delayedHandlers, wakeUp, loop, postVars,
                 delivered, alive>>

DiscardNext ==
  LET h == Head(Top.rest) IN
  /\ At("discard") /\ Top.rest # <<>>
  /\ SetTop([Top EXCEPT !.rest = Tail(@)])
  /\ \/ /\ pendingLock[h] = NoThread
        /\ pendingEvents' = [pendingEvents EXCEPT ![h] = <<>>]
     \/ "veto" \in Calls /\ UNCHANGED pendingEvents
  /\ UNCHANGED <<pendingLock, listVars, wakeUp, loop, postVars, delivered, alive>>

FinishDiscard ==
  /\ At("discard") /\ Top.rest = <<>>
  /\ pendingHandlers' = <<>>
  /\ appLock' = NoThread
  /\ Pop
  /\ UNCHANGED <<queueVars, delayedHandlers, wakeUp, loop, postVars, delivered, alive>>

--------------------------------------------------------------------------------

Queue(t) == (\E e \in Events : QueueEvent(t, e)) \/ AddPendingEventHandler(t) \/ WakeUp(t)

ProcessCalls == \/ SkipCall \/ PickHandler \/ FinishCall \/ VetoHandler
                \/ NothingPending \/ TakeEvent \/ NothingAllowed
                \/ RemovePendingEventHandler \/ DelayPendingEventHandler

ClientCode == \/ HandlerReturns \/ HandlerThrows
              \/ \E mask \in SUBSET Categories : Yield(mask)
              \/ \E h \in Handlers : Destroy(h) \/ DiscardPendingEvents(h)
              \/ StartDiscard \/ DiscardNext \/ FinishDiscard

Next == \/ \E t \in Threads : Queue(t)
        \/ DispatchEvents \/ WakeFromWait \/ NativeMessage
        \/ ProcessCalls \/ ClientCode

(* A thread inside DoQueueEvent and the main thread inside its loop go on;    *)
(* event handlers return, whatever they called before (strong: a handler that *)
(* yields is suspended while the inner calls run). Nobody is bound to post,   *)
(* yield, destroy or throw.                                                  *)
Fairness ==
  /\ \A t \in Threads : WF_vars(AddPendingEventHandler(t) \/ WakeUp(t))
  /\ WF_vars(DispatchEvents) /\ WF_vars(WakeFromWait)
  /\ WF_vars(ProcessCalls)
  /\ SF_vars(HandlerReturns)

Safety == Init /\ [][Next]_vars
Spec == Safety /\ Fairness

--------------------------------------------------------------------------------
(* PROPERTIES                                                                *)

TypeOK ==
  /\ pendingEvents \in [Handlers -> Seq(Events)]
  /\ pendingLock \in [Handlers -> Threads \cup {NoThread}]
  /\ pendingHandlers \in Seq(Handlers)
  /\ delayedHandlers \in Seq(Handlers)
  /\ appLock \in Threads \cup {NoThread}
  /\ wakeUp \in BOOLEAN
  /\ loop \in {"process", "wait"}
  /\ stack \in Seq(Frames)
  /\ pc \in [Threads -> {"idle", "add", "wake"}]
  /\ posting \in [Threads -> Events \cup {NoEvent}]
  /\ posted \subseteq Events
  /\ delivered \subseteq Events
  /\ alive \subseteq Handlers

Listed(h) == Contains(pendingHandlers, h) \/ Contains(delayedHandlers, h)

(* "The invariant that a handler should be in the list if and only if it has *)
(* any pending events to process" (the comment in EvtHandler::DoQueueEvent): *)
(* true of every handler whose queue nobody is working on.                   *)
ListedIffPending ==
  \A h \in Handlers :
    pendingLock[h] = NoThread => (Listed(h) <=> pendingEvents[h] # <<>>)

(* Neither list of CoreApplication ever holds a handler twice, although      *)
(* FinishCall moves one list into the other and AddPendingEventHandler looks *)
(* into the first only.                                                      *)
NoDuplicates(list) == \A i, j \in 1..Len(list) : list[i] = list[j] => i = j
ListsHaveNoDuplicates == NoDuplicates(pendingHandlers) /\ NoDuplicates(delayedHandlers)

(* A destroyed handler is in neither list, has no pending event, and is not  *)
(* the handler a call is about to process.                                   *)
NoDanglingHandler ==
  /\ \A h \in Handlers \ alive : ~Listed(h) /\ pendingEvents[h] = <<>>
  /\ \A i \in 1..Len(stack) :
       stack[i].pc \in WorkingPCs => stack[i].handler \in alive

(* When the main thread waits for messages and nobody is about to wake it,   *)
(* no handler is listed: it never sleeps over a pending event.               *)
NoLostWakeUp ==
  (stack = <<>> /\ loop = "wait" /\ ~wakeUp /\ pendingHandlers # <<>>)
    => \E t \in Threads : pc[t] = "wake"

(* "Last, ICoreApplication::ProcessPendingEvents before exiting moves the    *)
(* delayed event handlers back" (Application/IEventLoop.h): with no call in  *)
(* progress no handler is left in the delayed list.                          *)
DelayedMovedBack == stack = <<>> => delayedHandlers = <<>>

(* "If this event has a unique ID, search for the last posted event with the *)
(* same ID and, if it'll be found, replace it" (DoQueueEvent): however many   *)
(* threads post, at most one of the pending events of a handler carries a    *)
(* given ID, unless SearchEventTable has queued one with that ID there: that *)
(* one is appended whatever it finds, and a later event replaces only the    *)
(* last of them.                                                             *)
SameID(e, f) == UniqueID[e] # NoUID /\ UniqueID[e] = UniqueID[f]
RequeuedIDs(h) == {UniqueID[e] : e \in {f \in posted \cap Requeued : Target[f] = h}}
UniquePending ==
  \A h \in Handlers : \A i, j \in 1..Len(pendingEvents[h]) :
    SameID(pendingEvents[h][i], pendingEvents[h][j]) =>
      i = j \/ UniqueID[pendingEvents[h][i]] \in RequeuedIDs(h)

(* A pending event does not stay pending.                                    *)
IsPending(e) == Contains(pendingEvents[Target[e]], e)
EventuallyProcessed == \A e \in Events : IsPending(e) ~> ~IsPending(e)

(* The queues as client code sees them implement EventQueue.                 *)
Abstract == INSTANCE EventQueue WITH
  queue <- pendingEvents,
  MayDiscard <- (Calls \cap {"discard", "discardAll"} # {})
ImplementsEventQueue == Abstract!Spec
ImplementsEventQueueSafety == Abstract!Safety
================================================================================
