------------------------------ MODULE Application ------------------------------
(***************************************************************************)
(* The life of an application's main thread: the event loops it runs, nested *)
(* in each other's handlers (CommonEventLoop, EventLoopActivator), the      *)
(* exceptions that pass through them, the objects scheduled for destruction  *)
(* (CoreApplication) and the coroutines run by posted events (CoroutineBase). *)
(*                                                                         *)
(* `stack' is the thread's call stack, kept to the frames that matter: Run of *)
(* a loop, YieldFor, DispatchIdle, a handler, Execute of a coroutine. Objects *)
(* and coroutines are named by their addresses, which are reused. An event is *)
(* named by the object whose handler it is for, or by the coroutine a posted  *)
(* CoroutineExecutor owns; PendingEvents and EventDispatch model the rest.    *)
(***************************************************************************)
EXTENDS SequencesExt

CONSTANTS Slots,            \* addresses of objects and coroutines
          Window,           \* a handler that nobody destroys
          Gone,             \* the object of a handler that was destroyed under it
          Loops, MainLoop,  \* event loops; the one CreateMainLoop returns
          NoLoop,
          MaxCalls,         \* bound: calls that handlers and the system make
          MaxDepth          \* bound: frames under a nested loop or a Yield

ASSUME ApplicationAssumption ==
  /\ Window \notin Slots /\ Gone \notin Slots /\ Window # Gone
  /\ MainLoop \in Loops /\ NoLoop \notin Loops
  /\ MaxCalls \in Nat /\ MaxDepth \in Nat

VARIABLES
  life,         \* how far ApplicationInitializer has come
  stack,        \* the call stack of the main thread
  active,       \* m_ActiveEventLoop
  alive,        \* the loops that exist; g_EventLoopCount is their number
  inside,       \* those with m_IsInsideRun
  exiting,      \* those with m_ShouldExit
  wake,         \* those whose m_WakeUpCondition is signalled
  throwing,     \* an exception is passing
  stored,       \* m_StoredException is set
  outcome,      \* whether the program goes on, std::terminate or undefined behaviour
  pending,      \* the posted events
  messages,     \* native messages in the queue
  where,        \* who owns the object or coroutine at each address
  coroutines,   \* the addresses of coroutines
  stop,         \* the coroutines whose m_Instruction is Terminate
  terminated,   \* history: those Terminate was called on, but not from inside Execute
  scheduled,    \* m_ScheduledForDestruction
  calls         \* calls made so far

loopVars == <<active, alive, inside, exiting, wake>>
errorVars == <<throwing, stored, outcome>>
queueVars == <<pending, messages>>
objectVars == <<where, coroutines, stop, terminated, scheduled>>
vars == <<life, stack, loopVars, errorVars, queueVars, objectVars, calls>>

Frame(kind, of, prev, pc) == [kind |-> kind, of |-> of, prev |-> prev, pc |-> pc]
RunFrame(l, prev) == Frame("loop", l, prev, "test")
HandlerFrame(o, guarded) == Frame("handler", o, NoLoop, IF guarded THEN "guarded" ELSE "plain")
ExecuteFrame(c) == Frame("execute", c, NoLoop, "plain")
YieldFrame(l) == Frame("yield", l, NoLoop, "pending")
IdleFrame == Frame("idle", Window, NoLoop, "event")

Top == Last(stack)
At(kind, pc) == ~throwing /\ stack # <<>> /\ Top.kind = kind /\ Top.pc = pc
Goto(pc) == stack' = [stack EXCEPT ![Len(stack)].pc = pc]
Call(pc, frame) == stack' = Append([stack EXCEPT ![Len(stack)].pc = pc], frame)
Pop == stack' = Front(stack)

Init ==
  /\ life = "start" /\ stack = <<>>
  /\ active = NoLoop /\ alive = {} /\ inside = {} /\ exiting = {} /\ wake = {}
  /\ throwing = FALSE /\ stored = FALSE /\ outcome = "running"
  /\ pending = <<>> /\ messages = 0
  /\ where = [o \in Slots |-> "free"]
  /\ coroutines = {} /\ stop = {} /\ terminated = {}
  /\ scheduled = <<>>
  /\ calls = 0

--------------------------------------------------------------------------------
(* Objects and coroutines.                                                   *)

IsScheduled(o) == \E i \in 1..Len(scheduled) : scheduled[i].at = o
Objects == {o \in Slots \ coroutines : where[o] \in {"client", "list"}}
Delayed(c) == where[c] \in {"timer", "due"}
Pending == messages > 0 \/ \E c \in coroutines : where[c] = "due"

(* The destructors of the objects D: their events leave the queues, where they *)
(* are marked here and skipped.                                              *)
Orphan(s, D) == [i \in 1..Len(s) |-> IF s[i].kind = "handler" /\ s[i].of \in D
                                     THEN [s[i] EXCEPT !.of = Gone] ELSE s[i]]
Bury(D) ==
  /\ where' = [o \in Slots |-> IF o \in D THEN "free" ELSE where[o]]
  /\ pending' = [i \in 1..Len(pending) |-> IF pending[i] \in D THEN Gone ELSE pending[i]]

(* AbortExecution. CoroutineBase inherits IObject privately, so nothing sets  *)
(* the weak pointer QueryInterface looks at: the list gets a reference that   *)
(* does not own the coroutine, which is destroyed with the last shared_ptr    *)
(* when AbortExecution returns.                                              *)
Abort(c) ==
  /\ scheduled' = IF IsScheduled(c) THEN scheduled
                  ELSE Append(scheduled, [at |-> c, owns |-> FALSE])
  /\ where' = [where EXCEPT ![c] = "free"]
  /\ coroutines' = coroutines \ {c} /\ stop' = stop \ {c} /\ terminated' = terminated \ {c}

(* An event is posted: DoQueueEvent wakes the active loop up.                 *)
PostToActive(e) ==                                                 \* (variant)
  /\ pending' = Append(pending, e)
  /\ wake' = wake \cup {active}
  /\ UNCHANGED outcome
Post(e) ==
  /\ pending' = Append(pending, e)
  /\ wake' = wake \cup ({active} \cap alive)
  /\ outcome' = IF active \in alive \cup {NoLoop} THEN outcome ELSE "undefined"

--------------------------------------------------------------------------------
(* What a handler or Execute may call, each call counted.                     *)

InHandler == ~throwing /\ stack # <<>> /\ Top.kind \in {"handler", "execute"}
InClient == InHandler \/ (life \in {"exit", "destroy"} /\ stack = <<>>)
Counted == calls < MaxCalls /\ calls' = calls + 1

New(o) ==
  /\ InClient /\ Counted
  /\ where[o] = "free"
  /\ where' = [where EXCEPT ![o] = "client"]
  /\ UNCHANGED <<life, stack, loopVars, errorVars, queueVars, coroutines, stop, terminated,
                 scheduled>>

PostEvent(o) ==
  /\ InClient /\ Counted
  /\ o \in Objects
  /\ Post(o)
  /\ UNCHANGED <<life, stack, active, alive, inside, exiting, throwing, stored, messages,
                 objectVars>>

(* The list keeps the object unless it has its address already; then the       *)
(* caller's reference, the last one, ends with the call.                     *)
DeleteNow(o) ==                                                    \* (variant)
  /\ InClient /\ Counted
  /\ o \in Objects /\ where[o] = "client"
  /\ Bury({o}) /\ stack' = Orphan(stack, {o})
  /\ UNCHANGED <<life, loopVars, errorVars, messages, coroutines, stop, terminated, scheduled>>
ScheduleForDestruction(o) ==
  /\ InClient /\ Counted
  /\ o \in Objects /\ where[o] = "client"
  /\ \/ /\ ~IsScheduled(o)
        /\ scheduled' = Append(scheduled, [at |-> o, owns |-> TRUE])
        /\ where' = [where EXCEPT ![o] = "list"]
        /\ UNCHANGED <<stack, pending>>
     \/ /\ IsScheduled(o)
        /\ Bury({o}) /\ stack' = Orphan(stack, {o})
        /\ UNCHANGED scheduled
  /\ UNCHANGED <<life, loopVars, errorVars, messages, coroutines, stop, terminated>>

RunCoroutine(c) ==
  /\ InHandler /\ Counted
  /\ where[c] = "free"
  /\ where' = [where EXCEPT ![c] = "queue"] /\ coroutines' = coroutines \cup {c}
  /\ Post(c)
  /\ UNCHANGED <<life, stack, active, alive, inside, exiting, throwing, stored, messages, stop,
                 terminated, scheduled>>

Terminate(c) ==
  /\ InHandler /\ Counted
  /\ c \in coroutines
  /\ \/ Delayed(c) /\ Abort(c)
     \/ /\ ~Delayed(c)
        /\ stop' = stop \cup {c}
        /\ terminated' = IF where[c] = "execute" THEN terminated ELSE terminated \cup {c}
        /\ UNCHANGED <<where, coroutines, scheduled>>
  /\ UNCHANGED <<life, stack, loopVars, errorVars, queueVars>>

(* ScheduleExit: only a loop inside Run exits.                               *)
Exit(L) ==
  /\ exiting' = exiting \cup (L \cap inside)
  /\ wake' = wake \cup (L \cap inside)

ExitMainLoop ==
  /\ InHandler /\ Counted
  /\ Exit({MainLoop} \cap {active})
  /\ UNCHANGED <<life, stack, active, alive, inside, errorVars, queueVars, objectVars>>

ExitLoop(l) ==
  /\ InHandler /\ Counted
  /\ l \in alive
  /\ Exit({l})
  /\ UNCHANGED <<life, stack, active, alive, inside, errorVars, queueVars, objectVars>>

CreateLoop(l) ==
  /\ InHandler /\ Counted
  /\ l \notin alive /\ l # MainLoop
  /\ alive' = alive \cup {l}
  /\ UNCHANGED <<life, stack, active, inside, exiting, wake, errorVars, queueVars, objectVars>>

(* The last loop to be destroyed resets the application's pointer.            *)
Destroyed(l) ==
  /\ alive' = alive \ {l} /\ wake' = wake \ {l} /\ exiting' = exiting \ {l}
  /\ active' = IF alive' = {} THEN NoLoop ELSE active

DestroyLoop(l) ==
  /\ InClient /\ Counted
  /\ l \in alive \ (inside \cup {MainLoop})
  /\ Destroyed(l)
  /\ UNCHANGED <<life, stack, inside, errorVars, queueVars, objectVars>>

(* Run: a loop that is inside Run already refuses.                            *)
EnterLoop(l) ==
  /\ stack' = Append(stack, RunFrame(l, active))
  /\ active' = l
  /\ exiting' = exiting \ {l} /\ inside' = inside \cup {l}

RunLoop(l) ==
  /\ InHandler /\ Counted
  /\ l \in alive \ inside /\ Len(stack) <= MaxDepth
  /\ EnterLoop(l)
  /\ UNCHANGED <<life, alive, wake, errorVars, queueVars, objectVars>>

RunResetsExit(l) ==                                                \* (variant)
  /\ InHandler /\ Counted
  /\ l \in inside
  /\ exiting' = exiting \ {l}
  /\ UNCHANGED <<life, stack, active, alive, inside, wake, errorVars, queueVars, objectVars>>
RunRefused(l) ==
  /\ InHandler /\ Counted
  /\ l \in inside
  /\ UNCHANGED <<life, stack, loopVars, errorVars, queueVars, objectVars>>

Yield ==
  /\ InHandler /\ Counted
  /\ Len(stack) <= MaxDepth
  /\ stack' = Append(stack, YieldFrame(active))
  /\ UNCHANGED <<life, loopVars, errorVars, queueVars, objectVars>>

Throw ==
  /\ InHandler /\ Counted
  /\ throwing' = TRUE
  /\ UNCHANGED <<life, stack, loopVars, stored, outcome, queueVars, objectVars>>

(* A handler returns into EvtHandler's code, which is undefined if its object  *)
(* is gone.                                                                  *)
HandlerReturns ==
  /\ InHandler /\ Top.kind = "handler"
  /\ \/ Top.of = Gone /\ outcome' = "undefined" /\ UNCHANGED stack
     \/ Top.of # Gone /\ Pop /\ UNCHANGED outcome
  /\ UNCHANGED <<life, loopVars, throwing, stored, queueVars, objectVars, calls>>

(* Execute returns; what it returns replaces m_Instruction.                   *)
ContinueCoroutine ==
  LET c == Top.of IN
  /\ InHandler /\ Top.kind = "execute" /\ Counted
  /\ Pop
  /\ where' = [where EXCEPT ![c] = "queue"] /\ stop' = stop \ {c}
  /\ Post(c)
  /\ UNCHANGED <<life, active, alive, inside, exiting, throwing, stored, messages, coroutines,
                 terminated, scheduled>>

DelayFallsThrough ==                                               \* (variant)
  LET c == Top.of IN
  /\ InHandler /\ Top.kind = "execute" /\ Counted
  /\ Pop
  /\ where' = [where EXCEPT ![c] = "timer"] /\ stop' = stop \ {c}
  /\ Post(c)
  /\ UNCHANGED <<life, active, alive, inside, exiting, throwing, stored, messages, coroutines,
                 terminated, scheduled>>
DelayCoroutine ==
  LET c == Top.of IN
  /\ InHandler /\ Top.kind = "execute" /\ Counted
  /\ Pop
  /\ where' = [where EXCEPT ![c] = "timer"] /\ stop' = stop \ {c}
  /\ UNCHANGED <<life, loopVars, errorVars, queueVars, coroutines, terminated, scheduled>>

StopCoroutine ==
  /\ InHandler /\ Top.kind = "execute"
  /\ Pop
  /\ Abort(Top.of)
  /\ UNCHANGED <<life, loopVars, errorVars, queueVars, calls>>

--------------------------------------------------------------------------------
(* ProcessPendingEventHandlers, until the queue is empty.                     *)

InPending == At("loop", "pending") \/ At("loop", "drain") \/ At("yield", "pending")

HandleEvent ==
  /\ InPending
  /\ pending # <<>> /\ Head(pending) \notin coroutines
  /\ pending' = Tail(pending)
  /\ \/ Head(pending) = Gone /\ UNCHANGED stack
     \/ /\ Head(pending) # Gone
        /\ \E guarded \in BOOLEAN : stack' = Append(stack, HandlerFrame(Head(pending), guarded))
  /\ UNCHANGED <<life, loopVars, errorVars, messages, objectVars, calls>>

(* RunExecute.                                                               *)
ExecuteAlways ==                                                   \* (variant)
  LET c == Head(pending) IN
  /\ InPending
  /\ pending # <<>> /\ c \in coroutines
  /\ pending' = Tail(pending)
  /\ stack' = Append(stack, ExecuteFrame(c))
  /\ where' = [where EXCEPT ![c] = "execute"]
  /\ UNCHANGED <<coroutines, stop, terminated, scheduled>>
  /\ UNCHANGED <<life, loopVars, errorVars, messages, calls>>
RunExecute ==
  LET c == Head(pending) IN
  /\ InPending
  /\ pending # <<>> /\ c \in coroutines
  /\ pending' = Tail(pending)
  /\ \/ c \in stop /\ Abort(c) /\ UNCHANGED stack
     \/ /\ c \notin stop
        /\ stack' = Append(stack, ExecuteFrame(c))
        /\ where' = [where EXCEPT ![c] = "execute"]
        /\ UNCHANGED <<coroutines, stop, terminated, scheduled>>
  /\ UNCHANGED <<life, loopVars, errorVars, messages, calls>>

--------------------------------------------------------------------------------
(* CommonEventLoop::OnRun.                                                   *)

TestLoop ==
  /\ At("loop", "test")
  /\ \/ Top.of \in exiting /\ Goto("drain")
     \/ Top.of \notin exiting /\ Pending /\ Goto("pending")
     \/ Top.of \notin exiting /\ ~Pending /\ Call("idled", IdleFrame)
  /\ UNCHANGED <<life, loopVars, errorVars, queueVars, objectVars, calls>>

(* DispatchIdle asks for more, or not.                                       *)
AfterIdle ==
  /\ At("loop", "idled")
  /\ Goto("test") \/ Goto(IF Top.of \in exiting THEN "drain" ELSE "pending")
  /\ UNCHANGED <<life, loopVars, errorVars, queueVars, objectVars, calls>>

AfterPending ==
  /\ At("loop", "pending") /\ pending = <<>>
  /\ Goto(IF Top.of \in exiting THEN "drain" ELSE "wait")
  /\ UNCHANGED <<life, loopVars, errorVars, queueVars, objectVars, calls>>

(* Dispatch: a native message, a timer or the condition of WakeUp. A loop      *)
(* that ends dispatches messages if it is the last one.                      *)
Dispatches == At("loop", "wait") \/ (At("loop", "drain") /\ pending = <<>> /\ alive = {Top.of})
AfterDispatch == IF Top.pc = "wait" THEN "rethrow" ELSE "drain"

DispatchMessage ==
  /\ Dispatches
  /\ messages > 0
  /\ messages' = messages - 1
  /\ \E o \in Objects \cup {Window} : Call(AfterDispatch, HandlerFrame(o, TRUE))
  /\ UNCHANGED <<life, loopVars, errorVars, pending, objectVars, calls>>

TimerFires(c) ==
  /\ Dispatches
  /\ where[c] = "due"
  /\ where' = [where EXCEPT ![c] = "queue"]
  /\ Post(c)
  /\ Goto(AfterDispatch)
  /\ UNCHANGED <<life, active, alive, inside, exiting, throwing, stored, messages, coroutines,
                 stop, terminated, scheduled, calls>>

WokenUp ==
  /\ At("loop", "wait")
  /\ ~Pending /\ Top.of \in wake
  /\ wake' = wake \ {Top.of}
  /\ Goto("rethrow")
  /\ UNCHANGED <<life, active, alive, inside, exiting, errorVars, queueVars, objectVars, calls>>

(* RethrowStoredException, called by the destructor of a ScopeGuard, which is  *)
(* noexcept.                                                                 *)
AfterWait ==
  /\ At("loop", "rethrow")
  /\ \/ stored /\ outcome' = "terminated" /\ UNCHANGED stack
     \/ ~stored /\ Goto(IF Top.of \in exiting THEN "drain" ELSE "test") /\ UNCHANGED outcome
  /\ UNCHANGED <<life, loopVars, throwing, stored, queueVars, objectVars, calls>>

(* Run returns or is left by an exception: the activator restores the loop     *)
(* that was active before, if there was one.                                 *)
LeaveActive ==                                                     \* (variant)
  /\ Pop
  /\ inside' = inside \ {Top.of}
  /\ UNCHANGED <<active, alive, exiting, wake>>
LeaveLoop ==
  /\ Pop
  /\ inside' = inside \ {Top.of}
  /\ active' = IF Top.prev # NoLoop THEN Top.prev ELSE active
  /\ UNCHANGED <<alive, exiting, wake>>

EndLoop ==
  /\ At("loop", "drain")
  /\ pending = <<>> /\ (~Pending \/ alive # {Top.of})
  /\ LeaveLoop
  /\ UNCHANGED <<life, errorVars, queueVars, objectVars, calls>>

--------------------------------------------------------------------------------
(* YieldFor and DispatchIdle.                                                *)

AfterYieldPending ==
  /\ At("yield", "pending") /\ pending = <<>>
  /\ Call("rethrow", IdleFrame)
  /\ UNCHANGED <<life, loopVars, errorVars, queueVars, objectVars, calls>>

(* RethrowStoredException. std::exception_ptr need not be empty after a move.  *)
EndYield ==
  /\ At("yield", "rethrow")
  /\ Pop
  /\ throwing' = stored /\ stored' \in {FALSE, stored}
  /\ UNCHANGED <<life, loopVars, outcome, queueVars, objectVars, calls>>

(* The handlers of the idle event.                                           *)
IdleEvent ==
  /\ At("idle", "event")
  /\ \/ Goto("finalize") /\ UNCHANGED calls
     \/ Counted /\ \E o \in Objects \cup {Window} : Call("finalize", HandlerFrame(o, FALSE))
  /\ UNCHANGED <<life, loopVars, errorVars, queueVars, objectVars>>

(* FinalizeScheduledForDestruction clears the list under its lock. What a      *)
(* destructor schedules is added to the vector that is being cleared.         *)
Owned == {scheduled[i].at : i \in {j \in 1..Len(scheduled) : scheduled[j].owns}}

KeepScheduled ==                                                   \* (variant)
  /\ UNCHANGED <<where, pending, scheduled, coroutines, stop, terminated, outcome, calls>>
Finalize ==
  /\ Bury(Owned)
  /\ scheduled' = <<>>
  /\ \/ outcome' = outcome /\ UNCHANGED calls
     \/ Owned # {} /\ Counted /\ outcome' = "undefined"
  /\ UNCHANGED <<coroutines, stop, terminated>>

EndIdle ==
  /\ At("idle", "finalize")
  /\ Finalize
  /\ stack' = Orphan(Front(stack), Owned)
  /\ UNCHANGED <<life, loopVars, throwing, stored, messages>>

--------------------------------------------------------------------------------
(* Exceptions.                                                               *)

Unwinding(kinds) == throwing /\ stack # <<>> /\ Top.kind \in kinds

LeaveGone ==
  /\ Unwinding({"handler"}) /\ Top.of = Gone
  /\ outcome' = "undefined"
  /\ UNCHANGED <<life, stack, loopVars, throwing, stored, queueVars, objectVars, calls>>

PassThrough ==
  /\ Unwinding({"handler", "yield", "idle"}) /\ Top.pc # "guarded" /\ Top.of # Gone
  /\ Pop
  /\ UNCHANGED <<life, loopVars, errorVars, queueVars, objectVars, calls>>

(* The shared_ptr of RunExecute is the last one.                              *)
LeaveExecute ==
  LET c == Top.of IN
  /\ Unwinding({"execute"})
  /\ Pop
  /\ where' = [where EXCEPT ![c] = "free"]
  /\ coroutines' = coroutines \ {c} /\ stop' = stop \ {c} /\ terminated' = terminated \ {c}
  /\ UNCHANGED <<life, loopVars, errorVars, queueVars, scheduled, calls>>

(* ConsumeException, with the answers of OnMainLoopException: to go on, to     *)
(* quit, or an exception. Only one exception can be stored.                  *)
IsYielding(l) == \E i \in 1..Len(stack) : stack[i].kind = "yield" /\ stack[i].of = l

ConsumeException ==
  /\ Unwinding({"handler"}) /\ Top.pc = "guarded" /\ Top.of # Gone
  /\ Pop /\ throwing' = FALSE
  /\ \/ UNCHANGED <<exiting, wake, stored, outcome>>
     \/ Exit({MainLoop} \cap {active}) /\ UNCHANGED <<stored, outcome>>
     \/ /\ Exit({l \in {active} : IsYielding(l)})
        /\ stored' = TRUE
        /\ outcome' = IF stored THEN "terminated" ELSE outcome
  /\ UNCHANGED <<life, active, alive, inside, queueVars, objectVars, calls>>

(* The handler of OnRun, with the same answers.                              *)
CatchInLoop ==
  /\ Unwinding({"loop"})
  /\ \/ Goto("test") /\ throwing' = FALSE /\ UNCHANGED loopVars
     \/ LeaveLoop /\ throwing' \in BOOLEAN
  /\ UNCHANGED <<life, stored, outcome, queueVars, objectVars, calls>>

--------------------------------------------------------------------------------
(* ApplicationInitializer, CoreApplication::OnRun, OnExit and OnDestroy.       *)

OnRun ==
  /\ life = "start"
  /\ life' = "run"
  /\ alive' = {MainLoop} /\ EnterLoop(MainLoop)
  /\ UNCHANGED <<wake, errorVars, queueVars, objectVars, calls>>

OnRunReturns ==
  /\ life = "run" /\ stack = <<>>
  /\ life' = "exit" /\ throwing' = FALSE
  /\ Destroyed(MainLoop)
  /\ UNCHANGED <<stack, inside, stored, outcome, queueVars, objectVars, calls>>

OnExit ==
  /\ life = "exit" /\ life' = "destroy"
  /\ Finalize
  /\ UNCHANGED <<stack, loopVars, throwing, stored, messages>>

OnDestroy ==
  /\ life = "destroy" /\ life' = "done"
  /\ Finalize
  /\ UNCHANGED <<stack, loopVars, throwing, stored, messages>>

(* The system sends a message, a delay is over, another thread posts an event. *)
MessageArrives ==
  /\ life = "run" /\ Counted
  /\ messages' = messages + 1
  /\ UNCHANGED <<life, stack, loopVars, errorVars, pending, objectVars>>

DelayIsOver(c) ==
  /\ where[c] = "timer"
  /\ where' = [where EXCEPT ![c] = "due"]
  /\ UNCHANGED <<life, stack, loopVars, errorVars, queueVars, coroutines, stop, terminated,
                 scheduled, calls>>

ThreadPosts(o) ==
  /\ life = "run" /\ Counted
  /\ o \in Objects
  /\ Post(o)
  /\ UNCHANGED <<life, stack, active, alive, inside, exiting, throwing, stored, messages,
                 objectVars>>

--------------------------------------------------------------------------------

Calls ==
  \/ \E o \in Slots : New(o) \/ PostEvent(o) \/ ScheduleForDestruction(o)
  \/ \E c \in Slots : RunCoroutine(c) \/ Terminate(c)
  \/ \E l \in Loops : ExitLoop(l) \/ CreateLoop(l) \/ DestroyLoop(l) \/ RunLoop(l) \/ RunRefused(l)
  \/ ExitMainLoop \/ Yield \/ Throw \/ ContinueCoroutine \/ DelayCoroutine

Steps ==
  \/ HandlerReturns \/ StopCoroutine \/ HandleEvent \/ RunExecute
  \/ TestLoop \/ AfterIdle \/ AfterPending \/ DispatchMessage \/ WokenUp \/ AfterWait \/ EndLoop
  \/ AfterYieldPending \/ EndYield \/ IdleEvent \/ EndIdle
  \/ LeaveGone \/ PassThrough \/ LeaveExecute \/ ConsumeException \/ CatchInLoop
  \/ OnRun \/ OnRunReturns \/ OnExit \/ OnDestroy
  \/ \E c \in Slots : TimerFires(c)

Next ==
  /\ outcome = "running"
  /\ \/ Steps \/ Calls \/ MessageArrives
     \/ \E o \in Slots : DelayIsOver(o) \/ ThreadPosts(o)

(* The thread goes on while it can: handlers return and coroutines stop or are *)
(* delayed. No call, message or timer is due.                                *)
Fairness == WF_vars(Steps)

Spec == Init /\ [][Next]_vars /\ Fairness

--------------------------------------------------------------------------------
(* PROPERTIES                                                                *)

Kinds == {"loop", "handler", "execute", "yield", "idle"}
PCs == {"test", "idled", "pending", "wait", "rethrow", "drain", "plain", "guarded", "event",
        "finalize"}
Owners == {"free", "client", "list", "queue", "execute", "timer", "due"}
Frames == [kind : Kinds, of : Slots \cup Loops \cup {Window, Gone}, prev : Loops \cup {NoLoop},
           pc : PCs]

FrameOK(f) ==
  /\ f \in Frames
  /\ f.kind = "loop" => f.of \in Loops
  /\ f.kind = "execute" => f.of \in Slots
StackOK(s) == s \in Seq(Frames) /\ \A i \in 1..Len(s) : FrameOK(s[i])
LoopsOK ==
  /\ active \in Loops \cup {NoLoop}
  /\ alive \subseteq Loops /\ inside \subseteq Loops
  /\ exiting \subseteq alive /\ wake \subseteq alive
ErrorsOK ==
  /\ throwing \in BOOLEAN /\ stored \in BOOLEAN
  /\ outcome \in {"running", "terminated", "undefined"}
QueuesOK == pending \in Seq(Slots \cup {Gone}) /\ messages \in Nat
ObjectsOK ==
  /\ where \in [Slots -> Owners]
  /\ coroutines \subseteq Slots
  /\ stop \subseteq coroutines /\ terminated \subseteq coroutines
  /\ scheduled \in Seq([at : Slots, owns : BOOLEAN])

(* The types of the variables: frames and flags are those of loops, coroutines *)
(* and objects that exist.                                                   *)
TypeOK ==
  /\ life \in {"start", "run", "exit", "destroy", "done"}
  /\ StackOK(stack)
  /\ LoopsOK /\ ErrorsOK /\ QueuesOK /\ ObjectsOK
  /\ calls \in 0..MaxCalls

(* While loops run, the active loop is the innermost one and each activator    *)
(* would restore the one around it, however loops end; once none runs, the    *)
(* application's pointer is null unless a loop nobody runs still exists.      *)
IsLoop(i) == stack[i].kind = "loop"
NoLoopIn(n) == \A i \in 1..n : ~IsLoop(i)
Innermost(n, l) ==
  \E i \in 1..n : IsLoop(i) /\ stack[i].of = l /\ \A j \in (i + 1)..n : ~IsLoop(j)
Encloses(n, l) == IF l = NoLoop THEN NoLoopIn(n) ELSE Innermost(n, l)
ActiveIsInnermost ==
  /\ inside \subseteq alive
  /\ \A l \in Loops : l \in inside <=> \E i \in 1..Len(stack) : IsLoop(i) /\ stack[i].of = l
  /\ \A i, j \in 1..Len(stack) : IsLoop(i) /\ IsLoop(j) /\ stack[i].of = stack[j].of => i = j
  /\ \A i \in 1..Len(stack) : IsLoop(i) => Encloses(i - 1, stack[i].prev)
  /\ stack # <<>> => active # NoLoop /\ Innermost(Len(stack), active)
  /\ (life \in {"exit", "destroy", "done"} /\ alive = {}) => active = NoLoop

(* Each coroutine has one owner: the queue once, one Execute on the stack, or  *)
(* its own timer.                                                            *)
Queued(i, c) == pending[i] = c
Executes(i, c) == stack[i].kind = "execute" /\ stack[i].of = c
OneOwner ==
  \A c \in coroutines :
    /\ where[c] = "queue" <=> \E i \in 1..Len(pending) : Queued(i, c)
    /\ \A i, j \in 1..Len(pending) : Queued(i, c) /\ Queued(j, c) => i = j
    /\ where[c] = "execute" <=> \E i \in 1..Len(stack) : Executes(i, c)
    /\ \A i, j \in 1..Len(stack) : Executes(i, c) /\ Executes(j, c) => i = j

(* "Actually a user should use ICoreApplication::ScheduleForDestruction"       *)
(* (SearchEventTable): an object is not destroyed under its own handler, but   *)
(* by an idle event inside the handler, or if the list still has the address  *)
(* from a coroutine that died there.                                         *)
NotDestroyedUnderHandler ==
  [][\A i \in 1..Len(stack) :
       (stack[i].kind = "handler" /\ stack[i].of \in Slots /\ where'[stack[i].of] = "free") =>
         \/ Top.kind = "idle"
         \/ \E j \in 1..Len(scheduled) : scheduled[j] = [at |-> stack[i].of, owns |-> FALSE]]_vars

(* A coroutine that was terminated while it did not execute never executes     *)
(* again. (What Execute returns replaces what Terminate stored.)             *)
TerminatedNeverExecutes ==
  [][\A c \in terminated : where[c] # "execute" => where'[c] # "execute"]_vars

(* "Garbage collect all objects previously scheduled for destruction"          *)
(* (DispatchIdle): unless the thread waits for a message for ever, they are    *)
(* destroyed in the end, however handlers nest loops and exceptions end them. *)
Waits == At("loop", "wait")
ScheduledIsDestroyed ==
  \A o \in Slots :
    []<>~Waits => (where[o] = "list" ~> (where[o] # "list" \/ outcome # "running"))

(* A loop that is told to exit while it is the active one ends.                *)
ExitEndsLoop ==
  \A l \in Loops :
    (l \in exiting /\ active = l) ~> (l \notin inside \/ active # l \/ outcome # "running")
================================================================================
