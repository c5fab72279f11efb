-------------------------- MODULE PendingEvents_proofs -------------------------
(***************************************************************************)
(* Theorems about PendingEvents, for any number of threads, handlers and    *)
(* events: the types and the control state every step relies on; neither    *)
(* list of CoreApplication holds a handler twice; no queue holds two events *)
(* with one ID, but for those SearchEventTable moves there; as long as      *)
(* client code discards no queue of a live handler, a handler is listed if  *)
(* and only if it has pending events; a destroyed handler leaves nothing    *)
(* behind; as long as no handler throws, delayed handlers are moved back    *)
(* and the loop does not sleep over events; and the queues implement        *)
(* EventQueue.                                                              *)
(***************************************************************************)
EXTENDS PendingEvents, SequenceLemmas

(* The control state every step relies on. A thread inside DoQueueEvent has *)
(* an event in hand; only the innermost call is not suspended in a handler; *)
(* the main thread queues events from a handler or from the loop itself.    *)
PostingOK == \A t \in Threads : pc[t] # "idle" => posting[t] \in Events
StackOK   == \A i \in 1..Len(stack) : i < Len(stack) => stack[i].pc = "run"
MainOK    == pc[Main] # "idle" => stack = <<>> \/ Last(stack).pc = "run"
ControlInv == TypeOK /\ PostingOK /\ StackOK /\ MainOK

--------------------------------------------------------------------------------
(* The stack operations keep a stack of frames.                             *)

(* Replacing the top of a stack.                                            *)
LEMMA SetTopFrames ==
  ASSUME NEW s \in Seq(Frames), s # <<>>, NEW f \in Frames
  PROVE  LET r == [s EXCEPT ![Len(s)] = f] IN
         /\ r \in Seq(Frames) /\ r # <<>> /\ Len(r) = Len(s)
         /\ Last(r) = f
         /\ \A i \in 1..Len(s) : i < Len(s) => r[i] = s[i]
<1>1. Len(s) \in 1..Len(s)
  OBVIOUS
<1>. QED
  BY <1>1, ExceptSeq DEF Last

(* Leaving the innermost call.                                              *)
LEMMA PopFrames ==
  ASSUME NEW s \in Seq(Frames), s # <<>>
  PROVE  /\ Front(s) \in Seq(Frames) /\ Len(Front(s)) = Len(s) - 1
         /\ \A i \in 1..(Len(s) - 1) : Front(s)[i] = s[i]
  BY FrontProperties

(* Entering a call.                                                         *)
LEMMA PushFrames ==
  ASSUME NEW s \in Seq(Frames), NEW f \in Frames
  PROVE  /\ Append(s, f) \in Seq(Frames) /\ Len(Append(s, f)) = Len(s) + 1
         /\ Last(Append(s, f)) = f
         /\ \A i \in 1..Len(s) : Append(s, f)[i] = s[i]
  BY AppendProperties DEF Last

(* The frames the actions build are frames.                                 *)
LEMMA FrameTypes ==
  ASSUME NEW mask \in SUBSET Categories
  PROVE  /\ \A at \in OtherPCs : Frame(at, mask) \in Frames
         /\ \A at \in WorkingPCs, h \in Handlers : Working(at, h, mask) \in Frames
         /\ \A r \in Seq(Handlers) : [Frame("discard", mask) EXCEPT !.rest = r] \in Frames
  BY DEF Frame, Working, Frames, OtherPCs, WorkingPCs

(* What is known of the innermost call.                                     *)
LEMMA TopTypes ==
  ASSUME TypeOK, stack # <<>>
  PROVE  /\ Top \in Frames
         /\ Top.allowed \in SUBSET Categories
         /\ Top.rest \in Seq(Handlers)
         /\ Top.pc \in WorkingPCs => Top.handler \in Handlers
         /\ Top.pc \in OtherPCs => Top.handler = NoHandler
<1>1. Top \in Frames
  BY DEF Top, Last, TypeOK
<1>2. CASE Top \in [pc : WorkingPCs, handler : Handlers, allowed : SUBSET Categories,
                     rest : {<<>>}]
  <2>1. <<>> \in Seq(Handlers)
    OBVIOUS
  <2>. QED
    BY <1>1, <1>2, <2>1 DEF OtherPCs, WorkingPCs
<1>3. CASE Top \in [pc : OtherPCs, handler : {NoHandler}, allowed : SUBSET Categories,
                     rest : Seq(Handlers)]
  BY <1>1, <1>3 DEF OtherPCs, WorkingPCs
<1>. QED
  BY <1>1, <1>2, <1>3 DEF Frames
--------------------------------------------------------------------------------
(* The control state.                                                       *)

(* A step of the main thread that replaces its innermost call.              *)
LEMMA TopChange ==
  ASSUME TypeOK, StackOK, MainIdle, stack # <<>>, NEW f \in Frames, SetTop(f), pc' = pc
  PROVE  /\ stack' \in Seq(Frames) /\ stack' # <<>> /\ Last(stack') = f
         /\ Len(stack') = Len(stack)
         /\ StackOK' /\ MainOK'
<1>1. stack' = [stack EXCEPT ![Len(stack)] = f] /\ stack \in Seq(Frames)
  BY DEF SetTop, TypeOK
<1>2. /\ stack' \in Seq(Frames) /\ stack' # <<>> /\ Len(stack') = Len(stack)
      /\ Last(stack') = f
      /\ \A i \in 1..Len(stack) : i < Len(stack) => stack'[i] = stack[i]
  BY <1>1, SetTopFrames
<1>. QED
  BY <1>2 DEF StackOK, MainOK, MainIdle

(* A step of the main thread that leaves its innermost call.                *)
LEMMA PopChange ==
  ASSUME TypeOK, StackOK, MainIdle, stack # <<>>, Pop, pc' = pc
  PROVE  /\ stack' \in Seq(Frames) /\ Len(stack') = Len(stack) - 1
         /\ \A i \in 1..Len(stack') : stack'[i] = stack[i] /\ stack'[i].pc = "run"
         /\ StackOK' /\ MainOK'
<1>1. stack' = Front(stack) /\ stack \in Seq(Frames)
  BY DEF Pop, TypeOK
<1>2. /\ stack' \in Seq(Frames) /\ Len(stack') = Len(stack) - 1
      /\ \A i \in 1..(Len(stack) - 1) : stack'[i] = stack[i]
  BY <1>1, PopFrames
<1>3. Len(stack) \in Nat
  BY <1>1
<1>. QED
  BY <1>2, <1>3 DEF StackOK, MainOK, MainIdle

(* A step of the main thread that enters a call from a running handler.     *)
LEMMA PushChange ==
  ASSUME TypeOK, StackOK, At("run"), NEW f \in Frames, stack' = Append(stack, f), pc' = pc
  PROVE  /\ stack' \in Seq(Frames) /\ stack' # <<>> /\ Last(stack') = f
         /\ StackOK' /\ MainOK'
<1>1. stack \in Seq(Frames) /\ stack # <<>> /\ stack[Len(stack)].pc = "run" /\ MainIdle
  BY DEF TypeOK, At, Top, Last
<1>2. /\ stack' \in Seq(Frames) /\ Len(stack') = Len(stack) + 1 /\ Last(stack') = f
      /\ \A i \in 1..Len(stack) : stack'[i] = stack[i]
  BY <1>1, PushFrames
<1>3. Len(stack) \in Nat
  BY <1>1
<1>. QED
  BY <1>1, <1>2, <1>3 DEF StackOK, MainOK, MainIdle

(* The list operations keep lists of handlers.                              *)
LEMMA ListTypes ==
  ASSUME NEW s \in Seq(Handlers), NEW h \in Handlers
  PROVE  /\ Unlist(s, h) \in Seq(Handlers)
         /\ AddIfAbsent(s, h) \in Seq(Handlers)
<1>1. AddIfAbsent(s, h) \in Seq(Handlers)
  BY AppendAbsent DEF AddIfAbsent
<1>2. Unlist(s, h) \in Seq(Handlers)
  BY RemoveFirstType DEF Unlist
<1>. QED
  BY <1>1, <1>2

(* Queuing an event keeps a queue of events, and it is not empty.           *)
LEMMA EnqueueType ==
  ASSUME NEW q \in Seq(Events), NEW e \in Events
  PROVE  Enqueue(q, e) \in Seq(Events) /\ Enqueue(q, e) # <<>>
<1> DEFINE same == {i \in 1..Len(q) : Replaces(e, q[i])}
<1>1. CASE same = {}
  BY <1>1, AppendProperties DEF Enqueue
<1>2. CASE same # {}
  <2>1. q # <<>>
    BY <1>2
  <2> DEFINE m == Max(same)
             r == [q EXCEPT ![m] = e]
  <2>2. ASSUME m \in 1..Len(q)
        PROVE  r \in Seq(Events) /\ r # <<>>
    <3> HIDE DEF m
    <3>. QED
      BY <2>1, <2>2, ExceptSeq
  <2>3. ASSUME m \notin 1..Len(q)
        PROVE  r \in Seq(Events) /\ r # <<>>
    <3> HIDE DEF m
    <3>1. r = [j \in 1..Len(q) |-> q[j]]
      BY <2>3
    <3>2. r = q
      BY <3>1
    <3>. QED
      BY <2>1, <3>2
  <2>4. r \in Seq(Events) /\ r # <<>>
    BY <2>2, <2>3
  <2>. QED
    BY <1>2, <2>4 DEF Enqueue
<1>. QED
  BY <1>1, <1>2

(* The event a yield allows is one of the queue.                            *)
LEMMA FirstAllowedType ==
  ASSUME NEW q \in Seq(Events), NEW mask, FirstAllowed(q, mask) # 0
  PROVE  FirstAllowed(q, mask) \in 1..Len(q)
<1> DEFINE I == {i \in 1..Len(q) : IsAllowed(q[i], mask)}
<1>1. FirstAllowed(q, mask) = IF I # {} THEN Min(I) ELSE 0
  BY Zenon DEF FirstAllowed, SelectInSeq
<1>2. I \in SUBSET Nat
  OBVIOUS
<1>. QED
  BY <1>1, <1>2, MinIsLeast

(* The innermost call goes on to a place where it works on no handler.      *)
LEMMA GotoChange ==
  ASSUME ControlInv, MainIdle, stack # <<>>, NEW at \in OtherPCs, Goto(at), pc' = pc
  PROVE  /\ stack' \in Seq(Frames) /\ stack' # <<>> /\ Len(stack') = Len(stack)
         /\ Last(stack') = Frame(at, Top.allowed)
         /\ StackOK' /\ MainOK'
<1>1. Frame(at, Top.allowed) \in Frames
  BY TopTypes, FrameTypes DEF ControlInv
<1>2. SetTop(Frame(at, Top.allowed))
  BY DEF Goto
<1>. QED
  BY <1>1, <1>2, TopChange DEF ControlInv

(* The innermost call goes on to work on handler h.                         *)
LEMMA GotoWorkChange ==
  ASSUME ControlInv, MainIdle, stack # <<>>, NEW at \in WorkingPCs, NEW h \in Handlers,
         GotoWork(at, h), pc' = pc
  PROVE  /\ stack' \in Seq(Frames) /\ stack' # <<>> /\ Len(stack') = Len(stack)
         /\ Last(stack') = Working(at, h, Top.allowed)
         /\ StackOK' /\ MainOK'
<1>1. Working(at, h, Top.allowed) \in Frames
  BY TopTypes, FrameTypes DEF ControlInv
<1>2. SetTop(Working(at, h, Top.allowed))
  BY DEF GotoWork
<1>. QED
  BY <1>1, <1>2, TopChange DEF ControlInv

(* The state of the initial states.                                         *)
LEMMA ControlInit == Init => ControlInv
<1> SUFFICES ASSUME Init
             PROVE  ControlInv
  OBVIOUS
<1>1. <<>> \in Seq(Events) /\ <<>> \in Seq(Handlers) /\ <<>> \in Seq(Frames)
  OBVIOUS
<1>2. TypeOK
  BY <1>1, PendingAssumption DEF Init, TypeOK
<1>3. PostingOK /\ MainOK
  BY PendingAssumption DEF Init, PostingOK, MainOK
<1>4. StackOK
  BY DEF Init, StackOK
<1>. QED
  BY <1>2, <1>3, <1>4 DEF ControlInv

(* A thread in DoQueueEvent keeps the control state.                        *)
LEMMA ControlQueue ==
  ASSUME ControlInv, NEW t \in Threads, Queue(t)
  PROVE  ControlInv'
<1>1. ASSUME NEW e \in Events, QueueEvent(t, e)
      PROVE  ControlInv'
  <2>1. /\ Target[e] \in Handlers
        /\ Enqueue(pendingEvents[Target[e]], e) \in Seq(Events)
    BY PendingAssumption, EnqueueType DEF ControlInv, TypeOK
  <2>2. TypeOK'
    BY <1>1, <2>1 DEF ControlInv, TypeOK, QueueEvent, SetOwner, listVars
  <2>3. PostingOK' /\ StackOK' /\ MainOK'
    BY <1>1 DEF ControlInv, TypeOK, PostingOK, StackOK, MainOK, QueueEvent, MayPost,
                MainInHandler
  <2>. QED
    BY <2>2, <2>3 DEF ControlInv
<1>2. ASSUME AddPendingEventHandler(t)
      PROVE  ControlInv'
  <2>1. Target[posting[t]] \in Handlers
    BY <1>2, PendingAssumption DEF ControlInv, PostingOK, AddPendingEventHandler
  <2>2. AddIfAbsent(pendingHandlers, Target[posting[t]]) \in Seq(Handlers)
    BY <2>1, ListTypes DEF ControlInv, TypeOK
  <2>3. TypeOK'
    BY <1>2, <2>1, <2>2 DEF ControlInv, TypeOK, AddPendingEventHandler, Unlock, SetOwner
  <2>4. PostingOK' /\ StackOK' /\ MainOK'
    BY <1>2 DEF ControlInv, TypeOK, PostingOK, StackOK, MainOK, AddPendingEventHandler
  <2>. QED
    BY <2>3, <2>4 DEF ControlInv
<1>3. ASSUME WakeUp(t)
      PROVE  ControlInv'
  BY <1>3 DEF ControlInv, TypeOK, PostingOK, StackOK, MainOK, WakeUp, Signal, queueVars,
              listVars
<1>. QED
  BY <1>1, <1>2, <1>3 DEF Queue

(* The loop of the main thread keeps the control state.                     *)
LEMMA ControlLoop ==
  ASSUME ControlInv, DispatchEvents \/ WakeFromWait \/ NativeMessage
  PROVE  ControlInv'
<1>1. ASSUME NEW mask \in SUBSET Categories, stack' = <<Frame("enter", mask)>>,
             MainIdle, pc' = pc
      PROVE  stack' \in Seq(Frames) /\ StackOK' /\ MainOK'
  <2>1. Frame("enter", mask) \in Frames
    BY FrameTypes DEF OtherPCs
  <2>. QED
    BY <1>1, <2>1 DEF StackOK, MainOK, MainIdle
<1>2. CASE DispatchEvents
  <2>1. stack' \in Seq(Frames) /\ StackOK' /\ MainOK'
    BY <1>1, <1>2 DEF DispatchEvents, postVars
  <2>. QED
    BY <1>2, <2>1 DEF ControlInv, TypeOK, PostingOK, DispatchEvents, queueVars, listVars,
                      postVars
<1>3. CASE WakeFromWait
  BY <1>3 DEF ControlInv, TypeOK, PostingOK, StackOK, MainOK, WakeFromWait, queueVars,
              listVars, postVars
<1>4. CASE NativeMessage
  <2>1. CASE stack' = stack
    BY <1>4, <2>1 DEF ControlInv, TypeOK, PostingOK, StackOK, MainOK, NativeMessage,
                      queueVars, listVars, postVars
  <2>2. ASSUME NEW mask \in SUBSET Categories, stack' = <<Frame("enter", mask)>>
        PROVE  ControlInv'
    <3>1. stack' \in Seq(Frames) /\ StackOK' /\ MainOK'
      BY <1>1, <1>4, <2>2 DEF NativeMessage, postVars
    <3>. QED
      BY <1>4, <3>1 DEF ControlInv, TypeOK, PostingOK, NativeMessage, queueVars, listVars,
                        postVars
  <2>. QED
    BY <1>4, <2>1, <2>2 DEF NativeMessage
<1>. QED
  BY <1>2, <1>3, <1>4

(* A ProcessPendingEventHandlers call keeps the control state.              *)
LEMMA ControlProcess ==
  ASSUME ControlInv, ProcessCalls
  PROVE  ControlInv'
<1>1. TypeOK /\ PostingOK /\ StackOK
  BY DEF ControlInv
<1>2. /\ stack # <<>> => Top.allowed \in SUBSET Categories
      /\ stack # <<>> /\ Top.pc \in WorkingPCs => Top.handler \in Handlers
  BY <1>1, TopTypes
<1>3. CASE SkipCall
  <2>1. stack' \in Seq(Frames) /\ StackOK' /\ MainOK'
    BY <1>1, <1>3, PopChange DEF SkipCall, At, postVars
  <2>. QED
    BY <1>1, <1>3, <2>1 DEF ControlInv, TypeOK, PostingOK, SkipCall, queueVars, listVars,
                            postVars
<1>4. CASE PickHandler
  <2>1. Head(pendingHandlers) \in Handlers
    BY <1>1, <1>4 DEF TypeOK, PickHandler
  <2>2. stack' \in Seq(Frames) /\ StackOK' /\ MainOK'
    BY <1>4, <2>1, GotoWorkChange DEF PickHandler, MayPick, At, postVars, WorkingPCs
  <2>. QED
    BY <1>1, <1>4, <2>2 DEF ControlInv, TypeOK, PostingOK, PickHandler, queueVars, listVars,
                            postVars
<1>5. CASE FinishCall
  <2>1. stack' \in Seq(Frames) /\ StackOK' /\ MainOK'
    BY <1>1, <1>5, PopChange DEF FinishCall, MayPick, At, postVars
  <2>. QED
    BY <1>1, <1>5, <2>1 DEF ControlInv, TypeOK, PostingOK, FinishCall, MoveDelayedBack,
                            queueVars, postVars
<1>6. CASE VetoHandler
  <2>1. /\ Unlist(pendingHandlers, Top.handler) \in Seq(Handlers)
        /\ Unlist(delayedHandlers, Top.handler) \in Seq(Handlers)
    BY <1>1, <1>2, <1>6, ListTypes DEF TypeOK, VetoHandler, At, WorkingPCs
  <2>2. stack' \in Seq(Frames) /\ StackOK' /\ MainOK'
    BY <1>6, GotoChange DEF VetoHandler, At, postVars, OtherPCs
  <2>. QED
    BY <1>1, <1>6, <2>1, <2>2 DEF ControlInv, TypeOK, PostingOK, VetoHandler, queueVars,
                                  postVars
<1>7. CASE NothingPending
  <2>1. stack' \in Seq(Frames) /\ StackOK' /\ MainOK'
    BY <1>7, GotoChange DEF NothingPending, At, postVars, OtherPCs
  <2>. QED
    BY <1>1, <1>7, <2>1 DEF ControlInv, TypeOK, PostingOK, NothingPending, queueVars,
                            listVars, postVars
<1>8. CASE TakeEvent
  <2> DEFINE h == Top.handler
             q == pendingEvents[h]
             i == FirstAllowed(q, Top.allowed)
  <2>1. h \in Handlers /\ q \in Seq(Events)
    BY <1>1, <1>2, <1>8 DEF TypeOK, TakeEvent, At, WorkingPCs
  <2>2. i \in 1..Len(q)
    BY <1>8, <2>1, FirstAllowedType DEF TakeEvent
  <2>3. RemoveAt(q, i) \in Seq(Events) /\ q[i] \in Events
    BY <2>1, <2>2, RemoveAtProperties
  <2>4. stack' \in Seq(Frames) /\ StackOK' /\ MainOK'
    <3>1. CASE GotoWork("remove", h)
      BY <1>8, <2>1, <3>1, GotoWorkChange DEF TakeEvent, At, postVars, WorkingPCs
    <3>2. CASE Goto("run")
      BY <1>8, <3>2, GotoChange DEF TakeEvent, At, postVars, OtherPCs
    <3>. QED
      BY <1>8, <3>1, <3>2 DEF TakeEvent
  <2>5. \E owner \in Threads \cup {NoThread} : SetOwner(h, owner)
    BY <1>8, PendingAssumption DEF TakeEvent
  <2>6. /\ pendingEvents' = [pendingEvents EXCEPT ![h] = RemoveAt(q, i)]
        /\ delivered' = delivered \cup {q[i]}
        /\ UNCHANGED <<listVars, wakeUp, loop, postVars, alive>>
    BY <1>8 DEF TakeEvent
  <2> HIDE DEF h, q, i
  <2>. QED
    BY <1>1, <2>1, <2>3, <2>4, <2>5, <2>6 DEF ControlInv, TypeOK, PostingOK, SetOwner,
                                             listVars, postVars
<1>9. CASE NothingAllowed
  <2>1. Top.handler \in Handlers
    BY <1>2, <1>9 DEF NothingAllowed, At, WorkingPCs
  <2>2. stack' \in Seq(Frames) /\ StackOK' /\ MainOK'
    BY <1>9, <2>1, GotoWorkChange DEF NothingAllowed, At, postVars, WorkingPCs
  <2>. QED
    BY <1>1, <1>9, <2>1, <2>2, PendingAssumption
    DEF ControlInv, TypeOK, PostingOK, NothingAllowed, SetOwner, listVars, postVars
<1>10. CASE RemovePendingEventHandler
  <2>1. Top.handler \in Handlers
    BY <1>2, <1>10 DEF RemovePendingEventHandler, At, WorkingPCs
  <2>2. /\ Unlist(pendingHandlers, Top.handler) \in Seq(Handlers)
        /\ Unlist(delayedHandlers, Top.handler) \in Seq(Handlers)
    BY <1>1, <2>1, ListTypes DEF TypeOK
  <2>3. stack' \in Seq(Frames) /\ StackOK' /\ MainOK'
    BY <1>10, GotoChange DEF RemovePendingEventHandler, At, postVars, OtherPCs
  <2>. QED
    BY <1>1, <1>10, <2>1, <2>2, <2>3
    DEF ControlInv, TypeOK, PostingOK, RemovePendingEventHandler, Unlock, SetOwner, postVars
<1>11. CASE DelayPendingEventHandler
  <2>1. Top.handler \in Handlers
    BY <1>2, <1>11 DEF DelayPendingEventHandler, At, WorkingPCs
  <2>2. /\ Unlist(pendingHandlers, Top.handler) \in Seq(Handlers)
        /\ AddIfAbsent(delayedHandlers, Top.handler) \in Seq(Handlers)
    BY <1>1, <2>1, ListTypes DEF TypeOK
  <2>3. stack' \in Seq(Frames) /\ StackOK' /\ MainOK'
    BY <1>11, GotoChange DEF DelayPendingEventHandler, At, postVars, OtherPCs
  <2>. QED
    BY <1>1, <1>11, <2>1, <2>2, <2>3
    DEF ControlInv, TypeOK, PostingOK, DelayPendingEventHandler, Unlock, SetOwner, postVars
<1>. QED
  BY <1>3, <1>4, <1>5, <1>6, <1>7, <1>8, <1>9, <1>10, <1>11 DEF ProcessCalls

(* What client code does in a handler keeps the control state.              *)
LEMMA ControlClient ==
  ASSUME ControlInv, ClientCode
  PROVE  ControlInv'
<1>1. TypeOK /\ PostingOK /\ StackOK
  BY DEF ControlInv
<1>2. stack # <<>> => Top \in Frames /\ Top.allowed \in SUBSET Categories
                      /\ Top.rest \in Seq(Handlers)
  BY <1>1, TopTypes
<1>3. CASE HandlerReturns
  <2>1. stack' \in Seq(Frames) /\ StackOK' /\ MainOK'
    BY <1>3, GotoChange DEF HandlerReturns, At, postVars, OtherPCs
  <2>. QED
    BY <1>1, <1>3, <2>1 DEF ControlInv, TypeOK, PostingOK, HandlerReturns, queueVars,
                            listVars, postVars
<1>4. CASE HandlerThrows
  <2>1. stack' \in Seq(Frames) /\ StackOK' /\ MainOK'
    BY <1>4 DEF HandlerThrows, StackOK, MainOK
  <2>. QED
    BY <1>1, <1>4, <2>1 DEF ControlInv, TypeOK, PostingOK, HandlerThrows, queueVars,
                            listVars, postVars
<1>5. ASSUME NEW mask \in SUBSET Categories, Yield(mask)
      PROVE  ControlInv'
  <2>1. Frame("enter", mask) \in Frames
    BY FrameTypes DEF OtherPCs
  <2>2. stack' \in Seq(Frames) /\ StackOK' /\ MainOK'
    BY <1>1, <1>5, <2>1, PushChange DEF Yield, postVars
  <2>. QED
    BY <1>1, <1>5, <2>2 DEF ControlInv, TypeOK, PostingOK, Yield, queueVars, listVars,
                            postVars
<1>6. ASSUME NEW h \in Handlers, Destroy(h)
      PROVE  ControlInv'
  <2>1. /\ Unlist(pendingHandlers, h) \in Seq(Handlers)
        /\ Unlist(delayedHandlers, h) \in Seq(Handlers)
    BY <1>1, ListTypes DEF TypeOK
  <2>. QED
    BY <1>1, <1>6, <2>1 DEF ControlInv, TypeOK, PostingOK, StackOK, MainOK, Destroy, postVars
<1>7. ASSUME NEW h \in Handlers, DiscardPendingEvents(h)
      PROVE  ControlInv'
  BY <1>1, <1>7 DEF ControlInv, TypeOK, PostingOK, StackOK, MainOK, DiscardPendingEvents,
                    listVars, postVars
<1>8. CASE StartDiscard
  <2> DEFINE f == [Frame("discard", Top.allowed) EXCEPT !.rest = pendingHandlers]
  <2>1. f \in Frames
    BY <1>1, <1>2, <1>8, FrameTypes DEF TypeOK, StartDiscard, At
  <2> HIDE DEF f
  <2>2. At("run") /\ stack' = Append(stack, f) /\ pc' = pc
    BY <1>8 DEF StartDiscard, f, postVars
  <2>3. stack' \in Seq(Frames) /\ StackOK' /\ MainOK'
    BY <1>1, <2>1, <2>2, PushChange
  <2>. QED
    BY <1>1, <1>8, <2>3, PendingAssumption
    DEF ControlInv, TypeOK, PostingOK, StartDiscard, queueVars, postVars
<1>9. CASE DiscardNext
  <2> DEFINE f == [Top EXCEPT !.rest = Tail(@)]
  <2>1. f \in Frames
    <3>1. Top \in Frames /\ Top.pc = "discard" /\ Top.rest # <<>> /\ Top.rest \in Seq(Handlers)
      BY <1>2, <1>9 DEF DiscardNext, At
    <3>2. Tail(Top.rest) \in Seq(Handlers)
      BY <3>1
    <3>. QED
      BY <3>1, <3>2 DEF Frames, WorkingPCs, OtherPCs
  <2> HIDE DEF f
  <2>2. SetTop(f) /\ MainIdle /\ stack # <<>> /\ pc' = pc
    BY <1>9 DEF DiscardNext, f, At, postVars
  <2>3. stack' \in Seq(Frames) /\ StackOK' /\ MainOK'
    BY <1>1, <2>1, <2>2, TopChange
  <2>4. pendingEvents' \in [Handlers -> Seq(Events)]
    <3>1. \/ pendingEvents' = [pendingEvents EXCEPT ![Head(Top.rest)] = <<>>]
          \/ pendingEvents' = pendingEvents
      BY <1>9 DEF DiscardNext
    <3>2. <<>> \in Seq(Events) /\ pendingEvents \in [Handlers -> Seq(Events)]
      BY <1>1 DEF TypeOK
    <3>. QED
      BY <3>1, <3>2
  <2>. QED
    BY <1>1, <1>9, <2>3, <2>4 DEF ControlInv, TypeOK, PostingOK, DiscardNext, listVars,
                                  postVars
<1>10. CASE FinishDiscard
  <2>1. stack' \in Seq(Frames) /\ StackOK' /\ MainOK'
    BY <1>1, <1>10, PopChange DEF FinishDiscard, At, postVars
  <2>. QED
    BY <1>1, <1>10, <2>1 DEF ControlInv, TypeOK, PostingOK, FinishDiscard, queueVars,
                             postVars
<1>. QED
  BY <1>3, <1>4, <1>5, <1>6, <1>7, <1>8, <1>9, <1>10 DEF ClientCode

(* Every step keeps the control state.                                      *)
LEMMA ControlStep == ControlInv /\ [Next]_vars => ControlInv'
<1> SUFFICES ASSUME ControlInv, [Next]_vars
             PROVE  ControlInv'
  OBVIOUS
<1>1. CASE UNCHANGED vars
  BY <1>1 DEF vars, ControlInv, TypeOK, PostingOK, StackOK, MainOK
<1>. QED
  BY <1>1, ControlQueue, ControlLoop, ControlProcess, ControlClient DEF Next

(* Type correctness: whatever client code calls, the queues hold events,    *)
(* the lists hold handlers, every lock has an owner or none and the stack   *)
(* holds ProcessPendingEventHandlers calls.                                 *)
THEOREM TypeCorrect == Safety => []TypeOK
<1>1. ControlInv => TypeOK
  BY DEF ControlInv
<1>. QED
  BY <1>1, ControlInit, ControlStep, PTL DEF Safety

(* The control state holds in every reachable state.                        *)
LEMMA ControlHolds == Safety => []ControlInv
  BY ControlInit, ControlStep, PTL DEF Safety

--------------------------------------------------------------------------------
(* The lists and the queues.                                                 *)

(* The ways a step may change the lists of CoreApplication.                 *)
Posted(h)    == pendingHandlers' = AddIfAbsent(pendingHandlers, h) /\ delayedHandlers' = delayedHandlers
Dropped(h)   == /\ pendingHandlers' = Unlist(pendingHandlers, h)
                /\ delayedHandlers' = Unlist(delayedHandlers, h)
Delayed(h)   == /\ pendingHandlers' = Unlist(pendingHandlers, h)
                /\ delayedHandlers' = AddIfAbsent(delayedHandlers, h)
MovedBack    == pendingHandlers' = delayedHandlers /\ delayedHandlers' = <<>>
Emptied      == pendingHandlers' = <<>> /\ delayedHandlers' = delayedHandlers
SameLists    == UNCHANGED <<pendingHandlers, delayedHandlers>>

(* Who adds a handler: a thread that has queued an event on it, or the main *)
(* thread, which found no event of it allowed.                              *)
Adds(h)      == \E t \in Threads : pc[t] = "add" /\ Target[posting[t]] = h
Delays(h)    == stack # <<>> /\ Top.pc = "delay" /\ Top.handler = h

LEMMA ListSteps ==
  ASSUME ControlInv, [Next]_vars
  PROVE  \/ SameLists \/ MovedBack \/ Emptied
         \/ \E h \in Handlers : \/ Posted(h) /\ Adds(h)
                                \/ Dropped(h)
                                \/ Delayed(h) /\ Delays(h)
<1>1. TypeOK /\ PostingOK
  BY DEF ControlInv
<1>2. stack # <<>> /\ Top.pc \in WorkingPCs => Top.handler \in Handlers
  BY <1>1, TopTypes
<1>3. CASE UNCHANGED vars
  BY <1>3 DEF vars, SameLists
<1>4. ASSUME NEW t \in Threads, Queue(t)
      PROVE  SameLists \/ \E h \in Handlers : Posted(h) /\ Adds(h)
  <2>1. ASSUME NEW e \in Events, QueueEvent(t, e)
        PROVE  SameLists
    BY <2>1 DEF QueueEvent, SameLists, listVars
  <2>2. ASSUME AddPendingEventHandler(t)
        PROVE  \E h \in Handlers : Posted(h) /\ Adds(h)
    <3>1. Target[posting[t]] \in Handlers
      BY <1>1, <2>2, PendingAssumption DEF PostingOK, AddPendingEventHandler
    <3>. QED
      BY <2>2, <3>1 DEF AddPendingEventHandler, Posted, Adds
  <2>3. ASSUME WakeUp(t)
        PROVE  SameLists
    BY <2>3 DEF WakeUp, SameLists, listVars
  <2>. QED
    BY <1>4, <2>1, <2>2, <2>3 DEF Queue
<1>5. CASE DispatchEvents \/ WakeFromWait \/ NativeMessage
  BY <1>5 DEF DispatchEvents, WakeFromWait, NativeMessage, SameLists, listVars
<1>6. CASE ProcessCalls
  <2>1. CASE SkipCall \/ PickHandler \/ NothingPending \/ TakeEvent \/ NothingAllowed
    BY <2>1 DEF SkipCall, PickHandler, NothingPending, TakeEvent, NothingAllowed, SameLists,
                listVars
  <2>2. CASE FinishCall
    BY <2>2 DEF FinishCall, MoveDelayedBack, MovedBack
  <2>3. CASE VetoHandler
    BY <1>2, <2>3 DEF VetoHandler, At, WorkingPCs, Dropped
  <2>4. CASE RemovePendingEventHandler
    BY <1>2, <2>4 DEF RemovePendingEventHandler, At, WorkingPCs, Dropped
  <2>5. CASE DelayPendingEventHandler
    BY <1>2, <2>5 DEF DelayPendingEventHandler, At, WorkingPCs, Delayed, Delays
  <2>. QED
    BY <1>6, <2>1, <2>2, <2>3, <2>4, <2>5 DEF ProcessCalls
<1>7. CASE ClientCode
  <2>1. CASE HandlerReturns \/ HandlerThrows \/ StartDiscard \/ DiscardNext
    BY <2>1 DEF HandlerReturns, HandlerThrows, StartDiscard, DiscardNext, SameLists, listVars
  <2>2. ASSUME NEW mask \in SUBSET Categories, Yield(mask)
        PROVE  SameLists
    BY <2>2 DEF Yield, SameLists, listVars
  <2>3. ASSUME NEW h \in Handlers, Destroy(h)
        PROVE  Dropped(h)
    BY <2>3 DEF Destroy, Dropped
  <2>4. ASSUME NEW h \in Handlers, DiscardPendingEvents(h)
        PROVE  SameLists
    BY <2>4 DEF DiscardPendingEvents, SameLists, listVars
  <2>5. CASE FinishDiscard
    BY <2>5 DEF FinishDiscard, Emptied
  <2>. QED
    BY <1>7, <2>1, <2>2, <2>3, <2>4, <2>5 DEF ClientCode
<1>. QED
  BY <1>3, <1>4, <1>5, <1>6, <1>7 DEF Next

--------------------------------------------------------------------------------
(* Neither list of CoreApplication ever holds a handler twice, whatever     *)
(* client code calls: moving the delayed list into the main one is safe     *)
(* because it only happens when the main one is empty.                      *)

LEMMA UnlistEffect ==
  ASSUME NEW s \in Seq(Handlers), NEW h \in Handlers, NoDuplicates(s)
  PROVE  /\ NoDuplicates(Unlist(s, h))
         /\ \A x : Contains(Unlist(s, h), x) <=> Contains(s, x) /\ x # h
  BY RemoveFirstProperties DEF NoDuplicates, Injective, Unlist

LEMMA AddEffect ==
  ASSUME NEW s \in Seq(Handlers), NEW h \in Handlers
  PROVE  /\ NoDuplicates(s) => NoDuplicates(AddIfAbsent(s, h))
         /\ \A x : Contains(AddIfAbsent(s, h), x) <=> Contains(s, x) \/ x = h
  BY AppendAbsent DEF NoDuplicates, Injective, AddIfAbsent

LEMMA NoDuplicatesStep ==
  ControlInv /\ ListsHaveNoDuplicates /\ [Next]_vars => ListsHaveNoDuplicates'
<1> SUFFICES ASSUME ControlInv, ListsHaveNoDuplicates, [Next]_vars
             PROVE  ListsHaveNoDuplicates'
  OBVIOUS
<1>1. /\ pendingHandlers \in Seq(Handlers) /\ delayedHandlers \in Seq(Handlers)
      /\ NoDuplicates(pendingHandlers) /\ NoDuplicates(delayedHandlers)
  BY DEF ControlInv, TypeOK, ListsHaveNoDuplicates
<1>2. NoDuplicates(<<>>)
  BY DEF NoDuplicates
<1>3. /\ SameLists => ListsHaveNoDuplicates'
      /\ MovedBack => ListsHaveNoDuplicates'
      /\ Emptied => ListsHaveNoDuplicates'
  BY <1>1, <1>2 DEF SameLists, MovedBack, Emptied, ListsHaveNoDuplicates
<1>4. ASSUME NEW h \in Handlers, Posted(h) \/ Dropped(h) \/ Delayed(h)
      PROVE  ListsHaveNoDuplicates'
  <2>1. /\ NoDuplicates(Unlist(pendingHandlers, h)) /\ NoDuplicates(Unlist(delayedHandlers, h))
        /\ NoDuplicates(AddIfAbsent(pendingHandlers, h))
        /\ NoDuplicates(AddIfAbsent(delayedHandlers, h))
    BY <1>1, UnlistEffect, AddEffect
  <2>. QED
    BY <1>1, <1>4, <2>1 DEF Posted, Dropped, Delayed, ListsHaveNoDuplicates
<1>. QED
  BY <1>3, <1>4, ListSteps

THEOREM ListsNeverHoldTwice == Safety => []ListsHaveNoDuplicates
<1>1. Init => ListsHaveNoDuplicates
  BY DEF Init, ListsHaveNoDuplicates, NoDuplicates
<1>. QED
  BY <1>1, NoDuplicatesStep, ControlHolds, PTL DEF Safety

--------------------------------------------------------------------------------
(* At most one of the pending events of a handler carries a given ID, unless *)
(* that is the ID of an event that SearchEventTable has queued there.       *)

UniqueQueue(q, S) ==
  \A i, j \in 1..Len(q) : SameID(q[i], q[j]) => i = j \/ UniqueID[q[i]] \in S

LEMMA EnqueueUnique ==
  ASSUME NEW q \in Seq(Events), NEW e \in Events, NEW S, UniqueQueue(q, S),
         e \in Requeued => UniqueID[e] \in S
  PROVE  UniqueQueue(Enqueue(q, e), S)
<1> DEFINE same == {i \in 1..Len(q) : Replaces(e, q[i])}
<1>1. CASE same = {}
  <2> DEFINE r == Append(q, e)
  <2>1. Enqueue(q, e) = r
    BY <1>1 DEF Enqueue
  <2>2. /\ Len(r) = Len(q) + 1 /\ Len(q) \in Nat /\ r[Len(q) + 1] = e
        /\ \A i \in 1..Len(q) : r[i] = q[i]
    BY AppendProperties
  <2>3. \A i \in 1..Len(q) :
          SameID(e, q[i]) \/ SameID(q[i], e) => UniqueID[e] \in S /\ UniqueID[q[i]] = UniqueID[e]
    BY <1>1 DEF SameID, Replaces, QueuedID
  <2> HIDE DEF r
  <2>4. ASSUME NEW i \in 1..Len(r), NEW j \in 1..Len(r), SameID(r[i], r[j]), i # j
        PROVE  UniqueID[r[i]] \in S
    <3>1. CASE i = Len(q) + 1
      <4>1. j \in 1..Len(q)
        BY <2>2, <2>4, <3>1
      <4>. QED
        BY <2>2, <2>3, <2>4, <3>1, <4>1
    <3>2. CASE j = Len(q) + 1
      <4>1. i \in 1..Len(q)
        BY <2>2, <2>4, <3>2
      <4>. QED
        BY <2>2, <2>3, <2>4, <3>2, <4>1
    <3>3. CASE i \in 1..Len(q) /\ j \in 1..Len(q)
      BY <2>2, <2>4, <3>3 DEF UniqueQueue
    <3>. QED
      BY <2>2, <3>1, <3>2, <3>3
  <2>. QED
    BY <2>1, <2>4 DEF UniqueQueue
<1>2. CASE same # {}
  <2> DEFINE m == Max(same)
  <2>1. m \in same
    <3>1. same \in SUBSET (1..Len(q)) /\ Len(q) \in Nat
      OBVIOUS
    <3> HIDE DEF same
    <3>. QED
      BY <1>2, <3>1, MaxIsGreatest
  <2>2. Enqueue(q, e) = [q EXCEPT ![m] = e]
    BY <1>2 DEF Enqueue
  <2>3. m \in 1..Len(q) /\ UniqueID[q[m]] = UniqueID[e]
    BY <2>1 DEF Replaces, QueuedID
  <2> HIDE DEF m, same
  <2> DEFINE r == [q EXCEPT ![m] = e]
  <2>4. /\ Len(r) = Len(q)
        /\ \A i \in 1..Len(q) : r[i] = IF i = m THEN e ELSE q[i]
    BY <2>3, ExceptSeq
  <2> HIDE DEF r
  <2>5. \A i \in 1..Len(q) : UniqueID[r[i]] = UniqueID[q[i]]
    BY <2>3, <2>4
  <2>6. ASSUME NEW i \in 1..Len(r), NEW j \in 1..Len(r), SameID(r[i], r[j])
        PROVE  i = j \/ UniqueID[r[i]] \in S
    <3>1. SameID(q[i], q[j])
      BY <2>4, <2>5, <2>6 DEF SameID
    <3>. QED
      BY <2>4, <2>5, <3>1 DEF UniqueQueue
  <2>. QED
    BY <2>2, <2>6 DEF UniqueQueue, r
<1>. QED
  BY <1>1, <1>2

LEMMA RemoveAtUnique ==
  ASSUME NEW q \in Seq(Events), NEW k \in 1..Len(q), NEW S, UniqueQueue(q, S)
  PROVE  UniqueQueue(RemoveAt(q, k), S)
<1> DEFINE r == RemoveAt(q, k)
<1>1. /\ Len(r) = Len(q) - 1 /\ Len(q) \in Nat
      /\ \A i \in 1..Len(r) : r[i] = IF i < k THEN q[i] ELSE q[i+1]
  BY RemoveAtProperties
<1> HIDE DEF r
<1>2. ASSUME NEW i \in 1..Len(r), NEW j \in 1..Len(r), SameID(r[i], r[j])
      PROVE  i = j \/ UniqueID[r[i]] \in S
  <2>1. PICK i1 \in 1..Len(q) : i1 = (IF i < k THEN i ELSE i+1) /\ r[i] = q[i1]
    BY <1>1
  <2>2. PICK j1 \in 1..Len(q) : j1 = (IF j < k THEN j ELSE j+1) /\ r[j] = q[j1]
    BY <1>1
  <2>3. i1 = j1 \/ UniqueID[q[i1]] \in S
    BY <1>2, <2>1, <2>2 DEF UniqueQueue
  <2>4. i1 = j1 => i = j
    BY <2>1, <2>2, <1>1
  <2>. QED
    BY <2>1, <2>3, <2>4
<1>. QED
  BY <1>2 DEF UniqueQueue, r

(* The ways a step may change the queues.                                   *)
Queued(e)   == pendingEvents' = [pendingEvents EXCEPT ![Target[e]] = Enqueue(@, e)]
Taken(h, i) == pendingEvents' = [pendingEvents EXCEPT ![h] = RemoveAt(@, i)]
Cleared(h)  == pendingEvents' = [pendingEvents EXCEPT ![h] = <<>>]

LEMMA QueueSteps ==
  ASSUME ControlInv, [Next]_vars
  PROVE  \/ UNCHANGED pendingEvents
         \/ \E e \in Events : Queued(e) /\ Target[e] \in alive /\ e \in posted'
         \/ \E h \in Handlers : \E i \in 1..Len(pendingEvents[h]) : Taken(h, i)
         \/ \E h : Cleared(h)
<1>1. TypeOK
  BY DEF ControlInv
<1>2. stack # <<>> /\ Top.pc \in WorkingPCs => Top.handler \in Handlers
  BY <1>1, TopTypes
<1>3. CASE UNCHANGED vars
  BY <1>3 DEF vars
<1>4. ASSUME NEW t \in Threads, Queue(t)
      PROVE  \/ UNCHANGED pendingEvents
             \/ \E e \in Events : Queued(e) /\ Target[e] \in alive /\ e \in posted'
  BY <1>4 DEF Queue, QueueEvent, AddPendingEventHandler, WakeUp, queueVars, Queued
<1>5. CASE DispatchEvents \/ WakeFromWait \/ NativeMessage
  BY <1>5 DEF DispatchEvents, WakeFromWait, NativeMessage, queueVars
<1>6. CASE ProcessCalls
  <2>1. CASE SkipCall \/ PickHandler \/ FinishCall \/ VetoHandler \/ NothingPending
    BY <2>1 DEF SkipCall, PickHandler, FinishCall, VetoHandler, NothingPending, queueVars
  <2>2. CASE NothingAllowed \/ RemovePendingEventHandler \/ DelayPendingEventHandler
    BY <2>2 DEF NothingAllowed, RemovePendingEventHandler, DelayPendingEventHandler
  <2>3. CASE TakeEvent
    <3>1. Top.handler \in Handlers /\ pendingEvents[Top.handler] \in Seq(Events)
      BY <1>1, <1>2, <2>3 DEF TypeOK, TakeEvent, At, WorkingPCs
    <3>2. FirstAllowed(pendingEvents[Top.handler], Top.allowed)
            \in 1..Len(pendingEvents[Top.handler])
      BY <2>3, <3>1, FirstAllowedType DEF TakeEvent
    <3>3. Taken(Top.handler, FirstAllowed(pendingEvents[Top.handler], Top.allowed))
      BY <2>3 DEF TakeEvent, Taken
    <3>. QED
      BY <3>1, <3>2, <3>3
  <2>. QED
    BY <1>6, <2>1, <2>2, <2>3 DEF ProcessCalls
<1>7. CASE ClientCode
  <2>1. CASE HandlerReturns \/ HandlerThrows \/ StartDiscard \/ FinishDiscard
    BY <2>1 DEF HandlerReturns, HandlerThrows, StartDiscard, FinishDiscard, queueVars
  <2>2. ASSUME NEW mask \in SUBSET Categories, Yield(mask)
        PROVE  UNCHANGED pendingEvents
    BY <2>2 DEF Yield, queueVars
  <2>3. ASSUME NEW h \in Handlers, Destroy(h) \/ DiscardPendingEvents(h)
        PROVE  Cleared(h)
    BY <2>3 DEF Destroy, DiscardPendingEvents, Cleared
  <2>4. CASE DiscardNext
    BY <2>4 DEF DiscardNext, Cleared
  <2>. QED
    BY <1>7, <2>1, <2>2, <2>3, <2>4 DEF ClientCode
<1>. QED
  BY <1>3, <1>4, <1>5, <1>6, <1>7 DEF Next

(* What was posted stays posted.                                            *)
LEMMA PostedGrows ==
  ASSUME [Next]_vars
  PROVE  posted \subseteq posted'
<1>1. CASE UNCHANGED vars
  BY <1>1 DEF vars
<1>2. ASSUME NEW t \in Threads, Queue(t)
      PROVE  posted \subseteq posted'
  BY <1>2 DEF Queue, QueueEvent, AddPendingEventHandler, WakeUp
<1>3. CASE DispatchEvents \/ WakeFromWait \/ NativeMessage
  BY <1>3 DEF DispatchEvents, WakeFromWait, NativeMessage, postVars
<1>4. CASE ProcessCalls
  BY <1>4 DEF ProcessCalls, SkipCall, PickHandler, FinishCall, VetoHandler, NothingPending,
              TakeEvent, NothingAllowed, RemovePendingEventHandler, DelayPendingEventHandler,
              postVars
<1>5. CASE ClientCode
  BY <1>5 DEF ClientCode, HandlerReturns, HandlerThrows, Yield, Destroy, DiscardPendingEvents,
              StartDiscard, DiscardNext, FinishDiscard, postVars
<1>. QED
  BY <1>1, <1>2, <1>3, <1>4, <1>5 DEF Next

LEMMA UniquePendingStep ==
  ControlInv /\ UniquePending /\ [Next]_vars => UniquePending'
<1> SUFFICES ASSUME ControlInv, UniquePending, [Next]_vars
             PROVE  UniquePending'
  OBVIOUS
<1>1. /\ pendingEvents \in [Handlers -> Seq(Events)]
      /\ \A h \in Handlers : UniqueQueue(pendingEvents[h], RequeuedIDs(h))
  BY DEF ControlInv, TypeOK, UniquePending, UniqueQueue
<1>2. (\A h \in Handlers : UniqueQueue(pendingEvents'[h], RequeuedIDs(h)')) => UniquePending'
  BY DEF UniquePending, UniqueQueue, SameID
<1>3. \A h \in Handlers : UniqueQueue(pendingEvents[h], RequeuedIDs(h)')
  <2>1. posted \subseteq posted'
    BY PostedGrows
  <2>2. \A h : RequeuedIDs(h) \subseteq RequeuedIDs(h)'
    BY <2>1 DEF RequeuedIDs
  <2>. QED
    BY <1>1, <2>2 DEF UniqueQueue
<1>4. ASSUME NEW h, NEW q, h \in Handlers => UniqueQueue(q, RequeuedIDs(h)'),
             pendingEvents' = [pendingEvents EXCEPT ![h] = q]
      PROVE  UniquePending'
  BY <1>1, <1>2, <1>3, <1>4
<1>5. ASSUME NEW e \in Events, Queued(e), e \in posted'
      PROVE  UniquePending'
  <2>1. Target[e] \in Handlers
    BY PendingAssumption DEF PendingAssumption
  <2>2. e \in Requeued => UniqueID[e] \in RequeuedIDs(Target[e])'
    BY <1>5 DEF RequeuedIDs
  <2>3. UniqueQueue(Enqueue(pendingEvents[Target[e]], e), RequeuedIDs(Target[e])')
    BY <1>1, <1>3, <2>1, <2>2, EnqueueUnique
  <2>. QED
    BY <1>4, <1>5, <2>3 DEF Queued
<1>6. ASSUME NEW h \in Handlers, NEW i \in 1..Len(pendingEvents[h]), Taken(h, i)
      PROVE  UniquePending'
  <2>1. UniqueQueue(RemoveAt(pendingEvents[h], i), RequeuedIDs(h)')
    BY <1>1, <1>3, RemoveAtUnique
  <2>. QED
    BY <1>4, <1>6, <2>1 DEF Taken
<1>7. ASSUME NEW h, Cleared(h)
      PROVE  UniquePending'
  <2>1. UniqueQueue(<<>>, RequeuedIDs(h)')
    BY DEF UniqueQueue
  <2>. QED
    BY <1>4, <1>7, <2>1 DEF Cleared
<1>8. UNCHANGED pendingEvents => UniquePending'
  BY <1>2, <1>3
<1>. QED
  BY <1>5, <1>6, <1>7, <1>8, QueueSteps

(* DoQueueEvent's replacement keeps unique IDs unique in every queue, but    *)
(* for the IDs of the events that SearchEventTable has queued there.         *)
THEOREM PendingIDsAreUnique == Safety => []UniquePending
<1>1. Init => UniquePending
  BY DEF Init, UniquePending
<1>. QED
  BY <1>1, UniquePendingStep, ControlHolds, PTL DEF Safety

--------------------------------------------------------------------------------
(* A handler is listed if and only if it has pending events. The invariant  *)
(* is about handlers whose lock is free, so the induction also says what    *)
(* the owner of a lock knows: a thread between its two lists has queued an  *)
(* event, the main thread removes a handler whose queue it emptied and      *)
(* delays one whose queue it left.                                          *)

(* Client code discards no queue of a live handler.                         *)
Quiet == Calls \cap {"discard", "discardAll", "veto"} = {}

AddingOK ==
  \A t \in Threads : pc[t] = "add" =>
    /\ pendingLock[Target[posting[t]]] = t
    /\ pendingEvents[Target[posting[t]]] # <<>>
WorkOK ==
  stack # <<>> =>
    /\ Top.pc = "remove" => /\ pendingLock[Top.handler] = Main
                            /\ pendingEvents[Top.handler] = <<>>
    /\ Top.pc = "delay"  => /\ pendingLock[Top.handler] = Main
                            /\ pendingEvents[Top.handler] # <<>>
    /\ Top.pc # "discard"
ListInv == ControlInv /\ ListsHaveNoDuplicates /\ AddingOK /\ WorkOK /\ ListedIffPending

LEMMA ListInit == Init => ListInv
<1> SUFFICES ASSUME Init
             PROVE  ListInv
  OBVIOUS
<1>1. ListsHaveNoDuplicates /\ ListedIffPending
  BY DEF Init, ListsHaveNoDuplicates, NoDuplicates, ListedIffPending, Listed, Contains
<1>2. AddingOK /\ WorkOK
  BY DEF Init, AddingOK, WorkOK
<1>. QED
  BY <1>1, <1>2, ControlInit DEF ListInv

(* What a change of the lists does to a handler.                            *)
LEMMA ListedEffect ==
  ASSUME ControlInv, ListsHaveNoDuplicates
  PROVE  /\ SameLists \/ (MovedBack /\ pendingHandlers = <<>>)
              => \A x : Listed(x)' <=> Listed(x)
         /\ \A h \in Handlers :
              /\ Posted(h) \/ Delayed(h) => \A x : Listed(x)' <=> Listed(x) \/ x = h
              /\ Dropped(h) => \A x : Listed(x)' <=> Listed(x) /\ x # h
<1>1. /\ pendingHandlers \in Seq(Handlers) /\ delayedHandlers \in Seq(Handlers)
      /\ NoDuplicates(pendingHandlers) /\ NoDuplicates(delayedHandlers)
  BY DEF ControlInv, TypeOK, ListsHaveNoDuplicates
<1>2. SameLists => \A x : Listed(x)' <=> Listed(x)
  BY DEF SameLists, Listed
<1>3. MovedBack /\ pendingHandlers = <<>> => \A x : Listed(x)' <=> Listed(x)
  <2>1. \A x : ~Contains(<<>>, x)
    BY DEF Contains
  <2>. QED
    BY <2>1 DEF MovedBack, Listed
<1>4. ASSUME NEW h \in Handlers
      PROVE  /\ Posted(h) \/ Delayed(h) => \A x : Listed(x)' <=> Listed(x) \/ x = h
             /\ Dropped(h) => \A x : Listed(x)' <=> Listed(x) /\ x # h
  <2>1. \A x : /\ Contains(Unlist(pendingHandlers, h), x)
                    <=> Contains(pendingHandlers, x) /\ x # h
               /\ Contains(Unlist(delayedHandlers, h), x)
                    <=> Contains(delayedHandlers, x) /\ x # h
               /\ Contains(AddIfAbsent(pendingHandlers, h), x)
                    <=> Contains(pendingHandlers, x) \/ x = h
               /\ Contains(AddIfAbsent(delayedHandlers, h), x)
                    <=> Contains(delayedHandlers, x) \/ x = h
    BY <1>1, UnlistEffect, AddEffect
  <2>. QED
    BY <2>1 DEF Posted, Delayed, Dropped, Listed
<1>. QED
  BY <1>2, <1>3, <1>4

(* The part of ListInv that is about locks, queues and threads.             *)
LEMMA ListQueue ==
  ASSUME ListInv, NEW t \in Threads, Queue(t)
  PROVE  AddingOK' /\ WorkOK' /\ ListedIffPending'
<1>1. TypeOK /\ PostingOK /\ MainOK
  BY DEF ListInv, ControlInv
<1>2. stack # <<>> /\ Top.pc \in WorkingPCs => Top.handler \in Handlers
  BY <1>1, TopTypes
<1>3. ASSUME NEW e \in Events, QueueEvent(t, e)
      PROVE  AddingOK' /\ WorkOK' /\ ListedIffPending'
  <2> DEFINE h == Target[e]
  <2>1. /\ h \in Handlers /\ t # NoThread /\ Main # NoThread
        /\ Enqueue(pendingEvents[h], e) # <<>>
    BY <1>1, PendingAssumption, EnqueueType DEF TypeOK
  <2>2. /\ pendingLock[h] = NoThread
        /\ pendingLock' = [pendingLock EXCEPT ![h] = t]
        /\ pendingEvents' = [pendingEvents EXCEPT ![h] = Enqueue(@, e)]
        /\ posting' = [posting EXCEPT ![t] = e] /\ pc' = [pc EXCEPT ![t] = "add"]
        /\ SameLists /\ stack' = stack
    BY <1>3 DEF QueueEvent, SetOwner, listVars, SameLists
  <2>3. ASSUME NEW k \in Handlers, k # h
        PROVE  pendingLock'[k] = pendingLock[k] /\ pendingEvents'[k] = pendingEvents[k]
    BY <1>1, <2>2, <2>3 DEF TypeOK
  <2>4. pendingLock'[h] = t /\ pendingEvents'[h] # <<>>
    BY <1>1, <2>1, <2>2 DEF TypeOK
  <2>5. AddingOK'
    <3> SUFFICES ASSUME NEW u \in Threads, pc'[u] = "add"
                 PROVE  /\ pendingLock'[Target[posting'[u]]] = u
                        /\ pendingEvents'[Target[posting'[u]]] # <<>>
      BY DEF AddingOK
    <3>1. CASE u = t
      BY <1>1, <2>2, <2>4, <3>1 DEF TypeOK
    <3>2. CASE u # t
      <4>1. pc[u] = "add" /\ posting'[u] = posting[u] /\ posting[u] \in Events
        BY <1>1, <2>2, <3>2 DEF TypeOK, PostingOK
      <4>2. /\ Target[posting[u]] \in Handlers /\ u # NoThread
            /\ pendingLock[Target[posting[u]]] = u
            /\ pendingEvents[Target[posting[u]]] # <<>>
        BY <4>1, PendingAssumption DEF ListInv, AddingOK
      <4>. QED
        BY <2>2, <2>3, <4>1, <4>2
    <3>. QED
      BY <3>1, <3>2
  <2>6. WorkOK'
    BY <1>2, <2>1, <2>2, <2>3 DEF ListInv, WorkOK, WorkingPCs, Top
  <2>7. ListedIffPending'
    BY <2>1, <2>2, <2>3, <2>4, ListedEffect DEF ListInv, ListedIffPending
  <2>. QED
    BY <2>5, <2>6, <2>7
<1>4. ASSUME AddPendingEventHandler(t)
      PROVE  AddingOK' /\ WorkOK' /\ ListedIffPending'
  <2> DEFINE h == Target[posting[t]]
  <2>1. /\ h \in Handlers /\ t # NoThread /\ Main # NoThread /\ pc[t] = "add"
        /\ pendingLock[h] = t /\ pendingEvents[h] # <<>>
    BY <1>1, <1>4, PendingAssumption DEF AddPendingEventHandler, ListInv, AddingOK, PostingOK
  <2>2. /\ pendingLock' = [pendingLock EXCEPT ![h] = NoThread]
        /\ pendingEvents' = pendingEvents
        /\ posting' = posting /\ pc' = [pc EXCEPT ![t] = "wake"]
        /\ Posted(h) /\ stack' = stack
    BY <1>4 DEF AddPendingEventHandler, Unlock, SetOwner, Posted
  <2>3. \A k \in Handlers : k # h => pendingLock'[k] = pendingLock[k]
    BY <1>1, <2>2 DEF TypeOK
  <2>4. AddingOK'
    <3> SUFFICES ASSUME NEW u \in Threads, pc'[u] = "add"
                 PROVE  /\ pendingLock'[Target[posting[u]]] = u
                        /\ pendingEvents[Target[posting[u]]] # <<>>
      BY <2>2 DEF AddingOK
    <3>1. u # t /\ pc[u] = "add" /\ posting[u] \in Events
      BY <1>1, <2>2 DEF TypeOK, PostingOK
    <3>2. /\ Target[posting[u]] \in Handlers /\ pendingLock[Target[posting[u]]] = u
          /\ pendingEvents[Target[posting[u]]] # <<>>
      BY <3>1, PendingAssumption DEF ListInv, AddingOK
    <3>. QED
      BY <2>1, <2>3, <3>1, <3>2
  <2>5. WorkOK'
    <3>1. stack # <<>> => Top.pc = "run" \/ t # Main
      BY <1>1, <2>1 DEF MainOK, Top
    <3>. QED
      BY <1>2, <2>1, <2>2, <2>3, <3>1 DEF ListInv, WorkOK, WorkingPCs, Top
  <2>6. ListedIffPending'
    BY <2>1, <2>2, <2>3, ListedEffect DEF ListInv, ListedIffPending
  <2>. QED
    BY <2>4, <2>5, <2>6
<1>5. ASSUME WakeUp(t)
      PROVE  AddingOK' /\ WorkOK' /\ ListedIffPending'
  <2>1. AddingOK'
    BY <1>1, <1>5 DEF ListInv, AddingOK, WakeUp, queueVars, TypeOK
  <2>2. WorkOK' /\ ListedIffPending'
    BY <1>5 DEF ListInv, WorkOK, Top, ListedIffPending, Listed, WakeUp, queueVars, listVars
  <2>. QED
    BY <2>1, <2>2
<1>. QED
  BY <1>3, <1>4, <1>5 DEF Queue

(* A step of the main thread that touches the lock and the queue of one     *)
(* handler whose lock no other thread owns.                                 *)
LEMMA AddingKept ==
  ASSUME ListInv, MainIdle, pc' = pc, posting' = posting, NEW h,
         h \in Handlers => pendingLock[h] \in {NoThread, Main},
         \A k \in Handlers : k # h => /\ pendingLock'[k] = pendingLock[k]
                                      /\ pendingEvents'[k] = pendingEvents[k]
  PROVE  AddingOK'
<1> SUFFICES ASSUME NEW u \in Threads, pc[u] = "add"
             PROVE  /\ pendingLock'[Target[posting[u]]] = u
                    /\ pendingEvents'[Target[posting[u]]] # <<>>
  BY DEF AddingOK
<1>1. Target[posting[u]] \in Handlers
  BY PendingAssumption DEF ListInv, ControlInv, PostingOK
<1>2. pendingLock[Target[posting[u]]] = u /\ pendingEvents[Target[posting[u]]] # <<>>
  BY DEF ListInv, AddingOK
<1>3. Target[posting[u]] # h
  BY <1>1, <1>2, PendingAssumption DEF MainIdle
<1>. QED
  BY <1>1, <1>2, <1>3

(* What WorkOK asks of the new innermost call.                              *)
LEMMA WorkKept ==
  ASSUME stack' # <<>> => Last(stack').pc \in {"enter", "pick", "run", "process"}
  PROVE  WorkOK'
  BY DEF WorkOK, Top

LEMMA ListLoop ==
  ASSUME ListInv, DispatchEvents \/ WakeFromWait \/ NativeMessage
  PROVE  AddingOK' /\ WorkOK' /\ ListedIffPending'
<1>1. /\ UNCHANGED <<queueVars, listVars, postVars>>
      /\ \/ stack' = <<>>
         \/ \E mask \in SUBSET Categories : stack' = <<Frame("enter", mask)>>
  BY DEF DispatchEvents, WakeFromWait, NativeMessage
<1>2. WorkOK'
  BY <1>1, WorkKept DEF Frame, Last
<1>3. AddingOK' /\ ListedIffPending'
  BY <1>1 DEF ListInv, AddingOK, ListedIffPending, Listed, queueVars, listVars, postVars
<1>. QED
  BY <1>2, <1>3

LEMMA ListProcess ==
  ASSUME Quiet, ListInv, ProcessCalls
  PROVE  AddingOK' /\ WorkOK' /\ ListedIffPending'
<1>1. /\ TypeOK /\ PostingOK /\ StackOK /\ ControlInv /\ ListsHaveNoDuplicates /\ AddingOK
      /\ WorkOK /\ ListedIffPending
  BY DEF ListInv, ControlInv
<1>2. /\ stack # <<>> /\ Top.pc \in WorkingPCs => Top.handler \in Handlers
      /\ Main # NoThread
  BY <1>1, TopTypes, PendingAssumption
<1>3. ASSUME UNCHANGED <<queueVars, postVars>>
      PROVE  AddingOK'
  BY <1>1, <1>3 DEF AddingOK, queueVars, postVars
<1>4. ASSUME UNCHANGED queueVars, SameLists
      PROVE  ListedIffPending'
  BY <1>1, <1>4, ListedEffect DEF ListedIffPending, queueVars
<1>5. ASSUME Pop, MainIdle, stack # <<>>, pc' = pc
      PROVE  WorkOK'
  <2>1. stack' # <<>> => Last(stack').pc = "run"
    BY <1>1, <1>5, PopChange DEF Last
  <2>. QED
    BY <2>1, WorkKept
<1>6. CASE SkipCall
  BY <1>3, <1>4, <1>5, <1>6 DEF SkipCall, At, SameLists, listVars, postVars
<1>7. CASE PickHandler
  <2>1. Head(pendingHandlers) \in Handlers
    BY <1>1, <1>7 DEF TypeOK, PickHandler
  <2>2. Last(stack') = Working("process", Head(pendingHandlers), Top.allowed)
    BY <1>1, <1>7, <2>1, GotoWorkChange DEF PickHandler, MayPick, At, postVars, WorkingPCs
  <2>3. WorkOK'
    BY <2>2, WorkKept DEF Working
  <2>. QED
    BY <1>3, <1>4, <1>7, <2>3 DEF PickHandler, SameLists, listVars
<1>8. CASE FinishCall
  <2>1. WorkOK'
    BY <1>5, <1>8 DEF FinishCall, MayPick, At, postVars
  <2>2. AddingOK'
    BY <1>3, <1>8 DEF FinishCall
  <2>3. ListedIffPending'
    <3>1. MovedBack /\ pendingHandlers = <<>>
      BY <1>8 DEF FinishCall, MoveDelayedBack, MovedBack
    <3>. QED
      BY <1>1, <1>8, <3>1, ListedEffect DEF FinishCall, ListedIffPending, queueVars
  <2>. QED
    BY <2>1, <2>2, <2>3
<1>9. ~VetoHandler
  BY DEF VetoHandler, Quiet
<1>10. CASE NothingPending
  <2>1. Last(stack') = Frame("pick", Top.allowed)
    BY <1>1, <1>10, GotoChange DEF NothingPending, At, postVars, OtherPCs
  <2>2. WorkOK'
    BY <2>1, WorkKept DEF Frame
  <2>. QED
    BY <1>3, <1>4, <1>10, <2>2 DEF NothingPending, SameLists, listVars
<1>11. CASE TakeEvent
  <2> DEFINE h == Top.handler
             q == pendingEvents[h]
             i == FirstAllowed(q, Top.allowed)
  <2>1. h \in Handlers /\ q \in Seq(Events) /\ q # <<>> /\ pendingLock[h] = NoThread /\ MainIdle
    BY <1>1, <1>2, <1>11 DEF TypeOK, TakeEvent, At, WorkingPCs
  <2>2. i \in 1..Len(q)
    BY <1>11, <2>1, FirstAllowedType DEF TakeEvent
  <2>3. /\ RemoveAt(q, i) \in Seq(Events)
        /\ Len(RemoveAt(q, i)) = Len(q) - 1
    BY <2>1, <2>2, RemoveAtProperties
  <2>4. RemoveAt(q, i) = <<>> <=> Len(q) = 1
    <3> HIDE DEF i, h, q
    <3>. QED
      BY <2>1, <2>2, <2>3
  <2>5. /\ pendingEvents' = [pendingEvents EXCEPT ![h] = RemoveAt(q, i)]
        /\ pendingLock' = [pendingLock EXCEPT ![h] = IF Len(q) = 1 THEN Main ELSE NoThread]
        /\ SameLists /\ pc' = pc /\ posting' = posting
    BY <1>11 DEF TakeEvent, SetOwner, SameLists, listVars, postVars
  <2>6. \A k \in Handlers : k # h => /\ pendingLock'[k] = pendingLock[k]
                                     /\ pendingEvents'[k] = pendingEvents[k]
    BY <1>1, <2>5 DEF TypeOK
  <2>7. /\ pendingEvents'[h] = RemoveAt(q, i)
        /\ pendingLock'[h] = IF Len(q) = 1 THEN Main ELSE NoThread
    BY <1>1, <2>1, <2>5 DEF TypeOK
  <2>8. \/ Len(q) = 1 /\ Last(stack') = Working("remove", h, Top.allowed)
        \/ Last(stack') = Frame("run", Top.allowed)
    <3>1. CASE Len(q) = 1 /\ GotoWork("remove", h)
      BY <1>1, <1>11, <2>1, <3>1, GotoWorkChange DEF TakeEvent, At, postVars, WorkingPCs
    <3>2. CASE Goto("run")
      BY <1>1, <1>11, <3>2, GotoChange DEF TakeEvent, At, postVars, OtherPCs
    <3>. QED
      BY <1>11, <3>1, <3>2 DEF TakeEvent
  <2> HIDE DEF h, q, i
  <2>9. AddingOK'
    BY <2>1, <2>5, <2>6, AddingKept
  <2>10. WorkOK'
    BY <2>4, <2>7, <2>8 DEF WorkOK, Top, Working, Frame
  <2>11. ListedIffPending'
    <3>1. \A k : Listed(k)' <=> Listed(k)
      BY <1>1, <2>5, ListedEffect
    <3>2. Listed(h)
      BY <1>1, <2>1 DEF ListedIffPending, q
    <3>3. pendingLock'[h] = NoThread => pendingEvents'[h] # <<>>
      BY <1>2, <2>4, <2>7
    <3>. QED
      BY <1>1, <2>6, <3>1, <3>2, <3>3 DEF ListedIffPending
  <2>. QED
    BY <2>9, <2>10, <2>11
<1>12. CASE NothingAllowed
  <2> DEFINE h == Top.handler
  <2>1. /\ h \in Handlers /\ MainIdle /\ pendingLock[h] = NoThread /\ pendingEvents[h] # <<>>
        /\ pendingLock' = [pendingLock EXCEPT ![h] = Main]
        /\ pendingEvents' = pendingEvents /\ SameLists /\ pc' = pc /\ posting' = posting
    BY <1>2, <1>12 DEF NothingAllowed, At, WorkingPCs, SetOwner, SameLists, listVars, postVars
  <2>2. /\ pendingLock'[h] = Main
        /\ \A k \in Handlers : k # h => pendingLock'[k] = pendingLock[k]
    BY <1>1, <2>1 DEF TypeOK
  <2>3. Last(stack') = Working("delay", h, Top.allowed)
    BY <1>1, <1>12, <2>1, GotoWorkChange DEF NothingAllowed, At, postVars, WorkingPCs
  <2>4. AddingOK'
    BY <2>1, <2>2, AddingKept
  <2>5. WorkOK'
    BY <2>1, <2>2, <2>3 DEF WorkOK, Top, Working
  <2>6. ListedIffPending'
    BY <1>1, <1>2, <2>1, <2>2, ListedEffect DEF ListedIffPending
  <2>. QED
    BY <2>4, <2>5, <2>6
<1>13. CASE RemovePendingEventHandler
  <2> DEFINE h == Top.handler
  <2>1. /\ h \in Handlers /\ MainIdle /\ pendingLock[h] = Main /\ pendingEvents[h] = <<>>
        /\ pendingLock' = [pendingLock EXCEPT ![h] = NoThread]
        /\ pendingEvents' = pendingEvents /\ Dropped(h) /\ pc' = pc /\ posting' = posting
    BY <1>1, <1>2, <1>13 DEF RemovePendingEventHandler, At, WorkingPCs, Unlock, SetOwner,
                             Dropped, postVars, WorkOK
  <2>2. \A k \in Handlers : k # h => pendingLock'[k] = pendingLock[k]
    BY <1>1, <2>1 DEF TypeOK
  <2>3. Last(stack') = Frame("run", Top.allowed)
    BY <1>1, <1>13, GotoChange DEF RemovePendingEventHandler, At, postVars, OtherPCs
  <2>4. AddingOK'
    BY <2>1, <2>2, AddingKept
  <2>5. WorkOK'
    BY <2>3, WorkKept DEF Frame
  <2>6. ListedIffPending'
    BY <1>1, <2>1, <2>2, ListedEffect DEF ListedIffPending
  <2>. QED
    BY <2>4, <2>5, <2>6
<1>14. CASE DelayPendingEventHandler
  <2> DEFINE h == Top.handler
  <2>1. /\ h \in Handlers /\ MainIdle /\ pendingLock[h] = Main /\ pendingEvents[h] # <<>>
        /\ pendingLock' = [pendingLock EXCEPT ![h] = NoThread]
        /\ pendingEvents' = pendingEvents /\ Delayed(h) /\ pc' = pc /\ posting' = posting
    BY <1>1, <1>2, <1>14 DEF DelayPendingEventHandler, At, WorkingPCs, Unlock, SetOwner,
                             Delayed, postVars, WorkOK
  <2>2. \A k \in Handlers : k # h => pendingLock'[k] = pendingLock[k]
    BY <1>1, <2>1 DEF TypeOK
  <2>3. Last(stack') = Frame("pick", Top.allowed)
    BY <1>1, <1>14, GotoChange DEF DelayPendingEventHandler, At, postVars, OtherPCs
  <2>4. AddingOK'
    BY <2>1, <2>2, AddingKept
  <2>5. WorkOK'
    BY <2>3, WorkKept DEF Frame
  <2>6. ListedIffPending'
    BY <1>1, <2>1, <2>2, ListedEffect DEF ListedIffPending
  <2>. QED
    BY <2>4, <2>5, <2>6
<1>. QED
  BY <1>6, <1>7, <1>8, <1>9, <1>10, <1>11, <1>12, <1>13, <1>14 DEF ProcessCalls

LEMMA ListClient ==
  ASSUME Quiet, ListInv, ClientCode
  PROVE  AddingOK' /\ WorkOK' /\ ListedIffPending'
<1>1. /\ TypeOK /\ PostingOK /\ StackOK /\ ControlInv /\ ListsHaveNoDuplicates /\ AddingOK
      /\ WorkOK /\ ListedIffPending
  BY DEF ListInv, ControlInv
<1>2. ASSUME UNCHANGED <<queueVars, postVars>>
      PROVE  AddingOK'
  BY <1>1, <1>2 DEF AddingOK, queueVars, postVars
<1>3. ASSUME UNCHANGED queueVars, SameLists
      PROVE  ListedIffPending'
  BY <1>1, <1>3, ListedEffect DEF ListedIffPending, queueVars
<1>4. CASE HandlerReturns
  <2>1. Last(stack') = Frame("pick", Top.allowed)
    BY <1>1, <1>4, GotoChange DEF HandlerReturns, At, postVars, OtherPCs
  <2>2. WorkOK'
    BY <2>1, WorkKept DEF Frame
  <2>. QED
    BY <1>2, <1>3, <1>4, <2>2 DEF HandlerReturns, SameLists, listVars
<1>5. CASE HandlerThrows
  <2>1. WorkOK'
    BY <1>5, WorkKept DEF HandlerThrows
  <2>. QED
    BY <1>2, <1>3, <1>5, <2>1 DEF HandlerThrows, SameLists, listVars
<1>6. ASSUME NEW mask \in SUBSET Categories, Yield(mask)
      PROVE  AddingOK' /\ WorkOK' /\ ListedIffPending'
  <2>1. Frame("enter", mask) \in Frames
    BY FrameTypes DEF OtherPCs
  <2>2. Last(stack') = Frame("enter", mask)
    BY <1>1, <1>6, <2>1, PushChange DEF Yield, postVars
  <2>3. WorkOK'
    BY <2>2, WorkKept DEF Frame
  <2>. QED
    BY <1>2, <1>3, <1>6, <2>3 DEF Yield, SameLists, listVars
<1>7. ASSUME NEW h \in Handlers, Destroy(h)
      PROVE  AddingOK' /\ WorkOK' /\ ListedIffPending'
  <2>1. /\ pendingLock' = pendingLock /\ pendingEvents' = [pendingEvents EXCEPT ![h] = <<>>]
        /\ Dropped(h) /\ pc' = pc /\ posting' = posting /\ stack' = stack
        /\ stack # <<>> /\ Top.pc = "run"
        /\ \A t \in Threads : pc[t] = "add" => Target[posting[t]] # h
    BY <1>7 DEF Destroy, Dropped, postVars, At
  <2>2. /\ pendingEvents'[h] = <<>>
        /\ \A k \in Handlers : k # h => pendingEvents'[k] = pendingEvents[k]
    BY <1>1, <2>1 DEF TypeOK
  <2>3. AddingOK'
    BY <1>1, <2>1, <2>2, PendingAssumption DEF AddingOK, PostingOK
  <2>4. WorkOK'
    BY <2>1, WorkKept DEF Top
  <2>5. ListedIffPending'
    BY <1>1, <2>1, <2>2, ListedEffect DEF ListedIffPending
  <2>. QED
    BY <2>3, <2>4, <2>5
<1>8. ASSUME NEW h \in Handlers
      PROVE  ~DiscardPendingEvents(h)
  BY DEF DiscardPendingEvents, Quiet
<1>9. ~StartDiscard /\ ~DiscardNext /\ ~FinishDiscard
  BY <1>1 DEF StartDiscard, DiscardNext, FinishDiscard, Quiet, At, WorkOK
<1>. QED
  BY <1>4, <1>5, <1>6, <1>7, <1>8, <1>9 DEF ClientCode

LEMMA ListStep == Quiet /\ ListInv /\ [Next]_vars => ListInv'
<1> SUFFICES ASSUME Quiet, ListInv, [Next]_vars
             PROVE  ListInv'
  OBVIOUS
<1>1. ControlInv' /\ ListsHaveNoDuplicates'
  BY ControlStep, NoDuplicatesStep DEF ListInv
<1>2. AddingOK' /\ WorkOK' /\ ListedIffPending'
  <2>1. CASE UNCHANGED vars
    BY <2>1 DEF vars, ListInv, AddingOK, WorkOK, Top, ListedIffPending, Listed
  <2>. QED
    BY <2>1, ListQueue, ListLoop, ListProcess, ListClient DEF Next
<1>. QED
  BY <1>1, <1>2 DEF ListInv

(* "The invariant that a handler should be in the list if and only if it has *)
(* any pending events to process" (EvtHandler::DoQueueEvent) holds for every *)
(* number of threads, handlers and events, through nested selective yields,  *)
(* exceptions and destroyed handlers, as long as no queue of a live handler  *)
(* is discarded and no hook vetoes one.                                      *)
THEOREM ListedExactlyWhenPending ==
  Quiet => (Safety => []ListedIffPending)
<1> SUFFICES ASSUME Quiet
             PROVE  Safety => []ListedIffPending
  OBVIOUS
<1>1. ListInv /\ [Next]_vars => ListInv'
  BY ListStep
<1>2. ListInv => ListedIffPending
  BY DEF ListInv
<1>. QED
  BY <1>1, <1>2, ListInit, PTL DEF Safety


--------------------------------------------------------------------------------
(* A destroyed handler leaves nothing behind.                                *)

(* A thread lists a handler that lives, and so does the main thread.         *)
PostsAlive == \A t \in Threads : pc[t] = "add" => Target[posting[t]] \in alive
Left(h) == ~Listed(h) /\ pendingEvents[h] = <<>>
DeadAreGone == \A h \in Handlers \ alive : Left(h)
WorksAlive == stack # <<>> /\ Top.pc \in WorkingPCs => Top.handler \in alive
AliveInv == /\ ControlInv /\ ListsHaveNoDuplicates
            /\ PostsAlive /\ DeadAreGone /\ WorksAlive

LEMMA AliveInit == Init => AliveInv
<1> SUFFICES ASSUME Init
             PROVE  AliveInv
  OBVIOUS
<1>1. ListsHaveNoDuplicates
  BY DEF Init, ListsHaveNoDuplicates, NoDuplicates
<1>2. PostsAlive /\ DeadAreGone /\ WorksAlive
  BY DEF Init, PostsAlive, DeadAreGone, WorksAlive
<1>. QED
  BY <1>1, <1>2, ControlInit DEF AliveInv

(* Only Destroy ends the life of a handler.                                 *)
LEMMA AliveSteps ==
  ASSUME [Next]_vars
  PROVE  alive' = alive \/ \E h \in Handlers : Destroy(h)
<1>1. ASSUME NEW t \in Threads, Queue(t)
      PROVE  alive' = alive
  BY <1>1 DEF Queue, QueueEvent, AddPendingEventHandler, WakeUp
<1>2. CASE DispatchEvents \/ WakeFromWait \/ NativeMessage
  BY <1>2 DEF DispatchEvents, WakeFromWait, NativeMessage
<1>3. CASE ProcessCalls
  BY <1>3 DEF ProcessCalls, SkipCall, PickHandler, FinishCall, VetoHandler, NothingPending,
              TakeEvent, NothingAllowed, RemovePendingEventHandler, DelayPendingEventHandler
<1>4. CASE ClientCode
  BY <1>4 DEF ClientCode, HandlerReturns, HandlerThrows, Yield, DiscardPendingEvents,
              StartDiscard, DiscardNext, FinishDiscard
<1>. QED
  BY <1>1, <1>2, <1>3, <1>4 DEF Next, vars

(* Nobody lists a destroyed handler or queues an event on it.               *)
LEMMA LeftStays ==
  ASSUME AliveInv, [Next]_vars, NEW x \in Handlers \ alive
  PROVE  Left(x)'
<1>1. ControlInv /\ ListsHaveNoDuplicates /\ Left(x) /\ pendingEvents \in [Handlers -> Seq(Events)]
  BY DEF AliveInv, DeadAreGone, ControlInv, TypeOK
<1>2. \A h \in Handlers : Adds(h) \/ Delays(h) => h # x
  BY DEF AliveInv, PostsAlive, WorksAlive, Adds, Delays, WorkingPCs
<1>3. ~Listed(x)'
  <2>1. ~Contains(<<>>, x)
    BY DEF Contains
  <2>2. SameLists \/ MovedBack \/ Emptied => ~Listed(x)'
    BY <1>1, <2>1 DEF SameLists, MovedBack, Emptied, Listed, Left
  <2>3. \A h \in Handlers :
          (Posted(h) /\ Adds(h)) \/ Dropped(h) \/ (Delayed(h) /\ Delays(h)) => ~Listed(x)'
    BY <1>1, <1>2, ListedEffect DEF Left
  <2>. QED
    BY <1>1, <2>2, <2>3, ListSteps
<1>4. pendingEvents'[x] = <<>>
  <2>1. ASSUME NEW e \in Events, Queued(e), Target[e] \in alive
        PROVE  pendingEvents'[x] = <<>>
    BY <1>1, <2>1 DEF Queued, Left
  <2>2. ASSUME NEW h \in Handlers, NEW i \in 1..Len(pendingEvents[h]), Taken(h, i)
        PROVE  pendingEvents'[x] = <<>>
    <3>1. h # x
      BY <1>1 DEF Left
    <3>. QED
      BY <1>1, <2>2, <3>1 DEF Taken, Left
  <2>3. ASSUME NEW h, Cleared(h)
        PROVE  pendingEvents'[x] = <<>>
    BY <1>1, <2>3 DEF Cleared, Left
  <2>. QED
    BY <1>1, <2>1, <2>2, <2>3, QueueSteps DEF Left
<1>. QED
  BY <1>3, <1>4 DEF Left

LEMMA DeadStep ==
  ASSUME AliveInv, [Next]_vars
  PROVE  DeadAreGone'
<1>1. CASE alive' = alive
  BY <1>1, LeftStays DEF DeadAreGone
<1>2. ASSUME NEW h \in Handlers, Destroy(h)
      PROVE  DeadAreGone'
  <2>1. Dropped(h) /\ Cleared(h) /\ alive' = alive \ {h}
    BY <1>2 DEF Destroy, Dropped, Cleared
  <2>2. Left(h)'
    BY <2>1, ListedEffect DEF Left, Cleared, AliveInv, ControlInv, TypeOK
  <2>. QED
    BY <2>1, <2>2, LeftStays DEF DeadAreGone
<1>. QED
  BY <1>1, <1>2, AliveSteps

LEMMA PostsAliveStep ==
  ASSUME AliveInv, [Next]_vars
  PROVE  PostsAlive'
<1>1. TypeOK /\ PostsAlive
  BY DEF AliveInv, ControlInv
<1>2. ASSUME UNCHANGED <<postVars, alive>>
      PROVE  PostsAlive'
  BY <1>1, <1>2 DEF PostsAlive, postVars
<1>3. ASSUME NEW t \in Threads, Queue(t)
      PROVE  PostsAlive'
  BY <1>1, <1>3 DEF PostsAlive, TypeOK, Queue, QueueEvent, AddPendingEventHandler, WakeUp
<1>4. CASE DispatchEvents \/ WakeFromWait \/ NativeMessage
  BY <1>2, <1>4 DEF DispatchEvents, WakeFromWait, NativeMessage
<1>5. CASE ProcessCalls
  BY <1>2, <1>5 DEF ProcessCalls, SkipCall, PickHandler, FinishCall, VetoHandler,
    NothingPending, TakeEvent, NothingAllowed, RemovePendingEventHandler,
    DelayPendingEventHandler
<1>6. ASSUME NEW h \in Handlers, Destroy(h)
      PROVE  PostsAlive'
  BY <1>1, <1>6 DEF PostsAlive, Destroy, postVars
<1>7. CASE ClientCode
  BY <1>2, <1>6, <1>7 DEF ClientCode, HandlerReturns, HandlerThrows, Yield,
    DiscardPendingEvents, StartDiscard, DiscardNext, FinishDiscard
<1>. QED
  BY <1>2, <1>3, <1>4, <1>5, <1>7 DEF Next, vars, postVars

(* The handler a call works on is one it found listed.                      *)
LEMMA WorksAliveStep ==
  ASSUME AliveInv, [Next]_vars
  PROVE  WorksAlive'
<1>1. /\ ControlInv /\ TypeOK /\ StackOK /\ WorksAlive
      /\ stack # <<>> /\ Top.pc \in WorkingPCs => Top.handler \in Handlers
  BY TopTypes DEF AliveInv, ControlInv
<1>2. ASSUME stack' # <<>> => Last(stack').pc \in OtherPCs
      PROVE  WorksAlive'
  BY <1>2 DEF WorksAlive, Top, OtherPCs, WorkingPCs
<1>3. ASSUME UNCHANGED <<stack, alive>>
      PROVE  WorksAlive'
  BY <1>1, <1>3 DEF WorksAlive, Top
<1>4. ASSUME Pop, MainIdle, stack # <<>>, pc' = pc
      PROVE  WorksAlive'
  <2>1. stack' # <<>> => Last(stack').pc = "run"
    BY <1>1, <1>4, PopChange DEF Last
  <2>. QED
    BY <1>2, <2>1 DEF OtherPCs
<1>5. ASSUME NEW at \in OtherPCs, Goto(at), MainIdle, stack # <<>>, pc' = pc
      PROVE  WorksAlive'
  BY <1>1, <1>2, <1>5, GotoChange DEF Frame
<1>6. ASSUME NEW at \in WorkingPCs, NEW h \in alive, GotoWork(at, h), MainIdle, stack # <<>>,
             pc' = pc, alive' = alive
      PROVE  WorksAlive'
  <2>1. h \in Handlers
    BY <1>1 DEF TypeOK
  <2>2. Last(stack') = Working(at, h, Top.allowed)
    BY <1>1, <1>6, <2>1, GotoWorkChange
  <2>. QED
    BY <1>6, <2>2 DEF WorksAlive, Working, Top
<1>7. ASSUME NEW t \in Threads, Queue(t)
      PROVE  WorksAlive'
  BY <1>3, <1>7 DEF Queue, QueueEvent, AddPendingEventHandler, WakeUp
<1>8. CASE DispatchEvents \/ WakeFromWait \/ NativeMessage
  <2>1. \/ UNCHANGED <<stack, alive>>
        \/ \E mask \in SUBSET Categories : stack' = <<Frame("enter", mask)>>
    BY <1>8 DEF DispatchEvents, WakeFromWait, NativeMessage
  <2>. QED
    BY <1>2, <1>3, <2>1 DEF Frame, Last, OtherPCs
<1>9. CASE ProcessCalls
  <2>1. CASE SkipCall \/ FinishCall
    BY <1>4, <2>1 DEF SkipCall, FinishCall, MayPick, At, postVars
  <2>2. CASE PickHandler
    <3>1. Head(pendingHandlers) \in alive
      <4>1. /\ Head(pendingHandlers) \in Handlers
            /\ pendingHandlers[1] = Head(pendingHandlers) /\ 1 \in 1..Len(pendingHandlers)
        BY <1>1, <2>2 DEF TypeOK, PickHandler
      <4>2. Listed(Head(pendingHandlers))
        BY <4>1 DEF Listed, Contains
      <4>. QED
        BY <4>1, <4>2 DEF AliveInv, DeadAreGone, Left
    <3>. QED
      BY <1>6, <2>2, <3>1 DEF PickHandler, MayPick, At, postVars, WorkingPCs
  <2>3. CASE VetoHandler \/ NothingPending \/ RemovePendingEventHandler
             \/ DelayPendingEventHandler
    <3>1. (Goto("pick") \/ Goto("run")) /\ MainIdle /\ stack # <<>> /\ pc' = pc
      BY <2>3 DEF VetoHandler, NothingPending, RemovePendingEventHandler,
        DelayPendingEventHandler, At, postVars
    <3>. QED
      BY <1>5, <3>1 DEF OtherPCs
  <2>4. CASE TakeEvent \/ NothingAllowed
    <3>1. /\ Goto("run") \/ GotoWork("remove", Top.handler) \/ GotoWork("delay", Top.handler)
          /\ MainIdle /\ stack # <<>> /\ Top.pc = "process" /\ pc' = pc /\ alive' = alive
      BY <2>4 DEF TakeEvent, NothingAllowed, At, postVars
    <3>2. Top.handler \in alive
      BY <1>1, <3>1 DEF WorksAlive, WorkingPCs
    <3>. QED
      BY <1>5, <1>6, <3>1, <3>2 DEF OtherPCs, WorkingPCs
  <2>. QED
    BY <1>9, <2>1, <2>2, <2>3, <2>4 DEF ProcessCalls
<1>10. CASE ClientCode
  <2>1. CASE HandlerReturns
    BY <1>5, <2>1 DEF HandlerReturns, At, postVars, OtherPCs
  <2>2. CASE HandlerThrows
    BY <1>2, <2>2 DEF HandlerThrows
  <2>3. ASSUME NEW f \in Frames, f.pc \in OtherPCs, At("run"), stack' = Append(stack, f), pc' = pc
        PROVE  WorksAlive'
    BY <1>1, <1>2, <2>3, PushChange
  <2>4. ASSUME NEW mask \in SUBSET Categories, Yield(mask)
        PROVE  WorksAlive'
    <3>1. Frame("enter", mask) \in Frames /\ Frame("enter", mask).pc \in OtherPCs
      BY FrameTypes DEF OtherPCs, Frame
    <3>. QED
      BY <2>3, <2>4, <3>1 DEF Yield, postVars
  <2>5. ASSUME NEW h \in Handlers, Destroy(h)
        PROVE  WorksAlive'
    BY <2>5 DEF Destroy, At, WorksAlive, Top, WorkingPCs
  <2>6. ASSUME NEW h \in Handlers, DiscardPendingEvents(h)
        PROVE  WorksAlive'
    BY <1>3, <2>6 DEF DiscardPendingEvents
  <2>7. CASE StartDiscard
    <3> DEFINE f == [Frame("discard", Top.allowed) EXCEPT !.rest = pendingHandlers]
    <3>1. f \in Frames /\ f.pc \in OtherPCs
      BY <1>1, <2>7, TopTypes, FrameTypes DEF TypeOK, StartDiscard, At, Frame, OtherPCs
    <3>2. At("run") /\ stack' = Append(stack, f) /\ pc' = pc
      BY <2>7 DEF StartDiscard, postVars
    <3> HIDE DEF f
    <3>. QED
      BY <2>3, <3>1, <3>2
  <2>8. CASE DiscardNext
    <3> DEFINE f == [Top EXCEPT !.rest = Tail(@)]
    <3>1. /\ Top \in Frames /\ Top.pc = "discard" /\ Top.rest # <<>>
          /\ Top.rest \in Seq(Handlers) /\ Tail(Top.rest) \in Seq(Handlers)
      BY <1>1, <2>8, TopTypes DEF DiscardNext, At
    <3>2. f \in Frames /\ f.pc \in OtherPCs
      BY <3>1 DEF Frames, WorkingPCs, OtherPCs
    <3>3. SetTop(f) /\ MainIdle /\ stack # <<>> /\ pc' = pc
      BY <2>8 DEF DiscardNext, At, postVars
    <3> HIDE DEF f
    <3>. QED
      BY <1>1, <1>2, <3>2, <3>3, TopChange
  <2>9. CASE FinishDiscard
    BY <1>4, <2>9 DEF FinishDiscard, At, postVars
  <2>. QED
    BY <1>10, <2>1, <2>2, <2>4, <2>5, <2>6, <2>7, <2>8, <2>9 DEF ClientCode
<1>. QED
  BY <1>3, <1>7, <1>8, <1>9, <1>10 DEF Next, vars

(* A destroyed handler is in neither list of the application, has no pending *)
(* event and is not the one a call works on, whatever client code calls:     *)
(* DoQueueEvent and the delay of a yield only list handlers that live.       *)
THEOREM DestroyedLeaveNothing == Safety => []NoDanglingHandler
<1>1. AliveInv /\ [Next]_vars => AliveInv'
  BY ControlStep, NoDuplicatesStep, DeadStep, PostsAliveStep, WorksAliveStep DEF AliveInv
<1>2. AliveInv => NoDanglingHandler
  <2> SUFFICES ASSUME AliveInv, NEW i \in 1..Len(stack), stack[i].pc \in WorkingPCs
               PROVE  stack[i].handler \in alive
    BY DEF AliveInv, DeadAreGone, Left, NoDanglingHandler
  <2>1. stack \in Seq(Frames) /\ StackOK
    BY DEF AliveInv, ControlInv, TypeOK
  <2>2. i = Len(stack)
    BY <2>1 DEF StackOK, WorkingPCs
  <2>. QED
    BY <2>1, <2>2 DEF AliveInv, WorksAlive, Top, Last
<1>. QED
  BY <1>1, <1>2, AliveInit, PTL DEF Safety


--------------------------------------------------------------------------------
(* The delayed list and the wake-up of the loop. While a handler is delayed, *)
(* the innermost call that got past its first test is the one that delayed   *)
(* it: it is not the one of the loop, which allows every event, and it moves *)
(* the list back when it ends. An exception takes that call off the stack.   *)

Starting == {"enter", "discard"}
Delayer == IF Top.pc \in Starting THEN stack[Len(stack) - 1] ELSE Top
DelayOK == delayedHandlers # <<>> =>
             /\ stack # <<>>
             /\ Top.pc \in Starting => Len(stack) > 1
             /\ Delayer.allowed # Categories
MaskOK == stack # <<>> => /\ Top.pc = "delay" => Top.allowed # Categories
                          /\ loop = "wait" => stack[1].allowed = Categories
SleepInv == DelayOK /\ MaskOK /\ NoLostWakeUp

LEMMA SleepInit == Init => SleepInv
  BY DEF Init, SleepInv, DelayOK, MaskOK, NoLostWakeUp

(* If no event is allowed, some event is excluded.                          *)
LEMMA NoneAllowedMask ==
  ASSUME NEW q \in Seq(Events), q # <<>>, NEW mask, FirstAllowed(q, mask) = 0
  PROVE  mask # Categories
<1> DEFINE I == {i \in 1..Len(q) : IsAllowed(q[i], mask)}
<1>1. FirstAllowed(q, mask) = IF I # {} THEN Min(I) ELSE 0
  BY Zenon DEF FirstAllowed, SelectInSeq
<1>2. I \in SUBSET Nat /\ 0 \notin I
  OBVIOUS
<1>3. I = {}
  BY <1>1, <1>2, MinIsLeast
<1>4. 1 \in 1..Len(q) /\ q[1] \in Events
  OBVIOUS
<1>5. Category[q[1]] \subseteq Categories
  BY <1>4, PendingAssumption
<1>6. ~IsAllowed(q[1], mask)
  BY <1>3, <1>4
<1>. QED
  BY <1>5, <1>6 DEF IsAllowed

(* A handler that leaves a list adds none to it.                            *)
LEMMA UnlistEmpty == \A h : Unlist(<<>>, h) = <<>>
  BY DEF Unlist, RemoveFirst

(* The innermost call goes on with the same mask.                           *)
LEMMA SleepTop ==
  ASSUME ControlInv, SleepInv, MainIdle, stack # <<>>, pc' = pc, loop' = loop,
         NEW f \in Frames, SetTop(f), f.allowed = Top.allowed,
         f.pc \in Starting => f.pc = Top.pc,
         f.pc = "delay" => Top.allowed # Categories,
         delayedHandlers' # <<>> =>
           \/ Top.allowed # Categories /\ f.pc \notin Starting
           \/ delayedHandlers # <<>> /\ (Top.pc \in Starting => f.pc \in Starting)
  PROVE  SleepInv'
<1>1. stack \in Seq(Frames) /\ TypeOK /\ StackOK
  BY DEF ControlInv, TypeOK
<1>2. stack' # <<>> /\ Len(stack') = Len(stack) /\ Last(stack') = f
  BY <1>1, TopChange
<1>3. \A i \in 1..Len(stack) : i < Len(stack) => stack'[i] = stack[i]
  BY <1>1, SetTopFrames DEF SetTop
<1>4. Top' = f
  BY <1>2 DEF Top
<1>5. DelayOK'
  <2> SUFFICES ASSUME delayedHandlers' # <<>>
               PROVE  /\ f.pc \in Starting => Len(stack) > 1
                      /\ Delayer'.allowed # Categories
    BY <1>2, <1>4 DEF DelayOK
  <2>1. CASE f.pc \in Starting
    <3>1. delayedHandlers # <<>> /\ Top.pc \in Starting
      BY <2>1
    <3>2. Len(stack) > 1 /\ stack[Len(stack) - 1].allowed # Categories
      BY <3>1 DEF SleepInv, DelayOK, Delayer
    <3>3. Len(stack) \in Nat
      BY <1>1
    <3>4. stack'[Len(stack') - 1] = stack[Len(stack) - 1]
      BY <1>2, <1>3, <3>2, <3>3
    <3>. QED
      BY <1>4, <2>1, <3>2, <3>4 DEF Delayer
  <2>2. CASE f.pc \notin Starting
    <3>1. Top.allowed # Categories
      BY <2>2 DEF SleepInv, DelayOK, Delayer
    <3>. QED
      BY <1>4, <2>2, <3>1 DEF Delayer
  <2>. QED
    BY <2>1, <2>2
<1>6. MaskOK'
  <2>1. 1 \in 1..Len(stack) /\ Len(stack) \in Nat
    BY <1>1
  <2>2. stack'[1].allowed = stack[1].allowed
    BY <1>2, <1>3, <1>4, <2>1 DEF Top, Last
  <2>. QED
    BY <1>4, <2>2 DEF SleepInv, MaskOK
<1>7. NoLostWakeUp'
  BY <1>2 DEF NoLostWakeUp
<1>. QED
  BY <1>5, <1>6, <1>7 DEF SleepInv

(* The innermost call returns.                                              *)
LEMMA SleepPop ==
  ASSUME ControlInv, SleepInv, MainIdle, stack # <<>>, pc' = pc, loop' = loop, Pop,
         delayedHandlers' # <<>> => delayedHandlers # <<>> /\ Top.pc \in Starting,
         Len(stack) = 1 /\ loop = "wait" => pendingHandlers' = <<>>
  PROVE  SleepInv'
<1>1. stack \in Seq(Frames) /\ TypeOK /\ StackOK /\ Len(stack) \in Nat /\ Len(stack) # 0
  BY DEF ControlInv, TypeOK
<1>2. /\ stack' \in Seq(Frames) /\ Len(stack') = Len(stack) - 1
      /\ \A i \in 1..Len(stack') : stack'[i] = stack[i] /\ stack'[i].pc = "run"
  BY <1>1, PopChange
<1>3. stack' # <<>> => /\ Top' = stack[Len(stack) - 1] /\ Top'.pc = "run"
                       /\ stack'[1] = stack[1]
  BY <1>1, <1>2 DEF Top, Last
<1>4. DelayOK'
  <2> SUFFICES ASSUME delayedHandlers' # <<>>
               PROVE  /\ stack' # <<>> /\ (Top.pc \in Starting => Len(stack) > 1)'
                      /\ Delayer'.allowed # Categories
    BY DEF DelayOK
  <2>1. Len(stack) > 1 /\ stack[Len(stack) - 1].allowed # Categories
    BY DEF SleepInv, DelayOK, Delayer
  <2>2. stack' # <<>>
    BY <1>1, <1>2, <2>1
  <2>. QED
    BY <1>3, <2>1, <2>2 DEF Delayer, Starting
<1>5. MaskOK'
  BY <1>3 DEF SleepInv, MaskOK
<1>6. NoLostWakeUp'
  <2>1. stack' = <<>> => Len(stack) = 1
    BY <1>1, <1>2
  <2>. QED
    BY <2>1 DEF NoLostWakeUp
<1>. QED
  BY <1>4, <1>5, <1>6 DEF SleepInv

(* A handler enters a call.                                                 *)
LEMMA SleepPush ==
  ASSUME ControlInv, SleepInv, At("run"), pc' = pc, loop' = loop,
         delayedHandlers' = delayedHandlers,
         NEW f \in Frames, f.pc \in Starting, stack' = Append(stack, f)
  PROVE  SleepInv'
<1>1. /\ stack \in Seq(Frames) /\ Len(stack) \in Nat /\ Len(stack) > 0 /\ Top.pc = "run"
  BY DEF ControlInv, TypeOK, At
<1>2. /\ Len(stack') = Len(stack) + 1 /\ Last(stack') = f
      /\ \A i \in 1..Len(stack) : stack'[i] = stack[i]
  BY <1>1, PushFrames
<1>3. Top' = f /\ stack' # <<>> /\ stack'[1] = stack[1]
      /\ stack'[Len(stack') - 1] = Top
  BY <1>1, <1>2 DEF Top, Last
<1>4. DelayOK'
  BY <1>1, <1>2, <1>3 DEF SleepInv, DelayOK, Delayer, Starting
<1>5. MaskOK'
  BY <1>1, <1>3 DEF SleepInv, MaskOK, Starting
<1>6. NoLostWakeUp'
  BY <1>3 DEF NoLostWakeUp
<1>. QED
  BY <1>4, <1>5, <1>6 DEF SleepInv

(* A thread that has listed a handler wakes the loop afterwards.            *)
LEMMA SleepQueue ==
  ASSUME ControlInv, SleepInv, NEW t \in Threads, Queue(t)
  PROVE  SleepInv'
<1>1. UNCHANGED <<delayedHandlers, stack, loop>>
  BY DEF Queue, QueueEvent, AddPendingEventHandler, WakeUp, listVars
<1>2. DelayOK' /\ MaskOK'
  BY <1>1 DEF SleepInv, DelayOK, MaskOK, Delayer, Top
<1>3. pc \in [Threads -> {"idle", "add", "wake"}]
  BY DEF ControlInv, TypeOK
<1>4. NoLostWakeUp'
  <2>1. ASSUME NEW e \in Events, QueueEvent(t, e)
        PROVE  NoLostWakeUp'
    <3>1. \A u \in Threads : pc[u] = "wake" => pc'[u] = "wake"
      BY <1>3, <2>1 DEF QueueEvent
    <3>. QED
      BY <2>1, <3>1 DEF SleepInv, NoLostWakeUp, QueueEvent, listVars
  <2>2. ASSUME AddPendingEventHandler(t)
        PROVE  NoLostWakeUp'
    <3>1. pc'[t] = "wake"
      BY <1>3, <2>2 DEF AddPendingEventHandler
    <3>. QED
      BY <3>1 DEF NoLostWakeUp
  <2>3. ASSUME WakeUp(t)
        PROVE  NoLostWakeUp'
    BY <2>3 DEF WakeUp, Signal, NoLostWakeUp
  <2>. QED
    BY <2>1, <2>2, <2>3 DEF Queue
<1>. QED
  BY <1>2, <1>4 DEF SleepInv

LEMMA SleepLoop ==
  ASSUME ControlInv, SleepInv, DispatchEvents \/ WakeFromWait \/ NativeMessage
  PROVE  SleepInv'
<1>1. delayedHandlers = <<>> /\ delayedHandlers' = <<>>
  BY DEF SleepInv, DelayOK, DispatchEvents, WakeFromWait, NativeMessage, listVars
<1> SUFFICES MaskOK' /\ NoLostWakeUp'
  BY <1>1 DEF SleepInv, DelayOK
<1>2. ASSUME NEW mask, stack' = <<Frame("enter", mask)>>, loop' = "wait" => mask = Categories
      PROVE  MaskOK' /\ NoLostWakeUp'
  <2>1. stack' # <<>> /\ stack'[1] = Frame("enter", mask) /\ Last(stack') = Frame("enter", mask)
    BY <1>2 DEF Last
  <2>2. loop' \in {"process", "wait"}
    BY DEF ControlInv, TypeOK, DispatchEvents, WakeFromWait, NativeMessage
  <2>. QED
    BY <1>2, <2>1, <2>2 DEF MaskOK, NoLostWakeUp, Frame, Top
<1>3. CASE DispatchEvents
  <2>1. stack' = <<Frame("enter", Categories)>>
    BY <1>3 DEF DispatchEvents
  <2>. QED
    BY <1>2, <2>1
<1>4. CASE WakeFromWait
  <2>1. stack' = <<>> /\ loop' = "process"
    BY <1>4 DEF WakeFromWait
  <2>. QED
    BY <2>1 DEF MaskOK, NoLostWakeUp
<1>5. CASE NativeMessage
  <2>1. loop' = "process" /\ stack = <<>>
    BY <1>5 DEF NativeMessage
  <2>2. CASE stack' = stack
    BY <2>1, <2>2 DEF MaskOK, NoLostWakeUp
  <2>3. ASSUME NEW mask \in SUBSET Categories, stack' = <<Frame("enter", mask)>>
        PROVE  MaskOK' /\ NoLostWakeUp'
    BY <1>2, <2>1, <2>3
  <2>. QED
    BY <1>5, <2>2, <2>3 DEF NativeMessage
<1>. QED
  BY <1>3, <1>4, <1>5

LEMMA SleepProcess ==
  ASSUME ControlInv, SleepInv, ProcessCalls
  PROVE  SleepInv'
<1>1. /\ TypeOK /\ stack \in Seq(Frames)
      /\ stack # <<>> => Top.allowed \in SUBSET Categories
      /\ stack # <<>> /\ Top.pc \in WorkingPCs => Top.handler \in Handlers
  BY TopTypes DEF ControlInv, TypeOK
<1>2. ASSUME NEW at \in {"pick", "run"}, Goto(at), MainIdle, stack # <<>>, pc' = pc, loop' = loop,
             delayedHandlers' # <<>> =>
               Top.allowed # Categories \/ (delayedHandlers # <<>> /\ Top.pc \notin Starting)
      PROVE  SleepInv'
  <2> DEFINE f == Frame(at, Top.allowed)
  <2>1. f \in Frames /\ f.allowed = Top.allowed /\ f.pc = at
    BY <1>1, <1>2, FrameTypes DEF OtherPCs, Frame
  <2>2. SetTop(f)
    BY <1>2 DEF Goto
  <2> HIDE DEF f
  <2>. QED
    BY <1>2, <2>1, <2>2, SleepTop DEF Starting
<1>3. ASSUME NEW at \in WorkingPCs, NEW h \in Handlers, GotoWork(at, h), MainIdle,
             stack # <<>>, pc' = pc, loop' = loop, at = "delay" => Top.allowed # Categories,
             delayedHandlers' # <<>> => delayedHandlers # <<>> /\ Top.pc \notin Starting
      PROVE  SleepInv'
  <2> DEFINE f == Working(at, h, Top.allowed)
  <2>1. f \in Frames /\ f.allowed = Top.allowed /\ f.pc = at
    BY <1>1, <1>3, FrameTypes DEF Working
  <2>2. SetTop(f)
    BY <1>3 DEF GotoWork
  <2> HIDE DEF f
  <2>. QED
    BY <1>3, <2>1, <2>2, SleepTop DEF Starting, WorkingPCs
<1>4. CASE SkipCall
  <2>1. delayedHandlers # <<>> /\ Top.pc \in Starting
    BY <1>4 DEF SkipCall, At, Starting
  <2>2. Len(stack) > 1
    BY <2>1 DEF SleepInv, DelayOK
  <2>3. Len(stack) \in Nat
    BY <1>1
  <2>4. ~(Len(stack) = 1)
    <3> DEFINE n == Len(stack)
    <3>1. n \in Nat /\ n > 1
      BY <2>2, <2>3
    <3> HIDE DEF n
    <3>2. ~(n = 1)
      BY <3>1
    <3>. QED
      BY <3>2 DEF n
  <2>5. MainIdle /\ stack # <<>> /\ pc' = pc /\ loop' = loop /\ Pop
    BY <1>4 DEF SkipCall, At, postVars
  <2>. QED
    BY <2>1, <2>4, <2>5, SleepPop
<1>5. CASE PickHandler
  <2>1. Head(pendingHandlers) \in Handlers
    BY <1>1, <1>5 DEF TypeOK, PickHandler
  <2>2. /\ GotoWork("process", Head(pendingHandlers)) /\ MainIdle /\ stack # <<>>
        /\ pc' = pc /\ loop' = loop /\ delayedHandlers' = delayedHandlers
        /\ Top.pc = "pick" \/ delayedHandlers = <<>>
    BY <1>5 DEF PickHandler, MayPick, At, listVars, postVars
  <2>. QED
    BY <1>3, <2>1, <2>2 DEF WorkingPCs, Starting
<1>6. CASE FinishCall
  <2>1. delayedHandlers' = <<>> /\ pendingHandlers' = delayedHandlers
    BY <1>6 DEF FinishCall, MoveDelayedBack
  <2>2. ASSUME Len(stack) = 1, loop = "wait"
        PROVE  delayedHandlers = <<>>
    <3>1. Top.allowed = Categories
      BY <1>1, <1>6, <2>2 DEF SleepInv, MaskOK, Top, Last, FinishCall, MayPick, At
    <3>. QED
      BY <1>6, <3>1 DEF FinishCall, MayPick, At, SleepInv, DelayOK, Delayer, Starting
  <2>. QED
    BY <1>6, <2>1, <2>2, SleepPop DEF FinishCall, MayPick, At, postVars
<1>7. CASE VetoHandler
  BY <1>2, <1>7, UnlistEmpty DEF VetoHandler, At, postVars, Starting
<1>8. CASE NothingPending
  BY <1>2, <1>8 DEF NothingPending, At, listVars, postVars, Starting
<1>9. CASE TakeEvent
  <2>1. /\ Goto("run") \/ GotoWork("remove", Top.handler)
        /\ MainIdle /\ stack # <<>> /\ Top.pc = "process"
        /\ pc' = pc /\ loop' = loop /\ delayedHandlers' = delayedHandlers
    BY <1>9 DEF TakeEvent, At, listVars, postVars
  <2>. QED
    BY <1>1, <1>2, <1>3, <2>1 DEF WorkingPCs, Starting
<1>10. CASE NothingAllowed
  <2>1. /\ GotoWork("delay", Top.handler) /\ MainIdle /\ stack # <<>> /\ Top.pc = "process"
        /\ pc' = pc /\ loop' = loop /\ delayedHandlers' = delayedHandlers
        /\ pendingEvents[Top.handler] # <<>>
        /\ FirstAllowed(pendingEvents[Top.handler], Top.allowed) = 0
    BY <1>10 DEF NothingAllowed, At, listVars, postVars
  <2>2. Top.handler \in Handlers /\ pendingEvents[Top.handler] \in Seq(Events)
    BY <1>1, <2>1 DEF TypeOK, WorkingPCs
  <2>3. Top.allowed # Categories
    BY <2>1, <2>2, NoneAllowedMask
  <2>. QED
    BY <1>3, <2>1, <2>2, <2>3 DEF WorkingPCs, Starting
<1>11. CASE RemovePendingEventHandler
  BY <1>2, <1>11, UnlistEmpty DEF RemovePendingEventHandler, At, postVars, Starting
<1>12. CASE DelayPendingEventHandler
  <2>1. Top.allowed # Categories
    BY <1>12 DEF DelayPendingEventHandler, At, SleepInv, MaskOK
  <2>. QED
    BY <1>2, <1>12, <2>1 DEF DelayPendingEventHandler, At, postVars
<1>. QED
  BY <1>4, <1>5, <1>6, <1>7, <1>8, <1>9, <1>10, <1>11, <1>12 DEF ProcessCalls

LEMMA SleepClient ==
  ASSUME "throw" \notin Calls, ControlInv, SleepInv, ClientCode
  PROVE  SleepInv'
<1>1. /\ TypeOK /\ stack \in Seq(Frames)
      /\ stack # <<>> => /\ Top \in Frames /\ Top.allowed \in SUBSET Categories
                         /\ Top.rest \in Seq(Handlers)
  BY TopTypes DEF ControlInv, TypeOK
<1>2. CASE HandlerReturns
  <2> DEFINE f == Frame("pick", Top.allowed)
  <2>1. f \in Frames /\ f.allowed = Top.allowed /\ f.pc = "pick"
    BY <1>1, <1>2, FrameTypes DEF HandlerReturns, At, OtherPCs, Frame
  <2>2. SetTop(f) /\ At("run") /\ pc' = pc /\ loop' = loop /\ delayedHandlers' = delayedHandlers
    BY <1>2 DEF HandlerReturns, Goto, listVars, postVars
  <2> HIDE DEF f
  <2>. QED
    BY <2>1, <2>2, SleepTop DEF At, Starting
<1>3. ~HandlerThrows
  BY DEF HandlerThrows
<1>4. ASSUME NEW mask \in SUBSET Categories, Yield(mask)
      PROVE  SleepInv'
  <2>1. Frame("enter", mask) \in Frames /\ Frame("enter", mask).pc \in Starting
    BY FrameTypes DEF OtherPCs, Frame, Starting
  <2>. QED
    BY <1>4, <2>1, SleepPush DEF Yield, listVars, postVars
<1>5. ASSUME NEW h \in Handlers, Destroy(h) \/ DiscardPendingEvents(h)
      PROVE  SleepInv'
  <2>1. /\ stack' = stack /\ stack # <<>> /\ loop' = loop
        /\ delayedHandlers' # <<>> => delayedHandlers # <<>>
    BY <1>5, UnlistEmpty DEF Destroy, DiscardPendingEvents, At, listVars
  <2>. QED
    BY <2>1 DEF SleepInv, DelayOK, MaskOK, NoLostWakeUp, Delayer, Top
<1>6. CASE StartDiscard
  <2> DEFINE f == [Frame("discard", Top.allowed) EXCEPT !.rest = pendingHandlers]
  <2>1. f \in Frames /\ f.pc \in Starting
    BY <1>1, <1>6, FrameTypes DEF TypeOK, StartDiscard, At, Frame, Starting
  <2>2. /\ At("run") /\ stack' = Append(stack, f) /\ pc' = pc /\ loop' = loop
        /\ delayedHandlers' = delayedHandlers
    BY <1>6 DEF StartDiscard, postVars
  <2> HIDE DEF f
  <2>. QED
    BY <2>1, <2>2, SleepPush
<1>7. CASE DiscardNext
  <2> DEFINE f == [Top EXCEPT !.rest = Tail(@)]
  <2>1. Top \in Frames /\ Top.pc = "discard" /\ Top.rest # <<>> /\ Top.rest \in Seq(Handlers)
    BY <1>1, <1>7 DEF DiscardNext, At
  <2>2. Tail(Top.rest) \in Seq(Handlers)
    BY <2>1
  <2>3. f \in Frames /\ f.pc = Top.pc /\ f.allowed = Top.allowed
    BY <2>1, <2>2 DEF Frames, WorkingPCs, OtherPCs
  <2>4. /\ SetTop(f) /\ MainIdle /\ stack # <<>> /\ pc' = pc /\ loop' = loop
        /\ delayedHandlers' = delayedHandlers
    BY <1>7 DEF DiscardNext, At, listVars, postVars
  <2> HIDE DEF f
  <2>. QED
    BY <2>1, <2>3, <2>4, SleepTop
<1>8. CASE FinishDiscard
  BY <1>8, SleepPop DEF FinishDiscard, At, postVars, Starting
<1>. QED
  BY <1>2, <1>3, <1>4, <1>5, <1>6, <1>7, <1>8 DEF ClientCode

LEMMA SleepHolds == "throw" \notin Calls => (Safety => []SleepInv)
<1> SUFFICES ASSUME "throw" \notin Calls
             PROVE  Safety => []SleepInv
  OBVIOUS
<1>1. ControlInv /\ SleepInv /\ [Next]_vars => SleepInv'
  <2> SUFFICES ASSUME ControlInv, SleepInv, [Next]_vars
               PROVE  SleepInv'
    OBVIOUS
  <2>1. CASE UNCHANGED vars
    BY <2>1 DEF vars, SleepInv, DelayOK, MaskOK, NoLostWakeUp, Delayer, Top
  <2>. QED
    BY <2>1, SleepQueue, SleepLoop, SleepProcess, SleepClient DEF Next
<1>. QED
  BY <1>1, SleepInit, ControlHolds, PTL DEF Safety

(* "Last, ICoreApplication::ProcessPendingEvents before exiting moves the    *)
(* delayed event handlers back" (Application/IEventLoop.h): with no call in  *)
(* progress no handler is delayed, whatever client code calls in its         *)
(* handlers and however often, unless one of them throws.                    *)
THEOREM DelayedAlwaysMovedBack == "throw" \notin Calls => (Safety => []DelayedMovedBack)
<1>1. SleepInv => DelayedMovedBack
  BY DEF SleepInv, DelayOK, DelayedMovedBack
<1>. QED
  BY <1>1, SleepHolds, PTL

(* The loop never sleeps over a listed handler that nobody is about to wake  *)
(* it for, unless a handler throws.                                          *)
THEOREM LoopNeverSleepsOverEvents == "throw" \notin Calls => (Safety => []NoLostWakeUp)
<1>1. SleepInv => NoLostWakeUp
  BY DEF SleepInv
<1>. QED
  BY <1>1, SleepHolds, PTL


--------------------------------------------------------------------------------
(* The queues of PendingEvents implement EventQueue.                         *)

(* Only a call of DiscardPendingEventHandlers discards the listed queues.    *)
DiscardsOK == stack # <<>> /\ Top.pc = "discard" => "discardAll" \in Calls

LEMMA DiscardsStep ==
  ControlInv /\ DiscardsOK /\ [Next]_vars => DiscardsOK'
<1> SUFFICES ASSUME ControlInv, DiscardsOK, [Next]_vars
             PROVE  DiscardsOK'
  OBVIOUS
<1>1. TypeOK /\ StackOK
  BY DEF ControlInv
<1>2. ASSUME stack' # <<>> => Last(stack').pc # "discard"
      PROVE  DiscardsOK'
  BY <1>2 DEF DiscardsOK, Top
<1>3. stack' = stack => DiscardsOK'
  BY DEF DiscardsOK, Top
<1>4. ASSUME Pop, MainIdle, stack # <<>>, pc' = pc
      PROVE  DiscardsOK'
  <2>1. stack' # <<>> => Last(stack').pc = "run"
    BY <1>1, <1>4, PopChange DEF Last
  <2>. QED
    BY <1>2, <2>1
<1>5. ASSUME NEW at \in OtherPCs, at # "discard", Goto(at), MainIdle, stack # <<>>, pc' = pc
      PROVE  DiscardsOK'
  BY <1>2, <1>5, GotoChange DEF Frame
<1>6. ASSUME NEW at \in WorkingPCs, NEW h \in Handlers, GotoWork(at, h), MainIdle,
             stack # <<>>, pc' = pc
      PROVE  DiscardsOK'
  BY <1>2, <1>6, GotoWorkChange DEF Working, WorkingPCs
<1>7. ASSUME NEW t \in Threads, Queue(t)
      PROVE  DiscardsOK'
  BY <1>3, <1>7 DEF Queue, QueueEvent, AddPendingEventHandler, WakeUp
<1>8. CASE DispatchEvents \/ WakeFromWait \/ NativeMessage
  <2>1. stack' = stack \/ \E mask \in SUBSET Categories : stack' = <<Frame("enter", mask)>>
    BY <1>8 DEF DispatchEvents, WakeFromWait, NativeMessage
  <2>. QED
    BY <1>2, <1>3, <2>1 DEF Frame, Last
<1>9. CASE ProcessCalls
  <2>1. CASE SkipCall \/ FinishCall
    BY <1>4, <2>1 DEF SkipCall, FinishCall, MayPick, At, postVars
  <2>2. CASE PickHandler \/ TakeEvent \/ NothingAllowed
    <3>1. /\ \/ Goto("run")
             \/ \E at \in WorkingPCs, h \in Handlers : GotoWork(at, h)
          /\ MainIdle /\ stack # <<>> /\ pc' = pc
      <4>1. CASE PickHandler
        <5>1. Head(pendingHandlers) \in Handlers
          BY <1>1, <4>1 DEF TypeOK, PickHandler
        <5>. QED
          BY <4>1, <5>1 DEF PickHandler, MayPick, At, postVars, WorkingPCs
      <4>2. CASE TakeEvent \/ NothingAllowed
        BY <1>1, <4>2, TopTypes DEF TakeEvent, NothingAllowed, At, postVars, WorkingPCs
      <4>. QED
        BY <2>2, <4>1, <4>2
    <3>. QED
      BY <1>5, <1>6, <3>1 DEF OtherPCs
  <2>3. CASE VetoHandler \/ NothingPending \/ RemovePendingEventHandler
             \/ DelayPendingEventHandler
    <3>1. (Goto("pick") \/ Goto("run")) /\ MainIdle /\ stack # <<>> /\ pc' = pc
      BY <2>3 DEF VetoHandler, NothingPending, RemovePendingEventHandler,
        DelayPendingEventHandler, At, postVars
    <3>. QED
      BY <1>5, <3>1 DEF OtherPCs
  <2>. QED
    BY <1>9, <2>1, <2>2, <2>3 DEF ProcessCalls
<1>10. CASE ClientCode
  <2>1. CASE HandlerReturns
    BY <1>5, <2>1 DEF HandlerReturns, At, postVars, OtherPCs
  <2>2. CASE HandlerThrows
    BY <1>2, <2>2 DEF HandlerThrows
  <2>3. ASSUME NEW mask \in SUBSET Categories, Yield(mask)
        PROVE  DiscardsOK'
    <3>1. Frame("enter", mask) \in Frames /\ Frame("enter", mask).pc # "discard"
      BY FrameTypes DEF OtherPCs, Frame
    <3>. QED
      BY <1>1, <1>2, <2>3, <3>1, PushChange DEF Yield, postVars
  <2>4. ASSUME NEW h \in Handlers, Destroy(h) \/ DiscardPendingEvents(h)
        PROVE  DiscardsOK'
    BY <1>3, <2>4 DEF Destroy, DiscardPendingEvents
  <2>5. CASE StartDiscard
    BY <2>5 DEF StartDiscard, DiscardsOK
  <2>6. CASE DiscardNext
    BY <2>6 DEF DiscardNext, At, DiscardsOK
  <2>7. CASE FinishDiscard
    BY <1>4, <2>7 DEF FinishDiscard, At, postVars
  <2>. QED
    BY <1>10, <2>1, <2>2, <2>3, <2>4, <2>5, <2>6, <2>7 DEF ClientCode
<1>. QED
  BY <1>3, <1>7, <1>8, <1>9, <1>10 DEF Next, vars

(* What Enqueue does to a queue, in the terms of EventQueue.                 *)
LEMMA EnqueueCases ==
  ASSUME NEW q \in Seq(Events), NEW e \in Events
  PROVE  \/ Enqueue(q, e) = Append(q, e) /\ \A i \in 1..Len(q) : ~Replaces(e, q[i])
         \/ \E i \in 1..Len(q) :
              /\ Replaces(e, q[i]) /\ \A j \in (i + 1)..Len(q) : ~Replaces(e, q[j])
              /\ Enqueue(q, e) = [q EXCEPT ![i] = e]
<1> DEFINE same == {i \in 1..Len(q) : Replaces(e, q[i])}
<1>1. CASE same = {}
  BY <1>1 DEF Enqueue
<1>2. CASE same # {}
  <2> DEFINE m == Max(same)
  <2>1. m \in same /\ \A j \in same : j =< m
    <3>1. same \in SUBSET (1..Len(q)) /\ Len(q) \in Nat
      OBVIOUS
    <3> HIDE DEF same
    <3>. QED
      BY <1>2, <3>1, MaxIsGreatest
  <2>2. Enqueue(q, e) = [q EXCEPT ![m] = e]
    BY <1>2 DEF Enqueue
  <2> HIDE DEF m
  <2>3. m \in 1..Len(q) /\ Replaces(e, q[m])
    BY <2>1
  <2>4. ASSUME NEW j \in (m + 1)..Len(q)
        PROVE  ~Replaces(e, q[j])
    <3>1. j \in 1..Len(q) /\ ~(j =< m)
      BY <2>3
    <3>. QED
      BY <2>1, <3>1
  <2>. QED
    BY <2>2, <2>3, <2>4
<1>. QED
  BY <1>1, <1>2

(* FirstAllowed returns the first event that is allowed.                     *)
LEMMA FirstAllowedIsFirst ==
  ASSUME NEW q \in Seq(Events), NEW mask, FirstAllowed(q, mask) # 0
  PROVE  /\ FirstAllowed(q, mask) \in 1..Len(q)
         /\ Abstract!IsFirstAllowed(q, FirstAllowed(q, mask), mask)
<1> DEFINE I == {i \in 1..Len(q) : IsAllowed(q[i], mask)}
           i == Min(I)
<1>1. FirstAllowed(q, mask) = IF I # {} THEN i ELSE 0
  BY Zenon DEF FirstAllowed, SelectInSeq
<1>2. I \in SUBSET Nat
  OBVIOUS
<1>3. i \in I /\ \A j \in I : i =< j
  <2> HIDE DEF I
  <2>. QED
    BY <1>1, <1>2, MinIsLeast
<1>4. i \in 1..Len(q) /\ IsAllowed(q[i], mask)
  BY <1>3
<1>5. ASSUME NEW j \in 1..(i - 1)
      PROVE  ~IsAllowed(q[j], mask)
  <2>1. j \in 1..Len(q) /\ ~(i =< j)
    <3> HIDE DEF i
    <3>. QED
      BY <1>4, <1>5
  <2>. QED
    BY <1>3, <2>1
<1>. QED
  BY <1>1, <1>4, <1>5 DEF Abstract!IsFirstAllowed, IsAllowed

LEMMA QueueEventPosts ==
  ASSUME ControlInv, NEW t \in Threads, NEW e \in Events, QueueEvent(t, e)
  PROVE  Abstract!Post(e)
<1> DEFINE q == pendingEvents[Target[e]]
<1>1. q \in Seq(Events)
  BY PendingAssumption DEF ControlInv, TypeOK
<1>2. /\ e \notin posted /\ Target[e] \in alive /\ posted' = posted \cup {e}
      /\ pendingEvents' = [pendingEvents EXCEPT ![Target[e]] = Enqueue(q, e)]
      /\ UNCHANGED <<delivered, alive>>
  BY DEF QueueEvent
<1>3. \A f : Abstract!Replaces(e, f) <=> Replaces(e, f)
  <2>1. QueuedID(e) = IF e \in Requeued THEN NoUID ELSE UniqueID[e]
    BY DEF QueuedID
  <2>. QED
    BY <2>1 DEF Abstract!Replaces, Replaces
<1>. QED
  BY <1>1, <1>2, <1>3, EnqueueCases DEF Abstract!Post

LEMMA TakeEventDelivers ==
  ASSUME ControlInv, TakeEvent
  PROVE  \E h \in Handlers : Abstract!Deliver(h)
<1> DEFINE h == Top.handler
           q == pendingEvents[h]
           i == FirstAllowed(q, Top.allowed)
<1>1. /\ h \in Handlers /\ Top.allowed \in SUBSET Categories /\ q \in Seq(Events)
  BY TopTypes DEF ControlInv, TypeOK, TakeEvent, At, WorkingPCs
<1>2. i \in 1..Len(q) /\ Abstract!IsFirstAllowed(q, i, Top.allowed)
  BY <1>1, FirstAllowedIsFirst DEF TakeEvent
<1>3. /\ pendingEvents' = [pendingEvents EXCEPT ![h] = RemoveAt(q, i)]
      /\ delivered' = delivered \cup {q[i]} /\ UNCHANGED <<posted, alive>>
  BY DEF TakeEvent, postVars
<1>4. RemoveAt(q, i) = SubSeq(q, 1, i-1) \o SubSeq(q, i+1, Len(q))
  BY DEF RemoveAt
<1> HIDE DEF h, q, i
<1>5. Abstract!Deliver(h)
  BY <1>1, <1>2, <1>3, <1>4 DEF Abstract!Deliver, q
<1>. QED
  BY <1>1, <1>5

LEMMA RefinesStep ==
  ASSUME ControlInv, DiscardsOK, [Next]_vars
  PROVE  [Abstract!Next]_Abstract!vars
<1>1. ASSUME UNCHANGED <<pendingEvents, posted, delivered, alive>>
      PROVE  [Abstract!Next]_Abstract!vars
  BY <1>1 DEF Abstract!vars
<1>2. ASSUME NEW h \in Handlers, Abstract!Drop(h)
      PROVE  [Abstract!Next]_Abstract!vars
  BY <1>2 DEF Abstract!Next
<1>3. ASSUME NEW t \in Threads, Queue(t)
      PROVE  [Abstract!Next]_Abstract!vars
  <2>1. ASSUME NEW e \in Events, QueueEvent(t, e)
        PROVE  [Abstract!Next]_Abstract!vars
    BY <2>1, QueueEventPosts DEF Abstract!Next
  <2>2. CASE AddPendingEventHandler(t) \/ WakeUp(t)
    BY <1>1, <2>2 DEF AddPendingEventHandler, WakeUp, queueVars
  <2>. QED
    BY <1>3, <2>1, <2>2 DEF Queue
<1>4. CASE DispatchEvents \/ WakeFromWait \/ NativeMessage
  BY <1>1, <1>4 DEF DispatchEvents, WakeFromWait, NativeMessage, queueVars, postVars
<1>5. CASE ProcessCalls
  <2>1. CASE TakeEvent
    BY <2>1, TakeEventDelivers DEF Abstract!Next
  <2>2. CASE SkipCall \/ PickHandler \/ FinishCall \/ VetoHandler \/ NothingPending
    BY <1>1, <2>2 DEF SkipCall, PickHandler, FinishCall, VetoHandler, NothingPending,
                      queueVars, postVars
  <2>3. CASE NothingAllowed \/ RemovePendingEventHandler \/ DelayPendingEventHandler
    BY <1>1, <2>3 DEF NothingAllowed, RemovePendingEventHandler, DelayPendingEventHandler,
                      postVars
  <2>. QED
    BY <1>5, <2>1, <2>2, <2>3 DEF ProcessCalls
<1>6. CASE ClientCode
  <2>1. CASE HandlerReturns \/ HandlerThrows \/ StartDiscard \/ FinishDiscard
    BY <1>1, <2>1 DEF HandlerReturns, HandlerThrows, StartDiscard, FinishDiscard, queueVars,
                      postVars
  <2>2. ASSUME NEW mask \in SUBSET Categories, Yield(mask)
        PROVE  [Abstract!Next]_Abstract!vars
    BY <1>1, <2>2 DEF Yield, queueVars, postVars
  <2>3. ASSUME NEW h \in Handlers, Destroy(h) \/ DiscardPendingEvents(h)
        PROVE  [Abstract!Next]_Abstract!vars
    <3>1. Abstract!Drop(h)
      BY <2>3 DEF Destroy, DiscardPendingEvents, postVars, Abstract!Drop
    <3>. QED
      BY <1>2, <3>1
  <2>4. CASE DiscardNext
    <3>1. /\ \/ pendingEvents' = [pendingEvents EXCEPT ![Head(Top.rest)] = <<>>]
             \/ UNCHANGED pendingEvents
          /\ UNCHANGED <<posted, delivered, alive>>
      BY <2>4 DEF DiscardNext, postVars
    <3>2. Head(Top.rest) \in Handlers
      <4>1. Top.rest \in Seq(Handlers) /\ Top.rest # <<>>
        BY <2>4, TopTypes DEF ControlInv, DiscardNext, At
      <4>. QED
        BY <4>1
    <3>3. "discardAll" \in Calls
      BY <2>4 DEF DiscardNext, At, DiscardsOK
    <3>4. pendingEvents' = [pendingEvents EXCEPT ![Head(Top.rest)] = <<>>]
            => Abstract!Drop(Head(Top.rest))
      BY <3>1, <3>3 DEF Abstract!Drop
    <3>. QED
      BY <1>1, <1>2, <3>1, <3>2, <3>4
  <2>. QED
    BY <1>6, <2>1, <2>2, <2>3, <2>4 DEF ClientCode
<1>7. CASE UNCHANGED vars
  BY <1>1, <1>7 DEF vars
<1>. QED
  BY <1>3, <1>4, <1>5, <1>6, <1>7 DEF Next

(* The queues implement EventQueue: whatever client code calls and however   *)
(* the threads, the loop and its nested calls interleave, an event is posted *)
(* once, takes the place of one with its ID, is delivered before the later   *)
(* ones its yield allows, and is dropped only with its handler or on demand. *)
THEOREM QueuesImplementAbstract == Safety => ImplementsEventQueueSafety
<1>1. Init => Abstract!Init
  BY DEF Init, Abstract!Init
<1>2. Init => DiscardsOK
  BY DEF Init, DiscardsOK
<1>3. Safety => []DiscardsOK
  BY <1>2, DiscardsStep, ControlHolds, PTL DEF Safety
<1>4. ControlInv /\ DiscardsOK /\ [Next]_vars => [Abstract!Next]_Abstract!vars
  BY RefinesStep
<1>. QED
  BY <1>1, <1>3, <1>4, ControlHolds, PTL
  DEF Safety, ImplementsEventQueueSafety, Abstract!Safety
================================================================================
