------------------------------ MODULE BlockingEvent -----------------------------
(***************************************************************************)
(* A binding with BindEventFlag::Blocking: a worker thread that finds it in  *)
(* EvtHandler::SearchEventTable queues the event for the main thread and     *)
(* waits in BasicEvent::WaitProcessed until the main thread has processed    *)
(* it and gives it back with SignalProcessed.                                *)
(*                                                                         *)
(* Each thread accesses the fields of the event and of its WaitInfo one by   *)
(* one, and neither SignalProcessed nor the flags take a lock. An access to *)
(* an event that was destroyed, or through a null WaitInfo, is undefined     *)
(* behaviour: it sets `undefined' and nothing follows. The event of poster p *)
(* is called p; the queue is the handler's (PendingEvents models it).        *)
(* What posters may rely on is BlockingCall, which this module implements.   *)
(***************************************************************************)
EXTENDS SequencesExt

CONSTANTS Posters,          \* the worker threads
          Nobody,
          Main,             \* the main thread
          MaxDepth,         \* bound: nested searches a poster is in
          CanThrow          \* whether the main thread's handler may throw

ASSUME BlockingAssumption ==
  /\ Nobody \notin Posters /\ Main \notin Posters /\ Main # Nobody
  /\ MaxDepth \in Nat \ {0}
  /\ CanThrow \in BOOLEAN

VARIABLES
  owner, depth,     \* m_EventTableLock, which is recursive
  queue,            \* m_PendingEvents
  main, current,    \* where the main thread is in ProcessPendingEvents; its event
  post,             \* where each poster is
  waitable,         \* EventPrivateState::Waitable of its event
  info,             \* the posters whose event has an m_WaitInfo
  flag, self,       \* WaitInfo::Flag, and whether WaitInfo::Self holds the event
  result,           \* the posters that hold their event again
  gone,             \* the posters whose event was destroyed
  processed,        \* history: the posters whose event DoProcessEvent is done with
  spurious,         \* history: the posters that woke without a notification
  undefined         \* the behaviour of the program is undefined from here on

tableVars == <<owner, depth>>
mainVars == <<main, current>>
infoVars == <<waitable, info, flag, self>>
eventVars == <<infoVars, result, gone, processed, spurious>>
vars == <<tableVars, queue, mainVars, post, eventVars, undefined>>

Init ==
  /\ owner = Nobody /\ depth = 0
  /\ queue = <<>>
  /\ main = "idle" /\ current = Nobody
  /\ post = [p \in Posters |-> "idle"]
  /\ waitable = {} /\ info = {} /\ flag = {} /\ self = {}
  /\ result = {} /\ gone = {} /\ processed = {} /\ spurious = {}
  /\ undefined = FALSE

Goto(p, where) == post' = [post EXCEPT ![p] = where]

--------------------------------------------------------------------------------
(* The poster.                                                               *)

(* It searches the table, perhaps inside searches of its own whose handlers   *)
(* called it, and holds the lock as often.                                   *)
StartSearch(p) ==
  /\ post[p] = "idle" /\ current # p
  /\ owner = Nobody
  /\ owner' = p /\ depth' \in 1..MaxDepth
  /\ Goto(p, "search")
  /\ waitable' = waitable \ {p} /\ info' = info \ {p} /\ flag' = flag \ {p}
  /\ self' = self \ {p} /\ result' = result \ {p} /\ gone' = gone \ {p}
  /\ processed' = processed \ {p} /\ spurious' = spurious \ {p}
  /\ UNCHANGED <<queue, mainVars, undefined>>

(* event.Move(), DoQueueEvent.                                               *)
QueueEvent(p) ==
  /\ post[p] = "search"
  /\ queue' = Append(queue, p)
  /\ Goto(p, "queued")
  /\ UNCHANGED <<tableVars, mainVars, eventVars, undefined>>

ReleaseLevel == /\ depth' = depth - 1                               \* (variant)
                /\ UNCHANGED owner
Release == /\ depth' = depth - 1
           /\ owner' = IF depth = 1 THEN Nobody ELSE owner

UnlockTable(p) ==
  /\ post[p] = "queued"
  /\ Release
  /\ Goto(p, "unlocked")
  /\ UNCHANGED <<queue, mainVars, eventVars, undefined>>

(* The poster works on its event: undefined if it is gone.                   *)
Access(p, step) ==
  \/ p \in gone /\ undefined' = TRUE /\ UNCHANGED <<post, eventVars>>
  \/ p \notin gone /\ step /\ UNCHANGED undefined

SetWaitable(p) ==
  /\ post[p] = "unlocked"
  /\ Access(p, /\ waitable' = waitable \cup {p}
               /\ Goto(p, "waitable")
               /\ UNCHANGED <<info, flag, self, result, gone, processed, spurious>>)
  /\ UNCHANGED <<tableVars, queue, mainVars>>

MakeWaitInfo(p) ==
  /\ post[p] = "waitable"
  /\ Access(p, /\ info' = info \cup {p}
               /\ Goto(p, "made")
               /\ UNCHANGED <<waitable, flag, self, result, gone, processed, spurious>>)
  /\ UNCHANGED <<tableVars, queue, mainVars>>

ResetFlag(p) ==
  /\ post[p] = "made"
  /\ Access(p, /\ flag' = flag \ {p}
               /\ Goto(p, "test")
               /\ UNCHANGED <<waitable, info, self, result, gone, processed, spurious>>)
  /\ UNCHANGED <<tableVars, queue, mainVars>>

(* The predicate of Condition.wait: the mutex is held from the test to the    *)
(* sleep, but whoever sets the flag does not take it.                        *)
IsSignaled(p) == p \in flag

KeepWaiting(p) ==
  /\ post[p] = "test"
  /\ Access(p, /\ ~IsSignaled(p)
               /\ Goto(p, "block")
               /\ UNCHANGED eventVars)
  /\ UNCHANGED <<tableVars, queue, mainVars>>

FallAsleep(p) ==
  /\ post[p] = "block"
  /\ Access(p, Goto(p, "asleep") /\ UNCHANGED eventVars)
  /\ UNCHANGED <<tableVars, queue, mainVars>>

(* return std::move(m_WaitInfo->Self), and PutWaitResult.                    *)
TakeSelf(p) ==
  /\ post[p] = "test"
  /\ Access(p, /\ IsSignaled(p)
               /\ self' = self \ {p}
               /\ result' = IF p \in self THEN result \cup {p} ELSE result
               /\ Goto(p, "done")
               /\ UNCHANGED <<waitable, info, flag, gone, processed, spurious>>)
  /\ UNCHANGED <<tableVars, queue, mainVars>>

(* The searches return and release the lock; the caller drops the event.     *)
Return(p) ==
  /\ post[p] = "done"
  /\ Goto(p, "idle")
  /\ result' = result \ {p}
  /\ gone' = gone \cup {p}
  /\ IF owner = p THEN owner' = Nobody /\ depth' = 0 ELSE UNCHANGED tableVars
  /\ UNCHANGED <<queue, mainVars, infoVars, processed, spurious, undefined>>

SpuriousWakeUp(p) ==
  /\ post[p] = "asleep"
  /\ Goto(p, "test")
  /\ spurious' = spurious \cup {p}
  /\ UNCHANGED <<tableVars, queue, mainVars, infoVars, result, gone, processed, undefined>>

--------------------------------------------------------------------------------
(* The main thread in EvtHandler::ProcessPendingEvents.                      *)

TakeNewest ==                                                      \* (variant)
  /\ main = "idle" /\ queue # <<>>
  /\ current' = Last(queue) /\ queue' = Front(queue)
  /\ main' = "process"
  /\ UNCHANGED <<tableVars, post, eventVars, undefined>>
TakeEvent ==
  /\ main = "idle" /\ queue # <<>>
  /\ current' = Head(queue) /\ queue' = Tail(queue)
  /\ main' = "process"
  /\ UNCHANGED <<tableVars, post, eventVars, undefined>>

(* A filter ends the processing, or the handler is disabled.                 *)
Swallow ==
  /\ main = "process"
  /\ processed' = processed \cup {current}
  /\ main' = "signal"
  /\ UNCHANGED <<tableVars, queue, current, post, infoVars, result, gone, spurious, undefined>>

EnterTable ==
  /\ main = "process" /\ owner = Nobody
  /\ owner' = Main /\ depth' = 1
  /\ main' = "handle"
  /\ UNCHANGED <<queue, current, post, eventVars, undefined>>

HandlerReturns ==
  /\ main = "handle"
  /\ Release
  /\ processed' = processed \cup {current}
  /\ main' = "signal"
  /\ UNCHANGED <<queue, current, post, infoVars, result, gone, spurious, undefined>>

(* The event is destroyed while the exception passes; a condition variable    *)
(* with a waiter must not be.                                                *)
HandlerThrows ==
  /\ CanThrow
  /\ main = "handle"
  /\ Release
  /\ gone' = gone \cup {current}
  /\ undefined' = (post[current] \in {"test", "block", "asleep"})
  /\ main' = "idle" /\ current' = Nobody
  /\ UNCHANGED <<queue, post, infoVars, result, processed, spurious>>

(* SignalProcessed: without the Waitable flag the event it was given dies.   *)
SignalNobody ==
  /\ main = "signal" /\ current \notin waitable
  /\ gone' = gone \cup {current}
  /\ main' = "idle" /\ current' = Nobody
  /\ UNCHANGED <<tableVars, queue, post, infoVars, result, processed, spurious, undefined>>

SignalWaiter ==
  /\ main = "signal" /\ current \in waitable
  /\ main' = "put"
  /\ UNCHANGED <<tableVars, queue, current, post, eventVars, undefined>>

KeepSelf ==                                                        \* (variant)
  /\ main = "put"
  /\ \/ current \notin info /\ undefined' = TRUE /\ UNCHANGED <<main, current, self, gone>>
     \/ /\ current \in info
        /\ self' = self \cup {current} /\ gone' = gone \cup {current}
        /\ main' = "flag"
        /\ UNCHANGED <<current, undefined>>
  /\ UNCHANGED <<tableVars, queue, post, waitable, info, flag, result, processed, spurious>>
PutSelf ==
  /\ main = "put"
  /\ \/ current \notin info /\ undefined' = TRUE /\ UNCHANGED <<main, self>>
     \/ /\ current \in info
        /\ self' = self \cup {current}
        /\ main' = "flag"
        /\ UNCHANGED undefined
  /\ UNCHANGED <<tableVars, queue, current, post, waitable, info, flag, result, gone, processed, spurious>>

SetFlag ==
  /\ main = "flag"
  /\ flag' = flag \cup {current}
  /\ main' = "notify"
  /\ UNCHANGED <<tableVars, queue, current, post, waitable, info, self, result, gone, processed,
                 spurious, undefined>>

(* The poster may have taken and dropped the event in the meantime.          *)
NotifyNobody ==                                                    \* (variant)
  /\ main = "notify"
  /\ main' = "idle" /\ current' = Nobody
  /\ UNCHANGED <<tableVars, queue, post, eventVars, undefined>>
NotifyOne ==
  /\ main = "notify"
  /\ undefined' = (current \in gone)
  /\ post' = [p \in Posters |-> IF p = current /\ post[p] = "asleep" THEN "test" ELSE post[p]]
  /\ main' = "idle" /\ current' = Nobody
  /\ UNCHANGED <<tableVars, queue, eventVars>>

--------------------------------------------------------------------------------

PosterStep(p) ==
  \/ QueueEvent(p) \/ UnlockTable(p) \/ SetWaitable(p) \/ MakeWaitInfo(p) \/ ResetFlag(p)
  \/ KeepWaiting(p) \/ FallAsleep(p) \/ TakeSelf(p) \/ Return(p)

MainStep ==
  \/ TakeEvent \/ EnterTable \/ HandlerReturns
  \/ SignalNobody \/ SignalWaiter \/ PutSelf \/ SetFlag \/ NotifyOne

Next ==
  /\ ~undefined
  /\ \/ MainStep \/ Swallow \/ HandlerThrows
     \/ \E p \in Posters : StartSearch(p) \/ PosterStep(p) \/ SpuriousWakeUp(p)

(* Each thread goes on while it can, the table lock is fair and handlers      *)
(* return; nobody is bound to post an event or to filter one out, and no      *)
(* spurious wake-up is due.                                                  *)
Fairness == SF_vars(MainStep) /\ \A p \in Posters : WF_vars(PosterStep(p))

Spec == Init /\ [][Next]_vars /\ Fairness

--------------------------------------------------------------------------------
(* PROPERTIES                                                                *)

PosterStates == {"idle", "search", "queued", "unlocked", "waitable", "made", "test", "block",
                 "asleep", "done"}
MainStates == {"idle", "process", "handle", "signal", "put", "flag", "notify"}

(* The types of the variables; the lock is held by the threads that are in    *)
(* the table.                                                                *)
TypeOK ==
  /\ owner \in Posters \cup {Main, Nobody}
  /\ depth \in 0..MaxDepth /\ (depth = 0 <=> owner = Nobody)
  /\ owner = Main <=> main = "handle"
  /\ owner = Main => depth = 1
  /\ \A p \in Posters : post[p] \in {"search", "queued"} => owner = p
  /\ queue \in Seq(Posters)
  /\ main \in MainStates
  /\ current \in Posters \cup {Nobody} /\ (current = Nobody <=> main = "idle")
  /\ post \in [Posters -> PosterStates]
  /\ waitable \subseteq Posters /\ info \subseteq Posters
  /\ flag \subseteq Posters /\ self \subseteq Posters
  /\ result \subseteq Posters /\ gone \subseteq Posters /\ processed \subseteq Posters
  /\ spurious \subseteq Posters
  /\ undefined \in BOOLEAN

(* "Signal to the waiting thread that we have processed this event and        *)
(* relinquish the event object to it" (ProcessPendingEvents): a wait that      *)
(* returns gives the event back, after the main thread has processed it,      *)
(* although flag, object and notification come without the mutex.            *)
ResultIsProcessedEvent ==
  \A p \in Posters : post[p] = "done" => p \in result /\ p \in processed

(* The event that was moved into the queue has one owner at a time: the       *)
(* queue, the main thread, its own WaitInfo, the poster; or it is destroyed. *)
Queued(p) == Contains(queue, p)
InMain(p) == current = p /\ main \in {"process", "handle", "signal", "put"}
OneOwner ==
  /\ IsInjective(queue)
  /\ \A p \in Posters :
       /\ Queued(p) => ~InMain(p) /\ p \notin self \cup result \cup gone
       /\ InMain(p) => p \notin self \cup result \cup gone
       /\ p \in self => p \notin result \cup gone
       /\ p \in result => p \notin gone
       /\ post[p] \notin {"idle", "search"} =>
            Queued(p) \/ InMain(p) \/ p \in self \cup result \cup gone

(* "We need to leave the guard here so the main thread can enter this         *)
(* function" (SearchEventTable): a poster that sleeps while its event is still *)
(* to be processed gets it back in the end. Left out are a poster inside      *)
(* searches of its own, which leaves one level only and locks the main thread *)
(* out, and one that woke spuriously: SignalProcessed takes no lock, so a     *)
(* signal that comes while it tests the flag again is lost.                   *)
LockedOut == \E p \in Posters : owner = p /\ post[p] \in {"test", "block", "asleep"}
SleeperGetsEventBack ==
  \A p \in Posters :
    (post[p] = "asleep" /\ (Queued(p) \/ InMain(p)))
      ~> (post[p] = "done" \/ p \in spurious \/ undefined \/ LockedOut)

(* Whatever is read and written without a lock, and however posters wake, the  *)
(* calls are those of BlockingCall: posted, processed in order and only then  *)
(* returned, with the event, or never (SearchEventTable, WaitProcessed and    *)
(* ProcessPendingEvents).                                                    *)
CallOf(p) ==
  IF post[p] \in {"idle", "search"} THEN "none"
  ELSE IF p \in gone THEN "lost"
  ELSE IF p \in result THEN "given"
  ELSE IF p \in processed THEN "processed"
  ELSE "posted"
Handling == IF main \in {"process", "handle"} THEN current ELSE Nobody
Calls == INSTANCE BlockingCall WITH handling <- Handling, call <- [p \in Posters |-> CallOf(p)]
ImplementsBlockingCall == Calls!Spec
================================================================================
