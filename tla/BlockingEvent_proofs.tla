-------------------------- MODULE BlockingEvent_proofs --------------------------
(***************************************************************************)
(* For any number of posters and any depth of their searches: a wait for a   *)
(* blocking event that returns gives the event back after the main thread    *)
(* has processed it, the event has one owner at a time, and the protocol     *)
(* implements BlockingCall.                                                 *)
(*                                                                         *)
(* BlockInv is TypeOK and, for each poster, Own: which of its states go with *)
(* its event being queued, with the main thread, in its own WaitInfo, given *)
(* back or destroyed, and with each of the flags. It is what makes the       *)
(* predicate of the wait sufficient: Flag is set only after Self, and it     *)
(* cannot be stale, because the event is a new object.                       *)
(***************************************************************************)
EXTENDS BlockingEvent, SequenceLemmas

Waits == {"queued", "unlocked", "waitable", "made", "test", "block", "asleep"}
Made == {"made", "test", "block", "asleep"}

Own(p) ==
  /\ Queued(p) \/ InMain(p) =>
       post[p] \in Waits /\ p \notin self \cup result \cup gone \cup flag
  /\ Queued(p) => current # p
  /\ p \in self => post[p] \in Made /\ p \in processed /\ p \notin result \cup gone
  /\ p \in result <=> post[p] = "done"
  /\ p \in result => p \in processed /\ p \notin gone
  /\ p \in flag => post[p] \in Made \cup {"done", "idle"}
  /\ p \in flag /\ post[p] \in Made => p \in self
  /\ p \in info => post[p] \in Made \cup {"done", "idle"}
  /\ post[p] \in Waits => Queued(p) \/ InMain(p) \/ p \in self \/ p \in gone
  /\ post[p] = "search" => current # p /\ p \notin gone
  /\ current = p /\ main \in {"signal", "put", "flag", "notify"} => p \in processed
  /\ current = p /\ main = "flag" => p \in self /\ p \notin flag

BlockInv == TypeOK /\ IsInjective(queue) /\ \A p \in Posters : Own(p)

--------------------------------------------------------------------------------

LEMMA BlockInit == Init => BlockInv
<1> SUFFICES ASSUME Init PROVE BlockInv
  OBVIOUS
<1>. USE BlockingAssumption
<1>1. TypeOK
  <2>1. queue \in Seq(Posters) /\ post \in [Posters -> PosterStates] /\ depth \in 0..MaxDepth
    BY DEF Init, PosterStates
  <2>2. (depth = 0 <=> owner = Nobody) /\ (owner = Main <=> main = "handle")
    BY DEF Init
  <2>3. \A p \in Posters : post[p] = "idle"
    BY DEF Init
  <2>. QED
    BY <2>1, <2>2, <2>3 DEF Init, TypeOK, MainStates
<1>2. IsInjective(queue)
  BY DEF Init, IsInjective
<1>3. \A p \in Posters : Own(p)
  BY DEF Init, Own, Queued, InMain, Contains, Waits, Made
<1>. QED
  BY <1>1, <1>2, <1>3 DEF BlockInv

(* The head of an injective queue is not in its tail.                        *)
LEMMA HeadTail ==
  ASSUME NEW E, NEW q \in Seq(E), q # <<>>, IsInjective(q)
  PROVE  /\ Head(q) \in E /\ Tail(q) \in Seq(E) /\ IsInjective(Tail(q))
         /\ \A x : Contains(q, x) <=> Contains(Tail(q), x) \/ x = Head(q)
         /\ ~Contains(Tail(q), Head(q))
<1> DEFINE n == Len(q)
<1>1. /\ n \in Nat /\ n >= 1 /\ Head(q) = q[1] /\ Head(q) \in E
      /\ Tail(q) \in Seq(E) /\ Len(Tail(q)) = n - 1
      /\ \A i \in 1..(n - 1) : Tail(q)[i] = q[i + 1]
      /\ \A i, j \in 1..n : q[i] = q[j] => i = j
      /\ DOMAIN Tail(q) = 1..(n - 1)
  BY DEF IsInjective
<1>2. \A i \in 1..(n - 1) : i + 1 \in 1..n /\ i + 1 # 1
  BY <1>1
<1>3. IsInjective(Tail(q))
  <2> SUFFICES ASSUME NEW i \in 1..(n - 1), NEW j \in 1..(n - 1), q[i + 1] = q[j + 1]
               PROVE  i = j
    BY <1>1 DEF IsInjective
  <2>1. i + 1 = j + 1
    BY <1>1, <1>2
  <2>. QED
    BY <2>1
<1>4. ASSUME NEW x
      PROVE  Contains(q, x) <=> Contains(Tail(q), x) \/ x = Head(q)
  <2>1. ASSUME NEW i \in 1..n, q[i] = x, i # 1
        PROVE  Contains(Tail(q), x)
    <3>1. i - 1 \in 1..(n - 1) /\ (i - 1) + 1 = i
      BY <2>1, <1>1
    <3>2. Tail(q)[i - 1] = q[(i - 1) + 1]
      BY <3>1, <1>1
    <3>. QED
      BY <3>1, <3>2, <2>1, <1>1 DEF Contains
  <2>2. ASSUME NEW i \in 1..(n - 1), Tail(q)[i] = x
        PROVE  Contains(q, x)
    <3>1. i + 1 \in 1..n /\ q[i + 1] = x
      BY <2>2, <1>1, <1>2
    <3>. QED
      BY <3>1 DEF Contains
  <2>3. Contains(q, Head(q))
    BY <1>1 DEF Contains
  <2>. QED
    BY <2>1, <2>2, <2>3, <1>1 DEF Contains
<1>5. ~Contains(Tail(q), Head(q))
  BY <1>1, <1>2 DEF Contains
<1>. QED
  BY <1>1, <1>3, <1>4, <1>5

--------------------------------------------------------------------------------
(* The steps of the poster p.                                                *)

LEMMA StartSearchInv ==
  ASSUME BlockInv, NEW p \in Posters, StartSearch(p)
  PROVE  BlockInv'
<1>. USE BlockingAssumption
<1>1. TypeOK'
  BY DEF BlockInv, TypeOK, StartSearch, Goto, mainVars, PosterStates, MainStates
<1>2. ~Queued(p) /\ ~InMain(p) /\ current # p
  BY DEF BlockInv, Own, StartSearch, Waits, InMain
<1>3. ASSUME NEW q \in Posters PROVE Own(q)'
  BY <1>2 DEF BlockInv, TypeOK, Own, StartSearch, Goto, mainVars, Waits, Made, Queued, InMain
<1>. QED
  BY <1>1, <1>3 DEF BlockInv, StartSearch

LEMMA QueueEventInv ==
  ASSUME BlockInv, NEW p \in Posters, QueueEvent(p)
  PROVE  BlockInv'
<1>. USE BlockingAssumption
<1>1. queue \in Seq(Posters) /\ ~Contains(queue, p) /\ Injective(queue)
  BY DEF BlockInv, TypeOK, Own, QueueEvent, Waits, Queued, IsInjective, Injective
<1>2. /\ queue' \in Seq(Posters)
      /\ \A x : Contains(queue', x) <=> Contains(queue, x) \/ x = p
      /\ Injective(queue')
  <2>1. queue' = Append(queue, p)
    BY DEF QueueEvent
  <2>. QED
    BY <1>1, <2>1, AppendAbsent
<1>3. IsInjective(queue')
  BY <1>2 DEF Injective, IsInjective
<1>4. TypeOK'
  BY <1>2 DEF BlockInv, TypeOK, QueueEvent, Goto, tableVars, mainVars, eventVars, infoVars,
              PosterStates, MainStates
<1>5. current # p
  BY DEF BlockInv, Own, QueueEvent
<1>6. ASSUME NEW q \in Posters PROVE Own(q)'
  BY <1>2, <1>5 DEF BlockInv, TypeOK, Own, QueueEvent, Goto, mainVars, eventVars, infoVars, Waits,
                    Made, Queued, InMain
<1>. QED
  BY <1>3, <1>4, <1>6 DEF BlockInv

LEMMA UnlockTableInv ==
  ASSUME BlockInv, NEW p \in Posters, UnlockTable(p)
  PROVE  BlockInv'
<1>. USE BlockingAssumption
<1>1. TypeOK'
  BY DEF BlockInv, TypeOK, UnlockTable, Release, Goto, mainVars, eventVars, infoVars, PosterStates,
         MainStates
<1>2. ASSUME NEW q \in Posters PROVE Own(q)'
  BY DEF BlockInv, TypeOK, Own, UnlockTable, Goto, mainVars, eventVars, infoVars, Waits, Made,
         Queued, InMain
<1>. QED
  BY <1>1, <1>2 DEF BlockInv, UnlockTable

(* A step that finds the event gone only sets undefined.                     *)
LEMMA UndefinedInv ==
  ASSUME BlockInv, UNCHANGED <<tableVars, queue, mainVars, post, eventVars>>, undefined' = TRUE
  PROVE  BlockInv'
BY DEF BlockInv, TypeOK, Own, tableVars, mainVars, eventVars, infoVars, Queued, InMain

LEMMA SetWaitableInv ==
  ASSUME BlockInv, NEW p \in Posters, SetWaitable(p)
  PROVE  BlockInv'
<1>. USE BlockingAssumption
<1>1. CASE p \in gone /\ undefined' = TRUE /\ UNCHANGED <<post, eventVars>>
  BY <1>1, UndefinedInv DEF SetWaitable
<1>2. CASE ~(p \in gone /\ undefined' = TRUE /\ UNCHANGED <<post, eventVars>>)
  <2>1. TypeOK'
    BY <1>2 DEF BlockInv, TypeOK, SetWaitable, Access, Goto, tableVars, mainVars, PosterStates,
                MainStates
  <2>2. ASSUME NEW q \in Posters PROVE Own(q)'
    BY <1>2 DEF BlockInv, TypeOK, Own, SetWaitable, Access, Goto, mainVars, Waits, Made, Queued,
                InMain
  <2>. QED
    BY <2>1, <2>2 DEF BlockInv, SetWaitable
<1>. QED
  BY <1>1, <1>2

LEMMA MakeWaitInfoInv ==
  ASSUME BlockInv, NEW p \in Posters, MakeWaitInfo(p)
  PROVE  BlockInv'
<1>. USE BlockingAssumption
<1>1. CASE p \in gone /\ undefined' = TRUE /\ UNCHANGED <<post, eventVars>>
  BY <1>1, UndefinedInv DEF MakeWaitInfo
<1>2. CASE ~(p \in gone /\ undefined' = TRUE /\ UNCHANGED <<post, eventVars>>)
  <2>1. TypeOK'
    BY <1>2 DEF BlockInv, TypeOK, MakeWaitInfo, Access, Goto, tableVars, mainVars, PosterStates,
                MainStates
  <2>2. ASSUME NEW q \in Posters PROVE Own(q)'
    BY <1>2 DEF BlockInv, TypeOK, Own, MakeWaitInfo, Access, Goto, mainVars, Waits, Made, Queued,
                InMain
  <2>. QED
    BY <2>1, <2>2 DEF BlockInv, MakeWaitInfo
<1>. QED
  BY <1>1, <1>2

LEMMA ResetFlagInv ==
  ASSUME BlockInv, NEW p \in Posters, ResetFlag(p)
  PROVE  BlockInv'
<1>. USE BlockingAssumption
<1>1. CASE p \in gone /\ undefined' = TRUE /\ UNCHANGED <<post, eventVars>>
  BY <1>1, UndefinedInv DEF ResetFlag
<1>2. CASE ~(p \in gone /\ undefined' = TRUE /\ UNCHANGED <<post, eventVars>>)
  <2>1. TypeOK'
    BY <1>2 DEF BlockInv, TypeOK, ResetFlag, Access, Goto, tableVars, mainVars, PosterStates,
                MainStates
  <2>2. ASSUME NEW q \in Posters PROVE Own(q)'
    BY <1>2 DEF BlockInv, TypeOK, Own, ResetFlag, Access, Goto, mainVars, Waits, Made, Queued,
                InMain
  <2>. QED
    BY <2>1, <2>2 DEF BlockInv, ResetFlag
<1>. QED
  BY <1>1, <1>2

LEMMA SleepInv ==
  ASSUME BlockInv, NEW p \in Posters, KeepWaiting(p) \/ FallAsleep(p) \/ SpuriousWakeUp(p)
  PROVE  BlockInv'
<1>. USE BlockingAssumption
<1>1. CASE p \in gone /\ undefined' = TRUE /\ UNCHANGED <<tableVars, queue, mainVars, post, eventVars>>
  BY <1>1, UndefinedInv
<1>2. ASSUME /\ UNCHANGED <<tableVars, queue, mainVars, infoVars, result, gone, processed, undefined>>
             /\ spurious' \in {spurious, spurious \cup {p}}
             /\ post[p] \in {"test", "block", "asleep"}
             /\ \E w \in {"test", "block", "asleep"} : Goto(p, w)
      PROVE  BlockInv'
  <2>1. TypeOK'
    BY <1>2 DEF BlockInv, TypeOK, Goto, tableVars, mainVars, infoVars, PosterStates, MainStates
  <2>2. ASSUME NEW q \in Posters PROVE Own(q)'
    BY <1>2 DEF BlockInv, TypeOK, Own, Goto, mainVars, infoVars, Waits, Made, Queued, InMain
  <2>. QED
    BY <2>1, <2>2, <1>2 DEF BlockInv
<1>3. CASE SpuriousWakeUp(p)
  BY <1>2, <1>3 DEF SpuriousWakeUp
<1>4. CASE KeepWaiting(p)
  BY <1>1, <1>2, <1>4 DEF KeepWaiting, Access, eventVars
<1>5. CASE FallAsleep(p)
  BY <1>1, <1>2, <1>5 DEF FallAsleep, Access, eventVars
<1>. QED
  BY <1>3, <1>4, <1>5

LEMMA TakeSelfInv ==
  ASSUME BlockInv, NEW p \in Posters, TakeSelf(p)
  PROVE  BlockInv'
<1>. USE BlockingAssumption
<1>1. CASE p \in gone /\ undefined' = TRUE /\ UNCHANGED <<post, eventVars>>
  BY <1>1, UndefinedInv DEF TakeSelf
<1>2. CASE ~(p \in gone /\ undefined' = TRUE /\ UNCHANGED <<post, eventVars>>)
  <2>1. /\ p \notin gone /\ p \in self /\ p \in flag /\ p \in processed
        /\ ~Queued(p) /\ ~InMain(p)
        /\ self' = self \ {p} /\ result' = result \cup {p}
        /\ post' = [post EXCEPT ![p] = "done"] /\ post[p] = "test"
        /\ UNCHANGED <<tableVars, queue, mainVars, waitable, info, flag, gone, processed, spurious,
                       undefined>>
    BY <1>2 DEF BlockInv, Own, TakeSelf, IsSignaled, Access, Goto, Made
  <2>2. TypeOK'
    BY <2>1 DEF BlockInv, TypeOK, tableVars, mainVars, PosterStates, MainStates
  <2>3. ASSUME NEW q \in Posters PROVE Own(q)'
    BY <2>1 DEF BlockInv, TypeOK, Own, mainVars, Waits, Made, Queued, InMain
  <2>. QED
    BY <2>1, <2>2, <2>3 DEF BlockInv
<1>. QED
  BY <1>1, <1>2

LEMMA ReturnInv ==
  ASSUME BlockInv, NEW p \in Posters, Return(p)
  PROVE  BlockInv'
<1>. USE BlockingAssumption
<1>1. TypeOK'
  BY DEF BlockInv, TypeOK, Return, Goto, tableVars, mainVars, infoVars, PosterStates, MainStates
<1>2. ~Queued(p) /\ ~InMain(p) /\ p \notin self
  BY DEF BlockInv, Own, Return, Waits, Made
<1>3. ASSUME NEW q \in Posters PROVE Own(q)'
  BY <1>2 DEF BlockInv, TypeOK, Own, Return, Goto, mainVars, infoVars, Waits, Made, Queued, InMain
<1>. QED
  BY <1>1, <1>3 DEF BlockInv, Return

--------------------------------------------------------------------------------
(* The steps of the main thread.                                             *)

LEMMA TakeEventInv ==
  ASSUME BlockInv, TakeEvent
  PROVE  BlockInv'
<1>. USE BlockingAssumption
<1>1. queue \in Seq(Posters) /\ queue # <<>> /\ IsInjective(queue)
  BY DEF BlockInv, TypeOK, TakeEvent
<1>2. /\ current' \in Posters /\ queue' \in Seq(Posters) /\ IsInjective(queue')
      /\ \A x : Contains(queue, x) <=> Contains(queue', x) \/ x = current'
      /\ ~Contains(queue', current')
  BY <1>1, HeadTail DEF TakeEvent
<1>3. TypeOK'
  BY <1>2 DEF BlockInv, TypeOK, TakeEvent, tableVars, eventVars, infoVars, PosterStates, MainStates
<1>4. current = Nobody
  BY DEF BlockInv, TypeOK, TakeEvent
<1>5. ASSUME NEW q \in Posters PROVE Own(q)'
  BY <1>2, <1>4 DEF BlockInv, TypeOK, Own, TakeEvent, eventVars, infoVars, Waits, Made, Queued,
                    InMain
<1>. QED
  BY <1>2, <1>3, <1>5 DEF BlockInv

LEMMA HandleInv ==
  ASSUME BlockInv, Swallow \/ EnterTable \/ HandlerReturns
  PROVE  BlockInv'
<1>. USE BlockingAssumption
<1>1. TypeOK'
  BY DEF BlockInv, TypeOK, Swallow, EnterTable, HandlerReturns, Release, tableVars, eventVars,
         infoVars, PosterStates, MainStates
<1>2. ASSUME NEW q \in Posters PROVE Own(q)'
  BY DEF BlockInv, TypeOK, Own, Swallow, EnterTable, HandlerReturns, tableVars, eventVars,
         infoVars, Waits, Made, Queued, InMain
<1>. QED
  BY <1>1, <1>2 DEF BlockInv, Swallow, EnterTable, HandlerReturns

LEMMA DestroyInv ==
  ASSUME BlockInv, HandlerThrows \/ SignalNobody
  PROVE  BlockInv'
<1>. USE BlockingAssumption
<1>1. TypeOK'
  <2>1. CASE HandlerThrows
    <3>1. owner = Main /\ depth = 1
      BY <2>1 DEF BlockInv, TypeOK, HandlerThrows
    <3>2. owner' = Nobody /\ depth' = 0
      BY <2>1, <3>1 DEF HandlerThrows, Release
    <3>3. undefined' \in BOOLEAN
      BY <2>1 DEF HandlerThrows
    <3>. QED
      BY <2>1, <3>1, <3>2, <3>3 DEF BlockInv, TypeOK, HandlerThrows, infoVars, PosterStates,
                                    MainStates
  <2>2. CASE SignalNobody
    BY <2>2 DEF BlockInv, TypeOK, SignalNobody, tableVars, infoVars, PosterStates, MainStates
  <2>. QED
    BY <2>1, <2>2
<1>2. current \in Posters /\ InMain(current)
  BY DEF BlockInv, TypeOK, HandlerThrows, SignalNobody, InMain
<1>3. ASSUME NEW q \in Posters PROVE Own(q)'
  BY <1>2 DEF BlockInv, TypeOK, Own, HandlerThrows, SignalNobody, tableVars, infoVars, Waits, Made,
              Queued, InMain
<1>. QED
  BY <1>1, <1>3 DEF BlockInv, HandlerThrows, SignalNobody

LEMMA SignalInv ==
  ASSUME BlockInv, SignalWaiter \/ PutSelf \/ SetFlag
  PROVE  BlockInv'
<1>. USE BlockingAssumption
<1>1. CASE SignalWaiter
  <2>1. TypeOK'
    BY <1>1 DEF BlockInv, TypeOK, SignalWaiter, tableVars, eventVars, infoVars, PosterStates,
                MainStates
  <2>2. ASSUME NEW q \in Posters PROVE Own(q)'
    BY <1>1 DEF BlockInv, TypeOK, Own, SignalWaiter, tableVars, eventVars, infoVars, Waits, Made,
                Queued, InMain
  <2>. QED
    BY <1>1, <2>1, <2>2 DEF BlockInv, SignalWaiter
<1>2. CASE PutSelf
  <2>1. CASE current \notin info
    BY <1>2, <2>1, UndefinedInv DEF PutSelf, mainVars, eventVars, infoVars
  <2>2. CASE current \in info
    <3>1. TypeOK'
      BY <1>2, <2>2 DEF BlockInv, TypeOK, PutSelf, tableVars, PosterStates, MainStates
    <3>2. InMain(current) /\ current \in Posters
      BY <1>2 DEF BlockInv, TypeOK, PutSelf, InMain
    <3>3. post[current] \in Made
      BY <2>2, <3>2 DEF BlockInv, Own, Waits, Made
    <3>4. ASSUME NEW q \in Posters PROVE Own(q)'
      BY <1>2, <2>2, <3>2, <3>3 DEF BlockInv, TypeOK, Own, PutSelf, tableVars, Waits, Made, Queued,
                                    InMain
    <3>. QED
      BY <1>2, <3>1, <3>4 DEF BlockInv, PutSelf
  <2>. QED
    BY <2>1, <2>2
<1>3. CASE SetFlag
  <2>1. TypeOK'
    BY <1>3 DEF BlockInv, TypeOK, SetFlag, tableVars, PosterStates, MainStates
  <2>2. ASSUME NEW q \in Posters PROVE Own(q)'
    BY <1>3 DEF BlockInv, TypeOK, Own, SetFlag, tableVars, Waits, Made, Queued, InMain
  <2>. QED
    BY <1>3, <2>1, <2>2 DEF BlockInv, SetFlag
<1>. QED
  BY <1>1, <1>2, <1>3

LEMMA NotifyOneInv ==
  ASSUME BlockInv, NotifyOne
  PROVE  BlockInv'
<1>. USE BlockingAssumption
<1>1. \A q \in Posters : /\ post'[q] = post[q] \/ (post[q] = "asleep" /\ post'[q] = "test")
                         /\ post'[q] \in PosterStates
  BY DEF BlockInv, TypeOK, NotifyOne, PosterStates
<1>2. TypeOK'
  <2>1. post' \in [Posters -> PosterStates]
    BY <1>1 DEF NotifyOne
  <2>. QED
    BY <1>1, <2>1 DEF BlockInv, TypeOK, NotifyOne, tableVars, eventVars, infoVars, MainStates
<1>3. ASSUME NEW q \in Posters PROVE Own(q)'
  BY <1>1 DEF BlockInv, TypeOK, Own, NotifyOne, tableVars, eventVars, infoVars, Waits, Made,
              Queued, InMain
<1>. QED
  BY <1>2, <1>3 DEF BlockInv, NotifyOne

--------------------------------------------------------------------------------
LEMMA BlockNext == BlockInv /\ [Next]_vars => BlockInv'
<1> SUFFICES ASSUME BlockInv, [Next]_vars PROVE BlockInv'
  OBVIOUS
<1>1. ASSUME NEW p \in Posters, StartSearch(p) \/ PosterStep(p) \/ SpuriousWakeUp(p)
      PROVE  BlockInv'
  BY <1>1, StartSearchInv, QueueEventInv, UnlockTableInv, SetWaitableInv, MakeWaitInfoInv,
     ResetFlagInv, SleepInv, TakeSelfInv, ReturnInv DEF PosterStep
<1>2. CASE MainStep \/ Swallow \/ HandlerThrows
  BY <1>2, TakeEventInv, HandleInv, DestroyInv, SignalInv, NotifyOneInv DEF MainStep
<1>3. CASE UNCHANGED vars
  BY <1>3 DEF vars, BlockInv, TypeOK, Own, tableVars, mainVars, eventVars, infoVars, Queued, InMain
<1>. QED
  BY <1>1, <1>2, <1>3 DEF Next

(* The variables have their types, and the table lock is with the threads     *)
(* that are in the table.                                                    *)
THEOREM BlockingTypeCorrect == Spec => []TypeOK
<1>1. BlockInv => TypeOK
  BY DEF BlockInv
<1>. QED
  BY <1>1, BlockInit, BlockNext, PTL DEF Spec

(* A WaitProcessed that returns gives the event back, after the main thread   *)
(* has processed it, for any number of threads that wait.                    *)
THEOREM ResultCorrect == Spec => []ResultIsProcessedEvent
<1>1. BlockInv => ResultIsProcessedEvent
  BY DEF BlockInv, Own, ResultIsProcessedEvent
<1>. QED
  BY <1>1, BlockInit, BlockNext, PTL DEF Spec

(* An event that was queued for the main thread is never owned twice.         *)
THEOREM OwnerCorrect == Spec => []OneOwner
<1>1. BlockInv => OneOwner
  <2> SUFFICES ASSUME BlockInv, NEW p \in Posters
               PROVE  /\ Queued(p) => ~InMain(p) /\ p \notin self \cup result \cup gone
                      /\ InMain(p) => p \notin self \cup result \cup gone
                      /\ p \in self => p \notin result \cup gone
                      /\ p \in result => p \notin gone
                      /\ post[p] \notin {"idle", "search"} =>
                           Queued(p) \/ InMain(p) \/ p \in self \cup result \cup gone
    BY DEF BlockInv, OneOwner
  <2>1. post[p] \in PosterStates /\ Own(p)
    BY DEF BlockInv, TypeOK
  <2>. QED
    BY <2>1 DEF Own, PosterStates, Waits, InMain
<1>. QED
  BY <1>1, BlockInit, BlockNext, PTL DEF Spec

--------------------------------------------------------------------------------
(* The refinement of BlockingCall. An event is marked as processed only once:  *)
(* it is not before the main thread is done with it.                         *)
Fresh(p) ==
  post[p] = "search" \/ Queued(p) \/ (current = p /\ main \in {"process", "handle"})
    => p \notin processed
FreshInv == \A p \in Posters : Fresh(p)

LEMMA FreshNext == BlockInv /\ FreshInv /\ [Next]_vars => FreshInv'
<1> SUFFICES ASSUME BlockInv, FreshInv, [Next]_vars PROVE FreshInv'
  OBVIOUS
<1>. USE BlockingAssumption
<1>1. ASSUME UNCHANGED <<queue, main, current, processed>>,
             \A q \in Posters : post'[q] = "search" => post[q] = "search"
      PROVE  FreshInv'
  BY <1>1 DEF FreshInv, Fresh, Queued
<1>2. ASSUME NEW p \in Posters, StartSearch(p)
      PROVE  FreshInv'
  BY <1>2 DEF FreshInv, Fresh, StartSearch, Goto, mainVars, Queued, BlockInv, TypeOK
<1>3. ASSUME NEW p \in Posters, QueueEvent(p)
      PROVE  FreshInv'
  <2>1. \A x : Contains(queue', x) <=> Contains(queue, x) \/ x = p
    <3>1. queue \in Seq(Posters) /\ ~Contains(queue, p) /\ Injective(queue)
      BY <1>3 DEF BlockInv, TypeOK, Own, QueueEvent, Waits, Queued, IsInjective, Injective
    <3>. QED
      BY <1>3, <3>1, AppendAbsent DEF QueueEvent
  <2>. QED
    BY <1>3, <2>1 DEF FreshInv, Fresh, QueueEvent, Goto, mainVars, eventVars, Queued, BlockInv,
                      TypeOK
<1>4. ASSUME NEW p \in Posters, PosterStep(p) \/ SpuriousWakeUp(p), ~QueueEvent(p)
      PROVE  FreshInv'
  <2>1. \A q \in Posters : post'[q] = "search" => post[q] = "search"
    BY <1>4 DEF PosterStep, UnlockTable, SetWaitable, MakeWaitInfo, ResetFlag, KeepWaiting,
                FallAsleep, TakeSelf, Return, SpuriousWakeUp, Access, Goto, BlockInv, TypeOK
  <2>2. UNCHANGED <<queue, main, current, processed>>
    BY <1>4 DEF PosterStep, UnlockTable, SetWaitable, MakeWaitInfo, ResetFlag, KeepWaiting,
                FallAsleep, TakeSelf, Return, SpuriousWakeUp, Access, mainVars, eventVars
  <2>. QED
    BY <1>1, <2>1, <2>2
<1>5. CASE TakeEvent
  <2>1. queue \in Seq(Posters) /\ queue # <<>> /\ IsInjective(queue)
    BY <1>5 DEF BlockInv, TypeOK, TakeEvent
  <2>2. \A x : Contains(queue, x) <=> Contains(queue', x) \/ x = current'
    BY <1>5, <2>1, HeadTail DEF TakeEvent
  <2>. QED
    BY <1>5, <2>2 DEF FreshInv, Fresh, TakeEvent, eventVars, Queued
<1>6. CASE Swallow \/ HandlerReturns
  <2>1. /\ processed' = processed \cup {current} /\ main' = "signal"
        /\ UNCHANGED <<queue, current, post>>
        /\ main \in {"process", "handle"}
    BY <1>6 DEF Swallow, HandlerReturns
  <2>2. current \in Posters /\ InMain(current)
    BY <2>1 DEF BlockInv, TypeOK, InMain
  <2>3. ~Queued(current) /\ post[current] # "search"
    BY <2>2 DEF BlockInv, Own, Waits
  <2>. QED
    BY <2>1, <2>3 DEF FreshInv, Fresh, Queued
<1>7. CASE EnterTable
  BY <1>7 DEF FreshInv, Fresh, EnterTable, eventVars, Queued
<1>8. CASE HandlerThrows \/ SignalNobody \/ SignalWaiter \/ PutSelf \/ SetFlag
  BY <1>8 DEF FreshInv, Fresh, HandlerThrows, SignalNobody, SignalWaiter, PutSelf, SetFlag,
              eventVars, mainVars, Queued
<1>9. CASE NotifyOne
  BY <1>9 DEF FreshInv, Fresh, NotifyOne, eventVars, Queued
<1>10. CASE UNCHANGED vars
  BY <1>10 DEF FreshInv, Fresh, vars, mainVars, eventVars, Queued
<1>. QED
  BY <1>2, <1>3, <1>4, <1>5, <1>6, <1>7, <1>8, <1>9, <1>10 DEF Next, MainStep

(* The abstract steps: the call of one poster goes on, or none does.          *)
LEMMA CallMoves ==
  ASSUME NEW p \in Posters, NEW w, CallOf(p)' = w,
         \A q \in Posters \ {p} : CallOf(q)' = CallOf(q)
  PROVE  Calls!Goto(p, w)
BY DEF Calls!Goto

LEMMA CallsStay ==
  ASSUME \A q \in Posters : CallOf(q)' = CallOf(q), queue' = queue, Handling' = Handling
  PROVE  UNCHANGED Calls!vars
BY DEF Calls!vars

(* Nothing abstract happens while the poster prepares to wait, waits and wakes. *)
LEMMA PosterStutters ==
  ASSUME BlockInv, NEW p \in Posters,
         \/ StartSearch(p) \/ UnlockTable(p) \/ SetWaitable(p) \/ MakeWaitInfo(p) \/ ResetFlag(p)
         \/ KeepWaiting(p) \/ FallAsleep(p) \/ SpuriousWakeUp(p)
         \/ undefined' = TRUE /\ UNCHANGED <<post, eventVars, queue, mainVars>>
  PROVE  UNCHANGED Calls!vars
<1>1. UNCHANGED <<queue, main, current>>
  BY DEF StartSearch, UnlockTable, SetWaitable, MakeWaitInfo, ResetFlag, KeepWaiting, FallAsleep,
         SpuriousWakeUp, mainVars
<1>2. Handling' = Handling
  BY <1>1 DEF Handling
<1>3. ASSUME NEW q \in Posters PROVE CallOf(q)' = CallOf(q)
  <2>1. CASE StartSearch(p)
    BY <2>1 DEF StartSearch, Goto, CallOf, BlockInv, TypeOK
  <2>2. ASSUME UNCHANGED <<result, gone, processed>>,
               post[p] \in Waits, \E w \in Waits : Goto(p, w)
        PROVE  CallOf(q)' = CallOf(q)
    BY <2>2 DEF Goto, CallOf, BlockInv, TypeOK, Waits
  <2>3. CASE UNCHANGED <<post, eventVars>>
    BY <2>3 DEF CallOf, eventVars
  <2>4. CASE UnlockTable(p)
    BY <2>2, <2>4 DEF UnlockTable, eventVars, Waits
  <2>5. CASE SetWaitable(p) \/ MakeWaitInfo(p) \/ ResetFlag(p)
    BY <2>2, <2>3, <2>5 DEF SetWaitable, MakeWaitInfo, ResetFlag, Access, Waits
  <2>6. CASE KeepWaiting(p) \/ FallAsleep(p)
    BY <2>2, <2>3, <2>6 DEF KeepWaiting, FallAsleep, Access, eventVars, Waits
  <2>7. CASE SpuriousWakeUp(p)
    BY <2>2, <2>7 DEF SpuriousWakeUp, Waits
  <2>. QED
    BY <2>1, <2>3, <2>4, <2>5, <2>6, <2>7
<1>. QED
  BY <1>1, <1>2, <1>3, CallsStay

LEMMA QueueEventPosts ==
  ASSUME BlockInv, FreshInv, NEW p \in Posters, QueueEvent(p)
  PROVE  Calls!Post(p)
<1>1. /\ post[p] = "search" /\ p \notin gone /\ p \notin result /\ p \notin processed
      /\ post' = [post EXCEPT ![p] = "queued"]
      /\ UNCHANGED <<main, current, result, gone, processed>>
  BY DEF BlockInv, Own, FreshInv, Fresh, QueueEvent, Goto, mainVars, eventVars
<1>2. CallOf(p) = "none" /\ CallOf(p)' = "posted"
  BY <1>1 DEF CallOf, BlockInv, TypeOK
<1>3. \A q \in Posters \ {p} : CallOf(q)' = CallOf(q)
  BY <1>1 DEF CallOf, BlockInv, TypeOK
<1>4. Handling' = Handling
  BY <1>1 DEF Handling
<1>. QED
  BY <1>2, <1>3, <1>4, CallMoves DEF Calls!Post, QueueEvent

LEMMA TakeSelfGivesBack ==
  ASSUME BlockInv, NEW p \in Posters, TakeSelf(p), p \notin gone
  PROVE  Calls!GiveBack(p)
<1>1. /\ p \in self /\ p \in processed /\ p \notin result /\ post[p] = "test"
      /\ post' = [post EXCEPT ![p] = "done"] /\ result' = result \cup {p}
      /\ UNCHANGED <<queue, main, current, gone, processed>>
  BY DEF BlockInv, Own, TakeSelf, IsSignaled, Access, Goto, Made, mainVars
<1>2. CallOf(p) = "processed" /\ CallOf(p)' = "given"
  BY <1>1 DEF CallOf, BlockInv, TypeOK
<1>3. \A q \in Posters \ {p} : CallOf(q)' = CallOf(q)
  BY <1>1 DEF CallOf, BlockInv, TypeOK
<1>4. Handling' = Handling
  BY <1>1 DEF Handling
<1>. QED
  BY <1>1, <1>2, <1>3, <1>4, CallMoves DEF Calls!GiveBack

LEMMA ReturnReturns ==
  ASSUME BlockInv, NEW p \in Posters, Return(p)
  PROVE  Calls!Return(p)
<1>1. /\ p \in result /\ p \notin gone /\ post[p] = "done"
      /\ post' = [post EXCEPT ![p] = "idle"]
      /\ result' = result \ {p} /\ gone' = gone \cup {p}
      /\ UNCHANGED <<queue, main, current, processed>>
  BY DEF BlockInv, Own, Return, Goto, mainVars
<1>2. CallOf(p) = "given" /\ CallOf(p)' = "none"
  BY <1>1 DEF CallOf, BlockInv, TypeOK
<1>3. \A q \in Posters \ {p} : CallOf(q)' = CallOf(q)
  BY <1>1 DEF CallOf, BlockInv, TypeOK
<1>4. Handling' = Handling
  BY <1>1 DEF Handling
<1>. QED
  BY <1>1, <1>2, <1>3, <1>4, CallMoves DEF Calls!Return

LEMMA TakeEventTakes ==
  ASSUME BlockInv, TakeEvent
  PROVE  Calls!Take
<1>1. Handling = Nobody /\ Handling' = Head(queue)
  BY DEF TakeEvent, Handling
<1>2. \A q \in Posters : CallOf(q)' = CallOf(q)
  BY DEF TakeEvent, eventVars, CallOf
<1>. QED
  BY <1>1, <1>2 DEF Calls!Take, TakeEvent

(* The event the main thread works on.                                       *)
LEMMA CurrentWaits ==
  ASSUME BlockInv, main \in {"process", "handle", "signal"}
  PROVE  /\ current \in Posters /\ current # Nobody
         /\ post[current] \in Waits /\ current \notin result \cup gone
<1>1. current \in Posters /\ InMain(current)
  BY DEF BlockInv, TypeOK, InMain
<1>. QED
  BY <1>1, BlockingAssumption DEF BlockInv, Own

LEMMA HandlerReturnsProcesses ==
  ASSUME BlockInv, FreshInv, Swallow \/ HandlerReturns
  PROVE  Calls!Process
<1>1. /\ main \in {"process", "handle"} /\ main' = "signal"
      /\ processed' = processed \cup {current}
      /\ UNCHANGED <<queue, current, post, result, gone>>
  BY DEF Swallow, HandlerReturns
<1>2. /\ current \in Posters /\ current # Nobody
      /\ post[current] \in Waits /\ current \notin result \cup gone
  BY <1>1, CurrentWaits
<1>3. current \notin processed
  BY <1>1, <1>2 DEF FreshInv, Fresh
<1>4. Handling = current /\ Handling' = Nobody
  BY <1>1 DEF Handling
<1>5. CallOf(current) = "posted"
  BY <1>2, <1>3 DEF CallOf, Waits
<1>6. ASSUME NEW q \in Posters
      PROVE  CallOf(q)' = IF q = current THEN "processed" ELSE CallOf(q)
  BY <1>1, <1>2 DEF CallOf, Waits
<1>7. Calls!Goto(current, "processed")
  BY <1>2, <1>6 DEF Calls!Goto
<1>. QED
  BY <1>1, <1>2, <1>4, <1>5, <1>7 DEF Calls!Process

LEMMA ThrowsThrow ==
  ASSUME BlockInv, HandlerThrows
  PROVE  Calls!Throw
<1>1. /\ main = "handle" /\ main' = "idle" /\ gone' = gone \cup {current}
      /\ UNCHANGED <<queue, post, result, processed>>
  BY DEF HandlerThrows
<1>2. current \in Posters /\ current # Nobody /\ post[current] \in Waits
  BY <1>1, CurrentWaits
<1>3. Handling = current /\ Handling' = Nobody
  BY <1>1 DEF Handling
<1>4. ASSUME NEW q \in Posters
      PROVE  CallOf(q)' = IF q = current THEN "lost" ELSE CallOf(q)
  BY <1>1, <1>2 DEF CallOf, Waits
<1>5. Calls!Goto(current, "lost")
  BY <1>2, <1>4 DEF Calls!Goto
<1>. QED
  BY <1>1, <1>2, <1>3, <1>5 DEF Calls!Throw

LEMMA SignalNobodyDrops ==
  ASSUME BlockInv, SignalNobody
  PROVE  Calls!Drop(current) /\ current \in Posters
<1>1. /\ main = "signal" /\ main' = "idle" /\ gone' = gone \cup {current}
      /\ UNCHANGED <<queue, post, result, processed>>
  BY DEF SignalNobody, infoVars
<1>2. /\ current \in Posters /\ current # Nobody
      /\ post[current] \in Waits /\ current \notin result \cup gone
  BY <1>1, CurrentWaits
<1>3. current \in processed
  BY <1>1, <1>2 DEF BlockInv, Own
<1>4. Handling' = Handling
  BY <1>1 DEF Handling
<1>5. CallOf(current) = "processed"
  BY <1>2, <1>3 DEF CallOf, Waits
<1>6. ASSUME NEW q \in Posters
      PROVE  CallOf(q)' = IF q = current THEN "lost" ELSE CallOf(q)
  BY <1>1, <1>2 DEF CallOf, Waits
<1>7. Calls!Goto(current, "lost")
  BY <1>2, <1>6 DEF Calls!Goto
<1>. QED
  BY <1>1, <1>2, <1>4, <1>5, <1>7 DEF Calls!Drop

LEMMA SignalStutters ==
  ASSUME BlockInv, EnterTable \/ SignalWaiter \/ PutSelf \/ SetFlag \/ NotifyOne
  PROVE  UNCHANGED Calls!vars
<1>1. UNCHANGED <<queue, result, gone, processed>>
  BY DEF EnterTable, SignalWaiter, PutSelf, SetFlag, NotifyOne, eventVars
<1>2. Handling' = Handling
  BY DEF EnterTable, SignalWaiter, PutSelf, SetFlag, NotifyOne, Handling
<1>3. ASSUME NEW q \in Posters PROVE CallOf(q)' = CallOf(q)
  <2>1. CASE UNCHANGED post
    BY <1>1, <2>1 DEF CallOf
  <2>2. CASE NotifyOne
    BY <1>1, <2>2 DEF NotifyOne, CallOf
  <2>. QED
    BY <2>1, <2>2 DEF EnterTable, SignalWaiter, PutSelf, SetFlag
<1>. QED
  BY <1>1, <1>2, <1>3, CallsStay

LEMMA StepImplementsCalls ==
  ASSUME BlockInv, FreshInv, [Next]_vars
  PROVE  [Calls!Next]_Calls!vars
<1>1. ASSUME NEW p \in Posters, StartSearch(p) \/ PosterStep(p) \/ SpuriousWakeUp(p)
      PROVE  [Calls!Next]_Calls!vars
  <2>1. CASE TakeSelf(p)
    <3>1. CASE p \in gone
      BY <2>1, <3>1, PosterStutters DEF TakeSelf, Access
    <3>2. CASE p \notin gone
      BY <2>1, <3>2, TakeSelfGivesBack DEF Calls!Next
    <3>. QED
      BY <3>1, <3>2
  <2>2. CASE QueueEvent(p) \/ Return(p)
    BY <2>2, QueueEventPosts, ReturnReturns DEF Calls!Next
  <2>. QED
    BY <1>1, <2>1, <2>2, PosterStutters DEF PosterStep
<1>2. CASE MainStep \/ Swallow \/ HandlerThrows
  BY <1>2, TakeEventTakes, HandlerReturnsProcesses, ThrowsThrow, SignalNobodyDrops, SignalStutters
  DEF MainStep, Calls!Next
<1>3. CASE UNCHANGED vars
  <2>1. Handling' = Handling /\ queue' = queue /\ \A q \in Posters : CallOf(q)' = CallOf(q)
    BY <1>3 DEF vars, mainVars, eventVars, Handling, CallOf
  <2>. QED
    BY <2>1, CallsStay
<1>. QED
  BY <1>1, <1>2, <1>3 DEF Next

(* Dispatching to a blocking binding is a call: for any number of threads,    *)
(* events are processed one at a time in the order in which they were posted, *)
(* and WaitProcessed returns with the event after that and in no other case.  *)
THEOREM CallsReturnProcessed == Spec => ImplementsBlockingCall
<1>1. Init => Calls!Init
  BY DEF Init, Calls!Init, CallOf, Handling
<1>2. Init => FreshInv
  BY DEF Init, FreshInv, Fresh, Queued, Contains
<1>3. Spec => []BlockInv
  BY BlockInit, BlockNext, PTL DEF Spec
<1>4. Spec => []FreshInv
  BY <1>2, <1>3, FreshNext, PTL DEF Spec
<1>. QED
  BY <1>1, <1>3, <1>4, StepImplementsCalls, PTL DEF Spec, ImplementsBlockingCall, Calls!Spec
================================================================================
