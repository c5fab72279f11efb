------------------------------ MODULE EventDispatch -----------------------------
(***************************************************************************)
(* EvtHandler::DoProcessEvent: the way of one event through the filters, the *)
(* handler it is sent to, the handlers chained to that one, and the          *)
(* application, while the handlers it visits change the chains (HandlerStack).*)
(*                                                                         *)
(* ProcessEvent starts a walk at `root'; `cur' is the handler whose turn it  *)
(* is. An event object may be sent again: its private flags stay. The event  *)
(* table of a handler is abstracted to its verdict: handled or not.          *)
(***************************************************************************)
EXTENDS HandlerStack

CONSTANTS App,              \* the application, a handler outside the stacks
          MaxChanges        \* bound: changes of the chains during one handler's turn

ASSUME DispatchAssumption ==
  /\ App \in Handlers \ Bases
  /\ MaxChanges \in Nat

VARIABLES
  at,               \* where DoProcessEvent is
  root, cur,
  locally,          \* ProcessEventFlag::Locally
  idle,             \* the event is IdleEvent::EvtIdle
  wasProcessed,     \* EventPrivateState::ProcessedOnce
  willBeProcessed,  \* EventPrivateState::WillBeProcessedAgain
  verdict,          \* how the last walk ended
  filterCalls,      \* history: calls of FilterEvent for this event object
  appCalls,         \* history: calls of TryApp that asked the application
  resent,           \* history: this event object was sent before
  lost,             \* history: a handler moved itself; what the walk did is forgotten
  path,             \* history: the chain from root when the walk began
  visited,          \* history: the handlers asked since then
  moved,            \* history: the handlers linked or unlinked since then
  changes           \* changes of the chains in the turn of `cur'

eventVars == <<locally, idle, wasProcessed, willBeProcessed, filterCalls, appCalls, resent>>
walkVars == <<path, visited, moved, lost, changes>>
vars == <<stackVars, at, root, cur, eventVars, verdict, walkVars>>

Init ==
  /\ StackInit
  /\ at = "none" /\ root = App /\ cur = App
  /\ locally = FALSE /\ idle = FALSE
  /\ wasProcessed = FALSE /\ willBeProcessed = FALSE
  /\ verdict = "none"
  /\ filterCalls = 0 /\ appCalls = 0 /\ resent = FALSE
  /\ path = <<>> /\ visited = <<>> /\ moved = {} /\ lost = FALSE /\ changes = 0

(* h and the handlers that follow it in its chain.                           *)
ChainFrom(h) ==
  IF \E s \in Stacks : Holds(s, h)
  THEN LET q == items[CHOOSE s \in Stacks : Holds(s, h)]
       IN  SubSeq(q, CHOOSE i \in DOMAIN q : q[i] = h, Len(q))
  ELSE <<h>>

StartWalk(h) ==
  /\ root' = h /\ cur' = h
  /\ path' = ChainFrom(h)
  /\ moved' = {} /\ lost' = FALSE /\ changes' = 0

(* DoProcessEvent of a handler asks the filters unless the event was          *)
(* processed before, and the handler if they let the event pass.             *)
ReachAndFilter(seen) ==                                            \* (variant)
  /\ at' = "filter"
  /\ visited' = seen
Reach(seen) ==
  /\ at' = (IF wasProcessed THEN "here" ELSE "filter")
  /\ visited' = seen

Finish(result) ==
  /\ at' = "none"
  /\ verdict' = result

--------------------------------------------------------------------------------
(* ProcessEvent with a new event or one that was processed before. With      *)
(* Locally the handler itself is asked before any filter.                    *)
ProcessEvent(h) ==
  /\ at = "none" /\ ~misused
  /\ \/ /\ locally' \in BOOLEAN /\ idle' \in BOOLEAN
        /\ wasProcessed' = FALSE /\ willBeProcessed' = FALSE
        /\ filterCalls' = 0 /\ appCalls' = 0 /\ resent' = FALSE
     \/ /\ verdict # "none"
        /\ locally' \in BOOLEAN
        /\ resent' = TRUE
        /\ UNCHANGED <<idle, wasProcessed, willBeProcessed, filterCalls, appCalls>>
  /\ at' = (IF locally' \/ wasProcessed' THEN "here" ELSE "filter")
  /\ visited' = <<h>>
  /\ StartWalk(h)
  /\ verdict' = "none"
  /\ UNCHANGED stackVars

(* FilterEvent, after WasProcessed has marked the event. Ignore ends the turn *)
(* of this handler only, Processed ends the walk.                            *)
FilterEvent ==
  /\ at = "filter"
  /\ wasProcessed' = TRUE
  /\ filterCalls' = filterCalls + 1
  /\ \/ at' = "here" /\ UNCHANGED verdict                           \* Skip
     \/ visited = <<root>> /\ Finish("filtered")                    \* Ignore, Processed
     \/ visited # <<root>> /\ at' = "next" /\ UNCHANGED verdict      \* Ignore
     \/ visited # <<root>> /\ Finish("handled")                     \* Processed
  /\ UNCHANGED <<stackVars, root, cur, locally, idle, willBeProcessed, appCalls, resent,
                 walkVars>>

(* TryBeforeAndHere of cur runs client code, which handles the event or not. *)
HandlerHandles ==
  /\ at = "here"
  /\ Finish("handled")
  /\ changes' = 0
  /\ UNCHANGED <<stackVars, root, cur, eventVars, path, visited, moved, lost>>

HandlerSkips ==
  /\ at = "here"
  /\ at' = "next"
  /\ changes' = 0
  /\ UNCHANGED <<stackVars, root, cur, eventVars, verdict, path, visited, moved, lost>>

(* TryChain reads the next handler when the current one has returned.        *)
NextAsPlanned ==                                                   \* (variant)
  IF \E i \in 1..(Len(path) - 1) : path[i] = cur
  THEN path[1 + CHOOSE i \in 1..(Len(path) - 1) : path[i] = cur] ELSE Null
NewerHandler == prev[cur]                                          \* (variant)
NextHandler == next[cur]

TryChain ==
  /\ at = "next" /\ ~misused
  /\ NextHandler # Null
  /\ cur' = NextHandler
  /\ Reach(IF lost THEN <<>> ELSE Append(visited, NextHandler))
  /\ UNCHANGED <<stackVars, root, eventVars, verdict, path, moved, lost, changes>>

(* Nobody in the chain: TryAfter of root, unless the event stays local.      *)
ChainEnds ==
  /\ at = "next" /\ ~misused
  /\ NextHandler = Null
  /\ \/ locally /\ Finish("unhandled") /\ UNCHANGED cur
     \/ ~locally /\ at' = "after" /\ cur' = root /\ UNCHANGED verdict
  /\ UNCHANGED <<stackVars, root, eventVars, walkVars>>

(* TryAfter calls itself on the next handler, and at the last one asks the    *)
(* application, unless WillBeProcessedAgain, which marks the event, finds it  *)
(* marked, the handler is the application, or the event is EvtIdle.          *)
TryAfterAgain ==                                                   \* (variant)
  /\ at = "after" /\ next[cur] # Null
  /\ UNCHANGED vars
TryAfterNext ==
  /\ at = "after" /\ next[cur] # Null
  /\ cur' = next[cur]
  /\ UNCHANGED <<stackVars, at, root, eventVars, verdict, walkVars>>

PassesToAppAgain == cur # App /\ ~idle                             \* (variant)
PassesToApp == ~willBeProcessed /\ cur # App /\ ~idle

TryApp ==
  /\ at = "after" /\ next[cur] = Null
  /\ PassesToApp
  /\ willBeProcessed' = TRUE
  /\ appCalls' = appCalls + 1
  /\ StartWalk(App)
  /\ Reach(<<App>>)
  /\ UNCHANGED <<stackVars, locally, idle, wasProcessed, filterCalls, resent, verdict>>

NotToApp ==
  /\ at = "after" /\ next[cur] = Null
  /\ ~PassesToApp
  /\ willBeProcessed' = TRUE
  /\ Finish("unhandled")
  /\ UNCHANGED <<stackVars, root, cur, locally, idle, wasProcessed, filterCalls, appCalls,
                 resent, walkVars>>

--------------------------------------------------------------------------------
(* Client code changes the chains: a handler that runs, or between two walks. *)
ChangeOf(h) ==
  \/ \E s \in Stacks : Push(s, h) \/ (h = top[s] /\ Pop(s)) \/ RemoveItem(s, h)
  \/ Unlink(h)

HandlerChanges(h) ==
  /\ at = "here"
  /\ changes < MaxChanges
  /\ ChangeOf(h)
  /\ lost' = (lost \/ h = cur)
  /\ moved' = (IF lost' THEN {} ELSE moved \cup {h})
  /\ path' = (IF lost' THEN <<>> ELSE path)
  /\ changes' = changes + 1
  /\ UNCHANGED <<at, root, cur, eventVars, verdict, visited>>

ChangeBetween(h) ==
  /\ at = "none"
  /\ ChangeOf(h)
  /\ path' = <<>> /\ visited' = <<>> /\ moved' = {} /\ lost' = FALSE /\ changes' = 0
  /\ UNCHANGED <<at, root, cur, eventVars, verdict>>

DispatchStep ==
  \/ FilterEvent \/ HandlerHandles \/ HandlerSkips
  \/ TryChain \/ ChainEnds \/ TryAfterNext \/ TryApp \/ NotToApp

Next ==
  \/ DispatchStep
  \/ \E h \in Handlers : ProcessEvent(h) \/ HandlerChanges(h) \/ ChangeBetween(h)

(* A handler returns, and the walk goes on; nobody is bound to send an event. *)
Spec == Init /\ [][Next]_vars /\ WF_vars(DispatchStep)

--------------------------------------------------------------------------------
(* PROPERTIES                                                                *)

(* The elements of q before its position i.                                  *)
Before(q, i) == {q[j] : j \in 1..(i - 1)}

(* Whatever the handlers push, pop, remove and unlink meanwhile, an event is  *)
(* offered to the handlers of the chain that nobody moved in their order, each *)
(* of them after all that come before it in the chain and no other, and to all *)
(* of them before TryAfter, unless a handler moves itself while it runs        *)
(* (TryChain follows GetNextHandler after each handler).                      *)
StayingAskedInOrder ==
  ~lost /\ ~misused =>
    /\ \A j \in 1..Len(visited) : visited[j] \notin moved =>
         \E i \in 1..Len(path) :
           path[i] = visited[j] /\ Before(path, i) \ moved = Before(visited, j) \ moved
    /\ at = "after" \/ (at = "none" /\ verdict = "unhandled") =>
         \A i \in 1..Len(path) : path[i] \in moved \/ Contains(visited, path[i])

(* A handler that was taken out of the chain before its turn is not asked:    *)
(* the walk stays within the chain of the handler it leaves.                 *)
OnlyChainedAsked ==
  [][TryChain /\ ~lost => \E s \in Stacks : Holds(s, cur) /\ Holds(s, NextHandler)]_vars

(* "we should only do it if we're the first event handler called to avoid     *)
(* calling 'FilterEvent' multiple times" (BeginProcessEvent): the filters see *)
(* an event object once, and before any handler but the one a local event is  *)
(* sent to.                                                                  *)
FiltersAskedFirst ==
  /\ filterCalls <= 1
  /\ at = "here" /\ ~(locally /\ visited = <<root>>) => filterCalls = 1

(* "We only want to pass the window to the application object once even if    *)
(* there are several chained handlers" (TryAfter), and nothing but the idle   *)
(* event ends unhandled without the application having been asked.           *)
AppAskedOnce ==
  /\ appCalls <= 1
  /\ at = "none" /\ verdict = "unhandled" /\ ~locally /\ ~idle /\ ~resent =>
       appCalls = 1 \/ cur = App

(* A walk ends although the handlers it asks push, pop, remove and unlink     *)
(* others, at every turn anew (TryChain, TryAfter). It need not end when      *)
(* handlers move themselves: two that each remove and push themselves again  *)
(* on their own turn are each the next handler of the other.                 *)
WalkEnds == at # "none" ~> (at = "none" \/ misused \/ lost)
================================================================================
