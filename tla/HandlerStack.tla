------------------------------ MODULE HandlerStack ------------------------------
(***************************************************************************)
(* EvtHandlerStack and the links of EvtHandler it works on: a stack keeps   *)
(* its base and its top, and every handler a pointer to the next (older) and *)
(* the previous (newer) handler of the chain it is in.                      *)
(*                                                                         *)
(* items[s] is history: the handlers of stack s from the top to the base,   *)
(* as its calls promise them. Three calls the code does not refuse tear a    *)
(* chain apart: pushing a base on which nothing is pushed, since it counts   *)
(* as unlinked, and unlinking a top or a base other than with Pop. They set  *)
(* `misused', and a chain made wrong is not followed further.               *)
(***************************************************************************)
EXTENDS SequencesExt

CONSTANTS Handlers, Stacks,
          Null,             \* the null pointer
          Base              \* [Stacks -> Handlers]: m_Base, set by the constructor

ASSUME StackAssumption ==
  /\ Null \notin Handlers
  /\ Base \in [Stacks -> Handlers]
  /\ \A r, s \in Stacks : Base[r] = Base[s] => r = s

VARIABLES next, prev,       \* m_NextHandler and m_PrevHandler of each handler
          top,              \* m_Top of each stack
          items, misused    \* history

stackVars == <<next, prev, top, items, misused>>

Bases == {Base[s] : s \in Stacks}

StackInit ==
  /\ next = [h \in Handlers |-> Null]
  /\ prev = [h \in Handlers |-> Null]
  /\ top = Base
  /\ items = [s \in Stacks |-> <<Base[s]>>]
  /\ misused = FALSE

IsUnlinked(h) == prev[h] = Null /\ next[h] = Null

(* Is h one of the items EnumItems goes through?                             *)
Holds(s, h) == Contains(items[s], h)

--------------------------------------------------------------------------------

Push(s, h) ==
  /\ ~misused
  /\ IsUnlinked(h)
  /\ next' = [next EXCEPT ![h] = top[s]]
  /\ prev' = [prev EXCEPT ![top[s]] = h]
  /\ top' = [top EXCEPT ![s] = h]
  /\ items' = [items EXCEPT ![s] = <<h>> \o @]
  /\ misused' = (h \in Bases)

PopBase(s) ==                                                      \* (variant)
  LET t == top[s] IN
  /\ ~misused
  /\ prev[t] = Null
  /\ prev' = [h \in Handlers |-> IF h = next[t] THEN Null ELSE prev[h]]
  /\ next' = [next EXCEPT ![t] = Null]
  /\ top' = [top EXCEPT ![s] = next[t]]
  /\ items' = [items EXCEPT ![s] = Tail(@)]
  /\ UNCHANGED misused
Pop(s) ==
  LET t == top[s] IN
  /\ ~misused
  /\ t # Base[s] /\ prev[t] = Null
  /\ next[t] # Null
  /\ prev' = [prev EXCEPT ![next[t]] = Null]
  /\ next' = [next EXCEPT ![t] = Null]
  /\ top' = [top EXCEPT ![s] = next[t]]
  /\ items' = [items EXCEPT ![s] = Tail(@)]
  /\ UNCHANGED misused

(* EvtHandler::Unlink, which no stack learns of.                             *)
UnlinkForgetsPrev(h) ==                                            \* (variant)
  /\ ~misused
  /\ ~IsUnlinked(h)
  /\ next' = [x \in Handlers |-> IF x = h THEN Null
                                 ELSE IF x = prev[h] THEN next[h] ELSE next[x]]
  /\ prev' = [prev EXCEPT ![h] = Null]
  /\ items' = [s \in Stacks |-> RemoveFirst(items[s], h)]
  /\ misused' = (\E s \in Stacks : h = top[s] \/ h = Base[s])
  /\ UNCHANGED top
Unlink(h) ==
  /\ ~misused
  /\ ~IsUnlinked(h)
  /\ next' = [x \in Handlers |-> IF x = h THEN Null
                                 ELSE IF x = prev[h] THEN next[h] ELSE next[x]]
  /\ prev' = [x \in Handlers |-> IF x = h THEN Null
                                 ELSE IF x = next[h] THEN prev[h] ELSE prev[x]]
  /\ items' = [s \in Stacks |-> RemoveFirst(items[s], h)]
  /\ misused' = (\E s \in Stacks : h = top[s] \/ h = Base[s])
  /\ UNCHANGED top

(* The top is popped; another item of this stack, found from its top, is     *)
(* unlinked; nothing happens to any other handler.                           *)
RemoveItem(s, h) ==
  \/ h = top[s] /\ Pop(s)
  \/ h # top[s] /\ Holds(s, h) /\ Unlink(h)

StackNext ==
  \/ \E s \in Stacks : Pop(s) \/ \E h \in Handlers : Push(s, h) \/ RemoveItem(s, h)
  \/ \E h \in Handlers : Unlink(h)

StackSpec == StackInit /\ [][StackNext]_stackVars

--------------------------------------------------------------------------------
(* PROPERTIES                                                                *)

StackTypeOK ==
  /\ next \in [Handlers -> Handlers \cup {Null}]
  /\ prev \in [Handlers -> Handlers \cup {Null}]
  /\ top \in [Stacks -> Handlers]
  /\ items \in [Stacks -> Seq(Handlers)]
  /\ misused \in BOOLEAN

(* The items of a stack from its top to its base.                            *)
Ends(s) ==
  /\ items[s] # <<>>
  /\ items[s][1] = top[s]
  /\ items[s][Len(items[s])] = Base[s]

(* Both pointers of each item name its neighbours.                           *)
Linked(s) ==
  /\ prev[items[s][1]] = Null /\ next[items[s][Len(items[s])]] = Null
  /\ \A i \in 1..(Len(items[s]) - 1) :
       /\ next[items[s][i]] = items[s][i + 1]
       /\ prev[items[s][i + 1]] = items[s][i]

(* No handler is in two places, and one in no stack is unlinked.             *)
Disjoint ==
  /\ \A s \in Stacks : IsInjective(items[s])
  /\ \A r, s \in Stacks : \A h \in Handlers : Holds(r, h) /\ Holds(s, h) => r = s
  /\ \A h \in Handlers : (\A s \in Stacks : ~Holds(s, h)) => IsUnlinked(h)

(* Whatever is pushed, popped, removed and unlinked in the middle of a chain, *)
(* in any order and on several stacks, the pointers are the chains the calls  *)
(* promise (Push, Pop and Remove of EvtHandlerStack, EvtHandler::Unlink).    *)
ChainsAreItems ==
  ~misused => Disjoint /\ \A s \in Stacks : Ends(s) /\ Linked(s)
================================================================================
