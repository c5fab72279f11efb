------------------------------ MODULE EventTable ------------------------------
(***************************************************************************)
(* The dynamic event table of one EvtHandler: binding, unbinding and the    *)
(* search that dispatches an event, from any number of threads and nested   *)
(* (a handler binds, unbinds and processes events while the search that     *)
(* called it is under way).                                                 *)
(*                                                                         *)
(* m_EventTableLock is a recursive, exclusive lock: the search holds it     *)
(* while handlers run and releases it before it purges the table. Only      *)
(* direct bindings are modelled; queued ones are PendingEvents.             *)
(*                                                                         *)
(* The searches of the thread that holds the lock keep a reverse iterator.  *)
(* When the vector below them is erased from or reallocated, what they do   *)
(* next is undefined: "dangling" is set and nothing more is said.           *)
(*                                                                         *)
(* What client code may rely on is the module Bindings, which this one      *)
(* implements.                                                              *)
(***************************************************************************)
EXTENDS Sequences, FiniteSets, Integers

CONSTANTS Threads,      \* the threads that use the handler
          EventIDs,     \* the IDs of events, IEvent::EvtAny not among them
          Executors,    \* the executors client code binds
          Nobody,       \* the ID and the executor of a null item
          MaxBinds,     \* bound: bindings ever made
          MaxSearches,  \* bound: searches ever started
          MaxDepth      \* bound: nested searches of one thread

ASSUME TableAssumption ==
  /\ Nobody \notin EventIDs \cup Executors
  /\ MaxBinds \in Nat /\ MaxSearches \in Nat /\ MaxDepth \in Nat

VARIABLES
  table,      \* m_EventTable
  bindSlot,   \* m_EventBindSlot
  searches,   \* the searches of each thread, the innermost last
  dangling,   \* the iterator of a search was invalidated
  binds,      \* bindings made so far: the last serial number
  started,    \* searches started so far
  handled     \* the serial numbers of the bindings that handled an event, by thread

vars == <<table, bindSlot, searches, dangling, binds, started, handled>>

Items == [id : EventIDs, executor : Executors, flag : {"none", "oneShot", "alwaysSkip"},
          slot : Nat \ {0}, serial : 1..MaxBinds]
NullItem == [id |-> Nobody, executor |-> Nobody, flag |-> "none", slot |-> 0, serial |-> 0]
IsNull(item) == item = NullItem

Init ==
  /\ table = <<>>
  /\ bindSlot = 0
  /\ searches = [t \in Threads |-> <<>>]
  /\ dangling = FALSE
  /\ binds = 0 /\ started = 0
  /\ handled = [t \in Threads |-> {}]

--------------------------------------------------------------------------------
(* Who may do what.                                                          *)

HoldsLock(t) == \E i \in 1..Len(searches[t]) : searches[t][i].at \in {"search", "execute"}
IgnoreLock(t) == TRUE                                              \* (variant)
MayLock(t) == \A u \in Threads \ {t} : ~HoldsLock(u)

Depth(t) == Len(searches[t])
Top(t) == searches[t][Depth(t)]

(* Client code runs outside of any search and in the handler of the innermost; *)
(* what follows a dangling iterator is undefined.                            *)
InClient(t) == ~dangling /\ (Depth(t) > 0 => Top(t).at = "execute")
In(t, where) == ~dangling /\ Depth(t) > 0 /\ Top(t).at = where

Live == {i \in 1..Len(table) : ~IsNull(table[i])}
LastOf(S) == CHOOSE i \in S : \A j \in S : j <= i

--------------------------------------------------------------------------------
(* Binding and unbinding.                                                    *)

Same(item, id, executor) == item.id = id /\ item.executor = executor

(* DoBind; emplace_back may reallocate the vector.                           *)
Bind(t, id, executor, flag, unique) ==
  /\ InClient(t) /\ MayLock(t)
  /\ binds < MaxBinds
  /\ unique => \A i \in Live : ~Same(table[i], id, executor)
  /\ binds' = binds + 1
  /\ bindSlot' = bindSlot + 1
  /\ table' = Append(table, [id |-> id, executor |-> executor, flag |-> flag,
                             slot |-> bindSlot + 1, serial |-> binds + 1])
  /\ \E reallocated \in BOOLEAN : dangling' = (reallocated /\ Depth(t) > 0)
  /\ UNCHANGED <<searches, started, handled>>

(* FreeBindSlot for each unbound item, the newest first: the counter goes down *)
(* as long as the slot freed is the last one used.                           *)
FreeAnySlot(last, freed) == last - Cardinality(freed)              \* (variant)
FreeBindSlot(last, freed) == CHOOSE n \in 0..last : (n + 1)..last \subseteq freed /\ n \notin freed

SlotsOf(S) == {table[i].slot : i \in S}
Nulled(S) == [i \in 1..Len(table) |-> IF i \in S THEN NullItem ELSE table[i]]

(* DoUnbind by ID and executor; the null executor stands for any, the ID      *)
(* EvtAny for every item. The entries stay in the table as null items.       *)
UnbindItems(t, items) ==
  /\ InClient(t) /\ MayLock(t)
  /\ items # {}
  /\ table' = Nulled(items)
  /\ bindSlot' = IF Cardinality(items) = Len(table) THEN 0
                 ELSE FreeBindSlot(bindSlot, SlotsOf(items))
  /\ UNCHANGED <<searches, dangling, binds, started, handled>>

Unbind(t, id, executor) == UnbindItems(t, {i \in Live : Same(table[i], id, executor)})
UnbindID(t, id) == UnbindItems(t, {i \in Live : table[i].id = id})
UnbindAll(t) == UnbindItems(t, 1..Len(table))

(* DoUnbind by slot: the newest item with that slot.                         *)
HaveSlot(slot) == {i \in Live : table[i].slot = slot}
UnbindSlot(t, slot) ==
  /\ InClient(t) /\ MayLock(t)
  /\ HaveSlot(slot) # {}
  /\ table' = Nulled({LastOf(HaveSlot(slot))})
  /\ bindSlot' = FreeBindSlot(bindSlot, {slot})
  /\ UNCHANGED <<searches, dangling, binds, started, handled>>

--------------------------------------------------------------------------------
(* SearchEventTable.                                                         *)

SetTop(t, s) == searches' = [searches EXCEPT ![t][Depth(t)] = s]

ProcessEvent(t, id) ==
  /\ InClient(t) /\ MayLock(t)
  /\ table # <<>>
  /\ started < MaxSearches /\ Depth(t) < MaxDepth
  /\ started' = started + 1
  /\ searches' = [searches EXCEPT ![t] =
       Append(@, [id |-> id, at |-> "search", index |-> Len(table) + 1, size |-> Len(table),
                  nulls |-> 0, slot |-> 0, limit |-> binds + 1])]
  /\ UNCHANGED <<table, bindSlot, dangling, binds, handled>>

(* The items of this ID the iterator has not passed.                         *)
FromTheEnd(t) == {i \in Live : table[i].id = Top(t).id}             \* (variant)
Remaining(t) == {i \in Live : i < Top(t).index /\ table[i].id = Top(t).id}
NullsBetween(from, to) == Cardinality({i \in from..to : i \notin Live})

ExecuteEventHandler(t) ==
  /\ In(t, "search")
  /\ Remaining(t) # {}
  /\ LET i == LastOf(Remaining(t)) IN
     SetTop(t, [Top(t) EXCEPT !.at = "execute", !.index = i, !.limit = table[i].serial,
                              !.nulls = @ + NullsBetween(i + 1, Top(t).index - 1)])
  /\ UNCHANGED <<table, bindSlot, dangling, binds, started, handled>>

(* The handler skips the event, or its item is always skipped: go on. The item *)
(* is read again here, after the handler may have unbound it.                *)
HandlerSkips(t) ==
  /\ In(t, "execute")
  /\ SetTop(t, [Top(t) EXCEPT !.at = "search"])
  /\ UNCHANGED <<table, bindSlot, dangling, binds, started, handled>>

NeverOneShot(item) == 0                                             \* (variant)
OneShotSlot(item) == IF item.flag = "oneShot" THEN item.slot ELSE 0
HandlerHandles(t) ==
  LET item == table[Top(t).index] IN
  /\ In(t, "execute")
  /\ item.flag # "alwaysSkip"
  /\ SetTop(t, [Top(t) EXCEPT !.at = "after", !.slot = OneShotSlot(item)])
  /\ handled' = [handled EXCEPT ![t] = @ \cup {Top(t).limit}]
  /\ UNCHANGED <<table, bindSlot, dangling, binds, started>>

NobodyHandles(t) ==
  /\ In(t, "search")
  /\ Remaining(t) = {}
  /\ SetTop(t, [Top(t) EXCEPT !.at = "after",
                              !.nulls = @ + NullsBetween(1, Top(t).index - 1)])
  /\ UNCHANGED <<table, bindSlot, dangling, binds, started, handled>>

Pop(t) == searches' = [searches EXCEPT ![t] = SubSeq(@, 1, Depth(t) - 1)]

(* The search ends without touching the table, or unbinds the one-shot item   *)
(* by its slot and purges the null items, under the lock taken anew.         *)
LeaveTable(t) ==
  /\ In(t, "after")
  /\ Top(t).nulls = 0 /\ Top(t).slot = 0
  /\ Pop(t)
  /\ UNCHANGED <<table, bindSlot, dangling, binds, started, handled>>

OneShotItem(t) == IF HaveSlot(Top(t).slot) = {} THEN {} ELSE {LastOf(HaveSlot(Top(t).slot))}
NullCount(t) == Top(t).nulls + Cardinality(OneShotItem(t))
Kept(t) == Live \ OneShotItem(t)

(* RemoveEachIf: what is kept moves down, in its order.                       *)
Ascending(S) == {f \in [1..Cardinality(S) -> S] :
                   /\ \A i, j \in 1..Cardinality(S) : i < j => f[i] < f[j]
                   /\ \A i \in S : \E j \in 1..Cardinality(S) : f[j] = i}
RemoveNulls(t) == \E f \in Ascending(Kept(t)) :
                    table' = [i \in 1..Cardinality(Kept(t)) |-> table[f[i]]]

Purge(t) ==
  /\ In(t, "after")
  /\ Top(t).nulls # 0 \/ Top(t).slot # 0
  /\ MayLock(t)
  /\ bindSlot' = FreeBindSlot(bindSlot, SlotsOf(OneShotItem(t)))
  /\ IF NullCount(t) = 0 THEN UNCHANGED table ELSE RemoveNulls(t)
  /\ \E reallocated \in {FALSE, Top(t).size \div 2 >= NullCount(t)} :
       dangling' = \E k \in 1..(Depth(t) - 1) :
                     /\ NullCount(t) # 0
                     /\ reallocated \/ \E i \in (1..Len(table)) \ Kept(t) : i <= searches[t][k].index
  /\ Pop(t)
  /\ UNCHANGED <<binds, started, handled>>

--------------------------------------------------------------------------------

SearchStep(t) == \/ ExecuteEventHandler(t) \/ HandlerSkips(t) \/ HandlerHandles(t)
                 \/ NobodyHandles(t) \/ LeaveTable(t) \/ Purge(t)

Next == \E t \in Threads :
          \/ \E id \in EventIDs, executor \in Executors :
               \/ \E flag \in {"none", "oneShot", "alwaysSkip"}, unique \in BOOLEAN :
                    Bind(t, id, executor, flag, unique)
               \/ Unbind(t, id, executor)
          \/ \E id \in EventIDs : UnbindID(t, id) \/ ProcessEvent(t, id)
          \/ UnbindAll(t)
          \/ \E slot \in 1..MaxBinds : UnbindSlot(t, slot)
          \/ SearchStep(t)

Spec == Init /\ [][Next]_vars

--------------------------------------------------------------------------------
(* PROPERTIES                                                                *)

(* The types of the variables; the lock is held by one thread at a time, and   *)
(* only the innermost search of a thread is not in a handler.                *)
TypeOK ==
  /\ table \in Seq(Items \cup {NullItem})
  /\ bindSlot \in 0..MaxBinds
  /\ dangling \in BOOLEAN
  /\ binds \in 0..MaxBinds /\ started \in 0..MaxSearches
  /\ handled \in [Threads -> SUBSET (1..MaxBinds)]
  /\ searches \in [Threads -> Seq([id : EventIDs, at : {"search", "execute", "after"},
                                   index : Nat \ {0}, size : Nat, nulls : Nat, slot : Nat,
                                   limit : 1..(MaxBinds + 1)])]
  /\ \A t \in Threads : \A k \in 1..(Depth(t) - 1) : searches[t][k].at = "execute"
  /\ \A t, u \in Threads : HoldsLock(t) /\ HoldsLock(u) => t = u

(* The slots of the bound items ascend along the table and none is above the  *)
(* counter, although slots are reused: a slot never names two items.         *)
SlotsAscend ==
  /\ \A i, j \in Live : i < j => table[i].slot < table[j].slot
  /\ \A i \in Live : table[i].slot \in 1..bindSlot

(* One search calls the handlers from the newest binding to the oldest, each   *)
(* once, and none that was bound after it started, whatever the handlers it    *)
(* calls bind, unbind and dispatch meanwhile.                                *)
NewestFirst ==
  [][\A t \in Threads : ExecuteEventHandler(t) =>
       table[LastOf(Remaining(t))].serial < Top(t).limit]_vars

(* A one-shot item handles at most one event of each thread. (A second thread  *)
(* may get in before the first one has unbound it.)                          *)
OneShotOncePerThread ==
  [][\A t \in Threads : HandlerHandles(t) /\ table[Top(t).index].flag = "oneShot" =>
       Top(t).limit \notin handled[t]]_vars

(* "We can't delete the entry from the vector if we're currently iterating     *)
(* over it" (DoUnbind): entries are erased only when no search iterates.      *)
NoEraseWhileIterating ==
  [][Len(table') < Len(table) => \A t \in Threads : ~HoldsLock(t)']_vars

(* Whatever is nulled, purged and reallocated under a search, client code sees *)
(* a set of bindings whose events are offered as Bindings says (DoBind,       *)
(* DoUnbind and SearchEventTable).                                           *)
BoundItems == {table[i] : i \in Live}
OfferOf(s) == [id |-> s.id, at |-> s.at, limit |-> s.limit,
               spent |-> IF s.slot = 0 THEN {} ELSE {s.slot}]
Offers == [t \in Threads |-> [k \in 1..Depth(t) |-> OfferOf(searches[t][k])]]
Abstract == INSTANCE Bindings WITH bound <- BoundItems, offers <- Offers, Slots <- 1..MaxBinds
ImplementsBindings == Abstract!Spec
================================================================================
