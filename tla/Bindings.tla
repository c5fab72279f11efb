------------------------------- MODULE Bindings -------------------------------
(***************************************************************************)
(* What an event table promises to client code, with no vector, null item,  *)
(* iterator or purge in it: a set of bindings. An event is offered to the   *)
(* bindings of its ID from the newest to the oldest, to each of them that   *)
(* is still bound when its turn comes and to none that is bound later, till *)
(* one handles it; a one-shot binding that did is unbound before the thread *)
(* goes on. While a thread offers an event no other thread binds, unbinds   *)
(* or offers, but its own handlers may do all of it.                        *)
(* EventTable implements this specification as long as no iterator dangles. *)
(***************************************************************************)
EXTENDS Sequences, Integers

CONSTANTS Threads, EventIDs, Executors,
          Slots         \* the bind slots: what Bind returns and Unbind accepts

VARIABLES bound,        \* the bindings, each with the serial number it was given
          binds,        \* the last serial number
          offers        \* the events each thread offers, the innermost last

vars == <<bound, binds, offers>>

Init == bound = {} /\ binds = 0 /\ offers = [t \in Threads |-> <<>>]

Innermost(t) == offers[t][Len(offers[t])]
At(t, place) == offers[t] # <<>> /\ Innermost(t).at = place
Offering(t) == \E i \in 1..Len(offers[t]) : offers[t][i].at # "after"

(* No other thread offers an event; client code of t runs.                   *)
Free(t) == \A u \in Threads \ {t} : ~Offering(u)
InClient(t) == offers[t] = <<>> \/ At(t, "execute")

(* A new binding has a slot that no binding has.                             *)
Bind(id, executor, flag, slot) ==
  /\ \A b \in bound : b.slot # slot
  /\ binds' = binds + 1
  /\ bound' = bound \cup {[id |-> id, executor |-> executor, flag |-> flag,
                           slot |-> slot, serial |-> binds + 1]}
  /\ UNCHANGED offers

Unbind(B) ==
  /\ bound' = bound \ B
  /\ UNCHANGED <<binds, offers>>

ProcessEvent(t, id) ==
  /\ offers' = [offers EXCEPT ![t] =
       Append(@, [id |-> id, at |-> "search", limit |-> binds + 1, spent |-> {}])]
  /\ UNCHANGED <<bound, binds>>

--------------------------------------------------------------------------------
(* The offer of an event. The limit is the serial number of the binding it    *)
(* was offered to last.                                                      *)

SetInnermost(t, offer) == offers' = [offers EXCEPT ![t][Len(offers[t])] = offer]

Candidates(t) == {b \in bound : b.id = Innermost(t).id /\ b.serial < Innermost(t).limit}
Asked(t) == {b \in bound : b.serial = Innermost(t).limit}

Offer(t) ==
  /\ At(t, "search")
  /\ \E b \in Candidates(t) :
       /\ \A c \in Candidates(t) : c.serial <= b.serial
       /\ SetInnermost(t, [Innermost(t) EXCEPT !.at = "execute", !.limit = b.serial])
  /\ UNCHANGED <<bound, binds>>

Skip(t) ==
  /\ At(t, "execute")
  /\ SetInnermost(t, [Innermost(t) EXCEPT !.at = "search"])
  /\ UNCHANGED <<bound, binds>>

(* The binding that handles the event may have been unbound by its handler.   *)
Handle(t) ==
  /\ At(t, "execute")
  /\ \A b \in Asked(t) : b.flag # "alwaysSkip"
  /\ SetInnermost(t, [Innermost(t) EXCEPT !.at = "after",
       !.spent = {b.slot : b \in {a \in Asked(t) : a.flag = "oneShot"}}])
  /\ UNCHANGED <<bound, binds>>

GiveUp(t) ==
  /\ At(t, "search")
  /\ Candidates(t) = {}
  /\ SetInnermost(t, [Innermost(t) EXCEPT !.at = "after"])
  /\ UNCHANGED <<bound, binds>>

(* The one-shot binding is unbound by its slot; in between another thread may *)
(* have unbound it and bound another with that slot.                         *)
Return(t) ==
  /\ At(t, "after")
  /\ Innermost(t).spent = {} \/ Free(t)
  /\ bound' = {b \in bound : b.slot \notin Innermost(t).spent}
  /\ offers' = [offers EXCEPT ![t] = SubSeq(@, 1, Len(@) - 1)]
  /\ UNCHANGED binds

--------------------------------------------------------------------------------

ClientStep(t) ==
  /\ InClient(t) /\ Free(t)
  /\ \/ \E id \in EventIDs, executor \in Executors :
          \/ \E flag \in {"none", "oneShot", "alwaysSkip"}, slot \in Slots :
               Bind(id, executor, flag, slot)
          \/ Unbind({b \in bound : b.id = id /\ b.executor = executor})
     \/ \E id \in EventIDs : Unbind({b \in bound : b.id = id}) \/ ProcessEvent(t, id)
     \/ \E slot \in Slots : Unbind({b \in bound : b.slot = slot})
     \/ Unbind(bound)

Next == \E t \in Threads :
          ClientStep(t) \/ Offer(t) \/ Skip(t) \/ Handle(t) \/ GiveUp(t) \/ Return(t)

Spec == Init /\ [][Next]_vars
================================================================================
