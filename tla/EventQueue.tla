------------------------------ MODULE EventQueue ------------------------------
(***************************************************************************)
(* What the pending event machinery of EvtHandler and CoreApplication      *)
(* promises to client code, with no thread, lock or handler list in it:    *)
(* every handler has a queue; an event posted with a unique ID takes the   *)
(* place of the last pending event with that ID, if there is one; an event *)
(* moved to a queue while it was processed comes last, whatever its ID; an *)
(* event is delivered once, in posting order among the events a selective  *)
(* yield does not tell apart; a destroyed handler drops its queue; and a   *)
(* pending event of a handler that lives is delivered in the end.          *)
(* PendingEvents implements this specification.                            *)
(***************************************************************************)
EXTENDS Sequences, Naturals

CONSTANTS Handlers,     \* the EvtHandler objects
          Events,       \* the events client code may post
          Target,       \* [Events -> Handlers]: the handler an event is queued on
          UniqueID,     \* [Events -> ID]: its UniversallyUniqueID or NoUID
          NoUID,
          Requeued,     \* the events moved to a queue while they were processed
          Categories,   \* the flags of EventCategory::Everything
          Category,     \* [Events -> SUBSET Categories]: IEvent::GetEventCategory
          MayDiscard    \* whether client code discards the queues of live handlers

VARIABLES queue,        \* [Handlers -> Seq(Events)]
          posted,       \* the events posted so far
          delivered,    \* the events handed to their handler
          alive         \* the handlers not yet destroyed

vars == <<queue, posted, delivered, alive>>

Init == /\ queue = [h \in Handlers |-> <<>>]
        /\ posted = {}
        /\ delivered = {}
        /\ alive = Handlers

Replaces(e, f) ==
  /\ e \notin Requeued
  /\ UniqueID[e] # NoUID
  /\ UniqueID[f] = UniqueID[e]

Post(e) ==
  LET q == queue[Target[e]] IN
  /\ e \notin posted
  /\ Target[e] \in alive
  /\ posted' = posted \cup {e}
  /\ \/ /\ \A i \in 1..Len(q) : ~Replaces(e, q[i])
        /\ queue' = [queue EXCEPT ![Target[e]] = Append(q, e)]
     \/ \E i \in 1..Len(q) :
          /\ Replaces(e, q[i])
          /\ \A j \in (i + 1)..Len(q) : ~Replaces(e, q[j])
          /\ queue' = [queue EXCEPT ![Target[e]] = [q EXCEPT ![i] = e]]
  /\ UNCHANGED <<delivered, alive>>

(* Position i of a queue may be delivered under the mask A: the event is    *)
(* allowed and no allowed event stands before it.                          *)
IsFirstAllowed(q, i, A) == /\ Category[q[i]] \subseteq A
                           /\ \A j \in 1..(i-1) : ~(Category[q[j]] \subseteq A)

Deliver(h) ==
  LET q == queue[h] IN
  \E i \in 1..Len(q) :
    /\ \E A \in SUBSET Categories : IsFirstAllowed(q, i, A)
    /\ queue' = [queue EXCEPT ![h] = SubSeq(q, 1, i-1) \o SubSeq(q, i+1, Len(q))]
    /\ delivered' = delivered \cup {q[i]}
    /\ UNCHANGED <<posted, alive>>

(* A queue is dropped whole, with its handler or on explicit demand.       *)
Drop(h) == /\ queue' = [queue EXCEPT ![h] = <<>>]
           /\ \/ h \in alive /\ alive' = alive \ {h}
              \/ MayDiscard /\ alive' = alive
           /\ UNCHANGED <<posted, delivered>>

Next == \/ \E e \in Events : Post(e)
        \/ \E h \in Handlers : Deliver(h) \/ Drop(h)

Safety == Init /\ [][Next]_vars

Fairness == \A h \in Handlers : WF_vars(Deliver(h))

Spec == Safety /\ Fairness
===============================================================================
