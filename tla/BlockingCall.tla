------------------------------ MODULE BlockingCall ------------------------------
(***************************************************************************)
(* What a blocking binding promises to the threads that dispatch an event    *)
(* to it, with no locks, flags or wait information: their events are taken   *)
(* one at a time in the order in which they were posted, and a call returns  *)
(* with its own event only after that was processed. An event may be lost    *)
(* instead, when a handler throws or nobody waits for it yet; then its call  *)
(* never returns. BlockingEvent implements this specification.               *)
(***************************************************************************)
EXTENDS Sequences

CONSTANTS Posters, Nobody

VARIABLES queue,        \* the posted events nobody has taken, the oldest first
          handling,     \* the event the main thread processes, or Nobody
          call          \* where the blocking call of each poster is

vars == <<queue, handling, call>>

Init == queue = <<>> /\ handling = Nobody /\ call = [p \in Posters |-> "none"]

Goto(p, where) == call' = [call EXCEPT ![p] = where]

Post(p) ==
  /\ call[p] = "none"
  /\ queue' = Append(queue, p)
  /\ Goto(p, "posted")
  /\ UNCHANGED handling

Take ==
  /\ handling = Nobody /\ queue # <<>>
  /\ handling' = Head(queue) /\ queue' = Tail(queue)
  /\ UNCHANGED call

(* DoProcessEvent returns.                                                   *)
Process ==
  /\ handling # Nobody /\ call[handling] = "posted"
  /\ handling' = Nobody
  /\ Goto(handling, "processed")
  /\ UNCHANGED queue

(* An exception destroys the event that is processed; one that was processed  *)
(* is destroyed if nobody waits for it yet.                                  *)
Throw ==
  /\ handling # Nobody
  /\ handling' = Nobody
  /\ Goto(handling, "lost")
  /\ UNCHANGED queue

Drop(p) ==
  /\ call[p] = "processed"
  /\ Goto(p, "lost")
  /\ UNCHANGED <<queue, handling>>

(* The call has its event back, and returns.                                 *)
GiveBack(p) ==
  /\ call[p] = "processed"
  /\ Goto(p, "given")
  /\ UNCHANGED <<queue, handling>>

Return(p) ==
  /\ call[p] = "given"
  /\ Goto(p, "none")
  /\ UNCHANGED <<queue, handling>>

Next == \/ Take \/ Process \/ Throw
        \/ \E p \in Posters : Post(p) \/ Drop(p) \/ GiveBack(p) \/ Return(p)

Spec == Init /\ [][Next]_vars
================================================================================
