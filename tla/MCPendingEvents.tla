---------------------------- MODULE MCPendingEvents ----------------------------
(* Instances of PendingEvents for TLC: two handlers and up to four events. e1, *)
(* e2 and e3 go to one handler and share a unique ID, but e3 is queued by      *)
(* SearchEventTable; e1 and e3 share a category, so that their order shows; e2 *)
(* is a timer event. e4 goes to the other handler and has no category, so that *)
(* every yield allows it.                                                      *)
EXTENDS PendingEvents

CONSTANTS h1, h2, e1, e2, e3, e4, id1

MCTarget == [e \in Events |-> IF e = e4 THEN h2 ELSE h1]
MCUniqueID == [e \in Events |-> IF e \in {e1, e2, e3} THEN id1 ELSE NoUID]
MCCategory == [e \in Events |-> CASE e \in {e1, e3} -> {"Thread"}
                                  [] e = e2 -> {"Timer"}
                                  [] OTHER -> {}]
MCCategories == {"Thread", "Timer"}
================================================================================
