---------------------------- MODULE MCEventDispatch -----------------------------
(* Instances of EventDispatch for TLC.                                       *)
EXTENDS EventDispatch

CONSTANTS b1, b2, h1, h2, s1, s2

MCBase == (s1 :> b1) @@ (s2 :> b2)
================================================================================
