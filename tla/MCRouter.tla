------------------------------ MODULE MCRouter ------------------------------
(***************************************************************************)
(* Instances of Router for TLC: two goroutines, the first of which routes  *)
(* two messages one after the other.                                       *)
(***************************************************************************)
EXTENDS Router, TLC

CONSTANTS m1, m2, m3, g1, g2

\* Three messages, the last of higher priority.
MCFrom == (m1 :> g1 @@ m2 :> g1 @@ m3 :> g2)
MCPriority == (m1 :> 1 @@ m2 :> 1 @@ m3 :> 2)

\* Two messages of one goroutine, and of two.
MCFromOne == (m1 :> g1 @@ m2 :> g1)
MCFromTwo == (m1 :> g1 @@ m2 :> g2)
MCPriorityTwo == (m1 :> 1 @@ m2 :> 1)
=============================================================================
