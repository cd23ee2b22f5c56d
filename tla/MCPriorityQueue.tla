-------------------------- MODULE MCPriorityQueue --------------------------
(***************************************************************************)
(* PriorityQueue on small instances.                                       *)
(***************************************************************************)
EXTENDS PriorityQueue

\* LowPriority and HighPriority of pkg/controller/controller.go.
MCPriorities == {-100, 100}

=============================================================================
