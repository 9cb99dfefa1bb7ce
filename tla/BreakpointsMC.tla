--------------------------- MODULE BreakpointsMC ---------------------------
(***************************************************************************)
(* Model checking of Breakpoints: memory regions for the small instances.  *)
(***************************************************************************)
EXTENDS Breakpoints

\* Every address of a memory breakpoint is the base of its region.
AtBase == [addr \in MemAddr |-> addr]
=============================================================================
