--------------------------- MODULE RunControlMC ---------------------------
(***************************************************************************)
(* Model checking of RunControl: debug threads are interchangeable.        *)
(***************************************************************************)
EXTENDS RunControl, TLC

Symmetry == Permutations(Session)
=============================================================================
