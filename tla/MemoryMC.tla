------------------------------ MODULE MemoryMC ------------------------------
(* The small instance of Memory: three-byte pages, one of the image, two of heap. *)
EXTENDS Memory

MCWord == ReservedWords \cup {"x"}
MCValue == 0 .. 11
MCTyped == {"x", "pid", "hProcess", "an", "lastalloc"}
MCTypedValue == {6}
=============================================================================
