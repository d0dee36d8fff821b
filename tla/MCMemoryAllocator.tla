-------------------------- MODULE MCMemoryAllocator --------------------------
(***************************************************************************)
(* Model checking of MemoryAllocator: 16 bytes of RAM, of which two are    *)
(* reserved, and pages of 4 bytes.                                         *)
(***************************************************************************)
EXTENDS MemoryAllocator

MCReserved == <<[start |-> 10, size |-> 2]>>
=============================================================================
