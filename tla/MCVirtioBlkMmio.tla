--------------------------- MODULE MCVirtioBlkMmio ---------------------------
(* Model checking of VirtioBlkMmio: a ring of two slots, indices of 2 bits. *)
EXTENDS VirtioBlkMmio
=============================================================================
