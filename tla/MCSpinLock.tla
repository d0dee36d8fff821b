------------------------------ MODULE MCSpinLock ------------------------------
(***************************************************************************)
(* Model checking of SpinLock: two CPUs and the mutexes that the handler   *)
(* of the UART's interrupt and a trapped guest access both nest.           *)
(***************************************************************************)
EXTENDS HypervisorLocks

MCLock == {"gic_distributor_mmio", "MEMORY_ALLOCATOR", "SERIAL_DEVICE"}
MCOrder == HvOrder \cap (MCLock \X MCLock)
MCRank == [l \in MCLock |-> HvRank[l]]
=============================================================================
