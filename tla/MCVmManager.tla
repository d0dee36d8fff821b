----------------------------- MODULE MCVmManager -----------------------------
(* Model checking of VmManager with three CPUs.                              *)
EXTENDS VmManager

CONSTANTS c0, c1, c2

MCCpuNodes == <<c0, c1, c2>>
=============================================================================
