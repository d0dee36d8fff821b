-------------------------------- MODULE MCVgic --------------------------------
(***************************************************************************)
(* Model checking of Vgic.  Each configuration chooses how many CPUs and   *)
(* INTIDs there are, what their guests do, and whether they have booted.   *)
(***************************************************************************)
EXTENDS Vgic

CONSTANTS c1, c2, nowhere, wide, pl011, blk, timer

\* A guest that sets its GIC up and reprograms it at will.
SetupOps == [c \in CPU |-> GuestOp \ {"IROUTER"}]

\* The CPU that takes the host UART's interrupt runs a guest with a timer; the
\* other's guest reroutes its interrupts, also to where there is no CPU.
RoutingOps == [c \in CPU |-> IF c = UartCPU THEN {"TIMER"} ELSE {"IROUTER"}]

\* Guests that use the timer and the disk.
DeviceOps == [c \in CPU |-> {"QUEUE_NOTIFY", "TIMER"}]
=============================================================================
