---------------------------- MODULE HypervisorLocks ----------------------------
(***************************************************************************)
(* The mutexes of the hypervisor and how its code nests them: the lock     *)
(* graph that SpinLock is run on.  The last four exist once per VM; one VM *)
(* is enough, as no code holds the mutexes of two VMs at once.             *)
(*                                                                         *)
(* One nesting is left out: for a UART without an interrupt,               *)
(* enable_serial_port_interrupt prints while main holds PL011_DEVICE       *)
(* (main.rs:104, 291), and the boot CPU waits for itself.                  *)
(***************************************************************************)
EXTENDS SpinLock

HvLock ==
    {"CONSOLE", "VIRTIO_BLK", "VM_LIST", "ACTIVE_VM", "MEMORY_ALLOCATOR",
     "SERIAL_DEVICE", "PL011_DEVICE", "pl011_mmio", "virtio_blk_mmio",
     "gic_distributor_mmio", "gic_redistributor_mmio"}

\* print! writes through the locked Serial to the locked device.
SerialOrder == {<<"SERIAL_DEVICE", "PL011_DEVICE">>}

\* allocate_pages and GlobalAlloc::alloc report a failure inside the match on
\* the locked allocator.
AllocatorOrder == {<<"MEMORY_ALLOCATOR", "SERIAL_DEVICE">>}

\* Console commands: print!, switch_active_vm, and launch_cpu's stack.
ConsoleOrder == {"CONSOLE"} \X {"SERIAL_DEVICE", "VM_LIST", "MEMORY_ALLOCATOR"}

\* create_vm's push_back allocates; switch_active_vm stores under the list.
VmListOrder == {"VM_LIST"} \X {"MEMORY_ALLOCATOR", "ACTIVE_VM"}

\* core_main holds VIRTIO_BLK through the whole of create_vm; the emulated disk
\* prints while it holds it.
VirtioBlkOrder == {"VIRTIO_BLK"} \X {"MEMORY_ALLOCATOR", "VM_LIST", "SERIAL_DEVICE"}

\* VirtioBlkMmio::operation, called under the handler's own mutex.
VirtioBlkMmioOrder ==
    {"virtio_blk_mmio"} \X
        {"VM_LIST", "VIRTIO_BLK", "SERIAL_DEVICE", "gic_distributor_mmio"}

\* input_uart locks the UART, then the distributor; a guest's write prints.
Pl011MmioOrder == {"pl011_mmio"} \X {"gic_distributor_mmio", "SERIAL_DEVICE"}

\* trigger_interrupt allocates a list node or prints; inject_interrupt_handler
\* locks both units.
GicMmioOrder ==
    ({"gic_distributor_mmio"} \X
        {"gic_redistributor_mmio", "MEMORY_ALLOCATOR", "SERIAL_DEVICE"})
    \cup ({"gic_redistributor_mmio"} \X {"MEMORY_ALLOCATOR", "SERIAL_DEVICE"})

HvOrder ==
    SerialOrder \cup AllocatorOrder \cup ConsoleOrder \cup VmListOrder
    \cup VirtioBlkOrder \cup VirtioBlkMmioOrder \cup Pl011MmioOrder \cup GicMmioOrder

\* A mutex of a higher rank may be locked while one of a lower rank is held.
HvRank ==
    [l \in HvLock |->
        CASE l \in {"CONSOLE", "virtio_blk_mmio", "pl011_mmio"} -> 0
          [] l = "VIRTIO_BLK" -> 1
          [] l \in {"VM_LIST", "gic_distributor_mmio"} -> 2
          [] l \in {"ACTIVE_VM", "gic_redistributor_mmio"} -> 3
          [] l = "MEMORY_ALLOCATOR" -> 4
          [] l = "SERIAL_DEVICE" -> 5
          [] l = "PL011_DEVICE" -> 6]

(***************************************************************************)
(* The hypervisor's nesting climbs the ranks, which is what SpinLock asks  *)
(* of an order.                                                            *)
(***************************************************************************)
ASSUME HvOrderAssumption ==
    /\ HvOrder \subseteq HvLock \X HvLock
    /\ \A p \in HvOrder : HvRank[p[1]] < HvRank[p[2]]
=============================================================================
