------------------------------ MODULE VmManager ------------------------------
(***************************************************************************)
(* How VMs come to life: the boot CPU's main, the console (console.rs) and *)
(* launch_cpu on the boot CPU, core_main and create_vm on the CPUs that it *)
(* starts, the list of VMs, the active VM (vm.rs) and the firmware's       *)
(* CPU_ON (psci.rs).  The host UART's interrupt is routed to the boot CPU, *)
(* so handle_input runs there alone; the other CPUs run at the same time.  *)
(*                                                                         *)
(* A console line is its length, and the command it spells is chosen when  *)
(* it is executed.  Loading the kernel and setting up the CPU's registers  *)
(* have no effect on other CPUs and are left out.                          *)
(***************************************************************************)
EXTENDS Naturals, Sequences, FiniteSets

CONSTANTS
    CPU,
    BootCPU,
    CpuNodes,       \* the cpu nodes of the device tree, in order
    BUFFER_SIZE,    \* of the console's line
    None

ASSUME CpuAssumption ==
    /\ BootCPU \in CPU
    /\ CpuNodes \in Seq(CPU)
    /\ None \notin Nat
ASSUME BufferAssumption == BUFFER_SIZE \in Nat \ {0}

VARIABLES
    phase,              \* where each CPU is
    vm_id,              \* create_vm's vm_id on each CPU
    tpidr,              \* TPIDR_EL2 of each CPU
    NEXT_VM_ID,
    VM_LIST,
    ACTIVE_VM,
    VIRTIO_BLK,         \* the CPU that holds the mutex, or None
    stacks,             \* how many stacks launch_cpu has allocated and not freed
    node,               \* launch_cpu's position in CpuNodes
    IS_CONSOLE_ACTIVE,
    buffer_pointer,
    ignore_lf

console == <<IS_CONSOLE_ACTIVE, buffer_pointer, ignore_lf>>
creation == <<vm_id, tpidr, NEXT_VM_ID, VM_LIST>>
vars == <<phase, creation, ACTIVE_VM, VIRTIO_BLK, stacks, node, console>>

(***************************************************************************)
(* A CPU is "off"; or in core_main before it has VIRTIO_BLK ("entry"); or  *)
(* in create_vm; or runs its guest, is trapped in the emulated disk, where *)
(* each data descriptor waits for VIRTIO_BLK ("disk") and holds it         *)
(* ("transfer"), is in handle_input ("input") or in launch_cpu ("launch"); *)
(* or it has panicked and spins for ever.                                  *)
(***************************************************************************)
Creating == {"create", "list", "activate", "tpidr"}
Phase ==
    {"off", "entry", "guest", "disk", "transfer", "input", "launch", "panic"} \cup Creating
Ids == 0..Cardinality(CPU)

\* The boot CPU is in main's create_vm, on a disk driver of its own.
Init ==
    /\ phase = [c \in CPU |-> IF c = BootCPU THEN "create" ELSE "off"]
    /\ vm_id = [c \in CPU |-> None] /\ tpidr = [c \in CPU |-> None]
    /\ NEXT_VM_ID = 0 /\ VM_LIST = {} /\ ACTIVE_VM = None
    /\ VIRTIO_BLK = None
    /\ stacks = 0 /\ node = 1
    /\ IS_CONSOLE_ACTIVE = FALSE /\ buffer_pointer = 0 /\ ignore_lf = FALSE

Goto(c, p) == phase' = [phase EXCEPT ![c] = p]

-----------------------------------------------------------------------------
(* core_main and create_vm *)

\* core_main locks VIRTIO_BLK for the whole of create_vm.
core_main(c) ==
    /\ phase[c] = "entry" /\ VIRTIO_BLK = None
    /\ VIRTIO_BLK' = c
    /\ Goto(c, "create")
    /\ UNCHANGED <<creation, ACTIVE_VM, stacks, node, console>>

CreateVm(c) ==
    /\ phase[c] = "create"
    /\ vm_id' = [vm_id EXCEPT ![c] = NEXT_VM_ID]
    /\ NEXT_VM_ID' = NEXT_VM_ID + 1
    /\ Goto(c, "list")
    /\ UNCHANGED <<tpidr, VM_LIST, ACTIVE_VM, VIRTIO_BLK, stacks, node, console>>

\* create_vm panics: there is no memory for the VM, no DISKn or kernel file, or
\* one that cannot be read.  The CPU keeps VIRTIO_BLK.
CreateFails(c) ==
    /\ phase[c] \in {"create", "list"}
    /\ Goto(c, "panic")
    /\ UNCHANGED <<creation, ACTIVE_VM, VIRTIO_BLK, stacks, node, console>>

ListVm(c) ==
    /\ phase[c] = "list"
    /\ VM_LIST' = VM_LIST \cup {vm_id[c]}
    /\ Goto(c, "activate")
    /\ UNCHANGED <<vm_id, tpidr, NEXT_VM_ID, ACTIVE_VM, VIRTIO_BLK, stacks, node, console>>

\* Mutant: the id is not looked up.
switch_active_vm_unchecked(id) == ACTIVE_VM' = id

\* The active VM changes only if the list has the id.
switch_active_vm(id) == ACTIVE_VM' = IF id \in VM_LIST THEN id ELSE ACTIVE_VM

\* Mutant: the new VM is made active only if there is none.
ActivateVmFirst(c) ==
    /\ phase[c] = "activate"
    /\ IF ACTIVE_VM = None THEN switch_active_vm(vm_id[c]) ELSE UNCHANGED ACTIVE_VM
    /\ Goto(c, "tpidr")
    /\ UNCHANGED <<creation, VIRTIO_BLK, stacks, node, console>>

ActivateVm(c) ==
    /\ phase[c] = "activate"
    /\ switch_active_vm(vm_id[c])
    /\ Goto(c, "tpidr")
    /\ UNCHANGED <<creation, VIRTIO_BLK, stacks, node, console>>

\* Mutant: the CPU takes the id of the active VM.
BootVmActive(c) ==
    /\ phase[c] = "tpidr"
    /\ tpidr' = [tpidr EXCEPT ![c] = ACTIVE_VM]
    /\ VIRTIO_BLK' = IF VIRTIO_BLK = c THEN None ELSE VIRTIO_BLK
    /\ Goto(c, "guest")
    /\ UNCHANGED <<vm_id, NEXT_VM_ID, VM_LIST, ACTIVE_VM, stacks, node, console>>

\* TPIDR_EL2 is set, VIRTIO_BLK is released and boot_vm enters the guest.
BootVm(c) ==
    /\ phase[c] = "tpidr"
    /\ tpidr' = [tpidr EXCEPT ![c] = vm_id[c]]
    /\ VIRTIO_BLK' = IF VIRTIO_BLK = c THEN None ELSE VIRTIO_BLK
    /\ Goto(c, "guest")
    /\ UNCHANGED <<vm_id, NEXT_VM_ID, VM_LIST, ACTIVE_VM, stacks, node, console>>

-----------------------------------------------------------------------------
(* The emulated disk's operation, once per data descriptor *)

DiskRequest(c) ==
    /\ phase[c] = "guest"
    /\ Goto(c, "disk")
    /\ UNCHANGED <<creation, ACTIVE_VM, VIRTIO_BLK, stacks, node, console>>

\* Mutant: the lock is only tried, and a busy disk taken for a failed one.
DiskTryLock(c) ==
    /\ phase[c] = "disk"
    /\ IF VIRTIO_BLK = None
       THEN VIRTIO_BLK' = c /\ Goto(c, "transfer")
       ELSE Goto(c, "guest") /\ UNCHANGED VIRTIO_BLK
    /\ UNCHANGED <<creation, ACTIVE_VM, stacks, node, console>>

DiskLock(c) ==
    /\ phase[c] = "disk" /\ VIRTIO_BLK = None
    /\ VIRTIO_BLK' = c
    /\ Goto(c, "transfer")
    /\ UNCHANGED <<creation, ACTIVE_VM, stacks, node, console>>

\* The transfer has ended, well or not, and the guard is dropped: the next
\* descriptor, or back to the guest.
DiskUnlock(c) ==
    /\ phase[c] = "transfer"
    /\ VIRTIO_BLK' = None
    /\ Goto(c, "guest") \/ Goto(c, "disk")
    /\ UNCHANGED <<creation, ACTIVE_VM, stacks, node, console>>

\* A panic in the transfer, as of an index of the driver that overflows.
DiskPanics(c) ==
    /\ phase[c] = "transfer"
    /\ Goto(c, "panic")
    /\ UNCHANGED <<creation, ACTIVE_VM, VIRTIO_BLK, stacks, node, console>>

DiskTransfer(c) == DiskUnlock(c) \/ DiskPanics(c)

-----------------------------------------------------------------------------
(* handle_input and the console, on the boot CPU *)

UartInterrupt ==
    /\ phase[BootCPU] = "guest"
    /\ Goto(BootCPU, "input")
    /\ UNCHANGED <<creation, ACTIVE_VM, VIRTIO_BLK, stacks, node, console>>

InputDone ==
    /\ phase[BootCPU] = "input"
    /\ Goto(BootCPU, "guest")
    /\ UNCHANGED <<creation, ACTIVE_VM, VIRTIO_BLK, stacks, node, console>>

\* A character for the VM: input_uart unwraps the active VM.
ToVm == phase[BootCPU] = "input" /\ ~IS_CONSOLE_ACTIVE /\ UNCHANGED vars

\* Ctrl+S.  Opening the console resets its buffer.
SwitchKey ==
    /\ phase[BootCPU] = "input"
    /\ IS_CONSOLE_ACTIVE' = ~IS_CONSOLE_ACTIVE
    /\ buffer_pointer' = IF IS_CONSOLE_ACTIVE THEN buffer_pointer ELSE 0
    /\ UNCHANGED <<phase, creation, ACTIVE_VM, VIRTIO_BLK, stacks, node, ignore_lf>>

AtConsole == phase[BootCPU] = "input" /\ IS_CONSOLE_ACTIVE

TypeChar ==
    /\ AtConsole /\ buffer_pointer < BUFFER_SIZE
    /\ buffer_pointer' = buffer_pointer + 1
    /\ UNCHANGED <<phase, creation, ACTIVE_VM, VIRTIO_BLK, stacks, node,
                   IS_CONSOLE_ACTIVE, ignore_lf>>

\* The end of a line: CR, or LF unless the last line ended with CR.
Enter(cr) == AtConsole /\ (cr \/ ~ignore_lf) /\ ignore_lf' = cr

\* An empty line, echo, an unknown command or one that fails.
OtherCommand(cr) ==
    /\ Enter(cr)
    /\ buffer_pointer' = 0
    /\ UNCHANGED <<phase, creation, ACTIVE_VM, VIRTIO_BLK, stacks, node, IS_CONSOLE_ACTIVE>>

\* switch_vm with an id that exists; the console closes.
SwitchCommand(cr, id) ==
    /\ Enter(cr) /\ buffer_pointer > 0
    /\ id \in VM_LIST
    /\ switch_active_vm(id)
    /\ IS_CONSOLE_ACTIVE' = ~IS_CONSOLE_ACTIVE
    /\ UNCHANGED <<phase, creation, VIRTIO_BLK, stacks, node, buffer_pointer>>

\* ... and with one that does not.
SwitchUnknown(cr, id) ==
    /\ Enter(cr) /\ buffer_pointer > 0
    /\ id \notin VM_LIST
    /\ switch_active_vm(id)
    /\ buffer_pointer' = 0
    /\ UNCHANGED <<phase, creation, VIRTIO_BLK, stacks, node, IS_CONSOLE_ACTIVE>>

\* boot: launch_cpu allocates the stack of the new CPU.
BootCommand(cr) ==
    /\ Enter(cr) /\ buffer_pointer > 0
    /\ Goto(BootCPU, "launch")
    /\ stacks' = stacks + 1
    /\ node' = 1
    /\ UNCHANGED <<creation, ACTIVE_VM, VIRTIO_BLK, IS_CONSOLE_ACTIVE, buffer_pointer>>

\* ... which panics when there is no memory for it.
BootNoMemory(cr) ==
    /\ Enter(cr) /\ buffer_pointer > 0
    /\ Goto(BootCPU, "panic")
    /\ UNCHANGED <<creation, ACTIVE_VM, VIRTIO_BLK, stacks, node, IS_CONSOLE_ACTIVE,
                   buffer_pointer>>

-----------------------------------------------------------------------------
(* launch_cpu *)

Launching == phase[BootCPU] = "launch"

\* CPU_ON succeeds: the CPU starts in core_main, and the console closes.
CpuOn ==
    /\ Launching /\ node <= Len(CpuNodes)
    /\ CpuNodes[node] # BootCPU /\ phase[CpuNodes[node]] = "off"
    /\ phase' = [phase EXCEPT ![CpuNodes[node]] = "entry", ![BootCPU] = "input"]
    /\ IS_CONSOLE_ACTIVE' = ~IS_CONSOLE_ACTIVE
    /\ UNCHANGED <<creation, ACTIVE_VM, VIRTIO_BLK, stacks, node, buffer_pointer, ignore_lf>>

\* The boot CPU itself, ALREADY_ON, or any other error of the firmware.
NextNode ==
    /\ Launching /\ node <= Len(CpuNodes)
    /\ node' = node + 1
    /\ UNCHANGED <<phase, creation, ACTIVE_VM, VIRTIO_BLK, stacks, console>>

\* Mutant: the stack is not freed.
LaunchFailsLeaking ==
    /\ Launching /\ node > Len(CpuNodes)
    /\ buffer_pointer' = 0
    /\ Goto(BootCPU, "input")
    /\ UNCHANGED <<creation, ACTIVE_VM, VIRTIO_BLK, stacks, node, IS_CONSOLE_ACTIVE, ignore_lf>>

\* No CPU could be started: the stack is freed.
LaunchFails ==
    /\ Launching /\ node > Len(CpuNodes)
    /\ stacks' = stacks - 1
    /\ buffer_pointer' = 0
    /\ Goto(BootCPU, "input")
    /\ UNCHANGED <<creation, ACTIVE_VM, VIRTIO_BLK, node, IS_CONSOLE_ACTIVE, ignore_lf>>

-----------------------------------------------------------------------------
Create(c) ==
    core_main(c) \/ CreateVm(c) \/ CreateFails(c) \/ ListVm(c) \/ ActivateVm(c) \/ BootVm(c)

\* Some CPU has panicked: main did, or all others wait for what it holds.
Parked == (\E c \in CPU : phase[c] = "panic") /\ UNCHANGED vars

Console ==
    \/ SwitchKey \/ TypeChar \/ ToVm
    \/ \E cr \in BOOLEAN :
        \/ OtherCommand(cr) \/ BootCommand(cr) \/ BootNoMemory(cr)
        \/ \E id \in Ids : SwitchCommand(cr, id) \/ SwitchUnknown(cr, id)

launch_cpu == CpuOn \/ NextNode \/ LaunchFails

Next ==
    \/ \E c \in CPU : Create(c) \/ DiskRequest(c) \/ DiskLock(c) \/ DiskTransfer(c)
    \/ UartInterrupt \/ InputDone \/ Console \/ launch_cpu \/ Parked

Spec == Init /\ [][Next]_vars

(***************************************************************************)
(* A CPU that was started goes on by itself, and so do launch_cpu and a    *)
(* transfer, which polls a bounded number of times.  The mutex is not      *)
(* fair: a CPU that waits for VIRTIO_BLK may be overtaken whenever it is   *)
(* released, so a waiting CPU has weak fairness only.                      *)
(***************************************************************************)
FairSpec ==
    /\ Spec
    /\ \A c \in CPU : WF_vars(Create(c)) /\ WF_vars(DiskLock(c)) /\ WF_vars(DiskTransfer(c))
    /\ WF_vars(launch_cpu)

-----------------------------------------------------------------------------
(* Properties *)

InGuest(c) == phase[c] \in {"guest", "disk", "transfer", "input", "launch"}

(***************************************************************************)
(* get_current_vm never fails, and finds the CPU's own VM: a CPU that has  *)
(* entered its guest has the id of a listed VM in TPIDR_EL2, and no other  *)
(* CPU has the same, whatever the console switches in the meantime.        *)
(***************************************************************************)
CurrentVmOwn ==
    \A c \in CPU :
        InGuest(c) => /\ tpidr[c] \in VM_LIST
                      /\ \A d \in CPU \ {c} : InGuest(d) => tpidr[d] # tpidr[c]

(***************************************************************************)
(* get_active_vm never fails: whenever input can arrive there is an active *)
(* VM, and it is a listed one.                                             *)
(***************************************************************************)
ActiveVmListed ==
    /\ ACTIVE_VM # None => ACTIVE_VM \in VM_LIST
    /\ InGuest(BootCPU) => ACTIVE_VM # None

(***************************************************************************)
(* launch_cpu's stacks: one for each CPU that was started and one for the  *)
(* launch in progress.  A stack is neither leaked when every CPU_ON fails  *)
(* nor freed when one succeeds.                                            *)
(***************************************************************************)
StackPerCpu ==
    stacks = Cardinality({c \in CPU \ {BootCPU} : phase[c] # "off"})
                + (IF Launching THEN 1 ELSE 0)

\* A CPU has panicked, in create_vm or in a transfer, with the disk locked.
DiskLost == \E c \in CPU : phase[c] = "panic" /\ VIRTIO_BLK = c

\* The other CPUs' guests transfer again and again: the one way in which the
\* mutex, which is not fair, may keep a CPU waiting for ever.
Overtaken(c) == []<>(\E d \in CPU \ {c} : phase[d] = "transfer")

(***************************************************************************)
(* "Active VM は自動的に切り替わる" (console.rs:97): once CPU_ON has        *)
(* succeeded the VM of that CPU becomes the active one by itself, unless   *)
(* its creation, or whoever had the disk before, panics, or the disk       *)
(* traffic of the running VMs overtakes it for ever.                       *)
(***************************************************************************)
BootedVmBecomesActive ==
    \A c \in CPU :
        \/ Overtaken(c)
        \/ phase[c] = "entry" ~> (vm_id[c] # None /\ ACTIVE_VM = vm_id[c]) \/ DiskLost

(***************************************************************************)
(* Nobody keeps the disk: a descriptor that waits for VIRTIO_BLK gets it,  *)
(* through the creation of other VMs and failed transfers, unless a CPU    *)
(* panics with it or the other guests overtake for ever; the boot CPU's    *)
(* own creation, which is not under VIRTIO_BLK, never blocks anyone.       *)
(***************************************************************************)
DiskServed ==
    \A c \in CPU :
        Overtaken(c) \/ (phase[c] = "disk" ~> phase[c] = "transfer" \/ DiskLost)
=============================================================================
