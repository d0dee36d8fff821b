--------------------------- MODULE VmManagerProofs ---------------------------
(***************************************************************************)
(* Proofs about VmManager, for any number of CPUs and any device tree:     *)
(* each CPU finds its own VM, input finds an active one, and no stack is    *)
(* leaked or shared.                                                       *)
(***************************************************************************)
EXTENDS VmManager, FiniteSetTheorems, TLAPS

Created == {"list", "activate", "tpidr", "guest", "disk", "transfer", "input", "launch"}
Listed == Created \ {"list"}

IdTypes ==
    /\ phase \in [CPU -> Phase]
    /\ vm_id \in [CPU -> Nat \cup {None}] /\ tpidr \in [CPU -> Nat \cup {None}]
    /\ NEXT_VM_ID \in Nat

\* Ids are given out once, in order.
IdsFresh ==
    /\ \A c \in CPU : vm_id[c] # None => vm_id[c] < NEXT_VM_ID
    /\ \A c, d \in CPU : vm_id[c] # None /\ vm_id[c] = vm_id[d] => c = d

\* How far create_vm has come on each CPU.
Progress ==
    /\ \A c \in CPU : phase[c] \in Created => vm_id[c] # None
    /\ \A c \in CPU : phase[c] \in Listed => vm_id[c] \in VM_LIST
    /\ \A c \in CPU : InGuest(c) => tpidr[c] = vm_id[c]

ActiveOk ==
    /\ ACTIVE_VM # None => ACTIVE_VM \in VM_LIST
    /\ InGuest(BootCPU) \/ phase[BootCPU] = "tpidr" => ACTIVE_VM # None

IInv == IdTypes /\ IdsFresh /\ Progress /\ ActiveOk

(***************************************************************************)
(* A step that moves CPUs between places of the same stage or out of       *)
(* create_vm, and the active VM only to a listed one, keeps the invariant. *)
(***************************************************************************)
LEMMA MoveStep ==
    ASSUME IInv, UNCHANGED creation, phase' \in [CPU -> Phase],
           \A c \in CPU : /\ phase'[c] \in Created => phase[c] \in Created
                          /\ phase'[c] \in Listed => phase[c] \in Listed
                          /\ InGuest(c)' => InGuest(c)
                          /\ phase'[c] = "tpidr" => phase[c] = "tpidr",
           ACTIVE_VM' = ACTIVE_VM \/ ACTIVE_VM' \in VM_LIST \ {None}
    PROVE  IInv'
  <1>1. vm_id' = vm_id /\ tpidr' = tpidr /\ NEXT_VM_ID' = NEXT_VM_ID /\ VM_LIST' = VM_LIST
    BY DEF creation
  <1>2. IdTypes' /\ IdsFresh'
    BY <1>1 DEF IInv, IdTypes, IdsFresh
  <1>3. Progress'
    BY <1>1 DEF IInv, Progress
  <1>4. ActiveOk'
    BY <1>1, CpuAssumption DEF IInv, ActiveOk
  <1> QED BY <1>2, <1>3, <1>4 DEF IInv

(***************************************************************************)
(* create_vm: the steps that give out the id, list the VM, make it active  *)
(* and store its id in TPIDR_EL2.                                          *)
(***************************************************************************)
LEMMA CreateStep ==
    ASSUME IInv, NEW c \in CPU, CreateVm(c) \/ ListVm(c) \/ ActivateVm(c) \/ BootVm(c)
    PROVE  IInv'
  <1> USE DEF Goto
  <1>1. CASE CreateVm(c)
    <2>1. /\ phase[c] = "create" /\ phase' = [phase EXCEPT ![c] = "list"]
          /\ vm_id' = [vm_id EXCEPT ![c] = NEXT_VM_ID] /\ NEXT_VM_ID' = NEXT_VM_ID + 1
          /\ tpidr' = tpidr /\ VM_LIST' = VM_LIST /\ ACTIVE_VM' = ACTIVE_VM
      BY <1>1 DEF CreateVm
    <2>2. IdTypes'
      BY <2>1 DEF IInv, IdTypes, Phase, Creating
    <2>3. IdsFresh'
      BY <2>1, CpuAssumption DEF IInv, IdTypes, IdsFresh
    <2>4. Progress'
      BY <2>1, CpuAssumption DEF IInv, IdTypes, Progress, InGuest, Created, Listed
    <2>5. ActiveOk'
      BY <2>1, CpuAssumption DEF IInv, IdTypes, ActiveOk, InGuest
    <2> QED BY <2>2, <2>3, <2>4, <2>5 DEF IInv
  <1>2. CASE ListVm(c)
    <2>1. /\ phase[c] = "list" /\ phase' = [phase EXCEPT ![c] = "activate"]
          /\ VM_LIST' = VM_LIST \cup {vm_id[c]}
          /\ vm_id' = vm_id /\ NEXT_VM_ID' = NEXT_VM_ID /\ tpidr' = tpidr
          /\ ACTIVE_VM' = ACTIVE_VM
      BY <1>2 DEF ListVm
    <2>2. IdTypes' /\ IdsFresh'
      BY <2>1 DEF IInv, IdTypes, IdsFresh, Phase, Creating
    <2>3. Progress'
      BY <2>1 DEF IInv, IdTypes, Progress, InGuest, Created, Listed
    <2>4. ActiveOk'
      BY <2>1, CpuAssumption DEF IInv, IdTypes, ActiveOk, InGuest
    <2> QED BY <2>2, <2>3, <2>4 DEF IInv
  <1>3. CASE ActivateVm(c)
    <2>1. /\ phase[c] = "activate" /\ phase' = [phase EXCEPT ![c] = "tpidr"]
          /\ VM_LIST' = VM_LIST /\ vm_id' = vm_id /\ NEXT_VM_ID' = NEXT_VM_ID /\ tpidr' = tpidr
          /\ ACTIVE_VM' = IF vm_id[c] \in VM_LIST THEN vm_id[c] ELSE ACTIVE_VM
      BY <1>3 DEF ActivateVm, creation, switch_active_vm
    <2>2. vm_id[c] \in VM_LIST /\ vm_id[c] # None
      BY <2>1 DEF IInv, Progress, Created, Listed
    <2>3. IdTypes' /\ IdsFresh'
      BY <2>1 DEF IInv, IdTypes, IdsFresh, Phase, Creating
    <2>4. Progress'
      BY <2>1 DEF IInv, IdTypes, Progress, InGuest, Created, Listed
    <2>5. ActiveOk'
      BY <2>1, <2>2 DEF ActiveOk
    <2> QED BY <2>3, <2>4, <2>5 DEF IInv
  <1>4. CASE BootVm(c)
    <2>1. /\ phase[c] = "tpidr" /\ phase' = [phase EXCEPT ![c] = "guest"]
          /\ tpidr' = [tpidr EXCEPT ![c] = vm_id[c]]
          /\ VM_LIST' = VM_LIST /\ vm_id' = vm_id /\ NEXT_VM_ID' = NEXT_VM_ID
          /\ ACTIVE_VM' = ACTIVE_VM
      BY <1>4 DEF BootVm
    <2>2. IdTypes' /\ IdsFresh'
      BY <2>1 DEF IInv, IdTypes, IdsFresh, Phase
    <2>3. Progress'
      BY <2>1 DEF IInv, IdTypes, Progress, InGuest, Created, Listed
    <2>4. ActiveOk'
      BY <2>1, CpuAssumption DEF IInv, IdTypes, ActiveOk, InGuest
    <2> QED BY <2>2, <2>3, <2>4 DEF IInv
  <1> QED BY <1>1, <1>2, <1>3, <1>4

(***************************************************************************)
(* Everything else: entering core_main, a panic in create_vm, the disk,    *)
(* the console, launch_cpu.                                                *)
(***************************************************************************)
LEMMA OtherStep ==
    ASSUME IInv,
           \/ \E c \in CPU : \/ core_main(c) \/ CreateFails(c)
                            \/ DiskRequest(c) \/ DiskLock(c) \/ DiskTransfer(c)
           \/ UartInterrupt \/ InputDone \/ Console \/ launch_cpu \/ Parked
    PROVE  IInv'
  <1> USE CpuAssumption DEF Goto
  <1>0. phase \in [CPU -> Phase]
    BY DEF IInv, IdTypes
  <1>1. ASSUME NEW c \in CPU, NEW p \in Phase, phase' = [phase EXCEPT ![c] = p],
               \/ phase[c] \in {"off", "entry"} /\ p \in {"entry", "create"}
               \/ p = "panic"
               \/ InGuest(c) /\ p \in {"guest", "disk", "transfer", "input", "launch"},
               UNCHANGED <<creation, ACTIVE_VM>>
        PROVE  IInv'
    BY <1>0, <1>1, MoveStep DEF Created, Listed, InGuest
  <1>2. ASSUME UNCHANGED <<phase, creation>>,
               ACTIVE_VM' = ACTIVE_VM \/ ACTIVE_VM' \in VM_LIST \ {None}
        PROVE  IInv'
    BY <1>0, <1>2, MoveStep DEF InGuest
  <1>3. ASSUME NEW c \in CPU, core_main(c) PROVE IInv'
    BY <1>1, <1>3 DEF core_main, Phase, Creating
  <1>8. ASSUME NEW c \in CPU, CreateFails(c) PROVE IInv'
    BY <1>1, <1>8 DEF CreateFails, Phase
  <1>9. CASE Parked
    BY <1>2, <1>9 DEF Parked, vars
  <1>4. ASSUME NEW c \in CPU, DiskRequest(c) \/ DiskLock(c) \/ DiskTransfer(c) PROVE IInv'
    BY <1>1, <1>4 DEF DiskRequest, DiskLock, DiskTransfer, DiskUnlock, DiskPanics, Phase, InGuest
  <1>5. CASE UartInterrupt \/ InputDone
    BY <1>1, <1>5 DEF UartInterrupt, InputDone, Phase, InGuest
  <1>6. CASE Console
    <2>1. CASE SwitchKey \/ TypeChar \/ ToVm \/ \E cr \in BOOLEAN : OtherCommand(cr)
      BY <1>2, <2>1 DEF SwitchKey, TypeChar, ToVm, OtherCommand, vars
    <2>2. ASSUME NEW cr \in BOOLEAN, BootCommand(cr) \/ BootNoMemory(cr) PROVE IInv'
      BY <1>1, <2>2 DEF BootCommand, BootNoMemory, Enter, AtConsole, Phase, InGuest
    <2>3. ASSUME NEW cr \in BOOLEAN, NEW id \in Ids, SwitchCommand(cr, id) \/ SwitchUnknown(cr, id)
          PROVE  IInv'
      <3>1. id # None
        BY DEF Ids
      <3> QED BY <1>2, <2>3, <3>1 DEF SwitchCommand, SwitchUnknown, switch_active_vm
    <2> QED BY <1>6, <2>1, <2>2, <2>3 DEF Console
  <1>7. CASE launch_cpu
    <2>1. CASE CpuOn
      <3> DEFINE c == CpuNodes[node]
      <3>1. /\ phase[BootCPU] = "launch" /\ c # BootCPU /\ phase[c] = "off"
            /\ phase' = [phase EXCEPT ![c] = "entry", ![BootCPU] = "input"]
            /\ UNCHANGED <<creation, ACTIVE_VM>>
        BY <2>1 DEF CpuOn, Launching
      <3>2. phase' \in [CPU -> Phase]
        BY <1>0, <3>1 DEF Phase
      <3>3. \A x \in CPU : \/ phase'[x] = phase[x]
                           \/ phase[x] = "off" /\ phase'[x] = "entry"
                           \/ phase[x] = "launch" /\ phase'[x] = "input"
        BY <1>0, <3>1
      <3> QED BY <3>1, <3>2, <3>3, MoveStep DEF Created, Listed, InGuest
    <2>2. CASE NextNode
      BY <1>2, <2>2 DEF NextNode
    <2>3. CASE LaunchFails
      BY <1>1, <2>3 DEF LaunchFails, Launching, Phase, InGuest
    <2> QED BY <1>7, <2>1, <2>2, <2>3 DEF launch_cpu
  <1> QED BY <1>3, <1>4, <1>5, <1>6, <1>7, <1>8, <1>9

(***************************************************************************)
(* The inductive invariant holds in every reachable state: create_vm on    *)
(* any CPU and the boot CPU's console may interleave as they like.         *)
(***************************************************************************)
LEMMA Invariance == Spec => []IInv
  <1>1. Init => IInv
    <2> SUFFICES ASSUME Init PROVE IInv
      OBVIOUS
    <2>1. /\ \A c \in CPU : phase[c] \in {"create", "off"} /\ vm_id[c] = None
          /\ ACTIVE_VM = None
      BY DEF Init
    <2>2. IdTypes
      BY DEF Init, IdTypes, Phase, Creating
    <2> QED BY <2>1, <2>2, CpuAssumption
            DEF IInv, IdsFresh, Progress, ActiveOk, InGuest, Created, Listed
  <1>2. IInv /\ [Next]_vars => IInv'
    <2>1. ASSUME IInv, Next PROVE IInv'
      BY <2>1, CreateStep, OtherStep DEF Next, Create
    <2>2. ASSUME IInv, UNCHANGED vars PROVE IInv'
      BY <2>2, MoveStep DEF vars, InGuest, IInv, IdTypes
    <2> QED BY <2>1, <2>2
  <1> QED BY <1>1, <1>2, PTL DEF Spec

(***************************************************************************)
(* A CPU in its guest has a listed VM in TPIDR_EL2 that no other CPU has.  *)
(***************************************************************************)
THEOREM OwnVm == Spec => []CurrentVmOwn
  <1>1. IInv => CurrentVmOwn
    <2> SUFFICES ASSUME IInv, NEW c \in CPU, InGuest(c)
                 PROVE  /\ tpidr[c] \in VM_LIST
                        /\ \A d \in CPU \ {c} : InGuest(d) => tpidr[d] # tpidr[c]
      BY DEF CurrentVmOwn
    <2>1. \A d \in CPU : InGuest(d) => /\ tpidr[d] = vm_id[d] /\ vm_id[d] \in VM_LIST
                                       /\ vm_id[d] # None
      BY DEF IInv, Progress, InGuest, Created, Listed
    <2> QED BY <2>1 DEF IInv, IdsFresh
  <1> QED BY <1>1, Invariance, PTL

(***************************************************************************)
(* Whenever the boot CPU can take input there is an active VM, and it is a *)
(* listed one.                                                             *)
(***************************************************************************)
THEOREM InputHasVm == Spec => []ActiveVmListed
  <1>1. IInv => ActiveVmListed
    BY DEF IInv, ActiveOk, ActiveVmListed
  <1> QED BY <1>1, Invariance, PTL

-----------------------------------------------------------------------------
(* launch_cpu's stacks *)

\* The CPUs that were started with a stack of launch_cpu.
Started == {c \in CPU \ {BootCPU} : phase[c] # "off"}

\* No more than finitely many CPUs have been started, even if there are more.
StackInv == node \in Nat \ {0} /\ IsFiniteSet(Started) /\ StackPerCpu

(***************************************************************************)
(* StackPerCpu as a count of Started, before and after a step.             *)
(***************************************************************************)
LEMMA StackCount ==
    /\ StackPerCpu <=> stacks = Cardinality(Started) + (IF Launching THEN 1 ELSE 0)
    /\ StackPerCpu' <=> stacks' = Cardinality(Started') + (IF Launching' THEN 1 ELSE 0)
  BY DEF StackPerCpu, Started

(***************************************************************************)
(* A step that starts no CPU, and neither enters nor leaves launch_cpu.    *)
(***************************************************************************)
LEMMA StartedKept ==
    ASSUME StackInv, UNCHANGED stacks, node' \in Nat \ {0},
           \A c \in CPU : phase'[c] = "off" <=> phase[c] = "off",
           Launching' <=> Launching
    PROVE  StackInv'
  <1>1. Started' = Started
    BY DEF Started
  <1> QED BY <1>1, StackCount DEF StackInv

(***************************************************************************)
(* The steps that allocate a stack, hand it to a CPU or give it back.      *)
(***************************************************************************)
LEMMA StackStep ==
    ASSUME IInv, StackInv, CpuOn \/ LaunchFails \/ \E cr \in BOOLEAN : BootCommand(cr)
    PROVE  StackInv'
  <1> USE CpuAssumption DEF Goto
  <1>0. phase \in [CPU -> Phase] /\ IsFiniteSet(Started) /\ Cardinality(Started) \in Nat
       /\ node \in Nat \ {0}
    BY FS_CardinalityType DEF IInv, IdTypes, StackInv
  <1>1. stacks = Cardinality(Started) + (IF Launching THEN 1 ELSE 0)
    BY StackCount DEF StackInv
  <1>2. CASE CpuOn
    <2> DEFINE c == CpuNodes[node]
    <2>1. /\ Launching /\ c # BootCPU /\ phase[c] = "off"
          /\ phase' = [phase EXCEPT ![c] = "entry", ![BootCPU] = "input"]
          /\ UNCHANGED <<stacks, node>>
      BY <1>2 DEF CpuOn
    <2>2. c \in CPU
      BY <1>0, <1>2 DEF CpuOn
    <2>3. Started' = Started \cup {c} /\ c \notin Started
      BY <1>0, <2>1, <2>2 DEF Started, Launching
    <2>4. IsFiniteSet(Started') /\ Cardinality(Started') = Cardinality(Started) + 1
      BY <1>0, <2>3, FS_AddElement
    <2>5. ~Launching'
      BY <1>0, <2>1, <2>2 DEF Launching
    <2> QED BY <1>0, <1>1, <2>1, <2>4, <2>5, StackCount DEF StackInv
  <1>3. CASE LaunchFails
    <2>1. Launching /\ phase' = [phase EXCEPT ![BootCPU] = "input"] /\ stacks' = stacks - 1 /\ node' = node
      BY <1>3 DEF LaunchFails
    <2>2. Started' = Started /\ ~Launching'
      BY <1>0, <2>1 DEF Started, Launching
    <2> QED BY <1>0, <1>1, <2>1, <2>2, StackCount DEF StackInv
  <1>4. ASSUME NEW cr \in BOOLEAN, BootCommand(cr) PROVE StackInv'
    <2>1. /\ phase[BootCPU] = "input" /\ phase' = [phase EXCEPT ![BootCPU] = "launch"]
          /\ stacks' = stacks + 1 /\ node' = 1
      BY <1>4 DEF BootCommand, Enter, AtConsole
    <2>2. Started' = Started /\ ~Launching /\ Launching'
      BY <1>0, <2>1 DEF Started, Launching
    <2> QED BY <1>0, <1>1, <2>1, <2>2, StackCount DEF StackInv
  <1> QED BY <1>2, <1>3, <1>4

(***************************************************************************)
(* Every other step leaves the stacks alone.                               *)
(***************************************************************************)
LEMMA OtherStackStep ==
    ASSUME IInv, StackInv, [Next]_vars,
           ~CpuOn, ~LaunchFails, \A cr \in BOOLEAN : ~BootCommand(cr)
    PROVE  StackInv'
  <1> USE CpuAssumption DEF Goto
  <1>0. phase \in [CPU -> Phase] /\ node \in Nat \ {0}
    BY DEF IInv, IdTypes, StackInv
  <1>1. ASSUME NEW c \in CPU, NEW p \in Phase, phase' = [phase EXCEPT ![c] = p],
               phase[c] \notin {"off", "launch"}, p \notin {"off", "launch"},
               UNCHANGED <<stacks, node>>
        PROVE  StackInv'
    BY <1>0, <1>1, StartedKept DEF Launching
  <1>2. ASSUME UNCHANGED <<phase, stacks>>, node' \in Nat \ {0} PROVE StackInv'
    BY <1>2, StartedKept DEF Launching
  <1>3. ASSUME NEW c \in CPU, Create(c) PROVE StackInv'
    <2> USE DEF Phase, Creating
    <2>1. CASE core_main(c) \/ CreateVm(c)
      BY <1>1, <2>1 DEF core_main, CreateVm
    <2>2. CASE CreateFails(c) \/ ListVm(c)
      BY <1>1, <2>2 DEF CreateFails, ListVm
    <2>3. CASE ActivateVm(c) \/ BootVm(c)
      BY <1>1, <2>3 DEF ActivateVm, BootVm
    <2> QED BY <1>3, <2>1, <2>2, <2>3 DEF Create
  <1>4. ASSUME NEW c \in CPU, DiskRequest(c) \/ DiskLock(c) \/ DiskTransfer(c) PROVE StackInv'
    BY <1>1, <1>4 DEF DiskRequest, DiskLock, DiskTransfer, DiskUnlock, DiskPanics, Phase
  <1>5. CASE UartInterrupt \/ InputDone
    BY <1>1, <1>5 DEF UartInterrupt, InputDone, Phase
  <1>6. CASE Console
    <2>1. CASE \/ SwitchKey \/ TypeChar \/ ToVm \/ \E cr \in BOOLEAN : OtherCommand(cr)
               \/ \E cr \in BOOLEAN, id \in Ids : SwitchCommand(cr, id) \/ SwitchUnknown(cr, id)
      BY <1>0, <1>2, <2>1
         DEF SwitchKey, TypeChar, ToVm, OtherCommand, SwitchCommand, SwitchUnknown, vars
    <2>2. ASSUME NEW cr \in BOOLEAN, BootNoMemory(cr) PROVE StackInv'
      BY <1>1, <2>2 DEF BootNoMemory, Enter, AtConsole, Phase
    <2> QED BY <1>6, <2>1, <2>2 DEF Console
  <1>7. CASE NextNode \/ Parked \/ UNCHANGED vars
    BY <1>0, <1>2, <1>7 DEF NextNode, Parked, vars
  <1> QED BY <1>3, <1>4, <1>5, <1>6, <1>7 DEF Next, launch_cpu

(***************************************************************************)
(* launch_cpu has one stack for each CPU it has started and one for the    *)
(* launch in progress, whatever the firmware answers and however often the *)
(* console boots: none is leaked, and none is freed under a running CPU.   *)
(***************************************************************************)
THEOREM StacksBalanced == Spec => []StackPerCpu
  <1>1. Init => StackInv
    <2> SUFFICES ASSUME Init PROVE StackInv
      OBVIOUS
    <2>1. Started = {} /\ stacks = 0 /\ node = 1 /\ ~Launching
      BY CpuAssumption DEF Init, Started, Launching
    <2> QED BY <2>1, FS_EmptySet, StackCount DEF StackInv
  <1>2. IInv /\ StackInv /\ [Next]_vars => StackInv'
    BY StackStep, OtherStackStep
  <1>3. StackInv => StackPerCpu
    BY DEF StackInv
  <1> QED BY <1>1, <1>2, <1>3, Invariance, PTL DEF Spec
=============================================================================
