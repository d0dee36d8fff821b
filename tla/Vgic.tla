--------------------------------- MODULE Vgic ---------------------------------
(***************************************************************************)
(* Virtual interrupt delivery: the emulated GIC distributor and            *)
(* redistributor of each VM (mmio/gicv3.rs), the list registers (vgic.rs), *)
(* the generic timer (drivers/generic_timer.rs) and irq_handler            *)
(* (exception.rs), on several CPUs.  VM v runs on CPU v and nowhere else   *)
(* (create_vm stores its id in the TPIDR_EL2 of the CPU that created it).  *)
(*                                                                         *)
(* CPU v enters its VM's distributor on a trapped MMIO access and in its   *)
(* interrupt handlers; the CPU that receives the host UART's interrupt     *)
(* enters the distributor of whichever VM is active.  Every entry is under *)
(* the distributor's (or redistributor's) Mutex, so an entry is one        *)
(* action; only inject_interrupt_handler, which loops under the lock, is   *)
(* one action per iteration, with the lock as state.  A CPU that panics in *)
(* a distributor leaves it locked.  The redistributor of v is entered by   *)
(* CPU v alone, so nobody waits for its lock.                              *)
(*                                                                         *)
(* An INTID stands for itself; group, priority and configuration are data  *)
(* that only the guest and the hardware look at and are left out, and so   *)
(* are the active bits, which the hypervisor stores and never reads.       *)
(* A register write that carries several bits is several single-bit writes.*)
(***************************************************************************)
EXTENDS Naturals, Sequences, FiniteSets

CONSTANTS
    CPU,        \* the processors, each with its VM
    UartCPU,    \* the CPU the host UART's SPI is routed to
    SPI,        \* the shared INTIDs of a VM: PL011 (33) and Virtio-Blk (40)
    UartSPI,    \* PL011_INT_ID of mmio/pl011.rs
    BlkSPI,     \* VIRTIO_BLK_INT_ID of mmio/virtio_blk.rs
    Timer,      \* GENERIC_TIMER_VIRTUAL_INT_ID, a private INTID
    Affinity,   \* what a guest may store in a router: CPUs and what is none
    WideAff0,   \* the affinities with Aff0 >= 16, which no SGI can name
    NLR,        \* supported_lrn: min(implemented list registers, 3)
    Booted,     \* start after the guests have set their GIC up
    GuestOps,   \* what each CPU's guest does: the registers it writes, and "TIMER"
    MaxQueue,   \* bound: length of a to_inject_interrupt list
    MaxRx       \* bound: characters the host UART receives

ASSUME CpuAssumption == UartCPU \in CPU
ASSUME AffinityAssumption == CPU \subseteq Affinity /\ WideAff0 \subseteq Affinity \ CPU
ASSUME IntidAssumption == UartSPI \in SPI /\ BlkSPI \in SPI /\ Timer \notin SPI
ASSUME BoundAssumption == NLR \in Nat /\ MaxQueue \in Nat /\ MaxRx \in Nat
ASSUME BootedAssumption == Booted \in BOOLEAN

VARIABLES
    ctlr,       \* GICD_CTLR: the set of the bits "grp1ns" and "are_s"
    awake,      \* GICR_WAKER.ChildrenAsleep is clear
    enable,     \* the enabled INTIDs of a VM (distributor and redistributor)
    pending,    \* the INTIDs whose pending bit is set
    secure,     \* the INTIDs whose group_modifier bit is set
    router,     \* router[v][i]: the affinity in the array element get_router(i) reads
    queue,      \* queue[v][u]: to_inject_interrupt of v's unit u
    distLock,   \* v's distributor is locked by the inject loop, or for ever
    lr,         \* the list registers of each CPU
    sgi,        \* SGI INJECT_INTERRUPT_INT_ID is pending on the CPU
    timerLine,  \* the CPU's virtual timer asserts its interrupt
    timerActive,\* the physical timer PPI is active in the CPU's redistributor
    rx,         \* characters waiting in the host UART
    input,      \* characters that may still arrive
    cpu         \* what the CPU is doing

dist == <<ctlr, enable, pending, secure, router, queue, distLock>>
phys == <<sgi, timerLine, timerActive, rx, input>>
vars == <<dist, awake, lr, phys, cpu>>

INTID == SPI \cup {Timer}
Unit == {"dist", "redist"}
UnitOf(i) == IF i \in SPI THEN "dist" ELSE "redist"

(***************************************************************************)
(* A list register entry.  `to` is where the SGI was sent to: it is not    *)
(* in the code, and only the properties read it.                           *)
(***************************************************************************)
Entry == [id : INTID, hw : BOOLEAN, to : Affinity]

(***************************************************************************)
(* A list register.  "empty" and "done" are the inactive states: the value *)
(* 0 (or a hardware entry the guest has finished), and an entry that asked *)
(* for an EOI maintenance interrupt and whose EISR bit is therefore set.   *)
(***************************************************************************)
ListRegister ==
    [id : INTID, hw : BOOLEAN,
     st : {"empty", "done", "pending", "active", "active_pending"}]

NoEntry == [id |-> Timer, hw |-> FALSE, st |-> "empty"]
Inactive(r) == r.st \in {"empty", "done"}
Eisr(r) == r.st = "done"

Interrupt == {"inject", "maintenance", "timer", "uart"}

(***************************************************************************)
(* A CPU is in its guest; or irq_handler has acknowledged an interrupt and *)
(* is about to call its handler; or inject_interrupt_handler holds the     *)
(* locks ("draining"); or the handler has returned ("eoi" when irq_handler *)
(* will deactivate the interrupt, "eoi_timer" when it will not); or it     *)
(* spins in the panic handler.                                             *)
(***************************************************************************)
CpuState == {"guest", "draining", "eoi", "eoi_timer", "panic"} \cup Interrupt

GuestOp ==
    {"CTLR", "WAKER", "ISENABLER", "ICENABLER", "ISPENDR", "ICPENDR",
     "IGRPMODR", "IROUTER", "QUEUE_NOTIFY", "TIMER"}

ASSUME GuestOpsAssumption == GuestOps \in [CPU -> SUBSET GuestOp]

(***************************************************************************)
(* GicDistributorMmio::new and GicRedistributorMmio::new; or, if Booted,   *)
(* what a guest's GIC driver makes of them with the writes below.  Router  *)
(* value 0 is the boot CPU, which is also where the UART's interrupt goes. *)
(***************************************************************************)
Init ==
    /\ ctlr = [v \in CPU |-> IF Booted THEN {"grp1ns", "are_s"} ELSE {}]
    /\ awake = [v \in CPU |-> Booted]
    /\ enable = [v \in CPU |-> IF Booted THEN INTID ELSE {}]
    /\ pending = [v \in CPU |-> {}]
    /\ secure = [v \in CPU |-> {}]
    /\ router = [v \in CPU |-> [i \in SPI |-> IF Booted THEN v ELSE UartCPU]]
    /\ queue = [v \in CPU |-> [u \in Unit |-> <<>>]]
    /\ distLock = [v \in CPU |-> FALSE]
    /\ lr = [c \in CPU |-> [k \in 1..NLR |-> NoEntry]]
    /\ sgi = [c \in CPU |-> FALSE]
    /\ timerLine = [c \in CPU |-> FALSE]
    /\ timerActive = [c \in CPU |-> FALSE]
    /\ rx = 0
    /\ input = MaxRx
    /\ cpu = [c \in CPU |-> "guest"]

-----------------------------------------------------------------------------
(* vgic.rs: the list registers *)

\* create_list_register_entry: pending; HW if there is a physical INTID, EOI if not.
create_list_register_entry(i, hw) == [id |-> i, hw |-> hw, st |-> "pending"]

\* The registers add_virtual_interrupt's loop would stop at.
Usable(regs, i) == {k \in 1..NLR : Inactive(regs[k]) \/ regs[k].id = i}

\* Mutant: the first register takes the entry, whatever it holds.
add_virtual_interrupt_first(regs, i, hw) ==
    IF NLR = 0 THEN regs ELSE [regs EXCEPT ![1] = create_list_register_entry(i, hw)]

\* The first of them: an inactive one takes the entry, one that holds the same
\* INTID becomes pending (again); with none the entry is dropped ("overflowed").
add_virtual_interrupt(regs, i, hw) ==
    LET usable == Usable(regs, i)
        k == CHOOSE n \in usable : \A m \in usable : n <= m
        repend(st) == IF st = "active" THEN "active_pending" ELSE st
    IN  IF usable = {} THEN regs
        ELSE IF Inactive(regs[k])
        THEN [regs EXCEPT ![k] = create_list_register_entry(i, hw)]
        ELSE [regs EXCEPT ![k].st = repend(@)]

-----------------------------------------------------------------------------
(* mmio/gicv3.rs: trigger_interrupt of both units *)

\* GICD_CTLR.EnableGrp1NS for an SPI, GICR_WAKER.ChildrenAsleep for a private INTID.
Gate(v, i) == IF i \in SPI THEN "grp1ns" \in ctlr[v] ELSE awake[v]

\* The early returns after the pending bit is set.
Deliverable(v, i, enabled) ==
    /\ i \in enabled
    /\ i \notin secure[v]
    /\ i \in SPI => "are_s" \in ctlr[v]

\* get_router for an SPI, the redistributor's own affinity for a private INTID.
Target(v, i) == IF i \in SPI THEN router[v][i] ELSE v

\* CPU c leaves the unit and goes on at `after`.
Continues(c, after) ==
    /\ cpu' = [cpu EXCEPT ![c] = after]
    /\ UNCHANGED distLock

\* assert!(router_aff0 < 16) fails on CPU c, in v's distributor.
Panics(c, v) ==
    /\ cpu' = [cpu EXCEPT ![c] = "panic"]
    /\ distLock' = [distLock EXCEPT ![v] = TRUE]

\* The entry goes to a list register of this CPU, or is queued and an SGI sent
\* to the CPU with that affinity, if there is one.
Deliver(c, v, i, hw, after) ==
    LET t == Target(v, i) IN
    \/ /\ t = c
       /\ lr' = [lr EXCEPT ![c] = add_virtual_interrupt(@, i, hw)]
       /\ Continues(c, after)
       /\ UNCHANGED <<queue, sgi>>
    \/ /\ t # c
       /\ Len(queue[v][UnitOf(i)]) < MaxQueue
       /\ queue' = [queue EXCEPT ![v][UnitOf(i)] =
                        Append(@, [id |-> i, hw |-> hw, to |-> t])]
       /\ IF t \in WideAff0
          THEN Panics(c, v) /\ UNCHANGED sgi
          ELSE Continues(c, after) /\ sgi' = [x \in CPU |-> sgi[x] \/ x = t]
       /\ UNCHANGED lr

\* trigger_interrupt(i, physical) of VM v's unit, executed on CPU c, with the
\* enable bits `enabled` and the pending bits `pend`.
trigger_interrupt(c, v, i, hw, enabled, pend, after) ==
    \/ /\ ~Gate(v, i)
       /\ pending' = [pending EXCEPT ![v] = pend]
       /\ Continues(c, after)
       /\ UNCHANGED <<lr, queue, sgi>>
    \/ /\ Gate(v, i)
       /\ pending' = [pending EXCEPT ![v] = pend \cup {i}]
       /\ IF Deliverable(v, i, enabled)
          THEN Deliver(c, v, i, hw, after)
          ELSE Continues(c, after) /\ UNCHANGED <<lr, queue, sgi>>

-----------------------------------------------------------------------------
(* Trapped MMIO writes of the guest on CPU c (data_abort_handler) *)

GuestWrites(c, op) == op \in GuestOps[c] /\ cpu[c] = "guest"

\* The unit of v that holds INTID i can be locked.
Lockable(v, i) == i \in SPI => ~distLock[v]

WriteCtlr(c, bits) ==
    /\ GuestWrites(c, "CTLR") /\ ~distLock[c]
    /\ ctlr' = [ctlr EXCEPT ![c] = bits]
    /\ UNCHANGED <<enable, pending, secure, router, queue, distLock, awake, lr, phys, cpu>>

WriteWaker(c, sleep) ==
    /\ GuestWrites(c, "WAKER")
    /\ awake' = [awake EXCEPT ![c] = ~sleep]
    /\ UNCHANGED <<dist, lr, phys, cpu>>

\* The bit is set, and an INTID that is already pending is triggered, without
\* its physical INTID.
WriteIsenabler(c, i) ==
    LET enabled == enable[c] \cup {i} IN
    /\ GuestWrites(c, "ISENABLER") /\ Lockable(c, i)
    /\ enable' = [enable EXCEPT ![c] = enabled]
    /\ IF i \in pending[c]
       THEN trigger_interrupt(c, c, i, FALSE, enabled, pending[c], "guest")
       ELSE UNCHANGED <<pending, lr, queue, sgi, distLock, cpu>>
    /\ UNCHANGED <<ctlr, secure, router, awake, timerLine, timerActive, rx, input>>

WriteIcenabler(c, i) ==
    /\ GuestWrites(c, "ICENABLER") /\ Lockable(c, i)
    /\ enable' = [enable EXCEPT ![c] = @ \ {i}]
    /\ UNCHANGED <<ctlr, pending, secure, router, queue, distLock, awake, lr, phys, cpu>>

\* The bit is set, whatever the gate says, and an enabled INTID is triggered.
WriteIspendr(c, i) ==
    LET pend == pending[c] \cup {i} IN
    /\ GuestWrites(c, "ISPENDR") /\ Lockable(c, i)
    /\ IF i \in enable[c]
       THEN trigger_interrupt(c, c, i, FALSE, enable[c], pend, "guest")
       ELSE /\ pending' = [pending EXCEPT ![c] = pend]
            /\ UNCHANGED <<lr, queue, sgi, distLock, cpu>>
    /\ UNCHANGED <<ctlr, enable, secure, router, awake, timerLine, timerActive, rx, input>>

WriteIcpendr(c, i) ==
    /\ GuestWrites(c, "ICPENDR") /\ Lockable(c, i)
    /\ pending' = [pending EXCEPT ![c] = @ \ {i}]
    /\ UNCHANGED <<ctlr, enable, secure, router, queue, distLock, awake, lr, phys, cpu>>

WriteIgrpmodr(c, ids) ==
    /\ GuestWrites(c, "IGRPMODR") /\ ~distLock[c]
    /\ secure' = [secure EXCEPT ![c] = ids]
    /\ UNCHANGED <<ctlr, enable, pending, router, queue, distLock, awake, lr, phys, cpu>>

\* Any array element can be written; the guest reaches element i at the offset
\* 0x6100 + 8 * i, which is the architecture's IROUTER of INTID i + 32.  The
\* value is stored as it comes.
WriteIrouter(c, i, t) ==
    /\ GuestWrites(c, "IROUTER") /\ ~distLock[c]
    /\ router' = [router EXCEPT ![c][i] = t]
    /\ UNCHANGED <<ctlr, enable, pending, secure, queue, distLock, awake, lr, phys, cpu>>

\* VIRTIO_MMIO_QUEUE_NOTIFY: VirtioBlkMmio::operation ends with a trigger.
QueueNotify(c) ==
    /\ GuestWrites(c, "QUEUE_NOTIFY") /\ ~distLock[c]
    /\ trigger_interrupt(c, c, BlkSPI, FALSE, enable[c], pending[c], "guest")
    /\ UNCHANGED <<ctlr, enable, secure, router, awake, timerLine, timerActive, rx, input>>

GuestMmio(c) ==
    \/ \E bits \in SUBSET {"grp1ns", "are_s"} : WriteCtlr(c, bits)
    \/ \E sleep \in BOOLEAN : WriteWaker(c, sleep)
    \/ \E i \in INTID : \/ WriteIsenabler(c, i) \/ WriteIcenabler(c, i)
                        \/ WriteIspendr(c, i) \/ WriteIcpendr(c, i)
    \/ \E ids \in SUBSET INTID : WriteIgrpmodr(c, ids)
    \/ \E i \in SPI, t \in Affinity : WriteIrouter(c, i, t)
    \/ QueueNotify(c)

-----------------------------------------------------------------------------
(* The virtual CPU interface and the devices (external) *)

\* The guest acknowledges a pending interrupt.
GuestAck(c, k) ==
    /\ cpu[c] = "guest" /\ lr[c][k].st = "pending"
    /\ lr' = [lr EXCEPT ![c][k].st = "active"]
    /\ UNCHANGED <<dist, awake, phys, cpu>>

\* The guest ends it.  A hardware entry deactivates the physical interrupt;
\* any other that becomes inactive raises its EISR bit.
GuestEoi(c, k) ==
    LET r == lr[c][k] IN
    /\ cpu[c] = "guest" /\ r.st \in {"active", "active_pending"}
    /\ lr' = [lr EXCEPT ![c][k] =
                IF r.st = "active_pending" THEN [r EXCEPT !.st = "pending"]
                ELSE IF r.hw THEN NoEntry ELSE [r EXCEPT !.st = "done"]]
    /\ timerActive' = [timerActive EXCEPT ![c] = @ /\ ~r.hw]
    /\ UNCHANGED <<dist, awake, sgi, timerLine, rx, input, cpu>>

\* The condition of a timer the guest has armed becomes true, or the guest
\* reprograms the timer.
TimerFires(c) ==
    /\ "TIMER" \in GuestOps[c] /\ ~timerLine[c]
    /\ timerLine' = [timerLine EXCEPT ![c] = TRUE]
    /\ UNCHANGED <<dist, awake, lr, sgi, timerActive, rx, input, cpu>>

TimerReprogrammed(c) ==
    /\ cpu[c] = "guest" /\ timerLine[c]
    /\ timerLine' = [timerLine EXCEPT ![c] = FALSE]
    /\ UNCHANGED <<dist, awake, lr, sgi, timerActive, rx, input, cpu>>

UartReceives ==
    /\ input > 0
    /\ input' = input - 1 /\ rx' = rx + 1
    /\ UNCHANGED <<dist, awake, lr, sgi, timerLine, timerActive, cpu>>

-----------------------------------------------------------------------------
(* exception.rs: irq_handler *)

\* What the physical GIC signals to the CPU.  The SGI is latched; the others
\* are level-sensitive, and the timer is not signalled again while active.
Signalled(c) ==
    {p \in Interrupt :
        \/ p = "inject" /\ sgi[c]
        \/ p = "maintenance" /\ \E k \in 1..NLR : Eisr(lr[c][k])
        \/ p = "timer" /\ timerLine[c] /\ ~timerActive[c]
        \/ p = "uart" /\ c = UartCPU /\ rx > 0}

\* The IRQ is taken from the guest and get_acknowledge makes it active.
Acknowledge(c, p) ==
    /\ cpu[c] = "guest" /\ p \in Signalled(c)
    /\ cpu' = [cpu EXCEPT ![c] = p]
    /\ sgi' = [sgi EXCEPT ![c] = @ /\ p # "inject"]
    /\ timerActive' = [timerActive EXCEPT ![c] = @ \/ p = "timer"]
    /\ UNCHANGED <<dist, awake, lr, timerLine, rx, input>>

\* inject_interrupt_handler takes the two locks of the current VM ...
LockForInjection(c) ==
    /\ cpu[c] = "inject" /\ ~distLock[c]
    /\ distLock' = [distLock EXCEPT ![c] = TRUE]
    /\ cpu' = [cpu EXCEPT ![c] = "draining"]
    /\ UNCHANGED <<ctlr, enable, pending, secure, router, queue, awake, lr, phys>>

\* ... moves the distributor's entries, then the redistributor's, to the list
\* registers, one by one ...
InjectOne(c, u) ==
    /\ cpu[c] = "draining"
    /\ u = "redist" => queue[c]["dist"] = <<>>
    /\ queue[c][u] # <<>>
    /\ LET e == Head(queue[c][u])
       IN  lr' = [lr EXCEPT ![c] = add_virtual_interrupt(@, e.id, e.hw)]
    /\ queue' = [queue EXCEPT ![c][u] = Tail(@)]
    /\ UNCHANGED <<ctlr, enable, pending, secure, router, distLock, awake, phys, cpu>>

\* Mutant: `if let` for `while let`, one entry per SGI.
InjectDoneEarly(c) ==
    /\ cpu[c] = "draining"
    /\ distLock' = [distLock EXCEPT ![c] = FALSE]
    /\ cpu' = [cpu EXCEPT ![c] = "eoi"]
    /\ UNCHANGED <<ctlr, enable, pending, secure, router, queue, awake, lr, phys>>

\* ... and returns when both lists are empty.
InjectDone(c) ==
    /\ cpu[c] = "draining"
    /\ \A u \in Unit : queue[c][u] = <<>>
    /\ distLock' = [distLock EXCEPT ![c] = FALSE]
    /\ cpu' = [cpu EXCEPT ![c] = "eoi"]
    /\ UNCHANGED <<ctlr, enable, pending, secure, router, queue, awake, lr, phys>>



\* One iteration of maintenance_interrupt_handler's loop, for the next register
\* whose EISR bit is set.
MaintainOne(c) ==
    \E k \in 1..NLR :
        /\ cpu[c] = "maintenance" /\ Lockable(c, lr[c][k].id)
        /\ Eisr(lr[c][k]) /\ \A j \in 1..(k-1) : ~Eisr(lr[c][j])
        /\ pending' = [pending EXCEPT ![c] = @ \ {lr[c][k].id}]
        /\ lr' = [lr EXCEPT ![c][k] = NoEntry]
        /\ UNCHANGED <<ctlr, enable, secure, router, queue, distLock, awake, phys, cpu>>

MaintenanceDone(c) ==
    /\ cpu[c] = "maintenance"
    /\ \A k \in 1..NLR : ~Eisr(lr[c][k])
    /\ cpu' = [cpu EXCEPT ![c] = "eoi"]
    /\ UNCHANGED <<dist, awake, lr, phys>>

\* Mutant: the timer's interrupt is triggered without its physical INTID.
generic_timer_interrupt_handler_soft(c) ==
    /\ cpu[c] = "timer"
    /\ trigger_interrupt(c, c, Timer, FALSE, enable[c], pending[c], "eoi_timer")
    /\ UNCHANGED <<ctlr, enable, secure, router, awake, timerLine, timerActive, rx, input>>

\* generic_timer.rs: the handler of the physical timer interrupt.
generic_timer_interrupt_handler(c) ==
    /\ cpu[c] = "timer"
    /\ trigger_interrupt(c, c, Timer, TRUE, enable[c], pending[c], "eoi_timer")
    /\ UNCHANGED <<ctlr, enable, secure, router, awake, timerLine, timerActive, rx, input>>

\* One iteration of handle_input with the console closed and VM v active:
\* Pl011Mmio::push triggers v's PL011 interrupt if v's guest has unmasked it.
InputOne(c, v, unmasked) ==
    /\ cpu[c] = "uart" /\ rx > 0 /\ (unmasked => ~distLock[v])
    /\ rx' = rx - 1
    /\ IF unmasked
       THEN trigger_interrupt(c, v, UartSPI, FALSE, enable[v], pending[v], "uart")
       ELSE UNCHANGED <<pending, lr, queue, sgi, distLock, cpu>>
    /\ UNCHANGED <<ctlr, enable, secure, router, awake, timerLine, timerActive, input>>

InputDone(c) ==
    /\ cpu[c] = "uart" /\ rx = 0
    /\ cpu' = [cpu EXCEPT ![c] = "eoi"]
    /\ UNCHANGED <<dist, awake, lr, phys>>

\* Mutant: irq_handler deactivates the timer as well.
EndOfInterruptAll(c) ==
    /\ cpu[c] \in {"eoi", "eoi_timer"}
    /\ timerActive' = [timerActive EXCEPT ![c] = @ /\ cpu[c] # "eoi_timer"]
    /\ cpu' = [cpu EXCEPT ![c] = "guest"]
    /\ UNCHANGED <<dist, awake, lr, sgi, timerLine, rx, input>>

\* drop_priority, deactivate (except for the timer), and eret to the guest.
EndOfInterrupt(c) ==
    /\ cpu[c] \in {"eoi", "eoi_timer"}
    /\ cpu' = [cpu EXCEPT ![c] = "guest"]
    /\ UNCHANGED <<dist, awake, lr, phys>>

irq_handler(c) ==
    \/ LockForInjection(c) \/ (\E u \in Unit : InjectOne(c, u)) \/ InjectDone(c)
    \/ MaintainOne(c) \/ MaintenanceDone(c)
    \/ generic_timer_interrupt_handler(c)
    \/ (\E v \in CPU, unmasked \in BOOLEAN : InputOne(c, v, unmasked)) \/ InputDone(c)
    \/ EndOfInterrupt(c)

-----------------------------------------------------------------------------
\* main.rs: the panic handler never returns.
Panicked(c) == cpu[c] = "panic" /\ UNCHANGED vars

Next ==
    \/ \E c \in CPU : \/ GuestMmio(c)
                      \/ \E k \in 1..NLR : GuestAck(c, k) \/ GuestEoi(c, k)
                      \/ TimerFires(c) \/ TimerReprogrammed(c)
                      \/ \E p \in Interrupt : Acknowledge(c, p)
                      \/ irq_handler(c)
                      \/ Panicked(c)
    \/ UartReceives

Spec == Init /\ [][Next]_vars

(***************************************************************************)
(* The hypervisor's share of fairness: a handler runs to its end, and the  *)
(* physical GIC, where all of these interrupts have priority 0x00, does    *)
(* not hold back the SGI (the lowest INTID) or the maintenance interrupt   *)
(* for ever while it delivers others.                                      *)
(***************************************************************************)
Fairness ==
    \A c \in CPU :
        /\ WF_vars(irq_handler(c))
        /\ \A p \in {"inject", "maintenance"} : SF_vars(Acknowledge(c, p))

\* The guest's share: a guest that uses the timer acknowledges what it is offered
\* and ends what it has acknowledged, however often it is interrupted.
GuestFairness ==
    \A c \in {v \in CPU : "TIMER" \in GuestOps[v]} : \A k \in 1..NLR :
        SF_vars(GuestAck(c, k) \/ GuestEoi(c, k))

FairSpec == Spec /\ Fairness

FairGuestSpec == FairSpec /\ GuestFairness

-----------------------------------------------------------------------------
(* Properties *)

TypeOK ==
    /\ ctlr \in [CPU -> SUBSET {"grp1ns", "are_s"}]
    /\ awake \in [CPU -> BOOLEAN]
    /\ enable \in [CPU -> SUBSET INTID]
    /\ pending \in [CPU -> SUBSET INTID]
    /\ secure \in [CPU -> SUBSET INTID]
    /\ router \in [CPU -> [SPI -> Affinity]]
    /\ queue \in [CPU -> [Unit -> Seq(Entry)]]
    /\ distLock \in [CPU -> BOOLEAN]
    /\ lr \in [CPU -> [1..NLR -> ListRegister]]
    /\ sgi \in [CPU -> BOOLEAN]
    /\ timerLine \in [CPU -> BOOLEAN]
    /\ timerActive \in [CPU -> BOOLEAN]
    /\ rx \in Nat
    /\ input \in Nat
    /\ cpu \in [CPU -> CpuState]

Live(r) == ~Inactive(r)

(***************************************************************************)
(* No lost wake-up: as long as an interrupt that another CPU queued for    *)
(* CPU v sits in v's to_inject_interrupt, v has the SGI pending or is      *)
(* still going to look at the list.  Acknowledging the SGI before the list *)
(* is locked, and draining all of it after one SGI, is what could go wrong.*)
(***************************************************************************)
QueuedIsSignalled ==
    \A v \in CPU, u \in Unit : \A n \in 1..Len(queue[v][u]) :
        queue[v][u][n].to = v => sgi[v] \/ cpu[v] \in {"inject", "draining"}

(***************************************************************************)
(* A list register that holds a pending or active interrupt keeps it until *)
(* the guest ends it: neither trigger_interrupt, the inject loop nor the   *)
(* maintenance handler replaces or clears it.                              *)
(***************************************************************************)
KeepsLive(c, k) ==
    Live(lr[c][k]) =>
        \/ lr'[c][k].id = lr[c][k].id /\ lr'[c][k].hw = lr[c][k].hw /\ Live(lr'[c][k])
        \/ lr[c][k].st = "active" /\ cpu[c] = "guest" /\ cpu'[c] = "guest"

LiveEntriesKept == [][\A c \in CPU, k \in 1..NLR : KeepsLive(c, k)]_vars

(***************************************************************************)
(* Physical timer interrupts are left active by irq_handler because        *)
(* "Deactivate はVGICが処理する" (exception.rs:273): once the handler has  *)
(* run, an active timer interrupt is owned by a hardware list register,    *)
(* whose EOI by the guest will deactivate it.                              *)
(***************************************************************************)
HwLive(c) == {k \in 1..NLR : Live(lr[c][k]) /\ lr[c][k].hw}

TimerOwnedByVgic ==
    \A c \in CPU : timerActive[c] /\ cpu[c] # "timer" => HwLive(c) # {}

(***************************************************************************)
(* Conversely a hardware entry is live only while its physical interrupt   *)
(* is active, and there is one at most: the guest's EOI never deactivates  *)
(* a timer interrupt that the hypervisor has not handed over yet.          *)
(***************************************************************************)
HwEntryOwnsTimer ==
    \A c \in CPU : Cardinality(HwLive(c)) <= 1 /\ (HwLive(c) # {} => timerActive[c])

\* What only a panic in a distributor does: CPU v is the one that panicked, or
\* its VM's distributor is locked for ever and v will wait for it.
Lost(v) == cpu[v] = "panic" \/ (distLock[v] /\ cpu[v] # "draining")

(***************************************************************************)
(* An interrupt queued for the VM's own CPU is eventually moved to a list  *)
(* register (or dropped there by an overflow), unless a guest's router     *)
(* value has made the assertion in the VM's distributor fail.              *)
(***************************************************************************)
QueueDrained ==
    \A v \in CPU :
        (\E n \in 1..Len(queue[v]["dist"]) : queue[v]["dist"][n].to = v)
            ~> queue[v]["dist"] = <<>> \/ Lost(v)


\* The physical timer interrupt is active, its handler has run, and there is no
\* hardware entry whose EOI would deactivate it.
TimerLost(c) == timerActive[c] /\ cpu[c] # "timer" /\ HwLive(c) = {}

\* The redistributor is awake, the timer's INTID is enabled and not secure, no
\* list register holds it and one is free.
CanHandOver(c) ==
    /\ awake[c] /\ Timer \in enable[c] \ secure[c]
    /\ \A k \in 1..NLR : Live(lr[c][k]) => lr[c][k].id # Timer
    /\ \E k \in 1..NLR : Inactive(lr[c][k])

(***************************************************************************)
(* TimerOwnedByVgic fails only where trigger_interrupt cannot deliver: a   *)
(* timer interrupt is lost only by its own handler, and only when the      *)
(* guest keeps it off or the list registers have no place for it.  No      *)
(* other step, on this CPU or another, ever loses one.                     *)
(***************************************************************************)
TimerHandedOver ==
    [][\A c \in CPU : TimerLost(c)' /\ ~TimerLost(c) => cpu[c] = "timer" /\ ~CanHandOver(c)]_vars

=============================================================================
