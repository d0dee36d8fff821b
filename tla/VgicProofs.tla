------------------------------ MODULE VgicProofs ------------------------------
(***************************************************************************)
(* Proofs about Vgic, for any set of CPUs and INTIDs and any number of     *)
(* list registers: types, no lost wake-up, that a live list register is    *)
(* never overwritten, that a hardware entry belongs to an active timer     *)
(* interrupt, and where the timer's handover can fail.                     *)
(***************************************************************************)
EXTENDS Vgic, SequenceTheorems, FiniteSetTheorems, WellFoundedInduction, TLAPS

Regs == [1..NLR -> ListRegister]

(***************************************************************************)
(* A set of register numbers has a first one, as the loop of               *)
(* add_virtual_interrupt finds it.                                         *)
(***************************************************************************)
LEMMA FirstExists ==
    ASSUME NEW S \in SUBSET (1..NLR), S # {}
    PROVE  \E n \in S : \A m \in S : n <= m
  <1>1. S \subseteq Nat
    BY BoundAssumption
  <1> DEFINE R == OpToRel(<, Nat)
  <1>2. IsWellFoundedOn(R, Nat)
    BY NatLessThanWellFounded
  <1>3. \A x, y \in Nat : <<y, x>> \in R <=> y < x
    BY DEF OpToRel
  <1> HIDE DEF R
  <1>4. \E x \in S : \A y \in S : ~(<<y, x>> \in R)
    BY <1>1, <1>2, WFMin, Zenon
  <1>5. \A x, y \in Nat : ~(y < x) => x <= y
    OBVIOUS
  <1> QED BY <1>1, <1>3, <1>4, <1>5, Zenon

(***************************************************************************)
(* add_virtual_interrupt returns list registers, and keeps every live one: *)
(* it may only become pending again.                                       *)
(***************************************************************************)
LEMMA AddKeepsLive ==
    ASSUME NEW regs \in Regs, NEW i \in INTID, NEW hw \in BOOLEAN,
           NEW new, new = add_virtual_interrupt(regs, i, hw)
    PROVE  /\ new \in Regs
           /\ \A k \in 1..NLR : Live(regs[k]) =>
                new[k].id = regs[k].id /\ new[k].hw = regs[k].hw /\ Live(new[k])
  <1> DEFINE usable == Usable(regs, i)
             k == CHOOSE n \in usable : \A m \in usable : n <= m
  <1>1. CASE usable = {}
    BY <1>1 DEF add_virtual_interrupt
  <1>2. CASE usable # {}
    <2>1. k \in usable
      <3>1. usable \in SUBSET (1..NLR)
        BY DEF Usable
      <3>2. \E n \in usable : \A m \in usable : n <= m
        BY <1>2, <3>1, FirstExists
      <3> HIDE DEF usable
      <3> QED BY <3>2
    <2>2. k \in 1..NLR
      BY <2>1 DEF Usable
    <2>3. CASE Inactive(regs[k])
      <3>1. new = [regs EXCEPT ![k] = create_list_register_entry(i, hw)]
        BY <1>2, <2>3 DEF add_virtual_interrupt
      <3>2. create_list_register_entry(i, hw) \in ListRegister
        BY DEF create_list_register_entry, ListRegister
      <3> HIDE DEF k
      <3> QED BY <2>2, <2>3, <3>1, <3>2 DEF Regs, Live
    <2>4. CASE ~Inactive(regs[k])
      <3> DEFINE st == regs[k].st
                 st2 == IF st = "active" THEN "active_pending" ELSE st
      <3>1. new = [regs EXCEPT ![k] = [regs[k] EXCEPT !.st = st2]]
        BY <1>2, <2>4 DEF add_virtual_interrupt
      <3>2. regs[k] \in ListRegister
        BY <2>2 DEF Regs
      <3>3. st2 \in {"pending", "active", "active_pending"}
        BY <2>4, <3>2 DEF ListRegister, Inactive
      <3> HIDE DEF k
      <3>4. /\ [regs[k] EXCEPT !.st = st2] \in ListRegister
            /\ [regs[k] EXCEPT !.st = st2].id = regs[k].id
            /\ [regs[k] EXCEPT !.st = st2].hw = regs[k].hw
            /\ [regs[k] EXCEPT !.st = st2].st = st2
        BY <3>2, <3>3 DEF ListRegister
      <3> QED BY <2>2, <3>1, <3>3, <3>4 DEF Regs, Live, Inactive
    <2> QED BY <2>3, <2>4
  <1> QED BY <1>1, <1>2

\* What a step that delivers an interrupt may do to a CPU's registers, the lists
\* and the SGIs.
KeepsRegisters ==
    \A x \in CPU, k \in 1..NLR : Live(lr[x][k]) =>
        lr'[x][k].id = lr[x][k].id /\ lr'[x][k].hw = lr[x][k].hw /\ Live(lr'[x][k])

QueuesWithSgi ==
    /\ \A x \in CPU : sgi[x] => sgi'[x]
    /\ \A x \in CPU, u \in Unit : \A n \in 1..Len(queue'[x][u]) :
        \/ n \in 1..Len(queue[x][u]) /\ queue'[x][u][n] = queue[x][u][n]
        \/ queue'[x][u][n].to \in CPU => sgi'[queue'[x][u][n].to]

DeliveryTypes ==
    /\ lr' \in [CPU -> Regs]
    /\ queue' \in [CPU -> [Unit -> Seq(Entry)]]
    /\ sgi' \in [CPU -> BOOLEAN]

\* CPU c goes on at `after`, or has panicked.
Moves(c, after) ==
    /\ \E st \in {after, "panic"} : cpu' = [cpu EXCEPT ![c] = st]
    /\ distLock' \in [CPU -> BOOLEAN]

(***************************************************************************)
(* Delivery keeps live registers, and whatever it queues for a CPU comes   *)
(* with an SGI to that CPU.                                                *)
(***************************************************************************)
LEMMA DeliverEffect ==
    ASSUME TypeOK, NEW c \in CPU, NEW v \in CPU, NEW i \in INTID, NEW hw \in BOOLEAN,
           NEW after, Deliver(c, v, i, hw, after)
    PROVE  DeliveryTypes /\ KeepsRegisters /\ QueuesWithSgi /\ Moves(c, after)
  <1> DEFINE t == Target(v, i)
             q == UnitOf(i)
             e == [id |-> i, hw |-> hw, to |-> t]
  <1>0. t \in Affinity /\ q \in Unit
    BY AffinityAssumption DEF Target, UnitOf, Unit, TypeOK, INTID
  <1>m. Moves(c, after)
    BY DEF Deliver, Continues, Panics, Moves, TypeOK
  <1>1. CASE /\ t = c
             /\ lr' = [lr EXCEPT ![c] = add_virtual_interrupt(@, i, hw)]
             /\ UNCHANGED <<queue, sgi>>
    <2>1. lr \in [CPU -> Regs]
      BY DEF TypeOK, Regs
    <2>2. PICK new : new = add_virtual_interrupt(lr[c], i, hw)
      OBVIOUS
    <2>3. /\ new \in Regs
          /\ \A k \in 1..NLR : Live(lr[c][k]) =>
                new[k].id = lr[c][k].id /\ new[k].hw = lr[c][k].hw /\ Live(new[k])
      BY <2>1, <2>2, AddKeepsLive
    <2>4. lr' = [lr EXCEPT ![c] = new]
      BY <1>1, <2>2
    <2>5. lr' \in [CPU -> Regs] /\ KeepsRegisters
      BY <2>1, <2>3, <2>4 DEF KeepsRegisters
    <2> QED BY <1>1, <1>m, <2>5 DEF DeliveryTypes, QueuesWithSgi, TypeOK
  <1>2. CASE /\ t # c
             /\ queue' = [queue EXCEPT ![v][q] = Append(@, e)]
             /\ \/ t \in WideAff0 /\ sgi' = sgi
                \/ sgi' = [x \in CPU |-> sgi[x] \/ x = t]
             /\ UNCHANGED lr
    <2>1. e \in Entry /\ e.to = t
      BY <1>0 DEF Entry
    <2>2. queue[v][q] \in Seq(Entry)
      BY <1>0 DEF TypeOK
    <2> HIDE DEF e, t, q
    <2>3. PICK s : s = Append(queue[v][q], e)
      OBVIOUS
    <2>4. /\ s \in Seq(Entry) /\ Len(s) = Len(queue[v][q]) + 1
          /\ \A n \in 1..Len(queue[v][q]) : s[n] = queue[v][q][n]
          /\ s[Len(queue[v][q]) + 1] = e
      BY <2>1, <2>2, <2>3
    <2>5. queue' = [queue EXCEPT ![v] = [queue[v] EXCEPT ![q] = s]]
      BY <1>2, <2>3
    <2>6. queue' \in [CPU -> [Unit -> Seq(Entry)]]
      BY <1>0, <2>4, <2>5 DEF TypeOK
    <2>7. /\ sgi' \in [CPU -> BOOLEAN]
          /\ t \in CPU => sgi'[t]
          /\ \A x \in CPU : sgi[x] => sgi'[x]
      BY <1>2, AffinityAssumption DEF TypeOK
    <2>8. ASSUME NEW x \in CPU, NEW u \in Unit, NEW n \in 1..Len(queue'[x][u])
          PROVE  \/ n \in 1..Len(queue[x][u]) /\ queue'[x][u][n] = queue[x][u][n]
                 \/ queue'[x][u][n].to \in CPU => sgi'[queue'[x][u][n].to]
      <3>1. CASE x = v /\ u = q
        <4>1. queue'[x][u] = s
          BY <1>0, <2>5, <3>1 DEF TypeOK
        <4>2. Len(queue[v][q]) \in Nat
          BY <2>2
        <4>3. n \in 1..Len(queue[v][q]) \/ n = Len(queue[v][q]) + 1
          BY <2>4, <4>1, <4>2
        <4> QED BY <2>1, <2>4, <2>7, <3>1, <4>1, <4>3
      <3>2. CASE ~(x = v /\ u = q)
        <4>1. queue'[x][u] = queue[x][u]
          BY <1>0, <2>5, <3>2 DEF TypeOK
        <4> QED BY <4>1
      <3> QED BY <3>1, <3>2
    <2>9. KeepsRegisters /\ lr' \in [CPU -> Regs]
      BY <1>2 DEF KeepsRegisters, TypeOK, Regs
    <2> QED BY <1>m, <2>6, <2>7, <2>8, <2>9 DEF DeliveryTypes, QueuesWithSgi
  <1> QED BY <1>1, <1>2 DEF Deliver

(***************************************************************************)
(* trigger_interrupt of either unit does no more than set a pending bit    *)
(* and deliver.                                                            *)
(***************************************************************************)
LEMMA TriggerEffect ==
    ASSUME TypeOK, NEW c \in CPU, NEW v \in CPU, NEW i \in INTID, NEW hw \in BOOLEAN,
           NEW enabled, NEW pend \in SUBSET INTID, NEW after,
           trigger_interrupt(c, v, i, hw, enabled, pend, after)
    PROVE  /\ pending' \in [CPU -> SUBSET INTID]
           /\ DeliveryTypes /\ KeepsRegisters /\ QueuesWithSgi /\ Moves(c, after)
  <1>1. pending' \in [CPU -> SUBSET INTID]
    <2>1. PICK p \in SUBSET INTID : pending' = [pending EXCEPT ![v] = p]
      <3>1. pend \cup {i} \in SUBSET INTID
        OBVIOUS
      <3> QED BY <3>1 DEF trigger_interrupt
    <2> QED BY <2>1 DEF TypeOK
  <1>2. CASE Deliver(c, v, i, hw, after)
    BY <1>1, <1>2, DeliverEffect
  <1>3. CASE Continues(c, after) /\ UNCHANGED <<lr, queue, sgi>>
    <2>1. lr' = lr /\ queue' = queue /\ sgi' = sgi
      BY <1>3
    <2>2. DeliveryTypes
      BY <2>1 DEF DeliveryTypes, TypeOK, Regs
    <2>3. KeepsRegisters
      BY <2>1 DEF KeepsRegisters
    <2>4. QueuesWithSgi
      BY <2>1 DEF QueuesWithSgi
    <2>5. Moves(c, after)
      BY <1>3 DEF Continues, Moves, TypeOK
    <2> QED BY <1>1, <2>2, <2>3, <2>4, <2>5
  <1> QED BY <1>2, <1>3 DEF trigger_interrupt

\* KeepsLive, and the end of a hardware entry deactivates the timer.
Keeps(c, k) ==
    Live(lr[c][k]) =>
        \/ lr'[c][k].id = lr[c][k].id /\ lr'[c][k].hw = lr[c][k].hw /\ Live(lr'[c][k])
        \/ /\ lr[c][k].st = "active" /\ cpu[c] = "guest" /\ cpu'[c] = "guest"
           /\ lr[c][k].hw => ~timerActive'[c]

\* What is to be shown of every step.
Goal == TypeOK' /\ QueuedIsSignalled' /\ (\A c \in CPU, k \in 1..NLR : Keeps(c, k))

(***************************************************************************)
(* Such a delivery, in a step that leaves the CPUs where they are or moves *)
(* them to another place outside the inject loop, keeps every queued       *)
(* interrupt signalled.                                                    *)
(***************************************************************************)
LEMMA DeliveryKeepsSignalled ==
    ASSUME TypeOK, QueuedIsSignalled, DeliveryTypes, QueuesWithSgi,
           \A x \in CPU : cpu[x] \in {"inject", "draining"} => cpu'[x] = cpu[x]
    PROVE  QueuedIsSignalled'
  <1> SUFFICES ASSUME NEW v \in CPU, NEW u \in Unit, NEW n \in 1..Len(queue'[v][u]),
                      queue'[v][u][n].to = v
               PROVE  sgi'[v] \/ cpu'[v] \in {"inject", "draining"}
    BY DEF QueuedIsSignalled
  <1>1. CASE n \in 1..Len(queue[v][u]) /\ queue'[v][u][n] = queue[v][u][n]
    <2>1. sgi[v] \/ cpu[v] \in {"inject", "draining"}
      BY <1>1 DEF QueuedIsSignalled
    <2> QED BY <2>1 DEF QueuesWithSgi
  <1>2. CASE queue'[v][u][n].to \in CPU => sgi'[queue'[v][u][n].to]
    BY <1>2
  <1> QED BY <1>1, <1>2 DEF QueuesWithSgi

(***************************************************************************)
(* A step that leaves the list registers, the lists, the SGIs and the CPUs *)
(* alone keeps what is to be shown of them.                                *)
(***************************************************************************)
LEMMA QuietStep ==
    ASSUME QueuedIsSignalled, UNCHANGED <<lr, queue, sgi, cpu>>
    PROVE  QueuedIsSignalled' /\ \A c \in CPU, k \in 1..NLR : Keeps(c, k)
  <1>1. lr' = lr /\ queue' = queue /\ sgi' = sgi /\ cpu' = cpu
    OBVIOUS
  <1>2. QueuedIsSignalled'
    BY <1>1 DEF QueuedIsSignalled
  <1>3. \A c \in CPU, k \in 1..NLR : Keeps(c, k)
    BY <1>1 DEF Keeps
  <1> QED BY <1>2, <1>3

(***************************************************************************)
(* The guest's register writes that only store a value, its timer, and a   *)
(* character that arrives.                                                 *)
(***************************************************************************)
LEMMA StoresStep ==
    ASSUME TypeOK, QueuedIsSignalled, NEW c \in CPU,
           \/ \E bits \in SUBSET {"grp1ns", "are_s"} : WriteCtlr(c, bits)
           \/ \E sleep \in BOOLEAN : WriteWaker(c, sleep)
           \/ \E i \in INTID : WriteIcenabler(c, i) \/ WriteIcpendr(c, i)
           \/ \E ids \in SUBSET INTID : WriteIgrpmodr(c, ids)
           \/ \E i \in SPI, t \in Affinity : WriteIrouter(c, i, t)
           \/ TimerFires(c) \/ TimerReprogrammed(c) \/ UartReceives
    PROVE  Goal
  <1> USE DEF dist, phys
  <1>1. UNCHANGED <<lr, queue, sgi, cpu>>
    BY DEF WriteCtlr, WriteWaker, WriteIcenabler, WriteIcpendr, WriteIgrpmodr, WriteIrouter,
           TimerFires, TimerReprogrammed, UartReceives
  <1>2. TypeOK'
    <2>1. ASSUME NEW bits \in SUBSET {"grp1ns", "are_s"}, WriteCtlr(c, bits) PROVE TypeOK'
      BY <2>1 DEF WriteCtlr, TypeOK
    <2>2. ASSUME NEW sleep \in BOOLEAN, WriteWaker(c, sleep) PROVE TypeOK'
      BY <2>2 DEF WriteWaker, TypeOK
    <2>3. ASSUME NEW i \in INTID, WriteIcenabler(c, i) PROVE TypeOK'
      BY <2>3 DEF WriteIcenabler, TypeOK
    <2>4. ASSUME NEW i \in INTID, WriteIcpendr(c, i) PROVE TypeOK'
      BY <2>4 DEF WriteIcpendr, TypeOK
    <2>5. ASSUME NEW ids \in SUBSET INTID, WriteIgrpmodr(c, ids) PROVE TypeOK'
      BY <2>5 DEF WriteIgrpmodr, TypeOK
    <2>6. ASSUME NEW i \in SPI, NEW t \in Affinity, WriteIrouter(c, i, t) PROVE TypeOK'
      BY <2>6 DEF WriteIrouter, TypeOK
    <2>7. CASE TimerFires(c)
      BY <2>7 DEF TimerFires, TypeOK
    <2>8. CASE TimerReprogrammed(c)
      BY <2>8 DEF TimerReprogrammed, TypeOK
    <2>9. CASE UartReceives
      BY <2>9 DEF UartReceives, TypeOK
    <2> QED BY <2>1, <2>2, <2>3, <2>4, <2>5, <2>6, <2>7, <2>8, <2>9
  <1> QED BY <1>1, <1>2, QuietStep DEF Goal

(***************************************************************************)
(* The steps that end in trigger_interrupt: three writes of the guest, the *)
(* timer's handler and the input of a character.                           *)
(***************************************************************************)
LEMMA TriggerStep ==
    ASSUME TypeOK, QueuedIsSignalled, NEW c \in CPU,
           \/ \E i \in INTID : WriteIsenabler(c, i) \/ WriteIspendr(c, i)
           \/ QueueNotify(c) \/ generic_timer_interrupt_handler(c)
           \/ \E v \in CPU, unmasked \in BOOLEAN : InputOne(c, v, unmasked)
    PROVE  Goal
  <1> DEFINE Effect == /\ pending' \in [CPU -> SUBSET INTID]
                       /\ DeliveryTypes /\ KeepsRegisters /\ QueuesWithSgi
             Others == /\ ctlr' \in [CPU -> SUBSET {"grp1ns", "are_s"}]
                       /\ enable' \in [CPU -> SUBSET INTID]
                       /\ secure' = secure /\ router' = router /\ awake' = awake
                       /\ timerLine' = timerLine /\ timerActive' = timerActive
                       /\ rx' \in Nat /\ input' = input
             Cpus == /\ distLock' \in [CPU -> BOOLEAN]
                     /\ cpu' \in [CPU -> CpuState]
                     /\ \A x \in CPU : cpu[x] \in {"inject", "draining"} => cpu'[x] = cpu[x]
  <1>0. ASSUME UNCHANGED <<pending, lr, queue, sgi>> PROVE Effect
    <2>1. lr' = lr /\ queue' = queue /\ sgi' = sgi /\ pending' = pending
      BY <1>0
    <2>2. DeliveryTypes /\ pending' \in [CPU -> SUBSET INTID]
      BY <2>1 DEF DeliveryTypes, TypeOK, Regs
    <2>3. KeepsRegisters
      BY <2>1 DEF KeepsRegisters
    <2>4. QueuesWithSgi
      BY <2>1 DEF QueuesWithSgi
    <2> QED BY <2>2, <2>3, <2>4
  <1>c. ASSUME cpu[c] \in {"guest", "timer", "uart"},
               \/ \E st \in {"guest", "eoi_timer", "uart"} : Moves(c, st)
               \/ UNCHANGED <<distLock, cpu>>
        PROVE  Cpus
    <2>1. /\ distLock' \in [CPU -> BOOLEAN]
          /\ cpu' = cpu \/ \E st \in {"guest", "eoi_timer", "uart", "panic"} :
                                cpu' = [cpu EXCEPT ![c] = st]
      BY <1>c DEF Moves, TypeOK
    <2>2. cpu \in [CPU -> CpuState] /\ {"guest", "eoi_timer", "uart", "panic"} \subseteq CpuState
      BY DEF TypeOK, CpuState, Interrupt
    <2>3. cpu' \in [CPU -> CpuState]
      BY <2>1, <2>2
    <2>4. \A x \in CPU : cpu[x] \in {"inject", "draining"} => cpu'[x] = cpu[x]
      BY <1>c, <2>1, <2>2
    <2> QED BY <2>1, <2>3, <2>4
  <1>i. Timer \in INTID /\ BlkSPI \in INTID /\ UartSPI \in INTID
    BY IntidAssumption DEF INTID
  <1>p. \A x \in CPU : pending[x] \in SUBSET INTID
    BY DEF TypeOK
  <1>1. ASSUME NEW i \in INTID, WriteIsenabler(c, i) PROVE Effect /\ Others /\ Cpus
    <2>1. Effect
      BY <1>0, <1>1, <1>p, TriggerEffect DEF WriteIsenabler
    <2>2. Others
      BY <1>1 DEF WriteIsenabler, TypeOK
    <2>3. Cpus
      <3>1. cpu[c] = "guest" /\ (Moves(c, "guest") \/ UNCHANGED <<distLock, cpu>>)
        BY <1>1, <1>p, TriggerEffect DEF WriteIsenabler, GuestWrites
      <3> QED BY <1>c, <3>1
    <2> QED BY <2>1, <2>2, <2>3
  <1>2. ASSUME NEW i \in INTID, WriteIspendr(c, i) PROVE Effect /\ Others /\ Cpus
    <2>1. Effect
      <3>1. pending[c] \cup {i} \in SUBSET INTID
        BY <1>p
      <3>2. CASE i \in enable[c]
        BY <1>2, <3>1, <3>2, TriggerEffect DEF WriteIspendr
      <3>3. CASE i \notin enable[c]
        <4>1. /\ pending' = [pending EXCEPT ![c] = pending[c] \cup {i}]
              /\ lr' = lr /\ queue' = queue /\ sgi' = sgi
          BY <1>2, <3>3 DEF WriteIspendr
        <4>2. DeliveryTypes /\ pending' \in [CPU -> SUBSET INTID]
          BY <3>1, <4>1 DEF DeliveryTypes, TypeOK, Regs
        <4>3. KeepsRegisters
          BY <4>1 DEF KeepsRegisters
        <4>4. QueuesWithSgi
          BY <4>1 DEF QueuesWithSgi
        <4> QED BY <4>2, <4>3, <4>4
      <3> QED BY <3>2, <3>3
    <2>2. Others
      BY <1>2 DEF WriteIspendr, TypeOK
    <2>3. Cpus
      <3>1. pending[c] \cup {i} \in SUBSET INTID
        BY <1>p
      <3>2. cpu[c] = "guest" /\ (Moves(c, "guest") \/ UNCHANGED <<distLock, cpu>>)
        BY <1>2, <3>1, TriggerEffect DEF WriteIspendr, GuestWrites
      <3> QED BY <1>c, <3>2
    <2> QED BY <2>1, <2>2, <2>3
  <1>3. ASSUME QueueNotify(c) PROVE Effect /\ Others /\ Cpus
    <2>1. Effect
      BY <1>3, <1>i, <1>p, TriggerEffect DEF QueueNotify
    <2>2. Others
      BY <1>3 DEF QueueNotify, TypeOK
    <2>3. Cpus
      <3>1. cpu[c] = "guest" /\ Moves(c, "guest")
        BY <1>3, <1>i, <1>p, TriggerEffect DEF QueueNotify, GuestWrites
      <3> QED BY <1>c, <3>1
    <2> QED BY <2>1, <2>2, <2>3
  <1>4. ASSUME generic_timer_interrupt_handler(c) PROVE Effect /\ Others /\ Cpus
    <2>1. Effect
      BY <1>4, <1>i, <1>p, TriggerEffect DEF generic_timer_interrupt_handler
    <2>2. Others
      BY <1>4 DEF generic_timer_interrupt_handler, TypeOK
    <2>3. Cpus
      <3>1. cpu[c] = "timer" /\ Moves(c, "eoi_timer")
        BY <1>4, <1>i, <1>p, TriggerEffect DEF generic_timer_interrupt_handler
      <3> QED BY <1>c, <3>1
    <2> QED BY <2>1, <2>2, <2>3
  <1>5. ASSUME NEW v \in CPU, NEW unmasked \in BOOLEAN, InputOne(c, v, unmasked)
        PROVE  Effect /\ Others /\ Cpus
    <2>1. Effect
      BY <1>0, <1>5, <1>i, <1>p, TriggerEffect DEF InputOne
    <2>2. Others
      BY <1>5 DEF InputOne, TypeOK
    <2>3. Cpus
      <3>1. cpu[c] = "uart" /\ (Moves(c, "uart") \/ UNCHANGED <<distLock, cpu>>)
        BY <1>5, <1>i, <1>p, TriggerEffect DEF InputOne
      <3> QED BY <1>c, <3>1
    <2> QED BY <2>1, <2>2, <2>3
  <1>6. Effect /\ Others /\ Cpus
    BY <1>1, <1>2, <1>3, <1>4, <1>5
  <1>7. TypeOK'
    BY <1>6 DEF TypeOK, DeliveryTypes, Regs
  <1>8. QueuedIsSignalled'
    BY <1>6, DeliveryKeepsSignalled
  <1>9. \A x \in CPU, k \in 1..NLR : Keeps(x, k)
    BY <1>6 DEF KeepsRegisters, Keeps
  <1> QED BY <1>7, <1>8, <1>9 DEF Goal

(***************************************************************************)
(* The guest's acknowledge and end of an interrupt: it may only end an     *)
(* active one.                                                             *)
(***************************************************************************)
LEMMA GuestStep ==
    ASSUME TypeOK, QueuedIsSignalled, NEW c \in CPU, NEW k \in 1..NLR,
           GuestAck(c, k) \/ GuestEoi(c, k)
    PROVE  Goal
  <1> USE DEF dist, phys
  <1>0. /\ queue' = queue /\ sgi' = sgi /\ cpu' = cpu /\ cpu[c] = "guest"
        /\ lr[c][k] \in ListRegister
    <2>1. lr[c][k] \in ListRegister
      <3>1. lr \in [CPU -> [1..NLR -> ListRegister]]
        BY DEF TypeOK
      <3> QED BY ONLY <3>1, c \in CPU, k \in 1..NLR
    <2>2. CASE GuestAck(c, k)
      BY <2>1, <2>2 DEF GuestAck
    <2>3. CASE GuestEoi(c, k)
      BY <2>1, <2>3 DEF GuestEoi
    <2> QED BY <2>2, <2>3
  <1>1. PICK r \in ListRegister :
            /\ lr' = [lr EXCEPT ![c] = [lr[c] EXCEPT ![k] = r]]
            /\ Live(lr[c][k]) =>
                \/ r.id = lr[c][k].id /\ r.hw = lr[c][k].hw /\ Live(r)
                \/ lr[c][k].st = "active" /\ (lr[c][k].hw => ~timerActive'[c])
    <2>1. CASE GuestAck(c, k)
      <3> DEFINE r == [lr[c][k] EXCEPT !.st = "active"]
      <3>1. r \in ListRegister /\ r.id = lr[c][k].id /\ r.hw = lr[c][k].hw /\ r.st = "active"
        BY <1>0 DEF ListRegister
      <3>2. lr' = [lr EXCEPT ![c] = [lr[c] EXCEPT ![k] = r]]
        BY <2>1 DEF GuestAck
      <3> QED BY <3>1, <3>2 DEF Live, Inactive
    <2>2. CASE GuestEoi(c, k)
      <3> DEFINE q == lr[c][k]
                 r == IF q.st = "active_pending" THEN [q EXCEPT !.st = "pending"]
                      ELSE IF q.hw THEN NoEntry ELSE [q EXCEPT !.st = "done"]
      <3>1. r \in ListRegister
        BY <1>0 DEF ListRegister, NoEntry, INTID
      <3>2. lr' = [lr EXCEPT ![c] = [lr[c] EXCEPT ![k] = r]]
        BY <2>2 DEF GuestEoi
      <3>3. \/ r.id = q.id /\ r.hw = q.hw /\ Live(r)
            \/ q.st = "active"
        BY <1>0, <2>2 DEF GuestEoi, ListRegister, Live, Inactive
      <3>4. q.hw => ~timerActive'[c]
        BY <2>2 DEF GuestEoi, TypeOK
      <3> QED BY <3>1, <3>2, <3>3, <3>4
    <2> QED BY <2>1, <2>2
  <1>2. lr' \in [CPU -> [1..NLR -> ListRegister]]
    BY <1>1 DEF TypeOK
  <1>3. timerActive' \in [CPU -> BOOLEAN]
    <2>1. CASE GuestAck(c, k)
      BY <2>1 DEF GuestAck, TypeOK
    <2>2. CASE GuestEoi(c, k)
      <3>1. (timerActive[c] /\ ~lr[c][k].hw) \in BOOLEAN
        BY Zenon
      <3> QED BY <2>2, <3>1 DEF GuestEoi, TypeOK
    <2> QED BY <2>1, <2>2
  <1>4. UNCHANGED <<ctlr, enable, pending, secure, router, distLock, awake, timerLine, rx, input>>
    BY DEF GuestAck, GuestEoi
  <1>5. TypeOK'
    BY <1>0, <1>2, <1>3, <1>4 DEF TypeOK
  <1>6. QueuedIsSignalled'
    BY <1>0 DEF QueuedIsSignalled
  <1>7. ASSUME NEW x \in CPU, NEW j \in 1..NLR PROVE Keeps(x, j)
    <2>1. CASE x = c /\ j = k
      <3>1. lr'[x][j] = r
        BY <1>1, <2>1 DEF TypeOK
      <3> QED BY <1>0, <1>1, <2>1, <3>1 DEF Keeps
    <2>2. CASE ~(x = c /\ j = k)
      <3>1. lr'[x][j] = lr[x][j]
        BY <1>1, <2>2 DEF TypeOK
      <3> QED BY <3>1 DEF Keeps
    <2> QED BY <2>1, <2>2
  <1> QED BY <1>5, <1>6, <1>7 DEF Goal

(***************************************************************************)
(* irq_handler takes an interrupt: the SGI is consumed only to go to the   *)
(* inject loop.                                                            *)
(***************************************************************************)
LEMMA AcknowledgeStep ==
    ASSUME TypeOK, QueuedIsSignalled, NEW c \in CPU, NEW p \in Interrupt, Acknowledge(c, p)
    PROVE  Goal
  <1> USE DEF dist, phys
  <1>1. /\ cpu[c] = "guest" /\ cpu' = [cpu EXCEPT ![c] = p]
        /\ sgi' = [sgi EXCEPT ![c] = sgi[c] /\ p # "inject"]
        /\ queue' = queue /\ lr' = lr
    BY DEF Acknowledge
  <1>2. TypeOK'
    <2>1. timerActive' \in [CPU -> BOOLEAN] /\ sgi' \in [CPU -> BOOLEAN]
      BY DEF Acknowledge, TypeOK
    <2>2. cpu' \in [CPU -> CpuState]
      BY <1>1 DEF TypeOK, CpuState
    <2> QED BY <1>1, <2>1, <2>2 DEF Acknowledge, TypeOK
  <1>3. QueuedIsSignalled'
    <2> SUFFICES ASSUME NEW v \in CPU, NEW u \in Unit, NEW n \in 1..Len(queue[v][u]),
                        queue[v][u][n].to = v
                 PROVE  sgi'[v] \/ cpu'[v] \in {"inject", "draining"}
      BY <1>1 DEF QueuedIsSignalled
    <2>1. sgi[v] \/ cpu[v] \in {"inject", "draining"}
      BY DEF QueuedIsSignalled
    <2>2. CASE v # c
      <3>1. sgi'[v] = sgi[v] /\ cpu'[v] = cpu[v]
        BY <1>1, <2>2 DEF TypeOK
      <3> QED BY <2>1, <3>1
    <2>3. CASE v = c
      <3>1. sgi[c] /\ sgi'[c] = (sgi[c] /\ p # "inject") /\ cpu'[c] = p
        BY <1>1, <2>1, <2>3 DEF TypeOK
      <3> QED BY <2>3, <3>1
    <2> QED BY <2>2, <2>3
  <1>4. \A x \in CPU, k \in 1..NLR : Keeps(x, k)
    BY <1>1 DEF Keeps
  <1> QED BY <1>2, <1>3, <1>4 DEF Goal

(***************************************************************************)
(* inject_interrupt_handler: it leaves the loop only with both lists       *)
(* empty, and until then counts as going to look at them.                  *)
(***************************************************************************)
LEMMA InjectStep ==
    ASSUME TypeOK, QueuedIsSignalled, NEW c \in CPU,
           LockForInjection(c) \/ (\E u \in Unit : InjectOne(c, u)) \/ InjectDone(c)
    PROVE  Goal
  <1> USE DEF dist, phys
  <1>1. CASE LockForInjection(c)
    <2>1. /\ queue' = queue /\ sgi' = sgi /\ lr' = lr
          /\ cpu[c] = "inject" /\ cpu' = [cpu EXCEPT ![c] = "draining"]
      BY <1>1 DEF LockForInjection
    <2>2. TypeOK'
      BY <1>1 DEF LockForInjection, TypeOK, CpuState
    <2>3. QueuedIsSignalled'
      BY <2>1 DEF QueuedIsSignalled, TypeOK
    <2>4. \A x \in CPU, k \in 1..NLR : Keeps(x, k)
      BY <2>1 DEF Keeps
    <2> QED BY <2>2, <2>3, <2>4 DEF Goal
  <1>2. CASE InjectDone(c)
    <2>1. /\ queue' = queue /\ sgi' = sgi /\ lr' = lr
          /\ cpu' = [cpu EXCEPT ![c] = "eoi"]
          /\ \A u \in Unit : queue[c][u] = <<>>
      BY <1>2 DEF InjectDone
    <2>2. TypeOK'
      BY <1>2 DEF InjectDone, TypeOK, CpuState
    <2>3. QueuedIsSignalled'
      <3> SUFFICES ASSUME NEW v \in CPU, NEW u \in Unit, NEW n \in 1..Len(queue[v][u]),
                          queue[v][u][n].to = v
                   PROVE  sgi[v] \/ cpu'[v] \in {"inject", "draining"}
        BY <2>1 DEF QueuedIsSignalled
      <3>1. v # c
        BY <2>1
      <3>2. cpu'[v] = cpu[v]
        BY <2>1, <3>1 DEF TypeOK
      <3> QED BY <3>2 DEF QueuedIsSignalled
    <2>4. \A x \in CPU, k \in 1..NLR : Keeps(x, k)
      BY <2>1 DEF Keeps
    <2> QED BY <2>2, <2>3, <2>4 DEF Goal
  <1>3. ASSUME NEW u \in Unit, InjectOne(c, u) PROVE Goal
    <2> DEFINE q == queue[c][u]
    <2>1. /\ cpu[c] = "draining" /\ cpu' = cpu /\ sgi' = sgi
          /\ q # <<>> /\ queue' = [queue EXCEPT ![c] = [queue[c] EXCEPT ![u] = Tail(q)]]
          /\ lr' = [lr EXCEPT ![c] = add_virtual_interrupt(lr[c], Head(q).id, Head(q).hw)]
      BY <1>3 DEF InjectOne
    <2>2. q \in Seq(Entry)
      BY DEF TypeOK
    <2>3. Head(q) \in Entry /\ Tail(q) \in Seq(Entry)
      BY <2>1, <2>2
    <2>4. Head(q).id \in INTID /\ Head(q).hw \in BOOLEAN
      BY <2>3 DEF Entry
    <2> HIDE DEF q
    <2>5. PICK new : new = add_virtual_interrupt(lr[c], Head(q).id, Head(q).hw)
      OBVIOUS
    <2>6. lr \in [CPU -> Regs] /\ lr[c] \in Regs
      BY DEF TypeOK, Regs
    <2>7. /\ new \in Regs
          /\ \A k \in 1..NLR : Live(lr[c][k]) =>
                new[k].id = lr[c][k].id /\ new[k].hw = lr[c][k].hw /\ Live(new[k])
      BY <2>4, <2>5, <2>6, AddKeepsLive
    <2>8. lr' = [lr EXCEPT ![c] = new]
      BY <2>1, <2>5
    <2>9. lr' \in [CPU -> Regs] /\ KeepsRegisters
      BY <2>6, <2>7, <2>8 DEF KeepsRegisters
    <2>10. queue' \in [CPU -> [Unit -> Seq(Entry)]]
      BY <2>1, <2>3 DEF TypeOK
    <2>11. TypeOK'
      <3>1. UNCHANGED <<ctlr, enable, pending, secure, router, distLock, awake, timerLine,
                        timerActive, rx, input>>
        BY <1>3 DEF InjectOne
      <3> QED BY <2>1, <2>9, <2>10, <3>1 DEF TypeOK, Regs
    <2>12. QueuedIsSignalled'
      <3> SUFFICES ASSUME NEW v \in CPU, NEW w \in Unit, NEW n \in 1..Len(queue'[v][w]),
                          queue'[v][w][n].to = v
                   PROVE  sgi[v] \/ cpu[v] \in {"inject", "draining"}
        BY <2>1 DEF QueuedIsSignalled
      <3>1. CASE v = c
        BY <2>1, <3>1
      <3>2. CASE v # c
        <4>1. queue'[v] = queue[v]
          BY <2>1, <3>2 DEF TypeOK
        <4> QED BY <4>1 DEF QueuedIsSignalled
      <3> QED BY <3>1, <3>2
    <2>13. \A x \in CPU, k \in 1..NLR : Keeps(x, k)
      BY <2>9 DEF KeepsRegisters, Keeps
    <2> QED BY <2>11, <2>12, <2>13 DEF Goal
  <1> QED BY <1>1, <1>2, <1>3

(***************************************************************************)
(* The maintenance handler clears only registers whose EISR bit is set,    *)
(* and the other handlers end without touching one.                        *)
(***************************************************************************)
LEMMA HandlerStep ==
    ASSUME TypeOK, QueuedIsSignalled, NEW c \in CPU,
           MaintainOne(c) \/ MaintenanceDone(c) \/ InputDone(c) \/ EndOfInterrupt(c)
    PROVE  Goal
  <1> USE DEF dist, phys
  <1>1. CASE MaintainOne(c)
    <2>1. PICK k \in 1..NLR :
            /\ lr[c][k].st = "done"
            /\ pending' = [pending EXCEPT ![c] = pending[c] \ {lr[c][k].id}]
            /\ lr' = [lr EXCEPT ![c] = [lr[c] EXCEPT ![k] = NoEntry]]
            /\ UNCHANGED <<ctlr, enable, secure, router, queue, distLock, awake, sgi,
                           timerLine, timerActive, rx, input, cpu>>
      BY <1>1 DEF MaintainOne, Eisr
    <2>2. NoEntry \in ListRegister
      BY DEF NoEntry, ListRegister, INTID
    <2>3. lr' \in [CPU -> [1..NLR -> ListRegister]]
      BY <2>1, <2>2 DEF TypeOK
    <2>4. pending' \in [CPU -> SUBSET INTID]
      BY <2>1 DEF TypeOK
    <2>5. TypeOK'
      BY <2>1, <2>3, <2>4 DEF TypeOK
    <2>6. QueuedIsSignalled'
      <3>1. queue' = queue /\ sgi' = sgi /\ cpu' = cpu
        BY <2>1
      <3> QED BY <3>1 DEF QueuedIsSignalled
    <2>7. ASSUME NEW x \in CPU, NEW j \in 1..NLR PROVE Keeps(x, j)
      <3>1. CASE x = c /\ j = k
        BY <2>1, <3>1 DEF Keeps, Live, Inactive
      <3>2. CASE ~(x = c /\ j = k)
        <4>1. lr'[x][j] = lr[x][j]
          BY <2>1, <3>2 DEF TypeOK
        <4> QED BY <4>1 DEF Keeps
      <3> QED BY <3>1, <3>2
    <2> QED BY <2>5, <2>6, <2>7 DEF Goal
  <1>2. CASE MaintenanceDone(c) \/ InputDone(c) \/ EndOfInterrupt(c)
    <2>1. /\ cpu[c] \in {"maintenance", "uart", "eoi", "eoi_timer"}
          /\ UNCHANGED <<dist, awake, lr, phys>>
          /\ cpu' = [cpu EXCEPT ![c] = "eoi"] \/ cpu' = [cpu EXCEPT ![c] = "guest"]
      BY <1>2 DEF MaintenanceDone, InputDone, EndOfInterrupt
    <2>2. /\ cpu' \in [CPU -> CpuState]
          /\ \A x \in CPU : cpu[x] \in {"inject", "draining"} => cpu'[x] = cpu[x]
      BY <2>1 DEF TypeOK, CpuState
    <2>3. TypeOK'
      BY <2>1, <2>2 DEF TypeOK
    <2>4. queue' = queue /\ sgi' = sgi /\ lr' = lr
      BY <2>1
    <2>5. QueuedIsSignalled'
      BY <2>2, <2>4 DEF QueuedIsSignalled
    <2>6. \A x \in CPU, k \in 1..NLR : Keeps(x, k)
      BY <2>4 DEF Keeps
    <2> QED BY <2>3, <2>5, <2>6 DEF Goal
  <1> QED BY <1>1, <1>2

(***************************************************************************)
(* Every step of the hypervisor, the guests and the hardware.              *)
(***************************************************************************)
LEMMA EveryStep ==
    ASSUME TypeOK, QueuedIsSignalled, Next
    PROVE  Goal
  <1>1. ASSUME NEW c \in CPU, GuestMmio(c) PROVE Goal
    BY <1>1, StoresStep, TriggerStep DEF GuestMmio
  <1>2. ASSUME NEW c \in CPU, NEW k \in 1..NLR, GuestAck(c, k) \/ GuestEoi(c, k) PROVE Goal
    BY <1>2, GuestStep
  <1>3. ASSUME NEW c \in CPU, TimerFires(c) \/ TimerReprogrammed(c) PROVE Goal
    BY <1>3, StoresStep
  <1>4. ASSUME NEW c \in CPU, NEW p \in Interrupt, Acknowledge(c, p) PROVE Goal
    BY <1>4, AcknowledgeStep
  <1>5. ASSUME NEW c \in CPU, irq_handler(c) PROVE Goal
    BY <1>5, InjectStep, HandlerStep, TriggerStep DEF irq_handler
  <1>6. CASE UartReceives
    BY <1>6, StoresStep, CpuAssumption
  <1>7. ASSUME NEW c \in CPU, Panicked(c) PROVE Goal
    <2>1. UNCHANGED vars
      BY <1>7 DEF Panicked
    <2>2. TypeOK'
      BY <2>1 DEF vars, dist, phys, TypeOK
    <2> QED BY <2>1, <2>2, QuietStep DEF vars, dist, phys, Goal
  <1> QED BY <1>1, <1>2, <1>3, <1>4, <1>5, <1>6, <1>7 DEF Next

(***************************************************************************)
(* No lost wake-up, together with the types: the pair is inductive.        *)
(***************************************************************************)
LEMMA Invariance == Spec => [](TypeOK /\ QueuedIsSignalled)
  <1>1. Init => TypeOK /\ QueuedIsSignalled
    <2> SUFFICES ASSUME Init PROVE TypeOK /\ QueuedIsSignalled
      OBVIOUS
    <2>1. QueuedIsSignalled
      BY DEF Init, QueuedIsSignalled
    <2>2. NoEntry \in ListRegister
      BY DEF NoEntry, ListRegister, INTID
    <2>3. /\ lr \in [CPU -> [1..NLR -> ListRegister]]
          /\ queue \in [CPU -> [Unit -> Seq(Entry)]]
          /\ router \in [CPU -> [SPI -> Affinity]]
      BY <2>2, CpuAssumption, AffinityAssumption DEF Init
    <2>4. rx \in Nat /\ input \in Nat /\ cpu \in [CPU -> CpuState]
      BY BoundAssumption DEF Init, CpuState
    <2>5. /\ ctlr \in [CPU -> SUBSET {"grp1ns", "are_s"}]
          /\ enable \in [CPU -> SUBSET INTID]
          /\ pending \in [CPU -> SUBSET INTID] /\ secure \in [CPU -> SUBSET INTID]
      BY DEF Init
    <2>6. /\ awake \in [CPU -> BOOLEAN] /\ distLock \in [CPU -> BOOLEAN]
          /\ sgi \in [CPU -> BOOLEAN]
          /\ timerLine \in [CPU -> BOOLEAN] /\ timerActive \in [CPU -> BOOLEAN]
      BY BootedAssumption DEF Init
    <2> QED BY <2>1, <2>3, <2>4, <2>5, <2>6 DEF TypeOK
  <1>2. TypeOK /\ QueuedIsSignalled /\ [Next]_vars => (TypeOK /\ QueuedIsSignalled)'
    <2>1. ASSUME TypeOK, QueuedIsSignalled, Next PROVE (TypeOK /\ QueuedIsSignalled)'
      BY <2>1, EveryStep DEF Goal
    <2>2. ASSUME TypeOK, QueuedIsSignalled, UNCHANGED vars
          PROVE  (TypeOK /\ QueuedIsSignalled)'
      <3>1. QueuedIsSignalled'
        BY <2>2, QuietStep DEF vars, dist, phys
      <3>2. TypeOK'
        BY <2>2 DEF vars, dist, phys, TypeOK
      <3> QED BY <3>1, <3>2
    <2> QED BY <2>1, <2>2
  <1> QED BY <1>1, <1>2, PTL DEF Spec

(***************************************************************************)
(* The state of the emulated GICs and the list registers keeps its types.  *)
(***************************************************************************)
THEOREM TypeCorrect == Spec => []TypeOK
  BY Invariance, PTL

(***************************************************************************)
(* An interrupt that waits in to_inject_interrupt of the CPU it was sent   *)
(* to has the SGI pending or the inject handler on its way, for any number *)
(* of CPUs and whatever their guests write.                                *)
(***************************************************************************)
THEOREM NoLostWakeUp == Spec => []QueuedIsSignalled
  BY Invariance, PTL

(***************************************************************************)
(* No step but the guest's own end of interrupt takes a live interrupt out *)
(* of a list register, for any number of list registers.                   *)
(***************************************************************************)
THEOREM LiveKept == Spec => LiveEntriesKept
  <1>1. ASSUME TypeOK, QueuedIsSignalled, [Next]_vars
        PROVE  [\A c \in CPU, k \in 1..NLR : KeepsLive(c, k)]_vars
    BY <1>1, EveryStep DEF Goal, Keeps, KeepsLive
  <1> QED BY <1>1, Invariance, PTL DEF Spec, LiveEntriesKept

-----------------------------------------------------------------------------
(* The hardware entry and the physical timer interrupt *)

\* Register k of a CPU holds a live entry that is backed by the physical timer.
HwIn(r) == Live(r) /\ r.hw

\* Everything another CPU queues is an SPI without a physical INTID.
QueueSoft ==
    \A x \in CPU, u \in Unit : \A n \in 1..Len(queue[x][u]) :
        queue[x][u][n].id \in SPI /\ ~queue[x][u][n].hw

\* The hardware entry is the timer's, is never pending and active at once, is the
\* only one, and lives only between the timer handler and the guest's EOI.
HwInv ==
    /\ QueueSoft
    /\ \A x \in CPU : cpu[x] = "timer" => timerActive[x]
    /\ \A x \in CPU, k \in 1..NLR : HwIn(lr[x][k]) =>
        /\ lr[x][k].id = Timer /\ lr[x][k].st \in {"pending", "active"}
        /\ timerActive[x] /\ cpu[x] # "timer"
    /\ \A x \in CPU, j, k \in 1..NLR : HwIn(lr[x][j]) /\ HwIn(lr[x][k]) => j = k

\* What add_virtual_interrupt may do to the registers.
OneChanged(regs, i, hw, new) ==
    \E k \in 1..NLR :
        /\ \A j \in 1..NLR : j # k => new[j] = regs[j]
        /\ \/ /\ Inactive(regs[k])
              /\ new[k].id = i /\ new[k].hw = hw /\ new[k].st = "pending"
           \/ /\ Live(regs[k]) /\ regs[k].id = i
              /\ new[k].id = i /\ new[k].hw = regs[k].hw

(***************************************************************************)
(* add_virtual_interrupt changes one register at most: an inactive one     *)
(* takes the new entry, or one with the same INTID becomes pending again.  *)
(***************************************************************************)
LEMMA AddTouchesOne ==
    ASSUME NEW regs \in Regs, NEW i \in INTID, NEW hw \in BOOLEAN,
           NEW new, new = add_virtual_interrupt(regs, i, hw)
    PROVE  new = regs \/ OneChanged(regs, i, hw, new)
  <1> DEFINE usable == Usable(regs, i)
             k == CHOOSE n \in usable : \A m \in usable : n <= m
  <1>1. CASE usable = {}
    BY <1>1 DEF add_virtual_interrupt
  <1>2. CASE usable # {}
    <2>1. k \in usable
      <3>1. usable \in SUBSET (1..NLR)
        BY DEF Usable
      <3>2. \E n \in usable : \A m \in usable : n <= m
        BY <1>2, <3>1, FirstExists
      <3> HIDE DEF usable
      <3> QED BY <3>2
    <2>2. k \in 1..NLR /\ (Inactive(regs[k]) \/ regs[k].id = i)
      BY <2>1 DEF Usable
    <2>3. CASE Inactive(regs[k])
      <3>1. new = [regs EXCEPT ![k] = create_list_register_entry(i, hw)]
        BY <1>2, <2>3 DEF add_virtual_interrupt
      <3> DEFINE r == create_list_register_entry(i, hw)
      <3>2. r.id = i /\ r.hw = hw /\ r.st = "pending"
        BY DEF create_list_register_entry
      <3> HIDE DEF k, r
      <3>3. new[k] = r /\ \A j \in 1..NLR : j # k => new[j] = regs[j]
        BY <2>2, <3>1 DEF Regs, r
      <3> QED BY <2>2, <2>3, <3>2, <3>3 DEF OneChanged
    <2>4. CASE ~Inactive(regs[k])
      <3> DEFINE st == regs[k].st
                 st2 == IF st = "active" THEN "active_pending" ELSE st
                 r == [regs[k] EXCEPT !.st = st2]
      <3>1. new = [regs EXCEPT ![k] = r]
        BY <1>2, <2>4 DEF add_virtual_interrupt
      <3>2. regs[k] \in ListRegister
        BY <2>2 DEF Regs
      <3> HIDE DEF k
      <3>3. r.id = regs[k].id /\ r.hw = regs[k].hw
        BY <3>2 DEF ListRegister
      <3> HIDE DEF r
      <3>4. /\ \A j \in 1..NLR : j # k => new[j] = regs[j]
            /\ new[k] = r
        BY <2>2, <3>1 DEF Regs
      <3> QED BY <2>2, <2>4, <3>3, <3>4 DEF Live, OneChanged
    <2> QED BY <2>3, <2>4
  <1> QED BY <1>1, <1>2

(***************************************************************************)
(* An SPI never becomes a hardware entry and leaves the timer's alone.     *)
(***************************************************************************)
LEMMA AddSpi ==
    ASSUME NEW regs \in Regs, NEW i \in SPI,
           \A k \in 1..NLR : HwIn(regs[k]) => regs[k].id = Timer,
           NEW new, new = add_virtual_interrupt(regs, i, FALSE)
    PROVE  \A k \in 1..NLR : HwIn(new[k]) => new[k] = regs[k]
  <1>1. i \in INTID /\ i # Timer /\ FALSE \in BOOLEAN
    BY IntidAssumption DEF INTID
  <1>2. CASE new = regs
    BY <1>2
  <1>3. ASSUME NEW k \in 1..NLR,
               \A j \in 1..NLR : j # k => new[j] = regs[j],
               \/ /\ Inactive(regs[k])
                  /\ new[k].id = i /\ new[k].hw = FALSE /\ new[k].st = "pending"
               \/ /\ Live(regs[k]) /\ regs[k].id = i
                  /\ new[k].id = i /\ new[k].hw = regs[k].hw
        PROVE  \A j \in 1..NLR : HwIn(new[j]) => new[j] = regs[j]
    <2>1. ~HwIn(new[k])
      <3>1. CASE new[k].id = i /\ new[k].hw = FALSE /\ new[k].st = "pending"
        BY <3>1 DEF HwIn
      <3>2. CASE Live(regs[k]) /\ regs[k].id = i /\ new[k].hw = regs[k].hw
        <4>1. ~HwIn(regs[k])
          BY <1>1, <3>2
        <4> QED BY <3>2, <4>1, Zenon DEF HwIn
      <3> QED BY <1>3, <3>1, <3>2
    <2> QED BY <1>3, <2>1
  <1>4. new = regs \/ OneChanged(regs, i, FALSE, new)
    BY <1>1, AddTouchesOne
  <1> QED BY <1>2, <1>3, <1>4 DEF OneChanged

(***************************************************************************)
(* The timer's interrupt, added when there is no hardware entry, makes one *)
(* at most, and it is pending.                                             *)
(***************************************************************************)
LEMMA AddTimer ==
    ASSUME NEW regs \in Regs, \A k \in 1..NLR : ~HwIn(regs[k]),
           NEW new, new = add_virtual_interrupt(regs, Timer, TRUE)
    PROVE  /\ \A k \in 1..NLR : HwIn(new[k]) => new[k].id = Timer /\ new[k].st = "pending"
           /\ \A j, k \in 1..NLR : HwIn(new[j]) /\ HwIn(new[k]) => j = k
  <1>1. Timer \in INTID /\ TRUE \in BOOLEAN
    BY DEF INTID
  <1>2. CASE new = regs
    BY <1>2
  <1>3. ASSUME NEW k \in 1..NLR,
               \A j \in 1..NLR : j # k => new[j] = regs[j],
               \/ /\ Inactive(regs[k])
                  /\ new[k].id = Timer /\ new[k].hw = TRUE /\ new[k].st = "pending"
               \/ /\ Live(regs[k]) /\ regs[k].id = Timer
                  /\ new[k].id = Timer /\ new[k].hw = regs[k].hw
        PROVE  /\ \A j \in 1..NLR : HwIn(new[j]) => j = k
               /\ HwIn(new[k]) => new[k].id = Timer /\ new[k].st = "pending"
    <2>1. \A j \in 1..NLR : HwIn(new[j]) => j = k
      BY <1>3
    <2>2. HwIn(new[k]) => new[k].id = Timer /\ new[k].st = "pending"
      <3>1. CASE new[k].id = Timer /\ new[k].hw = TRUE /\ new[k].st = "pending"
        BY <3>1
      <3>2. CASE Live(regs[k]) /\ new[k].hw = regs[k].hw
        <4>1. ~HwIn(regs[k])
          OBVIOUS
        <4> QED BY <3>2, <4>1, Zenon DEF HwIn
      <3> QED BY <1>3, <3>1, <3>2
    <2> QED BY <2>1, <2>2
  <1>4. new = regs \/ OneChanged(regs, Timer, TRUE, new)
    BY <1>1, AddTouchesOne
  <1>5. CASE \E k \in 1..NLR :
                /\ \A j \in 1..NLR : HwIn(new[j]) => j = k
                /\ HwIn(new[k]) => new[k].id = Timer /\ new[k].st = "pending"
    BY <1>5
  <1> QED BY <1>2, <1>3, <1>4, <1>5 DEF OneChanged

\* No hardware entry appears or changes.
KeepsHw == \A x \in CPU, k \in 1..NLR : HwIn(lr'[x][k]) => lr'[x][k] = lr[x][k]

(***************************************************************************)
(* Such a step keeps the invariant if it neither deactivates the timer nor *)
(* enters its handler.                                                     *)
(***************************************************************************)
LEMMA KeepsHwStep ==
    ASSUME HwInv, KeepsHw, QueueSoft',
           \A x \in CPU : timerActive[x] => timerActive'[x],
           \A x \in CPU : cpu'[x] = "timer" => cpu[x] = "timer"
    PROVE  HwInv'
  <1>1. \A x \in CPU : cpu'[x] = "timer" => timerActive'[x]
    BY DEF HwInv
  <1>2. ASSUME NEW x \in CPU, NEW k \in 1..NLR, HwIn(lr'[x][k])
        PROVE  /\ lr'[x][k].id = Timer /\ lr'[x][k].st \in {"pending", "active"}
               /\ timerActive'[x] /\ cpu'[x] # "timer"
               /\ HwIn(lr[x][k])
    <2>1. lr'[x][k] = lr[x][k]
      BY <1>2 DEF KeepsHw
    <2>2. HwIn(lr[x][k])
      BY <1>2, <2>1
    <2> QED BY <2>1, <2>2 DEF HwInv
  <1>3. ASSUME NEW x \in CPU, NEW j \in 1..NLR, NEW k \in 1..NLR,
               HwIn(lr'[x][j]), HwIn(lr'[x][k])
        PROVE  j = k
    BY <1>2, <1>3 DEF HwInv
  <1>4. HwInv' <=>
            /\ QueueSoft'
            /\ \A x \in CPU : cpu'[x] = "timer" => timerActive'[x]
            /\ \A x \in CPU, k \in 1..NLR : HwIn(lr'[x][k]) =>
                /\ lr'[x][k].id = Timer /\ lr'[x][k].st \in {"pending", "active"}
                /\ timerActive'[x] /\ cpu'[x] # "timer"
            /\ \A x \in CPU, j, k \in 1..NLR : HwIn(lr'[x][j]) /\ HwIn(lr'[x][k]) => j = k
    BY DEF HwInv, HwIn, Live, Inactive
  <1> QED BY <1>1, <1>2, <1>3, <1>4

(***************************************************************************)
(* trigger_interrupt for an SPI: no hardware entry changes, and what is    *)
(* queued is an SPI without a physical INTID.                              *)
(***************************************************************************)
LEMMA TriggerSpi ==
    ASSUME TypeOK, HwInv, NEW c \in CPU, NEW v \in CPU, NEW i \in SPI, NEW enabled, NEW pend,
           NEW after, trigger_interrupt(c, v, i, FALSE, enabled, pend, after)
    PROVE  KeepsHw /\ QueueSoft'
  <1>1. CASE lr' = lr /\ queue' = queue
    BY <1>1 DEF KeepsHw, HwInv, QueueSoft
  <1>2. CASE Deliver(c, v, i, FALSE, after)
    <2> DEFINE t == Target(v, i)
               q == UnitOf(i)
               e == [id |-> i, hw |-> FALSE, to |-> t]
    <2>0. q \in Unit /\ lr \in [CPU -> Regs]
      BY DEF UnitOf, Unit, TypeOK, Regs
    <2>1. CASE lr' = [lr EXCEPT ![c] = add_virtual_interrupt(@, i, FALSE)] /\ queue' = queue
      <3>1. PICK new : new = add_virtual_interrupt(lr[c], i, FALSE)
        OBVIOUS
      <3>2. \A k \in 1..NLR : HwIn(lr[c][k]) => lr[c][k].id = Timer
        BY DEF HwInv
      <3>3. \A k \in 1..NLR : HwIn(new[k]) => new[k] = lr[c][k]
        BY <2>0, <3>1, <3>2, AddSpi
      <3>4. lr' = [lr EXCEPT ![c] = new]
        BY <2>1, <3>1
      <3>5. KeepsHw
        BY <2>0, <3>3, <3>4 DEF KeepsHw
      <3> QED BY <2>1, <3>5 DEF HwInv, QueueSoft
    <2>2. CASE lr' = lr /\ queue' = [queue EXCEPT ![v][q] = Append(@, e)]
      <3>1. e.id = i /\ ~e.hw
        OBVIOUS
      <3>2. t \in Affinity
        BY DEF Target, TypeOK
      <3>3. queue[v][q] \in Seq(Entry) /\ e \in Entry
        BY <2>0, <3>2 DEF TypeOK, Entry, INTID
      <3> HIDE DEF e, t, q
      <3>4. PICK s : s = Append(queue[v][q], e)
        OBVIOUS
      <3>5. /\ Len(s) = Len(queue[v][q]) + 1
            /\ \A n \in 1..Len(queue[v][q]) : s[n] = queue[v][q][n]
            /\ s[Len(queue[v][q]) + 1] = e
            /\ Len(queue[v][q]) \in Nat
        BY <3>3, <3>4
      <3>6. queue' = [queue EXCEPT ![v] = [queue[v] EXCEPT ![q] = s]]
        BY <2>2, <3>4
      <3>7. ASSUME NEW x \in CPU, NEW u \in Unit, NEW n \in 1..Len(queue'[x][u])
            PROVE  queue'[x][u][n].id \in SPI /\ ~queue'[x][u][n].hw
        <4>1. CASE x = v /\ u = q
          <5>1. queue'[x][u] = s
            BY <2>0, <3>6, <4>1 DEF TypeOK
          <5>2. n \in 1..Len(queue[v][q]) \/ n = Len(queue[v][q]) + 1
            BY <3>5, <5>1
          <5>3. CASE n \in 1..Len(queue[v][q])
            <6>1. queue'[x][u][n] = queue[v][q][n]
              BY <3>5, <5>1, <5>3
            <6> QED BY <2>0, <5>3, <6>1 DEF HwInv, QueueSoft
          <5> QED BY <3>1, <3>5, <5>1, <5>2, <5>3
        <4>2. CASE ~(x = v /\ u = q)
          <5>1. queue'[x][u] = queue[x][u]
            BY <2>0, <3>6, <4>2 DEF TypeOK
          <5> QED BY <5>1 DEF HwInv, QueueSoft
        <4> QED BY <4>1, <4>2
      <3>8. KeepsHw
        BY <2>2 DEF KeepsHw
      <3> QED BY <3>7, <3>8 DEF QueueSoft
    <2> QED BY <1>2, <2>1, <2>2 DEF Deliver
  <1> QED BY <1>1, <1>2 DEF trigger_interrupt

(***************************************************************************)
(* The steps that can leave no new hardware entry: the guest's stores and  *)
(* its queue notification, its timer, a character that arrives and its     *)
(* input, the inject loop, and the ends of the handlers.                   *)
(***************************************************************************)
LEMMA HwQuietStep ==
    ASSUME TypeOK, HwInv, NEW c \in CPU,
           \/ \E bits \in SUBSET {"grp1ns", "are_s"} : WriteCtlr(c, bits)
           \/ \E sleep \in BOOLEAN : WriteWaker(c, sleep)
           \/ \E i \in INTID : WriteIcenabler(c, i) \/ WriteIcpendr(c, i)
           \/ \E ids \in SUBSET INTID : WriteIgrpmodr(c, ids)
           \/ \E i \in SPI, t \in Affinity : WriteIrouter(c, i, t)
           \/ TimerFires(c) \/ TimerReprogrammed(c) \/ UartReceives
           \/ LockForInjection(c) \/ InjectDone(c)
           \/ MaintenanceDone(c) \/ InputDone(c) \/ EndOfInterrupt(c)
    PROVE  HwInv'
  <1> USE DEF dist, phys
  <1>1. lr' = lr /\ queue' = queue /\ timerActive' = timerActive
    BY DEF WriteCtlr, WriteWaker, WriteIcenabler, WriteIcpendr, WriteIgrpmodr, WriteIrouter,
           TimerFires, TimerReprogrammed, UartReceives, LockForInjection, InjectDone,
           MaintenanceDone, InputDone, EndOfInterrupt
  <1>2. \/ cpu' = cpu
        \/ \E st \in {"draining", "eoi", "guest"} : cpu' = [cpu EXCEPT ![c] = st]
    BY DEF WriteCtlr, WriteWaker, WriteIcenabler, WriteIcpendr, WriteIgrpmodr, WriteIrouter,
           TimerFires, TimerReprogrammed, UartReceives, LockForInjection, InjectDone,
           MaintenanceDone, InputDone, EndOfInterrupt
  <1>3. \A x \in CPU : cpu'[x] = "timer" => cpu[x] = "timer"
    BY <1>2 DEF TypeOK
  <1>4. KeepsHw /\ QueueSoft'
    BY <1>1 DEF KeepsHw, HwInv, QueueSoft
  <1> QED BY <1>1, <1>3, <1>4, KeepsHwStep

(***************************************************************************)
(* The Virtio-Blk and PL011 triggers.                                      *)
(***************************************************************************)
LEMMA HwSpiStep ==
    ASSUME TypeOK, HwInv, NEW c \in CPU,
           \/ QueueNotify(c)
           \/ \E v \in CPU, unmasked \in BOOLEAN : InputOne(c, v, unmasked)
    PROVE  HwInv'
  <1>0. /\ BlkSPI \in INTID /\ UartSPI \in INTID
        /\ \A x \in CPU : pending[x] \in SUBSET INTID
    BY IntidAssumption DEF INTID, TypeOK
  <1>1. /\ timerActive' = timerActive
        /\ cpu' = cpu \/ \E st \in {"guest", "uart", "panic"} : cpu' = [cpu EXCEPT ![c] = st]
    <2>1. CASE QueueNotify(c)
      <3>1. Moves(c, "guest")
        BY <1>0, <2>1, TriggerEffect DEF QueueNotify
      <3> QED BY <2>1, <3>1 DEF QueueNotify, Moves
    <2>2. ASSUME NEW v \in CPU, NEW unmasked \in BOOLEAN, InputOne(c, v, unmasked)
          PROVE  /\ timerActive' = timerActive
                 /\ \/ cpu' = cpu
                    \/ \E st \in {"guest", "uart", "panic"} : cpu' = [cpu EXCEPT ![c] = st]
      <3>1. Moves(c, "uart") \/ cpu' = cpu
        BY <1>0, <2>2, TriggerEffect DEF InputOne
      <3> QED BY <2>2, <3>1 DEF InputOne, Moves
    <2> QED BY <2>1, <2>2
  <1>t. \A x \in CPU : cpu'[x] = "timer" => cpu[x] = "timer"
    BY <1>1 DEF TypeOK
  <1>2. KeepsHw /\ QueueSoft'
    <2>1. CASE QueueNotify(c)
      BY <2>1, IntidAssumption, TriggerSpi DEF QueueNotify
    <2>2. ASSUME NEW v \in CPU, NEW unmasked \in BOOLEAN, InputOne(c, v, unmasked)
          PROVE  KeepsHw /\ QueueSoft'
      <3>1. CASE unmasked
        BY <2>2, <3>1, IntidAssumption, TriggerSpi DEF InputOne
      <3>2. CASE ~unmasked
        <4>1. lr' = lr /\ queue' = queue
          BY <2>2, <3>2 DEF InputOne
        <4> QED BY <4>1 DEF KeepsHw, HwInv, QueueSoft
      <3> QED BY <3>1, <3>2
    <2> QED BY <2>1, <2>2
  <1> QED BY <1>1, <1>2, <1>t, KeepsHwStep

(***************************************************************************)
(* The inject loop and the maintenance handler change list registers, but  *)
(* make no hardware entry.                                                 *)
(***************************************************************************)
LEMMA HwRegisterStep ==
    ASSUME TypeOK, HwInv, NEW c \in CPU,
           (\E u \in Unit : InjectOne(c, u)) \/ MaintainOne(c)
    PROVE  HwInv'
  <1> USE DEF phys
  <1>0. lr \in [CPU -> Regs]
    BY DEF TypeOK, Regs
  <1>1. timerActive' = timerActive /\ cpu' = cpu
    BY DEF InjectOne, MaintainOne
  <1>2. ASSUME NEW u \in Unit, InjectOne(c, u) PROVE KeepsHw /\ QueueSoft'
    <2> DEFINE q == queue[c][u]
    <2>1. /\ q # <<>> /\ queue' = [queue EXCEPT ![c] = [queue[c] EXCEPT ![u] = Tail(q)]]
          /\ lr' = [lr EXCEPT ![c] = add_virtual_interrupt(lr[c], Head(q).id, Head(q).hw)]
      BY <1>2 DEF InjectOne
    <2>2. q \in Seq(Entry)
      BY DEF TypeOK
    <2>3. 1 \in 1..Len(q) /\ Head(q) = q[1] /\ Head(q) \in Entry
      BY <2>1, <2>2
    <2>4. Head(q).id \in SPI /\ Head(q).hw = FALSE
      <3>1. q[1].id \in SPI /\ ~q[1].hw
        BY <2>3 DEF HwInv, QueueSoft
      <3>2. Head(q).hw \in BOOLEAN
        BY <2>3 DEF Entry
      <3> QED BY <2>3, <3>1, <3>2
    <2>5. PICK new : new = add_virtual_interrupt(lr[c], Head(q).id, FALSE)
      OBVIOUS
    <2>6. \A k \in 1..NLR : HwIn(lr[c][k]) => lr[c][k].id = Timer
      BY DEF HwInv
    <2>7. \A k \in 1..NLR : HwIn(new[k]) => new[k] = lr[c][k]
      BY <1>0, <2>4, <2>5, <2>6, AddSpi
    <2>8. lr' = [lr EXCEPT ![c] = new]
      BY <2>1, <2>4, <2>5
    <2>9. KeepsHw
      BY <1>0, <2>7, <2>8 DEF KeepsHw
    <2> HIDE DEF q
    <2>10. /\ Len(Tail(q)) = Len(q) - 1 /\ Len(q) \in Nat
           /\ \A n \in 1..Len(Tail(q)) : Tail(q)[n] = q[n + 1]
      BY <2>1, <2>2
    <2>11. ASSUME NEW x \in CPU, NEW w \in Unit, NEW n \in 1..Len(queue'[x][w])
           PROVE  queue'[x][w][n].id \in SPI /\ ~queue'[x][w][n].hw
      <3>1. CASE x = c /\ w = u
        <4>1. queue'[x][w] = Tail(q)
          BY <2>1, <3>1 DEF TypeOK
        <4>2. n + 1 \in 1..Len(q) /\ queue'[x][w][n] = q[n + 1]
          BY <2>10, <4>1
        <4> QED BY <4>2 DEF HwInv, QueueSoft, q
      <3>2. CASE ~(x = c /\ w = u)
        <4>1. queue'[x][w] = queue[x][w]
          BY <2>1, <3>2 DEF TypeOK
        <4> QED BY <4>1 DEF HwInv, QueueSoft
      <3> QED BY <3>1, <3>2
    <2> QED BY <2>9, <2>11 DEF QueueSoft
  <1>3. ASSUME MaintainOne(c) PROVE KeepsHw /\ QueueSoft'
    <2>1. PICK k \in 1..NLR : /\ lr' = [lr EXCEPT ![c] = [lr[c] EXCEPT ![k] = NoEntry]]
                              /\ queue' = queue
      BY <1>3 DEF MaintainOne
    <2>2. ~HwIn(NoEntry)
      BY DEF HwIn, NoEntry
    <2>3. KeepsHw
      BY <1>0, <2>1, <2>2 DEF KeepsHw, Regs
    <2> QED BY <2>1, <2>3 DEF HwInv, QueueSoft
  <1>4. KeepsHw /\ QueueSoft'
    BY <1>2, <1>3
  <1> QED BY <1>1, <1>4, KeepsHwStep

(***************************************************************************)
(* HwInv' spelled out, and from it the invariant of the next state.        *)
(***************************************************************************)
LEMMA HwInvNext ==
    ASSUME QueueSoft',
           \A x \in CPU : cpu'[x] = "timer" => timerActive'[x],
           \A x \in CPU, k \in 1..NLR : HwIn(lr'[x][k]) =>
                /\ lr'[x][k].id = Timer /\ lr'[x][k].st \in {"pending", "active"}
                /\ timerActive'[x] /\ cpu'[x] # "timer",
           \A x \in CPU, j, k \in 1..NLR : HwIn(lr'[x][j]) /\ HwIn(lr'[x][k]) => j = k
    PROVE  HwInv'
  BY DEF HwInv, HwIn, Live, Inactive

(***************************************************************************)
(* The timer's handler runs with the timer active and no hardware entry,   *)
(* and makes one at most.                                                  *)
(***************************************************************************)
LEMMA HwTimerStep ==
    ASSUME TypeOK, HwInv, NEW c \in CPU, generic_timer_interrupt_handler(c)
    PROVE  HwInv'
  <1>0. lr \in [CPU -> Regs]
    BY DEF TypeOK, Regs
  <1>1. /\ cpu[c] = "timer" /\ \E st \in {"eoi_timer", "panic"} : cpu' = [cpu EXCEPT ![c] = st]
        /\ timerActive' = timerActive
    <2>1. Timer \in INTID /\ pending[c] \in SUBSET INTID
      BY DEF INTID, TypeOK
    <2>2. Moves(c, "eoi_timer")
      BY <2>1, TriggerEffect DEF generic_timer_interrupt_handler
    <2> QED BY <2>2 DEF generic_timer_interrupt_handler, Moves
  <1>2. \A x \in CPU : cpu'[x] = "timer" => cpu[x] = "timer"
    BY <1>1 DEF TypeOK
  <1>3. CASE lr' = lr /\ queue' = queue
    <2>1. KeepsHw /\ QueueSoft'
      BY <1>3 DEF KeepsHw, HwInv, QueueSoft
    <2> QED BY <1>1, <1>2, <2>1, KeepsHwStep
  <1>4. CASE Deliver(c, c, Timer, TRUE, "eoi_timer")
    <2>1. lr' = [lr EXCEPT ![c] = add_virtual_interrupt(@, Timer, TRUE)] /\ queue' = queue
      BY <1>4, IntidAssumption DEF Deliver, Target
    <2>2. PICK new : new = add_virtual_interrupt(lr[c], Timer, TRUE)
      OBVIOUS
    <2>3. \A k \in 1..NLR : ~HwIn(lr[c][k])
      BY <1>1 DEF HwInv
    <2>4. /\ \A k \in 1..NLR : HwIn(new[k]) => new[k].id = Timer /\ new[k].st = "pending"
          /\ \A j, k \in 1..NLR : HwIn(new[j]) /\ HwIn(new[k]) => j = k
      BY <1>0, <2>2, <2>3, AddTimer
    <2>5. \A x \in CPU : lr'[x] = IF x = c THEN new ELSE lr[x]
      BY <1>0, <2>1, <2>2
    <2>6. QueueSoft'
      BY <2>1 DEF HwInv, QueueSoft
    <2>7. timerActive'[c] /\ cpu'[c] # "timer"
      BY <1>1 DEF HwInv, TypeOK
    <2>8. \A x \in CPU : cpu'[x] = "timer" => timerActive'[x]
      BY <1>1, <1>2 DEF HwInv
    <2>9. ASSUME NEW x \in CPU, NEW k \in 1..NLR, HwIn(lr'[x][k])
          PROVE  /\ lr'[x][k].id = Timer /\ lr'[x][k].st \in {"pending", "active"}
                 /\ timerActive'[x] /\ cpu'[x] # "timer"
      <3>1. CASE x = c
        BY <2>4, <2>5, <2>7, <2>9, <3>1
      <3>2. CASE x # c
        <4>1. lr'[x] = lr[x] /\ HwIn(lr[x][k])
          BY <2>5, <2>9, <3>2
        <4> QED BY <1>1, <1>2, <4>1 DEF HwInv
      <3> QED BY <3>1, <3>2
    <2>10. ASSUME NEW x \in CPU, NEW j \in 1..NLR, NEW k \in 1..NLR,
                  HwIn(lr'[x][j]), HwIn(lr'[x][k])
           PROVE  j = k
      <3>1. CASE x = c
        BY <2>4, <2>5, <2>10, <3>1
      <3>2. CASE x # c
        BY <2>5, <2>10, <3>2 DEF HwInv
      <3> QED BY <3>1, <3>2
    <2> QED BY <2>6, <2>8, <2>9, <2>10, HwInvNext
  <1> QED BY <1>3, <1>4 DEF generic_timer_interrupt_handler, trigger_interrupt

(***************************************************************************)
(* irq_handler takes the timer's interrupt only when it is not active, so  *)
(* when there is no hardware entry.                                        *)
(***************************************************************************)
LEMMA HwAcknowledgeStep ==
    ASSUME TypeOK, HwInv, NEW c \in CPU, NEW p \in Interrupt, Acknowledge(c, p)
    PROVE  HwInv'
  <1> USE DEF dist, phys
  <1>1. /\ lr' = lr /\ queue' = queue /\ cpu' = [cpu EXCEPT ![c] = p]
        /\ timerActive' = [timerActive EXCEPT ![c] = timerActive[c] \/ p = "timer"]
    BY DEF Acknowledge
  <1>2. \A x \in CPU : timerActive[x] => timerActive'[x]
    BY <1>1 DEF TypeOK
  <1>3. KeepsHw /\ QueueSoft'
    BY <1>1 DEF KeepsHw, HwInv, QueueSoft
  <1>4. CASE p # "timer"
    <2>1. \A x \in CPU : cpu'[x] = "timer" => cpu[x] = "timer"
      BY <1>1, <1>4 DEF TypeOK
    <2> QED BY <1>2, <1>3, <2>1, KeepsHwStep
  <1>5. CASE p = "timer"
    <2>1. ~timerActive[c]
      BY <1>5 DEF Acknowledge, Signalled
    <2>2. \A k \in 1..NLR : ~HwIn(lr[c][k])
      BY <2>1 DEF HwInv
    <2>3. timerActive'[c] /\ \A x \in CPU : x # c => cpu'[x] = cpu[x]
      BY <1>1, <1>5 DEF TypeOK
    <2>4. \A x \in CPU : cpu'[x] = "timer" => timerActive'[x]
      BY <1>2, <2>3 DEF HwInv
    <2>5. ASSUME NEW x \in CPU, NEW k \in 1..NLR, HwIn(lr'[x][k])
          PROVE  /\ lr'[x][k].id = Timer /\ lr'[x][k].st \in {"pending", "active"}
                 /\ timerActive'[x] /\ cpu'[x] # "timer"
      <3>1. HwIn(lr[x][k]) /\ lr'[x][k] = lr[x][k]
        BY <1>1, <2>5
      <3>2. x # c
        BY <2>2, <3>1
      <3>3. cpu'[x] = cpu[x]
        BY <2>3, <3>2
      <3> QED BY <1>2, <3>1, <3>3 DEF HwInv
    <2>6. ASSUME NEW x \in CPU, NEW j \in 1..NLR, NEW k \in 1..NLR,
                 HwIn(lr'[x][j]), HwIn(lr'[x][k])
          PROVE  j = k
      BY <1>1, <2>6 DEF HwInv
    <2> QED BY <1>3, <2>4, <2>5, <2>6, HwInvNext
  <1> QED BY <1>4, <1>5

(***************************************************************************)
(* The guest ends the hardware entry only when it is active and not        *)
(* pending, so the entry goes when the physical interrupt is deactivated.  *)
(***************************************************************************)
LEMMA HwGuestStep ==
    ASSUME TypeOK, HwInv, NEW c \in CPU, NEW k \in 1..NLR, GuestAck(c, k) \/ GuestEoi(c, k)
    PROVE  HwInv'
  <1> USE DEF dist, phys
  <1> DEFINE q == lr[c][k]
  <1>0. lr \in [CPU -> Regs] /\ q \in ListRegister
    <2>1. lr \in [CPU -> Regs]
      BY DEF TypeOK, Regs
    <2> QED BY <2>1 DEF Regs
  <1>1. PICK r \in ListRegister :
            /\ lr' = [lr EXCEPT ![c] = [lr[c] EXCEPT ![k] = r]]
            /\ HwIn(r) => HwIn(q) /\ r.id = q.id /\ r.st \in {"pending", "active"}
                          /\ timerActive' = timerActive
            /\ ~HwIn(r) => HwIn(q) \/ timerActive' = timerActive
            /\ \A x \in CPU : x # c => timerActive'[x] = timerActive[x]
    <2>1. CASE GuestAck(c, k)
      <3> DEFINE r == [q EXCEPT !.st = "active"]
      <3>1. r \in ListRegister /\ r.id = q.id /\ r.hw = q.hw /\ r.st = "active"
        BY <1>0 DEF ListRegister
      <3>2. lr' = [lr EXCEPT ![c] = [lr[c] EXCEPT ![k] = r]] /\ timerActive' = timerActive
        BY <2>1 DEF GuestAck
      <3>3. Live(q)
        BY <2>1 DEF GuestAck, Live, Inactive
      <3> HIDE DEF r, q
      <3>4. HwIn(r) => HwIn(q)
        BY <3>1, <3>3, Zenon DEF HwIn
      <3> QED BY <3>1, <3>2, <3>4
    <2>2. CASE GuestEoi(c, k)
      <3> DEFINE r == IF q.st = "active_pending" THEN [q EXCEPT !.st = "pending"]
                      ELSE IF q.hw THEN NoEntry ELSE [q EXCEPT !.st = "done"]
      <3>1. r \in ListRegister
        BY <1>0 DEF ListRegister, NoEntry, INTID
      <3>2. /\ lr' = [lr EXCEPT ![c] = [lr[c] EXCEPT ![k] = r]]
            /\ timerActive' = [timerActive EXCEPT ![c] = timerActive[c] /\ ~q.hw]
            /\ q.st \in {"active", "active_pending"}
        BY <2>2 DEF GuestEoi
      <3>3. Live(q)
        BY <3>2 DEF Live, Inactive
      <3>4. q.hw => q.st = "active"
        <4>1. ASSUME q.hw PROVE q.st \in {"pending", "active"}
          BY <3>3, <4>1 DEF HwInv, HwIn
        <4> QED BY <3>2, <4>1
      <3>5. ~HwIn(r)
        <4>1. CASE q.hw
          BY <3>4, <4>1 DEF HwIn, NoEntry
        <4>2. CASE ~q.hw
          <5>1. q.hw = FALSE
            BY <1>0, <4>2 DEF ListRegister
          <5>2. r.hw = FALSE
            BY <1>0, <5>1, <4>2 DEF ListRegister
          <5> QED BY <5>2 DEF HwIn
        <4> QED BY <4>1, <4>2
      <3>6. \A x \in CPU : x # c => timerActive'[x] = timerActive[x]
        BY <3>2 DEF TypeOK
      <3>7. HwIn(q) \/ timerActive' = timerActive
        <4>1. CASE q.hw
          BY <3>3, <4>1 DEF HwIn
        <4>2. CASE ~q.hw
          <5>1. (timerActive[c] /\ ~q.hw) = timerActive[c]
            BY <4>2 DEF TypeOK
          <5>2. timerActive' = [timerActive EXCEPT ![c] = timerActive[c]]
            BY <3>2, <5>1
          <5> QED BY <5>2 DEF TypeOK
        <4> QED BY <4>1, <4>2
      <3> HIDE DEF r, q
      <3> QED BY <3>1, <3>2, <3>5, <3>6, <3>7
    <2> QED BY <2>1, <2>2
  <1>2. cpu' = cpu /\ queue' = queue /\ cpu[c] = "guest"
    BY DEF GuestAck, GuestEoi
  <1>3. \A x \in CPU, j \in 1..NLR :
            lr'[x][j] = IF x = c /\ j = k THEN r ELSE lr[x][j]
    BY <1>0, <1>1 DEF Regs
  <1>4. QueueSoft'
    BY <1>2 DEF HwInv, QueueSoft
  <1>5. \A x \in CPU : cpu'[x] = "timer" => timerActive'[x]
    <2>1. \A x \in CPU : cpu'[x] = "timer" => x # c /\ timerActive[x]
      BY <1>2 DEF HwInv
    <2> QED BY <1>1, <2>1
  <1> HIDE DEF q
  <1>6. ASSUME NEW x \in CPU, NEW j \in 1..NLR, HwIn(lr'[x][j])
        PROVE  /\ HwIn(lr[x][j])
               /\ lr'[x][j].id = Timer /\ lr'[x][j].st \in {"pending", "active"}
               /\ timerActive'[x] /\ cpu'[x] # "timer"
    <2>1. CASE x = c /\ j = k
      <3>1. HwIn(r) /\ lr'[x][j] = r
        BY <1>3, <1>6, <2>1
      <3>2. HwIn(lr[x][j]) /\ r.id = lr[x][j].id
        BY <1>1, <2>1, <3>1 DEF q
      <3>3. lr[x][j].id = Timer /\ timerActive[x] /\ cpu[x] # "timer"
        BY <3>2 DEF HwInv
      <3> QED BY <1>1, <1>2, <3>1, <3>2, <3>3
    <2>2. CASE ~(x = c /\ j = k)
      <3>1. lr'[x][j] = lr[x][j]
        BY <1>3, <2>2
      <3>2. HwIn(lr[x][j])
        BY <1>6, <3>1
      <3>3. /\ lr[x][j].id = Timer /\ lr[x][j].st \in {"pending", "active"}
            /\ timerActive[x] /\ cpu[x] # "timer"
        BY <3>2 DEF HwInv
      <3>4. timerActive'[x]
        <4>1. CASE x # c
          BY <1>1, <3>3, <4>1
        <4>2. CASE x = c
          <5>1. ~HwIn(q)
            BY <2>2, <3>2, <4>2 DEF HwInv, q
          <5>2. timerActive' = timerActive
            BY <1>1, <5>1
          <5> QED BY <3>3, <5>2
        <4> QED BY <4>1, <4>2
      <3> QED BY <1>2, <3>1, <3>2, <3>3, <3>4
    <2> QED BY <2>1, <2>2
  <1>7. ASSUME NEW x \in CPU, NEW i \in 1..NLR, NEW j \in 1..NLR,
               HwIn(lr'[x][i]), HwIn(lr'[x][j])
        PROVE  i = j
    BY <1>6, <1>7 DEF HwInv
  <1> QED BY <1>4, <1>5, <1>6, <1>7, HwInvNext

(***************************************************************************)
(* A guest that has set its interrupts up no longer writes GICD/GICR       *)
(* ISENABLER and ISPENDR.  Such a write triggers the timer's INTID without *)
(* its physical one, and a hardware entry that is active then becomes      *)
(* pending as well.                                                        *)
(***************************************************************************)
GuestsSetUp == \A c \in CPU : GuestOps[c] \cap {"ISENABLER", "ISPENDR"} = {}

(***************************************************************************)
(* Under that condition every step keeps the invariant.                    *)
(***************************************************************************)
LEMMA HwStep ==
    ASSUME GuestsSetUp, TypeOK, HwInv, Next
    PROVE  HwInv'
  <1>1. ASSUME NEW c \in CPU, GuestMmio(c) PROVE HwInv'
    <2>1. \A i \in INTID : ~WriteIsenabler(c, i) /\ ~WriteIspendr(c, i)
      BY DEF WriteIsenabler, WriteIspendr, GuestWrites, GuestsSetUp
    <2> QED BY <1>1, <2>1, HwQuietStep, HwSpiStep DEF GuestMmio
  <1>2. ASSUME NEW c \in CPU, NEW k \in 1..NLR, GuestAck(c, k) \/ GuestEoi(c, k)
        PROVE  HwInv'
    BY <1>2, HwGuestStep
  <1>3. ASSUME NEW c \in CPU, TimerFires(c) \/ TimerReprogrammed(c) PROVE HwInv'
    BY <1>3, HwQuietStep
  <1>4. ASSUME NEW c \in CPU, NEW p \in Interrupt, Acknowledge(c, p) PROVE HwInv'
    BY <1>4, HwAcknowledgeStep
  <1>5. ASSUME NEW c \in CPU, irq_handler(c) PROVE HwInv'
    BY <1>5, HwQuietStep, HwSpiStep, HwRegisterStep, HwTimerStep DEF irq_handler
  <1>6. CASE UartReceives
    BY <1>6, HwQuietStep, CpuAssumption
  <1>7. ASSUME NEW c \in CPU, Panicked(c) PROVE HwInv'
    <2>1. lr' = lr /\ queue' = queue /\ timerActive' = timerActive /\ cpu' = cpu
      BY <1>7 DEF Panicked, vars, dist, phys
    <2>2. KeepsHw /\ QueueSoft'
      BY <2>1 DEF KeepsHw, HwInv, QueueSoft
    <2> QED BY <2>1, <2>2, KeepsHwStep
  <1> QED BY <1>1, <1>2, <1>3, <1>4, <1>5, <1>6, <1>7 DEF Next

(***************************************************************************)
(* A hardware list register entry is the only one of its CPU and lives     *)
(* only while the physical timer interrupt is active: the guest's EOI      *)
(* never deactivates a timer interrupt that was not handed over, for any   *)
(* number of CPUs and list registers.                                      *)
(***************************************************************************)
THEOREM HwEntrySound ==
    ASSUME GuestsSetUp
    PROVE  Spec => []HwEntryOwnsTimer
  <1>1. Init => HwInv
    <2> SUFFICES ASSUME Init PROVE HwInv
      OBVIOUS
    <2>1. QueueSoft
      BY DEF Init, QueueSoft
    <2>2. \A x \in CPU, k \in 1..NLR : ~HwIn(lr[x][k])
      BY DEF Init, HwIn, NoEntry
    <2>3. \A x \in CPU : cpu[x] # "timer"
      BY DEF Init
    <2> QED BY <2>1, <2>2, <2>3 DEF HwInv
  <1>2. TypeOK /\ HwInv /\ [Next]_vars => HwInv'
    <2>1. ASSUME TypeOK, HwInv, Next PROVE HwInv'
      BY <2>1, HwStep
    <2>2. ASSUME HwInv, UNCHANGED vars PROVE HwInv'
      <3>1. lr' = lr /\ queue' = queue /\ timerActive' = timerActive /\ cpu' = cpu
        BY <2>2 DEF vars, dist, phys
      <3>2. KeepsHw /\ QueueSoft'
        BY <2>2, <3>1 DEF KeepsHw, HwInv, QueueSoft
      <3> QED BY <2>2, <3>1, <3>2, KeepsHwStep
    <2> QED BY <2>1, <2>2
  <1>3. HwInv => HwEntryOwnsTimer
    <2> SUFFICES ASSUME HwInv, NEW c \in CPU
                 PROVE  Cardinality(HwLive(c)) <= 1 /\ (HwLive(c) # {} => timerActive[c])
      BY DEF HwEntryOwnsTimer
    <2>1. CASE HwLive(c) = {}
      BY <2>1, FS_EmptySet
    <2>2. CASE HwLive(c) # {}
      <3>1. PICK k \in 1..NLR : Live(lr[c][k]) /\ lr[c][k].hw
        BY <2>2 DEF HwLive
      <3>2. HwLive(c) = {k}
        BY <3>1 DEF HwLive, HwInv, HwIn
      <3>3. Cardinality({k}) = 1
        BY FS_Singleton
      <3> QED BY <3>1, <3>2, <3>3 DEF HwInv, HwIn
    <2> QED BY <2>1, <2>2
  <1> QED BY <1>1, <1>2, <1>3, TypeCorrect, PTL DEF Spec

-----------------------------------------------------------------------------
(* The timer's handover *)

(***************************************************************************)
(* trigger_interrupt moves no CPU but the one that executes it.            *)
(***************************************************************************)
LEMMA TriggerMoves ==
    ASSUME NEW c, NEW v, NEW i, NEW hw, NEW enabled, NEW pend, NEW after,
           trigger_interrupt(c, v, i, hw, enabled, pend, after)
    PROVE  \E st : cpu' = [cpu EXCEPT ![c] = st]
  BY DEF trigger_interrupt, Deliver, Continues, Panics

(***************************************************************************)
(* A step moves one CPU at most, and a CPU that is in the timer's handler  *)
(* only to the end of it.                                                  *)
(***************************************************************************)
LEMMA OneCpuMoves ==
    ASSUME Next
    PROVE  \/ cpu' = cpu
           \/ \E c \in CPU : /\ \E st : cpu' = [cpu EXCEPT ![c] = st]
                             /\ cpu[c] = "timer" => generic_timer_interrupt_handler(c)
  <1> DEFINE Moved(c) == /\ \E st : cpu' = [cpu EXCEPT ![c] = st]
                         /\ cpu[c] = "timer" => generic_timer_interrupt_handler(c)
  <1> USE DEF dist, phys
  <1>1. ASSUME NEW c \in CPU, GuestMmio(c) PROVE cpu' = cpu \/ Moved(c)
    <2>1. cpu[c] = "guest"
      BY <1>1 DEF GuestMmio, WriteCtlr, WriteWaker, WriteIsenabler, WriteIcenabler,
                  WriteIspendr, WriteIcpendr, WriteIgrpmodr, WriteIrouter, QueueNotify,
                  GuestWrites
    <2>2. ASSUME NEW i \in INTID, WriteIsenabler(c, i)
          PROVE  cpu' = cpu \/ \E st : cpu' = [cpu EXCEPT ![c] = st]
      BY <2>2, TriggerMoves DEF WriteIsenabler
    <2>3. ASSUME NEW i \in INTID, WriteIspendr(c, i)
          PROVE  cpu' = cpu \/ \E st : cpu' = [cpu EXCEPT ![c] = st]
      BY <2>3, TriggerMoves DEF WriteIspendr
    <2>4. ASSUME QueueNotify(c) PROVE \E st : cpu' = [cpu EXCEPT ![c] = st]
      BY <2>4, TriggerMoves DEF QueueNotify
    <2>5. \/ cpu' = cpu
          \/ \E i \in INTID : WriteIsenabler(c, i) \/ WriteIspendr(c, i)
          \/ QueueNotify(c)
      BY <1>1 DEF GuestMmio, WriteCtlr, WriteWaker, WriteIcenabler, WriteIcpendr,
                  WriteIgrpmodr, WriteIrouter
    <2> QED BY <2>1, <2>2, <2>3, <2>4, <2>5
  <1>2. ASSUME NEW c \in CPU, NEW k \in 1..NLR, GuestAck(c, k) \/ GuestEoi(c, k)
        PROVE  cpu' = cpu
    BY <1>2 DEF GuestAck, GuestEoi
  <1>3. ASSUME NEW c \in CPU, TimerFires(c) \/ TimerReprogrammed(c) \/ UartReceives
        PROVE  cpu' = cpu
    BY <1>3 DEF TimerFires, TimerReprogrammed, UartReceives
  <1>4. ASSUME NEW c \in CPU, NEW p \in Interrupt, Acknowledge(c, p) PROVE Moved(c)
    BY <1>4 DEF Acknowledge
  <1>5. ASSUME NEW c \in CPU, irq_handler(c) PROVE cpu' = cpu \/ Moved(c)
    <2>1. CASE generic_timer_interrupt_handler(c)
      BY <2>1, TriggerMoves DEF generic_timer_interrupt_handler
    <2>2. ASSUME NEW v \in CPU, NEW unmasked \in BOOLEAN, InputOne(c, v, unmasked)
          PROVE  cpu' = cpu \/ Moved(c)
      <3>1. cpu' = cpu \/ \E st : cpu' = [cpu EXCEPT ![c] = st]
        BY <2>2, TriggerMoves DEF InputOne
      <3> QED BY <2>2, <3>1 DEF InputOne
    <2>3. CASE LockForInjection(c) \/ InjectDone(c) \/ MaintenanceDone(c) \/ InputDone(c)
               \/ EndOfInterrupt(c)
      BY <2>3 DEF LockForInjection, InjectDone, MaintenanceDone, InputDone, EndOfInterrupt
    <2>4. CASE (\E u \in Unit : InjectOne(c, u)) \/ MaintainOne(c)
      BY <2>4 DEF InjectOne, MaintainOne
    <2> QED BY <1>5, <2>1, <2>2, <2>3, <2>4 DEF irq_handler
  <1>6. ASSUME NEW c \in CPU, Panicked(c) PROVE cpu' = cpu
    BY <1>6 DEF Panicked, vars
  <1> QED BY <1>1, <1>2, <1>3, <1>4, <1>5, <1>6, CpuAssumption DEF Next

(***************************************************************************)
(* Only irq_handler's acknowledge makes the timer active, and it enters    *)
(* the timer's handler.                                                    *)
(***************************************************************************)
LEMMA OnlyAcknowledged ==
    ASSUME TypeOK, Next, NEW x \in CPU, ~timerActive[x], timerActive'[x]
    PROVE  cpu'[x] = "timer"
  <1> USE DEF dist, phys
  <1>1. timerActive' # timerActive
    OBVIOUS
  <1>2. ASSUME NEW c \in CPU, NEW p \in Interrupt, Acknowledge(c, p) PROVE cpu'[x] = "timer"
    <2>1. /\ cpu' = [cpu EXCEPT ![c] = p]
          /\ timerActive' = [timerActive EXCEPT ![c] = timerActive[c] \/ p = "timer"]
      BY <1>2 DEF Acknowledge
    <2>2. x = c /\ p = "timer"
      BY <2>1 DEF TypeOK
    <2> QED BY <2>1, <2>2 DEF TypeOK
  <1>3. ASSUME NEW c \in CPU, NEW k \in 1..NLR, GuestAck(c, k) \/ GuestEoi(c, k) PROVE FALSE
    BY <1>1, <1>3 DEF GuestAck, GuestEoi, TypeOK
  <1>4. ASSUME NEW c \in CPU, GuestMmio(c) PROVE FALSE
    BY <1>1, <1>4 DEF GuestMmio, WriteCtlr, WriteWaker, WriteIsenabler, WriteIcenabler,
                      WriteIspendr, WriteIcpendr, WriteIgrpmodr, WriteIrouter, QueueNotify
  <1>5. ASSUME NEW c \in CPU, TimerFires(c) \/ TimerReprogrammed(c) \/ UartReceives PROVE FALSE
    BY <1>1, <1>5 DEF TimerFires, TimerReprogrammed, UartReceives
  <1>6. ASSUME NEW c \in CPU, irq_handler(c) PROVE FALSE
    BY <1>1, <1>6 DEF irq_handler, LockForInjection, InjectOne, InjectDone, MaintainOne,
                      MaintenanceDone, generic_timer_interrupt_handler, InputOne, InputDone,
                      EndOfInterrupt
  <1>7. ASSUME NEW c \in CPU, Panicked(c) PROVE FALSE
    BY <1>1, <1>7 DEF Panicked, vars
  <1> QED BY <1>2, <1>3, <1>4, <1>5, <1>6, <1>7, CpuAssumption DEF Next

(***************************************************************************)
(* When it can, the timer's handler hands the interrupt over.              *)
(***************************************************************************)
LEMMA HandlerHandsOver ==
    ASSUME TypeOK, NEW c \in CPU, CanHandOver(c), generic_timer_interrupt_handler(c)
    PROVE  HwLive(c)' # {}
  <1> DEFINE regs == lr[c]
             usable == Usable(regs, Timer)
             k == CHOOSE n \in usable : \A m \in usable : n <= m
  <1>1. lr' = [lr EXCEPT ![c] = add_virtual_interrupt(regs, Timer, TRUE)]
    <2>1. trigger_interrupt(c, c, Timer, TRUE, enable[c], pending[c], "eoi_timer")
      BY DEF generic_timer_interrupt_handler
    <2>2. Gate(c, Timer) /\ Deliverable(c, Timer, enable[c])
      BY IntidAssumption DEF CanHandOver, Gate, Deliverable
    <2>3. Deliver(c, c, Timer, TRUE, "eoi_timer")
      BY <2>1, <2>2 DEF trigger_interrupt
    <2> QED BY <2>3, IntidAssumption DEF Deliver, Target
  <1>2. usable \in SUBSET (1..NLR) /\ usable # {}
    BY DEF Usable, CanHandOver
  <1>3. k \in usable
    <2>1. \E n \in usable : \A m \in usable : n <= m
      BY <1>2, FirstExists
    <2> HIDE DEF usable
    <2> QED BY <2>1
  <1>4. k \in 1..NLR /\ Inactive(regs[k])
    BY <1>3 DEF Usable, CanHandOver, Live
  <1>5. add_virtual_interrupt(regs, Timer, TRUE) =
            [regs EXCEPT ![k] = create_list_register_entry(Timer, TRUE)]
    BY <1>2, <1>4 DEF add_virtual_interrupt
  <1>6. lr \in [CPU -> Regs] /\ regs \in Regs
    BY DEF TypeOK, Regs
  <1> HIDE DEF k, usable
  <1>7. lr'[c][k] = create_list_register_entry(Timer, TRUE)
    BY <1>1, <1>4, <1>5, <1>6 DEF Regs
  <1>8. lr'[c][k].st = "pending" /\ lr'[c][k].hw
    BY <1>7 DEF create_list_register_entry
  <1> QED BY <1>4, <1>8 DEF HwLive, Live, Inactive

(***************************************************************************)
(* A physical timer interrupt that nobody will deactivate comes only from  *)
(* its own handler, which found the guest's redistributor asleep, the      *)
(* interrupt disabled or secure, or no list register for it: whatever the  *)
(* guests write and for any number of CPUs and list registers.             *)
(***************************************************************************)
THEOREM TimerHandsOver == Spec => TimerHandedOver
  <1>1. ASSUME TypeOK, QueuedIsSignalled, Next, NEW c \in CPU, TimerLost(c)', ~TimerLost(c)
        PROVE  cpu[c] = "timer" /\ ~CanHandOver(c)
    <2>1. timerActive'[c] /\ cpu'[c] # "timer" /\ HwLive(c)' = {}
      BY <1>1 DEF TimerLost
    <2>2. timerActive[c]
      BY <1>1, <2>1, OnlyAcknowledged
    <2>3. HwLive(c) = {}
      <3> SUFFICES ASSUME NEW k \in 1..NLR, Live(lr[c][k]), lr[c][k].hw PROVE FALSE
        BY DEF HwLive
      <3>1. Keeps(c, k)
        BY <1>1, EveryStep DEF Goal
      <3>2. lr'[c][k].hw = lr[c][k].hw /\ Live(lr'[c][k])
        BY <2>1, <3>1 DEF Keeps
      <3>3. Live(lr[c][k])' /\ lr'[c][k].hw
        BY <3>2 DEF Live, Inactive
      <3> QED BY <2>1, <3>3 DEF HwLive
    <2>4. cpu[c] = "timer"
      BY <1>1, <2>2, <2>3 DEF TimerLost
    <2>5. generic_timer_interrupt_handler(c)
      <3>1. cpu' # cpu
        BY <2>1, <2>4
      <3>2. PICK d \in CPU : /\ \E st : cpu' = [cpu EXCEPT ![d] = st]
                             /\ cpu[d] = "timer" => generic_timer_interrupt_handler(d)
        BY <1>1, <3>1, OneCpuMoves
      <3>3. d = c
        BY <1>1, <2>1, <2>4, <3>2 DEF TypeOK
      <3> QED BY <2>4, <3>2, <3>3
    <2> QED BY <1>1, <2>1, <2>4, <2>5, HandlerHandsOver
  <1>2. ASSUME TypeOK, QueuedIsSignalled, [Next]_vars
        PROVE  [\A c \in CPU : TimerLost(c)' /\ ~TimerLost(c)
                                => cpu[c] = "timer" /\ ~CanHandOver(c)]_vars
    BY <1>1, <1>2
  <1> QED BY <1>2, Invariance, PTL DEF Spec, TimerHandedOver
=============================================================================
