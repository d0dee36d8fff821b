------------------------------- MODULE SpinLock -------------------------------
(***************************************************************************)
(* The spin lock of src/lock.rs (Mutex<T>, MutexGuard<T>) together with    *)
(* the interrupt masking it does through asm.rs, on several CPUs, each of  *)
(* which may take an IRQ and run exception.rs's irq_handler.               *)
(*                                                                         *)
(* A CPU has two execution contexts: the code that was running ("base":    *)
(* main, core_main, or a synchronous exception handler) and the IRQ        *)
(* handler above it ("irq").  Only the topmost context of a CPU runs.  A   *)
(* context calls lock() on the locks of the hypervisor, nested as Order    *)
(* allows, and drops the guards in the reverse order (every guard of the   *)
(* repository is a temporary or a scoped local; there is no explicit       *)
(* drop).  Memory ordering is sequentially consistent here: the Acquire/   *)
(* Release pair of lock.rs is what justifies that for the protected data.  *)
(***************************************************************************)
EXTENDS Naturals, Sequences, FiniteSets

CONSTANTS
    CPU,      \* the processors
    Lock,     \* the Mutex<T> objects
    Order,    \* <<a, b>> \in Order: some code locks b while a is its latest guard
    Rank,     \* a numbering of the mutexes along which Order climbs
    NoLock,   \* no mutex
    Work,     \* bound: lock() calls of a base context
    IrqWork   \* bound: IRQs and lock() calls of an IRQ context

ASSUME LockAssumption == NoLock \notin Lock
ASSUME OrderAssumption ==
    /\ Order \subseteq Lock \X Lock
    /\ Rank \in [Lock -> Nat]
    /\ \A a, b \in Lock : <<a, b>> \in Order => Rank[a] < Rank[b]
ASSUME WorkAssumption == Work \in Nat /\ IrqWork \in Nat

VARIABLES
    locked,   \* Mutex::lock, the AtomicBool of each mutex
    masked,   \* the I and F bits of each CPU's DAIF
    inIrq,    \* the CPU is in irq_handler
    spsr,     \* the mask state the IRQ entry saved, restored by eret
    home,     \* the mask state the base context was started with
    pc,       \* where a context is in lock() or drop()
    want,     \* the lock the context is acquiring or releasing
    daif,     \* the local `daif` of lock() / the field of the dropped guard
    guards,   \* the live guards of a context, innermost last
    work      \* lock() calls a context may still make

vars == <<locked, masked, inIrq, spsr, home, pc, want, daif, guards, work>>

Context == CPU \X {"base", "irq"}

\* MutexGuard: which mutex it holds and the DAIF it restores when dropped.
Guard == [lock : Lock, daif : BOOLEAN]

(***************************************************************************)
(* The program counters: "run" is outside lock() and drop(); "spin" is the *)
(* relaxed load loop, "mask" is before get_daif_and_disable_irq_fiq, "cas" *)
(* is before compare_exchange, "undo" is before the set_daif of a failed   *)
(* exchange, "unlock" is before drop's store and "restore" before its      *)
(* set_daif.                                                               *)
(***************************************************************************)
PC == {"run", "spin", "mask", "cas", "undo", "unlock", "restore"}

Running(t) == t[2] = IF inIrq[t[1]] THEN "irq" ELSE "base"

Held(t) == {guards[t][i].lock : i \in 1..Len(guards[t])}

Top(t) == guards[t][Len(guards[t])]

(***************************************************************************)
(* Before the first lock() every mutex is free.  main inherits DAIF from   *)
(* the boot loader; secondary CPUs and exception handlers start masked.    *)
(***************************************************************************)
Init ==
    /\ locked = [l \in Lock |-> FALSE]
    /\ home \in [CPU -> BOOLEAN]
    /\ masked = home
    /\ inIrq = [c \in CPU |-> FALSE]
    /\ spsr = [c \in CPU |-> TRUE]
    /\ pc = [t \in Context |-> "run"]
    /\ want = [t \in Context |-> NoLock]
    /\ daif = [t \in Context |-> TRUE]
    /\ guards = [t \in Context |-> <<>>]
    /\ work = [t \in Context |-> IF t[2] = "base" THEN Work ELSE IrqWork]

-----------------------------------------------------------------------------
(* Mutex::lock *)

\* lock() or drop() returns, and its locals are gone.
Return(t) ==
    /\ pc' = [pc EXCEPT ![t] = "run"]
    /\ want' = [want EXCEPT ![t] = NoLock]
    /\ daif' = [daif EXCEPT ![t] = TRUE]

\* Mutant: a nesting outside the lock order.
CallLockUnordered(t, l) ==
    /\ Running(t) /\ pc[t] = "run" /\ work[t] > 0
    /\ l \notin Held(t)
    /\ pc' = [pc EXCEPT ![t] = "spin"]
    /\ want' = [want EXCEPT ![t] = l]
    /\ work' = [work EXCEPT ![t] = @ - 1]
    /\ UNCHANGED <<locked, masked, inIrq, spsr, home, daif, guards>>

\* A context calls lock() on l; Order is how the code nests its locks.
CallLock(t, l) ==
    /\ Running(t) /\ pc[t] = "run" /\ work[t] > 0
    /\ guards[t] # <<>> => <<Top(t).lock, l>> \in Order
    /\ pc' = [pc EXCEPT ![t] = "spin"]
    /\ want' = [want EXCEPT ![t] = l]
    /\ work' = [work EXCEPT ![t] = @ - 1]
    /\ UNCHANGED <<locked, masked, inIrq, spsr, home, daif, guards>>

\* Mutant: the loop's condition is inverted.
SpinExitInverted(t) ==
    /\ Running(t) /\ pc[t] = "spin"
    /\ locked[want[t]]
    /\ pc' = [pc EXCEPT ![t] = "mask"]
    /\ UNCHANGED <<locked, masked, inIrq, spsr, home, want, daif, guards, work>>

\* while self.lock.load(Relaxed) { spin_loop() }
SpinExit(t) ==
    /\ Running(t) /\ pc[t] = "spin"
    /\ ~locked[want[t]]
    /\ pc' = [pc EXCEPT ![t] = "mask"]
    /\ UNCHANGED <<locked, masked, inIrq, spsr, home, want, daif, guards, work>>

\* let daif = get_daif_and_disable_irq_fiq()
MaskIrq(t) ==
    /\ Running(t) /\ pc[t] = "mask"
    /\ daif' = [daif EXCEPT ![t] = masked[t[1]]]
    /\ masked' = [masked EXCEPT ![t[1]] = TRUE]
    /\ pc' = [pc EXCEPT ![t] = "cas"]
    /\ UNCHANGED <<locked, inIrq, spsr, home, want, guards, work>>

\* Mutant: an exchange that does not look at the old value.
CasOkBlind(t) ==
    /\ Running(t) /\ pc[t] = "cas"
    /\ locked' = [locked EXCEPT ![want[t]] = TRUE]
    /\ guards' = [guards EXCEPT ![t] = Append(@, [lock |-> want[t], daif |-> daif[t]])]
    /\ Return(t)
    /\ UNCHANGED <<masked, inIrq, spsr, home, work>>

\* compare_exchange(false, true) succeeds: the guard keeps daif.
CasOk(t) ==
    /\ Running(t) /\ pc[t] = "cas"
    /\ ~locked[want[t]]
    /\ locked' = [locked EXCEPT ![want[t]] = TRUE]
    /\ guards' = [guards EXCEPT ![t] = Append(@, [lock |-> want[t], daif |-> daif[t]])]
    /\ Return(t)
    /\ UNCHANGED <<masked, inIrq, spsr, home, work>>

\* compare_exchange fails: another CPU took the lock since the load.
CasFail(t) ==
    /\ Running(t) /\ pc[t] = "cas"
    /\ locked[want[t]]
    /\ pc' = [pc EXCEPT ![t] = "undo"]
    /\ UNCHANGED <<locked, masked, inIrq, spsr, home, want, daif, guards, work>>

\* Mutant: the failed exchange forgets to restore DAIF.
UndoMaskForgotten(t) ==
    /\ Running(t) /\ pc[t] = "undo"
    /\ pc' = [pc EXCEPT ![t] = "spin"]
    /\ UNCHANGED <<locked, masked, inIrq, spsr, home, want, daif, guards, work>>

\* set_daif(daif) and back to the head of the loop.
UndoMask(t) ==
    /\ Running(t) /\ pc[t] = "undo"
    /\ masked' = [masked EXCEPT ![t[1]] = daif[t]]
    /\ pc' = [pc EXCEPT ![t] = "spin"]
    /\ UNCHANGED <<locked, inIrq, spsr, home, want, daif, guards, work>>

-----------------------------------------------------------------------------
(* MutexGuard::drop *)

\* Mutant: drop restores DAIF before it releases the mutex.
CallDropUnmaskFirst(t) ==
    /\ Running(t) /\ pc[t] = "run"
    /\ guards[t] # <<>>
    /\ want' = [want EXCEPT ![t] = Top(t).lock]
    /\ daif' = [daif EXCEPT ![t] = Top(t).daif]
    /\ masked' = [masked EXCEPT ![t[1]] = Top(t).daif]
    /\ pc' = [pc EXCEPT ![t] = "unlock"]
    /\ UNCHANGED <<locked, inIrq, spsr, home, guards, work>>

\* The innermost guard goes out of scope.
CallDrop(t) ==
    /\ Running(t) /\ pc[t] = "run"
    /\ guards[t] # <<>>
    /\ want' = [want EXCEPT ![t] = Top(t).lock]
    /\ daif' = [daif EXCEPT ![t] = Top(t).daif]
    /\ pc' = [pc EXCEPT ![t] = "unlock"]
    /\ UNCHANGED <<locked, masked, inIrq, spsr, home, guards, work>>

\* self.lock.store(false, Release)
Unlock(t) ==
    /\ Running(t) /\ pc[t] = "unlock"
    /\ locked' = [locked EXCEPT ![want[t]] = FALSE]
    /\ guards' = [guards EXCEPT ![t] = SubSeq(@, 1, Len(@) - 1)]
    /\ pc' = [pc EXCEPT ![t] = "restore"]
    /\ UNCHANGED <<masked, inIrq, spsr, home, want, daif, work>>

\* set_daif(self.daif)
RestoreDaif(t) ==
    /\ Running(t) /\ pc[t] = "restore"
    /\ masked' = [masked EXCEPT ![t[1]] = daif[t]]
    /\ Return(t)
    /\ UNCHANGED <<locked, inIrq, spsr, home, guards, work>>

-----------------------------------------------------------------------------
(* IRQ entry and exit: the processor and the vector table of exception.rs  *)

\* An unmasked IRQ: PSTATE is saved, IRQs are masked, irq_handler starts.
\* A second IRQ inside the handler is not modelled: DaifBalanced shows
\* that it cannot be taken.
TakeIrq(c) ==
    /\ ~masked[c] /\ ~inIrq[c]
    /\ work[<<c, "irq">>] > 0
    /\ spsr' = [spsr EXCEPT ![c] = masked[c]]
    /\ masked' = [masked EXCEPT ![c] = TRUE]
    /\ inIrq' = [inIrq EXCEPT ![c] = TRUE]
    /\ work' = [work EXCEPT ![<<c, "irq">>] = @ - 1]
    /\ UNCHANGED <<locked, home, pc, want, daif, guards>>

\* exit_exception: irq_handler has returned, eret restores PSTATE.
Eret(c) ==
    LET t == <<c, "irq">> IN
    /\ inIrq[c] /\ pc[t] = "run" /\ guards[t] = <<>>
    /\ masked' = [masked EXCEPT ![c] = spsr[c]]
    /\ inIrq' = [inIrq EXCEPT ![c] = FALSE]
    /\ UNCHANGED <<locked, spsr, home, pc, want, daif, guards, work>>

-----------------------------------------------------------------------------
Step(t) ==
    \/ SpinExit(t) \/ MaskIrq(t) \/ CasOk(t) \/ CasFail(t) \/ UndoMask(t)
    \/ CallDrop(t) \/ Unlock(t) \/ RestoreDaif(t)

\* Every context has used up its lock() calls and holds nothing.
Done ==
    /\ \A t \in Context : pc[t] = "run" /\ guards[t] = <<>>
    /\ \A c \in CPU : ~inIrq[c]

Next ==
    \/ \E t \in Context : Step(t)
    \/ \E t \in Context, l \in Lock : CallLock(t, l)
    \/ \E c \in CPU : TakeIrq(c) \/ Eret(c)

(***************************************************************************)
(* A CPU executes its instructions, and a handler returns once it holds    *)
(* nothing.  No context is obliged to call lock(), no IRQ has to arrive.   *)
(***************************************************************************)
Fairness ==
    /\ \A t \in Context : WF_vars(Step(t))
    /\ \A c \in CPU : WF_vars(Eret(c))

Spec == Init /\ [][Next]_vars

FairSpec == Spec /\ Fairness

-----------------------------------------------------------------------------
(* Properties *)

TypeOK ==
    /\ locked \in [Lock -> BOOLEAN]
    /\ masked \in [CPU -> BOOLEAN]
    /\ inIrq \in [CPU -> BOOLEAN]
    /\ spsr \in [CPU -> BOOLEAN]
    /\ home \in [CPU -> BOOLEAN]
    /\ pc \in [Context -> PC]
    /\ want \in [Context -> Lock \cup {NoLock}]
    /\ daif \in [Context -> BOOLEAN]
    /\ guards \in [Context -> Seq(Guard)]
    /\ work \in [Context -> Nat]

(***************************************************************************)
(* lock() hands out one `&mut T` at a time: a mutex is owned by at most    *)
(* one guard of one context, and its flag is set exactly while it is.      *)
(***************************************************************************)
MutualExclusion ==
    \A t, u \in Context : \A i \in 1..Len(guards[t]) : \A j \in 1..Len(guards[u]) :
        guards[t][i].lock = guards[u][j].lock => t = u /\ i = j

FlagIffOwned == \A l \in Lock : locked[l] <=> \E t \in Context : l \in Held(t)

(***************************************************************************)
(* An IRQ never interrupts a lock holder.  The saved-DAIF discipline of    *)
(* nested guards is what keeps IRQs masked until the outermost guard is    *)
(* gone, so irq_handler can never spin on a lock its own CPU holds.        *)
(***************************************************************************)
IrqNeverOverHolder ==
    \A c \in CPU : inIrq[c] => guards[<<c, "base">>] = <<>>

(***************************************************************************)
(* Outside lock() and drop(), a context that holds no guard runs with the  *)
(* mask state it was entered with: no sequence of nested lock()/drop(),    *)
(* failed exchanges and IRQs leaks a masked or an unmasked DAIF.           *)
(***************************************************************************)
DaifBalanced ==
    \A c \in CPU :
        /\ inIrq[c] => masked[c] /\ spsr[c] = home[c]
        /\ ~inIrq[c] /\ pc[<<c, "base">>] = "run" /\ guards[<<c, "base">>] = <<>>
              => masked[c] = home[c]

(***************************************************************************)
(* No circular wait: if a context waits in lock() for a mutex that another *)
(* one owns, and that one waits as well, it waits for a mutex of a higher  *)
(* rank.  A chain of waiting contexts therefore never closes.              *)
(***************************************************************************)
Waiting(t) == pc[t] \in {"spin", "mask", "cas", "undo"}

WaitChainRises ==
    \A t, u \in Context :
        Waiting(t) /\ Waiting(u) /\ want[t] \in Held(u) => Rank[want[t]] < Rank[want[u]]

(***************************************************************************)
(* No deadlock: with a bounded number of lock() calls every guard is       *)
(* eventually dropped and every handler returns, whatever the interleaving *)
(* of spins, failed exchanges and IRQs.                                    *)
(***************************************************************************)
AllLocksReleased == <>[]Done
=============================================================================
