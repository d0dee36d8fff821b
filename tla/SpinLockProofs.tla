---------------------------- MODULE SpinLockProofs ----------------------------
(***************************************************************************)
(* Theorems about SpinLock, for any CPUs, mutexes and lock order.          *)
(***************************************************************************)
EXTENDS SpinLock, SequenceTheorems, TLAPS

\* The context was entered with IRQs masked.
Entered(t) == t[2] = "base" => home[t[1]]

\* IRQs are masked for the context outside lock() and drop().
Settled(t) == guards[t] # <<>> \/ Entered(t)

(***************************************************************************)
(* The guards of a context: the outermost one saved the entry state, the   *)
(* others saved "masked", and they were taken in the order of their ranks. *)
(***************************************************************************)
GuardsOk ==
    \A t \in Context :
        /\ \A i \in 1..Len(guards[t]) : guards[t][i].daif <=> (i = 1 => Entered(t))
        /\ \A i, j \in 1..Len(guards[t]) :
              i < j => Rank[guards[t][i].lock] < Rank[guards[t][j].lock]

\* The locals of lock() and drop(); the guard being dropped is the innermost.
LocalsOk ==
    \A t \in Context :
        /\ pc[t] # "run" => want[t] \in Lock
        /\ pc[t] = "unlock" => /\ guards[t] # <<>>
                               /\ want[t] = Top(t).lock
                               /\ daif[t] <=> Top(t).daif
        /\ pc[t] \in {"cas", "undo", "restore"} => (daif[t] <=> Settled(t))
        /\ Waiting(t) /\ guards[t] # <<>> => Rank[Top(t).lock] < Rank[want[t]]

\* DAIF follows the running context.
RunningMask ==
    \A t \in Context :
        Running(t) => (masked[t[1]] <=> pc[t] \in {"cas", "undo", "restore"} \/ Settled(t))

\* An interrupted context holds nothing and was running unmasked.
IrqOverNothing ==
    \A c \in CPU :
        inIrq[c] => /\ ~spsr[c] /\ ~home[c]
                    /\ pc[<<c, "base">>] \in {"run", "spin", "mask"}
                    /\ guards[<<c, "base">>] = <<>>

\* A handler that has returned left nothing behind.
NoIrqLeftOver ==
    \A c \in CPU : ~inIrq[c] => pc[<<c, "irq">>] = "run" /\ guards[<<c, "irq">>] = <<>>

MaskOk == RunningMask /\ IrqOverNothing /\ NoIrqLeftOver

IInv == TypeOK /\ FlagIffOwned /\ MutualExclusion /\ GuardsOk /\ LocalsOk /\ MaskOk

-----------------------------------------------------------------------------
(* Sequences of guards *)

\* Dropping the innermost guard leaves the others where they were.
LEMMA FrontOfGuards ==
    ASSUME NEW s \in Seq(Guard), s # <<>>
    PROVE  /\ SubSeq(s, 1, Len(s) - 1) \in Seq(Guard)
           /\ Len(SubSeq(s, 1, Len(s) - 1)) = Len(s) - 1
           /\ \A i \in 1..(Len(s) - 1) : SubSeq(s, 1, Len(s) - 1)[i] = s[i]
           /\ Len(s) \in Nat \ {0}
  <1>1. Len(s) \in Nat \ {0}
    BY EmptySeq, LenProperties
  <1>2. \A i \in 1..(Len(s) - 1) : s[i] \in Guard
    BY <1>1, ElementOfSeq
  <1> DEFINE n == Len(s) - 1
  <1>3. n \in Int /\ 1 \in Int /\ 0 <= n
    BY <1>1
  <1>4. \A i \in 1..n : s[i] \in Guard
    BY <1>2
  <1> HIDE DEF n
  <1>5. /\ SubSeq(s, 1, n) \in Seq(Guard)
        /\ Len(SubSeq(s, 1, n)) = IF 1 <= n THEN n - 1 + 1 ELSE 0
        /\ \A i \in 1..(n - 1 + 1) : SubSeq(s, 1, n)[i] = s[1 + i - 1]
    BY <1>3, <1>4, SubSeqProperties
  <1>6. Len(SubSeq(s, 1, n)) = n
    BY <1>3, <1>5
  <1>7. \A i \in 1..n : SubSeq(s, 1, n)[i] = s[i]
    BY <1>3, <1>5
  <1> QED
    BY <1>1, <1>5, <1>6, <1>7 DEF n

\* Appending a guard keeps the others and puts the new one last.
LEMMA AppendOfGuards ==
    ASSUME NEW s \in Seq(Guard), NEW g \in Guard
    PROVE  /\ Append(s, g) \in Seq(Guard)
           /\ Len(Append(s, g)) = Len(s) + 1
           /\ \A i \in 1..Len(s) : Append(s, g)[i] = s[i]
           /\ Append(s, g)[Len(s) + 1] = g
           /\ Append(s, g) # <<>>
           /\ Len(s) \in Nat
  BY AppendProperties, LenProperties

-----------------------------------------------------------------------------
(* Contexts *)

LEMMA ContextFacts ==
    ASSUME NEW t \in Context
    PROVE  t[1] \in CPU /\ t[2] \in {"base", "irq"} /\ t = <<t[1], t[2]>>
  BY DEF Context

LEMMA ContextOf ==
    ASSUME NEW c \in CPU
    PROVE  /\ <<c, "base">> \in Context /\ <<c, "irq">> \in Context
           /\ <<c, "base">>[1] = c /\ <<c, "base">>[2] = "base"
           /\ <<c, "irq">>[1] = c /\ <<c, "irq">>[2] = "irq"
  BY DEF Context

\* A CPU executes one context at a time.
LEMMA OneRunning ==
    ASSUME NEW t \in Context, NEW u \in Context, Running(t), Running(u), t[1] = u[1]
    PROVE  t = u
  BY ContextFacts DEF Running

\* The innermost guard is a guard.
LEMMA TopIsGuard ==
    ASSUME TypeOK, NEW t \in Context, guards[t] # <<>>
    PROVE  Top(t) \in Guard /\ Len(guards[t]) \in 1..Len(guards[t]) /\ Top(t).lock \in Held(t)
  <1>1. guards[t] \in Seq(Guard)
    BY DEF TypeOK
  <1>2. Len(guards[t]) \in Nat \ {0}
    BY <1>1, FrontOfGuards
  <1>3. Len(guards[t]) \in 1..Len(guards[t])
    BY <1>2
  <1> QED
    BY <1>1, <1>2, <1>3, ElementOfSeq DEF Top, Held

\* What a step that touches no guard and no flag leaves alone.
LEMMA GuardsUntouched ==
    ASSUME IInv, UNCHANGED <<locked, guards, home>>
    PROVE  FlagIffOwned' /\ MutualExclusion' /\ GuardsOk'
  <1>1. \A t \in Context : Held(t)' = Held(t)
    BY DEF Held
  <1>2. FlagIffOwned'
    BY <1>1 DEF IInv, FlagIffOwned
  <1>3. MutualExclusion'
    BY DEF IInv, MutualExclusion
  <1>4. GuardsOk'
    BY DEF IInv, GuardsOk, Entered
  <1> QED
    BY <1>2, <1>3, <1>4

-----------------------------------------------------------------------------
(* The initial states *)

LEMMA InitInv == Init => IInv
  <1> SUFFICES ASSUME Init PROVE IInv
    OBVIOUS
  <1>0. Len(<<>>) = 0
    OBVIOUS
  <1>1. TypeOK
    BY WorkAssumption DEF Init, TypeOK, PC, Context
  <1>2. \A t \in Context : guards[t] = <<>> /\ Held(t) = {}
    BY <1>0 DEF Init, Held
  <1>3. FlagIffOwned /\ MutualExclusion
    BY <1>0, <1>2 DEF FlagIffOwned, MutualExclusion, Init
  <1>4. GuardsOk
    <2> SUFFICES ASSUME NEW t \in Context PROVE 1..Len(guards[t]) = {}
      BY DEF GuardsOk
    <2> QED
      BY <1>0, <1>2
  <1>5. LocalsOk
    BY <1>2 DEF LocalsOk, Init, Waiting
  <1>6. MaskOk
    BY <1>2, ContextOf, ContextFacts
    DEF MaskOk, RunningMask, IrqOverNothing, NoIrqLeftOver, Init, Running, Settled, Entered
  <1> QED
    BY <1>1, <1>3, <1>4, <1>5, <1>6 DEF IInv

-----------------------------------------------------------------------------
(* Steps that only move the program counter *)

LEMMA SpinExitInv == ASSUME IInv, NEW t \in Context, SpinExit(t) PROVE IInv'
  <1> USE DEF IInv
  <1>1. TypeOK'
    BY DEF TypeOK, SpinExit, PC
  <1>2. FlagIffOwned' /\ MutualExclusion' /\ GuardsOk'
    BY GuardsUntouched DEF SpinExit
  <1>3. LocalsOk'
    BY DEF LocalsOk, SpinExit, TypeOK, Waiting, Top, Settled, Entered
  <1>4. MaskOk'
    <2>1. RunningMask'
      BY DEF RunningMask, MaskOk, SpinExit, TypeOK, Running, Settled, Entered
    <2>2. IrqOverNothing' /\ NoIrqLeftOver'
      BY ContextOf DEF IrqOverNothing, NoIrqLeftOver, MaskOk, SpinExit, TypeOK, Running
    <2> QED
      BY <2>1, <2>2 DEF MaskOk
  <1> QED
    BY <1>1, <1>2, <1>3, <1>4

LEMMA CasFailInv == ASSUME IInv, NEW t \in Context, CasFail(t) PROVE IInv'
  <1> USE DEF IInv
  <1>1. TypeOK'
    BY DEF TypeOK, CasFail, PC
  <1>2. FlagIffOwned' /\ MutualExclusion' /\ GuardsOk'
    BY GuardsUntouched DEF CasFail
  <1>3. LocalsOk'
    BY DEF LocalsOk, CasFail, TypeOK, Waiting, Top, Settled, Entered
  <1>4. MaskOk'
    <2>1. RunningMask'
      BY DEF RunningMask, MaskOk, CasFail, TypeOK, Running, Settled, Entered
    <2>2. IrqOverNothing' /\ NoIrqLeftOver'
      BY ContextOf DEF IrqOverNothing, NoIrqLeftOver, MaskOk, CasFail, TypeOK, Running
    <2> QED
      BY <2>1, <2>2 DEF MaskOk
  <1> QED
    BY <1>1, <1>2, <1>3, <1>4

LEMMA CallLockInv ==
    ASSUME IInv, NEW t \in Context, NEW l \in Lock, CallLock(t, l) PROVE IInv'
  <1> USE DEF IInv
  <1>1. TypeOK'
    BY DEF TypeOK, CallLock, PC
  <1>2. FlagIffOwned' /\ MutualExclusion' /\ GuardsOk'
    BY GuardsUntouched DEF CallLock
  <1>3. guards[t] # <<>> => Rank[Top(t).lock] < Rank[l]
    BY TopIsGuard, OrderAssumption DEF CallLock, Guard
  <1>4. LocalsOk'
    BY <1>3 DEF LocalsOk, CallLock, TypeOK, Waiting, Top, Settled, Entered
  <1>5. MaskOk'
    <2>1. RunningMask'
      BY DEF RunningMask, MaskOk, CallLock, TypeOK, Running, Settled, Entered
    <2>2. IrqOverNothing' /\ NoIrqLeftOver'
      BY ContextOf DEF IrqOverNothing, NoIrqLeftOver, MaskOk, CallLock, TypeOK, Running
    <2> QED
      BY <2>1, <2>2 DEF MaskOk
  <1> QED
    BY <1>1, <1>2, <1>4, <1>5

LEMMA CallDropInv == ASSUME IInv, NEW t \in Context, CallDrop(t) PROVE IInv'
  <1> USE DEF IInv
  <1>0. Top(t) \in Guard
    BY TopIsGuard DEF CallDrop
  <1>1. TypeOK'
    BY <1>0 DEF TypeOK, CallDrop, PC, Guard
  <1>2. FlagIffOwned' /\ MutualExclusion' /\ GuardsOk'
    BY GuardsUntouched DEF CallDrop
  <1>3. LocalsOk'
    BY <1>0 DEF LocalsOk, CallDrop, TypeOK, Waiting, Top, Settled, Entered, Guard
  <1>4. MaskOk'
    <2>1. RunningMask'
      BY DEF RunningMask, MaskOk, CallDrop, TypeOK, Running, Settled, Entered
    <2>2. IrqOverNothing' /\ NoIrqLeftOver'
      BY ContextOf DEF IrqOverNothing, NoIrqLeftOver, MaskOk, CallDrop, TypeOK, Running
    <2> QED
      BY <2>1, <2>2 DEF MaskOk
  <1> QED
    BY <1>1, <1>2, <1>3, <1>4

-----------------------------------------------------------------------------
(* Steps that write DAIF *)

LEMMA MaskIrqInv == ASSUME IInv, NEW t \in Context, MaskIrq(t) PROVE IInv'
  <1> USE DEF IInv
  <1>0. t[1] \in CPU /\ (masked[t[1]] <=> Settled(t)) /\ Running(t)
    BY ContextFacts DEF MaskOk, RunningMask, MaskIrq
  <1>1. TypeOK'
    BY <1>0 DEF TypeOK, MaskIrq, PC
  <1>2. FlagIffOwned' /\ MutualExclusion' /\ GuardsOk'
    BY GuardsUntouched DEF MaskIrq
  <1>3. LocalsOk'
    BY <1>0 DEF LocalsOk, MaskIrq, TypeOK, Waiting, Top, Settled, Entered
  <1>4. MaskOk'
    <2>1. RunningMask'
      <3> SUFFICES ASSUME NEW u \in Context, Running(u)'
                   PROVE  (masked[u[1]] <=> pc[u] \in {"cas", "undo", "restore"} \/ Settled(u))'
        BY DEF RunningMask
      <3>1. Running(u)
        BY DEF Running, MaskIrq
      <3>2. CASE u = t
        BY <1>0, <3>2 DEF MaskIrq, TypeOK
      <3>3. CASE u # t
        <4>1. u[1] # t[1] /\ u[1] \in CPU
          BY <1>0, <3>1, <3>3, OneRunning, ContextFacts
        <4> QED
          BY <3>1, <3>3, <4>1, <1>0 DEF MaskOk, RunningMask, MaskIrq, TypeOK, Settled, Entered
      <3> QED
        BY <3>2, <3>3
    <2>2. IrqOverNothing' /\ NoIrqLeftOver'
      BY ContextOf DEF IrqOverNothing, NoIrqLeftOver, MaskOk, MaskIrq, TypeOK, Running
    <2> QED
      BY <2>1, <2>2 DEF MaskOk
  <1> QED
    BY <1>1, <1>2, <1>3, <1>4

LEMMA UndoMaskInv == ASSUME IInv, NEW t \in Context, UndoMask(t) PROVE IInv'
  <1> USE DEF IInv
  <1>0. t[1] \in CPU /\ (daif[t] <=> Settled(t)) /\ Running(t)
    BY ContextFacts DEF LocalsOk, UndoMask
  <1>1. TypeOK'
    BY <1>0 DEF TypeOK, UndoMask, PC
  <1>2. FlagIffOwned' /\ MutualExclusion' /\ GuardsOk'
    BY GuardsUntouched DEF UndoMask
  <1>3. LocalsOk'
    BY <1>0 DEF LocalsOk, UndoMask, TypeOK, Waiting, Top, Settled, Entered
  <1>4. MaskOk'
    <2>1. RunningMask'
      <3> SUFFICES ASSUME NEW u \in Context, Running(u)'
                   PROVE  (masked[u[1]] <=> pc[u] \in {"cas", "undo", "restore"} \/ Settled(u))'
        BY DEF RunningMask
      <3>1. Running(u)
        BY DEF Running, UndoMask
      <3>2. CASE u = t
        BY <1>0, <3>2 DEF UndoMask, TypeOK, Settled, Entered
      <3>3. CASE u # t
        <4>1. u[1] # t[1] /\ u[1] \in CPU
          BY <1>0, <3>1, <3>3, OneRunning, ContextFacts
        <4> QED
          BY <3>1, <3>3, <4>1, <1>0 DEF MaskOk, RunningMask, UndoMask, TypeOK, Settled, Entered
      <3> QED
        BY <3>2, <3>3
    <2>2. IrqOverNothing' /\ NoIrqLeftOver'
      BY ContextOf DEF IrqOverNothing, NoIrqLeftOver, MaskOk, UndoMask, TypeOK, Running
    <2> QED
      BY <2>1, <2>2 DEF MaskOk
  <1> QED
    BY <1>1, <1>2, <1>3, <1>4

LEMMA RestoreDaifInv == ASSUME IInv, NEW t \in Context, RestoreDaif(t) PROVE IInv'
  <1> USE DEF IInv
  <1>0. t[1] \in CPU /\ (daif[t] <=> Settled(t)) /\ Running(t)
    BY ContextFacts DEF LocalsOk, RestoreDaif
  <1>1. TypeOK'
    BY <1>0 DEF TypeOK, RestoreDaif, Return, PC
  <1>2. FlagIffOwned' /\ MutualExclusion' /\ GuardsOk'
    BY GuardsUntouched DEF RestoreDaif
  <1>3. LocalsOk'
    BY <1>0 DEF LocalsOk, RestoreDaif, Return, TypeOK, Waiting, Top, Settled, Entered
  <1>4. MaskOk'
    <2>1. RunningMask'
      <3> SUFFICES ASSUME NEW u \in Context, Running(u)'
                   PROVE  (masked[u[1]] <=> pc[u] \in {"cas", "undo", "restore"} \/ Settled(u))'
        BY DEF RunningMask
      <3>1. Running(u)
        BY DEF Running, RestoreDaif
      <3>2. CASE u = t
        BY <1>0, <3>2 DEF RestoreDaif, Return, TypeOK, Settled, Entered
      <3>3. CASE u # t
        <4>1. u[1] # t[1] /\ u[1] \in CPU
          BY <1>0, <3>1, <3>3, OneRunning, ContextFacts
        <4> QED
          BY <3>1, <3>3, <4>1, <1>0
          DEF MaskOk, RunningMask, RestoreDaif, Return, TypeOK, Settled, Entered
      <3> QED
        BY <3>2, <3>3
    <2>2. IrqOverNothing' /\ NoIrqLeftOver'
      BY ContextOf DEF IrqOverNothing, NoIrqLeftOver, MaskOk, RestoreDaif, Return, TypeOK, Running
    <2> QED
      BY <2>1, <2>2 DEF MaskOk
  <1> QED
    BY <1>1, <1>2, <1>3, <1>4

-----------------------------------------------------------------------------
(* IRQ entry and exit *)

LEMMA TakeIrqInv == ASSUME IInv, NEW c \in CPU, TakeIrq(c) PROVE IInv'
  <1> USE DEF IInv
  <1> DEFINE b == <<c, "base">>
             q == <<c, "irq">>
  <1>0. b \in Context /\ q \in Context /\ b[1] = c /\ q[1] = c /\ b[2] = "base" /\ q[2] = "irq"
    BY ContextOf
  <1> HIDE DEF b, q
  <1>1. Running(b) /\ ~masked[c] /\ ~inIrq[c]
    BY <1>0 DEF Running, TakeIrq
  <1>2. pc[b] \notin {"cas", "undo", "restore"} /\ guards[b] = <<>> /\ ~home[c]
    BY <1>0, <1>1 DEF MaskOk, RunningMask, Settled, Entered
  <1>3. pc[b] \in {"run", "spin", "mask"}
    BY <1>0, <1>2 DEF LocalsOk, TypeOK, PC
  <1>4. pc[q] = "run" /\ guards[q] = <<>>
    BY <1>1 DEF MaskOk, NoIrqLeftOver, q
  <1>5. TypeOK'
    BY <1>0 DEF TypeOK, TakeIrq, q
  <1>6. FlagIffOwned' /\ MutualExclusion' /\ GuardsOk'
    BY GuardsUntouched DEF TakeIrq
  <1>7. LocalsOk'
    BY DEF LocalsOk, TakeIrq, Waiting, Top, Settled, Entered
  <1>8. RunningMask'
    <2> SUFFICES ASSUME NEW u \in Context, Running(u)'
                 PROVE  (masked[u[1]] <=> pc[u] \in {"cas", "undo", "restore"} \/ Settled(u))'
      BY DEF RunningMask
    <2>1. u[1] \in CPU
      BY ContextFacts
    <2>2. CASE u[1] = c
      <3>1. u[2] = "irq"
        BY <2>2, <1>1 DEF Running, TakeIrq, TypeOK
      <3> QED
        BY <2>2, <3>1 DEF TakeIrq, TypeOK, Settled, Entered
    <2>3. CASE u[1] # c
      <3>1. Running(u)
        BY <2>1, <2>3 DEF Running, TakeIrq, TypeOK
      <3> QED
        BY <2>1, <2>3, <3>1 DEF MaskOk, RunningMask, TakeIrq, TypeOK, Settled, Entered
    <2> QED
      BY <2>2, <2>3
  <1>9. IrqOverNothing' /\ NoIrqLeftOver'
    BY <1>1, <1>2, <1>3 DEF IrqOverNothing, NoIrqLeftOver, MaskOk, TakeIrq, TypeOK, b
  <1> QED
    BY <1>5, <1>6, <1>7, <1>8, <1>9 DEF MaskOk

LEMMA EretInv == ASSUME IInv, NEW c \in CPU, Eret(c) PROVE IInv'
  <1> USE DEF IInv
  <1>1. TypeOK'
    BY DEF TypeOK, Eret
  <1>2. FlagIffOwned' /\ MutualExclusion' /\ GuardsOk'
    BY GuardsUntouched DEF Eret
  <1>3. LocalsOk'
    BY DEF LocalsOk, Eret, Waiting, Top, Settled, Entered
  <1>4. RunningMask'
    <2> SUFFICES ASSUME NEW u \in Context, Running(u)'
                 PROVE  (masked[u[1]] <=> pc[u] \in {"cas", "undo", "restore"} \/ Settled(u))'
      BY DEF RunningMask
    <2>1. u[1] \in CPU /\ u = <<u[1], u[2]>>
      BY ContextFacts
    <2>2. CASE u[1] = c
      <3>1. u[2] = "base"
        BY <2>2 DEF Running, Eret, TypeOK
      <3>2. u = <<c, "base">>
        BY <2>1, <2>2, <3>1
      <3>3. ~spsr[c] /\ ~home[c] /\ pc[u] \in {"run", "spin", "mask"} /\ guards[u] = <<>>
        BY <3>2 DEF MaskOk, IrqOverNothing, Eret
      <3> QED
        BY <2>2, <3>1, <3>3 DEF Eret, TypeOK, Settled, Entered
    <2>3. CASE u[1] # c
      <3>1. Running(u)
        BY <2>1, <2>3 DEF Running, Eret, TypeOK
      <3> QED
        BY <2>1, <2>3, <3>1 DEF MaskOk, RunningMask, Eret, TypeOK, Settled, Entered
    <2> QED
      BY <2>2, <2>3
  <1>5. IrqOverNothing' /\ NoIrqLeftOver'
    BY DEF IrqOverNothing, NoIrqLeftOver, MaskOk, Eret, TypeOK
  <1> QED
    BY <1>1, <1>2, <1>3, <1>4, <1>5 DEF MaskOk

-----------------------------------------------------------------------------
(* Taking and releasing a mutex *)

LEMMA CasOkInv == ASSUME IInv, NEW t \in Context, CasOk(t) PROVE IInv'
  <1> USE DEF IInv
  <1> DEFINE w == want[t]
             g == [lock |-> w, daif |-> daif[t]]
             n == Len(guards[t])
  <1>0. Running(t) /\ w \in Lock /\ ~locked[w] /\ (daif[t] <=> Settled(t)) /\ t[1] \in CPU
    BY ContextFacts DEF LocalsOk, CasOk
  <1>1. g \in Guard /\ g.lock = w /\ g.daif = daif[t]
    BY <1>0 DEF Guard, TypeOK
  <1>2. guards[t] \in Seq(Guard)
    BY DEF TypeOK
  <1>3. /\ guards'[t] = Append(guards[t], g)
        /\ \A u \in Context : u # t => guards'[u] = guards[u]
    BY DEF CasOk, TypeOK
  <1> HIDE DEF g, w
  <1>4. /\ guards'[t] \in Seq(Guard)
        /\ Len(guards'[t]) = n + 1
        /\ \A i \in 1..n : guards'[t][i] = guards[t][i]
        /\ guards'[t][n + 1] = g
        /\ guards'[t] # <<>>
        /\ n \in Nat
    BY <1>1, <1>2, <1>3, AppendOfGuards
  <1> HIDE DEF n
  <1>5. \A u \in Context : w \notin Held(u)
    BY <1>0 DEF FlagIffOwned
  <1>6. TypeOK'
    <2>1. guards' \in [Context -> Seq(Guard)]
      BY <1>3, <1>4 DEF TypeOK, CasOk
    <2> QED
      BY <1>0, <2>1 DEF TypeOK, CasOk, Return, PC
  <1>7. Held(t)' = Held(t) \cup {w} /\ \A u \in Context : u # t => Held(u)' = Held(u)
    <2>1. \A u \in Context : u # t => Held(u)' = Held(u)
      BY <1>3 DEF Held
    <2>2. ASSUME NEW x \in Held(t)' PROVE x \in Held(t) \cup {w}
      <3>1. PICK i \in 1..(n + 1) : x = guards'[t][i].lock
        BY <1>4 DEF Held
      <3>2. CASE i = n + 1
        BY <1>1, <1>4, <3>1, <3>2
      <3>3. CASE i # n + 1
        <4>1. i \in 1..n
          BY <1>4, <3>3
        <4> QED
          BY <1>4, <3>1, <4>1 DEF Held, n
      <3> QED
        BY <3>2, <3>3
    <2>3. ASSUME NEW x \in Held(t) PROVE x \in Held(t)'
      <3>1. PICK i \in 1..n : x = guards[t][i].lock
        BY DEF Held, n
      <3>2. i \in 1..(n + 1)
        BY <1>4
      <3> QED
        BY <1>4, <3>1, <3>2 DEF Held
    <2>4. w \in Held(t)'
      <3>1. n + 1 \in 1..(n + 1)
        BY <1>4
      <3> QED
        BY <1>1, <1>4, <3>1 DEF Held
    <2> QED
      BY <2>1, <2>2, <2>3, <2>4
  <1>8. FlagIffOwned'
    <2> SUFFICES ASSUME NEW l \in Lock
                 PROVE  locked'[l] <=> \E u \in Context : l \in Held(u)'
      BY DEF FlagIffOwned
    <2>1. CASE l = w
      BY <1>0, <1>7, <2>1 DEF CasOk, TypeOK, w
    <2>2. CASE l # w
      <3>1. locked'[l] = locked[l]
        BY <2>2 DEF CasOk, TypeOK, w
      <3>2. \A u \in Context : l \in Held(u)' <=> l \in Held(u)
        BY <1>7, <2>2
      <3> QED
        BY <3>1, <3>2 DEF FlagIffOwned
    <2> QED
      BY <2>1, <2>2
  <1>9. MutualExclusion'
    <2> SUFFICES ASSUME NEW u \in Context, NEW v \in Context,
                        NEW i \in 1..Len(guards'[u]), NEW j \in 1..Len(guards'[v]),
                        guards'[u][i].lock = guards'[v][j].lock
                 PROVE  u = v /\ i = j
      BY DEF MutualExclusion
    <2>1. ASSUME NEW x \in Context, NEW k \in 1..Len(guards'[x])
          PROVE  \/ x = t /\ k = n + 1 /\ guards'[x][k].lock = w
                 \/ /\ k \in 1..Len(guards[x]) /\ guards'[x][k] = guards[x][k]
                    /\ guards'[x][k].lock # w
      <3>1. CASE x = t /\ k = n + 1
        BY <1>1, <1>4, <3>1
      <3>2. CASE x = t /\ k # n + 1
        <4>1. k \in 1..n
          BY <1>4, <3>2
        <4>2. guards[t][k].lock \in Held(t)
          BY <4>1 DEF Held, n
        <4> QED
          BY <1>4, <1>5, <3>2, <4>1, <4>2 DEF n
      <3>3. CASE x # t
        <4>1. k \in 1..Len(guards[x]) /\ guards'[x][k] = guards[x][k]
          BY <1>3, <3>3
        <4>2. guards[x][k].lock \in Held(x)
          BY <4>1 DEF Held
        <4> QED
          BY <1>5, <4>1, <4>2
      <3> QED
        BY <3>1, <3>2, <3>3
    <2>2. CASE guards'[u][i].lock = w
      <3>1. u = t /\ i = n + 1
        BY <2>1, <2>2
      <3>2. v = t /\ j = n + 1
        BY <2>1, <2>2
      <3> QED
        BY <3>1, <3>2
    <2>3. CASE guards'[u][i].lock # w
      <3>1. i \in 1..Len(guards[u]) /\ j \in 1..Len(guards[v])
        BY <2>1, <2>3
      <3>2. guards[u][i].lock = guards[v][j].lock
        BY <2>1, <2>3
      <3> QED
        BY <3>1, <3>2 DEF MutualExclusion
    <2> QED
      BY <2>2, <2>3
  <1>10. GuardsOk'
    <2> SUFFICES ASSUME NEW u \in Context
                 PROVE  /\ \A i \in 1..Len(guards'[u]) :
                              guards'[u][i].daif <=> (i = 1 => Entered(u)')
                        /\ \A i, j \in 1..Len(guards'[u]) :
                              i < j => Rank[guards'[u][i].lock] < Rank[guards'[u][j].lock]
      BY DEF GuardsOk
    <2>0. Entered(u)' <=> Entered(u)
      BY DEF Entered, CasOk
    <2>1. CASE u # t
      BY <1>3, <2>0, <2>1 DEF GuardsOk
    <2>2. CASE u = t
      <3>1. ASSUME NEW i \in 1..(n + 1)
            PROVE  guards'[t][i].daif <=> (i = 1 => Entered(t))
        <4>1. CASE i \in 1..n
          BY <1>4, <4>1 DEF GuardsOk, n
        <4>2. CASE i = n + 1
          <5>1. guards[t] = <<>> <=> n = 0
            BY <1>2, EmptySeq DEF n
          <5> QED
            BY <1>0, <1>1, <1>4, <4>2, <5>1 DEF Settled
        <4> QED
          BY <1>4, <4>1, <4>2
      <3>2. ASSUME NEW i \in 1..(n + 1), NEW j \in 1..(n + 1), i < j
            PROVE  Rank[guards'[t][i].lock] < Rank[guards'[t][j].lock]
        <4>1. i \in 1..n
          BY <1>4, <3>2
        <4>2. CASE j \in 1..n
          BY <1>4, <3>2, <4>1, <4>2 DEF GuardsOk, n
        <4>3. CASE j = n + 1
          <5>1. guards[t] # <<>> /\ n \in 1..n
            BY <1>2, <4>1, EmptySeq DEF n
          <5>2. Rank[guards[t][n].lock] < Rank[w]
            BY <5>1 DEF LocalsOk, CasOk, Waiting, Top, n, w
          <5>3. i < n => Rank[guards[t][i].lock] < Rank[guards[t][n].lock]
            BY <4>1, <5>1 DEF GuardsOk, n
          <5>4. guards[t][i].lock \in Lock /\ guards[t][n].lock \in Lock
            <6>1. guards[t][i] \in Guard /\ guards[t][n] \in Guard
              BY <1>2, <4>1, <5>1, ElementOfSeq DEF n
            <6> QED
              BY <6>1 DEF Guard
          <5>5. Rank[guards[t][i].lock] < Rank[w]
            BY <1>0, <1>4, <4>1, <5>2, <5>3, <5>4, OrderAssumption
          <5> QED
            BY <1>1, <1>4, <4>1, <4>3, <5>5
        <4> QED
          BY <1>4, <4>2, <4>3
      <3> QED
        BY <1>4, <2>0, <2>2, <3>1, <3>2
    <2> QED
      BY <2>1, <2>2
  <1>11. LocalsOk'
    BY <1>3 DEF LocalsOk, CasOk, Return, TypeOK, Waiting, Top, Settled, Entered
  <1>12. RunningMask'
    <2> SUFFICES ASSUME NEW u \in Context, Running(u)'
                 PROVE  (masked[u[1]] <=> pc[u] \in {"cas", "undo", "restore"} \/ Settled(u))'
      BY DEF RunningMask
    <2>1. Running(u)
      BY DEF Running, CasOk
    <2>2. CASE u = t
      <3>1. masked[t[1]]
        BY <1>0 DEF MaskOk, RunningMask, CasOk
      <3> QED
        BY <2>2, <3>1, <1>4 DEF CasOk, Settled
    <2>3. CASE u # t
      BY <2>1, <2>3, <1>3 DEF MaskOk, RunningMask, CasOk, Return, TypeOK, Settled, Entered
    <2> QED
      BY <2>2, <2>3
  <1>13. IrqOverNothing' /\ NoIrqLeftOver'
    BY <1>0, <1>3, ContextOf
    DEF IrqOverNothing, NoIrqLeftOver, MaskOk, CasOk, Return, TypeOK, Running
  <1> QED
    BY <1>6, <1>8, <1>9, <1>10, <1>11, <1>12, <1>13 DEF MaskOk

LEMMA UnlockInv == ASSUME IInv, NEW t \in Context, Unlock(t) PROVE IInv'
  <1> USE DEF IInv
  <1> DEFINE w == want[t]
             n == Len(guards[t])
  <1>0. /\ Running(t) /\ t[1] \in CPU /\ guards[t] # <<>>
        /\ w \in Lock /\ w = Top(t).lock /\ (daif[t] <=> Top(t).daif)
    BY ContextFacts DEF LocalsOk, Unlock
  <1>1. guards[t] \in Seq(Guard)
    BY DEF TypeOK
  <1>2. /\ guards'[t] = SubSeq(guards[t], 1, n - 1)
        /\ \A u \in Context : u # t => guards'[u] = guards[u]
    BY DEF Unlock, TypeOK
  <1>3. /\ guards'[t] \in Seq(Guard)
        /\ Len(guards'[t]) = n - 1
        /\ \A i \in 1..(n - 1) : guards'[t][i] = guards[t][i]
        /\ n \in Nat \ {0}
    BY <1>0, <1>1, <1>2, FrontOfGuards
  <1>4. guards[t][n].lock = w /\ (guards[t][n].daif <=> daif[t])
    BY <1>0 DEF Top
  <1> HIDE DEF w
  <1>5. TypeOK'
    <2>1. guards' \in [Context -> Seq(Guard)]
      BY <1>2, <1>3 DEF TypeOK, Unlock
    <2> QED
      BY <1>0, <2>1 DEF TypeOK, Unlock, PC
  <1>6. ASSUME NEW u \in Context, NEW i \in 1..Len(guards'[u])
        PROVE  /\ i \in 1..Len(guards[u]) /\ guards'[u][i] = guards[u][i]
               /\ guards'[u][i].lock # w
    <2>1. CASE u = t
      <3>1. i \in 1..(n - 1)
        BY <1>3, <2>1
      <3>2. i \in 1..n /\ n \in 1..n /\ i # n
        BY <1>3, <3>1
      <3> QED
        BY <1>3, <1>4, <2>1, <3>1, <3>2, SMTT(30) DEF MutualExclusion
    <2>2. CASE u # t
      <3>1. n \in 1..n
        BY <1>3
      <3> QED
        BY <1>2, <1>4, <2>2, <3>1 DEF MutualExclusion
    <2> QED
      BY <2>1, <2>2
  <1>7. MutualExclusion'
    <2> SUFFICES ASSUME NEW u \in Context, NEW v \in Context,
                        NEW i \in 1..Len(guards'[u]), NEW j \in 1..Len(guards'[v]),
                        guards'[u][i].lock = guards'[v][j].lock
                 PROVE  u = v /\ i = j
      BY DEF MutualExclusion
    <2>1. i \in 1..Len(guards[u]) /\ j \in 1..Len(guards[v])
      BY <1>6
    <2>2. guards[u][i].lock = guards[v][j].lock
      BY <1>6
    <2> QED
      BY <2>1, <2>2 DEF MutualExclusion
  <1>8. \A u \in Context, l \in Lock : l \in Held(u)' <=> l \in Held(u) /\ l # w
    <2> SUFFICES ASSUME NEW u \in Context, NEW l \in Lock
                 PROVE  l \in Held(u)' <=> l \in Held(u) /\ l # w
      OBVIOUS
    <2>1. ASSUME l \in Held(u)' PROVE l \in Held(u) /\ l # w
      <3>1. PICK i \in 1..Len(guards'[u]) : l = guards'[u][i].lock
        BY <2>1 DEF Held
      <3> QED
        BY <1>6, <3>1 DEF Held
    <2>2. ASSUME l \in Held(u), l # w PROVE l \in Held(u)'
      <3>1. PICK i \in 1..Len(guards[u]) : l = guards[u][i].lock
        BY <2>2 DEF Held
      <3>2. CASE u = t
        <4>1. i # n /\ i \in 1..n
          BY <1>4, <2>2, <3>1, <3>2
        <4>2. i \in 1..(n - 1)
          BY <1>3, <4>1
        <4> QED
          BY <1>3, <3>1, <3>2, <4>2 DEF Held
      <3>3. CASE u # t
        BY <1>2, <3>1, <3>3 DEF Held
      <3> QED
        BY <3>2, <3>3
    <2> QED
      BY <2>1, <2>2
  <1>9. FlagIffOwned'
    <2> SUFFICES ASSUME NEW l \in Lock
                 PROVE  locked'[l] <=> \E u \in Context : l \in Held(u)'
      BY DEF FlagIffOwned
    <2>1. CASE l = w
      BY <1>8, <2>1 DEF Unlock, TypeOK, w
    <2>2. CASE l # w
      <3>1. locked'[l] = locked[l]
        BY <2>2 DEF Unlock, TypeOK, w
      <3> QED
        BY <1>8, <2>2, <3>1 DEF FlagIffOwned
    <2> QED
      BY <2>1, <2>2
  <1>10. GuardsOk'
    <2>1. \A u \in Context : Entered(u)' <=> Entered(u)
      BY DEF Entered, Unlock
    <2>2. ASSUME NEW u \in Context, NEW i \in 1..Len(guards'[u])
          PROVE  guards'[u][i].daif <=> (i = 1 => Entered(u)')
      BY <1>6, <2>1, <2>2 DEF GuardsOk
    <2>3. ASSUME NEW u \in Context, NEW i \in 1..Len(guards'[u]), NEW j \in 1..Len(guards'[u]),
                 i < j
          PROVE  Rank[guards'[u][i].lock] < Rank[guards'[u][j].lock]
      BY <1>6, <2>3 DEF GuardsOk
    <2> QED
      BY <2>2, <2>3 DEF GuardsOk
  <1>11. daif[t] <=> Settled(t)'
    <2>1. guards'[t] = <<>> <=> n = 1
      <3>1. guards'[t] = <<>> <=> Len(guards'[t]) = 0
        BY <1>3, EmptySeq
      <3> QED
        BY <1>3, <3>1
    <2>2. n \in 1..n
      BY <1>3
    <2>3. daif[t] <=> (n = 1 => Entered(t))
      BY <1>4, <2>2 DEF GuardsOk
    <2> QED
      BY <2>1, <2>3 DEF Settled, Entered, Unlock
  <1>12. LocalsOk'
    BY <1>0, <1>2, <1>11 DEF LocalsOk, Unlock, TypeOK, Waiting, Top, Settled, Entered, w
  <1>13. RunningMask'
    <2> SUFFICES ASSUME NEW u \in Context, Running(u)'
                 PROVE  (masked[u[1]] <=> pc[u] \in {"cas", "undo", "restore"} \/ Settled(u))'
      BY DEF RunningMask
    <2>1. Running(u)
      BY DEF Running, Unlock
    <2>2. CASE u = t
      <3>1. masked[t[1]]
        BY <1>0 DEF MaskOk, RunningMask, Settled
      <3> QED
        BY <2>2, <3>1 DEF Unlock, TypeOK
    <2>3. CASE u # t
      BY <2>1, <2>3, <1>2 DEF MaskOk, RunningMask, Unlock, TypeOK, Settled, Entered
    <2> QED
      BY <2>2, <2>3
  <1>14. IrqOverNothing' /\ NoIrqLeftOver'
    BY <1>0, <1>2, ContextOf
    DEF IrqOverNothing, NoIrqLeftOver, MaskOk, Unlock, TypeOK, Running
  <1> QED
    BY <1>5, <1>7, <1>9, <1>10, <1>12, <1>13, <1>14 DEF MaskOk

-----------------------------------------------------------------------------
(* The theorems *)

\* IInv is inductive.
LEMMA NextInv == IInv /\ [Next]_vars => IInv'
  <1> SUFFICES ASSUME IInv, [Next]_vars PROVE IInv'
    OBVIOUS
  <1>1. CASE UNCHANGED vars
    <2>1. TypeOK'
      BY <1>1 DEF IInv, TypeOK, vars
    <2>2. FlagIffOwned' /\ MutualExclusion' /\ GuardsOk'
      BY <1>1, GuardsUntouched DEF vars
    <2>3. LocalsOk'
      BY <1>1 DEF IInv, LocalsOk, Waiting, Top, Settled, Entered, vars
    <2>4. MaskOk'
      BY <1>1
      DEF IInv, MaskOk, RunningMask, IrqOverNothing, NoIrqLeftOver, Running, Settled, Entered, vars
    <2> QED
      BY <2>1, <2>2, <2>3, <2>4 DEF IInv
  <1>2. ASSUME NEW t \in Context, Step(t) PROVE IInv'
    BY <1>2, SpinExitInv, MaskIrqInv, CasOkInv, CasFailInv, UndoMaskInv, CallDropInv, UnlockInv,
       RestoreDaifInv
    DEF Step
  <1> QED
    BY <1>1, <1>2, CallLockInv, TakeIrqInv, EretInv DEF Next

\* What the inductive invariant implies.
LEMMA InvImplies ==
    IInv => TypeOK /\ MutualExclusion /\ FlagIffOwned
            /\ IrqNeverOverHolder /\ DaifBalanced /\ WaitChainRises
  <1> SUFFICES ASSUME IInv
               PROVE  IrqNeverOverHolder /\ DaifBalanced /\ WaitChainRises
    BY DEF IInv
  <1> USE DEF IInv
  <1>1. IrqNeverOverHolder
    BY DEF MaskOk, IrqOverNothing, IrqNeverOverHolder
  <1>2. DaifBalanced
    <2> SUFFICES ASSUME NEW c \in CPU
                 PROVE  /\ inIrq[c] => masked[c] /\ spsr[c] = home[c]
                        /\ ~inIrq[c] /\ pc[<<c, "base">>] = "run" /\ guards[<<c, "base">>] = <<>>
                             => masked[c] = home[c]
      BY DEF DaifBalanced
    <2>1. ASSUME inIrq[c] PROVE masked[c] /\ spsr[c] = home[c]
      <3>1. Running(<<c, "irq">>) /\ Entered(<<c, "irq">>)
        BY <2>1 DEF Running, Entered
      <3>2. masked[c]
        BY <3>1, ContextOf DEF MaskOk, RunningMask, Settled
      <3> QED
        BY <2>1, <3>2 DEF MaskOk, IrqOverNothing, TypeOK
    <2>2. ASSUME ~inIrq[c], pc[<<c, "base">>] = "run", guards[<<c, "base">>] = <<>>
          PROVE  masked[c] = home[c]
      <3>1. Running(<<c, "base">>) /\ (Settled(<<c, "base">>) <=> home[c])
        BY <2>2 DEF Running, Settled, Entered
      <3>2. masked[c] <=> home[c]
        BY <2>2, <3>1, ContextOf DEF MaskOk, RunningMask
      <3> QED
        BY <3>2 DEF TypeOK
    <2> QED
      BY <2>1, <2>2
  <1>3. WaitChainRises
    <2> SUFFICES ASSUME NEW t \in Context, NEW u \in Context,
                        Waiting(t), Waiting(u), want[t] \in Held(u)
                 PROVE  Rank[want[t]] < Rank[want[u]]
      BY DEF WaitChainRises
    <2> DEFINE n == Len(guards[u])
    <2>1. PICK i \in 1..n : want[t] = guards[u][i].lock
      BY DEF Held
    <2>2. guards[u] \in Seq(Guard)
      BY DEF TypeOK
    <2>3. n \in Nat /\ guards[u] # <<>> /\ n \in 1..n
      BY <2>1, <2>2, EmptySeq, LenProperties
    <2>4. Rank[guards[u][n].lock] < Rank[want[u]]
      BY <2>3 DEF LocalsOk, Top
    <2>5. i < n => Rank[guards[u][i].lock] < Rank[guards[u][n].lock]
      BY <2>3 DEF GuardsOk
    <2>6. want[u] \in Lock
      BY DEF LocalsOk, Waiting
    <2>7. guards[u][i] \in Guard /\ guards[u][n] \in Guard
      BY <2>2, <2>3, ElementOfSeq
    <2>8. /\ Rank[want[u]] \in Nat /\ Rank[guards[u][i].lock] \in Nat
          /\ Rank[guards[u][n].lock] \in Nat
      BY <2>6, <2>7, OrderAssumption DEF Guard
    <2> HIDE DEF n
    <2> QED
      BY <2>1, <2>3, <2>4, <2>5, <2>8
  <1> QED
    BY <1>1, <1>2, <1>3

LEMMA Invariant == Spec => []IInv
  BY InitInv, NextInv, PTL DEF Spec

\* Every variable keeps its type through lock(), drop() and IRQ entry and exit.
THEOREM TypeCorrect == Spec => []TypeOK
  BY Invariant, InvImplies, PTL

\* lock() never hands the same mutex to two guards, on any number of CPUs.
THEOREM LockIsExclusive == Spec => []MutualExclusion
  BY Invariant, InvImplies, PTL

\* The AtomicBool of a mutex is set exactly while a guard owns it.
THEOREM FlagTellsOwner == Spec => []FlagIffOwned
  BY Invariant, InvImplies, PTL

\* irq_handler never runs on a CPU whose interrupted code holds a mutex, so it
\* cannot spin on a mutex of its own CPU.
THEOREM IrqSafe == Spec => []IrqNeverOverHolder
  BY Invariant, InvImplies, PTL

\* DAIF is restored through every nesting of lock() and drop().
THEOREM DaifRestored == Spec => []DaifBalanced
  BY Invariant, InvImplies, PTL

\* If Order climbs along Rank, contexts never wait for each other in a circle.
THEOREM NoCircularWait == Spec => []WaitChainRises
  BY Invariant, InvImplies, PTL
=============================================================================
