------------------------------ MODULE Pl011Mmio ------------------------------
(***************************************************************************)
(* The emulated PL011 UART of a VM (mmio/pl011.rs), between the CPU that   *)
(* handles the host's UART interrupt and calls push, and the guest's       *)
(* driver, which reads UART_DR in its interrupt handler until UART_FR says *)
(* that the FIFO is empty.  Every access is under the device's Mutex and   *)
(* is one action.  The ID registers, UART_CR and the output side of        *)
(* UART_DR are left out: nothing here depends on them.                     *)
(***************************************************************************)
EXTENDS Naturals, Sequences

CONSTANTS
    Char,       \* the characters, other than NUL, that handle_input passes on
    NUL,        \* 0: an empty place of read_buffer
    BUFFER,     \* the length of read_buffer
    Burst,      \* characters that may wait to be read: how slow the guest is
    MaxInput    \* bound: characters received

ASSUME CharAssumption == NUL \notin Char
ASSUME BufferAssumption == BUFFER \in Nat \ {0} /\ Burst \in Nat /\ MaxInput \in Nat

VARIABLES
    read_buffer,
    rxfe,       \* flag: UART_FR_RXFE
    rxim,       \* interrupt_mask: UART_IMSC_RXIM
    rxris,      \* raw_interrupt_status: UART_RIS_RXRIS
    irq,        \* PL011_INT_ID has been triggered and not been taken
    driver,     \* the guest: outside its handler, about to read FR, or DR
    unread,     \* the characters that were stored and not read (not in the code)
    input       \* the characters received so far (not in the code)

vars == <<read_buffer, rxfe, rxim, rxris, irq, driver, unread, input>>

Init ==
    /\ read_buffer = [i \in 1..BUFFER |-> NUL]
    /\ rxfe = FALSE /\ rxim = FALSE /\ rxris = FALSE
    /\ irq = FALSE
    /\ driver = "idle"
    /\ unread = <<>>
    /\ input = 0

Empty == {i \in 1..BUFFER : read_buffer[i] = NUL}
First(S) == CHOOSE i \in S : \A j \in S : i <= j

\* Mutant: the last empty place is taken.
StoreLast(c) ==
    LET last == CHOOSE i \in Empty : \A j \in Empty : j <= i IN
    IF Empty = {}
    THEN UNCHANGED <<read_buffer, unread>>
    ELSE /\ read_buffer' = [read_buffer EXCEPT ![last] = c]
         /\ unread' = Append(unread, c)

\* The first empty place takes the character; without one it is dropped.
Store(c) ==
    IF Empty = {}
    THEN UNCHANGED <<read_buffer, unread>>
    ELSE /\ read_buffer' = [read_buffer EXCEPT ![First(Empty)] = c]
         /\ unread' = Append(unread, c)

\* Mutant: RXFE is not cleared.
push_keep_rxfe(c) ==
    /\ input < MaxInput /\ Len(unread) < Burst
    /\ input' = input + 1
    /\ Store(c)
    /\ IF rxim THEN rxris' = TRUE /\ irq' = TRUE ELSE UNCHANGED <<rxris, irq>>
    /\ UNCHANGED <<rxfe, rxim, driver>>

push(c) ==
    /\ input < MaxInput /\ Len(unread) < Burst
    /\ input' = input + 1
    /\ Store(c)
    /\ rxfe' = FALSE
    /\ IF rxim THEN rxris' = TRUE /\ irq' = TRUE ELSE UNCHANGED <<rxris, irq>>
    /\ UNCHANGED <<rxim, driver>>

-----------------------------------------------------------------------------
(* read and write, called for the guest's accesses *)

\* The elements move down by one; the last one keeps its value.
Shifted == [i \in 1..BUFFER |-> read_buffer[IF i < BUFFER THEN i + 1 ELSE i]]

\* Mutant: the interrupt status survives the last read.
TakeDrSticky ==
    /\ read_buffer' = Shifted
    /\ unread' = IF unread = <<>> THEN unread ELSE Tail(unread)
    /\ rxfe' = (rxfe \/ Shifted[1] = NUL)
    /\ UNCHANGED rxris

\* UART_DR.
TakeDr ==
    /\ read_buffer' = Shifted
    /\ unread' = IF unread = <<>> THEN unread ELSE Tail(unread)
    /\ IF Shifted[1] = NUL
       THEN rxfe' = TRUE /\ rxris' = FALSE
       ELSE UNCHANGED <<rxfe, rxris>>

\* UART_IMSC and UART_ICR.
WriteImsc(b) ==
    /\ driver = "idle"
    /\ rxim' = b
    /\ UNCHANGED <<read_buffer, rxfe, rxris, irq, driver, unread, input>>

WriteIcr ==
    /\ driver = "idle"
    /\ rxris' = FALSE
    /\ UNCHANGED <<read_buffer, rxfe, rxim, irq, driver, unread, input>>

-----------------------------------------------------------------------------
(* The guest's driver (external) *)

TakeInterrupt ==
    /\ irq /\ driver = "idle"
    /\ irq' = FALSE
    /\ driver' = "FR"
    /\ UNCHANGED <<read_buffer, rxfe, rxim, rxris, unread, input>>

ReadFr ==
    /\ driver = "FR"
    /\ driver' = IF rxfe THEN "idle" ELSE "DR"
    /\ UNCHANGED <<read_buffer, rxfe, rxim, rxris, irq, unread, input>>

ReadDr ==
    /\ driver = "DR"
    /\ TakeDr
    /\ driver' = "FR"
    /\ UNCHANGED <<rxim, irq, input>>

\* A read outside the handler: drivers empty the FIFO when they open the port.
PollDr ==
    /\ driver = "idle"
    /\ TakeDr
    /\ UNCHANGED <<rxim, irq, driver, input>>

Guest == TakeInterrupt \/ ReadFr \/ ReadDr

Next ==
    \/ \E c \in Char : push(c)
    \/ \E b \in BOOLEAN : WriteImsc(b)
    \/ WriteIcr \/ PollDr
    \/ Guest

Spec == Init /\ [][Next]_vars

\* The guest takes its interrupts and its handler runs.
FairSpec == Spec /\ WF_vars(Guest)

-----------------------------------------------------------------------------
(* Properties *)

TypeOK ==
    /\ read_buffer \in [1..BUFFER -> Char \cup {NUL}]
    /\ rxfe \in BOOLEAN /\ rxim \in BOOLEAN /\ rxris \in BOOLEAN /\ irq \in BOOLEAN
    /\ driver \in {"idle", "FR", "DR"}
    /\ unread \in Seq(Char)
    /\ input \in 0..MaxInput

(***************************************************************************)
(* read_buffer starts with exactly the characters that were stored and not *)
(* read, in their order, through drops, overruns and reads of an empty     *)
(* buffer.  The places behind them are alike: empty, or, once the buffer   *)
(* has been full, the last character again, which the shift never clears.  *)
(* So there is never a hole that would end the guest's reading early.      *)
(***************************************************************************)
BufferHoldsUnread ==
    /\ Len(unread) <= BUFFER
    /\ \A i \in 1..BUFFER :
        read_buffer[i] = IF i <= Len(unread) THEN unread[i] ELSE read_buffer[BUFFER]

(***************************************************************************)
(* The status registers against what the guest has not read: RXRIS is set  *)
(* only while a character is unread, as long as the buffer has never been  *)
(* full, and UART_FR never says empty while one is unread.  Once the last  *)
(* place has been written, its stale copy keeps the first place filled:    *)
(* no read clears RXRIS or sets RXFE any more, with nothing unread too,    *)
(* and the guest reads the last character again and again.                 *)
(***************************************************************************)
StatusMeansUnread ==
    /\ rxris => ~rxfe /\ (unread # <<>> \/ read_buffer[BUFFER] # NUL)
    /\ unread # <<>> => ~rxfe

(***************************************************************************)
(* The guest's handler, started by the interrupt of one character, reads   *)
(* all that have come: nothing is left behind by a push that falls between *)
(* its reads of UART_FR and UART_DR.                                       *)
(***************************************************************************)
InterruptDrains == irq ~> unread = <<>>

=============================================================================
