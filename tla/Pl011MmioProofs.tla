--------------------------- MODULE Pl011MmioProofs ---------------------------
(***************************************************************************)
(* Proofs about Pl011Mmio, for any size of the buffer and any input: the   *)
(* buffer always starts with the unread characters, and the status bits    *)
(* tell of them until the buffer has been full for the first time.         *)
(***************************************************************************)
EXTENDS Pl011Mmio, SequenceTheorems, TLAPS

\* The status bits against the first place of the buffer.
StatusMeansFilled ==
    /\ rxris => ~rxfe /\ read_buffer[1] # NUL
    /\ unread # <<>> => ~rxfe

IInv == TypeOK /\ BufferHoldsUnread /\ StatusMeansFilled

(***************************************************************************)
(* The place that push finds is the one behind the unread characters.      *)
(***************************************************************************)
LEMMA FirstEmpty ==
    ASSUME IInv, Empty # {}
    PROVE  First(Empty) = Len(unread) + 1 /\ Len(unread) + 1 \in 1..BUFFER
           /\ read_buffer[BUFFER] = NUL
  <1> USE CharAssumption, BufferAssumption
  <1>1. Len(unread) \in Nat /\ \A i \in 1..Len(unread) : unread[i] \in Char
    BY DEF IInv, TypeOK
  <1>2. PICK e \in 1..BUFFER : read_buffer[e] = NUL
    BY DEF Empty
  <1>3. \A i \in 1..Len(unread) : i \in 1..BUFFER /\ read_buffer[i] # NUL
    BY <1>1 DEF IInv, BufferHoldsUnread
  <1>4. read_buffer[BUFFER] = NUL
    BY <1>1, <1>2, <1>3 DEF IInv, BufferHoldsUnread
  <1>5. Len(unread) < BUFFER
    BY <1>1, <1>3, <1>4 DEF IInv, BufferHoldsUnread
  <1>6. Len(unread) + 1 \in Empty
    BY <1>1, <1>4, <1>5 DEF IInv, BufferHoldsUnread, Empty
  <1>7. \A j \in Empty : Len(unread) + 1 <= j
    BY <1>1, <1>3 DEF Empty
  <1>8. \A i, j \in Empty : i <= j /\ j <= i => i = j
    BY DEF Empty
  <1>9. First(Empty) \in Empty /\ \A j \in Empty : First(Empty) <= j
    BY <1>6, <1>7 DEF First
  <1>10. First(Empty) = Len(unread) + 1
    BY <1>6, <1>7, <1>8, <1>9
  <1> QED BY <1>4, <1>5, <1>1, <1>10

(***************************************************************************)
(* push stores a character behind the unread ones, or drops it.            *)
(***************************************************************************)
LEMMA StoreKeeps ==
    ASSUME IInv, NEW c \in Char, Store(c)
    PROVE  /\ read_buffer' \in [1..BUFFER -> Char \cup {NUL}]
           /\ unread' \in Seq(Char)
           /\ BufferHoldsUnread'
           /\ read_buffer'[1] # NUL
  <1> USE CharAssumption, BufferAssumption
  <1>0. Len(unread) \in Nat /\ unread \in Seq(Char) /\ \A i \in 1..Len(unread) : unread[i] \in Char
    BY DEF IInv, TypeOK
  <1>1. CASE Empty = {}
    <2>1. read_buffer' = read_buffer /\ unread' = unread
      BY <1>1 DEF Store
    <2>2. \A i \in 1..BUFFER : read_buffer[i] # NUL
      BY <1>1 DEF Empty
    <2> QED BY <2>1, <2>2 DEF IInv, TypeOK, BufferHoldsUnread
  <1>2. CASE Empty # {}
    <2>1. /\ First(Empty) = Len(unread) + 1 /\ Len(unread) + 1 \in 1..BUFFER
          /\ read_buffer[BUFFER] = NUL
      BY <1>2, FirstEmpty
    <2>2. /\ read_buffer' = [read_buffer EXCEPT ![Len(unread) + 1] = c]
          /\ unread' = Append(unread, c)
      BY <1>2, <2>1 DEF Store
    <2>3. read_buffer' \in [1..BUFFER -> Char \cup {NUL}] /\ unread' \in Seq(Char)
      BY <1>0, <2>1, <2>2 DEF IInv, TypeOK
    <2>4. /\ Len(unread') = Len(unread) + 1
          /\ \A i \in 1..Len(unread) : unread'[i] = unread[i]
          /\ unread'[Len(unread) + 1] = c
      BY <1>0, <2>2
    <2>5. \A i \in 1..BUFFER : read_buffer'[i] =
            IF i = Len(unread) + 1 THEN c
            ELSE IF i <= Len(unread) THEN unread[i] ELSE NUL
      BY <1>0, <2>1, <2>2 DEF IInv, TypeOK, BufferHoldsUnread
    <2>6. BufferHoldsUnread'
      BY <1>0, <2>1, <2>4, <2>5 DEF BufferHoldsUnread
    <2>7. read_buffer'[1] # NUL
      BY <1>0, <2>1, <2>5
    <2> QED BY <2>3, <2>6, <2>7
  <1> QED BY <1>1, <1>2

(***************************************************************************)
(* A read of UART_DR takes the first unread character, or changes nothing  *)
(* that matters when there is none.                                        *)
(***************************************************************************)
LEMMA TakeKeeps ==
    ASSUME IInv, TakeDr
    PROVE  /\ read_buffer' \in [1..BUFFER -> Char \cup {NUL}]
           /\ unread' \in Seq(Char)
           /\ rxfe' \in BOOLEAN /\ rxris' \in BOOLEAN
           /\ BufferHoldsUnread'
           /\ StatusMeansFilled'
  <1> USE CharAssumption, BufferAssumption
  <1>0. /\ Len(unread) \in Nat /\ unread \in Seq(Char)
        /\ read_buffer \in [1..BUFFER -> Char \cup {NUL}]
        /\ rxfe \in BOOLEAN /\ rxris \in BOOLEAN
        /\ Len(unread) <= BUFFER
    BY DEF IInv, TypeOK, BufferHoldsUnread
  <1>1. \A i \in 1..BUFFER : read_buffer'[i] = read_buffer[IF i < BUFFER THEN i + 1 ELSE i]
    BY DEF TakeDr, Shifted
  <1>2. read_buffer' \in [1..BUFFER -> Char \cup {NUL}]
    <2>1. \A i \in 1..BUFFER : (IF i < BUFFER THEN i + 1 ELSE i) \in 1..BUFFER
      OBVIOUS
    <2> QED BY <1>0, <2>1 DEF TakeDr, Shifted
  <1>3. unread' \in Seq(Char) /\ BufferHoldsUnread'
    <2>1. CASE unread = <<>>
      <3>1. unread' = unread /\ Len(unread) = 0
        BY <2>1 DEF TakeDr
      <3> QED BY <1>0, <1>1, <3>1 DEF IInv, BufferHoldsUnread
    <2>2. CASE unread # <<>>
      <3>1. /\ unread' = Tail(unread) /\ unread' \in Seq(Char)
            /\ Len(unread') = Len(unread) - 1 /\ Len(unread) > 0
            /\ \A i \in 1..(Len(unread) - 1) : unread'[i] = unread[i + 1]
        BY <1>0, <2>2 DEF TakeDr
      <3> QED BY <1>0, <1>1, <3>1 DEF IInv, BufferHoldsUnread
    <2> QED BY <2>1, <2>2
  <1>4. rxfe' \in BOOLEAN /\ rxris' \in BOOLEAN /\ StatusMeansFilled'
    <2>0. read_buffer' = Shifted /\ 1 \in 1..BUFFER
      BY DEF TakeDr
    <2>1. unread' # <<>> => unread # <<>> /\ Shifted[1] # NUL
      <3> SUFFICES ASSUME unread' # <<>> PROVE unread # <<>> /\ Shifted[1] # NUL
        OBVIOUS
      <3>1. unread # <<>>
        BY DEF TakeDr
      <3>2. Len(unread') \in Nat \ {0} /\ unread'[1] \in Char
        BY <1>3
      <3>3. Shifted[1] = unread'[1]
        BY <1>3, <2>0, <3>2 DEF BufferHoldsUnread
      <3> QED BY <3>1, <3>2, <3>3
    <2>2. CASE Shifted[1] = NUL
      BY <2>1, <2>2 DEF TakeDr, StatusMeansFilled
    <2>3. CASE Shifted[1] # NUL
      BY <1>0, <2>0, <2>1, <2>3 DEF TakeDr, IInv, StatusMeansFilled
    <2> QED BY <2>2, <2>3
  <1> QED BY <1>2, <1>3, <1>4

(***************************************************************************)
(* The inductive invariant holds in every reachable state: one step per    *)
(* access of the host or the guest to the device.                          *)
(***************************************************************************)
THEOREM Invariance == Spec => []IInv
  <1> USE CharAssumption, BufferAssumption
  <1>1. Init => IInv
    <2> SUFFICES ASSUME Init PROVE IInv
      OBVIOUS
    <2>1. unread = <<>> /\ Len(unread) = 0 /\ unread \in Seq(Char)
      BY DEF Init
    <2>2. BUFFER \in 1..BUFFER /\ \A i \in 1..BUFFER : read_buffer[i] = NUL
      BY DEF Init
    <2>3. BufferHoldsUnread
      BY <2>1, <2>2 DEF BufferHoldsUnread
    <2>4. TypeOK
      <3>1. read_buffer \in [1..BUFFER -> Char \cup {NUL}] /\ input \in 0..MaxInput
        BY DEF Init
      <3>2. rxfe \in BOOLEAN /\ rxim \in BOOLEAN /\ rxris \in BOOLEAN /\ irq \in BOOLEAN
        BY Zenon DEF Init
      <3>3. driver \in {"idle", "FR", "DR"}
        BY DEF Init
      <3> QED BY <2>1, <3>1, <3>2, <3>3 DEF TypeOK
    <2>5. StatusMeansFilled
      BY DEF Init, StatusMeansFilled
    <2> QED BY <2>3, <2>4, <2>5 DEF IInv
  <1>2. IInv /\ [Next]_vars => IInv'
    <2> SUFFICES ASSUME IInv, [Next]_vars PROVE IInv'
      OBVIOUS
    <2>1. ASSUME NEW c \in Char, push(c) PROVE IInv'
      <3>1. Store(c)
        BY <2>1 DEF push
      <3>2. /\ read_buffer' \in [1..BUFFER -> Char \cup {NUL}] /\ unread' \in Seq(Char)
            /\ BufferHoldsUnread' /\ read_buffer'[1] # NUL
        BY <3>1, StoreKeeps
      <3>3. input' \in 0..MaxInput
        BY <2>1 DEF push, IInv, TypeOK
      <3>4. rxfe' = FALSE /\ rxim' \in BOOLEAN /\ rxris' \in BOOLEAN /\ irq' \in BOOLEAN
        BY <2>1 DEF push, IInv, TypeOK
      <3>5. StatusMeansFilled'
        BY <3>2, <3>4 DEF StatusMeansFilled
      <3>6. driver' \in {"idle", "FR", "DR"}
        BY <2>1 DEF push, IInv, TypeOK
      <3> QED BY <3>2, <3>3, <3>4, <3>5, <3>6 DEF IInv, TypeOK
    <2>2. CASE ReadDr \/ PollDr
      <3>1. TakeDr
        BY <2>2 DEF ReadDr, PollDr
      <3>2. /\ read_buffer' \in [1..BUFFER -> Char \cup {NUL}] /\ unread' \in Seq(Char)
            /\ rxfe' \in BOOLEAN /\ rxris' \in BOOLEAN
            /\ BufferHoldsUnread' /\ StatusMeansFilled'
        BY <3>1, TakeKeeps
      <3>3. /\ rxim' \in BOOLEAN /\ irq' \in BOOLEAN /\ input' \in 0..MaxInput
            /\ driver' \in {"idle", "FR", "DR"}
        BY <2>2 DEF ReadDr, PollDr, IInv, TypeOK
      <3> QED BY <3>2, <3>3 DEF IInv, TypeOK
    <2>3. ASSUME NEW b \in BOOLEAN, WriteImsc(b) PROVE IInv'
      BY <2>3 DEF WriteImsc, IInv, TypeOK, BufferHoldsUnread, StatusMeansFilled
    <2>4. CASE WriteIcr
      BY <2>4 DEF WriteIcr, IInv, TypeOK, BufferHoldsUnread, StatusMeansFilled
    <2>5. CASE TakeInterrupt
      BY <2>5 DEF TakeInterrupt, IInv, TypeOK, BufferHoldsUnread, StatusMeansFilled
    <2>6. CASE ReadFr
      BY <2>6 DEF ReadFr, IInv, TypeOK, BufferHoldsUnread, StatusMeansFilled
    <2>7. CASE UNCHANGED vars
      BY <2>7 DEF vars, IInv, TypeOK, BufferHoldsUnread, StatusMeansFilled
    <2> QED BY <2>1, <2>2, <2>3, <2>4, <2>5, <2>6, <2>7 DEF Next, Guest
  <1> QED BY <1>1, <1>2, PTL DEF Spec

(***************************************************************************)
(* read_buffer always starts with the characters that push stored and the  *)
(* guest has not read, in their order, for any size of the buffer.         *)
(***************************************************************************)
THEOREM BufferIsFifo == Spec => []BufferHoldsUnread
  BY Invariance, PTL DEF IInv

(***************************************************************************)
(* RXRIS has an unread character behind it, as long as the buffer has      *)
(* never been full, and UART_FR never says empty while one is unread: when *)
(* nothing is unread the first place holds what the last one holds.        *)
(***************************************************************************)
THEOREM StatusIsTrue == Spec => []StatusMeansUnread
  <1>1. IInv => StatusMeansUnread
    <2> SUFFICES ASSUME IInv, rxris, unread = <<>> PROVE read_buffer[BUFFER] # NUL
      BY DEF IInv, StatusMeansFilled, StatusMeansUnread
    <2>1. Len(unread) = 0 /\ 1 \in 1..BUFFER
      BY BufferAssumption
    <2>2. read_buffer[1] = read_buffer[BUFFER]
      BY <2>1 DEF IInv, BufferHoldsUnread
    <2> QED BY <2>2 DEF IInv, StatusMeansFilled
  <1> QED BY <1>1, Invariance, PTL
=============================================================================
