------------------------- MODULE VirtioBlkMmioProofs -------------------------
(***************************************************************************)
(* Proofs about VirtioBlkMmio, for any queue size that divides the range   *)
(* of the ring indices and any number of requests: completions are in      *)
(* order, intact in the used ring, and signalled.                          *)
(***************************************************************************)
EXTENDS VirtioBlkMmio, SequenceTheorems, TLAPS

-----------------------------------------------------------------------------
(* Ring indices: what % does *)

(***************************************************************************)
(* Quotient and remainder.                                                 *)
(***************************************************************************)
LEMMA DivMod ==
    ASSUME NEW n \in Nat, NEW q \in Nat \ {0}
    PROVE  /\ n % q \in 0..(q - 1)
           /\ n \div q \in Nat
           /\ n = q * (n \div q) + (n % q)
  OBVIOUS

(***************************************************************************)
(* Multiples of q are q or more apart.                                     *)
(***************************************************************************)
LEMMA MultiplesApart ==
    ASSUME NEW q \in Nat \ {0}, NEW a \in Nat, NEW b \in Nat, a < b
    PROVE  q * a + q <= q * b
  <1>1. PICK d \in Nat : b = a + 1 + d
    <2>1. b - a - 1 \in Nat
      OBVIOUS
    <2> QED BY <2>1
  <1>2. q * b = q * a + q + q * d
    BY <1>1
  <1>3. q * d \in Nat /\ q * a \in Nat
    OBVIOUS
  <1> QED BY <1>2, <1>3

(***************************************************************************)
(* The remainder is the only number below q that leaves a multiple of q.   *)
(***************************************************************************)
LEMMA ModUnique ==
    ASSUME NEW q \in Nat \ {0}, NEW a \in Nat, NEW r \in 0..(q - 1), NEW n \in Nat,
           n = q * a + r
    PROVE  n % q = r
  <1> DEFINE b == n \div q
             s == n % q
  <1>1. b \in Nat /\ s \in 0..(q - 1) /\ n = q * b + s
    BY DivMod
  <1> HIDE DEF b, s
  <1>2. q * a \in Nat /\ q * b \in Nat
    BY <1>1
  <1>3. ~(a < b)
    <2>1. a < b => q * a + q <= q * b
      BY <1>1, MultiplesApart
    <2> QED BY <1>1, <1>2, <2>1
  <1>4. ~(b < a)
    <2>1. b < a => q * b + q <= q * a
      BY <1>1, MultiplesApart
    <2> QED BY <1>1, <1>2, <2>1
  <1>5. a = b
    BY <1>1, <1>3, <1>4
  <1>6. r = s
    BY <1>1, <1>2, <1>5
  <1> QED BY <1>6 DEF s

(***************************************************************************)
(* A wrapping counter that is advanced by one.                             *)
(***************************************************************************)
LEMMA ModSucc ==
    ASSUME NEW n \in Nat, NEW q \in Nat \ {0}
    PROVE  ((n % q) + 1) % q = (n + 1) % q
  <1> DEFINE d == n \div q
             r == n % q
  <1>1. d \in Nat /\ r \in 0..(q - 1) /\ n = q * d + r
    BY DivMod
  <1> HIDE DEF d, r
  <1>2. q * d \in Nat
    BY <1>1
  <1>3. CASE r + 1 < q
    <2>1. r + 1 \in 0..(q - 1) /\ n + 1 = q * d + (r + 1) /\ r + 1 = q * 0 + (r + 1)
      BY <1>1, <1>2, <1>3
    <2>2. (n + 1) % q = r + 1
      BY <1>1, <2>1, ModUnique
    <2>3. (r + 1) % q = r + 1
      BY <1>1, <2>1, ModUnique
    <2> QED BY <2>2, <2>3 DEF r
  <1>4. CASE r + 1 = q
    <2>1. n + 1 = q * (d + 1) + 0 /\ d + 1 \in Nat /\ 0 \in 0..(q - 1) /\ q = q * 1 + 0
      BY <1>1, <1>2, <1>4
    <2>2. (n + 1) % q = 0
      <3>1. PICK a \in Nat : a = d + 1
        BY <2>1
      <3>2. n + 1 = q * a + 0 /\ n + 1 \in Nat
        BY <2>1, <3>1
      <3> QED BY <2>1, <3>2, ModUnique, SMTT(30)
    <2>3. q % q = 0
      BY <2>1, ModUnique
    <2> QED BY <1>4, <2>2, <2>3 DEF r
  <1> QED BY <1>1, <1>3, <1>4

(***************************************************************************)
(* A wrapped index finds the same slot as the unwrapped one: the queue     *)
(* size divides the range of the index.                                    *)
(***************************************************************************)
LEMMA ModMod ==
    ASSUME NEW n \in Nat, NEW w \in Nat \ {0}, NEW q \in Nat \ {0}, w % q = 0
    PROVE  (n % w) % q = n % q
  <1> DEFINE d == n \div w
             r == n % w
             e == w \div q
             g == r \div q
             s == r % q
  <1>1. d \in Nat /\ r \in 0..(w - 1) /\ n = w * d + r
    BY DivMod
  <1>2. e \in Nat /\ w = q * e + 0
    BY DivMod
  <1> HIDE DEF d, r, e
  <1>3. g \in Nat /\ s \in 0..(q - 1) /\ r = q * g + s
    <2>1. r \in Nat
      BY <1>1
    <2> QED BY <2>1, DivMod
  <1> HIDE DEF g, s
  <1>4. n = q * (e * d + g) + s /\ e * d + g \in Nat
    <2>1. w = q * e
      BY <1>2
    <2>2. n = (q * e) * d + (q * g + s)
      BY <1>1, <1>3, <2>1
    <2>3. (q * e) * d = q * (e * d)
      BY <1>1, <1>2
    <2>4. e * d \in Nat
      BY <1>1, <1>2
    <2>5. q * (e * d + g) = q * (e * d) + q * g
      BY <1>3, <2>4
    <2> QED BY <1>1, <1>2, <1>3, <2>2, <2>3, <2>4, <2>5
  <1>5. n % q = s
    <2>1. PICK a \in Nat : a = e * d + g
      BY <1>4
    <2>2. n = q * a + s
      BY <1>4, <2>1
    <2> QED BY <1>3, <2>2, ModUnique
  <1> QED BY <1>5 DEF s, r

(***************************************************************************)
(* Numbers less than q apart have different remainders.                    *)
(***************************************************************************)
LEMMA ModDistinct ==
    ASSUME NEW m \in Nat, NEW n \in Nat, NEW q \in Nat \ {0}, m < n, n - m < q
    PROVE  m % q # n % q
  <1> SUFFICES ASSUME m % q = n % q
               PROVE  FALSE
    OBVIOUS
  <1> DEFINE a == m \div q
             b == n \div q
             r == m % q
  <1>1. a \in Nat /\ b \in Nat /\ r \in 0..(q - 1) /\ m = q * a + r /\ n = q * b + r
    BY DivMod
  <1> HIDE DEF a, b, r
  <1>2. q * a \in Nat /\ q * b \in Nat
    BY <1>1
  <1>3. q * a < q * b /\ q * b < q * a + q
    BY <1>1, <1>2
  <1>4. ~(a < b)
    BY <1>1, <1>2, <1>3, MultiplesApart
  <1>5. ~(b < a)
    <2>1. b < a => q * b + q <= q * a
      BY <1>1, MultiplesApart
    <2> QED BY <1>2, <1>3, <2>1
  <1>6. a = b
    BY <1>1, <1>4, <1>5
  <1> QED BY <1>2, <1>3, <1>6

\* The value of an unwrapped counter in an index of the ring, and its slot.
Wrapped(n) == n % WRAP
SlotOf(n) == n % queue_size

(***************************************************************************)
(* What operation and the guest compute from a wrapped index is what they  *)
(* would compute from the counter.                                         *)
(***************************************************************************)
LEMMA RingIndex ==
    ASSUME NEW n \in Nat
    PROVE  /\ SlotOf(n) \in Slot
           /\ Wrapped(n) % queue_size = SlotOf(n)
           /\ (Wrapped(n) + 1) % WRAP = Wrapped(n + 1)
  <1>1. SlotOf(n) \in Slot
    BY DivMod, QueueAssumption DEF SlotOf, Slot
  <1>2. Wrapped(n) % queue_size = SlotOf(n)
    BY ModMod, QueueAssumption DEF SlotOf, Wrapped
  <1>3. (Wrapped(n) + 1) % WRAP = Wrapped(n + 1)
    BY ModSucc, QueueAssumption DEF Wrapped
  <1> QED BY <1>1, <1>2, <1>3

(***************************************************************************)
(* Counters less than a queue apart never share a slot ...                 *)
(***************************************************************************)
LEMMA SlotsApart ==
    ASSUME NEW m \in Nat, NEW n \in Nat, m < n, n < m + queue_size
    PROVE  SlotOf(m) # SlotOf(n)
  <1>1. n - m < queue_size
    BY QueueAssumption
  <1> QED BY <1>1, ModDistinct, QueueAssumption DEF SlotOf

(***************************************************************************)
(* ... and two that are at most a queue apart and wrap alike are equal.    *)
(***************************************************************************)
LEMMA WrappedEqual ==
    ASSUME NEW m \in Nat, NEW n \in Nat, m <= n, n <= m + queue_size, Wrapped(m) = Wrapped(n)
    PROVE  m = n
  <1> SUFFICES ASSUME m # n PROVE FALSE
    OBVIOUS
  <1>1. m < n /\ n - m < WRAP
    BY QueueAssumption
  <1> QED BY <1>1, ModDistinct, QueueAssumption DEF Wrapped

-----------------------------------------------------------------------------
(* The inductive invariant *)

Operation ==
    [phase : {"none", "fetch", "data", "panic"}, req : Request, status : {"ok", "ioerr"}]

TypeOK ==
    /\ avail \in [Slot -> Request]
    /\ used \in [Slot -> [id : Nat, status : {"ok", "ioerr"}]]
    /\ interrupt_status \in BOOLEAN /\ irq \in BOOLEAN
    /\ kicked \in BOOLEAN /\ malformed \in BOOLEAN
    /\ op \in Operation
    /\ guest \in {"run", "isr"}
    /\ posted \in 0..MaxRequests
    /\ reaped \in Nat
    /\ completed \in Seq(Nat)

\* The indices in the rings and in the device are the counters, wrapped, and the
\* guest never has more requests outstanding than the rings have slots.
Indices ==
    /\ avail_idx = Wrapped(posted)
    /\ used_id = Wrapped(Len(completed))
    /\ reaped <= Len(completed)
    /\ posted <= reaped + queue_size

\* operation has fetched f requests.  The others still are where Post put them,
\* and the one it works on comes after all that are completed.
Fetched(f) ==
    /\ last_avail_id = Wrapped(f)
    /\ Len(completed) <= f
    /\ \A k \in 1..Len(completed) : completed[k] <= f
    /\ op.phase = "data" =>
        /\ op.req.id = f
        /\ Len(completed) < f
        /\ \A k \in 1..Len(completed) : completed[k] < f
    /\ \A n \in (f + 1)..posted :
        /\ avail[SlotOf(n - 1)].id = n
        /\ avail[SlotOf(n - 1)].segments = BadHeader => malformed

Increasing ==
    \A k \in 1..Len(completed) : \A j \in 1..(k - 1) : completed[j] < completed[k]

Unseen ==
    \A k \in (reaped + 1)..Len(completed) : used[SlotOf(k - 1)].id = completed[k]

Inv ==
    /\ TypeOK /\ Indices /\ Increasing /\ Unseen
    /\ CompletionSignalled
    /\ \E f \in 0..posted : Fetched(f)

Fresh ==
    /\ avail = Empty(NoRequest) /\ avail_idx = 0 /\ last_avail_id = 0
    /\ used = Empty([id |-> 0, status |-> "ok"]) /\ used_id = 0
    /\ interrupt_status = FALSE /\ irq \in BOOLEAN
    /\ op \in Operation /\ op.phase = "none" /\ guest = "run"
    /\ posted = 0 /\ reaped = 0 /\ kicked = TRUE /\ malformed = FALSE /\ completed = <<>>

(***************************************************************************)
(* The invariant holds of new rings, as the guest sets them up at the      *)
(* start and after a reset.                                                *)
(***************************************************************************)
LEMMA NewRings == Fresh => Inv
  <1> SUFFICES ASSUME Fresh PROVE Inv
    OBVIOUS
  <1> USE DEF Fresh
  <1>1. NoRequest \in Request
    BY BoundAssumption DEF NoRequest, Request, BadHeader
  <1>2. TypeOK
    <2>1. avail \in [Slot -> Request]
      BY <1>1 DEF Empty
    <2>2. used \in [Slot -> [id : Nat, status : {"ok", "ioerr"}]]
      <3> DEFINE e == [id |-> 0, status |-> "ok"]
      <3>1. e \in [id : Nat, status : {"ok", "ioerr"}]
        OBVIOUS
      <3> HIDE DEF e
      <3>2. used = [s \in Slot |-> e]
        BY DEF Empty, e
      <3> QED BY <3>1, <3>2
    <2>3. posted \in 0..MaxRequests /\ completed \in Seq(Nat)
      BY BoundAssumption
    <2> QED BY <2>1, <2>2, <2>3 DEF TypeOK
  <1>3. Wrapped(0) = 0
    <2>1. 0 = WRAP * 0 + 0 /\ 0 \in 0..(WRAP - 1)
      BY QueueAssumption
    <2> QED BY <2>1, ModUnique, QueueAssumption DEF Wrapped
  <1>4. Len(completed) = 0
    OBVIOUS
  <1>5. Indices
    BY <1>3, <1>4, QueueAssumption DEF Indices
  <1>6. Increasing /\ Unseen /\ CompletionSignalled
    BY <1>4 DEF Increasing, Unseen, CompletionSignalled
  <1>7. Fetched(0)
    BY <1>3, <1>4 DEF Fetched
  <1> QED BY <1>2, <1>5, <1>6, <1>7 DEF Inv

(***************************************************************************)
(* operation fetches the next request: it is the one the guest posted      *)
(* after the last one fetched.                                             *)
(***************************************************************************)
LEMMA FetchStep ==
    ASSUME Inv, Fetch
    PROVE  Inv'
  <1> USE DEF ring
  <1>1. PICK f \in 0..posted : Fetched(f)
    BY DEF Inv
  <1>2. /\ TypeOK /\ Indices /\ Increasing /\ Unseen /\ CompletionSignalled
        /\ posted \in Nat /\ f \in Nat /\ Len(completed) \in Nat
        /\ completed \in Seq(Nat)
    BY DEF Inv, TypeOK
  <1>3. UNCHANGED <<ring, used, used_id, interrupt_status, irq, guest, reaped, completed>>
    BY DEF Fetch
  <1>4. f < posted
    <2>1. Wrapped(f) # Wrapped(posted)
      BY <1>1, <1>2 DEF Fetch, Fetched, Indices
    <2> QED BY <1>1, <1>2, <2>1
  <1> DEFINE req == avail[SlotOf(f)]
  <1>5. /\ get_next_avail_id = SlotOf(f)
        /\ SlotOf(f) \in Slot
        /\ last_avail_id' = Wrapped(f + 1)
    BY <1>1, <1>2, RingIndex DEF Fetch, get_next_avail_id, Fetched
  <1>6. req.id = f + 1 /\ (req.segments = BadHeader => malformed) /\ req \in Request
    <2>1. f + 1 \in (f + 1)..posted /\ (f + 1) - 1 = f
      BY <1>2, <1>4
    <2>2. /\ avail[SlotOf((f + 1) - 1)].id = f + 1
          /\ avail[SlotOf((f + 1) - 1)].segments = BadHeader => malformed
      BY <1>1, <2>1 DEF Fetched
    <2>3. req \in Request
      BY <1>2, <1>5 DEF TypeOK
    <2> QED BY <2>1, <2>2, <2>3
  <1>7. op' = IF req.segments = BadHeader
              THEN NotRunning ELSE [phase |-> "data", req |-> req, status |-> "ok"]
    BY <1>5 DEF Fetch
  <1> HIDE DEF req
  <1>8. op' \in Operation
    <2>1. NotRunning \in Operation
      BY BoundAssumption DEF NotRunning, Operation, NoRequest, Request, BadHeader
    <2> QED BY <1>6, <1>7, <2>1 DEF Operation
  <1>9. TypeOK'
    BY <1>2, <1>3, <1>8 DEF TypeOK
  <1>10. Indices' /\ Increasing' /\ Unseen'
    BY <1>2, <1>3 DEF Indices, Increasing, Unseen
  <1>11. CompletionSignalled'
    <2>1. CASE req.segments = BadHeader
      BY <1>3, <1>6, <2>1 DEF CompletionSignalled
    <2>2. CASE req.segments # BadHeader
      BY <1>7, <2>2 DEF CompletionSignalled
    <2> QED BY <2>1, <2>2
  <1>12. Fetched(f + 1)'
    <2>1. Len(completed) <= f /\ \A k \in 1..Len(completed) : completed[k] <= f
      BY <1>1 DEF Fetched
    <2>2. \A k \in 1..Len(completed) : completed[k] \in Nat
      BY <1>2
    <2>3. op'.phase = "data" => op'.req.id = f + 1
      BY <1>6, <1>7 DEF NotRunning
    <2>4. \A k \in 1..Len(completed) : completed[k] <= f + 1 /\ completed[k] < f + 1
      BY <1>2, <2>1, <2>2
    <2>5. \A n \in (f + 2)..posted :
            /\ avail[SlotOf(n - 1)].id = n
            /\ avail[SlotOf(n - 1)].segments = BadHeader => malformed
      BY <1>1, <1>2 DEF Fetched
    <2>6. (f + 1) + 1 = f + 2 /\ Len(completed) < f + 1 /\ Len(completed) <= f + 1
      BY <1>2, <2>1
    <2> QED BY <1>3, <1>5, <2>3, <2>4, <2>5, <2>6 DEF Fetched
  <1>13. f + 1 \in 0..posted'
    BY <1>2, <1>3, <1>4
  <1> QED BY <1>9, <1>10, <1>11, <1>12, <1>13 DEF Inv

(***************************************************************************)
(* The same of the next state.                                             *)
(***************************************************************************)
LEMMA NewRingsNext == Fresh' => Inv'
  BY NewRings, PTL

(***************************************************************************)
(* A data descriptor is served: the request is still the same.             *)
(***************************************************************************)
LEMMA SegmentStep ==
    ASSUME Inv, NEW ok \in BOOLEAN, Segment(ok)
    PROVE  Inv'
  <1> USE DEF ring
  <1>1. PICK f \in 0..posted : Fetched(f)
    BY DEF Inv
  <1>2. TypeOK /\ Indices /\ Increasing /\ Unseen /\ op \in Operation
    BY DEF Inv, TypeOK
  <1>3. UNCHANGED <<ring, last_avail_id, used, used_id, interrupt_status, irq, guest,
                    reaped, completed>>
    BY DEF Segment
  <1>4. op.phase = "data" /\ op.req.segments > 0 /\ op.req \in Request
    BY <1>2 DEF Segment, Operation
  <1> DEFINE req == [op.req EXCEPT !.segments = op.req.segments - 1]
             status == IF ok THEN op.status ELSE "ioerr"
  <1>5. req \in Request /\ req.id = op.req.id
    BY <1>4, BoundAssumption DEF Request, BadHeader
  <1>6. status \in {"ok", "ioerr"}
    BY <1>2 DEF Operation
  <1>7. op' = [[op EXCEPT !.req = req] EXCEPT !.status = status]
    BY DEF Segment
  <1> HIDE DEF req, status
  <1>8. op' \in Operation /\ op'.phase = "data" /\ op'.req.id = op.req.id
    BY <1>2, <1>4, <1>5, <1>6, <1>7 DEF Operation
  <1>9. TypeOK'
    BY <1>2, <1>3, <1>8 DEF TypeOK
  <1>10. Indices' /\ Increasing' /\ Unseen'
    BY <1>2, <1>3 DEF Indices, Increasing, Unseen
  <1>11. CompletionSignalled'
    BY <1>8 DEF CompletionSignalled
  <1>12. Fetched(f)'
    BY <1>1, <1>3, <1>4, <1>8 DEF Fetched
  <1> QED BY <1>1, <1>3, <1>9, <1>10, <1>11, <1>12 DEF Inv

(***************************************************************************)
(* The request goes to the used ring: into a slot whose completion, if     *)
(* there was one, the guest has seen.                                      *)
(***************************************************************************)
LEMMA CompleteStep ==
    ASSUME Inv, Complete
    PROVE  Inv'
  <1> USE DEF ring
  <1>1. PICK f \in 0..posted : Fetched(f)
    BY DEF Inv
  <1> DEFINE N == Len(completed)
             e == [id |-> f, status |-> op.status]
  <1>2. /\ TypeOK /\ Indices /\ Increasing /\ Unseen /\ op \in Operation
        /\ posted \in Nat /\ f \in Nat /\ N \in Nat /\ reaped \in Nat
        /\ completed \in Seq(Nat)
    BY DEF Inv, TypeOK
  <1>3. UNCHANGED <<ring, last_avail_id, interrupt_status, irq, guest, reaped>>
    BY DEF Complete
  <1>4. /\ op.phase = "data" /\ op.req.id = f /\ N < f
        /\ \A k \in 1..N : completed[k] < f
    BY <1>1 DEF Complete, Fetched
  <1>5. SlotOf(N) \in Slot /\ used_id % queue_size = SlotOf(N) /\ used_id' = Wrapped(N + 1)
    BY <1>2, RingIndex DEF Complete, write_used, Indices
  <1>6. used' = [used EXCEPT ![SlotOf(N)] = e] /\ completed' = Append(completed, f)
    BY <1>4, <1>5 DEF Complete, write_used
  <1>7. e \in [id : Nat, status : {"ok", "ioerr"}] /\ e.id = f
    BY <1>2 DEF Operation
  <1>8. op' \in Operation /\ op'.phase = "fetch"
    BY BoundAssumption DEF Complete, NotRunning, Operation, NoRequest, Request, BadHeader
  <1>9. /\ completed' \in Seq(Nat) /\ Len(completed') = N + 1
        /\ \A k \in 1..N : completed'[k] = completed[k]
        /\ completed'[N + 1] = f
    BY <1>2, <1>6
  <1> HIDE DEF N, e
  <1>10. used' \in [Slot -> [id : Nat, status : {"ok", "ioerr"}]]
    BY <1>2, <1>6, <1>7 DEF TypeOK
  <1>11. TypeOK'
    BY <1>2, <1>3, <1>8, <1>9, <1>10 DEF TypeOK
  <1>12. Indices'
    BY <1>2, <1>3, <1>5, <1>9 DEF Indices, N
  <1>13. Increasing'
    <2> SUFFICES ASSUME NEW k \in 1..(N + 1), NEW j \in 1..(k - 1)
                 PROVE  completed'[j] < completed'[k]
      BY <1>9 DEF Increasing
    <2>1. j \in 1..N /\ completed'[j] = completed[j]
      BY <1>2, <1>9
    <2>2. CASE k = N + 1
      BY <1>4, <1>9, <2>1, <2>2
    <2>3. CASE k # N + 1
      <3>1. k \in 1..N /\ completed'[k] = completed[k]
        BY <1>2, <1>9, <2>3
      <3> QED BY <1>2, <2>1, <3>1 DEF Increasing, N
    <2> QED BY <2>2, <2>3
  <1>14. Unseen'
    <2> SUFFICES ASSUME NEW k \in (reaped + 1)..(N + 1)
                 PROVE  used'[SlotOf(k - 1)].id = completed'[k]
      BY <1>3, <1>9 DEF Unseen
    <2>1. CASE k = N + 1
      <3>1. k - 1 = N
        BY <1>2, <2>1
      <3>2. used'[SlotOf(N)] = e
        BY <1>2, <1>5, <1>6 DEF TypeOK
      <3> QED BY <1>7, <1>9, <2>1, <3>1, <3>2
    <2>2. CASE k # N + 1
      <3>1. k \in (reaped + 1)..N /\ k \in 1..N /\ k - 1 \in Nat /\ k - 1 < N
        BY <1>2, <2>2
      <3>2. N < (k - 1) + queue_size
        BY <1>1, <1>2, <1>4, <3>1, QueueAssumption DEF Indices
      <3>3. SlotOf(k - 1) # SlotOf(N) /\ SlotOf(k - 1) \in Slot
        BY <1>2, <3>1, <3>2, SlotsApart, RingIndex
      <3>4. used'[SlotOf(k - 1)] = used[SlotOf(k - 1)]
        BY <1>2, <1>6, <3>3 DEF TypeOK
      <3> QED BY <1>2, <1>9, <3>1, <3>4 DEF Unseen, N
    <2> QED BY <2>1, <2>2
  <1>15. CompletionSignalled'
    BY <1>8 DEF CompletionSignalled
  <1>16. Fetched(f)'
    <2>1. \A k \in 1..(N + 1) : completed'[k] <= f
      <3> SUFFICES ASSUME NEW k \in 1..(N + 1) PROVE completed'[k] <= f
        OBVIOUS
      <3>1. CASE k = N + 1
        BY <1>2, <1>9, <3>1
      <3>2. CASE k # N + 1
        <4>1. k \in 1..N
          BY <1>2, <3>2
        <4>2. completed[k] \in Nat /\ completed[k] < f /\ completed'[k] = completed[k]
          BY <1>2, <1>4, <1>9, <4>1 DEF N
        <4> QED BY <1>2, <4>2
      <3> QED BY <3>1, <3>2
    <2>2. N + 1 <= f
      BY <1>2, <1>4
    <2> QED BY <1>1, <1>3, <1>8, <1>9, <2>1, <2>2 DEF Fetched
  <1> QED BY <1>1, <1>3, <1>11, <1>12, <1>13, <1>14, <1>15, <1>16 DEF Inv

(***************************************************************************)
(* The steps that touch neither ring nor counter but the reaped ones: the  *)
(* end of operation, the notification and the guest's interrupt handler.   *)
(***************************************************************************)
LEMMA QuietStep ==
    ASSUME Inv, Finish \/ IndexOverflow \/ QueueNotify \/ InterruptAck \/ Reap \/ IsrDone
    PROVE  Inv'
  <1> USE DEF ring
  <1>1. PICK f \in 0..posted : Fetched(f)
    BY DEF Inv
  <1> DEFINE N == Len(completed)
  <1>2. /\ TypeOK /\ Indices /\ Increasing /\ Unseen /\ CompletionSignalled
        /\ op \in Operation
        /\ posted \in Nat /\ f \in Nat /\ N \in Nat /\ reaped \in Nat
    BY DEF Inv, TypeOK
  <1>3. UNCHANGED <<avail, avail_idx, posted, malformed, last_avail_id, used, used_id, completed>>
    BY DEF Finish, IndexOverflow, QueueNotify, InterruptAck, Reap, IsrDone
  <1>4. (op' \in Operation /\ op'.phase # "data") \/ op' = op
    <2>1. CASE IndexOverflow
      <3>1. op' = [op EXCEPT !.phase = "panic"]
        BY <2>1 DEF IndexOverflow
      <3> QED BY <1>2, <3>1 DEF Operation
    <2>2. CASE Finish \/ QueueNotify \/ InterruptAck \/ Reap \/ IsrDone
      BY <2>2, BoundAssumption DEF Finish, QueueNotify, InterruptAck, Reap, IsrDone, NotRunning,
         Operation, NoRequest, Request, BadHeader
    <2> QED BY <2>1, <2>2
  <1>5. N <= reaped + queue_size
    BY <1>1, <1>2, QueueAssumption DEF Indices, Fetched
  <1>6. reaped' = reaped \/ Reap
    BY DEF Finish, IndexOverflow, QueueNotify, InterruptAck, IsrDone
  <1>7. ASSUME Reap PROVE reaped < N /\ reaped' = reaped + 1
    BY <1>2, <1>7 DEF Reap, Indices, Wrapped
  <1>8. reaped' \in Nat /\ reaped' <= N /\ reaped <= reaped'
    BY <1>2, <1>6, <1>7 DEF Indices
  <1>9. TypeOK'
    BY <1>2, <1>3, <1>4, <1>8 DEF TypeOK, Finish, IndexOverflow, QueueNotify, InterruptAck, Reap, IsrDone
  <1>10. Indices' /\ Increasing' /\ Unseen'
    <2>0. PICK r : r = reaped'
      OBVIOUS
    <2>r. r \in Nat /\ r <= N /\ reaped <= r
      BY <1>8, <2>0
    <2>1. Indices'
      <3>1. posted <= r + queue_size
        BY <1>2, <2>r, QueueAssumption DEF Indices
      <3> QED BY <1>2, <1>3, <2>0, <2>r, <3>1 DEF Indices
    <2>2. Increasing'
      BY <1>2, <1>3 DEF Increasing
    <2>3. \A k \in (reaped' + 1)..N : k \in (reaped + 1)..N
      <3> HIDE DEF N
      <3>1. \A k \in (r + 1)..N : k \in (reaped + 1)..N
        BY <1>2, <2>r
      <3> QED BY <2>0, <3>1
    <2> QED BY <1>2, <1>3, <2>1, <2>2, <2>3 DEF Unseen
  <1>11. CompletionSignalled'
    <2>0. CASE IndexOverflow
      <3>1. op' = [op EXCEPT !.phase = "panic"]
        BY <2>0 DEF IndexOverflow
      <3>2. op'.phase = "panic"
        BY <1>2, <3>1 DEF Operation
      <3> QED BY <3>2 DEF CompletionSignalled
    <2>1. CASE Finish \/ QueueNotify \/ Reap
      BY <2>1, <1>2 DEF Finish, QueueNotify, Reap, CompletionSignalled, NotRunning
    <2>2. CASE InterruptAck
      BY <2>2, <1>2 DEF InterruptAck, CompletionSignalled
    <2>3. CASE IsrDone
      <3>1. reaped = N
        BY <1>2, <1>5, <2>3, WrappedEqual DEF IsrDone, Indices, Wrapped
      <3> QED BY <1>2, <2>3, <3>1 DEF IsrDone, CompletionSignalled
    <2> QED BY <2>0, <2>1, <2>2, <2>3
  <1>12. Fetched(f)'
    BY <1>1, <1>3, <1>4 DEF Fetched
  <1> QED BY <1>1, <1>3, <1>9, <1>10, <1>11, <1>12 DEF Inv

(***************************************************************************)
(* The guest posts a request: into a slot whose request has been fetched.  *)
(***************************************************************************)
LEMMA PostStep ==
    ASSUME Inv, NEW segments \in 0..BadHeader, Post(segments)
    PROVE  Inv'
  <1> DEFINE r == [id |-> posted + 1, segments |-> segments]
             N == Len(completed)
  <1>1. PICK f \in 0..posted : Fetched(f)
    BY DEF Inv
  <1>2. /\ TypeOK /\ Indices /\ Increasing /\ Unseen /\ CompletionSignalled
        /\ posted \in Nat /\ f \in Nat /\ N \in Nat /\ reaped \in Nat
        /\ malformed \in BOOLEAN
    BY DEF Inv, TypeOK
  <1>3. UNCHANGED <<last_avail_id, used, used_id, interrupt_status, irq, op, guest, reaped,
                    completed>>
    BY DEF Post
  <1>4. /\ op.phase = "none" /\ posted' = posted + 1 /\ posted + 1 \in 0..MaxRequests
        /\ posted - reaped < queue_size /\ kicked' = FALSE
    BY <1>2, BoundAssumption DEF Post, Running, Outstanding
  <1>5. SlotOf(posted) \in Slot /\ avail' = [avail EXCEPT ![SlotOf(posted)] = r]
    BY <1>2, RingIndex DEF Post, Indices
  <1>6. avail_idx' = Wrapped(posted + 1)
    BY <1>2, RingIndex DEF Post, Indices
  <1>7. r \in Request /\ r.id = posted + 1 /\ r.segments = segments
    BY <1>4 DEF Request
  <1>8. /\ malformed' \in BOOLEAN
        /\ malformed => malformed'
        /\ segments = BadHeader => malformed'
    BY <1>2 DEF Post
  <1> HIDE DEF r
  <1>9. avail' \in [Slot -> Request]
    BY <1>2, <1>5, <1>7 DEF TypeOK
  <1>10. TypeOK'
    BY <1>2, <1>3, <1>4, <1>8, <1>9 DEF TypeOK
  <1>11. Indices'
    <2>1. posted + 1 <= reaped + queue_size
      BY <1>2, <1>4, QueueAssumption
    <2> QED BY <1>2, <1>3, <1>4, <1>6, <2>1 DEF Indices
  <1>12. Increasing' /\ Unseen' /\ CompletionSignalled'
    BY <1>2, <1>3, <1>8 DEF Increasing, Unseen, CompletionSignalled
  <1>13. Fetched(f)'
    <2>1. ASSUME NEW n \in (f + 1)..(posted + 1)
          PROVE  /\ avail'[SlotOf(n - 1)].id = n
                 /\ avail'[SlotOf(n - 1)].segments = BadHeader => malformed'
      <3>1. CASE n = posted + 1
        <4>1. n - 1 = posted
          BY <1>2, <3>1
        <4>2. avail'[SlotOf(posted)] = r
          BY <1>2, <1>5 DEF TypeOK
        <4> QED BY <1>7, <1>8, <3>1, <4>1, <4>2
      <3>2. CASE n # posted + 1
        <4>1. n \in (f + 1)..posted /\ n - 1 \in Nat /\ n - 1 < posted
          BY <1>2, <3>2
        <4>2. posted < (n - 1) + queue_size
          BY <1>1, <1>2, <1>4, <4>1, QueueAssumption DEF Indices, Fetched
        <4>3. SlotOf(n - 1) # SlotOf(posted) /\ SlotOf(n - 1) \in Slot
          BY <1>2, <4>1, <4>2, SlotsApart, RingIndex
        <4>4. avail'[SlotOf(n - 1)] = avail[SlotOf(n - 1)]
          BY <1>2, <1>5, <4>3 DEF TypeOK
        <4> QED BY <1>1, <1>8, <4>1, <4>4 DEF Fetched
      <3> QED BY <3>1, <3>2
    <2> QED BY <1>1, <1>3, <1>4, <2>1 DEF Fetched
  <1>14. f \in 0..posted'
    BY <1>1, <1>2, <1>4
  <1> QED BY <1>10, <1>11, <1>12, <1>13, <1>14 DEF Inv

(***************************************************************************)
(* A reset leaves new rings behind.                                        *)
(***************************************************************************)
LEMMA ResetStep ==
    ASSUME Inv, Reset
    PROVE  Inv'
  <1>1. Fresh'
    BY DEF Reset, Fresh, Running, Inv, TypeOK, Empty
  <1> QED BY <1>1, NewRingsNext

(***************************************************************************)
(* The invariant, along every behaviour.                                   *)
(***************************************************************************)
LEMMA Invariance == Spec => []Inv
  <1>1. Init => Inv
    <2>1. NotRunning \in Operation /\ NotRunning.phase = "none"
      BY BoundAssumption DEF NotRunning, Operation, NoRequest, Request, BadHeader
    <2>2. Init => Fresh
      BY <2>1 DEF Init, Fresh
    <2> QED BY <2>2, NewRings
  <1>2. Inv /\ [Next]_vars => Inv'
    <2>0. ASSUME Inv, UNCHANGED vars PROVE Inv'
      <3>1. UNCHANGED <<avail, avail_idx, posted, kicked, malformed, last_avail_id, used,
                        used_id, interrupt_status, irq, op, guest, reaped, completed>>
        BY <2>0 DEF vars, ring
      <3>2. TypeOK' /\ Indices' /\ Increasing' /\ Unseen' /\ CompletionSignalled'
        BY <2>0, <3>1 DEF Inv, TypeOK, Indices, Increasing, Unseen, CompletionSignalled
      <3>3. PICK f \in 0..posted : Fetched(f)
        BY <2>0 DEF Inv
      <3>4. Fetched(f)' /\ posted' = posted
        BY <3>1, <3>3 DEF Fetched
      <3> QED BY <3>2, <3>3, <3>4 DEF Inv
    <2>1. ASSUME Inv, Next PROVE Inv'
      <3>1. CASE operation
        BY <2>1, <3>1, FetchStep, SegmentStep, CompleteStep, QuietStep DEF operation
      <3>2. CASE \E segments \in 0..BadHeader : Post(segments)
        BY <2>1, <3>2, PostStep
      <3>3. CASE Driver
        BY <2>1, <3>3, QuietStep DEF Driver
      <3>4. CASE Reset
        BY <2>1, <3>4, ResetStep
      <3>5. CASE Panicked
        BY <2>1, <3>5, <2>0 DEF Panicked
      <3> QED BY <2>1, <3>1, <3>2, <3>3, <3>4, <3>5 DEF Next
    <2> QED BY <2>0, <2>1
  <1> QED BY <1>1, <1>2, PTL DEF Spec

(***************************************************************************)
(* Every completion the guest has not seen is intact in the used ring, in  *)
(* the slot where the guest looks for it, for any queue size and however   *)
(* often the indices wrap.                                                 *)
(***************************************************************************)
THEOREM UsedRingSound == Spec => []UsedRingIntact
  <1>1. Inv => UsedRingIntact
    <2> SUFFICES ASSUME Inv PROVE UsedRingIntact
      OBVIOUS
    <2>1. reaped \in Nat /\ Len(completed) \in Nat
      BY DEF Inv, TypeOK
    <2>2. ASSUME NEW k \in (reaped + 1)..Len(completed)
          PROVE  used[((k - 1) % WRAP) % queue_size].id = completed[k]
      <3>1. k - 1 \in Nat
        BY <2>1
      <3>2. ((k - 1) % WRAP) % queue_size = SlotOf(k - 1)
        BY <3>1, RingIndex DEF Wrapped
      <3> QED BY <3>2 DEF Inv, Unseen
    <2> QED BY <2>2 DEF UsedRingIntact, Inv, Indices
  <1> QED BY <1>1, Invariance, PTL

(***************************************************************************)
(* Requests are completed in the order they were posted, none twice and    *)
(* none before it was posted.                                              *)
(***************************************************************************)
THEOREM CompletionsInOrder == Spec => []CompletedInOrder
  <1>1. Inv => CompletedInOrder
    <2> SUFFICES ASSUME Inv, NEW k \in 1..Len(completed)
                 PROVE  /\ completed[k] <= posted
                        /\ \A j \in 1..(k - 1) : completed[j] < completed[k]
      BY DEF CompletedInOrder
    <2>1. PICK f \in 0..posted : Fetched(f)
      BY DEF Inv
    <2>2. completed[k] \in Nat /\ posted \in Nat /\ completed[k] <= f
      BY <2>1 DEF Inv, TypeOK, Fetched
    <2> QED BY <2>1, <2>2 DEF Inv, Increasing
  <1> QED BY <1>1, Invariance, PTL

(***************************************************************************)
(* A guest that has sent no malformed request has the status bit and the   *)
(* interrupt behind every completion it has not seen.                      *)
(***************************************************************************)
THEOREM CompletionsSignalled == Spec => []CompletionSignalled
  <1>1. Inv => CompletionSignalled
    BY DEF Inv
  <1> QED BY <1>1, Invariance, PTL
=============================================================================
