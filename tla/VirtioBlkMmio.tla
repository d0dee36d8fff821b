---------------------------- MODULE VirtioBlkMmio ----------------------------
(***************************************************************************)
(* The emulated Virtio-Blk device of a VM (mmio/virtio_blk.rs) and the     *)
(* guest's driver.  QUEUE_NOTIFY traps, so the guest stands still while    *)
(* operation works through the available ring; the steps of operation are  *)
(* actions because each data descriptor takes and releases VIRTIO_BLK.     *)
(*                                                                         *)
(* A request is its number.  What operation tells apart in a descriptor    *)
(* chain is its kind: "malformed" (a header of the wrong size, outside the *)
(* RAM or without a next descriptor), or well-formed with a number of data *)
(* descriptors.  The u16 indices end at WRAP: there they wrap, or the      *)
(* increment panics, as the build has it.                                  *)
(***************************************************************************)
EXTENDS Naturals, Sequences

CONSTANTS
    WRAP,           \* 2^16
    queue_size,     \* VIRTIO_MMIO_QUEUE_NUM
    MaxSegments,    \* bound: data descriptors of a request
    MaxRequests     \* bound: requests between two resets

ASSUME QueueAssumption ==
    /\ queue_size \in Nat \ {0} /\ WRAP \in Nat \ {0}
    /\ WRAP % queue_size = 0 /\ queue_size < WRAP
ASSUME BoundAssumption == MaxSegments \in Nat /\ MaxRequests \in Nat

VARIABLES
    avail,              \* the available ring: [id, segments] in each slot
    avail_idx,          \* avail_ring.idx
    last_avail_id,
    used,               \* the used ring: [id, status] in each slot
    used_id,            \* and used_ring.idx
    interrupt_status,
    irq,                \* VIRTIO_BLK_INT_ID has been triggered and not been taken
    op,                 \* operation: the phase, the request, what is left of it
    guest,              \* "run", or "isr": it has acknowledged the interrupt
    posted, reaped,     \* requests the guest has sent, and completions it has seen
    kicked,             \* everything posted has been notified
    malformed,          \* a malformed request was posted since the reset (not in the code)
    completed           \* the requests in the order of write_used (not in the code)

ring == <<avail, avail_idx, posted, kicked, malformed>>
vars == <<ring, last_avail_id, used, used_id, interrupt_status, irq, op, guest,
          reaped, completed>>

Slot == 0..(queue_size - 1)
BadHeader == MaxSegments + 1        \* the segments of a malformed request
NoRequest == [id |-> 0, segments |-> 0]
Request == [id : 0..MaxRequests, segments : 0..BadHeader]
NotRunning == [phase |-> "none", req |-> NoRequest, status |-> "ok"]

Empty(value) == [s \in Slot |-> value]

Init ==
    /\ avail = Empty(NoRequest) /\ avail_idx = 0 /\ last_avail_id = 0
    /\ used = Empty([id |-> 0, status |-> "ok"]) /\ used_id = 0
    /\ interrupt_status = FALSE
    /\ irq = FALSE
    /\ op = NotRunning
    /\ guest = "run"
    /\ posted = 0 /\ reaped = 0 /\ kicked = TRUE /\ malformed = FALSE
    /\ completed = <<>>

-----------------------------------------------------------------------------
(* operation *)

\* Mutant: the slot is computed after last_avail_id is advanced.
get_next_avail_id_late == (last_avail_id + 1) % queue_size

\* get_next_avail_id: the slot of the next request.
get_next_avail_id == last_avail_id % queue_size

Fetch ==
    LET req == avail[get_next_avail_id] IN
    /\ op.phase = "fetch" /\ last_avail_id # avail_idx
    /\ last_avail_id' = (last_avail_id + 1) % WRAP
    /\ op' = IF req.segments = BadHeader
             THEN NotRunning        \* "Invalid VirtioBlkReq": return
             ELSE [phase |-> "data", req |-> req, status |-> "ok"]
    /\ UNCHANGED <<ring, used, used_id, interrupt_status, irq, guest, reaped, completed>>

\* One data descriptor; an address outside the RAM or a failure of the disk
\* makes the status IOERR and the loop goes on.
Segment(ok) ==
    /\ op.phase = "data" /\ op.req.segments > 0
    /\ op' = [op EXCEPT !.req.segments = @ - 1,
                        !.status = IF ok THEN @ ELSE "ioerr"]
    /\ UNCHANGED <<ring, last_avail_id, used, used_id, interrupt_status, irq, guest,
                   reaped, completed>>

\* `status` stands for the status byte that is written just before.
write_used(id, status) ==
    /\ used' = [used EXCEPT ![used_id % queue_size] = [id |-> id, status |-> status]]
    /\ used_id' = (used_id + 1) % WRAP
    /\ completed' = Append(completed, id)

\* Mutant: a request that failed is not put into the used ring.
CompleteOkOnly ==
    /\ op.phase = "data" /\ op.req.segments = 0
    /\ IF op.status = "ok" THEN write_used(op.req.id, op.status)
       ELSE UNCHANGED <<used, used_id, completed>>
    /\ op' = [NotRunning EXCEPT !.phase = "fetch"]
    /\ UNCHANGED <<ring, last_avail_id, interrupt_status, irq, guest, reaped>>

\* The status byte is written and the request goes to the used ring.
Complete ==
    /\ op.phase = "data" /\ op.req.segments = 0
    /\ write_used(op.req.id, op.status)
    /\ op' = [NotRunning EXCEPT !.phase = "fetch"]
    /\ UNCHANGED <<ring, last_avail_id, interrupt_status, irq, guest, reaped>>

\* Mutant: the status bit is not set.
FinishSilently ==
    /\ op.phase = "fetch" /\ last_avail_id = avail_idx
    /\ irq' = TRUE
    /\ op' = NotRunning
    /\ UNCHANGED <<ring, last_avail_id, used, used_id, interrupt_status, guest, reaped,
                   completed>>

\* The available ring is empty.
Finish ==
    /\ op.phase = "fetch" /\ last_avail_id = avail_idx
    /\ interrupt_status' = TRUE
    /\ irq' = TRUE
    /\ op' = NotRunning
    /\ UNCHANGED <<ring, last_avail_id, used, used_id, guest, reaped, completed>>

\* The increment of last_avail_id or of used_id at the end of the u16: with
\* overflow checks, as in the default build, it panics before it stores; the
\* device's Mutex stays locked and the CPU does not return to the guest.
\* Without them the index wraps, as in Fetch and Complete.
IndexOverflow ==
    /\ \/ op.phase = "fetch" /\ last_avail_id # avail_idx /\ last_avail_id = WRAP - 1
       \/ op.phase = "data" /\ op.req.segments = 0 /\ used_id = WRAP - 1
    /\ op' = [op EXCEPT !.phase = "panic"]
    /\ UNCHANGED <<ring, last_avail_id, used, used_id, interrupt_status, irq, guest, reaped,
                   completed>>

operation ==
    Fetch \/ (\E ok \in BOOLEAN : Segment(ok)) \/ Complete \/ IndexOverflow \/ Finish

-----------------------------------------------------------------------------
(* The guest: its driver (external), and the registers it writes *)

Running == op.phase = "none"
Outstanding == posted - reaped

Post(segments) ==
    /\ Running
    /\ Outstanding < queue_size /\ posted < MaxRequests
    /\ avail' = [avail EXCEPT ![avail_idx % queue_size] =
                    [id |-> posted + 1, segments |-> segments]]
    /\ avail_idx' = (avail_idx + 1) % WRAP
    /\ posted' = posted + 1
    /\ kicked' = FALSE
    /\ malformed' = (malformed \/ segments = BadHeader)
    /\ UNCHANGED <<last_avail_id, used, used_id, interrupt_status, irq, op, guest, reaped,
                   completed>>

\* VIRTIO_MMIO_QUEUE_NOTIFY.
QueueNotify ==
    /\ Running /\ ~kicked
    /\ op' = [NotRunning EXCEPT !.phase = "fetch"]
    /\ kicked' = TRUE
    /\ UNCHANGED <<avail, avail_idx, posted, malformed, last_avail_id, used, used_id,
                   interrupt_status, irq, guest, reaped, completed>>

\* The handler reads INTERRUPT_STATUS and returns at once if it is 0;
\* otherwise it writes it to VIRTIO_MMIO_INTERRUPT_ACK.
InterruptAck ==
    /\ Running /\ irq /\ guest = "run"
    /\ irq' = FALSE
    /\ guest' = IF interrupt_status THEN "isr" ELSE "run"
    /\ interrupt_status' = FALSE
    /\ UNCHANGED <<ring, last_avail_id, used, used_id, op, reaped, completed>>

\* The handler takes the next entry of the used ring ...
Reap ==
    /\ Running /\ guest = "isr" /\ reaped % WRAP # used_id
    /\ reaped' = reaped + 1
    /\ UNCHANGED <<ring, last_avail_id, used, used_id, interrupt_status, irq, op, guest,
                   completed>>

\* ... and returns when it has seen all of them.
IsrDone ==
    /\ Running /\ guest = "isr" /\ reaped % WRAP = used_id
    /\ guest' = "run"
    /\ UNCHANGED <<ring, last_avail_id, used, used_id, interrupt_status, irq, op, reaped,
                   completed>>

\* Mutant: used_id survives the reset.
ResetKeepsUsed ==
    /\ Running
    /\ avail' = Empty(NoRequest) /\ avail_idx' = 0 /\ last_avail_id' = 0
    /\ used' = Empty([id |-> 0, status |-> "ok"])
    /\ interrupt_status' = FALSE
    /\ guest' = "run"
    /\ posted' = 0 /\ reaped' = 0 /\ kicked' = TRUE /\ malformed' = FALSE
    /\ completed' = <<>>
    /\ UNCHANGED <<op, irq, used_id>>

\* VIRTIO_MMIO_STATUS = 0; the guest then sets up new rings (QUEUE_NUM and
\* QUEUE_PFN).  The interrupt controller is not told.
Reset ==
    /\ Running
    /\ avail' = Empty(NoRequest) /\ avail_idx' = 0 /\ last_avail_id' = 0
    /\ used' = Empty([id |-> 0, status |-> "ok"]) /\ used_id' = 0
    /\ interrupt_status' = FALSE
    /\ guest' = "run"
    /\ posted' = 0 /\ reaped' = 0 /\ kicked' = TRUE /\ malformed' = FALSE
    /\ completed' = <<>>
    /\ UNCHANGED <<op, irq>>

\* After a panic the CPU waits for ever.
Panicked == op.phase = "panic" /\ UNCHANGED vars

Driver == QueueNotify \/ InterruptAck \/ Reap \/ IsrDone

Next ==
    \/ operation
    \/ \E segments \in 0..BadHeader : Post(segments)
    \/ Driver
    \/ Reset
    \/ Panicked

Spec == Init /\ [][Next]_vars

\* The trap handler runs, and the guest's driver notifies and takes interrupts.
FairSpec == Spec /\ WF_vars(operation) /\ WF_vars(Driver)

-----------------------------------------------------------------------------
(* Properties *)

(***************************************************************************)
(* Every completion the guest has not seen yet is intact in the used ring, *)
(* in the slot where the guest will look for it, across the wrap of the    *)
(* index, malformed requests and resets.                                   *)
(***************************************************************************)
UsedRingIntact ==
    /\ reaped <= Len(completed)
    /\ \A k \in (reaped + 1)..Len(completed) :
        used[((k - 1) % WRAP) % queue_size].id = completed[k]

(***************************************************************************)
(* Requests are completed in the order they were posted and none twice,    *)
(* although the guest refills the slots of the available ring while        *)
(* last_avail_id runs behind.                                              *)
(***************************************************************************)
CompletedInOrder ==
    \A k \in 1..Len(completed) :
        /\ completed[k] <= posted
        /\ \A j \in 1..(k - 1) : completed[j] < completed[k]

(***************************************************************************)
(* A guest that has sent no malformed request is always told: a completion *)
(* it has not seen, once operation is over and its handler is not running, *)
(* has both the status bit and the interrupt behind it.                    *)
(***************************************************************************)
CompletionSignalled ==
    ~malformed /\ reaped < Len(completed) /\ op.phase = "none" /\ guest = "run"
        => interrupt_status /\ irq

(***************************************************************************)
(* Every request is answered, the device's failures included: the guest    *)
(* has seen as many completions as it has posted, unless it resets, has    *)
(* sent a malformed request, at which operation gives up, or an index      *)
(* overflows in a build that checks it.                                    *)
(***************************************************************************)
RequestsAnswered ==
    \A k \in 1..MaxRequests :
        (posted = k) ~> (reaped >= k \/ posted = 0 \/ malformed \/ op.phase = "panic")
=============================================================================
