--------------------------- MODULE VirtioBlkDriver ---------------------------
(***************************************************************************)
(* The host's virtio-blk driver (drivers/virtio_blk.rs) and the device it  *)
(* drives.  init_virtio_blk (main.rs) probes the virtio,mmio nodes of the  *)
(* device tree one by one; operation_sync then puts one request at a time  *)
(* into the queue and spins on its status byte.  An action is one store    *)
(* the device can see.                                                     *)
(*                                                                         *)
(* The device is external.  It wakes up when it is notified, takes what is *)
(* in the available ring, performs it, writes the status and only then     *)
(* fills the used ring, which the driver never reads: the next request may *)
(* be under way by then.  The request's header and its status byte are on  *)
(* the stack of operation_sync and are gone when it returns.               *)
(***************************************************************************)
EXTENDS Naturals, Sequences

CONSTANTS
    NUMBER_OF_DESCRIPTORS,
    IdxMod,         \* 2^16: avail.idx is an u16
    BlockSize,      \* 512
    NodeLists       \* the virtio,mmio nodes a device tree may have, in order

\* A node: is it operational and a version 1 block device, may it be
\* written, and how many descriptors does it take.
Node == [block_device : BOOLEAN, read_only : BOOLEAN, queue_max : Nat]

VARIABLES
    nodes, node,        \* the nodes, and the one that is probed or was chosen
    blk_pc,
    free_bitmap,        \* the descriptors that are free
    descriptors,
    ring, idx,          \* the available ring
    call,               \* the arguments of operation_sync
    taken,              \* first_idx, second_idx, third_idx
    header, status,     \* what is on its stack
    result,
    awake, last, job    \* the device: its copy of idx, the request it works on

registers == <<nodes, node>>
queue == <<free_bitmap, descriptors, ring, idx>>
stack == <<call, taken, header, status, result>>
device == <<awake, last, job>>
blk_vars == <<registers, blk_pc, queue, stack, device>>

Desc == 0..(NUMBER_OF_DESCRIPTORS - 1)
Pending == 255              \* the status byte before the device writes it
VIRTIO_BLK_S_OK == 0
VIRTIO_BLK_S_IOERR == 1
None == [none |-> TRUE]
NoJob == [phase |-> "none"]
ZeroDescriptor == [address |-> "null", length |-> 0, write |-> FALSE, more |-> FALSE, next |-> 0]

\* The descriptors once those of S are free: what they hold from then on is
\* not told apart.
Freed(S) == [d \in Desc |-> IF d \in S THEN ZeroDescriptor ELSE descriptors[d]]

\* What the memory of the queue may hold when it is allocated.
JunkIdx == {0, 1}

BlkInit ==
    /\ nodes \in NodeLists /\ node = 1
    /\ blk_pc = "probe"
    /\ free_bitmap = {}
    /\ descriptors = [d \in Desc |-> ZeroDescriptor]
    /\ ring = [d \in Desc |-> 0] /\ idx \in JunkIdx
    /\ call = None /\ taken = <<>> /\ header = None /\ status = Pending /\ result = "none"
    /\ awake = FALSE /\ last = 0 /\ job = NoJob

-----------------------------------------------------------------------------
(* init_virtio_blk and VirtioBlk::new *)

Suitable(n) ==
    /\ nodes[n].block_device
    /\ ~nodes[n].read_only
    /\ nodes[n].queue_max >= NUMBER_OF_DESCRIPTORS

\* new returns Err and the next node is tried.
ProbeFails ==
    /\ blk_pc = "probe" /\ node <= Len(nodes) /\ ~Suitable(node)
    /\ node' = node + 1
    /\ UNCHANGED <<nodes, blk_pc, queue, stack, device>>

\* No node is left: main's expect panics.
NoDevice ==
    /\ blk_pc = "probe" /\ node > Len(nodes)
    /\ blk_pc' = "panic"
    /\ UNCHANGED <<registers, queue, stack, device>>

\* The device is reset, negotiated with and given a zeroed queue.
SetupQueue ==
    /\ blk_pc = "probe" /\ node <= Len(nodes) /\ Suitable(node)
    /\ blk_pc' = "ready"
    /\ free_bitmap' = Desc
    /\ descriptors' = [d \in Desc |-> ZeroDescriptor]
    /\ ring' = [d \in Desc |-> 0] /\ idx' = 0
    /\ UNCHANGED <<registers, stack, device>>

-----------------------------------------------------------------------------
(* operation_sync *)

Aligned(c) == c.block % BlockSize = 0 /\ c.length % BlockSize = 0

\* The entry: what is not a multiple of 512 bytes is refused; otherwise the
\* header is put on the stack.
operation_sync(c) ==
    /\ blk_pc = "ready"
    /\ call' = c /\ taken' = <<>> /\ status' = Pending
    /\ IF Aligned(c)
       THEN /\ blk_pc' = "allocate" /\ result' = "none"
            /\ header' = [is_write |-> c.is_write, block |-> c.block]
       ELSE /\ blk_pc' = "return" /\ result' = "err"
            /\ UNCHANGED header
    /\ UNCHANGED <<registers, queue, device>>

\* allocate_descriptor: the lowest free one.
FirstFree == CHOOSE d \in free_bitmap : \A e \in free_bitmap : d <= e

\* What the n-th descriptor of a request is given; next is set later.
Filled(n, old) ==
    CASE n = 1 -> [address |-> "header", length |-> 1, write |-> FALSE, more |-> TRUE,
                   next |-> old.next]
      [] n = 2 -> [address |-> call.buffer, length |-> call.length,
                   write |-> ~call.is_write, more |-> TRUE, next |-> old.next]
      [] n = 3 -> [address |-> "status", length |-> 1, write |-> TRUE, more |-> FALSE,
                   next |-> old.next]

\* One descriptor is allocated, filled and linked to the one before it.  If
\* there is none, Err is returned and those already taken are not given back.
AllocateDescriptor ==
    LET n == Len(taken) + 1
        d == FirstFree
        filled == [descriptors EXCEPT ![d] = Filled(n, @)]
    IN
    /\ blk_pc = "allocate"
    /\ IF free_bitmap = {}
       THEN /\ blk_pc' = "return" /\ result' = "err" /\ header' = None
            /\ UNCHANGED <<queue, taken>>
       ELSE /\ free_bitmap' = free_bitmap \ {d}
            /\ taken' = Append(taken, d)
            /\ descriptors' = IF n = 1 THEN filled
                              ELSE [filled EXCEPT ![taken[n - 1]].next = d]
            /\ blk_pc' = IF n = 3 THEN "ring" ELSE "allocate"
            /\ UNCHANGED <<ring, idx, result, header>>
    /\ UNCHANGED <<registers, call, status, device>>

PublishRing ==
    /\ blk_pc = "ring"
    /\ ring' = [ring EXCEPT ![idx % NUMBER_OF_DESCRIPTORS] = taken[1]]
    /\ blk_pc' = "idx"
    /\ UNCHANGED <<registers, free_bitmap, descriptors, idx, stack, device>>

\* Mutant: the index is reduced to the size of the ring, as the guest's
\* device keeps its own.
PublishIdxReduced ==
    /\ blk_pc = "idx"
    /\ idx' = (idx + 1) % NUMBER_OF_DESCRIPTORS
    /\ blk_pc' = "notify"
    /\ UNCHANGED <<registers, free_bitmap, descriptors, ring, stack, device>>

\* Without overflow checks idx wraps.
PublishIdx ==
    /\ blk_pc = "idx"
    /\ idx' = (idx + 1) % IdxMod
    /\ blk_pc' = "notify"
    /\ UNCHANGED <<registers, free_bitmap, descriptors, ring, stack, device>>

\* With them, as in the default build, the increment of the last index panics
\* before it stores; the caller's VIRTIO_BLK stays locked.
PublishIdxPanics ==
    /\ blk_pc = "idx" /\ idx = IdxMod - 1
    /\ blk_pc' = "panic"
    /\ UNCHANGED <<registers, queue, stack, device>>

\* QUEUE_NOTIFY.
Notify ==
    /\ blk_pc = "notify"
    /\ awake' = TRUE
    /\ blk_pc' = "spin"
    /\ UNCHANGED <<registers, queue, stack, last, job>>

\* Mutant: the third descriptor is not freed.
SpinDoneLeaking ==
    /\ blk_pc = "spin" /\ status # Pending
    /\ result' = IF status = VIRTIO_BLK_S_OK THEN "ok" ELSE "err"
    /\ free_bitmap' = free_bitmap \cup {taken[1], taken[2]}
    /\ descriptors' = Freed({taken[1], taken[2]})
    /\ blk_pc' = "return"
    /\ header' = None
    /\ UNCHANGED <<registers, ring, idx, call, taken, status, device>>

\* Mutant: only success ends the loop.
SpinDoneOkOnly ==
    /\ blk_pc = "spin"
    /\ IF status = VIRTIO_BLK_S_OK
       THEN /\ result' = "ok" /\ blk_pc' = "return" /\ header' = None
            /\ free_bitmap' = free_bitmap \cup {taken[1], taken[2], taken[3]}
            /\ descriptors' = Freed({taken[1], taken[2], taken[3]})
            /\ UNCHANGED <<registers, ring, idx, call, taken, status, device>>
       ELSE UNCHANGED blk_vars

\* The status has changed: the descriptors are freed.
SpinDone ==
    /\ blk_pc = "spin" /\ status # Pending
    /\ result' = IF status = VIRTIO_BLK_S_OK THEN "ok" ELSE "err"
    /\ free_bitmap' = free_bitmap \cup {taken[1], taken[2], taken[3]}
    /\ descriptors' = Freed({taken[1], taken[2], taken[3]})
    /\ blk_pc' = "return"
    /\ header' = None
    /\ UNCHANGED <<registers, ring, idx, call, taken, status, device>>

\* The caller has the result.
Return ==
    /\ blk_pc = "return"
    /\ blk_pc' = "ready"
    /\ call' = None /\ taken' = <<>> /\ result' = "none" /\ status' = Pending
    /\ UNCHANGED <<registers, queue, header, device>>

-----------------------------------------------------------------------------
(* The device *)

\* The request the chain of descriptors at d describes, as the device reads
\* it; None if it is not a chain of three of a live header.
Chain(d) ==
    LET d2 == descriptors[d].next
        d3 == descriptors[d2].next
        buffer == descriptors[d2]
    IN  IF /\ header # None
           /\ descriptors[d].address = "header" /\ descriptors[d].more
           /\ buffer.more
           /\ descriptors[d3].address = "status" /\ descriptors[d3].write /\ ~descriptors[d3].more
           /\ buffer.write = ~header.is_write
        THEN [is_write |-> header.is_write, block |-> header.block,
              buffer |-> buffer.address, length |-> buffer.length]
        ELSE None

Fetch ==
    /\ awake /\ job = NoJob /\ last # idx
    /\ LET head == ring[last % NUMBER_OF_DESCRIPTORS]
       IN  job' = [phase |-> "fetched", request |-> Chain(head)]
    /\ last' = (last + 1) % IdxMod
    /\ UNCHANGED <<registers, blk_pc, queue, stack, awake>>

\* The disk is read or written, or fails to be; the driver sees the status.
Perform ==
    /\ job.phase = "fetched"
    /\ status' \in {VIRTIO_BLK_S_OK, VIRTIO_BLK_S_IOERR}
    /\ job' = [phase |-> "performed"]
    /\ UNCHANGED <<registers, blk_pc, queue, call, taken, header, result, awake, last>>

\* The used ring is filled; the device sleeps if there is nothing new.
PushUsed ==
    /\ job.phase = "performed"
    /\ job' = NoJob
    /\ awake' = (last # idx)
    /\ UNCHANGED <<registers, blk_pc, queue, stack, last>>

\* It was notified of what it has already taken.
Sleep ==
    /\ awake /\ job = NoJob /\ last = idx
    /\ awake' = FALSE
    /\ UNCHANGED <<registers, blk_pc, queue, stack, last, job>>

Device == Fetch \/ Perform \/ PushUsed \/ Sleep

\* The driver's own steps between a call and its return.
Driver ==
    \/ ProbeFails \/ NoDevice \/ SetupQueue
    \/ AllocateDescriptor \/ PublishRing \/ PublishIdx \/ PublishIdxPanics
    \/ Notify \/ SpinDone

-----------------------------------------------------------------------------
(* Properties *)

Asked ==
    [is_write |-> call.is_write, block |-> call.block,
     buffer |-> call.buffer, length |-> call.length]

(***************************************************************************)
(* The device never works on anything but the request of the call that is  *)
(* spinning: what it is about to read or write is exactly what was asked   *)
(* for, and the header and the status byte it was given still exist; a     *)
(* call never returns Ok unless the device has performed it.               *)
(***************************************************************************)
DeviceServesCaller ==
    /\ job.phase = "fetched" =>
           /\ blk_pc \in {"notify", "spin"} /\ status = Pending
           /\ job.request = Asked
    /\ result = "ok" => status = VIRTIO_BLK_S_OK

(***************************************************************************)
(* Between two calls every descriptor is free and the device has seen all  *)
(* of the available ring, so the next call finds its three descriptors and *)
(* its entry is the only new one, whatever the indices have wrapped to.    *)
(***************************************************************************)
QueueIdle == blk_pc = "ready" => free_bitmap = Desc /\ last = idx
=============================================================================
