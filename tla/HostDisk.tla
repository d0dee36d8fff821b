------------------------------ MODULE HostDisk -------------------------------
(***************************************************************************)
(* The host's disk: the file system (Fat32) on the virtio-blk driver       *)
(* (VirtioBlkDriver), as main sets them up and as create_vm and the        *)
(* emulated disks use them under VIRTIO_BLK.  Every blk.read and blk.write *)
(* of the file system is a call of the driver and goes on with its result. *)
(***************************************************************************)
EXTENDS Fat32

CONSTANTS NUMBER_OF_DESCRIPTORS, IdxMod, NodeLists

VARIABLES
    nodes, node, blk_pc, free_bitmap, descriptors, ring, idx,
    call, taken, header, status, result, awake, last, job

Blk == INSTANCE VirtioBlkDriver WITH BlockSize <- BytesPerSector

ASSUME QueueAssumption ==
    /\ NUMBER_OF_DESCRIPTORS \in Nat /\ NUMBER_OF_DESCRIPTORS >= 3
    /\ IdxMod \in Nat \ {0} /\ IdxMod % NUMBER_OF_DESCRIPTORS = 0

ASSUME NodeAssumption == \A l \in NodeLists : l \in Seq(Blk!Node)

blk_vars ==
    <<nodes, node, blk_pc, free_bitmap, descriptors, ring, idx,
      call, taken, header, status, result, awake, last, job>>
disk_vars == <<vars, blk_vars>>

HostInit == Init /\ Blk!BlkInit

\* Where the file system wants the sectors of the run: the caller's buffer,
\* at the pointer, or the bounce buffer.
RunCall ==
    [is_write |-> req.op = "write",
     buffer |-> IF Bouncing THEN <<"bounce", 0>> ELSE <<"caller", buffer_pointer>>,
     block |-> FirstByte, length |-> sectors * BytesPerSector]

MountCall ==
    [is_write |-> FALSE, buffer |-> <<pc, 0>>,
     block |-> MountRead[pc].block, length |-> MountRead[pc].length]

CallBlk ==
    \/ pc \in Mounting /\ ~NeedsBuffer /\ Blk!operation_sync(MountCall) /\ UNCHANGED vars
    \/ Submit /\ Blk!operation_sync(RunCall)

BlkReturns ==
    /\ Blk!Return
    /\ \/ result = "ok" /\ (MountStep \/ Transfer)
       \/ result = "ok" /\ pc \in {"mbr", "bpb"} /\ MountFails
       \/ result = "err" /\ (MountFails \/ TransferFails)

FileSystem == Step /\ UNCHANGED blk_vars

\* init_virtio_blk(..).unwrap(), init_fat32, a caller or the driver has panicked.
Halted == (pc \in {"panic", "failed"} \/ blk_pc = "panic") /\ UNCHANGED disk_vars

HostNext ==
    \/ FileSystem
    \/ CallBlk \/ BlkReturns
    \/ Blk!Driver /\ UNCHANGED vars
    \/ Blk!Device /\ UNCHANGED vars
    \/ Halted

HostDriver == CallBlk \/ BlkReturns \/ (Blk!Driver /\ UNCHANGED vars)

\* A CPU that runs the file system or the driver, with VIRTIO_BLK locked and
\* interrupts masked, goes on; the device answers what it was notified of.
\* Whether callers ask for anything is left open.
HostSpec ==
    /\ HostInit /\ [][HostNext]_disk_vars
    /\ WF_disk_vars(pc # "idle" /\ FileSystem)
    /\ WF_disk_vars(HostDriver)
    /\ WF_disk_vars(Blk!Device /\ UNCHANGED vars)

-----------------------------------------------------------------------------
(* Properties *)

\* The driver's, about the requests the file system really makes.
DeviceServesCaller == Blk!DeviceServesCaller
QueueIdle == Blk!QueueIdle

(***************************************************************************)
(* Every request for a range of a file returns, Ok or Err, and so does     *)
(* every call of the driver it makes: no notification is lost, and the     *)
(* loops over the cluster chain end, also where they leave the length.     *)
(* Only the overflow of avail.idx, in a build that checks it, ends both.   *)
(***************************************************************************)
RequestReturns ==
    /\ pc = "start" ~> pc = "idle" \/ blk_pc = "panic"
    /\ blk_pc = "allocate" ~> blk_pc \in {"return", "panic"}
=============================================================================
