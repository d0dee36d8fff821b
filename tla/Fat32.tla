-------------------------------- MODULE Fat32 --------------------------------
(***************************************************************************)
(* The FAT32 file system (fat32.rs): mounting, the search for a file, and  *)
(* how read and write turn a range of a file into transfers of runs of     *)
(* sectors.  The caller holds VIRTIO_BLK, so one request runs at a time;   *)
(* an action is one iteration of one of its loops.  read and write differ  *)
(* where write refuses what is not sector-aligned and read copies it       *)
(* through a bounce buffer.                                                *)
(*                                                                         *)
(* The file data is not stored: a transfer pairs each byte of the caller's *)
(* buffer with the byte of the disk it is read from or written to.  The    *)
(* rest of the disk (FAT, root directory) does not change and is constant. *)
(* A sector is one LBA (512 bytes).                                        *)
(***************************************************************************)
EXTENDS Naturals, Sequences

CONSTANTS
    BytesPerSector,
    SectorsPerCluster,
    PartitionStart,     \* base_lba * lba_size
    ReservedSectors, NumberOfFats, FatSectors, RootCluster,
    EndOfChain,         \* 0x0FFFFFF8
    Fat,                \* cluster -> next cluster
    Directory,          \* the entries of the root directory's first cluster
    Lower(_),           \* make_ascii_lowercase
    Requests            \* what callers ask for

ASSUME GeometryAssumption ==
    /\ BytesPerSector \in Nat \ {0} /\ SectorsPerCluster \in Nat \ {0}
    /\ PartitionStart \in Nat /\ ReservedSectors \in Nat
    /\ NumberOfFats \in Nat /\ FatSectors \in Nat \ {0}

Attribute == {"archive", "directory", "long_file_name"}

\* A directory entry; first says whether name[0] is 0 or 0xE5.
DirectoryEntry ==
    [name : STRING, first : {"char", "end", "deleted"}, attribute : Attribute,
     cluster : Nat, file_length : Nat]

ASSUME DirectoryAssumption == Directory \in Seq(DirectoryEntry)

ASSUME FatAssumption == EndOfChain \in Nat /\ \A c \in DOMAIN Fat : Fat[c] \in Nat

Request == [op : {"read", "write"}, name : STRING, offset : Nat, length : Nat]

\* The emulated disk passes a guest's length on as it is: it may be 0.
ASSUME RequestAssumption == \A r \in Requests : r \in Request

VARIABLES
    pages,              \* the buffers taken from allocate_pages
    req,                \* the request, its length cut at the end of the file
    file_info,
    pc,
    clusters_to_skip,
    cluster,            \* reading_cluster, writing_cluster
    first_cluster,
    data_offset,
    data_offset_backup,
    sector_offset,
    sectors,
    run_bytes,          \* read_bytes, write_bytes
    buffer_pointer,
    moved               \* pairs <<byte of the buffer, byte of the disk>>

plan == <<first_cluster, data_offset, data_offset_backup, sector_offset, sectors, run_bytes>>
vars == <<pages, req, file_info, pc, clusters_to_skip, cluster, plan, buffer_pointer, moved>>

BytesPerCluster == SectorsPerCluster * BytesPerSector
NoFile == [entry_cluster |-> 0, file_size |-> 0]
NoRequest == [op |-> "read", name |-> "", offset |-> 0, length |-> 0]

\* The locals of read and write while neither runs.
NoLocals ==
    /\ req' = NoRequest /\ file_info' = NoFile
    /\ clusters_to_skip' = 0 /\ cluster' = 0 /\ first_cluster' = 0
    /\ data_offset' = 0 /\ data_offset_backup' = 0 /\ sector_offset' = 0
    /\ sectors' = 0 /\ run_bytes' = 0 /\ buffer_pointer' = 0 /\ moved' = {}

Init ==
    /\ pages = {}
    /\ pc = "mbr"
    /\ req = NoRequest /\ file_info = NoFile
    /\ clusters_to_skip = 0 /\ cluster = 0 /\ first_cluster = 0
    /\ data_offset = 0 /\ data_offset_backup = 0 /\ sector_offset = 0
    /\ sectors = 0 /\ run_bytes = 0 /\ buffer_pointer = 0 /\ moved = {}

-----------------------------------------------------------------------------
(* init_fat32 and Fat32::new *)

\* The first byte of a sector of the partition, as read_sectors computes it.
SectorByte(sector) == PartitionStart + sector * BytesPerSector

cluster_to_sector(c) ==
    ReservedSectors + NumberOfFats * FatSectors + (c - 2) * SectorsPerCluster

\* What each step of mounting reads: where, and how much.
MountRead ==
    [mbr  |-> [block |-> 0, length |-> BytesPerSector],
     bpb  |-> [block |-> PartitionStart, length |-> BytesPerSector],
     fat  |-> [block |-> SectorByte(ReservedSectors), length |-> FatSectors * BytesPerSector],
     root |-> [block |-> SectorByte(cluster_to_sector(RootCluster)), length |-> BytesPerCluster]]

Mounting == DOMAIN MountRead
AfterMount == [mbr |-> "bpb", bpb |-> "fat", fat |-> "root", root |-> "idle"]

\* What a failing read has Fat32::new free before it returns Err.
MountFrees == [mbr |-> {}, bpb |-> {}, fat |-> {"fat"}, root |-> {"root", "fat"}]

\* The FAT and the root directory are read into buffers of allocate_pages.
NeedsBuffer == pc \in {"fat", "root"} /\ pc \notin pages

MountAllocate ==
    /\ NeedsBuffer
    /\ pages' = pages \cup {pc}
    /\ UNCHANGED <<req, file_info, pc, clusters_to_skip, cluster, plan, buffer_pointer, moved>>

\* There is no memory: the expect panics, and nothing is freed.
MountNoMemory ==
    /\ NeedsBuffer
    /\ pc' = "panic"
    /\ UNCHANGED <<pages, req, file_info, clusters_to_skip, cluster, plan, buffer_pointer, moved>>

\* The read fails, or the sector is not an MBR with a FAT32 partition or not
\* a BPB: init_fat32 returns Err, and main's expect panics.
MountFails ==
    /\ pc \in Mounting /\ ~NeedsBuffer
    /\ pc' = "failed"
    /\ pages' = pages \ MountFrees[pc]
    /\ UNCHANGED <<req, file_info, clusters_to_skip, cluster, plan, buffer_pointer, moved>>

MountStep ==
    /\ pc \in Mounting /\ ~NeedsBuffer
    /\ pc' = AfterMount[pc]
    /\ UNCHANGED <<pages, req, file_info, clusters_to_skip, cluster, plan, buffer_pointer, moved>>

-----------------------------------------------------------------------------
(* search_file *)

Skipped(e) == e.attribute \in {"long_file_name", "directory"}

SameName(e, target) == e.name = target \/ Lower(e.name) = target

\* Mutant: deleted files are found.
FoundDeleted(i, target) ==
    /\ ~Skipped(Directory[i]) /\ SameName(Directory[i], target)
    /\ \A j \in 1..i : Directory[j].first = "end" => Skipped(Directory[j])

\* Entry i is one the loop accepts: it is not passed over and the loop has
\* not met the end mark.
Found(i, target) ==
    /\ ~Skipped(Directory[i]) /\ SameName(Directory[i], target)
    /\ Directory[i].first = "char"
    /\ \A j \in 1..i : Directory[j].first = "end" => Skipped(Directory[j])

\* The FileInfo, or NoFile.
search_file(target) ==
    LET found == {i \in 1..Len(Directory) : Found(i, target)}
        first == CHOOSE i \in found : \A j \in found : i <= j
    IN  IF found = {} THEN NoFile
        ELSE [entry_cluster |-> Directory[first].cluster,
              file_size |-> Directory[first].file_length]

-----------------------------------------------------------------------------
(* The start of read and write *)

Min2(a, b) == IF a < b THEN a ELSE b
Max2(a, b) == IF a < b THEN b ELSE a

\* get_next_cluster; 0 is None.
get_next_cluster(c) ==
    IF c \in DOMAIN Fat /\ Fat[c] >= 2 /\ Fat[c] < EndOfChain THEN Fat[c] ELSE 0

Fail ==
    /\ pc' = "error"
    /\ UNCHANGED <<pages, req, file_info, clusters_to_skip, cluster, plan, buffer_pointer, moved>>

\* A caller opens a file, create_vm or the emulated disk at its creation, and
\* asks for a range of it; without such a file it panics.
Call(r) ==
    LET file == search_file(r.name) IN
    /\ pc = "idle"
    /\ pc' = IF file = NoFile THEN "panic" ELSE "start"
    /\ req' = r /\ file_info' = file
    /\ cluster' = file.entry_cluster
    /\ UNCHANGED <<pages, clusters_to_skip, plan, buffer_pointer, moved>>

\* The request is cut at the end of the file; nothing is left past it.
Start ==
    /\ pc = "start"
    /\ IF req.offset + req.length > file_info.file_size /\ req.offset >= file_info.file_size
       THEN pc' = "ok" /\ UNCHANGED <<req, clusters_to_skip, data_offset>>
       ELSE /\ pc' = "skip"
            /\ req' = [req EXCEPT !.length = Min2(@, file_info.file_size - req.offset)]
            /\ clusters_to_skip' = req.offset \div BytesPerCluster
            /\ data_offset' = req.offset % BytesPerCluster
    /\ UNCHANGED <<pages, file_info, cluster, first_cluster, data_offset_backup, sector_offset,
                   sectors, run_bytes, buffer_pointer, moved>>

\* The head of the outer loop.
BeginRun(c, offset) ==
    /\ pc' = "plan"
    /\ cluster' = c /\ first_cluster' = c
    /\ data_offset' = offset /\ data_offset_backup' = offset
    /\ sector_offset' = 0 /\ sectors' = 0 /\ run_bytes' = 0

SkipCluster ==
    /\ pc = "skip" /\ clusters_to_skip > 0
    /\ \/ get_next_cluster(cluster) = 0 /\ Fail
       \/ /\ get_next_cluster(cluster) # 0
          /\ cluster' = get_next_cluster(cluster)
          /\ clusters_to_skip' = clusters_to_skip - 1
          /\ UNCHANGED <<pages, req, file_info, pc, plan, buffer_pointer, moved>>

SkipDone ==
    /\ pc = "skip" /\ clusters_to_skip = 0
    /\ BeginRun(cluster, data_offset)
    /\ UNCHANGED <<pages, req, file_info, clusters_to_skip, buffer_pointer, moved>>

-----------------------------------------------------------------------------
(* The inner loop: how many sectors the next transfer takes *)

Rest == req.length - run_bytes

\* write: "The size to write must be aligned".
WriteTooShort == req.op = "write" /\ Rest < BytesPerSector

\* More than one sector before the data is skipped on the disk.
SkipsSectors == data_offset > BytesPerSector
SkippedSectors == IF SkipsSectors THEN data_offset \div BytesPerSector ELSE sector_offset
OffsetInSector == IF SkipsSectors THEN data_offset % BytesPerSector ELSE data_offset

\* Mutant: one sector more when the end falls on a sector boundary.
LastSectorsLong == 1 + (Rest + OffsetInSector) \div BytesPerSector

\* The sectors of the last, partial cluster.
LastSectors == 1 + (Max2(Rest + OffsetInSector, 1) - 1) \div BytesPerSector

PlanRefused == pc = "plan" /\ WriteTooShort /\ Fail

\* What remains fits in one cluster.
PlanLast ==
    /\ pc = "plan" /\ ~WriteTooShort
    /\ Rest + OffsetInSector <= BytesPerCluster
    /\ pc' = "transfer"
    /\ sector_offset' = SkippedSectors
    /\ data_offset' = OffsetInSector
    /\ data_offset_backup' = IF SkipsSectors THEN OffsetInSector ELSE data_offset_backup
    /\ sectors' = sectors + LastSectors
    /\ run_bytes' = req.length
    /\ UNCHANGED <<pages, req, file_info, clusters_to_skip, cluster, first_cluster, buffer_pointer, moved>>

\* A whole cluster; the run goes on if the next one follows it on the disk.
PlanCluster ==
    LET next == get_next_cluster(cluster) IN
    /\ pc = "plan" /\ ~WriteTooShort
    /\ Rest + OffsetInSector > BytesPerCluster
    /\ \/ next = 0 /\ Fail
       \/ /\ next # 0
          /\ sector_offset' = SkippedSectors
          /\ data_offset_backup' = IF SkipsSectors THEN OffsetInSector ELSE data_offset_backup
          /\ sectors' = sectors + SectorsPerCluster
          /\ run_bytes' = run_bytes + BytesPerCluster - OffsetInSector
          /\ IF next = cluster + 1
             THEN pc' = "plan" /\ cluster' = next /\ data_offset' = 0
             ELSE pc' = "transfer" /\ data_offset' = OffsetInSector /\ UNCHANGED cluster
          /\ UNCHANGED <<pages, req, file_info, clusters_to_skip, first_cluster, buffer_pointer, moved>>

-----------------------------------------------------------------------------
(* The transfer *)

FirstByte == SectorByte(cluster_to_sector(first_cluster) + sector_offset)

\* read_sectors or write_sectors straight into the caller's buffer.
Direct ==
    {<<buffer_pointer + i, FirstByte + i>> : i \in 0..(sectors * BytesPerSector - 1)}

\* read through the bounce buffer, and the copy of what was asked for.
Bounced ==
    {<<i, FirstByte + data_offset_backup + i>> : i \in 0..(run_bytes - 1)}

Bouncing == data_offset_backup # 0

\* write refuses an offset that is not on a sector; allocate_pages may have
\* no room for read's bounce buffer.
TransferRefused ==
    /\ pc = "transfer" /\ Bouncing
    /\ Fail

\* The call of blk.read or blk.write.
Submit ==
    /\ pc = "transfer" /\ (req.op = "write" => ~Bouncing)
    /\ pc' = "io"
    /\ pages' = IF Bouncing THEN pages \cup {"bounce"} ELSE pages
    /\ UNCHANGED <<req, file_info, clusters_to_skip, cluster, plan, buffer_pointer, moved>>

\* Mutant: the error path forgets the bounce buffer.
TransferFailsLeaking ==
    /\ pc = "io"
    /\ pc' = "error"
    /\ UNCHANGED <<pages, req, file_info, clusters_to_skip, cluster, plan, buffer_pointer, moved>>

TransferFails ==
    /\ pc = "io"
    /\ pc' = "error"
    /\ pages' = pages \ {"bounce"}
    /\ UNCHANGED <<req, file_info, clusters_to_skip, cluster, plan, buffer_pointer, moved>>

Transfer ==
    LET pointer == buffer_pointer + run_bytes
        next == get_next_cluster(cluster)
    IN
    /\ pc = "io"
    /\ moved' = moved \cup (IF Bouncing THEN Bounced ELSE Direct)
    /\ pages' = pages \ {"bounce"}
    /\ buffer_pointer' = pointer
    /\ \/ /\ pointer = req.length
          /\ pc' = "ok"
          /\ UNCHANGED <<cluster, plan>>
       \/ /\ pointer # req.length /\ next # 0
          /\ BeginRun(next, 0)
       \/ /\ pointer # req.length /\ next = 0
          /\ pc' = "error"
          /\ UNCHANGED <<cluster, plan>>
    /\ UNCHANGED <<req, file_info, clusters_to_skip>>

Return == pc \in {"ok", "error"} /\ pc' = "idle" /\ NoLocals /\ UNCHANGED pages

\* The steps in which the disk takes no part.
Step ==
    \/ MountAllocate \/ MountNoMemory
    \/ \E r \in Requests : Call(r)
    \/ Start \/ SkipCluster \/ SkipDone
    \/ PlanRefused \/ PlanLast \/ PlanCluster
    \/ TransferRefused \/ Return

Panicked == pc \in {"panic", "failed"} /\ UNCHANGED vars

Next ==
    \/ Step \/ Panicked
    \/ MountStep \/ MountFails
    \/ Submit \/ Transfer \/ TransferFails

Spec == Init /\ [][Next]_vars

-----------------------------------------------------------------------------
(* Properties *)

\* The file a name stands for, whatever else the directory holds: a live
\* entry with that name, in either case.
LiveFile(e, target) ==
    /\ e.attribute = "archive" /\ e.first = "char"
    /\ (e.name = target \/ Lower(e.name) = target)

FileNamed(target) == CHOOSE e \in {Directory[i] : i \in 1..Len(Directory)} : LiveFile(e, target)

\* As in every FAT directory, no two live files share a name.
ASSUME NameAssumption ==
    \A r \in Requests : \A i, j \in 1..Len(Directory) :
        LiveFile(Directory[i], r.name) /\ LiveFile(Directory[j], r.name)
            => Directory[i] = Directory[j]

\* The clusters of a file, by their place in it; 0 past the end of the chain.
ClustersFrom(first) ==
    LET c[n \in Nat] == IF n = 0 THEN first ELSE get_next_cluster(c[n - 1]) IN c

FileCluster(n) == ClustersFrom(FileNamed(req.name).cluster)[n]

\* Byte n of the file, on the disk.
FileByte(n) ==
    SectorByte(cluster_to_sector(FileCluster(n \div BytesPerCluster))) + (n % BytesPerCluster)

Requested == 0..(req.length - 1)

\* The sectors the request touches: at least one, as a read of nothing still
\* moves a sector (the .max(1) of fat32.rs:338).
WholeSectors ==
    Max2((req.length + BytesPerSector - 1) \div BytesPerSector, 1) * BytesPerSector

Right ==
    \A i \in Requested :
        /\ <<i, FileByte(req.offset + i)>> \in moved
        /\ \A m \in moved : m[1] = i => m[2] = FileByte(req.offset + i)

\* The clusters of the request follow each other on the disk.
FirstCluster == req.offset \div BytesPerCluster
LastCluster == (req.offset + req.length - 1) \div BytesPerCluster
OneRun == \A n \in (FirstCluster + 1)..LastCluster : FileCluster(n) = FileCluster(n - 1) + 1

(***************************************************************************)
(* A request that returns Ok has moved every byte that was asked for, and  *)
(* each to or from its own place in the live file of that name, if the     *)
(* clusters of the request follow each other: in a contiguous file, or in  *)
(* a part of a fragmented or truncated one that the walk along its chain   *)
(* finds.                                                                  *)
(***************************************************************************)
OkMovesFileBytes ==
    pc = "ok" /\ req.offset < FileNamed(req.name).file_length /\ OneRun => Right

(***************************************************************************)
(* No such request, whatever its end and also if it fails, touches the     *)
(* caller's memory beyond the last sector it asked for, or beyond one      *)
(* sector if it asked for nothing, and a write changes no byte of the disk *)
(* but those of the sectors of its range.                                  *)
(***************************************************************************)
MovesWithinRequest ==
    moved # {} /\ OneRun => \A m \in moved :
        /\ m[1] < WholeSectors
        /\ req.op = "write" => \E i \in 0..(WholeSectors - 1) : m[2] = FileByte(req.offset + i)

(***************************************************************************)
(* The buffers taken from the allocator are given back: between requests   *)
(* only the FAT and the root directory are held, whichever way the last    *)
(* request ended, and a mount that returns Err has freed what it took.  A  *)
(* mount that panics for want of memory keeps what it has.                 *)
(***************************************************************************)
PagesReturned ==
    /\ pc \in {"idle", "ok", "error"} => pages = {"fat", "root"}
    /\ pc = "failed" => pages = {}

(***************************************************************************)
(* buffer_pointer, which the loop compares with the length for equality,   *)
(* never passes it: after a break at clusters that do not follow each      *)
(* other ("クラスタが連続していない", fat32.rs:349) the next run takes what *)
(* is left.  So it is in a contiguous file; in a fragmented one the next   *)
(* run starts again with the whole length.                                 *)
(***************************************************************************)
PointerWithinLength == buffer_pointer <= req.length
=============================================================================
