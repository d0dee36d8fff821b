----------------------------- MODULE MCHostDisk ------------------------------
(***************************************************************************)
(* A small disk for Fat32 and HostDisk: clusters of three sectors of two   *)
(* bytes, files of up to three clusters.  Callers ask for any length at an *)
(* offset that is a multiple of the sector (the emulated disk), or for all *)
(* of a file of any size (create_vm).                                      *)
(***************************************************************************)
EXTENDS HostDisk

\* IMAGE is contiguous, DISK0 and DISK1 are fragmented, DISK2 ends before its
\* size; 5 is the root directory, 20 ends a chain.
MCFatTable ==
    [c \in 2..19 |->
        CASE c \in {2, 3, 7, 11} -> c + 1
          [] c = 6 -> 8 [] c = 8 -> 9
          [] c = 10 -> 11
          [] c = 12 -> 15
          [] c = 16 -> 18
          [] c \in {4, 5, 9, 15, 18} -> 20
          [] OTHER -> 0]

File(name, start, size) ==
    [name |-> name, first |-> "char", attribute |-> "archive",
     cluster |-> start, file_length |-> size]

\* A deleted DISK0, a directory and a long name come before the files.
MCDirectory ==
    <<[File("DISK0", 2, 18) EXCEPT !.first = "deleted"],
      [File("DISK1", 13, 0) EXCEPT !.attribute = "directory"],
      [File("IMAGE", 13, 0) EXCEPT !.attribute = "long_file_name"],
      File("IMAGE", 2, 17), File("DISK0", 6, 18), File("DISK1", 10, 16),
      File("DISK2", 16, 18),
      [File("", 0, 0) EXCEPT !.first = "end"], File("GONE", 2, 18)>>

MCLower(name) == IF name = "IMAGE" THEN "image" ELSE name

\* Around the boundaries of sectors, of clusters and of the files.
DiskRequests(op, names) ==
    [op : {op}, name : names,
     offset : {0, 2, 4, 6, 8, 12, 16, 18}, length : {0, 2, 3, 4, 6, 8, 12, 18, 20}]

WholeFile == {[op |-> "read", name |-> n, offset |-> 0, length |-> 17] : n \in {"IMAGE", "image"}}

\* A guest that asks for less than a sector.
ShortWrite == {[op |-> "write", name |-> "DISK0", offset |-> 0, length |-> 1]}

Missing == {[op |-> "read", name |-> "GONE", offset |-> 0, length |-> 2]}

FragmentedRequests == DiskRequests("read", {"DISK0", "DISK1"})

AllRequests ==
    DiskRequests("read", {"IMAGE", "DISK0", "DISK1", "DISK2"})
        \cup DiskRequests("write", {"IMAGE", "DISK0", "DISK1"})
        \cup WholeFile \cup ShortWrite \cup Missing

-----------------------------------------------------------------------------
\* Device trees: the block device comes after nodes that are not suitable,
\* or there is none.
Unsuitable ==
    <<[block_device |-> FALSE, read_only |-> FALSE, queue_max |-> 0],
      [block_device |-> TRUE, read_only |-> TRUE, queue_max |-> 3],
      [block_device |-> TRUE, read_only |-> FALSE, queue_max |-> 2]>>

MCNodeLists ==
    {Unsuitable, Unsuitable \o <<[block_device |-> TRUE, read_only |-> FALSE, queue_max |-> 3]>>}
=============================================================================
