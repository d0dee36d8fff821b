--------------------------- MODULE MemoryAllocator ---------------------------
(***************************************************************************)
(* The physical memory allocator (memory_allocator.rs) and its callers in  *)
(* main.rs: setup_memory, allocate_pages / free_pages and the global heap. *)
(* Every call is made under MEMORY_ALLOCATOR's Mutex, so a call is one     *)
(* action.                                                                 *)
(*                                                                         *)
(* The two linked lists that run through the entry pool are sequences: the *)
(* chain in address order (previous / next) and one list per page order    *)
(* (list_prev / list_next).  An entry is its range; its pool index and the *)
(* link surgery are left out, the pool's size is not.  Addresses are bytes *)
(* and `end` is inclusive, as in the code, with the page size and RAM      *)
(* scaled down.  An assert or expect that fails stops the CPU with the     *)
(* Mutex locked, and so everyone (panicked).                               *)
(***************************************************************************)
EXTENDS Integers, Sequences, FiniteSets

CONSTANTS
    POOL_SIZE,          \* entries in the pool
    NUM_OF_FREE_LIST,   \* page orders
    PAGE_SIZE,          \* 1 << PAGE_SHIFT
    RamStart, RamSize,  \* the memory node of the device tree
    Reserved,           \* the DTB, the ELF segments and the stack, in order
    Sizes,              \* the sizes that callers ask for
    Aligns,             \* the alignments (1 << align_order) that they ask for
    MaxFreeSize         \* bound: free_size

ASSUME PoolAssumption == POOL_SIZE \in Nat \ {0} /\ NUM_OF_FREE_LIST \in Nat \ {0, 1}
ASSUME SizeAssumption ==
    /\ PAGE_SIZE \in Nat \ {0}
    /\ RamStart \in Nat /\ RamSize \in Nat \ {0, 1}
    /\ Sizes \subseteq Nat \ {0} /\ Aligns \subseteq Nat \ {0}
    /\ MaxFreeSize \in Nat
\* They lie in RAM, where the loader has put them apart from each other.
ASSUME ReservedAssumption ==
    /\ Reserved \in Seq([start : Nat, size : Nat \ {0}])
    /\ \A n \in 1..Len(Reserved) :
        /\ RamStart <= Reserved[n].start
        /\ Reserved[n].start + Reserved[n].size <= RamStart + RamSize
        /\ \A m \in 1..(n - 1) :
            \/ Reserved[m].start + Reserved[m].size <= Reserved[n].start
            \/ Reserved[n].start + Reserved[n].size <= Reserved[m].start

VARIABLES
    free_size,
    chain,      \* the entries from first_entry along `next`
    free_list,  \* free_list[o]: the entries from free_list[o] along list_next
    booted,     \* how many calls of setup_memory are done
    owned,      \* the blocks that callers hold
    lost,       \* the blocks that were given back in vain (not in the code)
    panicked    \* a CPU spins in the panic handler and keeps the Mutex

vars == <<free_size, chain, free_list, booted, owned, lost, panicked>>

Order == 0..(NUM_OF_FREE_LIST - 1)
Block == [start : Nat, end : Nat]

BlockAt(start, size) == [start |-> start, end |-> start + size - 1]
get_size(e) == e.end - e.start + 1
Bytes(e) == e.start..e.end

Minimum(S) == CHOOSE x \in S : \A y \in S : x <= y
Elements(s) == {s[n] : n \in 1..Len(s)}

\* s with the positions from i to j replaced by the sequence t.
Splice(s, i, j, t) == SubSeq(s, 1, i - 1) \o t \o SubSeq(s, j + 1, Len(s))

Init ==
    /\ free_size = 0
    /\ chain = <<>>
    /\ free_list = [o \in Order |-> <<>>]
    /\ booted = 0
    /\ owned = {}
    /\ lost = {}
    /\ panicked = FALSE

-----------------------------------------------------------------------------
(* The lists by page order *)

\* The least order whose pages hold `size` bytes, or the last one.
size_to_page_order(size) ==
    Minimum({o \in Order : size <= PAGE_SIZE * 2^o} \cup {NUM_OF_FREE_LIST - 1})

Without(list, e) ==
    LET n == CHOOSE n \in 1..Len(list) : list[n] = e
    IN  IF e \in Elements(list) THEN Splice(list, n, n, <<>>) ELSE list

unchain_entry_from_free_list(fl, e) ==
    [fl EXCEPT ![size_to_page_order(get_size(e))] = Without(@, e)]

\* Before the first entry that is at least as large.
chain_entry_to_free_list(fl, e) ==
    LET list == fl[size_to_page_order(get_size(e))]
        k == Minimum({n \in 1..Len(list) : get_size(list[n]) >= get_size(e)}
                        \cup {Len(list) + 1})
    IN  [fl EXCEPT ![size_to_page_order(get_size(e))] = Splice(list, k, k - 1, <<e>>)]

\* Mutant: an entry that shrinks stays where it is in the list of its old size.
RechainInPlace(fl, old, new) ==
    LET o == size_to_page_order(get_size(old))
        n == CHOOSE n \in 1..Len(fl[o]) : fl[o][n] = old
    IN  [fl EXCEPT ![o] = Splice(@, n, n, new)]

\* The entry `old` becomes the entries `new` (at most two): its list is left
\* first, then each is chained.
Rechain(fl, old, new) ==
    LET without == unchain_entry_from_free_list(fl, old) IN
    CASE Len(new) = 0 -> without
      [] Len(new) = 1 -> chain_entry_to_free_list(without, new[1])
      [] Len(new) = 2 ->
            chain_entry_to_free_list(chain_entry_to_free_list(without, new[1]), new[2])

-----------------------------------------------------------------------------
(* define_used_memory *)

\* The entry that search_entry_containing_address_mut stops at, 0 if none.
search_entry_containing_address(addr) ==
    LET stop == {n \in 1..Len(chain) : addr <= chain[n].start \/ addr <= chain[n].end}
        k == Minimum(stop)
    IN  IF stop = {} \/ addr < chain[k].start THEN 0 ELSE k

\* Mutant: a split forgets the part above the block.
RemainderBelow(e, b) ==
    IF e.start = b.start THEN <<>> ELSE <<[start |-> e.start, end |-> b.start - 1]>>

\* What is left of the entry e when the range b is taken from it: the part
\* below b and the part above it.
Remainder(e, b) ==
    (IF e.start = b.start THEN <<>> ELSE <<[start |-> e.start, end |-> b.start - 1]>>)
        \o (IF e.end = b.end THEN <<>> ELSE <<[start |-> b.end + 1, end |-> e.end]>>)

\* Whether define_used_memory returns Ok for the range b of the entry k.  The
\* only entry is never deleted, and a split needs an entry of the pool.
CanTake(k, b) ==
    /\ free_size >= get_size(b)
    /\ chain[k] = b => Len(chain) > 1
    /\ chain[k].end = b.start /\ chain[k].start # b.start => get_size(b) = 1
    /\ Len(Remainder(chain[k], b)) = 2 => Len(chain) < POOL_SIZE

\* set_range: assert!(start < end), so an entry never shrinks to one byte.
set_range_asserts(entries) == \A n \in 1..Len(entries) : entries[n].start < entries[n].end

define_used_memory(k, b) ==
    LET rest == Remainder(chain[k], b) IN
    /\ CanTake(k, b) /\ set_range_asserts(rest)
    /\ chain' = Splice(chain, k, k, rest)
    /\ free_list' = Rechain(free_list, chain[k], rest)
    /\ free_size' = free_size - get_size(b)

-----------------------------------------------------------------------------
(* allocate *)

\* align_address_and_available_size: address 0 is taken as it is.
AlignUp(addr, align) ==
    IF addr = 0 THEN 0 ELSE ((addr - 1) \div align) * align + align

Fits(e, size, align) ==
    /\ get_size(e) >= size
    /\ get_size(e) - (AlignUp(e.start, align) - e.start) >= size

\* The places in the lists of these orders that allocate would accept.
Acceptable(orders, size, align) ==
    {p \in UNION {{o} \X (1..Len(free_list[o])) : o \in orders} :
        Fits(free_list[p[1]][p[2]], size, align)}

\* Mutant: only the list of the order of the request is searched.
CandidatesOneOrder(size, align) == Acceptable({size_to_page_order(size)}, size, align)

\* From the order of the request upwards.
Candidates(size, align) ==
    Acceptable(size_to_page_order(size)..(NUM_OF_FREE_LIST - 1), size, align)

\* Order by order, and along each list.
FirstCandidate(size, align) ==
    LET places == Candidates(size, align)
        p == CHOOSE p \in places : \A q \in places : p[1] < q[1] \/ (p[1] = q[1] /\ p[2] <= q[2])
    IN  free_list[p[1]][p[2]]

Found(size, align) == free_size > size /\ Candidates(size, align) # {}

\* The entry that allocate decides on, and the block that it takes from it.
Choice(size, align) ==
    LET e == FirstCandidate(size, align)
    IN  [k |-> CHOOSE k \in 1..Len(chain) : chain[k] = e,
         b |-> BlockAt(AlignUp(e.start, align), size)]

Allocate(size, align) ==
    /\ booted > Len(Reserved) /\ ~panicked
    /\ Found(size, align)
    /\ LET c == Choice(size, align)
       IN  define_used_memory(c.k, c.b) /\ owned' = owned \cup {c.b}
    /\ UNCHANGED <<booted, lost, panicked>>

\* NoMemory, or an error of define_used_memory: the caller gets nothing.
AllocateFails(size, align) ==
    /\ booted > Len(Reserved) /\ ~panicked
    /\ Found(size, align) =>
        LET c == Choice(size, align) IN ~CanTake(c.k, c.b)
    /\ UNCHANGED vars

\* The block would leave an entry of one byte.
AllocatePanics(size, align) ==
    /\ booted > Len(Reserved) /\ ~panicked
    /\ Found(size, align)
    /\ LET c == Choice(size, align)
       IN  CanTake(c.k, c.b) /\ ~set_range_asserts(Remainder(chain[c.k], c.b))
    /\ panicked' = TRUE
    /\ UNCHANGED <<free_size, chain, free_list, booted, owned, lost>>

-----------------------------------------------------------------------------
(* free *)

\* Mutant: the walk goes one entry too far.
PreviousNext(addr) ==
    LET above == {n \in 1..Len(chain) : chain[n].start >= addr}
    IN  IF above # {} THEN Minimum(above) ELSE Len(chain)

\* The entry before addr (search_entry_previous_address_mut), or the first one.
Previous(addr) ==
    LET above == {n \in 1..Len(chain) : chain[n].start >= addr}
        last == Len(chain)
        k == IF above # {} THEN Minimum(above) - 1
             ELSE IF chain[last].end <= addr THEN last ELSE last - 1
    IN  IF k = 0 THEN 1 ELSE k

\* Part of the range b is free already: "already freed" or "duplicated area".
Duplicate(b) ==
    LET k == Previous(b.start)
        e == chain[k]
    IN  \/ e.start <= b.start /\ e.end >= b.end
        \/ e.end >= b.start /\ k # 1
        \/ e.end = b.end
        \/ k < Len(chain) /\ chain[k + 1].start <= b.start

\* Mutant: only the entry below is looked at.
MergeSpanLow(b) ==
    LET k == Previous(b.start) IN
    IF chain[k].end + 1 = b.start THEN <<k, k>>
    ELSE IF b.end < chain[k].start THEN <<k, k - 1>> ELSE <<k + 1, k>>

\* The entries, from the first to the second position, that b is merged with;
\* if none, the first is the position that b takes.
MergeSpan(b) ==
    LET k == Previous(b.start)
        low == chain[k].end + 1 = b.start
        up == k < Len(chain) /\ chain[k + 1].start = b.end + 1
    IN  CASE low /\ up -> <<k, k + 1>>
          [] low /\ ~up -> <<k, k>>
          [] k = 1 /\ chain[1].start = b.end + 1 -> <<1, 1>>
          [] ~low /\ up -> <<k + 1, k + 1>>
          [] OTHER -> IF b.end < chain[k].start THEN <<k, k - 1>> ELSE <<k + 1, k>>

Merged(b, span) ==
    IF span[1] > span[2] THEN b
    ELSE [start |-> IF chain[span[1]].start < b.start THEN chain[span[1]].start ELSE b.start,
          end |-> IF chain[span[2]].end > b.end THEN chain[span[2]].end ELSE b.end]

\* define_free_memory fails for want of an entry.
PoolExhausted(b) ==
    MergeSpan(b)[1] > MergeSpan(b)[2] /\ Len(chain) = POOL_SIZE

\* define_free_memory, and the second `free_size += size` that free adds.
define_free_memory(b) ==
    LET span == MergeSpan(b)
        m == Merged(b, span)
        keep == CASE span[1] > span[2] -> free_list
                  [] span[1] = span[2] -> unchain_entry_from_free_list(free_list, chain[span[1]])
                  [] span[1] < span[2] ->
                        unchain_entry_from_free_list(
                            unchain_entry_from_free_list(free_list, chain[span[1]]), chain[span[2]])
    IN  /\ ~Duplicate(b) /\ ~PoolExhausted(b)
        /\ set_range_asserts(<<m>>)
        /\ chain' = Splice(chain, span[1], span[2], <<m>>)
        /\ free_list' = chain_entry_to_free_list(keep, m)
        /\ free_size' = free_size + 2 * get_size(b)

\* free when free_size is 0: b becomes the first entry, whatever there was.
FreeFirst(b) ==
    /\ Len(chain) < POOL_SIZE
    /\ chain' = <<b>>
    /\ free_list' = chain_entry_to_free_list(free_list, b)
    /\ free_size' = get_size(b)

free(b) == IF free_size = 0 THEN FreeFirst(b) ELSE define_free_memory(b)

\* free_pages and dealloc ignore the error: the block is gone.
FreeFails(b) ==
    /\ free_size # 0 /\ ~Duplicate(b) /\ PoolExhausted(b)
    /\ UNCHANGED <<chain, free_list, free_size>>

\* A block of one byte that touches no free entry would become one.
FreePanics(b) ==
    /\ b \in owned /\ ~panicked
    /\ free_size # 0 /\ ~Duplicate(b) /\ ~PoolExhausted(b)
    /\ ~set_range_asserts(<<Merged(b, MergeSpan(b))>>)
    /\ panicked' = TRUE
    /\ UNCHANGED <<free_size, chain, free_list, booted, owned, lost>>

Free(b) ==
    /\ b \in owned /\ ~panicked
    /\ free_size + 2 * get_size(b) <= MaxFreeSize
    /\ owned' = owned \ {b}
    /\ \/ free(b) /\ UNCHANGED lost
       \/ FreeFails(b) /\ lost' = lost \cup {b}
    /\ UNCHANGED <<booted, panicked>>

-----------------------------------------------------------------------------
(* setup_memory: the RAM is freed, then each reserved range is taken *)

SetupRam ==
    /\ booted = 0 /\ ~panicked
    /\ booted' = 1
    /\ free(BlockAt(RamStart, RamSize))
    /\ UNCHANGED <<owned, lost, panicked>>

reserve_memory ==
    /\ booted \in 1..Len(Reserved) /\ ~panicked
    /\ booted' = booted + 1
    /\ LET r == Reserved[booted]
           k == search_entry_containing_address(r.start)
       IN  k # 0 /\ define_used_memory(k, BlockAt(r.start, r.size))
    /\ UNCHANGED <<owned, lost, panicked>>

\* core::hint::spin_loop() for ever, in the panic handler or in lock().
Spin == panicked /\ UNCHANGED vars

Next ==
    \/ SetupRam \/ reserve_memory
    \/ \E size \in Sizes, align \in Aligns :
          Allocate(size, align) \/ AllocateFails(size, align) \/ AllocatePanics(size, align)
    \/ \E b \in owned : Free(b) \/ FreePanics(b)
    \/ Spin

Spec == Init /\ [][Next]_vars

-----------------------------------------------------------------------------
(* Properties *)

Ram == RamStart..(RamStart + RamSize - 1)
FreeBytes == UNION {Bytes(e) : e \in Elements(chain)}

(***************************************************************************)
(* The chain is in address order and fully coalesced: two entries never    *)
(* overlap or touch, so the largest free block is always one entry.        *)
(***************************************************************************)
ChainCoalesced ==
    /\ \A n \in 1..Len(chain) : chain[n].start < chain[n].end
    /\ \A n \in 1..(Len(chain) - 1) : chain[n].end + 1 < chain[n + 1].start

(***************************************************************************)
(* The lists by order hold every entry of the chain exactly once, in the   *)
(* list of its current size, smaller entries first: what set_range changes *)
(* is always moved by chain_entry_to_free_list.                            *)
(***************************************************************************)
FreeListsExact ==
    /\ \A o \in Order : \A n \in 1..Len(free_list[o]) :
        /\ free_list[o][n] \in Elements(chain)
        /\ size_to_page_order(get_size(free_list[o][n])) = o
        /\ \A m \in 1..(n - 1) :
            /\ free_list[o][m] # free_list[o][n]
            /\ get_size(free_list[o][m]) <= get_size(free_list[o][n])
    /\ \A e \in Elements(chain) :
        e \in Elements(free_list[size_to_page_order(get_size(e))])

(***************************************************************************)
(* A caller that gives back what it was given never runs into the paths    *)
(* for memory that is already free.                                        *)
(***************************************************************************)
OwnedNeverDuplicate == chain # <<>> => \A b \in owned : ~Duplicate(b)

(***************************************************************************)
(* allocate reports no memory only if no entry can hold the request at its *)
(* alignment; the one exception is a request for all that is left.         *)
(***************************************************************************)
AllocateFindsRoom ==
    booted > Len(Reserved) =>
        \A size \in Sizes, align \in Aligns :
            (\E e \in Elements(chain) : Fits(e, size, align))
                => Found(size, align) \/ size = Cardinality(FreeBytes)

(***************************************************************************)
(* The allocator implements PageOwnership: every block it hands out was    *)
(* wholly free, and the blocks that callers hold never overlap each other, *)
(* a reserved range or the free memory.                                    *)
(***************************************************************************)
Ownership == INSTANCE PageOwnership WITH available <- FreeBytes

ImplementsOwnership == Ownership!Spec
=============================================================================
