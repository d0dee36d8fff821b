---------------------------- MODULE Stage2Paging -----------------------------
(***************************************************************************)
(* The stage 2 page tables (paging.rs) of the VMs that create_vm makes one *)
(* after the other.  init_stage2_translation_table takes and clears the    *)
(* root tables, map_address_stage2 maps the VM's RAM; its recursion is a   *)
(* stack of frames, and an action is one iteration of one of its loops.    *)
(* Addresses are counted in pages, so a block of level l has               *)
(* Power[LevelBits * (3 - l)] of them.                                     *)
(***************************************************************************)
EXTENDS Naturals, Sequences

CONSTANTS
    AddressBits,    \* of an IPA, counted in pages: 64 - 12
    LevelBits,      \* 9
    Geometries,     \* <<t0sz, initial lookup level>> for each PARange
    Regions,        \* <<first page, pages>> of a VM's RAM, as the guest sees it
    Pages,          \* the physical pages
    RamBases,       \* where allocate_pages may put a VM's RAM
    MaxVms

\* 1 << n, and 2usize.pow(n).
Power[n \in Nat] == IF n = 0 THEN 1 ELSE 2 * Power[n - 1]

E == Power[LevelBits]
Block(level) == Power[LevelBits * (3 - level)]
InvalidEntry == [bits |-> 0, page |-> 0, permission |-> 0]
ReadWrite == 3

ASSUME GeometryAssumption ==
    /\ AddressBits \in Nat /\ LevelBits \in Nat \ {0}
    /\ Geometries \subseteq (0..AddressBits) \X (0..3)
    /\ Regions \subseteq Nat \X Nat
    /\ \A g \in Geometries, r \in Regions : r[1] + r[2] <= Power[AddressBits - g[1]]
    /\ \A r \in Regions : r[2] > 0

ASSUME PageAssumption == Pages \subseteq Nat /\ RamBases \subseteq Nat

VARIABLES
    geometry,       \* t0sz and the initial lookup level (VTCR_EL2)
    vms,            \* the VMs that are created: [region, ram, root]
    vm,             \* the one being created
    pc,
    free,           \* the physical pages nobody has
    memory,         \* the pages used as tables
    pa, ipa, remaining,
    frames          \* the calls of _map_address_stage2, the innermost last

vars == <<geometry, vms, vm, pc, free, memory, pa, ipa, remaining, frames>>

NoVm == [region |-> <<0, 0>>, ram |-> 0, root |-> 0]
t0sz == geometry[1]
initial_lookup_level == geometry[2]

Init ==
    /\ geometry \in Geometries
    /\ vms = <<>> /\ vm = NoVm
    /\ pc = "idle"
    /\ free = Pages
    /\ memory = [p \in {} |-> 0]
    /\ pa = 0 /\ ipa = 0 /\ remaining = 0
    /\ frames = <<>>

-----------------------------------------------------------------------------
(* Tables *)

\* A single table of the initial level resolves AddressBits - one bits.
number_of_concatenated_page_tables ==
    LET one == AddressBits - LevelBits * (4 - initial_lookup_level)
    IN  IF t0sz > one THEN 1 ELSE Power[one - t0sz]

\* Entry i of the table at page t: concatenated tables are adjacent pages.
Entry(t, i) == memory[t + (i \div E)][i % E]

SetEntry(t, i, d) == memory' = [memory EXCEPT ![t + (i \div E)][i % E] = d]

\* The pages become tables, with every entry cleared.
Cleared(pages) ==
    [p \in DOMAIN memory \cup pages |->
        IF p \in pages THEN [i \in 0..(E - 1) |-> InvalidEntry] ELSE memory[p]]

Run(first, n) == first..(first + n - 1)

\* The lowest n free pages of the alignment.
FreeRuns(n, align) == {p \in free : p % align = 0 /\ Run(p, n) \subseteq free}
LowestRun(n, align) ==
    LET runs == FreeRuns(n, align) IN CHOOSE p \in runs : \A q \in runs : p <= q
HasRun(n, align) == FreeRuns(n, align) # {}

-----------------------------------------------------------------------------
(* create_vm *)

Panic ==
    /\ pc' = "panic"
    /\ UNCHANGED <<geometry, vms, vm, free, memory, pa, ipa, remaining, frames>>

AllocateRam(region, ram) ==
    /\ pc = "idle" /\ Len(vms) < MaxVms
    /\ Run(ram, region[2]) \subseteq free
    /\ free' = free \ Run(ram, region[2])
    /\ vm' = [region |-> region, ram |-> ram, root |-> 0]
    /\ pc' = "init"
    /\ UNCHANGED <<geometry, vms, memory, pa, ipa, remaining, frames>>

\* allocate_pages has no room for the RAM: the expect panics.
AllocateRamFails == pc = "idle" /\ Len(vms) < MaxVms /\ Panic

\* The root tables are aligned to 12 + number_of_tables - 1 bits; without
\* memory for them the unwrap panics.
init_stage2_translation_table ==
    LET n == number_of_concatenated_page_tables
        align == Power[n - 1]
        root == LowestRun(n, align)
    IN
    /\ pc = "init"
    /\ \/ /\ HasRun(n, align)
          /\ free' = free \ Run(root, n)
          /\ memory' = Cleared(Run(root, n))
          /\ vm' = [vm EXCEPT !.root = root]
          /\ pc' = "map"
          /\ UNCHANGED <<geometry, vms, pa, ipa, remaining, frames>>
       \/ Panic

\* The entry of _map_address_stage2.
Frame(table, level, num, a) ==
    [table |-> table, level |-> level, num |-> num, index |-> (a \div Block(level)) % num]

map_address_stage2 ==
    /\ pc = "map"
    /\ pa' = vm.ram /\ ipa' = vm.region[1] /\ remaining' = vm.region[2]
    /\ frames' = <<Frame(vm.root, initial_lookup_level,
                         number_of_concatenated_page_tables * E, vm.region[1])>>
    /\ pc' = "walk"
    /\ UNCHANGED <<geometry, vms, vm, free, memory>>

-----------------------------------------------------------------------------
(* _map_address_stage2 *)

Depth == Len(frames)
Top == frames[Depth]
\* A loop goes on.  The code looks at remaining_size after each entry only, so
\* the guard on it is the code's because no region is empty.
InTable == pc = "walk" /\ Depth > 0 /\ remaining > 0 /\ Top.index < Top.num

Advance(n) ==
    /\ pa' = pa + n /\ ipa' = ipa + n /\ remaining' = remaining - n
    /\ frames' = [frames EXCEPT ![Depth].index = @ + 1]

\* At level 3.
MapPage ==
    /\ InTable /\ Top.level = 3
    /\ SetEntry(Top.table, Top.index, [bits |-> 3, page |-> pa, permission |-> ReadWrite])
    /\ Advance(1)
    /\ UNCHANGED <<geometry, vms, vm, pc, free>>

\* Mutant: only the IPA has to be aligned.
IsBlockUnaligned ==
    /\ Top.level >= 1 /\ remaining >= Block(Top.level) /\ ipa % Block(Top.level) = 0

IsBlock ==
    /\ Top.level >= 1 /\ remaining >= Block(Top.level)
    /\ pa % Block(Top.level) = 0 /\ ipa % Block(Top.level) = 0

MapBlock ==
    /\ InTable /\ Top.level < 3 /\ IsBlock
    /\ SetEntry(Top.table, Top.index, [bits |-> 1, page |-> pa, permission |-> ReadWrite])
    /\ Advance(Block(Top.level))
    /\ UNCHANGED <<geometry, vms, vm, pc, free>>

Descend(table) == frames' = Append(frames, Frame(table, Top.level + 1, E, ipa))

\* The descriptor is a table already, or a new table is allocated for it.
EnterTable ==
    LET d == Entry(Top.table, Top.index)
        table == LowestRun(1, 1)
        linked == [memory EXCEPT ![Top.table + (Top.index \div E)][Top.index % E] =
                       [bits |-> 3, page |-> table, permission |-> 0]]
    IN
    /\ InTable /\ Top.level < 3 /\ ~IsBlock
    /\ IF d.bits = 3
       THEN Descend(d.page) /\ UNCHANGED <<free, memory>>
       ELSE /\ HasRun(1, 1)
            /\ free' = free \ {table}
            /\ memory' = [p \in DOMAIN memory \cup {table} |->
                             IF p = table THEN Cleared({table})[p] ELSE linked[p]]
            /\ Descend(table)
    /\ UNCHANGED <<geometry, vms, vm, pc, pa, ipa, remaining>>

\* "Failed to allocate new translation table": the error goes up to
\* create_vm, whose expect panics.
AllocateTableFails ==
    /\ InTable /\ Top.level < 3 /\ ~IsBlock
    /\ Entry(Top.table, Top.index).bits # 3
    /\ Panic

\* Mutant: the caller's loop ends with the table it descended into.
LeaveTableForGood ==
    /\ pc = "walk" /\ Depth > 0 /\ (remaining = 0 \/ Top.index = Top.num)
    /\ frames' = <<>>
    /\ UNCHANGED <<geometry, vms, vm, pc, free, memory, pa, ipa, remaining>>

\* The end of a table or of the RAM: back to the caller's loop.
LeaveTable ==
    LET up == SubSeq(frames, 1, Depth - 1) IN
    /\ pc = "walk" /\ Depth > 0 /\ (remaining = 0 \/ Top.index = Top.num)
    /\ frames' = IF Depth = 1 THEN up ELSE [up EXCEPT ![Depth - 1].index = @ + 1]
    /\ UNCHANGED <<geometry, vms, vm, pc, free, memory, pa, ipa, remaining>>

\* map_address_stage2 returns Ok, also if something remained, and the VM
\* goes on to boot.
MapDone ==
    /\ pc = "walk" /\ Depth = 0
    /\ pc' = "idle"
    /\ vms' = Append(vms, vm) /\ vm' = NoVm
    /\ pa' = 0 /\ ipa' = 0 /\ remaining' = 0
    /\ UNCHANGED <<geometry, free, memory, frames>>

Walk == MapPage \/ MapBlock \/ EnterTable \/ LeaveTable \/ MapDone

Halted == (pc = "panic" \/ (pc = "idle" /\ Len(vms) = MaxVms)) /\ UNCHANGED vars

Next ==
    \/ \E r \in Regions, p \in RamBases : AllocateRam(r, p)
    \/ AllocateRamFails
    \/ init_stage2_translation_table \/ map_address_stage2
    \/ Walk \/ AllocateTableFails
    \/ Halted

Spec == Init /\ [][Next]_vars

-----------------------------------------------------------------------------
(* What the CPU makes of the tables *)

\* One step of the CPU's walk, at page t and level l for IPA a.
Lookup(t, i, l, a) ==
    IF ~(t + (i \div E) \in DOMAIN memory) THEN [kind |-> "stray"]
    ELSE LET d == Entry(t, i) IN
         CASE d.bits = 3 /\ l < 3 -> [kind |-> "table", page |-> d.page]
           [] d.bits = 3 /\ l = 3 -> [kind |-> "page", page |-> d.page, permission |-> d.permission]
           [] d.bits = 1 /\ l \in 1..2 ->
                  [kind |-> "page", permission |-> d.permission,
                   page |-> d.page - (d.page % Block(l)) + (a % Block(l))]
           [] OTHER -> [kind |-> "fault"]

\* The concatenated tables the CPU reads: as many as the input size asks for,
\* at the base register's address cut to their alignment.
HwTables ==
    LET bits == AddressBits - t0sz
        one == LevelBits * (4 - initial_lookup_level)
    IN  IF bits > one THEN Power[bits - one] ELSE 1

\* The walk goes on at level l where the level above has a table.
Down(x, l, a) ==
    IF l > initial_lookup_level /\ x.kind = "table"
    THEN Lookup(x.page, (a \div Block(l)) % E, l, a) ELSE x

Translate(v, a) ==
    LET root == v.root - (v.root % HwTables)
        l == initial_lookup_level
    IN  Down(Down(Down(Lookup(root, a \div Block(l), l, a), 1, a), 2, a), 3, a)

Ipas == 0..(Power[AddressBits - t0sz] - 1)

-----------------------------------------------------------------------------
(* Properties *)

InRam(v, a) == a \in Run(v.region[1], v.region[2])

(***************************************************************************)
(* The tables of a VM that may run translate every page of its RAM to the  *)
(* page at the same place of the memory allocated for it, for reading and  *)
(* writing, and everything else traps, whatever its size and alignment     *)
(* and whichever VMs are created, or fail to be, after it.                 *)
(***************************************************************************)
MappedExactly ==
    \A n \in 1..Len(vms) : \A a \in Ipas :
        LET v == vms[n] IN
        Translate(v, a) =
            IF InRam(v, a)
            THEN [kind |-> "page", page |-> v.ram + (a - v.region[1]), permission |-> ReadWrite]
            ELSE [kind |-> "fault"]

(***************************************************************************)
(* While a VM's tables are built, and if that ends in a panic halfway,     *)
(* they never lead out of the tables or to a page of the hypervisor, of    *)
(* another VM or of a table.                                               *)
(***************************************************************************)
NoStrayMapping ==
    pc = "walk" => \A a \in Ipas :
        LET x == Translate(vm, a) IN
        /\ x.kind \in {"page", "fault"}
        /\ x.kind = "page" => InRam(vm, a) /\ x.page = vm.ram + (a - vm.region[1])
=============================================================================
