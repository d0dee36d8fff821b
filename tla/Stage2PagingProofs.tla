-------------------------- MODULE Stage2PagingProofs --------------------------
(***************************************************************************)
(* Proofs about Stage2Paging, for every geometry of the stage 2 tables,    *)
(* every region, any memory and an allocator that may fail at any point:   *)
(* the tables that the code builds translate a VM's RAM, page by page and  *)
(* in blocks, to the memory that was allocated for it, and nothing else.   *)
(*                                                                         *)
(* The argument gives every table a place: the VM whose table it is, its   *)
(* level, and the number of the block that it resolves.  Each descriptor   *)
(* of a table with a place tells the truth about its own block (EntryOk),  *)
(* the frames of the recursion stand on a path down from the root, and the *)
(* lowest of them is at the block of the next page to map (Working).       *)
(***************************************************************************)
EXTENDS Stage2Paging, Integers, SequenceTheorems, WellFoundedInduction, TLAPS

-----------------------------------------------------------------------------
(* Numbers *)

(***************************************************************************)
(* A set of numbers that is not empty has a least one.                     *)
(***************************************************************************)
LEMMA LeastExists ==
    ASSUME NEW S \in SUBSET Nat, S # {}
    PROVE  \E n \in S : \A m \in S : n <= m
  <1> DEFINE R == OpToRel(<, Nat)
  <1>1. IsWellFoundedOn(R, Nat)
    BY NatLessThanWellFounded
  <1>2. \A x, y \in Nat : <<y, x>> \in R <=> y < x
    BY DEF OpToRel
  <1> HIDE DEF R
  <1>3. \E x \in S : \A y \in S : ~(<<y, x>> \in R)
    BY <1>1, WFMin, Zenon
  <1>4. \A x, y \in Nat : ~(y < x) => x <= y
    OBVIOUS
  <1> QED BY <1>2, <1>3, <1>4, Zenon

(***************************************************************************)
(* Division with remainder.                                                *)
(***************************************************************************)
LEMMA Divided ==
    ASSUME NEW a \in Nat, NEW b \in Nat \ {0}
    PROVE  /\ a \div b \in Nat /\ a % b \in 0..(b - 1)
           /\ a = (a \div b) * b + (a % b)
  <1>1. a \div b \in Nat /\ a % b \in 0..(b - 1) /\ a = b * (a \div b) + (a % b)
    OBVIOUS
  <1>2. b * (a \div b) = (a \div b) * b
    BY <1>1
  <1> QED BY <1>1, <1>2

(***************************************************************************)
(* Products keep the order of their factors.                               *)
(***************************************************************************)
LEMMA ProductOrder ==
    ASSUME NEW a \in Int, NEW b \in Int, NEW c \in Nat \ {0}
    PROVE  a <= b <=> a * c <= b * c
  <1>1. ASSUME NEW x \in Int, NEW y \in Int, x <= y PROVE x * c <= y * c
    <2>1. PICK t \in Nat : y = x + t
      <3>1. y - x \in Nat /\ y = x + (y - x)
        BY <1>1
      <3> QED BY <3>1
    <2>2. y * c = x * c + t * c /\ t * c \in Nat /\ x * c \in Int
      BY <2>1
    <2> QED BY <2>2
  <1>2. ASSUME ~(a <= b) PROVE ~(a * c <= b * c)
    <2>1. (b + 1) * c <= a * c
      BY <1>1, <1>2
    <2>2. (b + 1) * c = b * c + c /\ b * c \in Int /\ a * c \in Int
      OBVIOUS
    <2> QED BY <2>1, <2>2
  <1> QED BY <1>1, <1>2

(***************************************************************************)
(* The quotient is the largest multiple that fits.                         *)
(***************************************************************************)
LEMMA QuotientOrder ==
    ASSUME NEW a \in Nat, NEW b \in Nat \ {0}, NEW q \in Int
    PROVE  q <= a \div b <=> q * b <= a
  <1>1. PICK n \in Nat : n = a \div b
    BY Divided
  <1>2. PICK r \in 0..(b - 1) : a = n * b + r
    BY <1>1, Divided
  <1>3. n * b \in Nat /\ q * b \in Int /\ (n + 1) * b = n * b + b
    OBVIOUS
  <1>4. ASSUME q <= n PROVE q * b <= a
    <2>1. q * b <= n * b
      BY <1>4, ProductOrder
    <2> QED BY <1>2, <1>3, <2>1
  <1>5. ASSUME q * b <= a PROVE q <= n
    <2>1. ASSUME ~(q <= n) PROVE FALSE
      <3>1. n + 1 <= q
        BY <2>1
      <3>2. (n + 1) * b <= q * b
        BY <3>1, ProductOrder
      <3> QED BY <1>2, <1>3, <1>5, <3>2
    <2> QED BY <2>1
  <1> QED BY <1>1, <1>4, <1>5

(***************************************************************************)
(* The quotient is q exactly for the numbers of block q.                   *)
(***************************************************************************)
LEMMA BlockOf ==
    ASSUME NEW a \in Nat, NEW b \in Nat \ {0}, NEW q \in Nat
    PROVE  a \div b = q <=> q * b <= a /\ a < q * b + b
  <1>1. PICK n \in Nat : n = a \div b
    BY Divided
  <1>2. (q <= n <=> q * b <= a) /\ (q + 1 <= n <=> (q + 1) * b <= a)
    BY <1>1, QuotientOrder
  <1>3. (q + 1) * b = q * b + b /\ q * b \in Nat
    OBVIOUS
  <1>4. n = q <=> q <= n /\ ~(q + 1 <= n)
    OBVIOUS
  <1>5. (q + 1) * b <= a <=> ~(a < q * b + b)
    BY <1>3
  <1> QED BY <1>1, <1>2, <1>4, <1>5

(***************************************************************************)
(* Quotient and remainder of a number put together from them.              *)
(***************************************************************************)
LEMMA Parts ==
    ASSUME NEW q \in Nat, NEW b \in Nat \ {0}, NEW i \in 0..(b - 1)
    PROVE  (q * b + i) \div b = q /\ (q * b + i) % b = i
  <1>1. PICK t \in Nat : t = q * b
    OBVIOUS
  <1>2. PICK a \in Nat : a = t + i
    BY <1>1
  <1>3. a \div b = q
    BY <1>1, <1>2, BlockOf
  <1>4. a = (a \div b) * b + (a % b) /\ a % b \in 0..(b - 1)
    BY Divided
  <1>5. a % b = i
    BY <1>1, <1>2, <1>3, <1>4
  <1> QED BY <1>1, <1>2, <1>3, <1>5

(***************************************************************************)
(* A block of c blocks of b.                                               *)
(***************************************************************************)
LEMMA DivideTwice ==
    ASSUME NEW a \in Nat, NEW b \in Nat \ {0}, NEW c \in Nat \ {0}
    PROVE  (a \div b) \div c = a \div (c * b)
  <1>1. PICK n \in Nat, r \in 0..(b - 1) : n = a \div b /\ a = n * b + r
    BY Divided
  <1>2. PICK q \in Nat, i \in 0..(c - 1) : q = n \div c /\ n = q * c + i
    BY Divided
  <1>3. PICK d \in Nat \ {0} : d = c * b
    <2>1. 1 * b <= c * b
      BY ProductOrder
    <2> QED BY <2>1
  <1>4. n * b = q * d + i * b
    <2>1. (q * c + i) * b = q * (c * b) + i * b
      OBVIOUS
    <2> QED BY <1>2, <1>3, <2>1
  <1>5. i * b + b <= d /\ i * b \in Nat
    <2>1. (i + 1) * b <= c * b
      BY ProductOrder
    <2> QED BY <1>3, <2>1
  <1>6. PICK x \in Nat, y \in Nat : x = q * d /\ y = i * b
    BY <1>5
  <1>7. x <= a /\ a < x + d
    BY <1>1, <1>4, <1>5, <1>6
  <1>8. a \div d = q
    BY <1>6, <1>7, BlockOf
  <1> QED BY <1>1, <1>2, <1>3, <1>8

-----------------------------------------------------------------------------
(* Powers of two *)

(***************************************************************************)
(* Power is what its recursion says: the function it is defined as exists. *)
(***************************************************************************)
LEMMA PowerIs ==
    /\ Power[0] = 1
    /\ \A n \in Nat : Power[n] \in Nat \ {0} /\ Power[n + 1] = 2 * Power[n]
  <1> DEFINE Def(g) == g = [n \in Nat |-> IF n = 0 THEN 1 ELSE 2 * g[n - 1]]
             Upto(h, n) == /\ h \in [0..n -> Nat \ {0}] /\ h[0] = 1
                           /\ \A i \in 1..n : h[i] = 2 * h[i - 1]
  <1>1. Power = CHOOSE g : Def(g)
    BY DEF Power
  <1>2. \A n \in Nat : \E h : Upto(h, n)
    <2> DEFINE Bad == {n \in Nat : ~\E h : Upto(h, n)}
    <2> SUFFICES ASSUME Bad # {} PROVE FALSE
      OBVIOUS
    <2>1. PICK m \in Bad : \A n \in Bad : m <= n
      <3>1. Bad \in SUBSET Nat
        OBVIOUS
      <3> HIDE DEF Bad
      <3> QED BY <3>1, LeastExists
    <2>2. m # 0
      <3>1. Upto([i \in 0..0 |-> 1], 0)
        OBVIOUS
      <3> QED BY <3>1
    <2>3. PICK h : Upto(h, m - 1)
      <3>1. m - 1 \in Nat /\ ~(m <= m - 1)
        BY <2>2
      <3> QED BY <2>1, <3>1
    <2> DEFINE g == [i \in 0..m |-> IF i = m THEN 2 * h[m - 1] ELSE h[i]]
    <2>4. g \in [0..m -> Nat \ {0}] /\ g[0] = 1
      <3>1. \A i \in 0..m : i # m => i \in 0..(m - 1)
        OBVIOUS
      <3>2. m - 1 \in 0..(m - 1) /\ \A i \in 0..(m - 1) : h[i] \in Nat \ {0}
        BY <2>2, <2>3
      <3> QED BY <2>2, <2>3, <3>1, <3>2
    <2>5. ASSUME NEW i \in 1..m PROVE g[i] = 2 * g[i - 1]
      <3>1. CASE i = m
        <4>1. g[i] = 2 * h[m - 1] /\ g[i - 1] = h[m - 1]
          BY <2>2, <3>1
        <4> QED BY <4>1
      <3>2. CASE i # m
        <4>1. i \in 1..(m - 1) /\ i - 1 \in 0..m /\ i - 1 # m
          BY <3>2
        <4>2. g[i] = h[i] /\ g[i - 1] = h[i - 1]
          BY <3>2, <4>1
        <4> QED BY <2>3, <4>1, <4>2
      <3> QED BY <3>1, <3>2
    <2>6. Upto(g, m)
      BY <2>4, <2>5
    <2> QED BY <2>6
  <1>3. ASSUME NEW n \in Nat, NEW h, Upto(h, n), NEW m \in 0..n, NEW g, Upto(g, m)
        PROVE  \A i \in 0..m : h[i] = g[i]
    <2> DEFINE Bad == {i \in 0..m : h[i] # g[i]}
    <2> SUFFICES ASSUME Bad # {} PROVE FALSE
      OBVIOUS
    <2>1. PICK j \in Bad : \A i \in Bad : j <= i
      <3>1. Bad \in SUBSET Nat
        OBVIOUS
      <3> HIDE DEF Bad
      <3> QED BY <3>1, LeastExists
    <2>2. j \in 1..m /\ j \in 1..n /\ j - 1 \in 0..m
      BY <1>3, <2>1
    <2>3. h[j - 1] = g[j - 1]
      BY <2>1, <2>2
    <2>4. h[j] = 2 * h[j - 1] /\ g[j] = 2 * g[j - 1]
      BY <1>3, <2>2
    <2> QED BY <2>1, <2>3, <2>4
  <1> DEFINE w(n) == CHOOSE h : Upto(h, n)
             f == [n \in Nat |-> w(n)[n]]
  <1>4. \A n \in Nat : Upto(w(n), n)
    BY <1>2
  <1> HIDE DEF w
  <1>5. f[0] = 1 /\ \A n \in Nat : f[n] = w(n)[n] /\ f[n] \in Nat \ {0}
    <2>1. \A n \in Nat : f[n] = w(n)[n]
      OBVIOUS
    <2>2. \A n \in Nat : w(n)[0] = 1 /\ w(n)[n] \in Nat \ {0}
      <3>1. \A n \in Nat : n \in 0..n
        OBVIOUS
      <3> QED BY <1>4, <3>1
    <2> QED BY <2>1, <2>2
  <1>6. ASSUME NEW n \in Nat \ {0} PROVE f[n] = 2 * f[n - 1]
    <2>1. n - 1 \in Nat /\ n - 1 \in 0..n /\ n \in 1..n /\ n - 1 \in 0..(n - 1)
      OBVIOUS
    <2>2. w(n)[n - 1] = w(n - 1)[n - 1]
      <3>1. Upto(w(n), n) /\ Upto(w(n - 1), n - 1)
        BY <1>4, <2>1
      <3> HIDE DEF Upto
      <3> QED BY <1>3, <2>1, <3>1
    <2>3. w(n)[n] = 2 * w(n)[n - 1]
      BY <1>4, <2>1
    <2> QED BY <1>5, <2>1, <2>2, <2>3
  <1>7. Def(f)
    <2>1. \A n \in Nat : f[n] = IF n = 0 THEN 1 ELSE 2 * f[n - 1]
      BY <1>5, <1>6
    <2> QED BY <2>1
  <1> HIDE DEF f
  <1>8. Def(Power)
    BY <1>1, <1>7
  <1>9. \A n \in Nat : Power[n] = IF n = 0 THEN 1 ELSE 2 * Power[n - 1]
    BY <1>8
  <1>10. \A n \in Nat : Power[n + 1] = 2 * Power[n]
    <2>1. \A n \in Nat : n + 1 \in Nat /\ n + 1 # 0 /\ (n + 1) - 1 = n
      OBVIOUS
    <2> HIDE DEF Def
    <2> QED BY <1>9, <2>1
  <1>11. \A n \in Nat : Power[n] \in Nat \ {0}
    <2> DEFINE Bad == {n \in Nat : Power[n] \notin Nat \ {0}}
    <2> SUFFICES ASSUME Bad # {} PROVE FALSE
      OBVIOUS
    <2>1. PICK m \in Bad : \A n \in Bad : m <= n
      <3>1. Bad \in SUBSET Nat
        OBVIOUS
      <3> HIDE DEF Bad
      <3> QED BY <3>1, LeastExists
    <2>2. m # 0
      BY <1>9
    <2>3. Power[m - 1] \in Nat \ {0}
      BY <2>1, <2>2
    <2> QED BY <1>9, <2>1, <2>2, <2>3
  <1> QED BY <1>9, <1>10, <1>11

(***************************************************************************)
(* Shifting twice.                                                         *)
(***************************************************************************)
LEMMA PowerSum ==
    ASSUME NEW m \in Nat, NEW n \in Nat
    PROVE  Power[m + n] = Power[m] * Power[n]
  <1> DEFINE Bad == {k \in Nat : Power[m + k] # Power[m] * Power[k]}
  <1> SUFFICES ASSUME Bad # {} PROVE FALSE
    OBVIOUS
  <1>1. PICK k \in Bad : \A j \in Bad : k <= j
    <2>1. Bad \in SUBSET Nat
      OBVIOUS
    <2> HIDE DEF Bad
    <2> QED BY <2>1, LeastExists
  <1>2. k # 0
    BY PowerIs
  <1>3. PICK j \in Nat : k = j + 1 /\ j \notin Bad
    <2>1. k - 1 \in Nat /\ k = (k - 1) + 1 /\ ~(k <= k - 1)
      BY <1>2
    <2> QED BY <1>1, <2>1
  <1>4. Power[m + j] = Power[m] * Power[j]
    BY <1>3
  <1>5. Power[j + 1] = 2 * Power[j] /\ Power[(m + j) + 1] = 2 * Power[m + j]
    BY PowerIs
  <1>6. PICK x \in Nat, y \in Nat : x = Power[m] /\ y = Power[j]
    BY PowerIs
  <1>7. 2 * (x * y) = x * (2 * y)
    OBVIOUS
  <1>8. m + k = (m + j) + 1
    BY <1>3
  <1>9. Power[m + k] = Power[m] * Power[k]
    BY <1>3, <1>4, <1>5, <1>6, <1>7, <1>8
  <1> QED BY <1>1, <1>9

(***************************************************************************)
(* Powers grow, and faster than their exponents.                           *)
(***************************************************************************)
LEMMA PowerGrows ==
    /\ \A m, n \in Nat : m <= n => Power[m] <= Power[n]
    /\ \A n \in Nat : n < Power[n]
  <1>1. ASSUME NEW m \in Nat, NEW n \in Nat, m <= n PROVE Power[m] <= Power[n]
    <2>1. PICK k \in Nat : n = k + m
      <3>1. n - m \in Nat /\ n = (n - m) + m
        BY <1>1
      <3> QED BY <3>1
    <2>2. PICK x \in Nat \ {0}, y \in Nat \ {0} : x = Power[k] /\ y = Power[m]
      BY PowerIs
    <2>3. Power[n] = x * y
      BY <2>1, <2>2, PowerSum
    <2>4. 1 * y <= x * y
      BY ProductOrder
    <2> QED BY <2>2, <2>3, <2>4
  <1>2. \A n \in Nat : n < Power[n]
    <2> DEFINE Bad == {n \in Nat : ~(n < Power[n])}
    <2> SUFFICES ASSUME Bad # {} PROVE FALSE
      OBVIOUS
    <2>1. PICK m \in Bad : \A n \in Bad : m <= n
      <3>1. Bad \in SUBSET Nat
        OBVIOUS
      <3> HIDE DEF Bad
      <3> QED BY <3>1, LeastExists
    <2>2. m # 0
      BY PowerIs
    <2>3. PICK j \in Nat : m = j + 1 /\ j \notin Bad
      <3>1. m - 1 \in Nat /\ m = (m - 1) + 1 /\ ~(m <= m - 1)
        BY <2>2
      <3> QED BY <2>1, <3>1
    <2>4. Power[j] \in Nat /\ j < Power[j] /\ Power[m] = 2 * Power[j]
      BY <2>3, PowerIs
    <2> QED BY <2>1, <2>3, <2>4
  <1> QED BY <1>1, <1>2

-----------------------------------------------------------------------------
(* The invariant *)

\* The level of the root tables and their number.
L0 == initial_lookup_level
NT == number_of_concatenated_page_tables

\* The block of level l that page a is in.
Slot(a, l) == a \div Block(l)

\* The VMs by number; the one being created is the last.
Current == Len(vms) + 1
VmAt(n) == IF n = Current THEN vm ELSE vms[n]

\* The first page of the VM's RAM, and the one after the last that is mapped.
First(n) == VmAt(n).region[1]
Limit(n) == IF n = Current THEN ipa ELSE First(n) + VmAt(n).region[2]

\* Page a of VM n is mapped.
Mapped(n, a) == First(n) <= a /\ a < Limit(n)

\* What a table is for: a VM, a level, and the block of the level above.
Places == [vm : Nat, level : 0..3, num : Nat]

\* Descriptor d for block s of level l, in a table of VM n: it says that no
\* page of the block is mapped, that all are, or that a table of the next
\* level tells.
Unmapped(d, n, l, s) ==
    d = InvalidEntry /\ \A a \in Nat : Slot(a, l) = s => ~Mapped(n, a)

MappedWhole(d, n, l, s) ==
    /\ l >= 1 /\ d.bits = (IF l = 3 THEN 3 ELSE 1)
    /\ d.page \in Nat /\ d.permission = ReadWrite
    /\ d.page % Block(l) = 0
    /\ d.page + First(n) = VmAt(n).ram + s * Block(l)
    /\ \A a \in Nat : Slot(a, l) = s => Mapped(n, a)

InTableBelow(d, n, l, s, place) ==
    /\ l < 3 /\ d.bits = 3
    /\ d.page \in DOMAIN memory
    /\ place[d.page] = [vm |-> n, level |-> l + 1, num |-> s]

EntryOk(d, n, l, s, place) ==
    \/ Unmapped(d, n, l, s)
    \/ MappedWhole(d, n, l, s)
    \/ InTableBelow(d, n, l, s, place)

\* Every descriptor of the table at page p is right about its block.
PageOk(p, place) ==
    \A i \in 0..(E - 1) :
        EntryOk(memory[p][i], place[p].vm, place[p].level, place[p].num * E + i, place)

\* The concatenated root tables of VM n are aligned and resolve blocks 0 to NT - 1.
RootOk(n, place) ==
    LET root == VmAt(n).root IN
    /\ root \in Nat /\ root % NT = 0
    /\ \A j \in 0..(NT - 1) :
           root + j \in DOMAIN memory /\ place[root + j] = [vm |-> n, level |-> L0, num |-> j]

\* The block that frame k is at.
Base(k, place) == IF k = 1 THEN 0 ELSE place[frames[k].table].num
At(k, place) == Base(k, place) * E + frames[k].index

\* Frame k goes through a table of its level, the one that the descriptor of the
\* frame above leads to; a frame that waits for one below is at a table descriptor.
FrameOk(k, place) ==
    LET f == frames[k] IN
    /\ f.level = L0 + (k - 1)
    /\ f.index \in 0..f.num
    /\ k = 1 => f.table = vm.root /\ f.num = NT * E
    /\ k > 1 => /\ f.num = E
                /\ f.table \in DOMAIN memory
                /\ place[f.table] = [vm |-> Current, level |-> f.level, num |-> At(k - 1, place)]
    /\ k < Depth => /\ f.index < f.num
                    /\ Entry(f.table, f.index).bits = 3
                    /\ Entry(f.table, f.index).page = frames[k + 1].table

\* A table of the VM being created was left, or is in use.
Finished(p, place) ==
    LET l == place[p].level IN
    /\ l >= L0
    /\ l = L0 => p = vm.root + place[p].num
    /\ l > L0 => place[p].num < Slot(ipa, l - 1) \/ \E k \in 2..Depth : frames[k].table = p

\* The frames, while pages remain to be mapped.
Working(place) ==
    /\ Depth \in 1..4
    /\ \A k \in 1..Depth : FrameOk(k, place)
    /\ At(Depth, place) = Slot(ipa, Top.level)
    /\ \A p \in DOMAIN memory : place[p].vm = Current => Finished(p, place)

\* With these places the tables and the frames are right.
TreeOk(place) ==
    /\ place \in [DOMAIN memory -> Places]
    /\ \A p \in DOMAIN memory :
           /\ place[p].vm \in 1..Current
           /\ pc \in {"idle", "init"} => place[p].vm # Current
           /\ PageOk(p, place)
    /\ \A n \in 1..Len(vms) : RootOk(n, place)
    /\ pc \in {"map", "walk"} => RootOk(Current, place)
    /\ pc = "map" => \A p \in DOMAIN memory : place[p].vm = Current =>
           place[p].level = L0 /\ p = vm.root + place[p].num
    /\ pc = "walk" /\ remaining > 0 => Working(place)

\* The region of a VM ends in the input address space.
VmOk(v) == v.region \in Nat \X Nat /\ v.ram \in Nat
           /\ v.region[1] + v.region[2] <= Power[AddressBits - t0sz]

\* Types.
VmRecord == [region : Nat \X Nat, ram : Nat, root : Nat]
FrameRecord == [table : Nat, level : 0..3, num : Nat, index : Nat]
Descriptor == [bits : Nat, page : Nat, permission : Nat]
Table == [0..(E - 1) -> Descriptor]

\* What does not need places: types, the arguments of the walk, and the pages
\* that are free and those that are tables.
Progress ==
    /\ pc \in {"idle", "init", "map", "walk", "panic"}
    /\ geometry \in Geometries
    /\ vms \in Seq(VmRecord) /\ vm \in VmRecord
    /\ \A n \in 1..Current : VmOk(VmAt(n))
    /\ pa \in Nat /\ ipa \in Nat /\ remaining \in Nat
    /\ pc \in {"idle", "init", "map"} => ipa = 0 /\ frames = <<>>
    /\ pc = "walk" => /\ vm.region[1] <= ipa
                      /\ pa + vm.region[1] = vm.ram + ipa
                      /\ ipa + remaining = vm.region[1] + vm.region[2]
    /\ frames \in Seq(FrameRecord)
    /\ free \subseteq Nat /\ DOMAIN memory \subseteq Nat
    /\ free \cap DOMAIN memory = {}
    /\ memory \in [DOMAIN memory -> Table]

\* The inductive invariant.
PagingInv == Progress /\ \E place \in [DOMAIN memory -> Places] : TreeOk(place)
-----------------------------------------------------------------------------
(* Levels and blocks *)

(***************************************************************************)
(* A block of a level has E blocks of the level below it.                  *)
(***************************************************************************)
LEMMA Blocks ==
    /\ E \in Nat \ {0}
    /\ \A l \in 0..3 : Block(l) \in Nat \ {0}
    /\ Block(3) = 1
    /\ \A l \in 1..3 : Block(l - 1) = E * Block(l)
  <1>0. LevelBits \in Nat \ {0}
    BY GeometryAssumption
  <1>1. \A l \in 0..3 : LevelBits * (3 - l) \in Nat
    BY <1>0
  <1>2. E \in Nat \ {0} /\ \A l \in 0..3 : Block(l) \in Nat \ {0}
    BY <1>0, <1>1, PowerIs DEF E, Block
  <1>3. Block(3) = 1
    <2>1. LevelBits * (3 - 3) = 0
      BY <1>0
    <2> QED BY <2>1, PowerIs DEF Block
  <1>4. ASSUME NEW l \in 1..3 PROVE Block(l - 1) = E * Block(l)
    <2>1. PICK x \in Nat : x = LevelBits * (3 - l)
      BY <1>1
    <2>2. LevelBits * (3 - (l - 1)) = LevelBits + x
      <3>1. CASE l = 1
        BY <1>0, <2>1, <3>1
      <3>2. CASE l = 2
        BY <1>0, <2>1, <3>2
      <3>3. CASE l = 3
        BY <1>0, <2>1, <3>3
      <3> QED BY <3>1, <3>2, <3>3
    <2>3. Power[LevelBits + x] = Power[LevelBits] * Power[x]
      BY <1>0, PowerSum
    <2> QED BY <2>1, <2>2, <2>3 DEF E, Block
  <1> QED BY <1>2, <1>3, <1>4

(***************************************************************************)
(* The block a page is in is in the block of the level above it.           *)
(***************************************************************************)
LEMMA SlotUp ==
    ASSUME NEW a \in Nat, NEW l \in 1..3
    PROVE  /\ Slot(a, l - 1) \in Nat /\ Slot(a, l) \in Nat
           /\ Slot(a, l) \div E = Slot(a, l - 1)
           /\ Slot(a, l) = Slot(a, l - 1) * E + (Slot(a, l) % E)
           /\ Slot(a, l) % E \in 0..(E - 1)
  <1>1. l - 1 \in 0..3 /\ l \in 0..3
    OBVIOUS
  <1>2. PICK b \in Nat \ {0}, c \in Nat \ {0} : b = Block(l) /\ c = E /\ Block(l - 1) = c * b
    BY <1>1, Blocks
  <1>3. (a \div b) \div c = a \div (c * b)
    BY <1>2, DivideTwice
  <1>4. PICK s \in Nat : s = a \div b
    BY <1>2, Divided
  <1>5. s \div c \in Nat /\ s % c \in 0..(c - 1) /\ s = (s \div c) * c + (s % c)
    BY <1>2, <1>4, Divided
  <1> QED BY <1>2, <1>3, <1>4, <1>5 DEF Slot

(***************************************************************************)
(* The pages of a block.                                                   *)
(***************************************************************************)
LEMMA SlotIs ==
    ASSUME NEW a \in Nat, NEW l \in 0..3
    PROVE  /\ Slot(a, l) \in Nat
           /\ \A s \in Nat : Slot(a, l) = s
                    <=> s * Block(l) <= a /\ a < s * Block(l) + Block(l)
  <1>1. PICK b \in Nat \ {0} : b = Block(l)
    BY Blocks
  <1>2. a \div b \in Nat
    BY <1>1, Divided
  <1>3. \A s \in Nat : a \div b = s <=> s * b <= a /\ a < s * b + b
    BY <1>1, BlockOf
  <1> QED BY <1>1, <1>2, <1>3 DEF Slot

(***************************************************************************)
(* A later page is in the same block or in a later one.                    *)
(***************************************************************************)
LEMMA SlotGrows ==
    ASSUME NEW a \in Nat, NEW b \in Nat, a <= b, NEW l \in 0..3
    PROVE  Slot(a, l) <= Slot(b, l)
  <1>1. PICK c \in Nat \ {0} : c = Block(l)
    BY Blocks
  <1>2. PICK q \in Nat : q = a \div c
    BY <1>1, Divided
  <1>3. q * c <= a /\ q * c \in Nat
    BY <1>1, <1>2, BlockOf
  <1>4. q * c <= b
    BY <1>3
  <1>5. q <= b \div c
    BY <1>1, <1>4, QuotientOrder
  <1> QED BY <1>1, <1>2, <1>5 DEF Slot

(***************************************************************************)
(* The root tables: the hypervisor makes as many as the CPU reads, they    *)
(* resolve every input address, and their alignment, to 12 + number - 1    *)
(* bits, is to a multiple of their size.                                   *)
(***************************************************************************)
LEMMA RootTables ==
    ASSUME geometry \in Geometries
    PROVE  /\ t0sz \in 0..AddressBits /\ L0 \in 0..3 /\ AddressBits \in Nat
           /\ NT \in Nat \ {0} /\ HwTables = NT
           /\ Power[AddressBits - t0sz] <= (NT * E) * Block(L0)
           /\ \A root \in Nat : root % Power[NT - 1] = 0 => root % NT = 0
  <1>1. t0sz \in 0..AddressBits /\ L0 \in 0..3 /\ AddressBits \in Nat /\ LevelBits \in Nat \ {0}
    BY GeometryAssumption DEF t0sz, L0, initial_lookup_level
  <1>2. PICK z \in 0..AddressBits : z = t0sz
    BY <1>1
  <1>3. PICK w \in Nat : w = LevelBits * (4 - L0)
    BY <1>1
  <1>4. E * Block(L0) = Power[w]
    <2>1. LevelBits * (4 - L0) = LevelBits + LevelBits * (3 - L0) /\ LevelBits * (3 - L0) \in Nat
      <3>1. CASE L0 = 0
        BY <1>1, <3>1
      <3>2. CASE L0 = 1
        BY <1>1, <3>2
      <3>3. CASE L0 = 2
        BY <1>1, <3>3
      <3>4. CASE L0 = 3
        BY <1>1, <3>4
      <3> QED BY <1>1, <3>1, <3>2, <3>3, <3>4
    <2>2. PICK x \in Nat : x = LevelBits * (3 - L0)
      BY <2>1
    <2>3. w = LevelBits + x
      BY <1>3, <2>1, <2>2
    <2>4. Power[LevelBits + x] = Power[LevelBits] * Power[x]
      BY <1>1, PowerSum
    <2> QED BY <2>2, <2>3, <2>4 DEF E, Block
  <1>5. NT = IF z > AddressBits - w THEN 1 ELSE Power[(AddressBits - w) - z]
    BY <1>2, <1>3 DEF NT, number_of_concatenated_page_tables, L0
  <1>6. HwTables = IF AddressBits - z > w THEN Power[(AddressBits - z) - w] ELSE 1
    BY <1>2, <1>3 DEF HwTables, L0
  <1>7. PICK j \in Nat : /\ NT = Power[j] /\ HwTables = Power[j]
                         /\ AddressBits - z <= j + w
    <2>1. CASE z > AddressBits - w
      <3>1. NT = Power[0] /\ HwTables = Power[0]
        BY <1>1, <1>5, <1>6, <2>1, PowerIs
      <3> QED BY <1>1, <2>1, <3>1
    <2>2. CASE ~(z > AddressBits - w)
      <3>1. PICK j \in Nat : j = (AddressBits - w) - z
        <4>1. (AddressBits - w) - z \in Nat
          BY <1>1, <2>2
        <4> QED BY <4>1
      <3>2. (AddressBits - z) - w = j
        BY <1>1, <3>1
      <3>3. CASE j = 0
        <4>1. ~(AddressBits - z > w)
          BY <1>1, <3>2, <3>3
        <4>2. NT = Power[0]
          BY <1>5, <2>2, <3>1, <3>3
        <4>3. HwTables = Power[0]
          BY <1>6, <4>1, PowerIs
        <4>4. AddressBits - z <= 0 + w
          BY <1>1, <3>2, <3>3
        <4> QED BY <4>2, <4>3, <4>4
      <3>4. CASE j # 0
        <4>1. AddressBits - z > w /\ AddressBits - z <= j + w
          BY <1>1, <3>2, <3>4
        <4> QED BY <1>5, <1>6, <2>2, <3>1, <3>2, <4>1
      <3> QED BY <3>3, <3>4
    <2> QED BY <2>1, <2>2
  <1>8. NT \in Nat \ {0}
    BY <1>7, PowerIs
  <1>9. Power[AddressBits - t0sz] <= (NT * E) * Block(L0)
    <2>1. AddressBits - z \in Nat /\ j + w \in Nat
      BY <1>1
    <2>2. Power[AddressBits - z] <= Power[j + w]
      BY <1>7, <2>1, PowerGrows
    <2>3. Power[j + w] = Power[j] * Power[w]
      BY PowerSum
    <2>4. PICK n \in Nat, e \in Nat, b \in Nat : n = NT /\ e = E /\ b = Block(L0)
      BY <1>1, <1>8, Blocks
    <2>5. (n * e) * b = n * (e * b)
      OBVIOUS
    <2> QED BY <1>2, <1>4, <1>7, <2>2, <2>3, <2>4, <2>5
  <1>10. ASSUME NEW root \in Nat, root % Power[NT - 1] = 0 PROVE root % NT = 0
    <2>1. PICK n \in Nat \ {0} : n = NT
      BY <1>8
    <2>2. PICK k \in Nat : n - 1 = k + j
      <3>1. j < Power[j]
        BY PowerGrows
      <3>2. n - 1 - j \in Nat /\ n - 1 = (n - 1 - j) + j
        BY <1>7, <2>1, <3>1
      <3> QED BY <3>2
    <2>3. PICK x \in Nat \ {0}, y \in Nat \ {0} : x = Power[k] /\ y = Power[n - 1]
      <3>1. n - 1 \in Nat
        OBVIOUS
      <3> QED BY <3>1, PowerIs
    <2>4. y = x * n
      BY <1>7, <2>1, <2>2, <2>3, PowerSum
    <2>5. PICK q \in Nat : root = q * y
      <3>1. root = (root \div y) * y + (root % y) /\ root \div y \in Nat
        BY Divided
      <3>2. root % y = 0
        BY <1>10, <2>1, <2>3
      <3>3. PICK q \in Nat : q = root \div y
        BY <3>1
      <3>4. q * y \in Nat
        OBVIOUS
      <3> QED BY <3>1, <3>2, <3>3, <3>4
    <2>6. PICK u \in Nat : u = q * x
      OBVIOUS
    <2>7. root = u * n + 0
      <3>1. q * (x * n) = (q * x) * n
        OBVIOUS
      <3>2. u * n \in Nat
        OBVIOUS
      <3> QED BY <2>4, <2>5, <2>6, <3>1, <3>2
    <2>8. (u * n + 0) % n = 0
      BY Parts
    <2> QED BY <2>1, <2>7, <2>8
  <1> QED BY <1>1, <1>7, <1>8, <1>9, <1>10

-----------------------------------------------------------------------------
(* What the CPU finds in tables that satisfy the invariant *)

\* What VM n must get for page a.
Answer(n, a) ==
    IF Mapped(n, a)
    THEN [kind |-> "page", page |-> VmAt(n).ram + (a - First(n)), permission |-> ReadWrite]
    ELSE [kind |-> "fault"]

\* The walk has its answer, or goes on in the table for a's block of level l.
Reached(x, n, l, a, place) ==
    \/ x = Answer(n, a)
    \/ /\ l < 3 /\ x.kind = "table" /\ x.page \in DOMAIN memory
       /\ place[x.page] = [vm |-> n, level |-> l + 1, num |-> Slot(a, l)]

\* The walk reads, in the table at page t, descriptor i for a's block.
Reads(t, i, n, l, a, place) ==
    LET p == t + (i \div E) IN
    /\ p \in DOMAIN memory
    /\ place[p].vm = n /\ place[p].level = l
    /\ i % E \in 0..(E - 1)
    /\ place[p].num * E + (i % E) = Slot(a, l)

(***************************************************************************)
(* One step of the CPU's walk.                                             *)
(***************************************************************************)
LEMMA LookupIs ==
    ASSUME Progress, NEW place, TreeOk(place), NEW n \in 1..Current,
           NEW l \in 0..3, NEW a \in Nat, NEW t, NEW i, Reads(t, i, n, l, a, place)
    PROVE  Reached(Lookup(t, i, l, a), n, l, a, place)
  <1> DEFINE p == t + (i \div E)
             d == memory[p][i % E]
  <1>1. p \in DOMAIN memory /\ Entry(t, i) = d
    BY DEF Reads, Entry
  <1>2. PICK s \in Nat : s = Slot(a, l)
    BY SlotIs
  <1>3. EntryOk(d, n, l, s, place)
    BY <1>2 DEF Reads, TreeOk, PageOk
  <1>4. PICK e : e = d
    OBVIOUS
  <1>5. Lookup(t, i, l, a) =
            CASE e.bits = 3 /\ l < 3 -> [kind |-> "table", page |-> e.page]
              [] e.bits = 3 /\ l = 3 -> [kind |-> "page", page |-> e.page, permission |-> e.permission]
              [] e.bits = 1 /\ l \in 1..2 ->
                     [kind |-> "page", permission |-> e.permission,
                      page |-> e.page - (e.page % Block(l)) + (a % Block(l))]
              [] OTHER -> [kind |-> "fault"]
    BY <1>1, <1>4 DEF Lookup
  <1> HIDE DEF d
  <1>6. CASE Unmapped(e, n, l, s)
    <2>1. e.bits = 0 /\ ~Mapped(n, a)
      BY <1>2, <1>6 DEF Unmapped, InvalidEntry
    <2>2. Lookup(t, i, l, a) = [kind |-> "fault"]
      BY <1>5, <2>1
    <2> QED BY <2>1, <2>2 DEF Reached, Answer
  <1>7. CASE MappedWhole(e, n, l, s)
    <2>1. /\ l \in 1..3 /\ e.bits = (IF l = 3 THEN 3 ELSE 1)
          /\ e.page \in Nat /\ e.permission = ReadWrite /\ e.page % Block(l) = 0
          /\ e.page + First(n) = VmAt(n).ram + s * Block(l)
          /\ Mapped(n, a)
      BY <1>2, <1>7 DEF MappedWhole
    <2>2. PICK b \in Nat \ {0} : b = Block(l)
      BY Blocks
    <2>3. a % b \in Nat /\ a = s * b + (a % b)
      <3>1. s = a \div b
        BY <1>2, <2>2 DEF Slot
      <3>2. a = (a \div b) * b + (a % b) /\ a % b \in 0..(b - 1)
        BY Divided
      <3> QED BY <3>1, <3>2
    <2>4. PICK u \in Nat, r \in Nat, g \in Nat, f \in Nat :
              u = s * b /\ r = a % b /\ g = VmAt(n).ram /\ f = First(n)
      <3>1. s * b \in Nat
        OBVIOUS
      <3>2. VmAt(n).ram \in Nat /\ First(n) \in Nat
        BY DEF Progress, VmOk, First
      <3> QED BY <2>3, <3>1, <3>2
    <2>5. e.page + r = g + (a - f)
      <3>1. a = u + r
        BY <2>3, <2>4
      <3>2. e.page + f = g + u
        BY <2>1, <2>2, <2>4
      <3> QED BY <2>1, <3>1, <3>2
    <2>6. Answer(n, a) = [kind |-> "page", page |-> e.page + r, permission |-> ReadWrite]
      BY <2>1, <2>4, <2>5 DEF Answer
    <2>7. CASE l = 3
      <3>1. a % 1 = 0
        OBVIOUS
      <3>2. r = 0 /\ e.page + r = e.page
        BY <2>1, <2>2, <2>4, <2>7, <3>1, Blocks
      <3>3. Lookup(t, i, l, a) = [kind |-> "page", page |-> e.page, permission |-> ReadWrite]
        BY <1>5, <2>1, <2>7
      <3> QED BY <2>6, <3>2, <3>3 DEF Reached
    <2>8. CASE l # 3
      <3>1. e.bits = 1 /\ l \in 1..2
        BY <2>1, <2>8
      <3>2. Lookup(t, i, l, a) = [kind |-> "page", permission |-> ReadWrite,
                                  page |-> e.page - (e.page % Block(l)) + (a % Block(l))]
        BY <1>5, <2>1, <3>1
      <3>3. e.page - (e.page % Block(l)) + (a % Block(l)) = e.page + r
        BY <2>1, <2>2, <2>4
      <3> QED BY <2>6, <3>2, <3>3 DEF Reached
    <2> QED BY <2>7, <2>8
  <1>8. CASE InTableBelow(e, n, l, s, place)
    <2>1. l < 3 /\ e.bits = 3 /\ e.page \in DOMAIN memory
          /\ place[e.page] = [vm |-> n, level |-> l + 1, num |-> s]
      BY <1>8 DEF InTableBelow
    <2>2. Lookup(t, i, l, a) = [kind |-> "table", page |-> e.page]
      BY <1>5, <2>1
    <2> QED BY <1>2, <2>1, <2>2 DEF Reached
  <1> QED BY <1>3, <1>4, <1>6, <1>7, <1>8 DEF EntryOk

(***************************************************************************)
(* The walk below the level it begins at.                                  *)
(***************************************************************************)
LEMMA DownIs ==
    ASSUME Progress, NEW place, TreeOk(place), NEW n \in 1..Current,
           NEW a \in Nat, NEW l \in 1..3, l > L0, NEW x, Reached(x, n, l - 1, a, place)
    PROVE  Reached(Down(x, l, a), n, l, a, place)
  <1>1. CASE x = Answer(n, a)
    <2>1. x.kind # "table"
      BY <1>1 DEF Answer
    <2> QED BY <1>1, <2>1 DEF Down, Reached
  <1>2. CASE x # Answer(n, a)
    <2>1. /\ x.kind = "table" /\ x.page \in DOMAIN memory
          /\ place[x.page] = [vm |-> n, level |-> (l - 1) + 1, num |-> Slot(a, l - 1)]
      BY <1>2 DEF Reached
    <2>2. PICK t \in Nat : t = x.page
      BY <2>1 DEF Progress
    <2>3. Down(x, l, a) = Lookup(t, Slot(a, l) % E, l, a)
      BY <2>1, <2>2 DEF Down, L0, Slot
    <2>4. PICK i \in 0..(E - 1) : i = Slot(a, l) % E
      BY SlotUp
    <2>5. i \div E = 0 /\ i % E = i
      <3>1. PICK c \in Nat \ {0} : c = E
        BY Blocks
      <3>2. (0 * c + i) \div c = 0 /\ (0 * c + i) % c = i
        BY <3>1, Parts
      <3>3. 0 * c + i = i
        OBVIOUS
      <3> QED BY <3>1, <3>2, <3>3
    <2>6. Slot(a, l) = Slot(a, l - 1) * E + i
      BY <2>4, SlotUp
    <2>7. t + (i \div E) = t /\ (l - 1) + 1 = l
      BY <2>5
    <2>8. Reads(t, i, n, l, a, place)
      BY <2>1, <2>2, <2>5, <2>6, <2>7 DEF Reads
    <2>9. Reached(Lookup(t, i, l, a), n, l, a, place)
      BY <2>8, LookupIs
    <2> QED BY <2>3, <2>4, <2>9
  <1> QED BY <1>1, <1>2

(***************************************************************************)
(* The whole walk finds the page for every mapped page, and a fault for    *)
(* every other one.                                                        *)
(***************************************************************************)
LEMMA TranslateIs ==
    ASSUME Progress, NEW place, TreeOk(place), NEW n \in 1..Current, RootOk(n, place),
           NEW a \in Ipas
    PROVE  Translate(VmAt(n), a) = Answer(n, a)
  <1>1. /\ t0sz \in 0..AddressBits /\ L0 \in 0..3 /\ AddressBits \in Nat
        /\ NT \in Nat \ {0} /\ HwTables = NT
        /\ Power[AddressBits - t0sz] <= (NT * E) * Block(L0)
    BY RootTables DEF Progress
  <1>2. Power[AddressBits - t0sz] \in Nat
    <2>1. AddressBits - t0sz \in Nat
      BY <1>1
    <2> QED BY <2>1, PowerIs
  <1>3. a \in Nat /\ a < (NT * E) * Block(L0)
    <2>1. (NT * E) * Block(L0) \in Nat
      BY <1>1, Blocks
    <2> QED BY <1>1, <1>2, <2>1 DEF Ipas
  <1>4. PICK root \in Nat : root = VmAt(n).root /\ root % NT = 0
    BY DEF RootOk
  <1>5. PICK s \in Nat : s = Slot(a, L0)
    BY <1>1, <1>3, SlotIs
  <1>6. PICK c \in Nat \ {0}, b \in Nat \ {0}, m \in Nat \ {0} : c = E /\ b = Block(L0) /\ m = NT
    BY <1>1, Blocks
  <1>7. PICK j \in Nat, i \in 0..(c - 1) : j = s \div c /\ i = s % c /\ s = j * c + i
    <2>1. s \div c \in Nat /\ s % c \in 0..(c - 1) /\ s = (s \div c) * c + (s % c)
      BY Divided
    <2> QED BY <2>1
  <1>8. j \in 0..(m - 1)
    <2>1. PICK z \in Nat : z = m * c
      BY <1>6
    <2>2. s < z
      <3>1. ~(z <= a \div b)
        <4>1. ~(z * b <= a)
          <5>1. z * b \in Nat
            OBVIOUS
          <5> QED BY <1>3, <1>6, <2>1, <5>1
        <4> QED BY <1>3, <4>1, QuotientOrder
      <3> QED BY <1>5, <1>6, <3>1 DEF Slot
    <2>3. j * c < m * c
      <3>1. j * c \in Nat /\ j * c <= s
        BY <1>7
      <3> QED BY <2>1, <2>2, <3>1
    <2>4. ~(m <= j)
      <3>1. m * c \in Nat /\ j * c \in Nat
        OBVIOUS
      <3>2. m <= j => m * c <= j * c
        BY ProductOrder
      <3> QED BY <2>3, <3>1, <3>2
    <2> QED BY <2>4
  <1>9. root + j \in DOMAIN memory /\ place[root + j] = [vm |-> n, level |-> L0, num |-> j]
    BY <1>4, <1>6, <1>8 DEF RootOk
  <1>10. Reads(root, s, n, L0, a, place)
    <2>1. /\ root + (s \div E) = root + j /\ s % E = i
      BY <1>6, <1>7
    <2>2. place[root + j].vm = n /\ place[root + j].level = L0 /\ place[root + j].num = j
      BY <1>9
    <2>3. j * E + i = Slot(a, L0)
      BY <1>5, <1>6, <1>7
    <2> QED BY <1>6, <1>7, <1>9, <2>1, <2>2, <2>3 DEF Reads
  <1> DEFINE x0 == Lookup(root, s, L0, a)
             x1 == Down(x0, 1, a)
             x2 == Down(x1, 2, a)
             x3 == Down(x2, 3, a)
  <1>11. Translate(VmAt(n), a) = x3
    <2>1. root - (root % NT) = root
      BY <1>4
    <2> QED BY <1>1, <1>4, <1>5, <2>1 DEF Translate, Slot, L0
  <1>12. Reached(x0, n, L0, a, place)
    BY <1>1, <1>3, <1>10, LookupIs
  <1> HIDE DEF x0
  <1>13. \A l, x : ~(l > L0) => Down(x, l, a) = x
    BY DEF Down, L0
  <1>14. ASSUME NEW x, NEW l \in 1..3, l > L0, Reached(x, n, l - 1, a, place)
         PROVE  Reached(Down(x, l, a), n, l, a, place)
    BY <1>3, <1>14, DownIs
  <1>15. \A x : ~Reached(x, n, 3, a, place) \/ x = Answer(n, a)
    BY DEF Reached
  <1>16. Reached(x1, n, IF L0 < 1 THEN 1 ELSE L0, a, place)
    <2>1. CASE L0 < 1
      <3>1. L0 = 1 - 1
        BY <1>1, <2>1
      <3>2. Reached(x1, n, 1, a, place)
        BY <1>12, <1>14, <2>1, <3>1
      <3> QED BY <2>1, <3>2
    <2>2. CASE ~(L0 < 1)
      <3>1. x1 = x0
        BY <1>1, <1>13, <2>2
      <3> QED BY <1>12, <2>2, <3>1
    <2> QED BY <2>1, <2>2
  <1> HIDE DEF x1
  <1>17. Reached(x2, n, IF L0 < 2 THEN 2 ELSE L0, a, place)
    <2>1. CASE L0 < 2
      <3>1. (IF L0 < 1 THEN 1 ELSE L0) = 2 - 1
        BY <1>1, <2>1
      <3>2. Reached(x2, n, 2, a, place)
        BY <1>1, <1>14, <1>16, <2>1, <3>1
      <3> QED BY <2>1, <3>2
    <2>2. CASE ~(L0 < 2)
      <3>1. x2 = x1 /\ ~(L0 < 1)
        BY <1>1, <1>13, <2>2
      <3> QED BY <1>16, <2>2, <3>1
    <2> QED BY <2>1, <2>2
  <1> HIDE DEF x2
  <1>18. Reached(x3, n, 3, a, place)
    <2>1. CASE L0 < 3
      <3>1. (IF L0 < 2 THEN 2 ELSE L0) = 3 - 1
        BY <1>1, <2>1
      <3> QED BY <1>1, <1>14, <1>17, <2>1, <3>1
    <2>2. CASE ~(L0 < 3)
      <3>1. x3 = x2 /\ ~(L0 < 2) /\ L0 = 3
        BY <1>1, <1>13, <2>2
      <3> QED BY <1>17, <3>1
    <2> QED BY <2>1, <2>2
  <1> HIDE DEF x3
  <1> QED BY <1>11, <1>15, <1>18

(***************************************************************************)
(* The tables of the VMs that are created answer as they should, and those *)
(* of the VM being created for what is mapped so far.                      *)
(***************************************************************************)
LEMMA InvMapped ==
    ASSUME PagingInv
    PROVE  MappedExactly /\ NoStrayMapping
  <1>1. PICK place \in [DOMAIN memory -> Places] : TreeOk(place)
    BY DEF PagingInv
  <1>2. Progress
    BY DEF PagingInv
  <1>3. Len(vms) \in Nat
    BY <1>2 DEF Progress
  <1>4. ASSUME NEW n \in 1..Len(vms), NEW a \in Ipas
        PROVE  Translate(vms[n], a) =
                   IF InRam(vms[n], a)
                   THEN [kind |-> "page", page |-> vms[n].ram + (a - vms[n].region[1]),
                         permission |-> ReadWrite]
                   ELSE [kind |-> "fault"]
    <2>1. n \in 1..Current /\ n # Current /\ VmAt(n) = vms[n]
      BY <1>3 DEF Current, VmAt
    <2>2. Translate(vms[n], a) = Answer(n, a)
      BY <1>1, <1>2, <2>1, TranslateIs DEF TreeOk
    <2>3. First(n) = vms[n].region[1] /\ Limit(n) = First(n) + vms[n].region[2]
      BY <2>1 DEF First, Limit
    <2>4. vms[n].region[1] \in Nat /\ vms[n].region[2] \in Nat /\ a \in Int
      <3>1. vms[n] \in VmRecord
        BY <1>2 DEF Progress
      <3> QED BY <3>1 DEF VmRecord, Ipas
    <2>5. Mapped(n, a) <=> InRam(vms[n], a)
      <3>1. PICK f \in Nat, s \in Nat : f = vms[n].region[1] /\ s = vms[n].region[2]
        BY <2>4
      <3>2. Mapped(n, a) <=> f <= a /\ a < f + s
        BY <2>3, <3>1 DEF Mapped
      <3>3. InRam(vms[n], a) <=> a \in f..(f + s - 1)
        BY <3>1 DEF InRam, Run
      <3> QED BY <2>4, <3>2, <3>3
    <2>6. Answer(n, a) = IF Mapped(n, a)
                         THEN [kind |-> "page", page |-> vms[n].ram + (a - vms[n].region[1]),
                               permission |-> ReadWrite]
                         ELSE [kind |-> "fault"]
      BY <2>1, <2>3 DEF Answer
    <2> QED BY <2>2, <2>5, <2>6
  <1>5. ASSUME pc = "walk", NEW a \in Ipas, NEW x, x = Translate(vm, a)
        PROVE  /\ x.kind \in {"page", "fault"}
               /\ x.kind = "page" => InRam(vm, a) /\ x.page = vm.ram + (a - vm.region[1])
    <2>1. Current \in 1..Current /\ VmAt(Current) = vm
      BY <1>3 DEF Current, VmAt
    <2>2. x = Answer(Current, a)
      BY <1>1, <1>2, <1>5, <2>1, TranslateIs DEF TreeOk
    <2>3. First(Current) = vm.region[1] /\ Limit(Current) = ipa
      BY <2>1 DEF First, Limit
    <2>4. vm.region[1] \in Nat /\ vm.region[2] \in Nat /\ a \in Int
          /\ ipa \in Nat /\ remaining \in Nat /\ ipa + remaining = vm.region[1] + vm.region[2]
      BY <1>2, <1>5 DEF Progress, VmRecord, Ipas
    <2>5. Mapped(Current, a) => InRam(vm, a)
      BY <2>3, <2>4 DEF Mapped, InRam, Run
    <2> QED BY <2>1, <2>2, <2>3, <2>5 DEF Answer
  <1> QED BY <1>4, <1>5 DEF MappedExactly, NoStrayMapping

-----------------------------------------------------------------------------
(* Steps that leave a table, or a VM's part of the tree, as it is *)

\* Nothing changes for VM n but, perhaps, its place in the list.
Keeps(n) ==
    /\ First(n)' = First(n) /\ VmAt(n).ram' = VmAt(n).ram
    /\ \A a \in Nat : Mapped(n, a)' <=> Mapped(n, a)

\* q is place, for tables that may have been added.
Extends(q, place) ==
    /\ geometry' = geometry
    /\ DOMAIN memory \subseteq DOMAIN memory'
    /\ \A p \in DOMAIN memory : q[p] = place[p]

(***************************************************************************)
(* A descriptor that is right stays right.                                 *)
(***************************************************************************)
LEMMA EntryKept ==
    ASSUME NEW n, NEW l, NEW s, NEW d, NEW place, NEW q,
           Keeps(n), Extends(q, place), EntryOk(d, n, l, s, place)
    PROVE  EntryOk(d, n, l, s, q)'
  <1>1. CASE Unmapped(d, n, l, s)
    <2>1. Unmapped(d, n, l, s)'
      BY <1>1 DEF Unmapped, Keeps
    <2> QED BY <2>1 DEF EntryOk
  <1>2. CASE MappedWhole(d, n, l, s)
    <2>1. MappedWhole(d, n, l, s)'
      BY <1>2 DEF MappedWhole, Keeps
    <2> QED BY <2>1 DEF EntryOk
  <1>3. CASE InTableBelow(d, n, l, s, place)
    <2>1. InTableBelow(d, n, l, s, q)'
      BY <1>3 DEF InTableBelow, Extends
    <2> QED BY <2>1 DEF EntryOk
  <1> QED BY <1>1, <1>2, <1>3 DEF EntryOk

(***************************************************************************)
(* A table that nothing is written to stays right.                         *)
(***************************************************************************)
LEMMA PageKept ==
    ASSUME NEW place, NEW q, Extends(q, place), NEW p \in DOMAIN memory,
           Keeps(place[p].vm), PageOk(p, place), memory'[p] = memory[p]
    PROVE  PageOk(p, q)'
  <1>1. q[p] = place[p]
    BY DEF Extends
  <1>2. ASSUME NEW i \in 0..(E - 1)
        PROVE  EntryOk(memory[p][i], q[p].vm, q[p].level, q[p].num * E + i, q)'
    <2>1. PICK d : d = memory[p][i]
      OBVIOUS
    <2>2. EntryOk(d, place[p].vm, place[p].level, place[p].num * E + i, place)
      BY <2>1 DEF PageOk
    <2>3. EntryOk(d, q[p].vm, q[p].level, q[p].num * E + i, q)'
      BY <1>1, <2>2, EntryKept
    <2>4. memory'[p][i] = d
      BY <2>1
    <2> QED BY <2>3, <2>4
  <1> QED BY <1>2 DEF PageOk

(***************************************************************************)
(* The root of a VM stays where it is.                                     *)
(***************************************************************************)
LEMMA RootKept ==
    ASSUME NEW place, NEW q, Extends(q, place), NEW n, VmAt(n).root' = VmAt(n).root,
           RootOk(n, place)
    PROVE  RootOk(n, q)'
  BY DEF RootOk, Extends, NT, L0, number_of_concatenated_page_tables, initial_lookup_level, t0sz

-----------------------------------------------------------------------------
(* create_vm *)

(***************************************************************************)
(* With nothing created there is no table.                                 *)
(***************************************************************************)
LEMMA PagingInit ==
    ASSUME Init
    PROVE  PagingInv
  <1>1. vms = <<>> /\ Len(vms) = 0 /\ Current = 1 /\ DOMAIN memory = {}
    BY DEF Init, Current
  <1>2. vm \in VmRecord /\ VmAt(1) = vm
    BY <1>1 DEF Init, NoVm, VmRecord, VmAt
  <1>3. VmOk(vm)
    <2>1. AddressBits - t0sz \in Nat
      BY RootTables DEF Init
    <2>2. Power[AddressBits - t0sz] \in Nat
      BY <2>1, PowerIs
    <2>3. vm.region = <<0, 0>> /\ vm.ram = 0
      BY DEF Init, NoVm
    <2> QED BY <2>2, <2>3 DEF VmOk
  <1>4. \A n \in 1..Current : VmOk(VmAt(n))
    BY <1>1, <1>2, <1>3
  <1>5. memory \in [DOMAIN memory -> Table]
    BY <1>1 DEF Init
  <1>6. Progress
    BY <1>1, <1>2, <1>4, <1>5, PageAssumption DEF Init, Progress
  <1>7. PICK place : place \in [DOMAIN memory -> Places]
    <2>1. [p \in {} |-> 0] \in [DOMAIN memory -> Places]
      BY <1>1
    <2> QED BY <2>1
  <1>8. TreeOk(place)
    BY <1>1, <1>7 DEF Init, TreeOk
  <1> QED BY <1>6, <1>7, <1>8 DEF PagingInv

(***************************************************************************)
(* A panic changes no table, and nothing runs after it.                    *)
(***************************************************************************)
LEMMA PanicStep ==
    ASSUME PagingInv, Panic
    PROVE  PagingInv'
  <1>1. /\ pc' = "panic" /\ geometry' = geometry /\ vms' = vms /\ vm' = vm /\ free' = free
        /\ memory' = memory /\ pa' = pa /\ ipa' = ipa /\ remaining' = remaining
        /\ frames' = frames
    BY DEF Panic
  <1>2. Current' = Current /\ \A n : VmAt(n)' = VmAt(n) /\ First(n)' = First(n)
    BY <1>1 DEF Current, VmAt, First
  <1>3. \A n : Keeps(n)
    BY <1>1, <1>2 DEF Keeps, Mapped, Limit
  <1>4. Progress'
    <2>1. Progress
      BY DEF PagingInv
    <2>2. \A n \in 1..Current' : VmOk(VmAt(n))'
      BY <1>1, <1>2, <2>1 DEF Progress, VmOk, t0sz
    <2> QED BY <1>1, <2>1, <2>2 DEF Progress
  <1>5. PICK place \in [DOMAIN memory -> Places] : TreeOk(place)
    BY DEF PagingInv
  <1>6. Extends(place, place)
    BY <1>1 DEF Extends
  <1>7. TreeOk(place)'
    <2>1. ASSUME NEW p \in DOMAIN memory
          PROVE  place[p].vm \in 1..Current' /\ PageOk(p, place)'
      BY <1>1, <1>2, <1>3, <1>5, <1>6, PageKept DEF TreeOk
    <2>2. ASSUME NEW n \in 1..Len(vms) PROVE RootOk(n, place)'
      BY <1>2, <1>5, <1>6, RootKept DEF TreeOk
    <2> QED BY <1>1, <1>5, <2>1, <2>2 DEF TreeOk
  <1> QED BY <1>1, <1>4, <1>7 DEF PagingInv

(***************************************************************************)
(* Of a VM that has its RAM and no root there is no table yet.             *)
(***************************************************************************)
LEMMA AllocateRamStep ==
    ASSUME PagingInv, NEW r \in Regions, NEW ram \in RamBases, AllocateRam(r, ram)
    PROVE  PagingInv'
  <1>1. /\ pc = "idle" /\ pc' = "init" /\ geometry' = geometry /\ vms' = vms
        /\ vm' = [region |-> r, ram |-> ram, root |-> 0] /\ free' \subseteq free
        /\ memory' = memory /\ pa' = pa /\ ipa' = ipa /\ remaining' = remaining
        /\ frames' = frames
    BY DEF AllocateRam
  <1>2. Progress
    BY DEF PagingInv
  <1>3. Current' = Current /\ \A n : n # Current => VmAt(n)' = VmAt(n) /\ First(n)' = First(n)
    BY <1>1 DEF Current, VmAt, First
  <1>4. \A n : n # Current => Keeps(n)
    BY <1>1, <1>3 DEF Keeps, Mapped, Limit
  <1>5. vm' \in VmRecord /\ VmOk(vm)'
    <2>1. r \in Nat \X Nat /\ ram \in Nat /\ geometry \in Geometries
      BY <1>2, GeometryAssumption, PageAssumption DEF Progress
    <2>2. r[1] + r[2] <= Power[AddressBits - t0sz]
      BY <2>1, GeometryAssumption DEF t0sz
    <2>3. t0sz' = t0sz
      BY <1>1 DEF t0sz
    <2> QED BY <1>1, <2>1, <2>2, <2>3 DEF VmRecord, VmOk
  <1>6. Progress'
    <2>1. ASSUME NEW n \in 1..Current' PROVE VmOk(VmAt(n))'
      <3>1. CASE n = Current
        <4>1. VmAt(n)' = vm'
          BY <1>3, <3>1 DEF VmAt
        <4> QED BY <1>5, <4>1 DEF VmOk
      <3>2. CASE n # Current
        <4>1. VmAt(n)' = VmAt(n) /\ VmOk(VmAt(n)) /\ t0sz' = t0sz
          BY <1>1, <1>2, <1>3, <3>2 DEF Progress, t0sz
        <4> QED BY <4>1 DEF VmOk
      <3> QED BY <3>1, <3>2
    <2> QED BY <1>1, <1>2, <1>5, <2>1 DEF Progress
  <1>7. PICK place \in [DOMAIN memory -> Places] : TreeOk(place)
    BY DEF PagingInv
  <1>8. Extends(place, place)
    BY <1>1 DEF Extends
  <1>9. TreeOk(place)'
    <2>1. ASSUME NEW p \in DOMAIN memory
          PROVE  place[p].vm \in 1..Current' /\ place[p].vm # Current' /\ PageOk(p, place)'
      <3>1. place[p].vm # Current /\ place[p].vm \in 1..Current /\ PageOk(p, place)
        BY <1>1, <1>7 DEF TreeOk
      <3> QED BY <1>1, <1>3, <1>4, <1>8, <3>1, PageKept
    <2>2. ASSUME NEW n \in 1..Len(vms) PROVE RootOk(n, place)'
      <3>1. n # Current
        BY <1>2 DEF Current, Progress
      <3> QED BY <1>3, <1>7, <1>8, <3>1, RootKept DEF TreeOk
    <2> QED BY <1>1, <1>7, <2>1, <2>2 DEF TreeOk
  <1> QED BY <1>1, <1>6, <1>9 DEF PagingInv

(***************************************************************************)
(* Where there is a run of free pages, LowestRun is one.                   *)
(***************************************************************************)
LEMMA LowestRunIs ==
    ASSUME free \subseteq Nat, NEW n, NEW align, HasRun(n, align), NEW p, p = LowestRun(n, align)
    PROVE  p \in free /\ p % align = 0 /\ Run(p, n) \subseteq free
  <1> DEFINE runs == FreeRuns(n, align)
  <1>1. runs \in SUBSET Nat /\ runs # {}
    BY DEF HasRun, FreeRuns
  <1>2. p = CHOOSE m \in runs : \A q \in runs : m <= q
    BY DEF LowestRun
  <1> HIDE DEF runs
  <1>3. \E m \in runs : \A q \in runs : m <= q
    BY <1>1, LeastExists
  <1>4. p \in runs
    BY <1>2, <1>3
  <1> USE DEF runs
  <1> QED BY <1>4 DEF FreeRuns

\* No page of block s of level l - 1 is mapped.
NothingMapped(n, l, s) ==
    \A i \in 0..(E - 1), a \in Nat : Slot(a, l) = s * E + i => ~Mapped(n, a)

(***************************************************************************)
(* A cleared table of a VM of which nothing in its block is mapped.        *)
(***************************************************************************)
LEMMA ClearedOk ==
    ASSUME NEW p, NEW q, NEW n, NEW l, NEW s, q[p] = [vm |-> n, level |-> l, num |-> s],
           memory'[p] = [i \in 0..(E - 1) |-> InvalidEntry],
           NothingMapped(n, l, s)'
    PROVE  PageOk(p, q)'
  <1>1. ASSUME NEW i \in 0..(E - 1)
        PROVE  EntryOk(memory[p][i], q[p].vm, q[p].level, q[p].num * E + i, q)'
    <2>1. memory'[p][i] = InvalidEntry
      OBVIOUS
    <2>2. Unmapped(InvalidEntry, n, l, s * E + i)'
      BY DEF Unmapped, NothingMapped
    <2>3. EntryOk(InvalidEntry, n, l, s * E + i, q)'
      BY <2>2 DEF EntryOk
    <2> QED BY <2>1, <2>3
  <1> QED BY <1>1 DEF PageOk

(***************************************************************************)
(* The new root tables are free pages until then, aligned for the CPU, and *)
(* map nothing.                                                            *)
(***************************************************************************)
LEMMA InitTableStep ==
    ASSUME PagingInv, init_stage2_translation_table
    PROVE  PagingInv'
  <1> DEFINE align == Power[NT - 1]
             root == LowestRun(NT, align)
             new == Run(root, NT)
  <1>0. Progress /\ pc = "init"
    BY DEF PagingInv, init_stage2_translation_table
  <1>1. CASE Panic
    BY <1>1, PanicStep
  <1>2. CASE ~Panic
    <2>0. HasRun(NT, align)
      BY <1>2 DEF init_stage2_translation_table, NT
    <2>1. /\ free' = free \ new /\ memory' = Cleared(new) /\ vm' = [vm EXCEPT !.root = root]
          /\ pc' = "map" /\ geometry' = geometry /\ vms' = vms /\ pa' = pa /\ ipa' = ipa
          /\ remaining' = remaining /\ frames' = frames
      BY <1>2 DEF init_stage2_translation_table, NT
    <2>2. root \in free /\ root % align = 0 /\ new \subseteq free /\ free \subseteq Nat
      BY <1>0, <2>0, LowestRunIs DEF Progress
    <2>3. NT \in Nat \ {0} /\ root \in Nat /\ root % NT = 0
      BY <1>0, <2>2, RootTables DEF Progress
    <2> HIDE DEF align
    <2>4. PICK t \in Nat : t = root
      BY <2>3
    <2>5. \A p : p \in new <=> p \in Int /\ t <= p /\ p < t + NT
      BY <2>3, <2>4 DEF Run
    <2>6. new \subseteq Nat /\ new \cap DOMAIN memory = {}
      BY <1>0, <2>2 DEF Progress
    <2> HIDE DEF root, new
    <2>7. /\ DOMAIN memory' = DOMAIN memory \cup new
          /\ \A p \in DOMAIN memory : memory'[p] = memory[p]
          /\ \A p \in new : memory'[p] = [i \in 0..(E - 1) |-> InvalidEntry]
      BY <2>1, <2>6 DEF Cleared
    <2>8. Current' = Current /\ \A n : First(n)' = First(n) /\ VmAt(n).ram' = VmAt(n).ram
      BY <1>0, <2>1 DEF Current, VmAt, First, Progress, VmRecord
    <2>9. \A n : n # Current => VmAt(n)' = VmAt(n)
      BY <2>1, <2>8 DEF Current, VmAt
    <2>10. \A n : Keeps(n)
      <3>1. \A n : VmAt(n).region' = VmAt(n).region
        BY <1>0, <2>1 DEF Current, VmAt, Progress, VmRecord
      <3> QED BY <2>1, <2>8, <3>1 DEF Keeps, Mapped, Limit
    <2>11. vm' \in VmRecord /\ VmOk(vm)' /\ vm'.root = t
      <3>1. vm \in VmRecord /\ VmOk(vm)
        <4>1. Current \in 1..Current /\ VmAt(Current) = vm
          BY <1>0 DEF Progress, Current, VmAt
        <4> QED BY <1>0, <4>1 DEF Progress
      <3>2. vm' \in VmRecord /\ vm'.region = vm.region /\ vm'.ram = vm.ram /\ vm'.root = t
        BY <2>1, <2>4, <3>1 DEF VmRecord
      <3>3. t0sz' = t0sz
        BY <2>1 DEF t0sz
      <3> QED BY <3>1, <3>2, <3>3 DEF VmOk
    <2>12. Progress'
      <3>1. ASSUME NEW n \in 1..Current' PROVE VmOk(VmAt(n))'
        <4>1. CASE n = Current
          <5>1. VmAt(n)' = vm'
            BY <2>8, <4>1 DEF VmAt
          <5> QED BY <2>11, <5>1 DEF VmOk
        <4>2. CASE n # Current
          <5>1. VmAt(n)' = VmAt(n) /\ VmOk(VmAt(n)) /\ t0sz' = t0sz
            BY <1>0, <2>1, <2>8, <2>9, <4>2 DEF Progress, t0sz
          <5> QED BY <5>1 DEF VmOk
        <4> QED BY <4>1, <4>2
      <3>2. memory' \in [DOMAIN memory' -> Table]
        <4>1. [i \in 0..(E - 1) |-> InvalidEntry] \in Table
          BY DEF InvalidEntry, Table, Descriptor
        <4>2. \A p \in DOMAIN memory' : memory'[p] \in Table
          BY <1>0, <2>7, <4>1 DEF Progress
        <4>3. memory' = [p \in DOMAIN memory \cup new |-> memory'[p]]
          BY <2>1, <2>7 DEF Cleared
        <4> QED BY <2>7, <4>2, <4>3
      <3>3. DOMAIN memory' \subseteq Nat /\ free' \cap DOMAIN memory' = {} /\ free' \subseteq Nat
        BY <1>0, <2>1, <2>2, <2>6, <2>7 DEF Progress
      <3> QED BY <1>0, <2>1, <2>11, <3>1, <3>2, <3>3 DEF Progress
    <2>13. PICK place \in [DOMAIN memory -> Places] : TreeOk(place)
      BY DEF PagingInv
    <2>14. PICK q \in [DOMAIN memory' -> Places] :
                  /\ Extends(q, place)
                  /\ \A p \in new : q[p] = [vm |-> Current, level |-> L0, num |-> p - t]
      <3> DEFINE f == [p \in DOMAIN memory' |->
                          IF p \in new THEN [vm |-> Current, level |-> L0, num |-> p - t]
                          ELSE place[p]]
      <3>1. Current \in Nat /\ L0 \in 0..3 /\ \A p \in new : p - t \in Nat
        BY <1>0, <2>5, RootTables DEF Progress, Current
      <3>2. f \in [DOMAIN memory' -> Places]
        BY <2>7, <2>13, <3>1 DEF Places
      <3>3. /\ \A p \in new : f[p] = [vm |-> Current, level |-> L0, num |-> p - t]
            /\ \A p \in DOMAIN memory : f[p] = place[p]
        BY <2>6, <2>7
      <3> HIDE DEF f
      <3> QED BY <2>1, <2>7, <3>2, <3>3 DEF Extends
    <2>15. ASSUME NEW p \in new
           PROVE  q[p].vm = Current /\ q[p].level = L0' /\ p = t + q[p].num /\ PageOk(p, q)'
      <3>1. q[p] = [vm |-> Current, level |-> L0, num |-> p - t] /\ L0' = L0
        BY <2>1, <2>14 DEF L0, initial_lookup_level
      <3>2. p = t + (p - t)
        BY <2>5
      <3>3. PICK c, l, s : c = Current /\ l = L0 /\ s = p - t
        OBVIOUS
      <3>4. \A a \in Nat : ~Mapped(c, a)'
        <4>1. Limit(c)' = 0
          BY <1>0, <2>1, <2>8, <3>3 DEF Limit, Progress
        <4> QED BY <4>1 DEF Mapped
      <3>5. memory'[p] = [i \in 0..(E - 1) |-> InvalidEntry]
        BY <2>7
      <3>6. q[p] = [vm |-> c, level |-> l, num |-> s]
        BY <3>1, <3>3
      <3>7. NothingMapped(c, l, s)'
        BY <3>4 DEF NothingMapped
      <3>8. PageOk(p, q)'
        BY <3>5, <3>6, <3>7, ClearedOk
      <3> QED BY <3>1, <3>2, <3>8
    <2>16. ASSUME NEW p \in DOMAIN memory
           PROVE  q[p].vm \in 1..Current /\ q[p].vm # Current /\ PageOk(p, q)'
      <3>1. q[p] = place[p]
        BY <2>14 DEF Extends
      <3> QED BY <1>0, <2>7, <2>10, <2>13, <2>14, <3>1, PageKept DEF TreeOk
    <2>17. ASSUME NEW n \in 1..Len(vms) PROVE RootOk(n, q)'
      <3>1. n # Current
        BY <1>0 DEF Current, Progress
      <3> QED BY <2>9, <2>13, <2>14, <3>1, RootKept DEF TreeOk
    <2>18. RootOk(Current, q)'
      <3>1. VmAt(Current)'.root = t /\ NT' = NT /\ L0' = L0
        BY <2>1, <2>8, <2>11 DEF VmAt, NT, L0, number_of_concatenated_page_tables,
                                initial_lookup_level, t0sz
      <3>2. \A j \in 0..(NT - 1) : t + j \in new /\ (t + j) - t = j
        BY <2>3, <2>5
      <3>3. \A j \in 0..(NT - 1) :
                t + j \in DOMAIN memory' /\ q[t + j] = [vm |-> Current, level |-> L0, num |-> j]
        BY <2>7, <2>14, <3>2
      <3> QED BY <2>3, <2>4, <2>8, <3>1, <3>3 DEF RootOk
    <2>19. TreeOk(q)'
      <3>1. Current \in 1..Current
        BY <1>0 DEF Progress, Current
      <3>2. \A p \in DOMAIN memory' : q[p].vm \in 1..Current /\ PageOk(p, q)'
        BY <2>7, <2>15, <2>16, <3>1
      <3>3. \A p \in DOMAIN memory' : q[p].vm = Current => q[p].level = L0' /\ p = vm'.root + q[p].num
        BY <2>7, <2>11, <2>15, <2>16
      <3> QED BY <2>1, <2>8, <2>17, <2>18, <3>2, <3>3 DEF TreeOk
    <2> QED BY <2>12, <2>19 DEF PagingInv
  <1> QED BY <1>1, <1>2

(***************************************************************************)
(* The first frame is at the block of the VM's first page.                 *)
(***************************************************************************)
LEMMA MapAddressStep ==
    ASSUME PagingInv, map_address_stage2
    PROVE  PagingInv'
  <1>0. Progress /\ pc = "map"
    BY DEF PagingInv, map_address_stage2
  <1>1. /\ pc' = "walk" /\ geometry' = geometry /\ vms' = vms /\ vm' = vm /\ free' = free
        /\ memory' = memory /\ pa' = vm.ram /\ ipa' = vm.region[1] /\ remaining' = vm.region[2]
        /\ frames' = <<Frame(vm.root, L0, NT * E, vm.region[1])>>
    BY DEF map_address_stage2, NT, L0
  <1>2. /\ Current' = Current /\ NT' = NT /\ L0' = L0 /\ t0sz' = t0sz
        /\ \A n : VmAt(n)' = VmAt(n) /\ First(n)' = First(n)
    BY <1>1 DEF Current, VmAt, First, NT, L0, number_of_concatenated_page_tables,
                initial_lookup_level, t0sz
  <1>3. /\ vm \in VmRecord /\ vm.region[1] \in Nat /\ vm.region[2] \in Nat /\ vm.ram \in Nat
        /\ VmAt(Current) = vm /\ VmOk(vm) /\ Current \in Nat
    <2>1. Current \in 1..Current /\ VmAt(Current) = vm
      BY <1>0 DEF Progress, Current, VmAt
    <2> QED BY <1>0, <2>1 DEF Progress, VmRecord
  <1>4. \A n : Keeps(n)
    <2>1. ASSUME NEW n PROVE \A a \in Nat : Mapped(n, a)' <=> Mapped(n, a)
      <3>1. CASE n = Current
        <4>1. Limit(n)' = vm.region[1] /\ Limit(n) = 0 /\ First(n)' = vm.region[1]
          BY <1>0, <1>1, <1>2, <1>3, <3>1 DEF Limit, First, Progress
        <4> QED BY <1>3, <4>1 DEF Mapped
      <3>2. CASE n # Current
        <4>1. Limit(n)' = Limit(n)
          BY <1>2, <3>2 DEF Limit
        <4> QED BY <1>2, <4>1 DEF Mapped
      <3> QED BY <3>1, <3>2
    <2> QED BY <1>2, <2>1 DEF Keeps
  <1>5. PICK f : f = Frame(vm.root, L0, NT * E, vm.region[1])
    OBVIOUS
  <1>6. /\ L0 \in 0..3 /\ NT \in Nat \ {0} /\ t0sz \in 0..AddressBits /\ AddressBits \in Nat
        /\ Power[AddressBits - t0sz] <= (NT * E) * Block(L0)
    BY <1>0, RootTables DEF Progress
  <1>7. PICK m \in Nat \ {0}, b \in Nat \ {0} : m = NT * E /\ b = Block(L0)
    <2>1. 1 * E <= NT * E /\ E \in Nat \ {0}
      BY <1>6, Blocks, ProductOrder
    <2>2. NT * E \in Nat /\ 1 * E = E
      BY <1>6, <2>1
    <2>3. NT * E \in Nat \ {0}
      BY <2>1, <2>2
    <2> QED BY <1>6, <2>3, Blocks
  <1>8. PICK s \in Nat : s = vm.region[1] \div b
    BY <1>3, Divided
  <1>9. /\ f = [table |-> vm.root, level |-> L0, num |-> m, index |-> s % m]
        /\ s % m \in 0..(m - 1)
    BY <1>5, <1>7, <1>8, Divided DEF Frame
  <1>10. f \in FrameRecord
    BY <1>3, <1>6, <1>9 DEF FrameRecord, VmRecord
  <1>11. Progress'
    <2>1. ASSUME NEW n \in 1..Current' PROVE VmOk(VmAt(n))'
      BY <1>0, <1>2 DEF Progress, VmOk
    <2>2. frames' \in Seq(FrameRecord)
      BY <1>1, <1>5, <1>10
    <2> QED BY <1>0, <1>1, <1>3, <2>1, <2>2 DEF Progress
  <1>12. PICK place \in [DOMAIN memory -> Places] : TreeOk(place)
    BY DEF PagingInv
  <1>13. Extends(place, place)
    BY <1>1 DEF Extends
  <1>14. ASSUME remaining' > 0 PROVE Working(place)'
    <2>1. Len(frames') = 1 /\ frames'[1] = f /\ Depth' = 1 /\ Top' = f
      BY <1>1, <1>5 DEF Depth, Top
    <2>2. s % m = s
      <3>1. vm.region[1] < m * b
        <4>1. Power[AddressBits - t0sz] \in Nat
          <5>1. AddressBits - t0sz \in Nat
            BY <1>6
          <5> QED BY <5>1, PowerIs
        <4>2. vm.region[1] + vm.region[2] <= Power[AddressBits - t0sz] /\ vm.region[2] > 0
          BY <1>1, <1>3, <1>14 DEF VmOk
        <4>3. m * b \in Nat /\ Power[AddressBits - t0sz] <= m * b
          BY <1>6, <1>7
        <4> QED BY <1>3, <4>1, <4>2, <4>3
      <3>2. s < m
        <4>1. ~(m * b <= vm.region[1])
          <5>1. m * b \in Nat
            OBVIOUS
          <5> QED BY <1>3, <3>1, <5>1
        <4>2. ~(m <= s)
          BY <1>3, <1>8, <4>1, QuotientOrder
        <4> QED BY <4>2
      <3>3. (0 * m + s) % m = s
        BY <3>2, Parts
      <3>4. 0 * m + s = s
        OBVIOUS
      <3> QED BY <3>3, <3>4
    <2>3. FrameOk(1, place)'
      BY <1>1, <1>2, <1>6, <1>7, <1>9, <2>1 DEF FrameOk
    <2>4. At(1, place)' = s /\ Slot(ipa, f.level)' = s
      BY <1>1, <1>7, <1>8, <1>9, <2>1, <2>2, Blocks DEF At, Base, Slot
    <2>5. ASSUME NEW p \in DOMAIN memory, place[p].vm = Current PROVE Finished(p, place)'
      <3>1. place[p].level = L0 /\ p = vm.root + place[p].num
        BY <1>0, <1>12, <2>5 DEF TreeOk
      <3> QED BY <1>1, <1>2, <1>6, <3>1 DEF Finished
    <2>6. \A k \in 1..Depth' : FrameOk(k, place)'
      BY <2>1, <2>3
    <2>7. At(Depth, place)' = Slot(ipa, Top.level)'
      BY <2>1, <2>4
    <2> QED BY <1>1, <1>2, <2>1, <2>5, <2>6, <2>7 DEF Working
  <1>15. TreeOk(place)'
    <2>1. ASSUME NEW p \in DOMAIN memory
          PROVE  place[p].vm \in 1..Current' /\ PageOk(p, place)'
      BY <1>1, <1>2, <1>4, <1>12, <1>13, PageKept DEF TreeOk
    <2>2. ASSUME NEW n, RootOk(n, place) PROVE RootOk(n, place)'
      BY <1>2, <1>13, <2>2, RootKept
    <2>3. PICK c : c = Current
      OBVIOUS
    <2>4. RootOk(c, place)'
      BY <1>0, <1>12, <2>2, <2>3 DEF TreeOk
    <2>5. RootOk(Current, place)'
      BY <1>2, <2>3, <2>4
    <2> QED BY <1>1, <1>12, <1>14, <2>1, <2>2, <2>5 DEF TreeOk
  <1> QED BY <1>1, <1>11, <1>15 DEF PagingInv

(***************************************************************************)
(* map_address_stage2 returns only when nothing remains: the VM joins the  *)
(* others with all of its RAM mapped.                                      *)
(***************************************************************************)
LEMMA MapDoneStep ==
    ASSUME PagingInv, MapDone
    PROVE  PagingInv'
  <1>0. Progress /\ pc = "walk" /\ Depth = 0
    BY DEF PagingInv, MapDone
  <1>1. /\ pc' = "idle" /\ geometry' = geometry /\ vms' = Append(vms, vm) /\ vm' = NoVm
        /\ free' = free /\ memory' = memory /\ pa' = 0 /\ ipa' = 0 /\ remaining' = 0
        /\ frames' = frames /\ frames = <<>>
    BY <1>0 DEF MapDone, Depth, Progress
  <1>2. PICK place \in [DOMAIN memory -> Places] : TreeOk(place)
    BY DEF PagingInv
  <1>3. remaining = 0 /\ ipa \in Nat /\ ipa = vm.region[1] + vm.region[2]
    <2>1. ~(remaining > 0)
      BY <1>0, <1>2 DEF TreeOk, Working
    <2> QED BY <1>0, <2>1 DEF Progress
  <1>4. PICK c \in Nat : c = Current /\ c = Len(vms) + 1
    BY <1>0 DEF Progress, Current
  <1>5. /\ Len(vms') = c /\ Current' = c + 1 /\ VmAt(c) = vm /\ vms'[c] = vm
        /\ \A n \in 1..Len(vms) : vms'[n] = vms[n] /\ VmAt(n) = vms[n]
    BY <1>0, <1>1, <1>4 DEF Progress, Current, VmAt
  <1>6. ASSUME NEW n \in 1..c
        PROVE  VmAt(n)' = VmAt(n) /\ First(n)' = First(n) /\ Keeps(n)
    <2>1. n # Current' /\ VmAt(n)' = vms'[n]
      BY <1>5 DEF VmAt
    <2>2. VmAt(n)' = VmAt(n)
      BY <1>4, <1>5, <2>1
    <2>3. First(n)' = First(n)
      BY <2>2 DEF First
    <2>4. Limit(n)' = Limit(n)
      BY <1>3, <1>4, <1>5, <2>1, <2>2, <2>3 DEF Limit, First
    <2> QED BY <2>2, <2>3, <2>4 DEF Keeps, Mapped
  <1>7. Progress'
    <2>1. vm' \in VmRecord /\ vm'.region = <<0, 0>> /\ vm'.ram = 0 /\ VmAt(c + 1)' = vm'
      BY <1>1, <1>5 DEF NoVm, VmRecord, VmAt
    <2>2. t0sz' = t0sz
      BY <1>1 DEF t0sz
    <2>3. 0 <= Power[AddressBits - t0sz]
      <3>1. AddressBits - t0sz \in Nat
        BY <1>0, RootTables DEF Progress
      <3> QED BY <3>1, PowerIs
    <2>4. ASSUME NEW n \in 1..Current' PROVE VmOk(VmAt(n))'
      <3>1. CASE n \in 1..c
        <4>1. VmOk(VmAt(n)) /\ VmAt(n)' = VmAt(n)
          BY <1>0, <1>4, <1>6, <3>1 DEF Progress
        <4> QED BY <2>2, <4>1 DEF VmOk
      <3>2. CASE n = c + 1
        <4>1. VmAt(n)'.region = <<0, 0>> /\ VmAt(n)'.ram = 0
          BY <2>1, <3>2
        <4>2. 0 + 0 <= Power[AddressBits - t0sz]
          BY <2>3
        <4> QED BY <2>2, <4>1, <4>2 DEF VmOk
      <3> QED BY <1>5, <3>1, <3>2
    <2>5. vms' \in Seq(VmRecord)
      BY <1>0, <1>1 DEF Progress
    <2> QED BY <1>0, <1>1, <2>1, <2>4, <2>5 DEF Progress
  <1>8. Extends(place, place)
    BY <1>1 DEF Extends
  <1>9. TreeOk(place)'
    <2>1. ASSUME NEW p \in DOMAIN memory
          PROVE  place[p].vm \in 1..Current' /\ place[p].vm # Current' /\ PageOk(p, place)'
      <3>1. place[p].vm \in 1..c /\ PageOk(p, place)
        BY <1>2, <1>4 DEF TreeOk
      <3> QED BY <1>1, <1>5, <1>6, <1>8, <3>1, PageKept
    <2>2. ASSUME NEW n \in 1..Len(vms') PROVE RootOk(n, place)'
      <3>1. RootOk(n, place)
        BY <1>0, <1>2, <1>4, <1>5 DEF TreeOk
      <3>2. VmAt(n).root' = VmAt(n).root
        BY <1>5, <1>6
      <3> QED BY <1>8, <3>1, <3>2, RootKept
    <2> QED BY <1>1, <1>2, <2>1, <2>2 DEF TreeOk
  <1> QED BY <1>1, <1>7, <1>9 DEF PagingInv

-----------------------------------------------------------------------------
(* The stack of _map_address_stage2 *)

\* The page and the descriptor that frame k is at.
PageAt(k) == frames[k].table + (frames[k].index \div E)
EntryAt(k) == frames[k].index % E

\* Frame k is at a descriptor of a table of its level.
Points(k, place) ==
    /\ PageAt(k) \in DOMAIN memory
    /\ place[PageAt(k)].vm = Current /\ place[PageAt(k)].level = frames[k].level
    /\ EntryAt(k) \in 0..(E - 1)
    /\ place[PageAt(k)].num * E + EntryAt(k) = At(k, place)

(***************************************************************************)
(* What is known of every frame.                                           *)
(***************************************************************************)
LEMMA FrameIs ==
    ASSUME Progress, NEW place, TreeOk(place), Working(place), NEW k \in 1..Depth
    PROVE  /\ frames[k].level = L0 + (k - 1) /\ frames[k].level \in 0..3 /\ L0 \in 0..3
           /\ frames[k].index \in Nat /\ frames[k].table \in Nat
           /\ frames[k].index <= frames[k].num /\ frames[k].num \in Nat
           /\ Base(k, place) \in Nat /\ At(k, place) \in Nat
           /\ At(k, place) = Base(k, place) * E + frames[k].index
           /\ FrameOk(k, place) /\ Depth \in 1..4
  <1>1. frames[k] \in FrameRecord /\ FrameOk(k, place) /\ Depth \in 1..4
    BY DEF Progress, Depth, Working
  <1>2. L0 \in 0..3
    BY RootTables DEF Progress
  <1>3. Base(k, place) \in Nat
    <2>1. CASE k = 1
      BY <2>1 DEF Base
    <2>2. CASE k # 1
      <3>1. frames[k].table \in DOMAIN memory
        BY <1>1, <2>2 DEF FrameOk
      <3>2. place[frames[k].table] \in Places
        BY <3>1 DEF TreeOk
      <3> QED BY <2>2, <3>2 DEF Base, Places
    <2> QED BY <2>1, <2>2
  <1>4. PICK u \in Nat : u = Base(k, place) * E
    BY <1>3, Blocks
  <1>5. At(k, place) = u + frames[k].index /\ frames[k].index \in Nat
    BY <1>1, <1>4 DEF At, FrameRecord
  <1>6. frames[k].index <= frames[k].num /\ frames[k].num \in Nat
    BY <1>1 DEF FrameOk, FrameRecord
  <1> QED BY <1>1, <1>2, <1>3, <1>4, <1>5, <1>6 DEF FrameOk, FrameRecord

(***************************************************************************)
(* A frame inside its table is at a descriptor of that table.              *)
(***************************************************************************)
LEMMA FrameEntry ==
    ASSUME Progress, NEW place, TreeOk(place), Working(place), RootOk(Current, place),
           NEW k \in 1..Depth, frames[k].index < frames[k].num
    PROVE  Points(k, place)
  <1>1. FrameOk(k, place) /\ frames[k].level = L0 + (k - 1)
    BY FrameIs
  <1>2. PICK i \in Nat, t \in Nat, m \in Nat :
            i = frames[k].index /\ t = frames[k].table /\ m = frames[k].num /\ i < m
    BY FrameIs
  <1>3. PICK c \in Nat \ {0} : c = E
    BY Blocks
  <1>4. CASE k = 1
    <2>1. PICK j \in Nat, r \in 0..(c - 1) : j = i \div c /\ r = i % c /\ i = j * c + r
      <3>1. i \div c \in Nat /\ i % c \in 0..(c - 1) /\ i = (i \div c) * c + (i % c)
        BY Divided
      <3> QED BY <3>1
    <2>2. PICK n \in Nat \ {0} : n = NT
      BY RootTables DEF Progress
    <2>3. t = vm.root /\ m = n * c
      BY <1>1, <1>2, <1>3, <1>4, <2>2 DEF FrameOk
    <2>4. j \in 0..(n - 1)
      <3>1. j * c \in Nat /\ n * c \in Nat /\ (n <= j => n * c <= j * c)
        BY ProductOrder
      <3>2. ~(n <= j)
        BY <1>2, <2>1, <2>3, <3>1
      <3> QED BY <3>2
    <2>5. VmAt(Current) = vm
      BY DEF VmAt
    <2>6. t + j \in DOMAIN memory /\ place[t + j] = [vm |-> Current, level |-> L0, num |-> j]
      BY <2>2, <2>3, <2>4, <2>5 DEF RootOk
    <2>7. PageAt(k) = t + j /\ EntryAt(k) = r
      BY <1>2, <1>3, <2>1 DEF PageAt, EntryAt
    <2>8. At(k, place) = i
      <3>1. 0 * E + i = i
        BY <1>3
      <3> QED BY <1>2, <1>4, <3>1 DEF At, Base
    <2>9. frames[k].level = L0
      BY <1>1, <1>4, FrameIs
    <2>10. j * E + r = At(k, place)
      BY <1>3, <2>1, <2>8
    <2>11. place[t + j].vm = Current /\ place[t + j].level = frames[k].level /\ place[t + j].num = j
      BY <2>6, <2>9
    <2>12. t + j \in DOMAIN memory /\ r \in 0..(E - 1)
      BY <1>3, <2>1, <2>6
    <2> QED BY <2>7, <2>10, <2>11, <2>12 DEF Points
  <1>5. CASE k # 1
    <2>1. /\ m = c /\ t \in DOMAIN memory
          /\ place[t] = [vm |-> Current, level |-> frames[k].level, num |-> At(k - 1, place)]
      BY <1>1, <1>2, <1>3, <1>5 DEF FrameOk
    <2>2. i \in 0..(c - 1)
      BY <1>2, <2>1
    <2>3. (0 * c + i) \div c = 0 /\ (0 * c + i) % c = i
      BY <2>2, Parts
    <2>4. 0 * c + i = i
      OBVIOUS
    <2>5. PageAt(k) = t /\ EntryAt(k) = i
      BY <1>2, <1>3, <2>3, <2>4 DEF PageAt, EntryAt
    <2>6. At(k, place) = place[t].num * E + i
      BY <1>2, <1>5 DEF At, Base
    <2>7. place[t].vm = Current /\ place[t].level = frames[k].level
      BY <2>1
    <2>8. t \in DOMAIN memory /\ i \in 0..(E - 1)
      BY <1>3, <2>1, <2>2
    <2> QED BY <2>5, <2>6, <2>7, <2>8 DEF Points
  <1> QED BY <1>4, <1>5

(***************************************************************************)
(* Inside its table every frame is at the block of the next page to map.   *)
(***************************************************************************)
LEMMA Ancestors ==
    ASSUME Progress, NEW place, TreeOk(place), Working(place), Top.index < Top.num
    PROVE  \A k \in 1..Depth : /\ At(k, place) = Slot(ipa, frames[k].level)
                               /\ frames[k].index < frames[k].num
  <1>1. Depth \in 1..4 /\ At(Depth, place) = Slot(ipa, frames[Depth].level) /\ ipa \in Nat
    BY DEF Working, Top, Progress
  <1>2. \A k \in 1..Depth : frames[k].index < frames[k].num
    <2>1. ASSUME NEW k \in 1..Depth, k < Depth PROVE frames[k].index < frames[k].num
      BY <2>1, FrameIs DEF FrameOk
    <2> QED BY <1>1, <2>1 DEF Top
  <1>3. ASSUME NEW k \in 2..Depth, At(k, place) = Slot(ipa, frames[k].level)
        PROVE  At(k - 1, place) = Slot(ipa, frames[k - 1].level)
    <2>1. k \in 1..Depth /\ k - 1 \in 1..Depth
      BY <1>1
    <2>2. PICK l \in 1..3 : l = frames[k].level /\ frames[k - 1].level = l - 1
      <3>1. frames[k].level = L0 + (k - 1) /\ frames[k].level \in 0..3 /\ L0 \in 0..3
            /\ frames[k - 1].level = L0 + ((k - 1) - 1)
        BY <2>1, FrameIs
      <3> QED BY <3>1
    <2>3. PICK u \in Nat : u = At(k - 1, place)
      BY <2>1, FrameIs
    <2>4. frames[k].num = E /\ Base(k, place) = u
      <3>1. FrameOk(k, place) /\ k > 1
        BY <2>1, FrameIs
      <3>2. /\ frames[k].num = E
            /\ place[frames[k].table] = [vm |-> Current, level |-> frames[k].level,
                                         num |-> At(k - 1, place)]
        BY <3>1 DEF FrameOk
      <3> QED BY <2>3, <3>2 DEF Base
    <2>5. PICK i \in Nat, c \in Nat \ {0} : i = frames[k].index /\ c = E /\ i < c
      BY <1>2, <2>1, <2>4, FrameIs, Blocks
    <2>6. Slot(ipa, l) = u * c + i
      BY <1>3, <2>1, <2>2, <2>4, <2>5, FrameIs
    <2>7. (u * c + i) \div c = u
      <3>1. i \in 0..(c - 1)
        BY <2>5
      <3> QED BY <3>1, Parts
    <2>8. Slot(ipa, l) \div E = Slot(ipa, l - 1)
      BY <1>1, SlotUp
    <2> QED BY <2>2, <2>3, <2>5, <2>6, <2>7, <2>8
  <1> DEFINE ok(k) == At(k, place) = Slot(ipa, frames[k].level)
  <1>4. ok(Depth) /\ \A k \in 2..Depth : ok(k) => ok(k - 1)
    BY <1>1, <1>3
  <1> HIDE DEF ok
  <1>5. PICK n \in 1..4 : n = Depth
    BY <1>1
  <1>6. \A k \in 1..n : ok(k)
    <2>1. n > 1 => ok(n - 1)
      BY <1>4, <1>5
    <2>2. n > 2 => ok(n - 2)
      <3>1. n > 2 => n - 1 \in 2..n /\ (n - 1) - 1 = n - 2
        OBVIOUS
      <3> QED BY <1>4, <1>5, <2>1, <3>1
    <2>3. n > 3 => ok(n - 3)
      <3>1. n > 3 => n - 2 \in 2..n /\ (n - 2) - 1 = n - 3
        OBVIOUS
      <3> QED BY <1>4, <1>5, <2>2, <3>1
    <2>4. \A k \in 1..n : k = n \/ (n > 1 /\ k = n - 1) \/ (n > 2 /\ k = n - 2) \/ (n > 3 /\ k = n - 3)
      OBVIOUS
    <2> QED BY <1>4, <1>5, <2>1, <2>2, <2>3, <2>4
  <1> QED BY <1>2, <1>5, <1>6 DEF ok

(***************************************************************************)
(* Pages in the same block are in the same blocks above it.                *)
(***************************************************************************)
LEMMA SameAbove ==
    ASSUME NEW a \in Nat, NEW b \in Nat, NEW l \in 0..3, Slot(a, l) = Slot(b, l),
           NEW m \in 0..3, m <= l
    PROVE  Slot(a, m) = Slot(b, m)
  <1>1. ASSUME NEW k \in 1..3, Slot(a, k) = Slot(b, k) PROVE Slot(a, k - 1) = Slot(b, k - 1)
    <2>1. Slot(a, k) \div E = Slot(a, k - 1) /\ Slot(b, k) \div E = Slot(b, k - 1)
      BY SlotUp
    <2> QED BY <1>1, <2>1
  <1> DEFINE same(k) == Slot(a, k) = Slot(b, k)
  <1>2. same(l) /\ \A k \in 1..3 : same(k) => same(k - 1)
    BY <1>1
  <1> HIDE DEF same
  <1>3. same(3) => same(2)
    BY <1>2
  <1>4. same(2) => same(1)
    BY <1>2
  <1>5. same(1) => same(0)
    BY <1>2
  <1>6. same(m)
    BY <1>2, <1>3, <1>4, <1>5
  <1> QED BY <1>6 DEF same

(***************************************************************************)
(* A descriptor for a page still to be mapped, in the block that is mapped *)
(* next, is one that a frame is at: the tables for it that exist are in    *)
(* use.                                                                    *)
(***************************************************************************)
LEMMA OnPath ==
    ASSUME Progress, NEW place, TreeOk(place), Working(place), Top.index < Top.num,
           NEW p \in DOMAIN memory, place[p].vm = Current, NEW i \in 0..(E - 1),
           NEW a \in Nat, ipa <= a, Slot(a, Top.level) = Slot(ipa, Top.level),
           Slot(a, place[p].level) = place[p].num * E + i
    PROVE  \E k \in 1..Depth : p = PageAt(k) /\ i = EntryAt(k)
  <1>1. Finished(p, place) /\ Depth \in 1..4 /\ ipa \in Nat
    BY DEF Working, Progress
  <1>2. \A k \in 1..Depth : /\ At(k, place) = Slot(ipa, frames[k].level)
                            /\ frames[k].index < frames[k].num
    BY Ancestors
  <1>3. PICK l \in 0..3, n \in Nat : l = place[p].level /\ n = place[p].num
    <2>1. place[p] \in Places
      BY DEF TreeOk
    <2> QED BY <2>1 DEF Places
  <1>4. PICK c \in Nat \ {0} : c = E
    BY Blocks
  <1>5. L0 \in 0..3 /\ l >= L0
    BY <1>1, <1>3, RootTables DEF Finished, Progress
  <1>6. (n * c + i) \div c = n /\ (n * c + i) % c = i
    BY <1>4, Parts
  <1>7. Slot(a, l) = n * c + i
    BY <1>3, <1>4
  <1>8. \A k \in 1..Depth : frames[k].level <= Top.level /\ frames[k].level \in 0..3 /\ Top.level \in 0..3
    <2>1. ASSUME NEW k \in 1..Depth
          PROVE  frames[k].level <= Top.level /\ frames[k].level \in 0..3 /\ Top.level \in 0..3
      <3>1. frames[k].level = L0 + (k - 1) /\ frames[k].level \in 0..3
        BY FrameIs
      <3>2. Depth \in 1..Depth
        BY <1>1
      <3>3. Top.level = L0 + (Depth - 1) /\ Top.level \in 0..3
        BY <3>2, FrameIs DEF Top
      <3> QED BY <1>1, <1>5, <3>1, <3>3
    <2> QED BY <2>1
  <1>9. CASE l = L0
    <2>1. 1 \in 1..Depth /\ frames[1].level = L0 /\ frames[1].table = vm.root
      <3>1. 1 \in 1..Depth
        BY <1>1
      <3>2. frames[1].level = L0 + (1 - 1) /\ FrameOk(1, place)
        BY <3>1, FrameIs
      <3> QED BY <1>5, <3>1, <3>2 DEF FrameOk
    <2>2. Slot(a, L0) = Slot(ipa, L0)
      BY <1>1, <1>5, <1>8, <2>1, SameAbove
    <2>3. frames[1].index = n * c + i
      <3>1. At(1, place) = Slot(ipa, L0)
        BY <1>2, <2>1
      <3>2. At(1, place) = 0 * E + frames[1].index /\ frames[1].index \in Nat
        BY <2>1, FrameIs DEF At, Base
      <3>3. 0 * E = 0
        BY Blocks
      <3> QED BY <1>7, <1>9, <2>2, <3>1, <3>2, <3>3
    <2>4. p = vm.root + n
      BY <1>1, <1>3, <1>9 DEF Finished
    <2>5. p = PageAt(1) /\ i = EntryAt(1)
      BY <1>4, <1>6, <2>1, <2>3, <2>4 DEF PageAt, EntryAt
    <2> QED BY <2>1, <2>5
  <1>10. CASE l # L0
    <2>1. l \in 1..3
      BY <1>5, <1>10
    <2>2. Slot(a, l - 1) = n
      <3>1. Slot(a, l) \div E = Slot(a, l - 1)
        BY <2>1, SlotUp
      <3> QED BY <1>4, <1>6, <1>7, <3>1
    <2>3. ~(n < Slot(ipa, l - 1))
      <3>1. Slot(ipa, l - 1) <= Slot(a, l - 1) /\ Slot(ipa, l - 1) \in Nat
        <4>1. l - 1 \in 0..3
          BY <2>1
        <4> QED BY <1>1, <4>1, SlotGrows, SlotIs
      <3> QED BY <2>2, <3>1
    <2>4. PICK k \in 2..Depth : frames[k].table = p
      BY <1>1, <1>3, <1>5, <1>10, <2>3 DEF Finished
    <2>5. k \in 1..Depth
      OBVIOUS
    <2>6. frames[k].level = l /\ frames[k].num = c /\ Base(k, place) = n
      <3>1. FrameOk(k, place)
        BY <2>5, FrameIs
      <3> QED BY <1>3, <1>4, <2>4, <3>1 DEF FrameOk, Base
    <2>7. Slot(a, l) = Slot(ipa, l)
      BY <1>1, <1>8, <2>5, <2>6, SameAbove
    <2>8. PICK j \in Nat : j = frames[k].index /\ j < c
      BY <1>2, <2>5, <2>6, FrameIs
    <2>9. n * c + j = n * c + i
      <3>1. At(k, place) = n * c + j
        BY <1>4, <2>5, <2>6, <2>8, FrameIs
      <3> QED BY <1>2, <1>7, <2>5, <2>6, <2>7, <3>1
    <2>10. j = i
      BY <1>4, <2>9
    <2>11. (0 * c + i) \div c = 0 /\ (0 * c + i) % c = i
      BY <1>4, Parts
    <2>12. 0 * c + i = i /\ p \in Nat
      BY <1>4 DEF Progress
    <2>13. p = PageAt(k) /\ i = EntryAt(k)
      BY <1>4, <2>4, <2>8, <2>10, <2>11, <2>12 DEF PageAt, EntryAt
    <2> QED BY <2>5, <2>13
  <1> QED BY <1>9, <1>10

-----------------------------------------------------------------------------
(* _map_address_stage2 *)

\* Memory M with descriptor i of the table at t overwritten.
Put(M, t, i, d) == [M EXCEPT ![t][i] = d]

\* W is M, with tables in S, but for that descriptor.
Overwritten(W, M, S, t, i, d) ==
    /\ W \in [S -> Table] /\ DOMAIN W = S
    /\ \A p \in S : p # t => W[p] = M[p]
    /\ \A j \in 0..(E - 1) : W[t][j] = IF j = i THEN d ELSE M[t][j]

(***************************************************************************)
(* Writing one descriptor.                                                 *)
(***************************************************************************)
LEMMA Written ==
    ASSUME NEW M, NEW S, M \in [S -> Table], NEW t \in S, NEW i \in 0..(E - 1), NEW d \in Descriptor,
           NEW W, W = Put(M, t, i, d)
    PROVE  Overwritten(W, M, S, t, i, d)
  <1>1. M[t] \in [0..(E - 1) -> Descriptor]
    BY DEF Table
  <1>2. W = [M EXCEPT ![t] = [M[t] EXCEPT ![i] = d]]
    BY DEF Put
  <1>3. PICK x : x = [M[t] EXCEPT ![i] = d]
    OBVIOUS
  <1>4. x \in Table /\ \A j \in 0..(E - 1) : x[j] = IF j = i THEN d ELSE M[t][j]
    BY <1>1, <1>3 DEF Table
  <1>5. W = [M EXCEPT ![t] = x]
    BY <1>2, <1>3
  <1>6. W \in [S -> Table] /\ DOMAIN W = S /\ W[t] = x /\ \A p \in S : p # t => W[p] = M[p]
    BY <1>4, <1>5
  <1> QED BY <1>4, <1>6 DEF Overwritten

(***************************************************************************)
(* A frame at the next descriptor.                                         *)
(***************************************************************************)
LEMMA NextIndex ==
    ASSUME NEW f \in FrameRecord, NEW g, g = [f EXCEPT !.index = @ + 1]
    PROVE  /\ g \in FrameRecord /\ g.table = f.table /\ g.level = f.level /\ g.num = f.num
           /\ g.index = f.index + 1 /\ f.index \in Nat /\ f.num \in Nat
  BY DEF FrameRecord

(***************************************************************************)
(* In the loop of the innermost call.                                      *)
(***************************************************************************)
LEMMA InLoop ==
    ASSUME PagingInv, InTable, NEW place, TreeOk(place)
    PROVE  /\ Progress /\ Working(place) /\ RootOk(Current, place)
           /\ Depth \in 1..4 /\ Depth \in 1..Depth /\ Top = frames[Depth]
           /\ Points(Depth, place) /\ At(Depth, place) = Slot(ipa, Top.level)
           /\ Top.level \in 0..3 /\ Current \in Nat \ {0} /\ VmAt(Current) = vm
           /\ pc = "walk" /\ remaining \in Nat \ {0} /\ ipa \in Nat /\ pa \in Nat
           /\ vm.region[1] \in Nat /\ vm.region[2] \in Nat /\ vm.ram \in Nat /\ vm.root \in Nat
  <1>1. Progress /\ Working(place) /\ RootOk(Current, place) /\ pc = "walk" /\ remaining > 0
    BY DEF PagingInv, InTable, TreeOk
  <1>2. Depth \in 1..4 /\ Depth \in 1..Depth /\ Top = frames[Depth]
    BY <1>1 DEF Working, Top
  <1>3. frames[Depth].index < frames[Depth].num
    BY <1>2 DEF InTable
  <1>4. Points(Depth, place) /\ frames[Depth].level \in 0..3
    BY <1>1, <1>2, <1>3, FrameEntry, FrameIs
  <1>5. At(Depth, place) = Slot(ipa, Top.level)
    BY <1>1 DEF Working
  <1>6. Current \in Nat \ {0} /\ VmAt(Current) = vm
    BY <1>1 DEF Progress, Current, VmAt
  <1>7. remaining \in Nat \ {0} /\ ipa \in Nat /\ pa \in Nat /\ vm \in VmRecord
    BY <1>1 DEF Progress
  <1> QED BY <1>1, <1>2, <1>4, <1>5, <1>6, <1>7 DEF VmRecord

(***************************************************************************)
(* A page or a block is mapped.  A descriptor that says "not mapped" for   *)
(* some of the pages that now are would be at one of the frames (OnPath):  *)
(* at the innermost one, where it has been written, for the others are at  *)
(* table descriptors.                                                      *)
(***************************************************************************)
LEMMA AdvanceStep ==
    ASSUME PagingInv, InTable, NEW l \in 1..3, l = Top.level, NEW b, b = Block(l),
           NEW d, d = [bits |-> IF l = 3 THEN 3 ELSE 1, page |-> pa, permission |-> ReadWrite],
           SetEntry(Top.table, Top.index, d), Advance(b),
           ipa % b = 0, pa % b = 0, remaining >= b,
           geometry' = geometry, vms' = vms, vm' = vm, pc' = pc, free' = free
    PROVE  PagingInv'
  <1>1. PICK place \in [DOMAIN memory -> Places] : TreeOk(place)
    BY DEF PagingInv
  <1>2. /\ Progress /\ Working(place) /\ RootOk(Current, place)
        /\ Depth \in 1..4 /\ Depth \in 1..Depth /\ Top = frames[Depth]
        /\ Points(Depth, place) /\ At(Depth, place) = Slot(ipa, Top.level)
        /\ Current \in Nat \ {0} /\ VmAt(Current) = vm
        /\ pc = "walk" /\ remaining \in Nat \ {0} /\ ipa \in Nat /\ pa \in Nat
        /\ vm.region[1] \in Nat /\ vm.region[2] \in Nat /\ vm.ram \in Nat
    BY <1>1, InLoop
  <1>3. b \in Nat \ {0}
    BY Blocks
  <1>a. PICK c, t, i : c = Current /\ t = PageAt(Depth) /\ i = EntryAt(Depth)
    OBVIOUS
  <1>b. PICK s \in Nat, k \in 1..4 : s = Slot(ipa, l) /\ k = Depth
    <2>1. l \in 0..3
      OBVIOUS
    <2>2. Slot(ipa, l) \in Nat
      BY <1>2, <2>1, SlotIs
    <2> QED BY <1>2, <2>2
  <1>4. c = Current /\ t = PageAt(Depth) /\ i = EntryAt(Depth) /\ s = Slot(ipa, l) /\ k = Depth
    BY <1>a, <1>b
  <1>5. /\ t \in DOMAIN memory /\ i \in 0..(E - 1) /\ place[t].vm = c /\ place[t].level = l
        /\ place[t].num * E + i = s
    BY <1>2, <1>4 DEF Points
  <1>6. ipa = s * b /\ s * b \in Nat
    <2>1. s = ipa \div b
      BY <1>4 DEF Slot
    <2>2. PICK y \in Nat \ {0}, z \in Nat : y = b /\ z = ipa
      BY <1>2, <1>3
    <2>3. z = (z \div y) * y + (z % y) /\ s * y \in Nat
      BY Divided
    <2>4. z % y = 0 /\ z \div y = s
      BY <2>1, <2>2
    <2> QED BY <2>2, <2>3, <2>4
  <1>7. /\ pa' = pa + b /\ ipa' = ipa + b /\ remaining' = remaining - b
        /\ frames' = [frames EXCEPT ![k].index = @ + 1]
    BY <1>4 DEF Advance
  <1>8. /\ memory' \in [DOMAIN memory -> Table] /\ DOMAIN memory' = DOMAIN memory
        /\ \A p \in DOMAIN memory : p # t => memory'[p] = memory[p]
        /\ \A j \in 0..(E - 1) : memory'[t][j] = IF j = i THEN d ELSE memory[t][j]
    <2>1. memory' = [memory EXCEPT ![t][i] = d]
      BY <1>2, <1>4 DEF SetEntry, PageAt, EntryAt
    <2>2. d \in Descriptor
      BY <1>2 DEF Descriptor, ReadWrite
    <2>3. memory \in [DOMAIN memory -> Table]
      BY <1>2 DEF Progress
    <2>4. PICK M, S, W : M = memory /\ S = DOMAIN memory /\ W = memory'
      OBVIOUS
    <2>5. M \in [S -> Table] /\ t \in S /\ W = Put(M, t, i, d)
      BY <1>5, <2>1, <2>3, <2>4 DEF Put
    <2>a. i \in 0..(E - 1)
      BY <1>5
    <2>6. Overwritten(W, M, S, t, i, d)
      BY <2>a, <2>2, <2>5, Written, Zenon
    <2> QED BY <2>4, <2>6 DEF Overwritten
  <1>9. /\ Current' = Current /\ NT' = NT /\ L0' = L0 /\ t0sz' = t0sz
        /\ \A n : VmAt(n)' = VmAt(n) /\ First(n)' = First(n)
    BY DEF Current, VmAt, First, NT, L0, number_of_concatenated_page_tables,
           initial_lookup_level, t0sz
  <1>10. \A n : n # c => Keeps(n)
    BY <1>4, <1>9 DEF Keeps, Mapped, Limit
  <1>11. ASSUME NEW a \in Nat
         PROVE  /\ Mapped(c, a)' <=> Mapped(c, a) \/ Slot(a, l) = s
                /\ Slot(a, l) = s <=> ipa <= a /\ a < ipa + b
    <2>1. Slot(a, l) = s <=> ipa <= a /\ a < ipa + b
      <3>1. Slot(a, l) = s <=> s * Block(l) <= a /\ a < s * Block(l) + Block(l)
        <4>1. l \in 0..3
          OBVIOUS
        <4> QED BY <4>1, SlotIs
      <3> QED BY <1>6, <3>1
    <2>2. /\ First(c) = vm.region[1] /\ First(c)' = vm.region[1]
          /\ Limit(c) = ipa /\ Limit(c)' = ipa + b
      BY <1>2, <1>4, <1>7, <1>9 DEF First, Limit
    <2>3. vm.region[1] <= ipa
      BY <1>2 DEF Progress
    <2> QED BY <1>2, <1>3, <2>1, <2>2, <2>3 DEF Mapped
  <1>12. Progress'
    <2>1. ASSUME NEW n \in 1..Current' PROVE VmOk(VmAt(n))'
      <3>1. VmOk(VmAt(n)) /\ VmAt(n)' = VmAt(n)
        BY <1>2, <1>9 DEF Progress
      <3> QED BY <1>9, <3>1 DEF VmOk
    <2>2. frames' \in Seq(FrameRecord)
      <3>1. frames \in Seq(FrameRecord) /\ k \in 1..Len(frames)
        BY <1>2, <1>4 DEF Progress, Depth
      <3>2. PICK f \in FrameRecord : f = frames[k]
        BY <3>1
      <3>3. PICK g : g = [f EXCEPT !.index = @ + 1]
        OBVIOUS
      <3>4. g \in FrameRecord
        BY <3>3, NextIndex
      <3>5. frames' = [frames EXCEPT ![k] = g]
        BY <1>7, <3>2, <3>3
      <3> QED BY <3>1, <3>4, <3>5
    <2>3. /\ pa' \in Nat /\ ipa' \in Nat /\ remaining' \in Nat
          /\ vm'.region[1] <= ipa' /\ pa' + vm'.region[1] = vm'.ram + ipa'
          /\ ipa' + remaining' = vm'.region[1] + vm'.region[2]
      <3>1. /\ vm.region[1] <= ipa /\ pa + vm.region[1] = vm.ram + ipa
            /\ ipa + remaining = vm.region[1] + vm.region[2]
        BY <1>2 DEF Progress
      <3> QED BY <1>2, <1>3, <1>7, <3>1
    <2>4. /\ vms \in Seq(VmRecord) /\ vm \in VmRecord /\ free \subseteq Nat /\ DOMAIN memory \subseteq Nat
          /\ free \cap DOMAIN memory = {} /\ geometry \in Geometries
      BY <1>2 DEF Progress
    <2> QED BY <1>2, <1>8, <2>1, <2>2, <2>3, <2>4 DEF Progress
  <1>13. Extends(place, place)
    BY <1>8 DEF Extends
  <1>14. ASSUME NEW p \in DOMAIN memory, NEW j \in 0..(E - 1), NEW e, e = memory'[p][j]
         PROVE  EntryOk(e, place[p].vm, place[p].level, place[p].num * E + j, place)'
    <2>1. PICK n, m, x : n = place[p].vm /\ m = place[p].level /\ x = place[p].num * E + j
      OBVIOUS
    <2>2. CASE p = t /\ j = i
      <3>1. e = d /\ n = c /\ m = l /\ x = s
        BY <1>5, <1>8, <1>14, <2>1, <2>2
      <3>2. pa + vm.region[1] = vm.ram + ipa
        BY <1>2 DEF Progress
      <3>3. MappedWhole(d, c, l, s)'
        <4>1. d.page = pa /\ d.permission = ReadWrite /\ d.bits = IF l = 3 THEN 3 ELSE 1
          OBVIOUS
        <4>2. First(c)' = vm.region[1] /\ VmAt(c)' = vm
          BY <1>2, <1>4, <1>9 DEF First
        <4>3. \A a \in Nat : Slot(a, l) = s => Mapped(c, a)'
          BY <1>11
        <4>4. d.page + First(c)' = VmAt(c)'.ram + s * Block(l)
          BY <1>6, <3>2, <4>1, <4>2
        <4> QED BY <1>2, <4>1, <4>3, <4>4 DEF MappedWhole
      <3>4. EntryOk(d, c, l, s, place)'
        BY <3>3 DEF EntryOk
      <3> QED BY <2>1, <3>1, <3>4
    <2>3. CASE ~(p = t /\ j = i)
      <3>1. e = memory[p][j]
        BY <1>8, <1>14, <2>3
      <3>2. EntryOk(e, n, m, x, place)
        BY <1>1, <2>1, <3>1 DEF TreeOk, PageOk
      <3>3. CASE n # c
        <4>1. Keeps(n)
          BY <1>10, <3>3
        <4>2. EntryOk(e, n, m, x, place)'
          BY <1>13, <3>2, <4>1, EntryKept
        <4> QED BY <2>1, <4>2
      <3>4. CASE n = c
        <4>1. CASE Unmapped(e, n, m, x)
          <5>1. e = InvalidEntry /\ \A a \in Nat : Slot(a, m) = x => ~Mapped(c, a)
            BY <3>4, <4>1 DEF Unmapped
          <5>2. ASSUME NEW a \in Nat, Slot(a, m) = x PROVE ~Mapped(c, a)'
            <6>1. ASSUME Slot(a, l) = s PROVE FALSE
              <7>1. ipa <= a
                BY <1>11, <6>1
              <7>2. PICK h \in 1..Depth : p = PageAt(h) /\ j = EntryAt(h)
                <8>1. Top.index < Top.num
                  BY DEF InTable
                <8>2. place[p].vm = Current /\ Slot(a, Top.level) = Slot(ipa, Top.level)
                      /\ Slot(a, place[p].level) = place[p].num * E + j
                  BY <1>4, <2>1, <3>4, <5>2, <6>1
                <8> QED BY <1>1, <1>2, <7>1, <8>1, <8>2, OnPath
              <7>3. h # Depth
                BY <1>4, <2>3, <7>2
              <7>4. Entry(frames[h].table, frames[h].index).bits = 3
                <8>1. FrameOk(h, place) /\ h < Depth
                  BY <1>2, <7>3 DEF Working
                <8> QED BY <8>1 DEF FrameOk
              <7>5. Entry(frames[h].table, frames[h].index) = e
                BY <3>1, <7>2 DEF Entry, PageAt, EntryAt
              <7> QED BY <5>1, <7>4, <7>5 DEF InvalidEntry
            <6> QED BY <1>11, <5>1, <5>2, <6>1
          <5>3. Unmapped(e, n, m, x)'
            BY <3>4, <5>1, <5>2 DEF Unmapped
          <5>4. EntryOk(e, n, m, x, place)'
            BY <5>3 DEF EntryOk
          <5> QED BY <2>1, <5>4
        <4>2. CASE MappedWhole(e, n, m, x)
          <5>1. \A a \in Nat : Mapped(n, a) => Mapped(n, a)'
            BY <1>11, <3>4
          <5>2. First(n)' = First(n) /\ VmAt(n)' = VmAt(n)
            BY <1>9
          <5>3. MappedWhole(e, n, m, x)'
            BY <4>2, <5>1, <5>2 DEF MappedWhole
          <5>4. EntryOk(e, n, m, x, place)'
            BY <5>3 DEF EntryOk
          <5> QED BY <2>1, <5>4
        <4>3. CASE InTableBelow(e, n, m, x, place)
          <5>1. InTableBelow(e, n, m, x, place)'
            BY <1>8, <4>3 DEF InTableBelow
          <5>2. EntryOk(e, n, m, x, place)'
            BY <5>1 DEF EntryOk
          <5> QED BY <2>1, <5>2
        <4> QED BY <3>2, <4>1, <4>2, <4>3 DEF EntryOk
      <3> QED BY <3>3, <3>4
    <2> QED BY <2>2, <2>3
  <1>15. ASSUME NEW p \in DOMAIN memory PROVE PageOk(p, place)'
    <2>1. ASSUME NEW j \in 0..(E - 1)
          PROVE  EntryOk(memory[p][j], place[p].vm, place[p].level, place[p].num * E + j, place)'
      <3>1. PICK e : e = memory'[p][j]
        OBVIOUS
      <3>2. EntryOk(e, place[p].vm, place[p].level, place[p].num * E + j, place)'
        BY <1>14, <3>1
      <3> QED BY <3>1, <3>2
    <2> QED BY <2>1 DEF PageOk
  <1>16. ASSUME remaining' > 0 PROVE Working(place)'
    <2>1. /\ Len(frames) = k /\ Len(frames') = k /\ Depth' = k /\ Depth = k
          /\ \A h \in 1..k : frames'[h] = IF h = k THEN [frames[k] EXCEPT !.index = @ + 1] ELSE frames[h]
      BY <1>2, <1>4, <1>7 DEF Depth, Progress
    <2>2. PICK f \in FrameRecord : f = frames[k]
      BY <1>2, <2>1 DEF Progress
    <2>3. frames'[k] = [f EXCEPT !.index = @ + 1] /\ \A h \in 1..k : h # k => frames'[h] = frames[h]
      BY <2>1, <2>2
    <2>4. /\ frames'[k].table = f.table /\ frames'[k].level = f.level /\ frames'[k].num = f.num
          /\ frames'[k].index = f.index + 1 /\ f.index \in Nat /\ f.num \in Nat
      BY <2>2, <2>3 DEF FrameRecord
    <2>a. ASSUME NEW h \in 1..k PROVE frames'[h].table = frames[h].table
      <3>1. CASE h = k
        BY <2>2, <2>4, <3>1
      <3>2. CASE h # k
        BY <2>3, <3>2
      <3> QED BY <3>1, <3>2
    <2>5. \A h \in 1..k : Base(h, place)' = Base(h, place)
      BY <2>1, <2>2, <2>3, <2>4 DEF Base
    <2>6. \A h \in 1..k : h # k => At(h, place)' = At(h, place)
      BY <2>3, <2>5 DEF At
    <2>7. f.index < f.num /\ f.level = l
      BY <1>2, <1>4, <2>2 DEF InTable
    <2>8. \A h \in 1..k : FrameOk(h, place) /\ frames[h].level = L0 + (h - 1) /\ L0 \in 0..3
      BY <1>1, <1>2, <2>1, FrameIs
    <2>9. ASSUME NEW h \in 1..k, h # k PROVE FrameOk(h, place)'
      <3>1. FrameOk(h, place) /\ h < Depth /\ h < k
        BY <2>1, <2>8, <2>9
      <3>2. frames[h].index < frames[h].num
        BY <3>1 DEF FrameOk
      <3>3. Points(h, place)
        BY <1>1, <1>2, <2>1, <3>2, FrameEntry
      <3>4. PageAt(h) # t
        <4>1. place[PageAt(h)].level = frames[h].level
          BY <3>3 DEF Points
        <4>2. frames[h].level # l
          BY <2>1, <2>2, <2>7, <2>8, <3>1
        <4> QED BY <1>5, <4>1, <4>2
      <3>5. Entry(frames[h].table, frames[h].index)' = Entry(frames[h].table, frames[h].index)
        <4>1. memory'[PageAt(h)] = memory[PageAt(h)]
          BY <1>8, <3>3, <3>4 DEF Points
        <4> QED BY <2>3, <2>9, <4>1 DEF Entry, PageAt
      <3>6. frames'[h + 1].table = frames[h + 1].table
        <4>1. h + 1 \in 1..k
          BY <3>1
        <4> QED BY <2>a, <4>1
      <3>7. h > 1 => At(h - 1, place)' = At(h - 1, place)
        <4>1. h > 1 => h - 1 \in 1..k /\ h - 1 # k
          BY <3>1
        <4> QED BY <2>6, <4>1
      <3>8. frames'[h] = frames[h]
        BY <2>3, <2>9
      <3> QED BY <1>8, <1>9, <2>1, <3>1, <3>5, <3>6, <3>7, <3>8 DEF FrameOk
    <2>10. FrameOk(k, place)'
      <3>1. FrameOk(k, place)
        BY <2>8
      <3>2. k > 1 => At(k - 1, place)' = At(k - 1, place)
        <4>1. k > 1 => k - 1 \in 1..k /\ k - 1 # k
          OBVIOUS
        <4> QED BY <2>6, <4>1
      <3>3. f.index + 1 \in 0..f.num
        BY <2>4, <2>7
      <3>4. ~(k < Depth')
        BY <2>1
      <3> QED BY <1>8, <1>9, <2>2, <2>4, <3>1, <3>2, <3>3, <3>4 DEF FrameOk
    <2>11. At(k, place)' = s + 1
      <3>1. At(k, place) = s
        BY <1>2, <1>4
      <3>2. PICK u \in Nat : u = Base(k, place) * E
        <4>1. Base(k, place) \in Nat
          BY <1>1, <1>2, <2>1, FrameIs
        <4> QED BY <4>1, Blocks
      <3>3. At(k, place) = u + f.index /\ At(k, place)' = u + (f.index + 1)
        BY <2>2, <2>4, <2>5, <3>2 DEF At
      <3> QED BY <2>4, <3>1, <3>2, <3>3
    <2>12. Slot(ipa', l) = s + 1
      <3>1. PICK a \in Nat : a = ipa'
        BY <1>2, <1>3, <1>7
      <3>2. PICK z \in Nat : z = (s + 1) * b
        BY <1>3
      <3>3. a = z
        <4>1. (s + 1) * b = s * b + b
          BY <1>3
        <4> QED BY <1>6, <1>7, <3>1, <3>2, <4>1
      <3>4. z <= a /\ a < z + b
        BY <1>3, <3>3
      <3>5. l \in 0..3 /\ s + 1 \in Nat
        OBVIOUS
      <3>6. Slot(a, l) = s + 1 <=> (s + 1) * Block(l) <= a /\ a < (s + 1) * Block(l) + Block(l)
        BY <3>5, SlotIs
      <3> QED BY <3>1, <3>2, <3>4, <3>6
    <2>13. At(Depth, place)' = Slot(ipa, Top.level)'
      <3>1. Top'.level = l
        BY <2>1, <2>4, <2>7 DEF Top
      <3> QED BY <2>1, <2>11, <2>12, <3>1
    <2>14. ASSUME NEW p \in DOMAIN memory, place[p].vm = Current PROVE Finished(p, place)'
      <3>1. Finished(p, place)
        BY <1>2, <2>14 DEF Working
      <3>2. PICK m \in 0..3, n \in Nat : m = place[p].level /\ n = place[p].num
        <4>1. place[p] \in Places
          BY <1>1
        <4> QED BY <4>1 DEF Places
      <3>3. L0 \in 0..3 /\ m >= L0 /\ (m = L0 => p = vm.root + n)
            /\ (m > L0 => n < Slot(ipa, m - 1) \/ \E h \in 2..k : frames[h].table = p)
        BY <2>1, <2>8, <3>1, <3>2 DEF Finished
      <3>4. ASSUME m > L0 PROVE n < Slot(ipa', m - 1) \/ \E h \in 2..k : frames'[h].table = p
        <4>1. CASE n < Slot(ipa, m - 1)
          <5>1. m - 1 \in 0..3 /\ ipa' \in Nat /\ ipa <= ipa'
            BY <1>2, <1>3, <1>7, <3>3, <3>4
          <5>2. PICK y \in Nat, z \in Nat : y = Slot(ipa, m - 1) /\ z = Slot(ipa', m - 1)
            BY <1>2, <5>1, SlotIs
          <5>3. y <= z
            BY <1>2, <5>1, <5>2, SlotGrows
          <5> QED BY <4>1, <5>2, <5>3
        <4>2. CASE \E h \in 2..k : frames[h].table = p
          <5>1. PICK h \in 2..k : frames[h].table = p
            BY <4>2
          <5>2. frames'[h].table = p
            <6>1. h \in 1..k
              OBVIOUS
            <6> QED BY <2>a, <5>1, <6>1
          <5> QED BY <5>2
        <4> QED BY <3>3, <3>4, <4>1, <4>2
      <3> QED BY <1>9, <2>1, <3>2, <3>3, <3>4 DEF Finished
    <2>15. Depth' \in 1..4 /\ \A h \in 1..Depth' : FrameOk(h, place)'
      BY <2>1, <2>9, <2>10
    <2> QED BY <1>8, <1>9, <2>13, <2>14, <2>15 DEF Working
  <1>17. TreeOk(place)'
    <2>1. \A p \in DOMAIN memory : place[p].vm \in 1..Current
      BY <1>1 DEF TreeOk
    <2>2. ASSUME NEW n, RootOk(n, place) PROVE RootOk(n, place)'
      BY <1>9, <1>13, <2>2, RootKept
    <2>3. RootOk(c, place)'
      BY <1>2, <1>4, <2>2
    <2>4. RootOk(Current, place)'
      BY <1>4, <1>9, <2>3
    <2>5. \A n \in 1..Len(vms) : RootOk(n, place)'
      BY <1>1, <2>2 DEF TreeOk
    <2> QED BY <1>1, <1>2, <1>8, <1>9, <1>15, <1>16, <2>1, <2>4, <2>5 DEF TreeOk
  <1>18. place \in [DOMAIN memory' -> Places]
    BY <1>8
  <1> QED BY <1>12, <1>17, <1>18 DEF PagingInv

(***************************************************************************)
(* At level 3 the next page is mapped.                                     *)
(***************************************************************************)
LEMMA MapPageStep ==
    ASSUME PagingInv, MapPage
    PROVE  PagingInv'
  <1>1. PICK d : d = [bits |-> 3, page |-> pa, permission |-> ReadWrite]
    OBVIOUS
  <1>2. /\ InTable /\ 3 = Top.level /\ SetEntry(Top.table, Top.index, d) /\ Advance(1)
        /\ geometry' = geometry /\ vms' = vms /\ vm' = vm /\ pc' = pc /\ free' = free
    BY <1>1 DEF MapPage
  <1>3. 1 = Block(3)
    BY Blocks
  <1>4. ipa % 1 = 0 /\ pa % 1 = 0 /\ remaining >= 1
    BY <1>2 DEF PagingInv, Progress, InTable
  <1>5. d = [bits |-> IF 3 = 3 THEN 3 ELSE 1, page |-> pa, permission |-> ReadWrite]
    BY <1>1
  <1>6. PICK l \in 1..3, b \in Nat : l = 3 /\ b = 1
    OBVIOUS
  <1>7. /\ l = Top.level /\ b = Block(l) /\ Advance(b) /\ ipa % b = 0 /\ pa % b = 0 /\ remaining >= b
        /\ d = [bits |-> IF l = 3 THEN 3 ELSE 1, page |-> pa, permission |-> ReadWrite]
    BY <1>2, <1>3, <1>4, <1>5, <1>6
  <1> QED BY <1>2, <1>7, AdvanceStep

(***************************************************************************)
(* Above it a block, where the addresses are aligned and enough remains.   *)
(***************************************************************************)
LEMMA MapBlockStep ==
    ASSUME PagingInv, MapBlock
    PROVE  PagingInv'
  <1>1. PICK d : d = [bits |-> 1, page |-> pa, permission |-> ReadWrite]
    OBVIOUS
  <1>2. PICK b : b = Block(Top.level)
    OBVIOUS
  <1>3. /\ InTable /\ Top.level < 3 /\ SetEntry(Top.table, Top.index, d) /\ Advance(b)
        /\ Top.level >= 1 /\ remaining >= b /\ pa % b = 0 /\ ipa % b = 0
        /\ geometry' = geometry /\ vms' = vms /\ vm' = vm /\ pc' = pc /\ free' = free
    BY <1>1, <1>2 DEF MapBlock, IsBlock
  <1>4. PICK place \in [DOMAIN memory -> Places] : TreeOk(place)
    BY DEF PagingInv
  <1>5. Top.level \in 0..3
    BY <1>3, <1>4, InLoop
  <1>6. PICK l \in 1..2 : l = Top.level
    BY <1>3, <1>5
  <1>7. /\ l \in 1..3 /\ b = Block(l)
        /\ d = [bits |-> IF l = 3 THEN 3 ELSE 1, page |-> pa, permission |-> ReadWrite]
    BY <1>1, <1>2, <1>6
  <1> QED BY <1>3, <1>6, <1>7, AdvanceStep

(***************************************************************************)
(* The call for the table at page t, which the descriptor of the innermost *)
(* frame points to.                                                        *)
(***************************************************************************)
LEMMA Entering ==
    ASSUME PagingInv, InTable, NEW place, TreeOk(place), place \in [DOMAIN memory -> Places],
           NEW q, Extends(q, place),
           NEW l \in 0..2, l = Top.level, NEW t \in Nat, t \in DOMAIN memory',
           q[t] = [vm |-> Current, level |-> l + 1, num |-> Slot(ipa, l)],
           \A p \in DOMAIN memory' : p \in DOMAIN memory \/ p = t,
           \A k \in 1..Depth : k < Depth =>
               memory'[PageAt(k)][EntryAt(k)] = memory[PageAt(k)][EntryAt(k)],
           memory'[PageAt(Depth)][EntryAt(Depth)].bits = 3,
           memory'[PageAt(Depth)][EntryAt(Depth)].page = t,
           Descend(t), vms' = vms, vm' = vm, ipa' = ipa, geometry' = geometry
    PROVE  Working(q)' /\ frames' \in Seq(FrameRecord)
  <1>1. /\ Progress /\ Working(place) /\ RootOk(Current, place)
        /\ Depth \in 1..4 /\ Depth \in 1..Depth /\ Top = frames[Depth]
        /\ Points(Depth, place) /\ At(Depth, place) = Slot(ipa, Top.level)
        /\ Current \in Nat \ {0} /\ ipa \in Nat
    BY InLoop
  <1>2. PICK k \in 1..4 : k = Depth
    BY <1>1
  <1>3. PICK f : f = Frame(t, l + 1, E, ipa)
    OBVIOUS
  <1>4. PICK s \in Nat, i \in 0..(E - 1) :
            /\ s = Slot(ipa, l) /\ i = Slot(ipa, l + 1) % E /\ Slot(ipa, l + 1) = s * E + i
    <2>1. l + 1 \in 1..3 /\ (l + 1) - 1 = l
      OBVIOUS
    <2>2. /\ Slot(ipa, (l + 1) - 1) \in Nat /\ Slot(ipa, l + 1) % E \in 0..(E - 1)
          /\ Slot(ipa, l + 1) = Slot(ipa, (l + 1) - 1) * E + (Slot(ipa, l + 1) % E)
      BY <1>1, <2>1, SlotUp
    <2> QED BY <2>1, <2>2
  <1>5. f = [table |-> t, level |-> l + 1, num |-> E, index |-> i]
    BY <1>3, <1>4 DEF Frame, Slot
  <1>6. PICK e \in Nat \ {0} : e = E
    BY Blocks
  <1>7. f \in FrameRecord
    BY <1>5, <1>6 DEF FrameRecord
  <1>8. frames \in Seq(FrameRecord) /\ Len(frames) = k /\ frames' = Append(frames, f)
    BY <1>1, <1>2, <1>3 DEF Progress, Depth, Descend
  <1>9. /\ frames' \in Seq(FrameRecord) /\ Len(frames') = k + 1 /\ Depth' = k + 1
        /\ frames'[k + 1] = f /\ \A h \in 1..k : frames'[h] = frames[h]
    BY <1>7, <1>8 DEF Depth
  <1>10. Current' = Current /\ NT' = NT /\ L0' = L0
    BY DEF Current, NT, L0, number_of_concatenated_page_tables, initial_lookup_level, t0sz, Extends
  <1>11. \A h \in 1..k : /\ FrameOk(h, place) /\ frames[h].level = L0 + (h - 1) /\ L0 \in 0..3
                         /\ frames[h].level \in 0..3
    BY <1>1, <1>2, FrameIs
  <1>12. k + 1 \in 1..4 /\ l = L0 + (k - 1) /\ l + 1 = L0 + ((k + 1) - 1)
    BY <1>1, <1>2, <1>11
  <1>13. \A h \in 1..k : Base(h, q)' = Base(h, place) /\ At(h, q)' = At(h, place)
    <2>1. ASSUME NEW h \in 1..k PROVE Base(h, q)' = Base(h, place)
      <3>1. CASE h = 1
        BY <3>1 DEF Base
      <3>2. CASE h # 1
        <4>1. frames[h].table \in DOMAIN memory /\ frames'[h] = frames[h]
          <5>1. FrameOk(h, place) /\ h > 1 /\ frames'[h] = frames[h]
            BY <1>9, <1>11, <3>2
          <5> QED BY <5>1 DEF FrameOk
        <4>2. q[frames[h].table] = place[frames[h].table]
          BY <4>1 DEF Extends
        <4> QED BY <3>2, <4>1, <4>2 DEF Base
      <3> QED BY <3>1, <3>2
    <2> QED BY <1>9, <2>1 DEF At
  <1>14. ASSUME NEW h \in 1..k PROVE FrameOk(h, q)'
    <2>1. FrameOk(h, place) /\ frames'[h] = frames[h] /\ h < Depth'
      BY <1>9, <1>11
    <2>2. h > 1 => /\ At(h - 1, q)' = At(h - 1, place) /\ frames[h].table \in DOMAIN memory'
                   /\ q[frames[h].table] = place[frames[h].table]
      <3>1. h > 1 => h - 1 \in 1..k /\ frames[h].table \in DOMAIN memory
        BY <2>1 DEF FrameOk
      <3> QED BY <1>13, <3>1 DEF Extends
    <2>3. /\ frames[h].index < frames[h].num
          /\ memory'[PageAt(h)][EntryAt(h)].bits = 3
          /\ memory'[PageAt(h)][EntryAt(h)].page = frames'[h + 1].table
      <3>1. CASE h = k
        BY <1>1, <1>2, <1>5, <1>9, <3>1 DEF InTable
      <3>2. CASE h # k
        <4>1. h < Depth /\ h + 1 \in 1..k
          BY <1>2, <3>2
        <4>2. /\ frames[h].index < frames[h].num
              /\ memory[PageAt(h)][EntryAt(h)].bits = 3
              /\ memory[PageAt(h)][EntryAt(h)].page = frames[h + 1].table
          BY <2>1, <4>1 DEF FrameOk, Entry, PageAt, EntryAt
        <4>3. memory'[PageAt(h)][EntryAt(h)] = memory[PageAt(h)][EntryAt(h)]
          BY <1>2, <4>1
        <4> QED BY <1>9, <4>1, <4>2, <4>3
      <3> QED BY <3>1, <3>2
    <2>4. /\ Entry(frames[h].table, frames[h].index)'.bits = 3
          /\ Entry(frames[h].table, frames[h].index)'.page = frames'[h + 1].table
      BY <2>1, <2>3 DEF Entry, PageAt, EntryAt
    <2> QED BY <1>10, <2>1, <2>2, <2>3, <2>4 DEF FrameOk
  <1>15. At(k + 1, q)' = s * E + i /\ At(k, q)' = s
    <2>1. At(k, q)' = s
      BY <1>1, <1>2, <1>4, <1>13
    <2>2. q[t].num = s
      BY <1>4
    <2> QED BY <1>5, <1>9, <2>1, <2>2 DEF At, Base
  <1>16. FrameOk(k + 1, q)'
    <2>1. (k + 1) - 1 = k /\ k + 1 > 1 /\ ~(k + 1 < Depth') /\ i \in 0..E
      BY <1>6, <1>9
    <2>2. q[t] = [vm |-> Current', level |-> l + 1, num |-> At(k, q)']
      BY <1>4, <1>10, <1>15
    <2>3. /\ frames'[k + 1].table = t /\ frames'[k + 1].level = l + 1
          /\ frames'[k + 1].num = E /\ frames'[k + 1].index = i
      BY <1>5, <1>9
    <2>4. l + 1 = L0' + ((k + 1) - 1)
      BY <1>10, <1>12
    <2> QED BY <2>1, <2>2, <2>3, <2>4 DEF FrameOk
  <1>17. ASSUME NEW p \in DOMAIN memory', q[p].vm = Current' PROVE Finished(p, q)'
    <2>1. CASE p = t
      <3>1. q[p].level = l + 1 /\ l + 1 > L0' /\ ~(l + 1 = L0') /\ l + 1 >= L0'
        BY <1>10, <1>11, <1>12, <2>1
      <3>2. k + 1 \in 2..Depth' /\ frames'[k + 1].table = p
        BY <1>5, <1>9, <2>1
      <3> QED BY <3>1, <3>2 DEF Finished
    <2>2. CASE p # t
      <3>1. p \in DOMAIN memory /\ q[p] = place[p]
        BY <2>2 DEF Extends
      <3>2. Finished(p, place)
        BY <1>1, <1>10, <1>17, <3>1 DEF Working
      <3>3. \A h \in 2..Depth : h \in 2..Depth' /\ frames'[h].table = frames[h].table
        BY <1>2, <1>9
      <3> QED BY <1>10, <3>1, <3>2, <3>3 DEF Finished
    <2> QED BY <2>1, <2>2
  <1>18. Depth' \in 1..4 /\ \A h \in 1..Depth' : FrameOk(h, q)'
    <2>1. \A h \in 1..(k + 1) : h \in 1..k \/ h = k + 1
      OBVIOUS
    <2> QED BY <1>9, <1>12, <1>14, <1>16, <2>1
  <1>19. At(Depth, q)' = Slot(ipa, Top.level)'
    <2>1. Top'.level = l + 1
      BY <1>5, <1>9 DEF Top
    <2> QED BY <1>4, <1>9, <1>15, <2>1
  <1> QED BY <1>9, <1>17, <1>18, <1>19 DEF Working

(***************************************************************************)
(* The descriptor is a table's already, or is invalid: the page at hand is *)
(* not mapped, so it is no block's.  A new table maps nothing, as the      *)
(* descriptor did, and only the VM's own tables are written.               *)
(***************************************************************************)
LEMMA EnterTableStep ==
    ASSUME PagingInv, EnterTable
    PROVE  PagingInv'
  <1>1. PICK place \in [DOMAIN memory -> Places] : TreeOk(place)
    BY DEF PagingInv
  <1>2. /\ InTable /\ Top.level < 3 /\ geometry' = geometry /\ vms' = vms /\ vm' = vm
        /\ pc' = pc /\ pa' = pa /\ ipa' = ipa /\ remaining' = remaining
    BY DEF EnterTable
  <1>3. /\ Progress /\ Working(place) /\ RootOk(Current, place)
        /\ Depth \in 1..4 /\ Depth \in 1..Depth /\ Top = frames[Depth]
        /\ Points(Depth, place) /\ At(Depth, place) = Slot(ipa, Top.level)
        /\ Top.level \in 0..3 /\ Current \in Nat \ {0} /\ VmAt(Current) = vm
        /\ pc = "walk" /\ ipa \in Nat
    BY <1>1, <1>2, InLoop
  <1>4. PICK l \in 0..2 : l = Top.level
    BY <1>2, <1>3
  <1>5. PICK c, g, i, d : /\ c = Current /\ g = PageAt(Depth) /\ i = EntryAt(Depth)
                          /\ d = Entry(Top.table, Top.index)
    OBVIOUS
  <1>6. PICK s \in Nat : s = Slot(ipa, l)
    <2>1. l \in 0..3
      OBVIOUS
    <2> QED BY <1>3, <2>1, SlotIs
  <1>7. /\ g \in DOMAIN memory /\ i \in 0..(E - 1) /\ place[g].vm = c /\ place[g].level = l
        /\ place[g].num * E + i = s /\ d = memory[g][i]
    BY <1>3, <1>4, <1>5, <1>6 DEF Points, Entry, PageAt, EntryAt
  <1>8. EntryOk(d, c, l, s, place)
    BY <1>1, <1>7 DEF TreeOk, PageOk
  <1>9. ~MappedWhole(d, c, l, s)
    <2>1. Limit(c) = ipa
      BY <1>5 DEF Limit
    <2>2. ~Mapped(c, ipa)
      BY <1>3, <2>1 DEF Mapped
    <2> QED BY <1>3, <1>6, <2>2 DEF MappedWhole
  <1>10. /\ Current' = Current /\ t0sz' = t0sz
         /\ \A n : VmAt(n)' = VmAt(n) /\ First(n)' = First(n) /\ Keeps(n)
    BY <1>2 DEF Current, VmAt, First, t0sz, Keeps, Mapped, Limit
  <1>11. ASSUME frames' \in Seq(FrameRecord), memory' \in [DOMAIN memory' -> Table],
                free' \subseteq Nat, DOMAIN memory' \subseteq Nat, free' \cap DOMAIN memory' = {}
         PROVE  Progress'
    <2>1. ASSUME NEW n \in 1..Current' PROVE VmOk(VmAt(n))'
      <3>1. VmOk(VmAt(n)) /\ VmAt(n)' = VmAt(n)
        BY <1>3, <1>10 DEF Progress
      <3> QED BY <1>10, <3>1 DEF VmOk
    <2> QED BY <1>2, <1>3, <1>11, <2>1 DEF Progress
  <1>12. ASSUME NEW q \in [DOMAIN memory' -> Places], Extends(q, place), Working(q)',
                \A p \in DOMAIN memory' : q[p].vm \in 1..Current /\ PageOk(p, q)'
         PROVE  TreeOk(q)'
    <2>1. ASSUME NEW n, RootOk(n, place) PROVE RootOk(n, q)'
      BY <1>10, <1>12, <2>1, RootKept
    <2>2. RootOk(c, q)'
      BY <1>3, <1>5, <2>1
    <2>3. RootOk(Current, q)'
      BY <1>5, <1>10, <2>2
    <2>4. \A n \in 1..Len(vms) : RootOk(n, q)'
      BY <1>1, <2>1 DEF TreeOk
    <2> QED BY <1>2, <1>3, <1>10, <1>12, <2>3, <2>4 DEF TreeOk
  <1>13. CASE d.bits = 3
    <2>1. Descend(d.page) /\ free' = free /\ memory' = memory
      BY <1>5, <1>13 DEF EnterTable
    <2>2. d.page \in DOMAIN memory /\ place[d.page] = [vm |-> c, level |-> l + 1, num |-> s]
      <3>1. ~Unmapped(d, c, l, s)
        BY <1>13 DEF Unmapped, InvalidEntry
      <3> QED BY <1>8, <1>9, <3>1 DEF EntryOk, InTableBelow
    <2>3. PICK t \in Nat : t = d.page
      BY <1>3, <2>2 DEF Progress
    <2>4. Extends(place, place)
      BY <1>2, <2>1 DEF Extends
    <2>5. /\ t \in DOMAIN memory' /\ Descend(t)
          /\ place[t] = [vm |-> Current, level |-> l + 1, num |-> Slot(ipa, l)]
          /\ memory'[PageAt(Depth)][EntryAt(Depth)].bits = 3
          /\ memory'[PageAt(Depth)][EntryAt(Depth)].page = t
      BY <1>5, <1>6, <1>7, <1>13, <2>1, <2>2, <2>3
    <2>6. /\ \A p \in DOMAIN memory' : p \in DOMAIN memory \/ p = t
          /\ \A k \in 1..Depth : k < Depth =>
                 memory'[PageAt(k)][EntryAt(k)] = memory[PageAt(k)][EntryAt(k)]
      BY <2>1
    <2>7. Working(place)' /\ frames' \in Seq(FrameRecord)
      BY <1>1, <1>2, <1>4, <2>4, <2>5, <2>6, Entering
    <2>8. Progress'
      BY <1>3, <1>11, <2>1, <2>7 DEF Progress
    <2>9. \A p \in DOMAIN memory' : place[p].vm \in 1..Current /\ PageOk(p, place)'
      <3>1. ASSUME NEW p \in DOMAIN memory PROVE place[p].vm \in 1..Current /\ PageOk(p, place)'
        BY <1>1, <1>10, <2>1, <2>4, PageKept DEF TreeOk
      <3> QED BY <2>1, <3>1
    <2>10. TreeOk(place)'
      BY <1>12, <2>1, <2>4, <2>7, <2>9
    <2> QED BY <2>1, <2>8, <2>10 DEF PagingInv
  <1>14. CASE d.bits # 3
    <2> DEFINE T == LowestRun(1, 1)
               linked == [memory EXCEPT ![Top.table + (Top.index \div E)][Top.index % E] =
                              [bits |-> 3, page |-> T, permission |-> 0]]
    <2>1. /\ HasRun(1, 1) /\ free' = free \ {T} /\ Descend(T)
          /\ memory' = [p \in DOMAIN memory \cup {T} |->
                             IF p = T THEN Cleared({T})[p] ELSE linked[p]]
      BY <1>5, <1>14 DEF EnterTable
    <2>2. PICK t \in free : t = T /\ t \in Nat /\ t \notin DOMAIN memory
      <3>1. T \in free
        BY <1>3, <2>1, LowestRunIs DEF Progress
      <3> HIDE DEF T
      <3> QED BY <1>3, <3>1 DEF Progress
    <2>3. PICK x : x = [bits |-> 3, page |-> t, permission |-> 0]
      OBVIOUS
    <2>4. PICK W : W = linked
      OBVIOUS
    <2>5. W = Put(memory, g, i, x)
      BY <1>3, <1>5, <2>2, <2>3, <2>4 DEF Put, PageAt, EntryAt
    <2>6. /\ free' = free \ {t} /\ Descend(t)
          /\ memory' = [p \in DOMAIN memory \cup {t} |-> IF p = t THEN Cleared({t})[p] ELSE W[p]]
      BY <2>1, <2>2, <2>4
    <2> HIDE DEF T, linked
    <2>7. /\ W \in [DOMAIN memory -> Table]
          /\ \A p \in DOMAIN memory : p # g => W[p] = memory[p]
          /\ \A j \in 0..(E - 1) : W[g][j] = IF j = i THEN x ELSE memory[g][j]
      <3>1. PICK M, S : M = memory /\ S = DOMAIN memory
        OBVIOUS
      <3>2. M \in [S -> Table] /\ g \in S /\ W = Put(M, g, i, x) /\ x \in Descriptor
        BY <1>3, <1>7, <2>2, <2>3, <2>5, <3>1 DEF Progress, Descriptor
      <3>3. /\ W \in [S -> Table]
            /\ \A p \in S : p # g => W[p] = M[p]
            /\ \A j \in 0..(E - 1) : W[g][j] = IF j = i THEN x ELSE M[g][j]
        BY <1>7, <3>2, Written DEF Overwritten
      <3> QED BY <3>1, <3>3
    <2>8. Cleared({t})[t] = [j \in 0..(E - 1) |-> InvalidEntry]
      BY DEF Cleared
    <2>9. /\ DOMAIN memory' = DOMAIN memory \cup {t}
          /\ memory'[t] = [j \in 0..(E - 1) |-> InvalidEntry]
          /\ \A p \in DOMAIN memory : memory'[p] = W[p]
          /\ \A p \in DOMAIN memory : p # g => memory'[p] = memory[p]
          /\ \A j \in 0..(E - 1) : memory'[g][j] = IF j = i THEN x ELSE memory[g][j]
      BY <1>7, <2>2, <2>6, <2>7, <2>8
    <2>10. memory' \in [DOMAIN memory' -> Table]
      <3>1. [j \in 0..(E - 1) |-> InvalidEntry] \in Table
        BY DEF InvalidEntry, Table, Descriptor
      <3>2. \A p \in DOMAIN memory' : memory'[p] \in Table
        BY <2>7, <2>9, <3>1
      <3>3. memory' = [p \in DOMAIN memory' |-> memory'[p]]
        BY <2>6, <2>9
      <3> QED BY <3>2, <3>3
    <2>11. PICK q \in [DOMAIN memory' -> Places] :
                  Extends(q, place) /\ q[t] = [vm |-> c, level |-> l + 1, num |-> s]
      <3> DEFINE f == [p \in DOMAIN memory' |->
                          IF p = t THEN [vm |-> c, level |-> l + 1, num |-> s] ELSE place[p]]
      <3>1. [vm |-> c, level |-> l + 1, num |-> s] \in Places
        BY <1>3, <1>5 DEF Places
      <3>2. f \in [DOMAIN memory' -> Places]
        BY <1>1, <2>9, <3>1
      <3>3. f[t] = [vm |-> c, level |-> l + 1, num |-> s] /\ \A p \in DOMAIN memory : f[p] = place[p]
        BY <2>2, <2>9
      <3> HIDE DEF f
      <3> QED BY <1>2, <2>9, <3>2, <3>3 DEF Extends
    <2>12. ASSUME NEW k \in 1..Depth, k < Depth
           PROVE  memory'[PageAt(k)][EntryAt(k)] = memory[PageAt(k)][EntryAt(k)]
      <3>1. FrameOk(k, place) /\ frames[k].level = L0 + (k - 1) /\ L0 \in 0..3
            /\ frames[Depth].level = L0 + (Depth - 1)
        BY <1>1, <1>3, FrameIs
      <3>2. frames[k].index < frames[k].num
        BY <2>12, <3>1 DEF FrameOk
      <3>3. Points(k, place)
        BY <1>1, <1>3, <3>2, FrameEntry
      <3>4. PageAt(k) # g
        BY <1>3, <1>4, <1>7, <2>12, <3>1, <3>3 DEF Points
      <3> QED BY <2>9, <3>3, <3>4 DEF Points
    <2>13. Working(q)' /\ frames' \in Seq(FrameRecord)
      <3>1. memory'[g][i] = x /\ x.bits = 3 /\ x.page = t
        BY <1>7, <2>3, <2>9
      <3>2. /\ t \in DOMAIN memory' /\ Descend(t)
            /\ q[t] = [vm |-> Current, level |-> l + 1, num |-> Slot(ipa, l)]
            /\ memory'[PageAt(Depth)][EntryAt(Depth)].bits = 3
            /\ memory'[PageAt(Depth)][EntryAt(Depth)].page = t
        BY <1>5, <1>6, <2>6, <2>9, <2>11, <3>1
      <3>3. \A p \in DOMAIN memory' : p \in DOMAIN memory \/ p = t
        BY <2>9
      <3> QED BY <1>1, <1>2, <1>4, <2>2, <2>11, <2>12, <3>2, <3>3, Entering
    <2>14. Progress'
      <3>1. free' \subseteq Nat /\ DOMAIN memory' \subseteq Nat /\ free' \cap DOMAIN memory' = {}
        BY <1>3, <2>2, <2>6, <2>9 DEF Progress
      <3> QED BY <1>11, <2>10, <2>13, <3>1
    <2>15. Unmapped(d, c, l, s)
      BY <1>8, <1>9, <1>14 DEF EntryOk, InTableBelow
    <2>16. q[t].vm \in 1..Current /\ PageOk(t, q)'
      <3>1. NothingMapped(c, l + 1, s)'
        <4>1. ASSUME NEW j \in 0..(E - 1), NEW a \in Nat, Slot(a, l + 1) = s * E + j
              PROVE  ~Mapped(c, a)'
          <5>1. Slot(a, l) = s
            <6>1. l + 1 \in 1..3 /\ (l + 1) - 1 = l
              OBVIOUS
            <6>2. Slot(a, l + 1) \div E = Slot(a, (l + 1) - 1)
              BY <6>1, SlotUp
            <6>3. (s * E + j) \div E = s
              BY Blocks, Parts
            <6> QED BY <4>1, <6>1, <6>2, <6>3
          <5>2. ~Mapped(c, a)
            BY <2>15, <5>1 DEF Unmapped
          <5> QED BY <1>10, <5>2 DEF Keeps
        <4> QED BY <4>1 DEF NothingMapped
      <3>2. PageOk(t, q)'
        BY <2>9, <2>11, <3>1, ClearedOk
      <3> QED BY <1>3, <1>5, <2>11, <3>2
    <2>17. ASSUME NEW p \in DOMAIN memory PROVE q[p].vm \in 1..Current /\ PageOk(p, q)'
      <3>1. q[p] = place[p] /\ place[p].vm \in 1..Current /\ PageOk(p, place)
        BY <1>1, <2>11 DEF Extends, TreeOk
      <3>2. CASE p # g
        BY <1>10, <2>9, <2>11, <3>1, <3>2, PageKept
      <3>3. CASE p = g
        <4>1. ASSUME NEW j \in 0..(E - 1)
              PROVE  EntryOk(memory[p][j], q[p].vm, q[p].level, q[p].num * E + j, q)'
          <5>1. CASE j = i
            <6>1. memory'[p][j] = x /\ x.bits = 3 /\ x.page = t
              BY <2>3, <2>9, <3>3, <5>1
            <6>2. InTableBelow(x, c, l, s, q)'
              BY <2>9, <2>11, <6>1 DEF InTableBelow
            <6>3. EntryOk(x, c, l, s, q)'
              BY <6>2 DEF EntryOk
            <6>4. q[p].vm = c /\ q[p].level = l /\ q[p].num * E + j = s
              BY <1>7, <3>1, <3>3, <5>1
            <6> QED BY <6>1, <6>3, <6>4
          <5>2. CASE j # i
            <6>1. PICK e : e = memory[p][j]
              OBVIOUS
            <6>2. EntryOk(e, q[p].vm, q[p].level, q[p].num * E + j, place)
              BY <3>1, <6>1 DEF PageOk
            <6>3. EntryOk(e, q[p].vm, q[p].level, q[p].num * E + j, q)'
              BY <1>10, <2>11, <6>2, EntryKept
            <6>4. memory'[p][j] = e
              BY <2>9, <3>3, <5>2, <6>1
            <6> QED BY <6>3, <6>4
          <5> QED BY <5>1, <5>2
        <4>2. PageOk(p, q)'
          BY <4>1 DEF PageOk
        <4> QED BY <3>1, <4>2
      <3> QED BY <3>1, <3>2, <3>3
    <2>18. TreeOk(q)'
      BY <1>12, <2>9, <2>11, <2>13, <2>16, <2>17
    <2> QED BY <2>11, <2>14, <2>18 DEF PagingInv
  <1> QED BY <1>13, <1>14

(***************************************************************************)
(* Back in the caller's loop, at the next descriptor: the table that was   *)
(* left is full, and the next page is in the block after its own.  The     *)
(* root tables cannot be full with something left to map, for they resolve *)
(* every input address.                                                    *)
(***************************************************************************)
LEMMA LeaveTableStep ==
    ASSUME PagingInv, LeaveTable
    PROVE  PagingInv'
  <1>1. PICK place \in [DOMAIN memory -> Places] : TreeOk(place)
    BY DEF PagingInv
  <1>2. /\ pc = "walk" /\ Depth > 0 /\ (remaining = 0 \/ Top.index = Top.num)
        /\ frames' = IF Depth = 1 THEN SubSeq(frames, 1, Depth - 1)
                     ELSE [SubSeq(frames, 1, Depth - 1) EXCEPT ![Depth - 1].index = @ + 1]
        /\ geometry' = geometry /\ vms' = vms /\ vm' = vm /\ pc' = pc /\ free' = free
        /\ memory' = memory /\ pa' = pa /\ ipa' = ipa /\ remaining' = remaining
    BY DEF LeaveTable
  <1>3. Progress /\ RootOk(Current, place) /\ remaining \in Nat /\ ipa \in Nat
    BY <1>1, <1>2 DEF PagingInv, TreeOk, Progress
  <1>4. PICK k \in Nat \ {0} : k = Depth /\ Len(frames) = k
    <2>1. Len(frames) \in Nat /\ Depth = Len(frames)
      BY <1>3 DEF Progress, Depth
    <2>2. Len(frames) # 0
      BY <1>2, <2>1
    <2> QED BY <2>1, <2>2
  <1>5. PICK up \in Seq(FrameRecord) :
            /\ up = SubSeq(frames, 1, k - 1) /\ Len(up) = k - 1
            /\ \A h \in 1..(k - 1) : up[h] = frames[h]
    <2>1. frames \in Seq(FrameRecord)
      BY <1>3 DEF Progress
    <2>2. PICK n \in Nat : n = k - 1
      OBVIOUS
    <2>3. \A h \in 1..n : frames[h] \in FrameRecord
      BY <1>4, <2>1, <2>2
    <2>4. /\ SubSeq(frames, 1, n) \in Seq(FrameRecord)
          /\ Len(SubSeq(frames, 1, n)) = IF 1 <= n THEN n - 1 + 1 ELSE 0
          /\ \A h \in 1..(n - 1 + 1) : SubSeq(frames, 1, n)[h] = frames[1 + h - 1]
      BY <2>3, SubSeqProperties
    <2>5. Len(SubSeq(frames, 1, n)) = n
      BY <2>4
    <2>6. \A h \in 1..n : h \in 1..(n - 1 + 1) /\ 1 + h - 1 = h
      OBVIOUS
    <2>7. \A h \in 1..n : SubSeq(frames, 1, n)[h] = frames[h]
      BY <2>4, <2>6
    <2> QED BY <2>2, <2>4, <2>5, <2>7
  <1>6. /\ frames' \in Seq(FrameRecord) /\ Len(frames') = k - 1
        /\ \A h \in 1..(k - 1) : h # k - 1 => frames'[h] = frames[h]
        /\ k > 1 => /\ frames'[k - 1].table = frames[k - 1].table
                    /\ frames'[k - 1].level = frames[k - 1].level
                    /\ frames'[k - 1].num = frames[k - 1].num
                    /\ frames'[k - 1].index = frames[k - 1].index + 1
    <2>1. CASE k = 1
      BY <1>2, <1>4, <1>5, <2>1
    <2>2. CASE k # 1
      <3>1. PICK j \in Nat \ {0} : j = k - 1 /\ j \in 1..Len(up)
        BY <1>4, <1>5, <2>2
      <3>2. PICK f \in FrameRecord : f = up[j] /\ f = frames[j]
        BY <1>5, <3>1
      <3>3. PICK g : g = [f EXCEPT !.index = @ + 1]
        OBVIOUS
      <3>4. /\ g \in FrameRecord /\ g.table = f.table /\ g.level = f.level /\ g.num = f.num
            /\ g.index = f.index + 1
        BY <3>3, NextIndex
      <3>5. frames' = [up EXCEPT ![j] = g]
        BY <1>2, <1>4, <1>5, <2>2, <3>1, <3>2, <3>3
      <3>6. frames' \in Seq(FrameRecord) /\ Len(frames') = Len(up) /\ frames'[j] = g
            /\ \A h \in 1..Len(up) : h # j => frames'[h] = up[h]
        BY <3>1, <3>4, <3>5
      <3> QED BY <1>5, <3>1, <3>2, <3>4, <3>6
    <2> QED BY <2>1, <2>2
  <1>7. /\ Current' = Current /\ NT' = NT /\ L0' = L0 /\ t0sz' = t0sz
        /\ \A n : VmAt(n)' = VmAt(n) /\ First(n)' = First(n) /\ Keeps(n)
    BY <1>2 DEF Current, VmAt, First, t0sz, Keeps, Mapped, Limit, NT, L0,
                number_of_concatenated_page_tables, initial_lookup_level
  <1>8. Progress'
    <2>1. ASSUME NEW n \in 1..Current' PROVE VmOk(VmAt(n))'
      <3>1. VmOk(VmAt(n)) /\ VmAt(n)' = VmAt(n)
        BY <1>3, <1>7 DEF Progress
      <3> QED BY <1>7, <3>1 DEF VmOk
    <2> QED BY <1>2, <1>3, <1>6, <2>1 DEF Progress
  <1>9. Extends(place, place)
    BY <1>2 DEF Extends
  <1>10. ASSUME remaining > 0 PROVE Working(place)'
    <2>1. Working(place) /\ Top.index = Top.num
      BY <1>1, <1>2, <1>10 DEF TreeOk
    <2>2. /\ k \in 1..4 /\ k \in 1..k /\ Top = frames[k] /\ frames[k].index = frames[k].num
          /\ At(k, place) = Slot(ipa, frames[k].level)
      BY <1>4, <2>1 DEF Working, Top
    <2>3. \A h \in 1..k : /\ FrameOk(h, place) /\ frames[h].level = L0 + (h - 1) /\ L0 \in 0..3
                          /\ frames[h].level \in 0..3 /\ frames[h].index \in Nat
                          /\ frames[h].num \in Nat
                          /\ Base(h, place) \in Nat /\ At(h, place) \in Nat
                          /\ At(h, place) = Base(h, place) * E + frames[h].index
      BY <1>1, <1>3, <1>4, <2>1, FrameIs
    <2>4. PICK e \in Nat \ {0} : e = E
      BY Blocks
    <2>5. k # 1
      <3> SUFFICES ASSUME k = 1 PROVE FALSE
        OBVIOUS
      <3>1. frames[1].num = NT * E /\ frames[1].level = L0 /\ Base(1, place) = 0 /\ L0 \in 0..3
        BY <2>2, <2>3 DEF FrameOk, Base
      <3>2. /\ NT \in Nat \ {0} /\ t0sz \in 0..AddressBits /\ AddressBits \in Nat
            /\ Power[AddressBits - t0sz] <= (NT * E) * Block(L0)
        BY <1>3, RootTables DEF Progress
      <3>3. PICK m \in Nat, b \in Nat \ {0} : m = NT * E /\ b = Block(L0)
        <4>1. PICK n \in Nat : n = NT
          BY <3>2
        <4>2. n * e \in Nat
          OBVIOUS
        <4>3. Block(L0) \in Nat \ {0}
          BY <3>1, Blocks
        <4> QED BY <2>4, <4>1, <4>2, <4>3
      <3>4. Slot(ipa, L0) = m
        <4>1. 0 * E + m = m
          BY <2>4
        <4> QED BY <2>2, <2>3, <3>1, <3>3, <4>1
      <3>5. m * b <= ipa
        <4>1. m <= ipa \div b
          BY <3>3, <3>4 DEF Slot
        <4> QED BY <1>3, <4>1, QuotientOrder
      <3>6. vm.region[1] + vm.region[2] <= Power[AddressBits - t0sz]
            /\ ipa + remaining = vm.region[1] + vm.region[2]
        <4>1. Current \in 1..Current /\ VmAt(Current) = vm
          BY <1>3 DEF Progress, Current, VmAt
        <4> QED BY <1>2, <1>3, <4>1 DEF Progress, VmOk
      <3>7. Power[AddressBits - t0sz] \in Nat
        <4>1. AddressBits - t0sz \in Nat
          BY <3>2
        <4> QED BY <4>1, PowerIs
      <3>8. m * b \in Nat /\ Power[AddressBits - t0sz] <= m * b
        BY <3>2, <3>3
      <3>9. vm.region[1] \in Nat /\ vm.region[2] \in Nat
        BY <1>3 DEF Progress, VmRecord
      <3> QED BY <1>3, <1>10, <3>5, <3>6, <3>7, <3>8, <3>9
    <2>6. PICK j \in 1..3 : j = k - 1 /\ j \in 1..k /\ k > 1
      BY <2>2, <2>5
    <2>7. PICK l \in 1..3 : l = frames[k].level /\ frames[j].level = l - 1
      <3>1. /\ frames[k].level = L0 + (k - 1) /\ L0 \in 0..3 /\ frames[k].level \in 0..3
            /\ frames[j].level = L0 + (j - 1)
        BY <2>2, <2>3, <2>6
      <3>2. frames[k].level \in 1..3 /\ frames[j].level = frames[k].level - 1
        BY <2>2, <2>6, <3>1
      <3> QED BY <3>2
    <2>8. PICK u \in Nat : u = At(j, place) /\ Base(k, place) = u /\ frames[k].num = E
                           /\ place[frames[k].table].num = u
      <3>1. FrameOk(k, place) /\ k > 1
        BY <2>2, <2>3, <2>6
      <3>2. /\ frames[k].num = E
            /\ place[frames[k].table] = [vm |-> Current, level |-> frames[k].level,
                                         num |-> At(k - 1, place)]
        BY <3>1 DEF FrameOk
      <3> QED BY <2>3, <2>5, <2>6, <3>2 DEF Base
    <2>9. Slot(ipa, l - 1) = u + 1
      <3>1. Slot(ipa, l) = u * e + e
        BY <2>2, <2>3, <2>4, <2>7, <2>8
      <3>2. (u + 1) * e + 0 = u * e + e
        OBVIOUS
      <3>3. ((u + 1) * e + 0) \div e = u + 1
        <4>1. 0 \in 0..(e - 1) /\ u + 1 \in Nat
          OBVIOUS
        <4> QED BY <4>1, Parts
      <3>4. Slot(ipa, l) \div E = Slot(ipa, l - 1)
        BY <1>3, SlotUp
      <3> QED BY <2>4, <3>1, <3>2, <3>3, <3>4
    <2>10. Depth' = j /\ \A h \in 1..j : frames'[h].table = frames[h].table
      BY <1>6, <2>6 DEF Depth
    <2>11. \A h \in 1..j : Base(h, place)' = Base(h, place)
      BY <2>10 DEF Base
    <2>12. \A h \in 1..j : h # j => frames'[h] = frames[h] /\ At(h, place)' = At(h, place)
      BY <1>6, <2>6, <2>11 DEF At
    <2>13. At(j, place)' = u + 1
      <3>1. PICK y \in Nat : y = Base(j, place) * E
        BY <2>3, <2>4, <2>6
      <3>2. At(j, place) = y + frames[j].index /\ frames[j].index \in Nat
        BY <2>3, <2>6, <3>1
      <3>3. At(j, place)' = y + (frames[j].index + 1)
        BY <1>6, <2>6, <2>11, <3>1 DEF At
      <3> QED BY <2>8, <3>2, <3>3
    <2>14. ASSUME NEW h \in 1..j PROVE FrameOk(h, place)'
      <3>1. FrameOk(h, place) /\ h < Depth /\ h \in 1..k
        BY <1>4, <2>3, <2>6
      <3>2. h > 1 => At(h - 1, place)' = At(h - 1, place)
        <4>1. h > 1 => h - 1 \in 1..j /\ h - 1 # j
          OBVIOUS
        <4> QED BY <2>12, <4>1
      <3>3. CASE h = j
        <4>1. frames[h].index + 1 \in 0..frames[h].num
          <5>1. frames[h].index < frames[h].num
            BY <3>1 DEF FrameOk
          <5> QED BY <2>3, <3>1, <5>1
        <4>2. /\ frames'[h].table = frames[h].table /\ frames'[h].level = frames[h].level
              /\ frames'[h].num = frames[h].num /\ frames'[h].index = frames[h].index + 1
          BY <1>6, <2>6, <3>3
        <4>3. ~(h < Depth')
          BY <2>10, <3>3
        <4> QED BY <1>2, <1>7, <3>1, <3>2, <4>1, <4>2, <4>3 DEF FrameOk
      <3>4. CASE h # j
        <4>1. frames'[h] = frames[h]
          BY <2>12, <3>4
        <4>2. frames'[h + 1].table = frames[h + 1].table
          <5>1. h + 1 \in 1..j
            BY <3>4
          <5> QED BY <2>10, <5>1
        <4>3. Entry(frames[h].table, frames[h].index)' = Entry(frames[h].table, frames[h].index)
          BY <1>2, <4>1 DEF Entry
        <4> QED BY <1>2, <1>7, <3>1, <3>2, <4>1, <4>2, <4>3 DEF FrameOk
      <3> QED BY <3>3, <3>4
    <2>15. At(Depth, place)' = Slot(ipa, Top.level)'
      <3>1. Top'.level = l - 1
        BY <1>6, <2>6, <2>7, <2>10 DEF Top
      <3> QED BY <1>2, <2>9, <2>10, <2>13, <3>1
    <2>16. ASSUME NEW p \in DOMAIN memory, place[p].vm = Current PROVE Finished(p, place)'
      <3>1. Finished(p, place)
        BY <2>1, <2>16 DEF Working
      <3>2. CASE p = frames[k].table
        <4>1. FrameOk(k, place) /\ k > 1
          BY <2>2, <2>3, <2>6
        <4>2. place[p].level = l /\ place[p].num = u
          BY <2>7, <2>8, <3>2, <4>1 DEF FrameOk
        <4>3. u < Slot(ipa, l - 1)
          BY <2>9
        <4> QED BY <1>2, <1>7, <3>1, <4>2, <4>3 DEF Finished
      <3>3. CASE p # frames[k].table
        <4>1. ASSUME NEW h \in 2..Depth, frames[h].table = p
              PROVE  h \in 2..Depth' /\ frames'[h].table = p
          <5>1. h \in 2..k /\ h # k
            BY <1>4, <3>3, <4>1
          <5>2. h \in 2..j /\ h \in 1..j
            BY <2>6, <5>1
          <5> QED BY <2>10, <4>1, <5>2
        <4> QED BY <1>2, <1>7, <3>1, <4>1 DEF Finished
      <3> QED BY <3>2, <3>3
    <2>17. Depth' \in 1..4 /\ \A h \in 1..Depth' : FrameOk(h, place)'
      BY <2>10, <2>14
    <2> QED BY <1>2, <1>7, <2>15, <2>16, <2>17 DEF Working
  <1>11. TreeOk(place)'
    <2>1. ASSUME NEW p \in DOMAIN memory PROVE place[p].vm \in 1..Current' /\ PageOk(p, place)'
      BY <1>1, <1>2, <1>7, <1>9, PageKept DEF TreeOk
    <2>2. ASSUME NEW n, RootOk(n, place) PROVE RootOk(n, place)'
      BY <1>7, <1>9, <2>2, RootKept
    <2>3. PICK c : c = Current
      OBVIOUS
    <2>4. RootOk(c, place)'
      BY <1>3, <2>2, <2>3
    <2>5. RootOk(Current, place)'
      BY <1>7, <2>3, <2>4
    <2> QED BY <1>1, <1>2, <1>10, <2>1, <2>2, <2>5 DEF TreeOk
  <1> QED BY <1>2, <1>8, <1>11 DEF PagingInv

(***************************************************************************)
(* Steps of nothing.                                                       *)
(***************************************************************************)
LEMMA PagingStutter ==
    ASSUME PagingInv, UNCHANGED vars
    PROVE  PagingInv'
  <1>1. /\ geometry' = geometry /\ vms' = vms /\ vm' = vm /\ pc' = pc /\ free' = free
        /\ memory' = memory /\ pa' = pa /\ ipa' = ipa /\ remaining' = remaining
        /\ frames' = frames
    BY DEF vars
  <1>2. PICK place \in [DOMAIN memory -> Places] : TreeOk(place)
    BY DEF PagingInv
  <1>3. /\ Current' = Current /\ NT' = NT /\ L0' = L0 /\ t0sz' = t0sz
        /\ \A n : VmAt(n)' = VmAt(n) /\ First(n)' = First(n) /\ Keeps(n)
    BY <1>1 DEF Current, VmAt, First, t0sz, Keeps, Mapped, Limit, NT, L0,
                number_of_concatenated_page_tables, initial_lookup_level
  <1>4. Progress'
    <2>1. Progress
      BY DEF PagingInv
    <2>2. ASSUME NEW n \in 1..Current' PROVE VmOk(VmAt(n))'
      <3>1. VmOk(VmAt(n)) /\ VmAt(n)' = VmAt(n)
        BY <1>3, <2>1 DEF Progress
      <3> QED BY <1>3, <3>1 DEF VmOk
    <2> QED BY <1>1, <2>1, <2>2 DEF Progress
  <1>5. Extends(place, place)
    BY <1>1 DEF Extends
  <1>6. ASSUME Working(place) PROVE Working(place)'
    <2>1. \A k : Base(k, place)' = Base(k, place) /\ At(k, place)' = At(k, place)
      BY <1>1 DEF Base, At
    <2>2. Depth' = Depth /\ Top' = Top /\ \A t, i : Entry(t, i)' = Entry(t, i)
      BY <1>1 DEF Depth, Top, Entry
    <2>3. ASSUME NEW k, FrameOk(k, place) PROVE FrameOk(k, place)'
      <3>1. Entry(frames[k].table, frames[k].index)' = Entry(frames[k].table, frames[k].index)
        BY <1>1 DEF Entry
      <3> QED BY <1>1, <1>3, <2>1, <2>2, <2>3, <3>1 DEF FrameOk
    <2>4. ASSUME NEW p, Finished(p, place) PROVE Finished(p, place)'
      BY <1>1, <1>3, <2>2, <2>4 DEF Finished
    <2>5. At(Depth, place)' = At(Depth, place)
      BY <1>1 DEF Base, At, Depth
    <2> QED BY <1>1, <1>3, <1>6, <2>2, <2>3, <2>4, <2>5 DEF Working
  <1>7. TreeOk(place)'
    <2>1. ASSUME NEW p \in DOMAIN memory
          PROVE  /\ place[p].vm \in 1..Current' /\ PageOk(p, place)'
                 /\ pc \in {"idle", "init"} => place[p].vm # Current'
      BY <1>1, <1>2, <1>3, <1>5, PageKept DEF TreeOk
    <2>2. ASSUME NEW n, RootOk(n, place) PROVE RootOk(n, place)'
      BY <1>3, <1>5, <2>2, RootKept
    <2>3. PICK c : c = Current
      OBVIOUS
    <2>4. RootOk(Current, place) => RootOk(Current, place)'
      <3>1. RootOk(c, place) => RootOk(c, place)'
        BY <2>2
      <3> QED BY <1>3, <2>3, <3>1
    <2> QED BY <1>1, <1>2, <1>3, <1>6, <2>1, <2>2, <2>4 DEF TreeOk
  <1> QED BY <1>1, <1>4, <1>7 DEF PagingInv

-----------------------------------------------------------------------------
(* Theorems *)

(***************************************************************************)
(* The invariant holds for every geometry, every region and every memory.  *)
(***************************************************************************)
THEOREM PagingInvariant == Spec => []PagingInv
  <1>1. Init => PagingInv
    BY PagingInit
  <1>2. PagingInv /\ [Next]_vars => PagingInv'
    <2> SUFFICES ASSUME PagingInv, [Next]_vars PROVE PagingInv'
      OBVIOUS
    <2>1. CASE UNCHANGED vars
      BY <2>1, PagingStutter
    <2>2. ASSUME NEW r \in Regions, NEW p \in RamBases, AllocateRam(r, p) PROVE PagingInv'
      BY <2>2, AllocateRamStep
    <2>3. CASE AllocateRamFails \/ AllocateTableFails
      BY <2>3, PanicStep DEF AllocateRamFails, AllocateTableFails
    <2>4. CASE init_stage2_translation_table
      BY <2>4, InitTableStep
    <2>5. CASE map_address_stage2
      BY <2>5, MapAddressStep
    <2>6. CASE Walk
      BY <2>6, MapPageStep, MapBlockStep, EnterTableStep, LeaveTableStep, MapDoneStep DEF Walk
    <2>7. CASE Halted
      BY <2>7, PagingStutter DEF Halted
    <2> QED BY <2>1, <2>2, <2>3, <2>4, <2>5, <2>6, <2>7 DEF Next
  <1> QED BY <1>1, <1>2, PTL DEF Spec

(***************************************************************************)
(* The tables of every VM that is created translate its RAM, and nothing   *)
(* else, to the memory allocated for it.                                   *)
(***************************************************************************)
THEOREM GuestMemoryIsMappedExactly == Spec => []MappedExactly
  <1>1. PagingInv => MappedExactly
    BY InvMapped
  <1> QED BY <1>1, PagingInvariant, PTL

(***************************************************************************)
(* Tables under construction never lead out of the tables, or to a page    *)
(* that is not the VM's.                                                   *)
(***************************************************************************)
THEOREM NothingStrayIsMapped == Spec => []NoStrayMapping
  <1>1. PagingInv => NoStrayMapping
    BY InvMapped
  <1> QED BY <1>1, PagingInvariant, PTL

-----------------------------------------------------------------------------
(* One VM's memory is no other's, and no table *)

\* The memory allocated for VM n.
Ram(n) == Run(VmAt(n).ram, VmAt(n).region[2])

\* It belongs to no other VM, to no table, and is not free.
RamApart ==
    \A n \in 1..Current :
        /\ Ram(n) \cap free = {} /\ Ram(n) \cap DOMAIN memory = {}
        /\ \A m \in 1..Current : m # n => Ram(n) \cap Ram(m) = {}

(***************************************************************************)
(* Whatever two VMs that are created access, they never reach the same     *)
(* page, a VM never the same one by two addresses, and none reaches a      *)
(* translation table, its own or another's, or a page nobody has.          *)
(***************************************************************************)
GuestsApart ==
    \A n, m \in 1..Len(vms), a, b \in Ipas :
        LET x == Translate(vms[n], a)
            y == Translate(vms[m], b)
        IN  x.kind = "page" =>
                /\ x.page \notin DOMAIN memory \cup free
                /\ y.kind = "page" /\ y.page = x.page => n = m /\ a = b

(***************************************************************************)
(* Memory handed out, for a VM or for a table, is not free any more.       *)
(***************************************************************************)
LEMMA ApartStep ==
    ASSUME PagingInv, RamApart, [Next]_vars
    PROVE  RamApart'
  <1>0. Progress /\ Len(vms) \in Nat /\ Current = Len(vms) + 1
    BY DEF PagingInv, Progress, Current
  <1>1. ASSUME NEW r, NEW ram, AllocateRam(r, ram) PROVE RamApart'
    <2>1. /\ Run(ram, r[2]) \subseteq free /\ free' = free \ Run(ram, r[2]) /\ memory' = memory
          /\ vm' = [region |-> r, ram |-> ram, root |-> 0] /\ vms' = vms
      BY <1>1 DEF AllocateRam
    <2>2. Current' = Current
      BY <2>1 DEF Current
    <2>3. PICK c : c = Current
      OBVIOUS
    <2>4. Ram(c)' = Run(ram, r[2]) /\ \A n : n # c => Ram(n)' = Ram(n)
      BY <2>1, <2>2, <2>3 DEF Ram, VmAt, Run
    <2>5. free \cap DOMAIN memory = {}
      BY <1>0 DEF Progress
    <2> QED BY <2>1, <2>2, <2>3, <2>4, <2>5 DEF RamApart
  <1>2. ASSUME Current' = Current, \A n : Ram(n)' = Ram(n),
               NEW new, new \subseteq free, free' = free \ new, DOMAIN memory' = DOMAIN memory \cup new
        PROVE  RamApart'
    BY <1>2 DEF RamApart
  <1>3. CASE init_stage2_translation_table
    <2> DEFINE align == Power[NT - 1]
               root == LowestRun(NT, align)
               new == Run(root, NT)
    <2>1. CASE Panic
      <3>2. vm' = vm /\ vms' = vms /\ free' = free /\ memory' = memory
        BY <2>1 DEF Panic
      <3>3. Current' = Current /\ \A n : Ram(n)' = Ram(n)
        BY <3>2 DEF Ram, VmAt, Current
      <3> QED BY <1>2, <3>2, <3>3
    <2>2. CASE ~Panic
      <3>0. HasRun(NT, align)
        BY <1>3, <2>2 DEF init_stage2_translation_table, NT
      <3>1. /\ free' = free \ new /\ memory' = Cleared(new) /\ vm' = [vm EXCEPT !.root = root]
            /\ vms' = vms
        BY <1>3, <2>2 DEF init_stage2_translation_table, NT
      <3>2. new \subseteq free
        BY <1>0, <3>0, LowestRunIs DEF Progress
      <3> HIDE DEF new, root
      <3>3. vm'.region = vm.region /\ vm'.ram = vm.ram
        BY <1>0, <3>1 DEF Progress, VmRecord
      <3>4. Current' = Current /\ \A n : Ram(n)' = Ram(n)
        BY <3>1, <3>3 DEF Current, Ram, VmAt, Run
      <3>5. DOMAIN memory' = DOMAIN memory \cup new
        BY <3>1 DEF Cleared
      <3> QED BY <1>2, <3>1, <3>2, <3>4, <3>5
    <2> QED BY <2>1, <2>2
  <1>4. CASE EnterTable
    <2>1. vms' = vms /\ vm' = vm
      BY <1>4 DEF EnterTable
    <2>2. Current' = Current /\ \A n : Ram(n)' = Ram(n)
      BY <2>1 DEF Current, Ram, VmAt, Run
    <2>3. \E new : new \subseteq free /\ free' = free \ new /\ DOMAIN memory' = DOMAIN memory \cup new
      <3>1. CASE Entry(Top.table, Top.index).bits = 3
        <4>1. free' = free /\ memory' = memory
          BY <1>4, <3>1 DEF EnterTable
        <4>2. {} \subseteq free /\ free' = free \ {} /\ DOMAIN memory' = DOMAIN memory \cup {}
          BY <4>1
        <4> QED BY <4>2
      <3>2. CASE Entry(Top.table, Top.index).bits # 3
        <4>1. /\ HasRun(1, 1) /\ free' = free \ {LowestRun(1, 1)}
              /\ DOMAIN memory' = DOMAIN memory \cup {LowestRun(1, 1)}
          BY <1>4, <3>2 DEF EnterTable
        <4>2. LowestRun(1, 1) \in free
          BY <1>0, <4>1, LowestRunIs DEF Progress
        <4> QED BY <4>1, <4>2
      <3> QED BY <3>1, <3>2
    <2> QED BY <1>2, <2>2, <2>3
  <1>5. CASE MapDone
    <2>1. vms' = Append(vms, vm) /\ vm' = NoVm /\ free' = free /\ memory' = memory
      BY <1>5 DEF MapDone
    <2>2. PICK c \in Nat : c = Current /\ c = Len(vms) + 1
      BY <1>0
    <2>3. /\ Len(vms') = c /\ Current' = c + 1 /\ vms'[c] = vm
          /\ \A n \in 1..Len(vms) : vms'[n] = vms[n]
      BY <1>0, <2>1, <2>2 DEF Progress, Current
    <2>4. ASSUME NEW n \in 1..c PROVE Ram(n)' = Ram(n)
      <3>1. VmAt(n)' = VmAt(n)
        BY <2>2, <2>3 DEF VmAt
      <3> QED BY <3>1 DEF Ram, Run
    <2>5. PICK x \in Nat : x = c + 1 /\ Ram(x)' = {}
      <3>1. PICK x \in Nat : x = c + 1
        OBVIOUS
      <3>2. VmAt(x)' = NoVm
        BY <2>1, <2>3, <3>1 DEF VmAt
      <3>3. Run(0, 0) = {}
        BY DEF Run
      <3>4. Ram(x)' = Run(0, 0)
        BY <3>2 DEF Ram, NoVm, Run
      <3> QED BY <3>1, <3>3, <3>4
    <2>6. \A n \in 1..Current' : n \in 1..c \/ n = x
      BY <2>3, <2>5
    <2> QED BY <2>1, <2>2, <2>4, <2>5, <2>6 DEF RamApart
  <1>6. CASE /\ vms' = vms /\ vm' = vm /\ free' = free /\ DOMAIN memory' = DOMAIN memory
    <2>1. Current' = Current /\ \A n : Ram(n)' = Ram(n)
      BY <1>6 DEF Current, Ram, VmAt, Run
    <2>2. {} \subseteq free /\ free' = free \ {} /\ DOMAIN memory' = DOMAIN memory \cup {}
      BY <1>6
    <2> QED BY <1>2, <2>1, <2>2
  <1>7. CASE MapPage \/ MapBlock
    <2>1. DOMAIN memory' = DOMAIN memory
      BY <1>7 DEF MapPage, MapBlock, SetEntry
    <2> QED BY <1>6, <1>7, <2>1 DEF MapPage, MapBlock
  <1>8. CASE map_address_stage2 \/ LeaveTable \/ AllocateRamFails \/ AllocateTableFails
    BY <1>6, <1>8 DEF map_address_stage2, LeaveTable, AllocateRamFails, AllocateTableFails, Panic
  <1>9. CASE UNCHANGED vars
    BY <1>6, <1>9 DEF vars
  <1> QED BY <1>1, <1>3, <1>4, <1>5, <1>7, <1>8, <1>9 DEF Next, Walk, Halted

(***************************************************************************)
(* VMs are isolated from each other and from the hypervisor's tables.      *)
(***************************************************************************)
THEOREM GuestsAreApart == Spec => []GuestsApart
  <1>1. Init => RamApart
    <2> SUFFICES ASSUME Init PROVE RamApart
      OBVIOUS
    <2>1. Current = 1 /\ VmAt(1) = NoVm
      BY DEF Init, Current, VmAt
    <2>2. Ram(1) = {}
      BY <2>1 DEF Ram, Run, NoVm
    <2> QED BY <2>1, <2>2 DEF RamApart
  <1>2. PagingInv /\ RamApart /\ [Next]_vars => RamApart'
    BY ApartStep
  <1>3. PagingInv /\ RamApart => GuestsApart
    <2> SUFFICES ASSUME PagingInv, RamApart PROVE GuestsApart
      OBVIOUS
    <2>1. ASSUME NEW n \in 1..Len(vms), NEW a \in Ipas, Translate(vms[n], a).kind = "page"
          PROVE  /\ n \in 1..Current /\ VmAt(n) = vms[n]
                 /\ Translate(vms[n], a).page \in Ram(n)
                 /\ Translate(vms[n], a).page = vms[n].ram + (a - vms[n].region[1])
                 /\ vms[n].ram \in Nat /\ vms[n].region[1] \in Nat /\ a \in Int
      <3>1. n \in 1..Current /\ VmAt(n) = vms[n] /\ vms[n] \in VmRecord
        BY DEF PagingInv, Progress, Current, VmAt
      <3>2. PICK f \in Nat, s \in Nat, g \in Nat :
                f = vms[n].region[1] /\ s = vms[n].region[2] /\ g = vms[n].ram
        BY <3>1 DEF VmRecord
      <3>3. InRam(vms[n], a) /\ Translate(vms[n], a).page = g + (a - f)
        <4>1. MappedExactly
          BY InvMapped
        <4>2. PICK x : x = Translate(vms[n], a)
          OBVIOUS
        <4>3. x = IF InRam(vms[n], a)
                  THEN [kind |-> "page", page |-> vms[n].ram + (a - vms[n].region[1]),
                        permission |-> ReadWrite]
                  ELSE [kind |-> "fault"]
          BY <4>1, <4>2 DEF MappedExactly
        <4>4. InRam(vms[n], a)
          <5>1. ASSUME ~InRam(vms[n], a) PROVE FALSE
            <6>1. x = [kind |-> "fault"]
              BY <4>3, <5>1
            <6> QED BY <2>1, <4>2, <6>1
          <5> QED BY <5>1
        <4> QED BY <3>2, <4>2, <4>3, <4>4
      <3>4. a \in f..(f + s - 1)
        BY <3>2, <3>3 DEF InRam, Run
      <3>5. g + (a - f) \in g..(g + s - 1)
        BY <3>4
      <3>6. Ram(n) = g..(g + s - 1)
        BY <3>1, <3>2 DEF Ram, Run
      <3> QED BY <3>1, <3>2, <3>3, <3>4, <3>5, <3>6
    <2>2. ASSUME NEW n \in 1..Len(vms), NEW m \in 1..Len(vms), NEW a \in Ipas, NEW b \in Ipas,
                 Translate(vms[n], a).kind = "page"
          PROVE  /\ Translate(vms[n], a).page \notin DOMAIN memory \cup free
                 /\ (/\ Translate(vms[m], b).kind = "page"
                     /\ Translate(vms[m], b).page = Translate(vms[n], a).page)
                        => n = m /\ a = b
      <3>1. Translate(vms[n], a).page \notin DOMAIN memory \cup free
        BY <2>1, <2>2 DEF RamApart
      <3>2. ASSUME Translate(vms[m], b).kind = "page",
                   Translate(vms[m], b).page = Translate(vms[n], a).page
            PROVE  n = m /\ a = b
        <4>1. n = m
          BY <2>1, <2>2, <3>2 DEF RamApart
        <4>2. PICK f \in Nat, g \in Nat : f = vms[n].region[1] /\ g = vms[n].ram
          BY <2>1, <2>2
        <4>3. g + (a - f) = g + (b - f) /\ a \in Int /\ b \in Int
          BY <2>1, <2>2, <3>2, <4>1, <4>2
        <4> QED BY <4>1, <4>3
      <3> QED BY <3>1, <3>2
    <2> QED BY <2>2 DEF GuestsApart
  <1> QED BY <1>1, <1>2, <1>3, PagingInvariant, PTL DEF Spec

=============================================================================
