------------------------- MODULE MemoryAllocatorProofs -------------------------
(***************************************************************************)
(* Proofs about MemoryAllocator, for RAM, reserved ranges, requests and    *)
(* pools of any size: the chain stays coalesced, the free lists exact, and *)
(* the allocator implements PageOwnership.                                 *)
(***************************************************************************)
EXTENDS MemoryAllocator, FiniteSetTheorems, WellFoundedInduction, TLAPS

PageOrder(e) == size_to_page_order(get_size(e))

\* Smaller entries first, none twice.
InSizeOrder(list) ==
    \A n \in 1..Len(list) : \A m \in 1..(n - 1) :
        list[m] # list[n] /\ get_size(list[m]) <= get_size(list[n])

\* The lists fl hold these entries, each in the list of its order.
Indexed(fl, entries) ==
    \A o \in Order :
        /\ InSizeOrder(fl[o])
        /\ Elements(fl[o]) = {e \in entries : PageOrder(e) = o}

Lists == [Order -> Seq(Block)]

\* The bytes of a set of entries.
Cover(entries) == UNION {Bytes(e) : e \in entries}

\* ChainCoalesced, said of any chain and any two of its entries.
Coalesced(c) ==
    /\ \A n \in 1..Len(c) : c[n].start < c[n].end
    /\ \A n \in 1..Len(c) : \A m \in 1..(n - 1) : c[m].end + 1 < c[n].start

-----------------------------------------------------------------------------
(* Helpers *)

(***************************************************************************)
(* A set of numbers that is not empty has a minimum.                       *)
(***************************************************************************)
LEMMA MinimumIs ==
    ASSUME NEW S \in SUBSET Nat, S # {}
    PROVE  Minimum(S) \in S /\ \A y \in S : Minimum(S) <= y
  <1> DEFINE R == OpToRel(<, Nat)
  <1>1. IsWellFoundedOn(R, Nat)
    BY NatLessThanWellFounded
  <1>2. \A x, y \in Nat : <<y, x>> \in R <=> y < x
    BY DEF OpToRel
  <1> HIDE DEF R
  <1>3. \E x \in S : \A y \in S : ~(<<y, x>> \in R)
    BY <1>1, WFMin, Zenon
  <1>4. \A x, y \in Nat : ~(y < x) => x <= y
    OBVIOUS
  <1>5. \E x \in S : \A y \in S : x <= y
    BY <1>2, <1>3, <1>4, Zenon
  <1> QED BY <1>5, Zenon DEF Minimum

(***************************************************************************)
(* Every size has a page order.                                            *)
(***************************************************************************)
LEMMA OrderOf ==
    ASSUME NEW size \in Int
    PROVE  size_to_page_order(size) \in Order
  <1> DEFINE S == {o \in Order : size <= PAGE_SIZE * 2^o} \cup {NUM_OF_FREE_LIST - 1}
  <1>1. S \in SUBSET Nat /\ S # {} /\ S \subseteq Order
    BY PoolAssumption DEF Order
  <1>2. size_to_page_order(size) = Minimum(S)
    BY DEF size_to_page_order
  <1> HIDE DEF S
  <1> QED BY <1>1, <1>2, MinimumIs

(***************************************************************************)
(* A larger size has no lower page order.                                  *)
(***************************************************************************)
LEMMA OrderRises ==
    ASSUME NEW small \in Int, NEW large \in Int, small <= large
    PROVE  size_to_page_order(small) <= size_to_page_order(large)
  <1> DEFINE S(size) == {o \in Order : size <= PAGE_SIZE * 2^o} \cup {NUM_OF_FREE_LIST - 1}
  <1>1. S(small) \in SUBSET Nat /\ S(small) # {} /\ S(large) \in SUBSET Nat /\ S(large) # {}
    BY PoolAssumption DEF Order
  <1>2. S(large) \subseteq S(small)
    <2>1. ASSUME NEW o \in Order, large <= PAGE_SIZE * 2^o PROVE small <= PAGE_SIZE * 2^o
      <3>1. o \in Nat /\ PAGE_SIZE \in Nat
        BY PoolAssumption, SizeAssumption DEF Order
      <3> QED BY <2>1, <3>1
    <2> QED BY <2>1
  <1>3. size_to_page_order(small) = Minimum(S(small)) /\ size_to_page_order(large) = Minimum(S(large))
    BY DEF size_to_page_order
  <1> HIDE DEF S
  <1>4. Minimum(S(large)) \in S(large)
    BY <1>1, MinimumIs
  <1>5. \A y \in S(small) : Minimum(S(small)) <= y
    BY <1>1, MinimumIs
  <1> QED BY <1>2, <1>3, <1>4, <1>5

(***************************************************************************)
(* What Splice returns, position by position.                              *)
(***************************************************************************)
LEMMA SpliceIs ==
    ASSUME NEW s \in Seq(Block), NEW t \in Seq(Block),
           NEW i \in 1..(Len(s) + 1), NEW j \in (i - 1)..Len(s),
           NEW r, r = Splice(s, i, j, t)
    PROVE  /\ r \in Seq(Block)
           /\ Len(r) = (i - 1) + Len(t) + (Len(s) - j)
           /\ \A n \in 1..Len(r) :
                /\ n < i => r[n] = s[n]
                /\ i <= n /\ n < i + Len(t) => r[n] = t[n - i + 1]
                /\ i + Len(t) <= n => r[n] = s[n - i - Len(t) + 1 + j]
  <1> DEFINE a == SubSeq(s, 1, i - 1)
             z == SubSeq(s, j + 1, Len(s))
  <1>1. a \in Seq(Block) /\ Len(a) = i - 1 /\ \A n \in 1..(i - 1) : a[n] = s[n]
    OBVIOUS
  <1>2. z \in Seq(Block) /\ Len(z) = Len(s) - j /\ \A n \in 1..(Len(s) - j) : z[n] = s[j + n]
    OBVIOUS
  <1>3. r = (a \o t) \o z
    BY DEF Splice
  <1> HIDE DEF a, z
  <1> DEFINE at == a \o t
  <1>4. /\ at \in Seq(Block) /\ Len(at) = (i - 1) + Len(t)
        /\ \A n \in 1..(i - 1) : at[n] = s[n]
        /\ \A n \in i..(i - 1 + Len(t)) : at[n] = t[n - i + 1]
    BY <1>1, SMTT(30)
  <1>5. r = at \o z
    BY <1>3
  <1> HIDE DEF at
  <1>6. /\ r \in Seq(Block) /\ Len(r) = Len(at) + Len(z)
        /\ \A n \in 1..Len(at) : r[n] = at[n]
        /\ \A n \in (Len(at) + 1)..Len(r) : r[n] = z[n - Len(at)]
    <2>1. at \in Seq(Block) /\ z \in Seq(Block)
      BY <1>2, <1>4
    <2>2. /\ at \o z \in Seq(Block) /\ Len(at \o z) = Len(at) + Len(z)
          /\ \A n \in 1..Len(at) : (at \o z)[n] = at[n]
          /\ \A n \in (Len(at) + 1)..Len(at \o z) : (at \o z)[n] = z[n - Len(at)]
      BY <2>1
    <2> QED BY <1>5, <2>2, Zenon
  <1>7. Len(r) = (i - 1) + Len(t) + (Len(s) - j)
    BY <1>2, <1>4, <1>6
  <1>8. ASSUME NEW n \in 1..Len(r) PROVE
                /\ n < i => r[n] = s[n]
                /\ i <= n /\ n < i + Len(t) => r[n] = t[n - i + 1]
                /\ i + Len(t) <= n => r[n] = s[n - i - Len(t) + 1 + j]
    <2>0. Len(s) \in Nat /\ Len(t) \in Nat
      OBVIOUS
    <2>1. CASE n < i
      <3>1. n \in 1..Len(at) /\ n \in 1..(i - 1)
        BY <1>4, <2>0, <2>1
      <3>2. r[n] = s[n]
        BY <1>4, <1>6, <3>1
      <3>3. ~(i <= n) /\ ~(i + Len(t) <= n)
        BY <2>0, <2>1
      <3> QED BY <3>2, <3>3
    <2>2. CASE i <= n /\ n < i + Len(t)
      <3>1. n \in 1..Len(at) /\ n \in i..(i - 1 + Len(t))
        BY <1>4, <2>0, <2>2
      <3> QED BY <1>4, <1>6, <2>0, <2>2, <3>1
    <2>3. CASE i + Len(t) <= n
      <3>1. n \in (Len(at) + 1)..Len(r) /\ n - Len(at) \in 1..(Len(s) - j)
        BY <1>4, <1>7, <2>0, <2>3
      <3>2. r[n] = z[n - Len(at)] /\ z[n - Len(at)] = s[j + (n - Len(at))]
        BY <1>2, <1>6, <3>1
      <3>3. j + (n - Len(at)) = n - i - Len(t) + 1 + j
        BY <1>4, <2>0
      <3>4. ~(n < i) /\ ~(n < i + Len(t))
        BY <2>0, <2>3
      <3> QED BY <3>2, <3>3, <3>4
    <2> QED BY <2>0, <2>1, <2>2, <2>3
  <1> QED BY <1>6, <1>7, <1>8

(***************************************************************************)
(* What Splice returns as a set: the entries it keeps and the new ones.    *)
(***************************************************************************)
LEMMA SpliceElements ==
    ASSUME NEW s \in Seq(Block), NEW t \in Seq(Block),
           NEW i \in 1..(Len(s) + 1), NEW j \in (i - 1)..Len(s),
           NEW r, r = Splice(s, i, j, t)
    PROVE  Elements(r) = {s[n] : n \in (1..Len(s)) \ (i..j)} \cup Elements(t)
  <1>0. Len(s) \in Nat /\ Len(t) \in Nat
    OBVIOUS
  <1>1. /\ r \in Seq(Block)
        /\ Len(r) = (i - 1) + Len(t) + (Len(s) - j)
        /\ \A n \in 1..Len(r) :
                /\ n < i => r[n] = s[n]
                /\ i <= n /\ n < i + Len(t) => r[n] = t[n - i + 1]
                /\ i + Len(t) <= n => r[n] = s[n - i - Len(t) + 1 + j]
    <2>1. r \in Seq(Block)
      BY SpliceIs
    <2>2. Len(r) = (i - 1) + Len(t) + (Len(s) - j)
      BY SpliceIs, ZenonT(60)
    <2>3. \A n \in 1..Len(r) :
                /\ n < i => r[n] = s[n]
                /\ i <= n /\ n < i + Len(t) => r[n] = t[n - i + 1]
                /\ i + Len(t) <= n => r[n] = s[n - i - Len(t) + 1 + j]
      BY SpliceIs
    <2> QED BY <2>1, <2>2, <2>3
  <1>2. ASSUME NEW n \in 1..Len(r)
        PROVE  r[n] \in {s[p] : p \in (1..Len(s)) \ (i..j)} \cup Elements(t)
    <2>1. CASE n < i
      <3>1. n \in (1..Len(s)) \ (i..j) /\ r[n] = s[n]
        BY <1>0, <1>1, <2>1
      <3> QED BY <3>1
    <2>2. CASE i <= n /\ n < i + Len(t)
      <3>1. r[n] = t[n - i + 1]
        BY <1>1, <2>2
      <3>2. PICK p \in 1..Len(t) : p = n - i + 1
        BY <1>0, <2>2
      <3> QED BY <3>1, <3>2 DEF Elements
    <2>3. CASE i + Len(t) <= n
      <3>1. PICK p \in (1..Len(s)) \ (i..j) : p = n - i - Len(t) + 1 + j
        <4>1. n - i - Len(t) + 1 + j \in (1..Len(s)) \ (i..j)
          BY <1>0, <1>1, <2>3
        <4> QED BY <4>1
      <3>2. r[n] = s[p]
        BY <1>1, <2>3, <3>1
      <3>3. s[p] \in {s[q] : q \in (1..Len(s)) \ (i..j)}
        OBVIOUS
      <3> QED BY <3>2, <3>3, Zenon
    <2>4. \/ n < i
          \/ i <= n /\ n < i + Len(t)
          \/ i + Len(t) <= n
      BY <1>0
    <2> QED BY <2>1, <2>2, <2>3, <2>4, Zenon
  <1>3. ASSUME NEW n \in (1..Len(s)) \ (i..j)
        PROVE  \E p \in 1..Len(r) : r[p] = s[n]
    <2>1. CASE n < i
      <3>1. n \in 1..Len(r)
        BY <1>0, <1>1, <2>1
      <3> QED BY <1>1, <2>1, <3>1
    <2>2. CASE n > j
      <3>1. PICK p \in Int : p = n - j - 1 + i + Len(t)
        <4>1. n - j - 1 + i + Len(t) \in Int
          BY <1>0
        <4> QED BY <4>1
      <3>2. p \in 1..Len(r) /\ i + Len(t) <= p /\ p - i - Len(t) + 1 + j = n
        BY <1>0, <1>1, <2>2, <3>1
      <3> QED BY <1>1, <3>2
    <2> QED BY <2>1, <2>2
  <1>4. ASSUME NEW n \in 1..Len(t)
        PROVE  \E p \in 1..Len(r) : r[p] = t[n]
    <2>1. PICK p \in Int : p = n + i - 1
      OBVIOUS
    <2>2. p \in 1..Len(r) /\ i <= p /\ p < i + Len(t) /\ p - i + 1 = n
      BY <1>0, <1>1, <2>1
    <2> QED BY <1>1, <2>2
  <1>5. Elements(r) \subseteq {s[n] : n \in (1..Len(s)) \ (i..j)} \cup Elements(t)
    BY <1>2, Zenon DEF Elements
  <1>6. {s[n] : n \in (1..Len(s)) \ (i..j)} \subseteq Elements(r)
    BY <1>3, Zenon DEF Elements
  <1>7. Elements(t) \subseteq Elements(r)
    BY <1>4, Zenon DEF Elements
  <1> QED BY <1>5, <1>6, <1>7, Zenon

-----------------------------------------------------------------------------
(* The lists by page order *)

(***************************************************************************)
(* The page order of an entry is one of the orders.                        *)
(***************************************************************************)
LEMMA SizeOf ==
    ASSUME NEW e \in Block
    PROVE  get_size(e) \in Int /\ PageOrder(e) \in Order
  <1>1. get_size(e) \in Int
    BY DEF get_size, Block
  <1> QED BY <1>1, OrderOf DEF PageOrder

(***************************************************************************)
(* One element more: the positions of the new list.                        *)
(***************************************************************************)
LEMMA SpliceOne ==
    ASSUME NEW list \in Seq(Block), NEW e \in Block, NEW k \in 1..(Len(list) + 1),
           NEW new, new = Splice(list, k, k - 1, <<e>>)
    PROVE  /\ new \in Seq(Block) /\ Len(new) = Len(list) + 1
           /\ \A n \in 1..Len(new) : /\ n < k => new[n] = list[n]
                                     /\ n = k => new[n] = e
                                     /\ n > k => new[n] = list[n - 1]
           /\ Elements(new) = Elements(list) \cup {e}
  <1>0. Len(list) \in Nat
    OBVIOUS
  <1>1. PICK t \in Seq(Block) : t = <<e>>
    <2>1. <<e>> \in Seq(Block)
      OBVIOUS
    <2> QED BY <2>1
  <1>2. Len(t) = 1 /\ t[1] = e
    BY <1>1
  <1>3. PICK j \in (k - 1)..Len(list) : j = k - 1
    <2>1. k - 1 \in (k - 1)..Len(list)
      BY <1>0
    <2> QED BY <2>1
  <1>4. new = Splice(list, k, j, t)
    BY <1>1, <1>3
  <1>5. new \in Seq(Block)
    BY <1>4, SpliceIs
  <1>6. Len(new) = Len(list) + 1
    <2>1. Len(new) = (k - 1) + Len(t) + (Len(list) - j)
      BY <1>4, SpliceIs, ZenonT(60)
    <2> QED BY <1>0, <1>2, <1>3, <2>1
  <1>7. ASSUME NEW n \in 1..Len(new)
        PROVE  /\ n < k => new[n] = list[n]
               /\ n = k => new[n] = e
               /\ n > k => new[n] = list[n - 1]
    <2>1. /\ n < k => new[n] = list[n]
          /\ k <= n /\ n < k + Len(t) => new[n] = t[n - k + 1]
          /\ k + Len(t) <= n => new[n] = list[n - k - Len(t) + 1 + j]
      BY <1>4, SpliceIs
    <2>2. n = k => new[n] = e
      <3>1. n = k => k <= n /\ n < k + 1 /\ n - k + 1 = 1
        OBVIOUS
      <3> QED BY <1>2, <2>1, <3>1
    <2>3. n > k => new[n] = list[n - 1]
      <3>1. n > k => k + 1 <= n /\ n - k - 1 + 1 + j = n - 1
        BY <1>3
      <3> QED BY <1>2, <2>1, <3>1
    <2> QED BY <2>1, <2>2, <2>3
  <1>8. Elements(new) = Elements(list) \cup {e}
    <2>1. Elements(new) = {list[n] : n \in (1..Len(list)) \ (k..j)} \cup Elements(t)
      BY <1>4, SpliceElements
    <2>2. Elements(t) = {e}
      BY <1>2 DEF Elements
    <2>3. \A n \in 1..Len(list) : n \notin k..j
      BY <1>0, <1>3
    <2>4. {list[n] : n \in (1..Len(list)) \ (k..j)} = Elements(list)
      BY <2>3 DEF Elements
    <2> QED BY <2>1, <2>2, <2>4
  <1> QED BY <1>5, <1>6, <1>7, <1>8

\* The list without its element k.
OneLess(new, list, k) ==
    \A n \in 1..Len(new) : /\ n < k => new[n] = list[n]
                           /\ n >= k => new[n] = list[n + 1]

(***************************************************************************)
(* Splice with nothing in the place of one element.                        *)
(***************************************************************************)
LEMMA SpliceNone ==
    ASSUME NEW list \in Seq(Block), NEW k \in 1..Len(list),
           NEW new, new = Splice(list, k, k, <<>>)
    PROVE  /\ new \in Seq(Block) /\ Len(new) = Len(list) - 1
           /\ OneLess(new, list, k)
           /\ Elements(new) = {list[n] : n \in (1..Len(list)) \ {k}}
  <1>0. Len(list) \in Nat
    OBVIOUS
  <1>1. PICK t \in Seq(Block) : t = <<>>
    <2>1. <<>> \in Seq(Block)
      OBVIOUS
    <2> QED BY <2>1
  <1>2. Len(t) = 0
    BY <1>1
  <1>3. k \in 1..(Len(list) + 1) /\ k \in (k - 1)..Len(list)
    BY <1>0
  <1>4. new = Splice(list, k, k, t)
    BY <1>1
  <1>5. new \in Seq(Block)
    BY <1>3, <1>4, SpliceIs
  <1>6. Len(new) = Len(list) - 1
    <2>1. Len(new) = (k - 1) + Len(t) + (Len(list) - k)
      BY <1>3, <1>4, SpliceIs, ZenonT(60)
    <2> QED BY <1>0, <1>2, <2>1
  <1>7. ASSUME NEW n \in 1..Len(new)
        PROVE  /\ n < k => new[n] = list[n]
               /\ n >= k => new[n] = list[n + 1]
    <2>1. /\ n < k => new[n] = list[n]
          /\ k + Len(t) <= n => new[n] = list[n - k - Len(t) + 1 + k]
      BY <1>3, <1>4, SpliceIs
    <2>2. n >= k => k + 0 <= n /\ n - k - 0 + 1 + k = n + 1
      OBVIOUS
    <2> QED BY <1>2, <2>1, <2>2
  <1>8. Elements(new) = {list[n] : n \in (1..Len(list)) \ {k}}
    <2>1. PICK j \in (k - 1)..Len(list) : j = k
      BY <1>3
    <2>2. Elements(new) = {list[n] : n \in (1..Len(list)) \ (k..j)} \cup Elements(t)
      BY <1>3, <1>4, <2>1, SpliceElements
    <2>3. Elements(t) = {}
      BY <1>2 DEF Elements
    <2>4. \A n \in 1..Len(list) : n \in k..j <=> n \in {k}
      BY <2>1
    <2> QED BY <2>2, <2>3, <2>4
  <1>9. OneLess(new, list, k)
    BY <1>7 DEF OneLess
  <1> QED BY <1>5, <1>6, <1>8, <1>9

(***************************************************************************)
(* The place before the first entry that is at least as large.             *)
(***************************************************************************)
LEMMA InsertPlace ==
    ASSUME NEW list \in Seq(Block), NEW e \in Block,
           NEW k, k = Minimum({n \in 1..Len(list) : get_size(list[n]) >= get_size(e)}
                                \cup {Len(list) + 1})
    PROVE  /\ k \in 1..(Len(list) + 1)
           /\ k <= Len(list) => get_size(list[k]) >= get_size(e)
           /\ \A n \in 1..(k - 1) : get_size(list[n]) < get_size(e)
  <1> DEFINE S == {n \in 1..Len(list) : get_size(list[n]) >= get_size(e)} \cup {Len(list) + 1}
  <1>0. Len(list) \in Nat /\ \A n \in 1..Len(list) : list[n] \in Block /\ get_size(list[n]) \in Int
    BY SizeOf
  <1>1. S \in SUBSET Nat /\ S # {}
    BY <1>0
  <1>2. k \in S /\ \A n \in S : k <= n
    <2>1. k = Minimum(S)
      OBVIOUS
    <2> HIDE DEF S
    <2>2. Minimum(S) \in S /\ \A n \in S : Minimum(S) <= n
      BY <1>1, MinimumIs
    <2> QED BY <2>1, <2>2, Zenon
  <1>3. k \in 1..(Len(list) + 1)
    BY <1>0, <1>2
  <1>4. get_size(e) \in Int
    BY SizeOf
  <1>5. ASSUME NEW n \in 1..(k - 1), ~(get_size(list[n]) < get_size(e)) PROVE FALSE
    <2>1. n \in 1..Len(list)
      BY <1>0, <1>3
    <2>2. n \in S
      BY <1>0, <1>4, <1>5, <2>1
    <2> QED BY <1>2, <1>3, <1>5, <2>2
  <1>6. k <= Len(list) => k # Len(list) + 1
    BY <1>0, <1>3
  <1> QED BY <1>2, <1>3, <1>5, <1>6

(***************************************************************************)
(* Inserted there, the list stays in order.                                *)
(***************************************************************************)
LEMMA ListInsert ==
    ASSUME NEW list \in Seq(Block), InSizeOrder(list), NEW e \in Block, e \notin Elements(list),
           NEW k \in 1..(Len(list) + 1),
           k <= Len(list) => get_size(list[k]) >= get_size(e),
           \A n \in 1..(k - 1) : get_size(list[n]) < get_size(e),
           NEW new, new = Splice(list, k, k - 1, <<e>>)
    PROVE  /\ new \in Seq(Block) /\ InSizeOrder(new)
           /\ Elements(new) = Elements(list) \cup {e}
  <1>0. Len(list) \in Nat /\ \A n \in 1..Len(list) : list[n] \in Block /\ get_size(list[n]) \in Int
    BY SizeOf
  <1>5. /\ new \in Seq(Block) /\ Len(new) = Len(list) + 1
        /\ Elements(new) = Elements(list) \cup {e}
    BY SpliceOne
  <1>7. \A n \in 1..Len(new) : /\ n < k => new[n] = list[n]
                               /\ n = k => new[n] = e
                               /\ n > k => new[n] = list[n - 1]
    BY SpliceOne
  <1>6. InSizeOrder(new)
    <2> SUFFICES ASSUME NEW n \in 1..Len(new), NEW m \in 1..(n - 1)
                 PROVE  new[m] # new[n] /\ get_size(new[m]) <= get_size(new[n])
      BY DEF InSizeOrder
    <2>0. m \in 1..Len(new) /\ m < n /\ get_size(e) \in Int
      <3>1. Len(new) \in Nat
        BY <1>0, <1>5
      <3>2. m \in 1..Len(new) /\ m < n
        BY <3>1
      <3> QED BY <3>2, SizeOf
    <2>1. \A q \in 1..Len(list) : e # list[q]
      BY DEF Elements
    <2>2. CASE n < k
      <3>1. m < k /\ n \in 1..Len(list)
        BY <1>0, <2>0, <2>2
      <3> QED BY <1>7, <2>0, <2>2, <3>1 DEF InSizeOrder
    <2>3. CASE n = k
      <3>1. m < k /\ m \in 1..Len(list) /\ m \in 1..(k - 1)
        BY <1>0, <2>0, <2>3
      <3>2. new[n] = e /\ new[m] = list[m]
        BY <1>7, <2>0, <2>3, <3>1
      <3> QED BY <1>0, <2>0, <2>1, <3>1, <3>2
    <2>4. CASE n > k /\ m < k
      <3>1. n - 1 \in 1..Len(list) /\ m \in 1..((n - 1) - 1)
        BY <1>0, <1>5, <2>0, <2>4
      <3>2. new[n] = list[n - 1] /\ new[m] = list[m]
        BY <1>7, <2>0, <2>4
      <3> QED BY <3>1, <3>2 DEF InSizeOrder
    <2>5. CASE n > k /\ m = k
      <3>1. n - 1 \in 1..Len(list) /\ k \in 1..Len(list) /\ k <= n - 1
        BY <1>0, <1>5, <2>0, <2>5
      <3>2. new[n] = list[n - 1] /\ new[m] = e
        BY <1>7, <2>0, <2>5
      <3>3. get_size(list[k]) <= get_size(list[n - 1])
        <4>1. CASE k = n - 1
          BY <1>0, <3>1, <4>1
        <4>2. CASE k < n - 1
          <5>1. k \in 1..((n - 1) - 1)
            BY <3>1, <4>2
          <5> QED BY <3>1, <5>1 DEF InSizeOrder
        <4> QED BY <3>1, <4>1, <4>2
      <3> QED BY <1>0, <2>0, <2>1, <3>1, <3>2, <3>3, SMTT(30)
    <2>6. CASE n > k /\ m > k
      <3>1. n - 1 \in 1..Len(list) /\ m - 1 \in 1..((n - 1) - 1)
        BY <1>0, <1>5, <2>0, <2>6
      <3>2. new[n] = list[n - 1] /\ new[m] = list[m - 1]
        BY <1>7, <2>0, <2>6
      <3> QED BY <3>1, <3>2 DEF InSizeOrder
    <2> QED BY <2>2, <2>3, <2>4, <2>5, <2>6
  <1> QED BY <1>5, <1>6

(***************************************************************************)
(* A list without one of its entries stays in order.                       *)
(***************************************************************************)
LEMMA ListRemove ==
    ASSUME NEW list \in Seq(Block), InSizeOrder(list), NEW e \in Elements(list),
           NEW new, new = Without(list, e)
    PROVE  /\ new \in Seq(Block) /\ InSizeOrder(new)
           /\ Elements(new) = Elements(list) \ {e}
  <1>0. Len(list) \in Nat
    OBVIOUS
  <1>1. \E n \in 1..Len(list) : list[n] = e
    BY DEF Elements
  <1>2. PICK k \in 1..Len(list) : list[k] = e /\ new = Splice(list, k, k, <<>>)
    <2> DEFINE n == CHOOSE n \in 1..Len(list) : list[n] = e
    <2>1. n \in 1..Len(list) /\ list[n] = e
      BY <1>1
    <2>2. new = Splice(list, n, n, <<>>)
      BY DEF Without
    <2> HIDE DEF n
    <2> QED BY <2>1, <2>2
  <1>3. /\ new \in Seq(Block) /\ Len(new) = Len(list) - 1
        /\ Elements(new) = {list[n] : n \in (1..Len(list)) \ {k}}
    BY <1>2, SpliceNone, Zenon
  <1>4. \A n \in 1..Len(new) : /\ n < k => new[n] = list[n]
                               /\ n >= k => new[n] = list[n + 1]
    <2>1. OneLess(new, list, k)
      BY <1>2, SpliceNone, Zenon
    <2> QED BY <2>1 DEF OneLess
  <1>5. \A m, n \in 1..Len(list) : m # n => list[m] # list[n]
    <2>1. ASSUME NEW m \in 1..Len(list), NEW n \in 1..Len(list), m < n PROVE list[m] # list[n]
      <3>1. m \in 1..(n - 1)
        BY <2>1
      <3> QED BY <3>1 DEF InSizeOrder
    <2> QED BY <2>1
  <1>6. Elements(new) = Elements(list) \ {e}
    BY <1>2, <1>3, <1>5 DEF Elements
  <1>7. InSizeOrder(new)
    <2> SUFFICES ASSUME NEW n \in 1..Len(new), NEW m \in 1..(n - 1)
                 PROVE  new[m] # new[n] /\ get_size(new[m]) <= get_size(new[n])
      BY DEF InSizeOrder
    <2>0. Len(new) \in Nat
      BY <1>0, <1>2, <1>3
    <2>1. m \in 1..Len(new) /\ m < n
      BY <2>0
    <2>2. CASE n < k
      <3>1. n \in 1..Len(list) /\ m < k
        BY <1>0, <1>2, <2>1, <2>2
      <3> QED BY <1>4, <2>1, <2>2, <3>1 DEF InSizeOrder
    <2>3. CASE n >= k /\ m < k
      <3>1. n + 1 \in 1..Len(list) /\ m \in 1..((n + 1) - 1)
        BY <1>0, <1>2, <1>3, <2>1, <2>3
      <3>2. new[n] = list[n + 1] /\ new[m] = list[m]
        BY <1>4, <2>1, <2>3
      <3> QED BY <3>1, <3>2 DEF InSizeOrder
    <2>4. CASE n >= k /\ m >= k
      <3>1. n + 1 \in 1..Len(list) /\ m + 1 \in 1..((n + 1) - 1)
        BY <1>0, <1>2, <1>3, <2>1, <2>4
      <3>2. new[n] = list[n + 1] /\ new[m] = list[m + 1]
        BY <1>4, <2>1, <2>4
      <3> QED BY <3>1, <3>2 DEF InSizeOrder
    <2> QED BY <1>2, <2>1, <2>2, <2>3, <2>4
  <1> QED BY <1>3, <1>6, <1>7

(***************************************************************************)
(* chain_entry_to_free_list adds an entry to the lists.                    *)
(***************************************************************************)
LEMMA ChainEntry ==
    ASSUME NEW fl \in Lists, NEW entries \in SUBSET Block, Indexed(fl, entries),
           NEW e \in Block, e \notin entries,
           NEW new, new = chain_entry_to_free_list(fl, e)
    PROVE  new \in Lists /\ Indexed(new, entries \cup {e})
  <1> DEFINE o == PageOrder(e)
             list == fl[o]
             k == Minimum({n \in 1..Len(list) : get_size(list[n]) >= get_size(e)}
                            \cup {Len(list) + 1})
             r == Splice(list, k, k - 1, <<e>>)
  <1>1. o \in Order
    BY SizeOf
  <1>2. new = [fl EXCEPT ![o] = r]
    BY DEF chain_entry_to_free_list, PageOrder
  <1>3. /\ list \in Seq(Block) /\ InSizeOrder(list)
        /\ Elements(list) = {x \in entries : PageOrder(x) = o}
    BY <1>1 DEF Indexed, Lists
  <1>4. e \notin Elements(list)
    BY <1>3
  <1> HIDE DEF list, o
  <1>5. /\ k \in 1..(Len(list) + 1)
        /\ k <= Len(list) => get_size(list[k]) >= get_size(e)
        /\ \A n \in 1..(k - 1) : get_size(list[n]) < get_size(e)
    BY <1>3, InsertPlace
  <1> HIDE DEF k
  <1>6. r \in Seq(Block) /\ InSizeOrder(r) /\ Elements(r) = Elements(list) \cup {e}
    BY <1>3, <1>4, <1>5, ListInsert
  <1> HIDE DEF r
  <1>7. new \in Lists /\ new[o] = r /\ \A q \in Order \ {o} : new[q] = fl[q]
    BY <1>1, <1>2, <1>6 DEF Lists
  <1>8. PageOrder(e) = o
    BY DEF o
  <1>9. ASSUME NEW q \in Order
        PROVE  /\ InSizeOrder(new[q])
               /\ Elements(new[q]) = {x \in entries \cup {e} : PageOrder(x) = q}
    <2>1. CASE q = o
      BY <1>3, <1>6, <1>7, <1>8, <2>1
    <2>2. CASE q # o
      BY <1>7, <1>8, <2>2 DEF Indexed
    <2> QED BY <2>1, <2>2
  <1> QED BY <1>7, <1>9 DEF Indexed

(***************************************************************************)
(* unchain_entry_from_free_list takes one entry out of the lists.          *)
(***************************************************************************)
LEMMA UnchainEntry ==
    ASSUME NEW fl \in Lists, NEW entries \in SUBSET Block, Indexed(fl, entries),
           NEW e \in entries,
           NEW new, new = unchain_entry_from_free_list(fl, e)
    PROVE  new \in Lists /\ Indexed(new, entries \ {e})
  <1> DEFINE o == PageOrder(e)
             list == fl[o]
             r == Without(list, e)
  <1>1. o \in Order
    BY SizeOf
  <1>2. new = [fl EXCEPT ![o] = r]
    BY DEF unchain_entry_from_free_list, PageOrder
  <1>3. /\ list \in Seq(Block) /\ InSizeOrder(list)
        /\ Elements(list) = {x \in entries : PageOrder(x) = o}
    BY <1>1 DEF Indexed, Lists
  <1>4. e \in Elements(list)
    BY <1>3
  <1> HIDE DEF list
  <1>5. r \in Seq(Block) /\ InSizeOrder(r) /\ Elements(r) = Elements(list) \ {e}
    BY <1>3, <1>4, ListRemove
  <1>8. PageOrder(e) = o
    OBVIOUS
  <1> HIDE DEF r, o
  <1>7. new \in Lists /\ new[o] = r /\ \A q \in Order \ {o} : new[q] = fl[q]
    BY <1>1, <1>2, <1>5 DEF Lists
  <1>9. ASSUME NEW q \in Order
        PROVE  /\ InSizeOrder(new[q])
               /\ Elements(new[q]) = {x \in entries \ {e} : PageOrder(x) = q}
    <2>1. CASE q = o
      BY <1>3, <1>5, <1>7, <1>8, <2>1
    <2>2. CASE q # o
      BY <1>7, <1>8, <2>2 DEF Indexed
    <2> QED BY <2>1, <2>2
  <1> QED BY <1>7, <1>9 DEF Indexed

(***************************************************************************)
(* The entry `old` is replaced by at most two others.                      *)
(***************************************************************************)
LEMMA RechainIs ==
    ASSUME NEW fl \in Lists, NEW entries \in SUBSET Block, Indexed(fl, entries),
           NEW old \in entries, NEW rest \in Seq(Block), Len(rest) \in 0..2,
           \A n \in 1..Len(rest) : rest[n] \notin entries \ {old},
           Len(rest) = 2 => rest[1] # rest[2],
           NEW new, new = Rechain(fl, old, rest)
    PROVE  new \in Lists /\ Indexed(new, (entries \ {old}) \cup Elements(rest))
  <1> DEFINE without == unchain_entry_from_free_list(fl, old)
             left == entries \ {old}
  <1>1. without \in Lists /\ Indexed(without, left)
    BY UnchainEntry
  <1>2. left \in SUBSET Block
    OBVIOUS
  <1>3. /\ Len(rest) = 0 => new = without
        /\ Len(rest) = 1 => new = chain_entry_to_free_list(without, rest[1])
        /\ Len(rest) = 2 =>
              new = chain_entry_to_free_list(chain_entry_to_free_list(without, rest[1]), rest[2])
    BY DEF Rechain
  <1>4. \A n \in 1..Len(rest) : rest[n] \in Block /\ rest[n] \notin left
    OBVIOUS
  <1> HIDE DEF without, left
  <1>5. CASE Len(rest) = 0
    <2>1. Elements(rest) = {}
      BY <1>5 DEF Elements
    <2>2. left \cup Elements(rest) = left
      BY <2>1
    <2> QED BY <1>1, <1>3, <1>5, <2>2 DEF left
  <1>6. CASE Len(rest) >= 1
    <2> DEFINE one == chain_entry_to_free_list(without, rest[1])
    <2>1. rest[1] \in Block /\ rest[1] \notin left
      BY <1>4, <1>6
    <2>2. one \in Lists /\ Indexed(one, left \cup {rest[1]})
      BY <1>1, <1>2, <2>1, ChainEntry
    <2> HIDE DEF one
    <2>3. CASE Len(rest) = 1
      <3>1. Elements(rest) = {rest[1]}
        BY <2>3 DEF Elements
      <3>2. new = one
        BY <1>3, <2>3 DEF one
      <3> QED BY <2>2, <3>1, <3>2 DEF left
    <2>4. CASE Len(rest) = 2
      <3>1. Elements(rest) = {rest[1], rest[2]}
        <4>1. 1..Len(rest) = {1, 2}
          BY <2>4
        <4> QED BY <4>1 DEF Elements
      <3>2. new = chain_entry_to_free_list(one, rest[2])
        BY <1>3, <2>4 DEF one
      <3>3. rest[2] \in Block /\ rest[2] \notin left \cup {rest[1]}
        BY <1>4, <2>4
      <3>4. left \cup {rest[1]} \in SUBSET Block
        BY <1>2, <2>1
      <3>5. new \in Lists /\ Indexed(new, (left \cup {rest[1]}) \cup {rest[2]})
        BY <2>2, <3>2, <3>3, <3>4, ChainEntry
      <3>6. (left \cup {rest[1]}) \cup {rest[2]} = left \cup Elements(rest)
        BY <3>1
      <3> QED BY <3>5, <3>6 DEF left
    <2> QED BY <1>6, <2>3, <2>4
  <1> QED BY <1>5, <1>6

-----------------------------------------------------------------------------
(* The chain *)

(***************************************************************************)
(* Replacing some entries by others that leave a gap to what remains keeps *)
(* a chain coalesced.                                                      *)
(***************************************************************************)
LEMMA SpliceCoalesced ==
    ASSUME NEW c \in Seq(Block), Coalesced(c), NEW t \in Seq(Block), Coalesced(t),
           NEW i \in 1..(Len(c) + 1), NEW j \in (i - 1)..Len(c),
           \A n \in 1..Len(t) : \A m \in 1..(i - 1) : c[m].end + 1 < t[n].start,
           \A n \in 1..Len(t) : \A m \in (j + 1)..Len(c) : t[n].end + 1 < c[m].start,
           NEW r, r = Splice(c, i, j, t)
    PROVE  Coalesced(r)
  <1>0. Len(c) \in Nat /\ Len(t) \in Nat
    OBVIOUS
  <1>1. Len(r) = (i - 1) + Len(t) + (Len(c) - j)
    BY SpliceIs, ZenonT(60)
  <1>2. \A n \in 1..Len(r) :
                /\ n < i => r[n] = c[n]
                /\ i <= n /\ n < i + Len(t) => r[n] = t[n - i + 1]
                /\ i + Len(t) <= n => r[n] = c[n - i - Len(t) + 1 + j]
    BY SpliceIs
  <1>3. ASSUME NEW n \in 1..Len(r) PROVE r[n].start < r[n].end
    <2>1. CASE n < i
      <3>1. n \in 1..Len(c)
        BY <1>0, <2>1
      <3> QED BY <1>2, <2>1, <3>1 DEF Coalesced
    <2>2. CASE i <= n /\ n < i + Len(t)
      <3>1. n - i + 1 \in 1..Len(t)
        BY <1>0, <2>2
      <3> QED BY <1>2, <2>2, <3>1 DEF Coalesced
    <2>3. CASE i + Len(t) <= n
      <3>1. n - i - Len(t) + 1 + j \in 1..Len(c)
        BY <1>0, <1>1, <2>3
      <3> QED BY <1>2, <2>3, <3>1 DEF Coalesced
    <2> QED BY <1>0, <2>1, <2>2, <2>3
  <1>4. ASSUME NEW n \in 1..Len(r), NEW m \in 1..(n - 1) PROVE r[m].end + 1 < r[n].start
    <2>0. m \in 1..Len(r) /\ m < n
      BY <1>0, <1>1
    <2>1. CASE n < i
      <3>1. n \in 1..Len(c) /\ m < i
        BY <1>0, <2>0, <2>1
      <3> QED BY <1>2, <2>0, <2>1, <3>1 DEF Coalesced
    <2>2. CASE i <= n /\ n < i + Len(t) /\ m < i
      <3>1. n - i + 1 \in 1..Len(t) /\ m \in 1..(i - 1)
        BY <1>0, <2>0, <2>2
      <3>2. r[n] = t[n - i + 1] /\ r[m] = c[m]
        BY <1>2, <2>0, <2>2
      <3> QED BY <3>1, <3>2
    <2>3. CASE i <= n /\ n < i + Len(t) /\ i <= m
      <3>1. n - i + 1 \in 1..Len(t) /\ m - i + 1 \in 1..((n - i + 1) - 1)
        BY <1>0, <2>0, <2>3
      <3>2. r[n] = t[n - i + 1] /\ r[m] = t[m - i + 1]
        BY <1>0, <1>2, <2>0, <2>3
      <3> QED BY <3>1, <3>2 DEF Coalesced
    <2>4. CASE i + Len(t) <= n
      <3>1. PICK p \in (j + 1)..Len(c) : p = n - i - Len(t) + 1 + j
        <4>1. n - i - Len(t) + 1 + j \in (j + 1)..Len(c)
          BY <1>0, <1>1, <2>4
        <4> QED BY <4>1
      <3>2. r[n] = c[p] /\ p \in 1..Len(c)
        BY <1>0, <1>2, <2>4, <3>1
      <3>3. CASE m < i
        <4>1. m \in 1..(p - 1)
          BY <1>0, <3>1, <3>3
        <4> QED BY <1>2, <2>0, <3>2, <3>3, <4>1 DEF Coalesced
      <3>4. CASE i <= m /\ m < i + Len(t)
        <4>1. m - i + 1 \in 1..Len(t)
          BY <1>0, <3>4
        <4>2. r[m] = t[m - i + 1]
          BY <1>2, <2>0, <3>4
        <4> QED BY <3>1, <3>2, <4>1, <4>2
      <3>5. CASE i + Len(t) <= m
        <4>1. m - i - Len(t) + 1 + j \in 1..(p - 1)
          BY <1>0, <2>0, <3>1, <3>5
        <4>2. r[m] = c[m - i - Len(t) + 1 + j]
          BY <1>2, <2>0, <3>5
        <4> QED BY <3>2, <4>1, <4>2 DEF Coalesced
      <3> QED BY <1>0, <3>3, <3>4, <3>5
    <2> QED BY <1>0, <2>1, <2>2, <2>3, <2>4
  <1> QED BY <1>3, <1>4 DEF Coalesced

(***************************************************************************)
(* The entries of a coalesced chain are distinct, and disjoint.            *)
(***************************************************************************)
LEMMA EntriesApart ==
    ASSUME NEW c \in Seq(Block), Coalesced(c), NEW m \in 1..Len(c), NEW n \in 1..Len(c), m # n
    PROVE  c[m] # c[n] /\ (c[m].end + 1 < c[n].start \/ c[n].end + 1 < c[m].start)
  <1>1. \A p \in 1..Len(c) : c[p].start \in Nat /\ c[p].end \in Nat /\ c[p].start < c[p].end
    <2>1. \A p \in 1..Len(c) : c[p] \in Block
      OBVIOUS
    <2>2. \A e \in Block : e.start \in Nat /\ e.end \in Nat
      BY DEF Block
    <2> QED BY <2>1, <2>2 DEF Coalesced
  <1>2. CASE m < n
    <2>1. m \in 1..(n - 1)
      BY <1>2
    <2>2. c[m].end + 1 < c[n].start
      BY <2>1 DEF Coalesced
    <2> QED BY <1>1, <2>2
  <1>3. CASE n < m
    <2>1. n \in 1..(m - 1)
      BY <1>3
    <2>2. c[n].end + 1 < c[m].start
      BY <2>1 DEF Coalesced
    <2> QED BY <1>1, <2>2
  <1> QED BY <1>2, <1>3

\* The entries `rest` are the parts of the entry e around the block b.
Around(e, b, rest) ==
    /\ Len(rest) \in 0..2
    /\ \A n \in 1..Len(rest) : e.start <= rest[n].start /\ rest[n].end <= e.end
    /\ Len(rest) = 2 => rest[1].end + 1 < rest[2].start
    /\ \A x \in Int : (\E n \in 1..Len(rest) : x \in Bytes(rest[n]))
                          <=> x \in Bytes(e) /\ x \notin Bytes(b)
    /\ Len(rest) = 0 => e = b

(***************************************************************************)
(* That is what Remainder returns.                                         *)
(***************************************************************************)
LEMMA RemainderIs ==
    ASSUME NEW e \in Block, NEW b \in Block,
           e.start <= b.start, b.start <= b.end, b.end <= e.end,
           NEW rest, rest = Remainder(e, b)
    PROVE  rest \in Seq(Block) /\ Around(e, b, rest)
  <1> USE DEF Around
  <1>0. /\ e.start \in Nat /\ e.end \in Nat /\ b.start \in Nat /\ b.end \in Nat
        /\ e = [start |-> e.start, end |-> e.end] /\ b = [start |-> b.start, end |-> b.end]
    BY DEF Block
  <1>1. PICK low : low = [start |-> e.start, end |-> b.start - 1]
    OBVIOUS
  <1>2. PICK high : high = [start |-> b.end + 1, end |-> e.end]
    OBVIOUS
  <1>3. low.start = e.start /\ low.end = b.start - 1 /\ high.start = b.end + 1 /\ high.end = e.end
    BY <1>1, <1>2
  <1>4. e.start # b.start => low \in Block
    <2>1. e.start # b.start => b.start - 1 \in Nat
      BY <1>0
    <2> QED BY <1>0, <1>1, <2>1 DEF Block
  <1>5. e.end # b.end => high \in Block
    BY <1>0, <1>2 DEF Block
  <1>6. rest = (IF e.start = b.start THEN <<>> ELSE <<low>>)
                    \o (IF e.end = b.end THEN <<>> ELSE <<high>>)
    BY <1>1, <1>2 DEF Remainder
  <1>7. CASE e.start = b.start /\ e.end = b.end
    <2>1. rest = <<>>
      BY <1>6, <1>7
    <2>2. rest \in Seq(Block) /\ Len(rest) = 0
      BY <2>1
    <2>3. e = b
      BY <1>0, <1>7
    <2> QED BY <2>2, <2>3
  <1>8. CASE e.start # b.start /\ e.end = b.end
    <2>1. rest = <<low>>
      BY <1>6, <1>8
    <2>2. rest \in Seq(Block) /\ Len(rest) = 1 /\ rest[1] = low
      BY <1>4, <1>8, <2>1
    <2>3. \A x \in Int : (\E n \in 1..Len(rest) : x \in Bytes(rest[n])) <=> x \in Bytes(low)
      BY <2>2
    <2>4. \A x \in Int : x \in Bytes(low) <=> x \in Bytes(e) /\ x \notin Bytes(b)
      BY <1>0, <1>3, <1>8 DEF Bytes
    <2>5. \A n \in 1..Len(rest) : e.start <= rest[n].start /\ rest[n].end <= e.end
      BY <1>0, <1>3, <2>2
    <2> QED BY <2>2, <2>3, <2>4, <2>5
  <1>9. CASE e.start = b.start /\ e.end # b.end
    <2>1. rest = <<high>>
      BY <1>6, <1>9
    <2>2. rest \in Seq(Block) /\ Len(rest) = 1 /\ rest[1] = high
      BY <1>5, <1>9, <2>1
    <2>3. \A x \in Int : (\E n \in 1..Len(rest) : x \in Bytes(rest[n])) <=> x \in Bytes(high)
      BY <2>2
    <2>4. \A x \in Int : x \in Bytes(high) <=> x \in Bytes(e) /\ x \notin Bytes(b)
      BY <1>0, <1>3, <1>9 DEF Bytes
    <2>5. \A n \in 1..Len(rest) : e.start <= rest[n].start /\ rest[n].end <= e.end
      BY <1>0, <1>3, <2>2
    <2> QED BY <2>2, <2>3, <2>4, <2>5
  <1>10. CASE e.start # b.start /\ e.end # b.end
    <2>1. rest = <<low>> \o <<high>>
      BY <1>6, <1>10
    <2>2. rest \in Seq(Block) /\ Len(rest) = 2 /\ rest[1] = low /\ rest[2] = high
      BY <1>4, <1>5, <1>10, <2>1
    <2>3. \A x \in Int : (\E n \in 1..Len(rest) : x \in Bytes(rest[n]))
                            <=> x \in Bytes(low) \/ x \in Bytes(high)
      <3>1. 1..Len(rest) = {1, 2}
        BY <2>2
      <3> QED BY <2>2, <3>1
    <2>4. \A x \in Int : x \in Bytes(low) \/ x \in Bytes(high) <=> x \in Bytes(e) /\ x \notin Bytes(b)
      BY <1>0, <1>3, <1>10 DEF Bytes
    <2>5. \A n \in 1..Len(rest) : e.start <= rest[n].start /\ rest[n].end <= e.end
      BY <1>0, <1>3, <2>2
    <2>6. rest[1].end + 1 < rest[2].start
      BY <1>0, <1>3, <2>2
    <2> QED BY <2>2, <2>3, <2>4, <2>5, <2>6
  <1> QED BY <1>7, <1>8, <1>9, <1>10

(***************************************************************************)
(* The address in a byte of the chain is an integer.                       *)
(***************************************************************************)
LEMMA CoverIs ==
    ASSUME NEW c \in Seq(Block)
    PROVE  \A x : x \in Cover(Elements(c)) <=> x \in Int /\ \E n \in 1..Len(c) : x \in Bytes(c[n])
  <1>1. \A n \in 1..Len(c) : Bytes(c[n]) \subseteq Int
    BY DEF Bytes
  <1> QED BY <1>1 DEF Cover, Elements

(***************************************************************************)
(* One entry of a coalesced chain replaced by entries within it.           *)
(***************************************************************************)
LEMMA ReplaceIs ==
    ASSUME NEW c \in Seq(Block), Coalesced(c), NEW k \in 1..Len(c),
           NEW t \in Seq(Block), Coalesced(t),
           \A n \in 1..Len(t) : c[k].start <= t[n].start /\ t[n].end <= c[k].end,
           NEW new, new = Splice(c, k, k, t)
    PROVE  /\ new \in Seq(Block) /\ Len(new) = (Len(c) - 1) + Len(t)
           /\ Coalesced(new)
           /\ Elements(new) = (Elements(c) \ {c[k]}) \cup Elements(t)
  <1>0. /\ Len(c) \in Nat /\ Len(t) \in Nat
        /\ \A n \in 1..Len(c) : c[n] \in Block
        /\ \A n \in 1..Len(t) : t[n] \in Block
    OBVIOUS
  <1>1. \A e \in Block : e.start \in Nat /\ e.end \in Nat
    BY DEF Block
  <1>2. k \in 1..(Len(c) + 1) /\ k \in (k - 1)..Len(c)
    BY <1>0
  <1>3. new \in Seq(Block)
    BY <1>2, SpliceIs
  <1>4. Len(new) = (Len(c) - 1) + Len(t)
    <2>1. Len(new) = (k - 1) + Len(t) + (Len(c) - k)
      BY <1>2, SpliceIs, ZenonT(60)
    <2> QED BY <1>0, <2>1
  <1>5. Coalesced(new)
    <2>1. ASSUME NEW n \in 1..Len(t), NEW m \in 1..(k - 1) PROVE c[m].end + 1 < t[n].start
      <3>1. m \in 1..Len(c)
        BY <1>0
      <3>2. c[m].end + 1 < c[k].start
        BY DEF Coalesced
      <3>3. t[n].start \in Nat /\ c[k].start <= t[n].start /\ c[k].start \in Nat /\ c[m].end \in Nat
        BY <1>0, <1>1, <3>1
      <3> QED BY <3>2, <3>3
    <2>2. ASSUME NEW n \in 1..Len(t), NEW m \in (k + 1)..Len(c) PROVE t[n].end + 1 < c[m].start
      <3>1. m \in 1..Len(c) /\ k \in 1..(m - 1)
        BY <1>0
      <3>2. c[k].end + 1 < c[m].start
        BY <3>1 DEF Coalesced
      <3>3. t[n].end \in Nat /\ t[n].end <= c[k].end /\ c[k].end \in Nat /\ c[m].start \in Nat
        BY <1>0, <1>1, <3>1
      <3> QED BY <3>2, <3>3, SMTT(30)
    <2> QED BY <1>2, <2>1, <2>2, SpliceCoalesced
  <1>6. Elements(new) = (Elements(c) \ {c[k]}) \cup Elements(t)
    <2>1. PICK j \in (k - 1)..Len(c) : j = k
      BY <1>2
    <2>2. Elements(new) = {c[n] : n \in (1..Len(c)) \ (k..j)} \cup Elements(t)
      BY <1>2, <2>1, SpliceElements
    <2>3. \A n \in 1..Len(c) : n \in k..j <=> n = k
      BY <2>1
    <2>4. \A n \in 1..Len(c) : n # k => c[n] # c[k]
      BY EntriesApart
    <2>5. {c[n] : n \in (1..Len(c)) \ (k..j)} = Elements(c) \ {c[k]}
      BY <2>3, <2>4 DEF Elements
    <2> QED BY <2>2, <2>5
  <1> QED BY <1>3, <1>4, <1>5, <1>6

(***************************************************************************)
(* A block taken from an entry of the chain.                               *)
(***************************************************************************)
LEMMA TakeIs ==
    ASSUME NEW c \in Seq(Block), Coalesced(c), NEW k \in 1..Len(c), NEW b \in Block,
           c[k].start <= b.start, b.start <= b.end, b.end <= c[k].end,
           NEW rest \in Seq(Block), Around(c[k], b, rest), set_range_asserts(rest),
           NEW new, new = Splice(c, k, k, rest)
    PROVE  /\ \A n \in 1..Len(rest) : rest[n] \notin Elements(c) \ {c[k]}
           /\ Len(rest) = 2 => rest[1] # rest[2]
           /\ new \in Seq(Block) /\ Len(new) = (Len(c) - 1) + Len(rest)
           /\ Coalesced(new)
           /\ Elements(new) = (Elements(c) \ {c[k]}) \cup Elements(rest)
           /\ Bytes(b) \subseteq Cover(Elements(c))
           /\ Cover(Elements(new)) = Cover(Elements(c)) \ Bytes(b)
  <1>0. \A n \in 1..Len(c) : c[n] \in Block /\ c[n].start \in Nat /\ c[n].end \in Nat
    <2>1. \A n \in 1..Len(c) : c[n] \in Block
      OBVIOUS
    <2>2. \A e \in Block : e.start \in Nat /\ e.end \in Nat
      BY DEF Block
    <2> QED BY <2>1, <2>2
  <1>1. \A n \in 1..Len(rest) : /\ rest[n] \in Block /\ rest[n].start < rest[n].end
                                /\ rest[n].start \in Nat /\ rest[n].end \in Nat
    <2>1. \A n \in 1..Len(rest) : rest[n] \in Block
      OBVIOUS
    <2>2. \A e \in Block : e.start \in Nat /\ e.end \in Nat
      BY DEF Block
    <2> QED BY <2>1, <2>2 DEF set_range_asserts
  <1>2. /\ \A n \in 1..Len(rest) : c[k].start <= rest[n].start /\ rest[n].end <= c[k].end
        /\ Len(rest) = 2 => rest[1].end + 1 < rest[2].start
        /\ Len(rest) \in 0..2
    BY DEF Around
  <1>3. \A m \in 1..Len(c) : m # k =>
            c[m].end + 1 < c[k].start \/ c[k].end + 1 < c[m].start
    BY EntriesApart
  <1>4. ASSUME NEW n \in 1..Len(rest) PROVE rest[n] \notin Elements(c) \ {c[k]}
    <2>1. ASSUME NEW m \in 1..Len(c), m # k, rest[n] = c[m] PROVE FALSE
      <3>1. c[k].start <= c[m].start /\ c[m].end <= c[k].end /\ c[m].start < c[m].end
        BY <1>1, <1>2, <2>1
      <3>2. c[m].end + 1 < c[k].start \/ c[k].end + 1 < c[m].start
        BY <1>3, <2>1
      <3>3. c[k].start \in Nat /\ c[m].start \in Nat /\ c[k].end \in Nat /\ c[m].end \in Nat
        BY <1>0
      <3> QED BY <3>1, <3>2, <3>3, SMTT(30)
    <2> QED BY <2>1 DEF Elements
  <1>5. Len(rest) = 2 => rest[1] # rest[2]
    BY <1>1, <1>2
  <1>6. Coalesced(rest)
    <2>1. ASSUME NEW n \in 1..Len(rest), NEW m \in 1..(n - 1)
          PROVE  rest[m].end + 1 < rest[n].start
      <3>1. m = 1 /\ n = 2 /\ Len(rest) = 2
        BY <1>2
      <3> QED BY <1>2, <3>1
    <2> QED BY <1>1, <2>1 DEF Coalesced
  <1>7. /\ new \in Seq(Block) /\ Len(new) = (Len(c) - 1) + Len(rest)
        /\ Coalesced(new)
        /\ Elements(new) = (Elements(c) \ {c[k]}) \cup Elements(rest)
    BY <1>2, <1>6, ReplaceIs
  <1>8. Bytes(b) \subseteq Bytes(c[k]) /\ Bytes(c[k]) \subseteq Cover(Elements(c)) /\ Bytes(b) \subseteq Int
    <2>1. b.start \in Nat /\ b.end \in Nat
      BY DEF Block
    <2>2. Bytes(b) \subseteq Bytes(c[k])
      BY <1>0, <2>1 DEF Bytes
    <2> QED BY <2>2 DEF Cover, Elements, Bytes
  <1>9. Cover(Elements(new)) = Cover(Elements(c)) \ Bytes(b)
    <2>1. Cover(Elements(new)) = Cover(Elements(c) \ {c[k]}) \cup Cover(Elements(rest))
      BY <1>7 DEF Cover
    <2>2. Cover(Elements(rest)) = Bytes(c[k]) \ Bytes(b)
      <3>1. \A x : x \in Cover(Elements(rest)) <=> x \in Int /\ \E n \in 1..Len(rest) : x \in Bytes(rest[n])
        BY CoverIs
      <3>2. Bytes(c[k]) \subseteq Int
        BY DEF Bytes
      <3> QED BY <3>1, <3>2 DEF Around
    <2>3. Cover(Elements(c)) = Cover(Elements(c) \ {c[k]}) \cup Bytes(c[k])
      BY DEF Cover, Elements
    <2>4. Cover(Elements(c) \ {c[k]}) \cap Bytes(c[k]) = {}
      <3>1. ASSUME NEW m \in 1..Len(c), m # k, NEW x, x \in Bytes(c[m]), x \in Bytes(c[k]) PROVE FALSE
        <4>1. x \in c[m].start..c[m].end /\ x \in c[k].start..c[k].end
          BY <3>1 DEF Bytes
        <4>2. c[m].end + 1 < c[k].start \/ c[k].end + 1 < c[m].start
          BY <1>3, <3>1
        <4>3. c[k].start \in Nat /\ c[m].start \in Nat /\ c[k].end \in Nat /\ c[m].end \in Nat
          BY <1>0
        <4> QED BY <4>1, <4>2, <4>3
      <3> QED BY <3>1 DEF Cover, Elements
    <2> QED BY <1>8, <2>1, <2>2, <2>3, <2>4
  <1> QED BY <1>4, <1>5, <1>7, <1>8, <1>9

-----------------------------------------------------------------------------
(* Giving a block back *)

\* The block b lies between the entries p and p + 1 of the chain.
Between(p, b) ==
    /\ \A n \in 1..p : chain[n].end < b.start
    /\ \A n \in (p + 1)..Len(chain) : b.end < chain[n].start

(***************************************************************************)
(* A block that is not free lies between two entries, and Previous finds   *)
(* the lower one, or the first entry if there is none.                     *)
(***************************************************************************)
LEMMA PreviousIs ==
    ASSUME chain \in Seq(Block), chain # <<>>, Coalesced(chain),
           NEW b \in Block, b.start <= b.end, Bytes(b) \cap Cover(Elements(chain)) = {}
    PROVE  \E p \in 0..Len(chain) :
                Between(p, b) /\ Previous(b.start) = IF p = 0 THEN 1 ELSE p
  <1>0. /\ Len(chain) \in Nat \ {0}
        /\ \A n \in 1..Len(chain) : chain[n].start \in Nat /\ chain[n].end \in Nat
        /\ b.start \in Nat /\ b.end \in Nat
    <2>1. Len(chain) \in Nat \ {0} /\ \A n \in 1..Len(chain) : chain[n] \in Block
      OBVIOUS
    <2>2. \A e \in Block : e.start \in Nat /\ e.end \in Nat
      BY DEF Block
    <2> QED BY <2>1, <2>2
  <1>1. \A n \in 1..Len(chain) : chain[n].start < chain[n].end
    BY DEF Coalesced
  <1>2. ASSUME NEW n \in 1..Len(chain)
        PROVE  chain[n].end < b.start \/ b.end < chain[n].start
    <2>1. \A x : x \in Bytes(b) => x \notin Bytes(chain[n])
      BY DEF Cover, Elements
    <2>2. b.start \in Bytes(b) /\ (chain[n].start \in b.start..b.end => chain[n].start \in Bytes(b))
      BY <1>0 DEF Bytes
    <2>3. b.start \notin chain[n].start..chain[n].end /\ chain[n].start \notin b.start..b.end
      BY <1>0, <1>1, <2>1, <2>2 DEF Bytes
    <2> QED BY <1>0, <1>1, <2>3
  <1> DEFINE above == {n \in 1..Len(chain) : chain[n].start >= b.start}
             last == Len(chain)
             k == IF above # {} THEN Minimum(above) - 1
                  ELSE IF chain[last].end <= b.start THEN last ELSE last - 1
  <1>3. Previous(b.start) = IF k = 0 THEN 1 ELSE k
    BY DEF Previous
  <1>4. above \in SUBSET Nat
    OBVIOUS
  <1>5. CASE above = {}
    <2>1. \A n \in 1..Len(chain) : chain[n].end < b.start
      BY <1>0, <1>1, <1>2, <1>5
    <2>2. k = Len(chain)
      BY <1>0, <1>5, <2>1
    <2>3. Between(Len(chain), b)
      BY <1>0, <2>1 DEF Between
    <2> HIDE DEF k
    <2> QED BY <1>0, <1>3, <2>2, <2>3
  <1>6. CASE above # {}
    <2>1. PICK q \in Nat : q = Minimum(above) /\ q \in above /\ \A n \in above : q <= n
      <3> HIDE DEF above
      <3>1. Minimum(above) \in above /\ \A n \in above : Minimum(above) <= n
        BY <1>4, <1>6, MinimumIs
      <3> QED BY <1>4, <3>1
    <2>2. k = q - 1 /\ q \in 1..Len(chain) /\ chain[q].start >= b.start
      BY <1>6, <2>1
    <2>3. ASSUME NEW n \in 1..(q - 1) PROVE chain[n].end < b.start
      <3>1. n \in 1..Len(chain)
        BY <1>0, <2>2
      <3>2. n \notin above
        BY <2>1
      <3>3. chain[n].start < b.start
        BY <1>0, <3>1, <3>2
      <3> QED BY <1>0, <1>2, <3>1, <3>3
    <2>4. ASSUME NEW n \in q..Len(chain) PROVE b.end < chain[n].start
      <3>1. n \in 1..Len(chain)
        BY <1>0, <2>2
      <3>2. b.end < chain[q].start
        BY <1>0, <1>1, <1>2, <2>2
      <3>3. CASE n = q
        BY <3>2, <3>3
      <3>4. CASE n # q
        <4>1. q \in 1..(n - 1)
          BY <2>2, <3>1, <3>4
        <4>2. chain[q].end + 1 < chain[n].start
          BY <3>1, <4>1 DEF Coalesced
        <4>3. chain[q].start < chain[q].end /\ chain[q].end \in Nat /\ chain[q].start \in Nat
          BY <1>0, <1>1, <2>2
        <4> QED BY <1>0, <3>1, <3>2, <4>2, <4>3
      <3> QED BY <3>3, <3>4
    <2>5. PICK p \in 0..Len(chain) : p = q - 1
      <3>1. q - 1 \in 0..Len(chain)
        BY <1>0, <2>2
      <3> QED BY <3>1
    <2>6. p + 1 = q /\ p = k
      BY <2>2, <2>5
    <2>7. Between(p, b)
      BY <2>3, <2>4, <2>5, <2>6 DEF Between
    <2> HIDE DEF k
    <2> QED BY <1>3, <2>6, <2>7
  <1> QED BY <1>5, <1>6

\* The block touches the entry p, or the entry p + 1.
Low(p, b) == p > 0 /\ chain[p].end + 1 = b.start
Up(p, b) == p < Len(chain) /\ chain[p + 1].start = b.end + 1

(***************************************************************************)
(* define_free_memory in terms of that place: the block is not a duplicate *)
(* and is merged with the neighbours that it touches.                      *)
(***************************************************************************)
LEMMA SpanIs ==
    ASSUME chain \in Seq(Block), chain # <<>>, Coalesced(chain),
           NEW b \in Block, b.start <= b.end,
           NEW p \in 0..Len(chain), Between(p, b),
           Previous(b.start) = IF p = 0 THEN 1 ELSE p
    PROVE  /\ ~Duplicate(b)
           /\ MergeSpan(b) = << IF Low(p, b) THEN p ELSE p + 1, IF Up(p, b) THEN p + 1 ELSE p >>
           /\ Merged(b, MergeSpan(b)).start = IF Low(p, b) THEN chain[p].start ELSE b.start
           /\ Merged(b, MergeSpan(b)).end = IF Up(p, b) THEN chain[p + 1].end ELSE b.end
           /\ Merged(b, MergeSpan(b)) \in Block
  <1>0. /\ Len(chain) \in Nat \ {0}
        /\ \A n \in 1..Len(chain) : chain[n].start \in Nat /\ chain[n].end \in Nat
        /\ b.start \in Nat /\ b.end \in Nat
    <2>1. Len(chain) \in Nat \ {0} /\ \A n \in 1..Len(chain) : chain[n] \in Block
      OBVIOUS
    <2>2. \A e \in Block : e.start \in Nat /\ e.end \in Nat
      BY DEF Block
    <2> QED BY <2>1, <2>2
  <1>1. /\ \A n \in 1..Len(chain) : chain[n].start < chain[n].end
        /\ p > 0 => p \in 1..Len(chain) /\ chain[p].end < b.start
        /\ p < Len(chain) => p + 1 \in 1..Len(chain) /\ b.end < chain[p + 1].start
    BY <1>0 DEF Coalesced, Between
  <1>2. CASE p = 0
    <2>1. Previous(b.start) = 1 /\ 1 \in 1..Len(chain) /\ b.end < chain[1].start /\ ~Low(p, b)
      BY <1>0, <1>1, <1>2 DEF Low
    <2>2. 1 < Len(chain) => chain[1].end + 1 < chain[1 + 1].start /\ 1 + 1 \in 1..Len(chain)
      <3>1. 1 < Len(chain) => 1 + 1 \in 1..Len(chain) /\ 1 \in 1..((1 + 1) - 1)
        BY <1>0
      <3> QED BY <3>1 DEF Coalesced
    <2>3. ~Duplicate(b)
      BY <1>0, <1>1, <2>1, <2>2 DEF Duplicate
    <2>4. MergeSpan(b) = IF chain[1].start = b.end + 1 THEN <<1, 1>> ELSE <<1, 0>>
      <3>1. /\ ~(chain[1].end + 1 = b.start)
            /\ ~(1 < Len(chain) /\ chain[1 + 1].start = b.end + 1)
        BY <1>0, <1>1, <2>1, <2>2
      <3>2. CASE chain[1].start = b.end + 1
        BY <2>1, <3>1, <3>2 DEF MergeSpan
      <3>3. CASE chain[1].start # b.end + 1
        <4>1. MergeSpan(b) = IF b.end < chain[1].start THEN <<1, 1 - 1>> ELSE <<1 + 1, 1>>
          BY <2>1, <3>1, <3>3 DEF MergeSpan
        <4> QED BY <2>1, <3>3, <4>1
      <3> QED BY <3>2, <3>3
    <2>5. CASE chain[1].start = b.end + 1
      BY <1>0, <1>1, <1>2, <2>1, <2>3, <2>4, <2>5 DEF Up, Merged, Block
    <2>6. CASE chain[1].start # b.end + 1
      BY <1>0, <1>1, <1>2, <2>1, <2>3, <2>4, <2>6 DEF Up, Merged, Block
    <2> QED BY <2>5, <2>6
  <1>3. CASE p > 0
    <2>1. Previous(b.start) = p /\ p \in 1..Len(chain) /\ chain[p].end < b.start
      BY <1>0, <1>1, <1>3
    <2>2. ~Duplicate(b)
      BY <1>0, <1>1, <2>1 DEF Duplicate
    <2>3. MergeSpan(b) = << IF Low(p, b) THEN p ELSE p + 1, IF Up(p, b) THEN p + 1 ELSE p >>
      <3>1. ~(p = 1 /\ chain[1].start = b.end + 1) /\ ~(b.end < chain[p].start)
        BY <1>0, <1>1, <2>1
      <3>2. CASE Low(p, b) /\ Up(p, b)
        BY <2>1, <3>1, <3>2 DEF MergeSpan, Low, Up
      <3>3. CASE Low(p, b) /\ ~Up(p, b)
        BY <2>1, <3>1, <3>3 DEF MergeSpan, Low, Up
      <3>4. CASE ~Low(p, b) /\ Up(p, b)
        <4>1. chain[p].end + 1 # b.start
          BY <1>3, <3>4 DEF Low
        <4> QED BY <2>1, <3>1, <3>4, <4>1 DEF MergeSpan, Up
      <3>5. CASE ~Low(p, b) /\ ~Up(p, b)
        <4>1. chain[p].end + 1 # b.start
          BY <1>3, <3>5 DEF Low
        <4> QED BY <2>1, <3>1, <3>5, <4>1 DEF MergeSpan, Up
      <3> QED BY <3>2, <3>3, <3>4, <3>5
    <2>4. CASE Low(p, b) /\ Up(p, b)
      <3>1. MergeSpan(b) = <<p, p + 1>>
        BY <2>3, <2>4
      <3>2. Merged(b, <<p, p + 1>>) = [start |-> chain[p].start, end |-> chain[p + 1].end]
        <4>1. ~(p > p + 1) /\ chain[p].start < b.start /\ chain[p + 1].end > b.end
          BY <1>0, <1>1, <1>3, <2>1, <2>4 DEF Up
        <4> QED BY <4>1 DEF Merged
      <3>3. chain[p].start \in Nat /\ chain[p + 1].end \in Nat
        BY <1>0, <1>1, <2>1, <2>4 DEF Up
      <3>4. Merged(b, MergeSpan(b)) = [start |-> chain[p].start, end |-> chain[p + 1].end]
        BY <3>1, <3>2
      <3>5. Merged(b, MergeSpan(b)) \in Block
        BY <3>3, <3>4 DEF Block
      <3> HIDE DEF Low, Up
      <3> QED BY <2>2, <2>3, <2>4, <3>4, <3>5
    <2>5. CASE Low(p, b) /\ ~Up(p, b)
      <3>1. MergeSpan(b) = <<p, p>>
        BY <2>3, <2>5
      <3>2. Merged(b, <<p, p>>) = [start |-> chain[p].start, end |-> b.end]
        <4>1. ~(p > p) /\ chain[p].start < b.start /\ ~(chain[p].end > b.end)
          BY <1>0, <1>1, <1>3, <2>1, <2>5 DEF Low, Block
        <4> QED BY <4>1 DEF Merged
      <3>3. chain[p].start \in Nat /\ b.end \in Nat
        BY <1>0, <1>1, <2>1, <2>5 DEF Up
      <3>4. Merged(b, MergeSpan(b)) = [start |-> chain[p].start, end |-> b.end]
        BY <3>1, <3>2
      <3>5. Merged(b, MergeSpan(b)) \in Block
        BY <3>3, <3>4 DEF Block
      <3> HIDE DEF Low, Up
      <3> QED BY <2>2, <2>3, <2>5, <3>4, <3>5
    <2>6. CASE ~Low(p, b) /\ Up(p, b)
      <3>1. MergeSpan(b) = <<p + 1, p + 1>>
        BY <2>3, <2>6
      <3>2. Merged(b, <<p + 1, p + 1>>) = [start |-> b.start, end |-> chain[p + 1].end]
        <4>1. ~(p + 1 > p + 1) /\ ~(chain[p + 1].start < b.start) /\ chain[p + 1].end > b.end
          BY <1>0, <1>1, <1>3, <2>1, <2>6, SMTT(30) DEF Up, Block
        <4> QED BY <4>1 DEF Merged
      <3>3. b.start \in Nat /\ chain[p + 1].end \in Nat
        BY <1>0, <1>1, <2>1, <2>6 DEF Up
      <3>4. Merged(b, MergeSpan(b)) = [start |-> b.start, end |-> chain[p + 1].end]
        BY <3>1, <3>2
      <3>5. Merged(b, MergeSpan(b)) \in Block
        BY <3>3, <3>4 DEF Block
      <3> HIDE DEF Low, Up
      <3> QED BY <2>2, <2>3, <2>6, <3>4, <3>5
    <2>7. CASE ~Low(p, b) /\ ~Up(p, b)
      <3>1. MergeSpan(b) = <<p + 1, p>>
        BY <2>3, <2>7
      <3>2. Merged(b, <<p + 1, p>>) = [start |-> b.start, end |-> b.end]
        <4>1. p + 1 > p /\ b = [start |-> b.start, end |-> b.end]
          BY <1>0, <1>1, <1>3 DEF Block
        <4> QED BY <4>1 DEF Merged
      <3>3. b.start \in Nat /\ b.end \in Nat
        BY <1>0, <1>1, <2>1, <2>7 DEF Up
      <3>4. Merged(b, MergeSpan(b)) = [start |-> b.start, end |-> b.end]
        BY <3>1, <3>2
      <3>5. Merged(b, MergeSpan(b)) \in Block
        BY <3>3, <3>4 DEF Block
      <3> HIDE DEF Low, Up
      <3> QED BY <2>2, <2>3, <2>7, <3>4, <3>5
    <2> QED BY <2>4, <2>5, <2>6, <2>7
  <1> QED BY <1>2, <1>3

\* The entry m stands for the block b and the entries i to j of the chain c,
\* and touches no other.
Merges(c, i, j, m, b) ==
    /\ \A n \in 1..(i - 1) : c[n].end + 1 < m.start
    /\ \A n \in (j + 1)..Len(c) : m.end + 1 < c[n].start
    /\ \A x \in Int : x \in Bytes(m) <=> x \in Bytes(b) \/ \E n \in i..j : x \in Bytes(c[n])

(***************************************************************************)
(* The block with the neighbours that it touches.                          *)
(***************************************************************************)
LEMMA MergedFits ==
    ASSUME chain \in Seq(Block), Coalesced(chain),
           NEW b \in Block, b.start <= b.end,
           NEW p \in 0..Len(chain), Between(p, b),
           NEW m \in Block,
           m.start = IF Low(p, b) THEN chain[p].start ELSE b.start,
           m.end = IF Up(p, b) THEN chain[p + 1].end ELSE b.end,
           NEW i, i = IF Low(p, b) THEN p ELSE p + 1,
           NEW j, j = IF Up(p, b) THEN p + 1 ELSE p
    PROVE  /\ i \in 1..(Len(chain) + 1) /\ j \in (i - 1)..Len(chain) /\ j <= i + 1
           /\ Merges(chain, i, j, m, b)
  <1>0. /\ Len(chain) \in Nat
        /\ \A n \in 1..Len(chain) : chain[n].start \in Nat /\ chain[n].end \in Nat
        /\ b.start \in Nat /\ b.end \in Nat /\ m.start \in Nat /\ m.end \in Nat
    <2>1. Len(chain) \in Nat /\ \A n \in 1..Len(chain) : chain[n] \in Block
      OBVIOUS
    <2>2. \A e \in Block : e.start \in Nat /\ e.end \in Nat
      BY DEF Block
    <2> QED BY <2>1, <2>2
  <1>1. /\ \A n \in 1..Len(chain) : chain[n].start < chain[n].end
        /\ p > 0 => p \in 1..Len(chain) /\ chain[p].end < b.start
        /\ p < Len(chain) => p + 1 \in 1..Len(chain) /\ b.end < chain[p + 1].start
    BY <1>0 DEF Coalesced, Between
  <1>2. /\ Low(p, b) => p \in 1..Len(chain) /\ chain[p].end + 1 = b.start
        /\ Up(p, b) => p + 1 \in 1..Len(chain) /\ chain[p + 1].start = b.end + 1
    BY <1>0, <1>1 DEF Low, Up
  <1>3. i \in 1..(Len(chain) + 1) /\ j \in (i - 1)..Len(chain) /\ j <= i + 1
    BY <1>0, <1>2
  <1>4. ASSUME NEW n \in 1..(i - 1) PROVE chain[n].end + 1 < m.start
    <2>1. CASE Low(p, b)
      <3>1. p \in 1..Len(chain) /\ n \in 1..(p - 1)
        BY <1>2, <2>1
      <3>2. chain[n].end + 1 < chain[p].start
        BY <3>1 DEF Coalesced
      <3> QED BY <2>1, <3>2
    <2>2. CASE ~Low(p, b)
      <3>1. m.start = b.start /\ n \in 1..p /\ n \in 1..Len(chain) /\ p \in 1..Len(chain)
        BY <1>0, <2>2
      <3>2. chain[n].end < b.start
        BY <3>1 DEF Between
      <3>3. CASE n = p
        <4>1. chain[p].end + 1 # b.start
          BY <2>2, <3>1 DEF Low
        <4> QED BY <1>0, <3>1, <3>2, <3>3, <4>1
      <3>4. CASE n # p
        <4>1. n \in 1..(p - 1)
          BY <3>1, <3>4
        <4>2. chain[n].end + 1 < chain[p].start
          BY <3>1, <4>1 DEF Coalesced
        <4>3. chain[p].start < chain[p].end /\ chain[p].end < b.start
          BY <1>1, <3>1
        <4>4. chain[p].start \in Nat /\ chain[p].end \in Nat /\ chain[n].end \in Nat
          BY <1>0, <3>1
        <4>5. b.start \in Nat
          BY <1>0
        <4>6. chain[n].end + 1 < b.start
          BY <4>2, <4>3, <4>4, <4>5
        <4> QED BY <3>1, <4>6
      <3> QED BY <3>3, <3>4
    <2> QED BY <2>1, <2>2
  <1>5. ASSUME NEW n \in (j + 1)..Len(chain) PROVE m.end + 1 < chain[n].start
    <2>1. CASE Up(p, b)
      <3>1. p + 1 \in 1..Len(chain) /\ n \in 1..Len(chain) /\ p + 1 \in 1..(n - 1)
        BY <1>0, <1>2, <2>1
      <3>2. chain[p + 1].end + 1 < chain[n].start
        BY <3>1 DEF Coalesced
      <3> QED BY <2>1, <3>2
    <2>2. CASE ~Up(p, b)
      <3>1. m.end = b.end /\ n \in (p + 1)..Len(chain) /\ n \in 1..Len(chain) /\ p + 1 \in 1..Len(chain)
        BY <1>0, <2>2
      <3>2. b.end < chain[n].start /\ b.end < chain[p + 1].start /\ chain[p + 1].start # b.end + 1
        BY <1>0, <1>1, <2>2, <3>1 DEF Between, Up
      <3>3. CASE n = p + 1
        BY <1>0, <3>1, <3>2, <3>3
      <3>4. CASE n # p + 1
        <4>1. p + 1 \in 1..(n - 1)
          BY <3>1, <3>4
        <4>2. chain[p + 1].end + 1 < chain[n].start
          BY <3>1, <4>1 DEF Coalesced
        <4>3. chain[p + 1].start < chain[p + 1].end
          BY <1>1, <3>1
        <4>4. chain[p + 1].start \in Nat /\ chain[p + 1].end \in Nat /\ chain[n].start \in Nat
          BY <1>0, <3>1
        <4> QED BY <1>0, <3>1, <3>2, <4>2, <4>3, <4>4, SMTT(30)
      <3> QED BY <3>3, <3>4
    <2> QED BY <2>1, <2>2
  <1>6. ASSUME NEW x \in Int
        PROVE  x \in Bytes(m) <=> x \in Bytes(b) \/ \E n \in i..j : x \in Bytes(chain[n])
    <2>1. CASE Low(p, b) /\ Up(p, b)
      <3>1. i..j = {p, p + 1}
        BY <2>1
      <3>2. x \in Bytes(m) <=> x \in Bytes(b) \/ x \in Bytes(chain[p]) \/ x \in Bytes(chain[p + 1])
        BY <1>0, <1>1, <1>2, <2>1, SMTT(30) DEF Bytes
      <3> QED BY <3>1, <3>2
    <2>2. CASE Low(p, b) /\ ~Up(p, b)
      <3>1. i..j = {p}
        BY <2>2
      <3>2. x \in Bytes(m) <=> x \in Bytes(b) \/ x \in Bytes(chain[p])
        BY <1>0, <1>1, <1>2, <2>2 DEF Bytes
      <3> QED BY <3>1, <3>2
    <2>3. CASE ~Low(p, b) /\ Up(p, b)
      <3>1. i..j = {p + 1}
        BY <2>3
      <3>2. x \in Bytes(m) <=> x \in Bytes(b) \/ x \in Bytes(chain[p + 1])
        BY <1>0, <1>1, <1>2, <2>3 DEF Bytes
      <3> QED BY <3>1, <3>2
    <2>4. CASE ~Low(p, b) /\ ~Up(p, b)
      <3>1. i..j = {}
        BY <2>4
      <3>2. x \in Bytes(m) <=> x \in Bytes(b)
        BY <2>4 DEF Bytes
      <3> QED BY <3>1, <3>2
    <2> QED BY <2>1, <2>2, <2>3, <2>4
  <1> QED BY <1>3, <1>4, <1>5, <1>6 DEF Merges

(***************************************************************************)
(* The chain with that entry.                                              *)
(***************************************************************************)
LEMMA MergeIs ==
    ASSUME NEW c \in Seq(Block), Coalesced(c), NEW b \in Block,
           NEW m \in Block, m.start < m.end,
           NEW i \in 1..(Len(c) + 1), NEW j \in (i - 1)..Len(c), Merges(c, i, j, m, b),
           NEW new, new = Splice(c, i, j, <<m>>)
    PROVE  /\ new \in Seq(Block) /\ new # <<>>
           /\ Coalesced(new)
           /\ Elements(new) = (Elements(c) \ {c[n] : n \in i..j}) \cup {m}
           /\ m \notin Elements(c) \ {c[n] : n \in i..j}
           /\ Cover(Elements(new)) = Cover(Elements(c)) \cup Bytes(b)
  <1>0. /\ Len(c) \in Nat
        /\ \A n \in 1..Len(c) : c[n] \in Block
        /\ \A e \in Block : e.start \in Nat /\ e.end \in Nat
    <2>1. Len(c) \in Nat /\ \A n \in 1..Len(c) : c[n] \in Block
      OBVIOUS
    <2>2. \A e \in Block : e.start \in Nat /\ e.end \in Nat
      BY DEF Block
    <2> QED BY <2>1, <2>2
  <1>1. PICK t \in Seq(Block) : t = <<m>>
    <2>1. <<m>> \in Seq(Block)
      OBVIOUS
    <2> QED BY <2>1
  <1>2. Len(t) = 1 /\ t[1] = m
    BY <1>1
  <1>3. new = Splice(c, i, j, t)
    BY <1>1
  <1>4. new \in Seq(Block)
    BY <1>3, SpliceIs
  <1>5. new # <<>>
    <2>1. Len(new) = (i - 1) + Len(t) + (Len(c) - j)
      BY <1>3, SpliceIs
    <2>2. Len(new) > 0
      BY <1>0, <1>2, <2>1
    <2>3. Len(<<>>) = 0
      OBVIOUS
    <2> QED BY <2>2, <2>3
  <1>6. Coalesced(new)
    <2>1. Coalesced(t)
      BY <1>2 DEF Coalesced
    <2>2. \A n \in 1..Len(t) : \A q \in 1..(i - 1) : c[q].end + 1 < t[n].start
      BY <1>2 DEF Merges
    <2>3. \A n \in 1..Len(t) : \A q \in (j + 1)..Len(c) : t[n].end + 1 < c[q].start
      BY <1>2 DEF Merges
    <2> QED BY <1>3, <2>1, <2>2, <2>3, SpliceCoalesced
  <1>7. Elements(t) = {m}
    BY <1>2 DEF Elements
  <1> DEFINE gone == {c[n] : n \in i..j}
             kept == {c[n] : n \in (1..Len(c)) \ (i..j)}
  <1>8. kept = Elements(c) \ gone /\ Elements(c) = kept \cup gone
    <2>1. \A n \in i..j : n \in 1..Len(c)
      BY <1>0
    <2>2. \A n \in 1..Len(c), q \in 1..Len(c) : n # q => c[n] # c[q]
      BY EntriesApart
    <2> QED BY <2>1, <2>2 DEF Elements
  <1>9. Elements(new) = kept \cup {m}
    <2>1. Elements(new) = {c[n] : n \in (1..Len(c)) \ (i..j)} \cup Elements(t)
      BY <1>3, SpliceElements
    <2> QED BY <1>7, <2>1
  <1>10. m \notin kept
    <2>1. ASSUME NEW n \in 1..Len(c), n \notin i..j, m = c[n] PROVE FALSE
      <3>1. n \in 1..(i - 1) \/ n \in (j + 1)..Len(c)
        BY <1>0, <2>1
      <3>2. c[n].end + 1 < m.start \/ m.end + 1 < c[n].start
        BY <3>1 DEF Merges
      <3>3. m.start \in Nat /\ m.end \in Nat
        BY <1>0
      <3> QED BY <2>1, <3>2, <3>3
    <2> QED BY <2>1
  <1>11. Cover(Elements(new)) = Cover(Elements(c)) \cup Bytes(b)
    <2>1. Cover(Elements(new)) = Cover(kept) \cup Bytes(m)
      BY <1>9 DEF Cover
    <2>2. Cover(Elements(c)) = Cover(kept) \cup Cover(gone)
      BY <1>8 DEF Cover
    <2>3. Bytes(m) = Bytes(b) \cup Cover(gone)
      <3>1. Bytes(m) \subseteq Int /\ Bytes(b) \subseteq Int /\ \A n \in i..j : Bytes(c[n]) \subseteq Int
        BY DEF Bytes
      <3>2. \A x : x \in Cover(gone) <=> \E n \in i..j : x \in Bytes(c[n])
        BY DEF Cover
      <3>3. \A x : x \in Bytes(m) <=> x \in Bytes(b) \/ x \in Cover(gone)
        BY <3>1, <3>2 DEF Merges
      <3> QED BY <3>3
    <2> QED BY <2>1, <2>2, <2>3
  <1> QED BY <1>4, <1>5, <1>6, <1>8, <1>9, <1>10, <1>11

-----------------------------------------------------------------------------
(* define_used_memory and define_free_memory *)

\* free_size is at least the free memory: free counts every block twice.
Counted == IsFiniteSet(FreeBytes) /\ Cardinality(FreeBytes) <= free_size

\* The allocator's own data once it has memory.
Sound ==
    /\ chain \in Seq(Block) /\ chain # <<>>
    /\ free_list \in Lists
    /\ free_size \in Nat
    /\ Coalesced(chain)
    /\ Indexed(free_list, Elements(chain))
    /\ Counted

(***************************************************************************)
(* A block has as many bytes as get_size says, and at least one.           *)
(***************************************************************************)
LEMMA BytesCounted ==
    ASSUME NEW b \in Block, b.start <= b.end
    PROVE  /\ IsFiniteSet(Bytes(b)) /\ Cardinality(Bytes(b)) = get_size(b)
           /\ get_size(b) \in Nat \ {0}
  <1>1. b.start \in Int /\ b.end \in Int /\ ~(b.start > b.end)
    BY DEF Block
  <1>2. /\ IsFiniteSet(b.start..b.end)
        /\ Cardinality(b.start..b.end) = IF b.start > b.end THEN 0 ELSE b.end - b.start + 1
    BY <1>1, FS_Interval
  <1> QED BY <1>1, <1>2 DEF Bytes, get_size

(***************************************************************************)
(* A block that is taken from an entry leaves the free memory.             *)
(***************************************************************************)
LEMMA UsedStep ==
    ASSUME Sound, NEW k \in 1..Len(chain), NEW b \in Block,
           chain[k].start <= b.start, b.start <= b.end, b.end <= chain[k].end,
           define_used_memory(k, b)
    PROVE  /\ Sound'
           /\ Bytes(b) \subseteq FreeBytes
           /\ FreeBytes' = FreeBytes \ Bytes(b)
  <1>1. PICK c \in Seq(Block) : c = chain
    BY DEF Sound
  <1>2. PICK rest : rest = Remainder(chain[k], b)
    OBVIOUS
  <1>3. /\ CanTake(k, b) /\ set_range_asserts(rest)
        /\ chain' = Splice(c, k, k, rest)
        /\ free_list' = Rechain(free_list, c[k], rest)
        /\ free_size' = free_size - get_size(b)
    BY <1>1, <1>2 DEF define_used_memory
  <1>4. /\ c[k] \in Block /\ k \in 1..Len(c) /\ Len(c) \in Nat
        /\ c[k].start <= b.start /\ b.end <= c[k].end
        /\ Coalesced(c) /\ Indexed(free_list, Elements(c)) /\ free_list \in Lists
    BY <1>1 DEF Sound
  <1>5. rest \in Seq(Block) /\ Around(c[k], b, rest)
    BY <1>1, <1>2, <1>4, RemainderIs
  <1>6. /\ \A n \in 1..Len(rest) : rest[n] \notin Elements(c) \ {c[k]}
        /\ Len(rest) = 2 => rest[1] # rest[2]
        /\ chain' \in Seq(Block) /\ Len(chain') = (Len(c) - 1) + Len(rest)
        /\ Coalesced(chain')
        /\ Elements(chain') = (Elements(c) \ {c[k]}) \cup Elements(rest)
        /\ Bytes(b) \subseteq Cover(Elements(c))
        /\ Cover(Elements(chain')) = Cover(Elements(c)) \ Bytes(b)
    BY <1>3, <1>4, <1>5, TakeIs
  <1>7. chain' # <<>>
    <2>1. Len(rest) \in 0..2 /\ (Len(rest) = 0 => c[k] = b)
      BY <1>5 DEF Around
    <2>2. c[k] = b => Len(c) > 1
      BY <1>1, <1>3 DEF CanTake
    <2>3. Len(chain') > 0
      BY <1>4, <1>6, <2>1, <2>2
    <2>4. Len(<<>>) = 0
      OBVIOUS
    <2> QED BY <2>3, <2>4
  <1>8. free_list' \in Lists /\ Indexed(free_list', Elements(chain'))
    <2>1. Elements(c) \in SUBSET Block /\ c[k] \in Elements(c)
      BY <1>4 DEF Elements
    <2>2. Len(rest) \in 0..2
      BY <1>5 DEF Around
    <2>3. /\ free_list' \in Lists
          /\ Indexed(free_list', (Elements(c) \ {c[k]}) \cup Elements(rest))
      BY <1>3, <1>4, <1>5, <1>6, <2>1, <2>2, RechainIs
    <2> QED BY <1>6, <2>3
  <1>9. Bytes(b) \subseteq FreeBytes /\ FreeBytes' = FreeBytes \ Bytes(b)
    <2>1. FreeBytes = Cover(Elements(c))
      BY <1>1 DEF FreeBytes, Cover
    <2>2. FreeBytes' = Cover(Elements(chain'))
      BY DEF FreeBytes, Cover, Elements, Bytes
    <2> QED BY <1>6, <2>1, <2>2
  <1>10. free_size' \in Nat /\ IsFiniteSet(FreeBytes') /\ Cardinality(FreeBytes') <= free_size'
    <2>1. /\ IsFiniteSet(Bytes(b)) /\ Cardinality(Bytes(b)) = get_size(b)
          /\ get_size(b) \in Nat
      BY BytesCounted
    <2>2. IsFiniteSet(FreeBytes) /\ Cardinality(FreeBytes) <= free_size /\ free_size \in Nat
      BY DEF Sound, Counted
    <2>3. Cardinality(FreeBytes) \in Nat
      BY <2>2, FS_CardinalityType
    <2>4. /\ IsFiniteSet(FreeBytes \ Bytes(b))
          /\ Cardinality(FreeBytes \ Bytes(b))
                = Cardinality(FreeBytes) - Cardinality(FreeBytes \cap Bytes(b))
      BY <2>2, FS_Difference
    <2>5. FreeBytes \cap Bytes(b) = Bytes(b)
      BY <1>9
    <2>6. Cardinality(FreeBytes \ Bytes(b)) = Cardinality(FreeBytes) - get_size(b)
      BY <2>1, <2>4, <2>5
    <2>7. free_size >= get_size(b)
      BY <1>3 DEF CanTake
    <2> QED BY <1>3, <1>9, <2>1, <2>2, <2>3, <2>4, <2>6, <2>7
  <1> QED BY <1>6, <1>7, <1>8, <1>9, <1>10 DEF Sound, Counted

(***************************************************************************)
(* A block that is not free never runs into the duplicate paths.           *)
(***************************************************************************)
LEMMA NotDuplicate ==
    ASSUME Sound, NEW b \in Block, b.start <= b.end, Bytes(b) \cap FreeBytes = {}
    PROVE  ~Duplicate(b)
  <1>1. chain \in Seq(Block) /\ chain # <<>> /\ Coalesced(chain)
    BY DEF Sound
  <1>2. Bytes(b) \cap Cover(Elements(chain)) = {}
    BY DEF FreeBytes, Cover
  <1>3. PICK p \in 0..Len(chain) : Between(p, b) /\ Previous(b.start) = IF p = 0 THEN 1 ELSE p
    BY <1>1, <1>2, PreviousIs
  <1> QED BY <1>1, <1>3, SpanIs

(***************************************************************************)
(* The lists without the entries i to j of the chain (at most two).        *)
(***************************************************************************)
LEMMA UnchainSpan ==
    ASSUME Sound, NEW i \in 1..(Len(chain) + 1), NEW j \in (i - 1)..Len(chain), j <= i + 1,
           NEW keep,
           i > j => keep = free_list,
           i = j => keep = unchain_entry_from_free_list(free_list, chain[i]),
           i < j => keep = unchain_entry_from_free_list(
                              unchain_entry_from_free_list(free_list, chain[i]), chain[j])
    PROVE  keep \in Lists /\ Indexed(keep, Elements(chain) \ {chain[n] : n \in i..j})
  <1> DEFINE E == Elements(chain)
  <1>0. /\ free_list \in Lists /\ E \in SUBSET Block /\ Indexed(free_list, E)
        /\ Len(chain) \in Nat
    BY DEF Sound, Elements
  <1>1. \A n \in 1..Len(chain) : chain[n] \in E
    BY DEF Elements
  <1> HIDE DEF E
  <1>2. CASE i > j
    <2>1. i..j = {}
      BY <1>2
    <2>2. E \ {chain[n] : n \in i..j} = E
      BY <2>1
    <2> QED BY <1>0, <1>2, <2>2 DEF E
  <1>3. CASE i = j
    <2>1. i..j = {i} /\ i \in 1..Len(chain)
      BY <1>0, <1>3
    <2>2. {chain[n] : n \in i..j} = {chain[i]} /\ chain[i] \in E
      BY <1>1, <2>1
    <2>3. keep \in Lists /\ Indexed(keep, E \ {chain[i]})
      BY <1>0, <1>3, <2>2, UnchainEntry
    <2> QED BY <2>2, <2>3 DEF E
  <1>4. CASE i < j
    <2>1. i..j = {i, j} /\ i \in 1..Len(chain) /\ j \in 1..Len(chain) /\ i # j
      BY <1>0, <1>4
    <2>2. {chain[n] : n \in i..j} = {chain[i], chain[j]} /\ chain[i] \in E /\ chain[j] \in E
      BY <1>1, <2>1
    <2>3. chain[i] # chain[j]
      BY <2>1, EntriesApart DEF Sound
    <2> DEFINE one == unchain_entry_from_free_list(free_list, chain[i])
    <2>4. one \in Lists /\ Indexed(one, E \ {chain[i]})
      BY <1>0, <2>2, UnchainEntry
    <2>5. keep = unchain_entry_from_free_list(one, chain[j])
      BY <1>4
    <2> HIDE DEF one
    <2>6. E \ {chain[i]} \in SUBSET Block /\ chain[j] \in E \ {chain[i]}
      BY <1>0, <2>2, <2>3
    <2>7. keep \in Lists /\ Indexed(keep, (E \ {chain[i]}) \ {chain[j]})
      <3>1. PICK left \in SUBSET Block : left = E \ {chain[i]}
        BY <2>6
      <3>2. chain[j] \in left /\ Indexed(one, left)
        BY <2>4, <2>6, <3>1
      <3>3. keep \in Lists /\ Indexed(keep, left \ {chain[j]})
        BY <2>4, <2>5, <3>2, UnchainEntry
      <3> QED BY <3>1, <3>3
    <2>8. (E \ {chain[i]}) \ {chain[j]} = E \ {chain[n] : n \in i..j}
      BY <2>2
    <2> QED BY <2>7, <2>8 DEF E
  <1> QED BY <1>0, <1>2, <1>3, <1>4

(***************************************************************************)
(* A block that is not free becomes free.                                  *)
(***************************************************************************)
LEMMA FreeStep ==
    ASSUME Sound, NEW b \in Block, b.start <= b.end, Bytes(b) \cap FreeBytes = {},
           define_free_memory(b)
    PROVE  Sound' /\ FreeBytes' = FreeBytes \cup Bytes(b)
  <1>1. chain \in Seq(Block) /\ chain # <<>> /\ Coalesced(chain)
    BY DEF Sound
  <1>2. Bytes(b) \cap Cover(Elements(chain)) = {}
    BY DEF FreeBytes, Cover
  <1>3. PICK p \in 0..Len(chain) : Between(p, b) /\ Previous(b.start) = IF p = 0 THEN 1 ELSE p
    BY <1>1, <1>2, PreviousIs
  <1>4. PICK i, j : /\ i = IF Low(p, b) THEN p ELSE p + 1
                    /\ j = IF Up(p, b) THEN p + 1 ELSE p
    OBVIOUS
  <1>5. PICK m : m = Merged(b, MergeSpan(b))
    OBVIOUS
  <1>6. /\ MergeSpan(b) = <<i, j>> /\ m \in Block
        /\ m.start = IF Low(p, b) THEN chain[p].start ELSE b.start
        /\ m.end = IF Up(p, b) THEN chain[p + 1].end ELSE b.end
    BY <1>1, <1>3, <1>4, <1>5, SpanIs
  <1>7. /\ i \in 1..(Len(chain) + 1) /\ j \in (i - 1)..Len(chain) /\ j <= i + 1
        /\ Merges(chain, i, j, m, b)
    BY <1>1, <1>3, <1>4, <1>6, MergedFits
  <1>8. PICK keep :
            /\ i > j => keep = free_list
            /\ i = j => keep = unchain_entry_from_free_list(free_list, chain[i])
            /\ i < j => keep = unchain_entry_from_free_list(
                                  unchain_entry_from_free_list(free_list, chain[i]), chain[j])
            /\ set_range_asserts(<<m>>)
            /\ chain' = Splice(chain, i, j, <<m>>)
            /\ free_list' = chain_entry_to_free_list(keep, m)
            /\ free_size' = free_size + 2 * get_size(b)
    <2>1. MergeSpan(b)[1] = i /\ MergeSpan(b)[2] = j
      BY <1>6
    <2>2. i \in Int /\ j \in Int
      BY <1>7
    <2> DEFINE keep == CASE i > j -> free_list
                         [] i = j -> unchain_entry_from_free_list(free_list, chain[i])
                         [] i < j -> unchain_entry_from_free_list(
                                        unchain_entry_from_free_list(free_list, chain[i]), chain[j])
    <2>3. /\ set_range_asserts(<<m>>)
          /\ chain' = Splice(chain, i, j, <<m>>)
          /\ free_list' = chain_entry_to_free_list(keep, m)
          /\ free_size' = free_size + 2 * get_size(b)
      BY <1>5, <2>1 DEF define_free_memory
    <2>4. /\ i > j => keep = free_list
          /\ i = j => keep = unchain_entry_from_free_list(free_list, chain[i])
          /\ i < j => keep = unchain_entry_from_free_list(
                                  unchain_entry_from_free_list(free_list, chain[i]), chain[j])
      BY <2>2
    <2> HIDE DEF keep
    <2> QED BY <2>3, <2>4
  <1>9. m.start < m.end
    BY <1>8 DEF set_range_asserts
  <1> DEFINE left == Elements(chain) \ {chain[n] : n \in i..j}
  <1>10. /\ chain' \in Seq(Block) /\ chain' # <<>> /\ Coalesced(chain')
         /\ Elements(chain') = left \cup {m} /\ m \notin left
         /\ Cover(Elements(chain')) = Cover(Elements(chain)) \cup Bytes(b)
    <2>1. PICK c \in Seq(Block) : c = chain
      BY <1>1
    <2>2. /\ Coalesced(c) /\ i \in 1..(Len(c) + 1) /\ j \in (i - 1)..Len(c)
          /\ Merges(c, i, j, m, b) /\ chain' = Splice(c, i, j, <<m>>)
      BY <1>1, <1>7, <1>8, <2>1
    <2>3. chain' \in Seq(Block) /\ chain' # <<>> /\ Coalesced(chain')
      BY <1>6, <1>9, <2>2, MergeIs
    <2>4. Elements(chain') = (Elements(c) \ {c[n] : n \in i..j}) \cup {m}
      BY <1>6, <1>9, <2>2, MergeIs
    <2>5. m \notin Elements(c) \ {c[n] : n \in i..j}
      BY <1>6, <1>9, <2>2, MergeIs
    <2>6. Cover(Elements(chain')) = Cover(Elements(c)) \cup Bytes(b)
      BY <1>6, <1>9, <2>2, MergeIs
    <2> QED BY <2>1, <2>3, <2>4, <2>5, <2>6
  <1>11. free_list' \in Lists /\ Indexed(free_list', Elements(chain'))
    <2>1. keep \in Lists /\ Indexed(keep, left)
      BY <1>7, <1>8, UnchainSpan
    <2>2. left \in SUBSET Block
      BY <1>1 DEF Elements
    <2> HIDE DEF left
    <2>3. free_list' \in Lists /\ Indexed(free_list', left \cup {m})
      BY <1>6, <1>8, <1>10, <2>1, <2>2, ChainEntry
    <2> QED BY <1>10, <2>3
  <1>12. FreeBytes' = FreeBytes \cup Bytes(b)
    <2>1. FreeBytes = Cover(Elements(chain))
      BY DEF FreeBytes, Cover
    <2>2. FreeBytes' = Cover(Elements(chain'))
      BY DEF FreeBytes, Cover, Elements, Bytes
    <2> QED BY <1>10, <2>1, <2>2
  <1>13. free_size' \in Nat /\ IsFiniteSet(FreeBytes') /\ Cardinality(FreeBytes') <= free_size'
    <2>1. /\ IsFiniteSet(Bytes(b)) /\ Cardinality(Bytes(b)) = get_size(b)
          /\ get_size(b) \in Nat
      BY BytesCounted
    <2>2. IsFiniteSet(FreeBytes) /\ Cardinality(FreeBytes) <= free_size /\ free_size \in Nat
      BY DEF Sound, Counted
    <2>3. Cardinality(FreeBytes) \in Nat
      BY <2>2, FS_CardinalityType
    <2>4. /\ IsFiniteSet(FreeBytes \cup Bytes(b))
          /\ Cardinality(FreeBytes \cup Bytes(b))
                = Cardinality(FreeBytes) + Cardinality(Bytes(b)) - Cardinality(FreeBytes \cap Bytes(b))
      BY <2>1, <2>2, FS_Union
    <2>5. Cardinality(FreeBytes \cap Bytes(b)) = 0
      <3>1. FreeBytes \cap Bytes(b) = {}
        OBVIOUS
      <3> QED BY <3>1, FS_EmptySet, Zenon
    <2>6. Cardinality(FreeBytes \cup Bytes(b)) = Cardinality(FreeBytes) + get_size(b)
      BY <2>1, <2>3, <2>4, <2>5
    <2> QED BY <1>8, <1>12, <2>1, <2>2, <2>3, <2>4, <2>6
  <1> QED BY <1>10, <1>11, <1>12, <1>13 DEF Sound, Counted

-----------------------------------------------------------------------------
(* allocate *)

(***************************************************************************)
(* An address is never aligned downwards.                                  *)
(***************************************************************************)
LEMMA AlignUpIs ==
    ASSUME NEW addr \in Nat, NEW align \in Nat \ {0}
    PROVE  AlignUp(addr, align) \in Nat /\ AlignUp(addr, align) >= addr
  <1>1. CASE addr = 0
    BY <1>1 DEF AlignUp
  <1>2. CASE addr # 0
    <2>1. PICK n \in Nat : n = addr - 1
      <3>1. addr - 1 \in Nat
        BY <1>2
      <3> QED BY <3>1
    <2>2. PICK q \in Nat : q = n \div align
      <3>1. n \div align \in Nat
        OBVIOUS
      <3> QED BY <3>1
    <2>3. n = align * q + (n % align) /\ n % align \in 0..(align - 1)
      BY <2>2
    <2>4. AlignUp(addr, align) = q * align + align
      BY <1>2, <2>1, <2>2 DEF AlignUp
    <2>5. PICK a \in Nat : a = q * align /\ a = align * q
      <3>1. q * align \in Nat /\ q * align = align * q
        OBVIOUS
      <3> QED BY <3>1
    <2>6. PICK r \in 0..(align - 1) : r = n % align
      BY <2>3
    <2>7. addr = a + r + 1
      BY <2>1, <2>3, <2>5, <2>6
    <2>8. AlignUp(addr, align) = a + align
      BY <2>4, <2>5
    <2> QED BY <2>7, <2>8
  <1> QED BY <1>1, <1>2

(***************************************************************************)
(* The places that allocate accepts are places of the free lists.          *)
(***************************************************************************)
LEMMA PlacesAre ==
    ASSUME Sound, NEW orders \in SUBSET Order, NEW size \in Nat \ {0}, NEW align \in Nat \ {0},
           NEW q \in Acceptable(orders, size, align)
    PROVE  /\ q = <<q[1], q[2]>> /\ q[1] \in orders /\ q[1] \in Nat
           /\ q[2] \in 1..Len(free_list[q[1]]) /\ q[2] \in Nat
           /\ Fits(free_list[q[1]][q[2]], size, align)
           /\ free_list[q[1]][q[2]] \in Elements(chain)
  <1>1. PICK o \in orders : q \in {o} \X (1..Len(free_list[o]))
    BY DEF Acceptable
  <1>2. q = <<q[1], q[2]>> /\ q[1] = o /\ q[2] \in 1..Len(free_list[o])
    BY <1>1
  <1>3. o \in Nat
    BY PoolAssumption DEF Order
  <1>4. Fits(free_list[q[1]][q[2]], size, align)
    BY DEF Acceptable
  <1>5. free_list[o] \in Seq(Block) /\ Elements(free_list[o]) \subseteq Elements(chain)
    BY DEF Sound, Lists, Indexed
  <1>6. free_list[o][q[2]] \in Elements(chain)
    BY <1>2, <1>5 DEF Elements
  <1> QED BY <1>2, <1>3, <1>4, <1>6

(***************************************************************************)
(* The first acceptable place: the entry found there is in the chain and   *)
(* fits.                                                                   *)
(***************************************************************************)
LEMMA CandidateIs ==
    ASSUME Sound, NEW size \in Nat \ {0}, NEW align \in Nat \ {0}, Candidates(size, align) # {}
    PROVE  /\ FirstCandidate(size, align) \in Elements(chain)
           /\ Fits(FirstCandidate(size, align), size, align)
  <1> DEFINE orders == size_to_page_order(size)..(NUM_OF_FREE_LIST - 1)
             places == Candidates(size, align)
             First(p) == \A q \in places : p[1] < q[1] \/ (p[1] = q[1] /\ p[2] <= q[2])
  <1>1. orders \in SUBSET Order
    <2>1. size_to_page_order(size) \in Order
      BY OrderOf
    <2> QED BY <2>1, PoolAssumption DEF Order
  <1>2. places = Acceptable(orders, size, align)
    BY DEF Candidates
  <1> HIDE DEF places, orders
  <1>3. ASSUME NEW q \in places
        PROVE  /\ q = <<q[1], q[2]>> /\ q[1] \in Nat /\ q[2] \in Nat
               /\ Fits(free_list[q[1]][q[2]], size, align)
               /\ free_list[q[1]][q[2]] \in Elements(chain)
    BY <1>1, <1>2, <1>3, PlacesAre
  <1>4. \E p \in places : First(p)
    <2> DEFINE S == {q[1] : q \in places}
    <2>1. S \in SUBSET Nat /\ S # {}
      BY <1>3 DEF places
    <2>2. PICK o \in S : \A y \in S : o <= y
      <3> HIDE DEF S
      <3>1. Minimum(S) \in S /\ \A y \in S : Minimum(S) <= y
        BY <2>1, MinimumIs
      <3> QED BY <3>1
    <2> DEFINE R == {q[2] : q \in {q \in places : q[1] = o}}
    <2>3. R \in SUBSET Nat /\ R # {}
      BY <1>3, <2>2
    <2>4. PICK n \in R : \A y \in R : n <= y
      <3> HIDE DEF R
      <3>1. Minimum(R) \in R /\ \A y \in R : Minimum(R) <= y
        BY <2>3, MinimumIs
      <3> QED BY <3>1
    <2>5. PICK p \in places : p[1] = o /\ p[2] = n
      BY <2>4
    <2>6. ASSUME NEW q \in places PROVE p[1] < q[1] \/ (p[1] = q[1] /\ p[2] <= q[2])
      <3>1. q[1] \in S /\ o <= q[1] /\ o \in Nat /\ q[1] \in Nat
        BY <1>3, <2>1, <2>2
      <3>2. q[1] = o => n <= q[2]
        <4>1. q[1] = o => q[2] \in R
          OBVIOUS
        <4> QED BY <2>4, <4>1
      <3> QED BY <2>5, <3>1, <3>2
    <2> QED BY <2>6
  <1>5. PICK p \in places : FirstCandidate(size, align) = free_list[p[1]][p[2]]
    <2> DEFINE p == CHOOSE p \in places : First(p)
    <2>1. p \in places
      BY <1>4
    <2>2. FirstCandidate(size, align) = free_list[p[1]][p[2]]
      BY DEF FirstCandidate, places
    <2> HIDE DEF p
    <2> QED BY <2>1, <2>2
  <1> QED BY <1>3, <1>5

(***************************************************************************)
(* The block that allocate decides on lies in the entry it decides on.     *)
(***************************************************************************)
LEMMA ChoiceIs ==
    ASSUME Sound, NEW size \in Nat \ {0}, NEW align \in Nat \ {0}, Found(size, align),
           NEW k, k = Choice(size, align).k, NEW b, b = Choice(size, align).b
    PROVE  /\ k \in 1..Len(chain) /\ b \in Block
           /\ chain[k].start <= b.start /\ b.start <= b.end /\ b.end <= chain[k].end
  <1> DEFINE e == FirstCandidate(size, align)
  <1>1. e \in Elements(chain) /\ Fits(e, size, align)
    BY CandidateIs DEF Found
  <1>2. k = CHOOSE n \in 1..Len(chain) : chain[n] = e
    BY DEF Choice
  <1>3. b = [start |-> AlignUp(e.start, align), end |-> AlignUp(e.start, align) + size - 1]
    BY DEF Choice, BlockAt
  <1> HIDE DEF e
  <1>4. k \in 1..Len(chain) /\ chain[k] = e
    BY <1>1, <1>2 DEF Elements
  <1>5. e.start \in Nat /\ e.end \in Nat
    <2>1. e \in Block
      BY <1>1 DEF Sound, Elements
    <2> QED BY <2>1 DEF Block
  <1>6. PICK a \in Nat : a = AlignUp(e.start, align) /\ a >= e.start
    BY <1>5, AlignUpIs
  <1>7. b.start = a /\ b.end = a + size - 1 /\ b = [start |-> a, end |-> a + size - 1]
    BY <1>3, <1>6
  <1>8. (e.end - e.start + 1) - (a - e.start) >= size
    BY <1>1, <1>6 DEF Fits, get_size
  <1>9. a + size - 1 \in Nat /\ a <= a + size - 1 /\ a + size - 1 <= e.end
    BY <1>5, <1>8
  <1>10. b \in Block
    BY <1>7, <1>9 DEF Block
  <1> QED BY <1>4, <1>6, <1>7, <1>9, <1>10

-----------------------------------------------------------------------------
(* The inductive invariant *)

\* The range of a call of reserve_memory.
ReservedBlock(n) == BlockAt(Reserved[n].start, Reserved[n].size)

\* A range is free until its call of reserve_memory.
ReservedFree ==
    \A n \in 1..Len(Reserved) : booted \in 1..n => Bytes(ReservedBlock(n)) \subseteq FreeBytes

\* The blocks that callers hold overlap neither each other nor the free memory.
OwnedApart ==
    \A b \in owned :
        /\ b.start <= b.end
        /\ Bytes(b) \cap FreeBytes = {}
        /\ \A c \in owned : b # c => Bytes(b) \cap Bytes(c) = {}

\* Before setup_memory there is nothing, then the allocator's data is sound.
Data ==
    /\ booted = 0 => chain = <<>> /\ free_list = [o \in Order |-> <<>>] /\ free_size = 0
    /\ booted # 0 => Sound

Inv ==
    /\ booted \in Nat
    /\ owned \in SUBSET Block
    /\ owned # {} => booted > Len(Reserved)
    /\ Data
    /\ ReservedFree
    /\ OwnedApart

(***************************************************************************)
(* A reserved range is a block of RAM, apart from the other ones.          *)
(***************************************************************************)
LEMMA ReservedBlockIs ==
    ASSUME NEW n \in 1..Len(Reserved)
    PROVE  /\ ReservedBlock(n) \in Block
           /\ ReservedBlock(n).start = Reserved[n].start
           /\ ReservedBlock(n).start <= ReservedBlock(n).end
           /\ Bytes(ReservedBlock(n)) \subseteq Ram
           /\ \A m \in 1..Len(Reserved) :
                m # n => Bytes(ReservedBlock(m)) \cap Bytes(ReservedBlock(n)) = {}
  <1>0. \A m \in 1..Len(Reserved) : Reserved[m].start \in Nat /\ Reserved[m].size \in Nat \ {0}
    <2> DEFINE Ranges == [start : Nat, size : Nat \ {0}]
    <2>0. Reserved \in Seq(Ranges)
      BY ReservedAssumption
    <2> HIDE DEF Ranges
    <2>1. \A m \in 1..Len(Reserved) : Reserved[m] \in Ranges
      BY <2>0
    <2>2. \A r \in Ranges : r.start \in Nat /\ r.size \in Nat \ {0}
      BY DEF Ranges
    <2> QED BY <2>1, <2>2
  <1>1. \A m \in 1..Len(Reserved) :
            /\ ReservedBlock(m).start = Reserved[m].start
            /\ ReservedBlock(m).end = Reserved[m].start + Reserved[m].size - 1
            /\ Bytes(ReservedBlock(m))
                    = Reserved[m].start..(Reserved[m].start + Reserved[m].size - 1)
    BY DEF ReservedBlock, BlockAt, Bytes
  <1>2. ReservedBlock(n) \in Block
    BY <1>0 DEF ReservedBlock, BlockAt, Block
  <1>3. Bytes(ReservedBlock(n)) \subseteq Ram
    <2>1. /\ RamStart <= Reserved[n].start
          /\ Reserved[n].start + Reserved[n].size <= RamStart + RamSize
      BY ReservedAssumption
    <2>2. RamStart \in Nat /\ RamSize \in Nat
      BY SizeAssumption
    <2> QED BY <1>0, <1>1, <2>1, <2>2, SMTT(30) DEF Ram
  <1>4. ASSUME NEW m \in 1..Len(Reserved), m # n
        PROVE  Bytes(ReservedBlock(m)) \cap Bytes(ReservedBlock(n)) = {}
    <2>0. Len(Reserved) \in Nat
      BY ReservedAssumption
    <2>1. m \in 1..(n - 1) \/ n \in 1..(m - 1)
      BY <1>4, <2>0
    <2>2. \/ Reserved[m].start + Reserved[m].size <= Reserved[n].start
          \/ Reserved[n].start + Reserved[n].size <= Reserved[m].start
      BY <2>1, ReservedAssumption
    <2>3. Reserved[m].start \in Nat /\ Reserved[m].size \in Nat
      BY <1>0
    <2>4. Reserved[n].start \in Nat /\ Reserved[n].size \in Nat
      BY <1>0
    <2>5. \A x \in Int :
            /\ x \in Bytes(ReservedBlock(m)) =>
                Reserved[m].start <= x /\ x < Reserved[m].start + Reserved[m].size
            /\ x \in Bytes(ReservedBlock(n)) =>
                Reserved[n].start <= x /\ x < Reserved[n].start + Reserved[n].size
      <3>1. \A a, z \in Nat, x \in Int : x \in a..(a + z - 1) => a <= x /\ x < a + z
        OBVIOUS
      <3>2. /\ Bytes(ReservedBlock(m)) = Reserved[m].start..(Reserved[m].start + Reserved[m].size - 1)
            /\ Bytes(ReservedBlock(n)) = Reserved[n].start..(Reserved[n].start + Reserved[n].size - 1)
        BY <1>1
      <3> QED BY <2>3, <2>4, <3>1, <3>2, Zenon
    <2>6. Bytes(ReservedBlock(m)) \subseteq Int
      BY <1>1, <2>3
    <2>7. ASSUME NEW x \in Bytes(ReservedBlock(m)), x \in Bytes(ReservedBlock(n)) PROVE FALSE
      <3>1. x \in Int
        BY <2>6, <2>7
      <3>2. /\ Reserved[m].start <= x /\ x < Reserved[m].start + Reserved[m].size
            /\ Reserved[n].start <= x /\ x < Reserved[n].start + Reserved[n].size
        BY <2>5, <2>7, <3>1
      <3> QED BY <2>2, <2>3, <2>4, <3>1, <3>2, SMTT(30)
    <2> QED BY <2>7
  <1> QED BY <1>0, <1>1, <1>2, <1>3, <1>4

(***************************************************************************)
(* The entry that contains the start of free memory contains all of it:    *)
(* entries do not touch.                                                   *)
(***************************************************************************)
LEMMA SearchIs ==
    ASSUME Sound, NEW b \in Block, b.start <= b.end, Bytes(b) \subseteq FreeBytes,
           NEW k, k = search_entry_containing_address(b.start), k # 0
    PROVE  k \in 1..Len(chain) /\ chain[k].start <= b.start /\ b.end <= chain[k].end
  <1>0. chain \in Seq(Block) /\ Coalesced(chain)
    BY DEF Sound
  <1>1. /\ b.start \in Nat /\ b.end \in Nat
        /\ \A n \in 1..Len(chain) : chain[n].start \in Nat /\ chain[n].end \in Nat
    <2>1. \A n \in 1..Len(chain) : chain[n] \in Block
      BY <1>0
    <2>2. \A e \in Block : e.start \in Nat /\ e.end \in Nat
      BY DEF Block
    <2> QED BY <2>1, <2>2
  <1> DEFINE stop == {n \in 1..Len(chain) : b.start <= chain[n].start \/ b.start <= chain[n].end}
  <1>2. stop # {} /\ k = Minimum(stop) /\ ~(b.start < chain[Minimum(stop)].start)
    BY DEF search_entry_containing_address
  <1>3. stop \in SUBSET Nat
    BY <1>0
  <1> HIDE DEF stop
  <1>4. k \in stop
    BY <1>2, <1>3, MinimumIs
  <1>5. /\ k \in 1..Len(chain)
        /\ b.start <= chain[k].start \/ b.start <= chain[k].end
        /\ ~(b.start < chain[k].start)
    BY <1>2, <1>4 DEF stop
  <1>6. chain[k].start < chain[k].end
    BY <1>0, <1>5 DEF Coalesced
  <1>7. chain[k].start <= b.start /\ b.start <= chain[k].end
    BY <1>1, <1>5, <1>6
  <1>8. ASSUME chain[k].end < b.end PROVE FALSE
    <2>1. PICK x \in Nat : x = chain[k].end + 1
      BY <1>1, <1>5
    <2>2. x \in Bytes(b)
      BY <1>1, <1>5, <1>7, <1>8, <2>1 DEF Bytes
    <2>3. x \in Cover(Elements(chain))
      BY <2>2 DEF FreeBytes, Cover
    <2>4. PICK n \in 1..Len(chain) : x \in Bytes(chain[n])
      BY <1>0, <2>3, CoverIs
    <2>5. chain[n].start <= x /\ x <= chain[n].end
      BY <1>1, <2>4 DEF Bytes
    <2>6. n # k
      BY <1>1, <1>5, <2>1, <2>5
    <2>7. chain[n].end + 1 < chain[k].start \/ chain[k].end + 1 < chain[n].start
      BY <1>0, <1>5, <2>6, EntriesApart
    <2> QED BY <1>1, <1>5, <1>6, <2>1, <2>5, <2>7
  <1> QED BY <1>1, <1>5, <1>7, <1>8

(***************************************************************************)
(* With memory in the chain free_size is not 0, so free never replaces the *)
(* chain.                                                                  *)
(***************************************************************************)
LEMMA NeverEmpty ==
    ASSUME Sound
    PROVE  free_size # 0
  <1>1. PICK e \in Block : e \in Elements(chain) /\ e.start < e.end
    <2>1. chain \in Seq(Block) /\ chain # <<>>
      BY DEF Sound
    <2>2. 1 \in 1..Len(chain) /\ chain[1] \in Block
      BY <2>1
    <2> QED BY <2>2 DEF Sound, Coalesced, Elements
  <1>2. e.start \in Bytes(e) /\ Bytes(e) \subseteq FreeBytes
    BY <1>1 DEF Bytes, Block, FreeBytes
  <1>3. FreeBytes # {} /\ IsFiniteSet(FreeBytes)
    BY <1>2 DEF Sound, Counted
  <1>4. Cardinality(FreeBytes) \in Nat /\ Cardinality(FreeBytes) # 0
    BY <1>3, FS_CardinalityType, FS_EmptySet
  <1> QED BY <1>4 DEF Sound, Counted

-----------------------------------------------------------------------------
(* What each step does to the free memory *)

(***************************************************************************)
(* The first step of setup_memory makes all of RAM the only free entry.    *)
(***************************************************************************)
LEMMA SetupRamStep ==
    ASSUME Inv, SetupRam
    PROVE  /\ booted = 0 /\ booted' = 1 /\ UNCHANGED owned
           /\ Sound' /\ FreeBytes = {} /\ FreeBytes' = Ram
  <1>1. PICK b : b = BlockAt(RamStart, RamSize)
    OBVIOUS
  <1>2. /\ b \in Block /\ b.start < b.end /\ Bytes(b) = Ram
    BY <1>1, SizeAssumption DEF BlockAt, Block, Bytes, Ram
  <1>3. chain = <<>> /\ free_list = [o \in Order |-> <<>>] /\ free_size = 0
    BY DEF Inv, Data, SetupRam
  <1>4. /\ chain' = <<b>> /\ free_list' = chain_entry_to_free_list(free_list, b)
        /\ free_size' = get_size(b)
    BY <1>1, <1>3 DEF SetupRam, free, FreeFirst
  <1>5. Elements(chain) = {} /\ Elements(chain') = {b}
    BY <1>3, <1>4 DEF Elements
  <1>6. FreeBytes = {} /\ FreeBytes' = Bytes(b)
    <2>1. FreeBytes' = Cover(Elements(chain'))
      BY DEF FreeBytes, Cover, Elements, Bytes
    <2>2. Cover({b}) = Bytes(b)
      BY DEF Cover
    <2> QED BY <1>5, <2>1, <2>2 DEF FreeBytes
  <1>7. free_list \in Lists /\ Indexed(free_list, {})
    <2>1. \A o \in Order : free_list[o] = <<>>
      BY <1>3
    <2>2. InSizeOrder(<<>>) /\ Elements(<<>>) = {}
      BY DEF InSizeOrder, Elements
    <2>3. Indexed(free_list, {})
      BY <2>1, <2>2 DEF Indexed
    <2>4. <<>> \in Seq(Block)
      OBVIOUS
    <2> QED BY <1>3, <2>3, <2>4 DEF Lists
  <1>8. free_list' \in Lists /\ Indexed(free_list', {b})
    <2>1. free_list' \in Lists /\ Indexed(free_list', {} \cup {b})
      BY <1>2, <1>4, <1>7, ChainEntry
    <2>2. {} \cup {b} = {b}
      OBVIOUS
    <2> QED BY <2>1, <2>2
  <1>9. chain' \in Seq(Block) /\ chain' # <<>> /\ Coalesced(chain')
    <2>1. chain' \in Seq(Block) /\ Len(chain') = 1 /\ chain'[1] = b /\ chain' # <<>>
      BY <1>2, <1>4
    <2> QED BY <1>2, <2>1 DEF Coalesced
  <1>10. free_size' \in Nat /\ IsFiniteSet(FreeBytes') /\ Cardinality(FreeBytes') <= free_size'
    <2>1. b.start <= b.end
      BY <1>2 DEF Block
    <2>2. /\ IsFiniteSet(Bytes(b)) /\ Cardinality(Bytes(b)) = get_size(b)
          /\ get_size(b) \in Nat
      BY <1>2, <2>1, BytesCounted
    <2> QED BY <1>4, <1>6, <2>2
  <1>11. Sound'
    BY <1>5, <1>8, <1>9, <1>10 DEF Sound, Counted
  <1> QED BY <1>2, <1>6, <1>11 DEF SetupRam

(***************************************************************************)
(* reserve_memory takes its range out of the free memory.                  *)
(***************************************************************************)
LEMMA ReserveStep ==
    ASSUME Inv, reserve_memory, NEW b, b = ReservedBlock(booted)
    PROVE  /\ booted \in 1..Len(Reserved) /\ booted' = booted + 1 /\ UNCHANGED owned
           /\ Sound' /\ Bytes(b) \subseteq FreeBytes /\ FreeBytes' = FreeBytes \ Bytes(b)
  <1>1. booted \in 1..Len(Reserved) /\ booted' = booted + 1 /\ UNCHANGED owned
    BY DEF reserve_memory
  <1>2. Sound
    BY <1>1 DEF Inv, Data
  <1>3. b \in Block /\ b.start = Reserved[booted].start /\ b.start <= b.end
    BY <1>1, ReservedBlockIs
  <1>4. Bytes(b) \subseteq FreeBytes
    <2>1. booted \in 1..booted
      BY <1>1
    <2> QED BY <1>1, <2>1 DEF Inv, ReservedFree
  <1>5. PICK k : k = search_entry_containing_address(b.start) /\ k # 0 /\ define_used_memory(k, b)
    BY <1>3 DEF reserve_memory, ReservedBlock
  <1>6. k \in 1..Len(chain) /\ chain[k].start <= b.start /\ b.end <= chain[k].end
    BY <1>2, <1>3, <1>4, <1>5, SearchIs
  <1>7. Sound' /\ FreeBytes' = FreeBytes \ Bytes(b)
    BY <1>2, <1>3, <1>5, <1>6, UsedStep
  <1> QED BY <1>1, <1>4, <1>7

(***************************************************************************)
(* allocate takes a block that was wholly free.                            *)
(***************************************************************************)
LEMMA AllocateStep ==
    ASSUME Inv, NEW size \in Sizes, NEW align \in Aligns, Allocate(size, align)
    PROVE  /\ booted > Len(Reserved) /\ UNCHANGED booted
           /\ Sound'
           /\ \E b \in Block :
                /\ b.start <= b.end /\ owned' = owned \cup {b}
                /\ Bytes(b) \subseteq FreeBytes /\ FreeBytes' = FreeBytes \ Bytes(b)
  <1>1. booted > Len(Reserved) /\ UNCHANGED booted /\ Found(size, align)
    BY DEF Allocate
  <1>2. Sound
    BY <1>1, ReservedAssumption DEF Inv, Data
  <1>3. size \in Nat \ {0} /\ align \in Nat \ {0}
    BY SizeAssumption
  <1>4. PICK k, b : /\ k = Choice(size, align).k /\ b = Choice(size, align).b
                    /\ define_used_memory(k, b) /\ owned' = owned \cup {b}
    BY DEF Allocate
  <1>5. /\ k \in 1..Len(chain) /\ b \in Block
        /\ chain[k].start <= b.start /\ b.start <= b.end /\ b.end <= chain[k].end
    BY <1>1, <1>2, <1>3, <1>4, ChoiceIs
  <1>6. Sound' /\ Bytes(b) \subseteq FreeBytes /\ FreeBytes' = FreeBytes \ Bytes(b)
    BY <1>2, <1>4, <1>5, UsedStep
  <1> QED BY <1>1, <1>4, <1>5, <1>6

(***************************************************************************)
(* free makes a block free again, or loses it.                             *)
(***************************************************************************)
LEMMA ReleaseStep ==
    ASSUME Inv, NEW b \in owned, Free(b)
    PROVE  /\ UNCHANGED booted /\ owned' = owned \ {b}
           /\ Sound' /\ FreeBytes' \in {FreeBytes, FreeBytes \cup Bytes(b)}
  <1>1. UNCHANGED booted /\ owned' = owned \ {b}
    BY DEF Free
  <1>2. Sound
    BY ReservedAssumption DEF Inv, Data
  <1>3. b \in Block /\ b.start <= b.end /\ Bytes(b) \cap FreeBytes = {}
    BY DEF Inv, OwnedApart
  <1>4. CASE free(b)
    <2>1. define_free_memory(b)
      BY <1>2, <1>4, NeverEmpty DEF free
    <2>2. Sound' /\ FreeBytes' = FreeBytes \cup Bytes(b)
      BY <1>2, <1>3, <2>1, FreeStep
    <2> QED BY <1>1, <2>2
  <1>5. CASE FreeFails(b)
    <2>1. UNCHANGED <<chain, free_list, free_size>>
      BY <1>5 DEF FreeFails
    <2>2. FreeBytes' = FreeBytes
      BY <2>1 DEF FreeBytes, Elements, Bytes
    <2>3. Sound'
      BY <1>2, <2>1, <2>2 DEF Sound, Counted, Elements
    <2> QED BY <1>1, <2>2, <2>3
  <1> QED BY <1>4, <1>5 DEF Free

-----------------------------------------------------------------------------
(* The theorems *)

(***************************************************************************)
(* The invariant holds at first.                                           *)
(***************************************************************************)
LEMMA InvInit == Init => Inv
  <1> SUFFICES ASSUME Init PROVE Inv
    OBVIOUS
  <1>1. Data
    BY DEF Init, Data
  <1>2. ReservedFree
    BY DEF Init, ReservedFree
  <1> QED BY <1>1, <1>2 DEF Init, Inv, OwnedApart

(***************************************************************************)
(* Every step keeps the invariant.                                         *)
(***************************************************************************)
LEMMA InvNext == Inv /\ [Next]_vars => Inv'
  <1> SUFFICES ASSUME Inv, [Next]_vars PROVE Inv'
    OBVIOUS
  <1>0. Len(Reserved) \in Nat /\ booted \in Nat /\ owned \in SUBSET Block
    BY ReservedAssumption DEF Inv
  <1>1. CASE SetupRam
    <2>1. /\ booted = 0 /\ booted' = 1 /\ owned' = owned
          /\ Sound' /\ FreeBytes = {} /\ FreeBytes' = Ram
      BY <1>1, SetupRamStep
    <2>2. owned = {}
      BY <1>0, <2>1 DEF Inv
    <2>3. ReservedFree'
      <3>1. \A n \in 1..Len(Reserved) : Bytes(ReservedBlock(n)) \subseteq Ram
        BY ReservedBlockIs
      <3> QED BY <2>1, <3>1 DEF ReservedFree
    <2>4. Data'
      BY <2>1 DEF Data
    <2> QED BY <2>1, <2>2, <2>3, <2>4 DEF Inv, OwnedApart
  <1>2. CASE reserve_memory
    <2>1. PICK b : b = ReservedBlock(booted)
      OBVIOUS
    <2>2. /\ booted \in 1..Len(Reserved) /\ booted' = booted + 1 /\ owned' = owned
          /\ Sound' /\ FreeBytes' = FreeBytes \ Bytes(b)
      BY <1>2, <2>1, ReserveStep
    <2>3. owned = {}
      BY <1>0, <2>2 DEF Inv
    <2>4. ReservedFree'
      <3> SUFFICES ASSUME NEW n \in 1..Len(Reserved), booted' \in 1..n
                   PROVE  Bytes(ReservedBlock(n)) \subseteq FreeBytes'
        BY DEF ReservedFree
      <3>1. booted \in 1..n /\ n # booted
        BY <1>0, <2>2
      <3>2. Bytes(ReservedBlock(n)) \subseteq FreeBytes
        BY <3>1 DEF Inv, ReservedFree
      <3>3. Bytes(ReservedBlock(n)) \cap Bytes(b) = {}
        BY <2>1, <2>2, <3>1, ReservedBlockIs
      <3> QED BY <2>2, <3>2, <3>3
    <2>5. Data'
      BY <1>0, <2>2 DEF Data
    <2>6. booted' \in Nat
      BY <1>0, <2>2
    <2> QED BY <2>2, <2>3, <2>4, <2>5, <2>6 DEF Inv, OwnedApart
  <1>3. ASSUME NEW size \in Sizes, NEW align \in Aligns, Allocate(size, align) PROVE Inv'
    <2>1. booted > Len(Reserved) /\ booted' = booted /\ Sound'
      BY <1>3, AllocateStep
    <2>2. PICK b \in Block :
                /\ b.start <= b.end /\ owned' = owned \cup {b}
                /\ Bytes(b) \subseteq FreeBytes /\ FreeBytes' = FreeBytes \ Bytes(b)
      BY <1>3, AllocateStep
    <2>3. ReservedFree'
      BY <1>0, <2>1 DEF ReservedFree
    <2>4. OwnedApart'
      <3>1. \A c \in owned : c.start <= c.end /\ Bytes(c) \cap FreeBytes = {}
        BY DEF Inv, OwnedApart
      <3>2. \A c \in owned : Bytes(c) \cap Bytes(b) = {}
        BY <2>2, <3>1
      <3>3. \A c, d \in owned : c # d => Bytes(c) \cap Bytes(d) = {}
        BY DEF Inv, OwnedApart
      <3>4. \A c \in owned' : c.start <= c.end /\ Bytes(c) \cap FreeBytes' = {}
        BY <2>2, <3>1
      <3>5. \A c, d \in owned' : c # d => Bytes(c) \cap Bytes(d) = {}
        BY <2>2, <3>2, <3>3
      <3> QED BY <3>4, <3>5 DEF OwnedApart, Bytes
    <2>5. Data'
      BY <1>0, <2>1 DEF Data
    <2>6. owned' \in SUBSET Block
      BY <1>0, <2>2
    <2> QED BY <1>0, <2>1, <2>3, <2>4, <2>5, <2>6 DEF Inv
  <1>4. ASSUME NEW b \in owned, Free(b) PROVE Inv'
    <2>1. /\ booted' = booted /\ owned' = owned \ {b}
          /\ Sound' /\ FreeBytes' \in {FreeBytes, FreeBytes \cup Bytes(b)}
      BY <1>4, ReleaseStep
    <2>2. booted > Len(Reserved)
      BY DEF Inv
    <2>3. ReservedFree'
      BY <1>0, <2>1, <2>2 DEF ReservedFree
    <2>4. OwnedApart'
      <3>1. \A c \in owned : c.start <= c.end /\ Bytes(c) \cap FreeBytes = {}
        BY DEF Inv, OwnedApart
      <3>2. \A c, d \in owned : c # d => Bytes(c) \cap Bytes(d) = {}
        BY DEF Inv, OwnedApart
      <3>3. \A c \in owned' : c.start <= c.end /\ Bytes(c) \cap FreeBytes' = {}
        BY <2>1, <3>1, <3>2
      <3>4. \A c, d \in owned' : c # d => Bytes(c) \cap Bytes(d) = {}
        BY <2>1, <3>2
      <3> QED BY <3>3, <3>4 DEF OwnedApart, Bytes
    <2>5. Data'
      BY <1>0, <2>1, <2>2 DEF Data
    <2>6. owned' \in SUBSET Block
      BY <1>0, <2>1
    <2> QED BY <1>0, <2>1, <2>2, <2>3, <2>4, <2>5, <2>6 DEF Inv
  <1>5. ASSUME UNCHANGED <<free_size, chain, free_list, booted, owned>> PROVE Inv'
    <2>1. FreeBytes' = FreeBytes /\ Elements(chain)' = Elements(chain)
      BY <1>5 DEF FreeBytes, Elements, Bytes
    <2>2. Sound => Sound'
      BY <1>5, <2>1 DEF Sound, Counted
    <2>3. Data'
      BY <1>5, <2>2 DEF Inv, Data
    <2>4. ReservedFree'
      BY <1>5, <2>1 DEF Inv, ReservedFree
    <2>5. OwnedApart'
      BY <1>5, <2>1 DEF Inv, OwnedApart, Bytes
    <2> QED BY <1>5, <2>3, <2>4, <2>5 DEF Inv
  <1>6. ASSUME NEW size \in Sizes, NEW align \in Aligns,
               AllocateFails(size, align) \/ AllocatePanics(size, align)
        PROVE  Inv'
    BY <1>5, <1>6 DEF AllocateFails, AllocatePanics, vars
  <1>7. ASSUME NEW b \in owned, FreePanics(b) PROVE Inv'
    BY <1>5, <1>7 DEF FreePanics
  <1>8. CASE Spin \/ UNCHANGED vars
    BY <1>5, <1>8 DEF Spin, vars
  <1> QED BY <1>1, <1>2, <1>3, <1>4, <1>6, <1>7, <1>8 DEF Next

(***************************************************************************)
(* The inductive invariant: the chain is coalesced and indexed by the free *)
(* lists, free_size is no less than the free memory, reserved ranges stay  *)
(* free until they are taken, and what callers hold is theirs alone.       *)
(***************************************************************************)
THEOREM AllocatorInvariant == Spec => []Inv
  BY InvInit, InvNext, PTL DEF Spec

(***************************************************************************)
(* The chain that free and define_used_memory edit stays in address order  *)
(* and fully coalesced.                                                    *)
(***************************************************************************)
THEOREM ChainStaysCoalesced == Spec => []ChainCoalesced
  <1>1. Inv => ChainCoalesced
    <2> SUFFICES ASSUME Inv PROVE ChainCoalesced
      OBVIOUS
    <2>1. CASE booted = 0
      BY <2>1 DEF Inv, Data, ChainCoalesced
    <2>2. CASE booted # 0
      <3>1. chain \in Seq(Block) /\ Coalesced(chain)
        BY <2>2 DEF Inv, Data, Sound
      <3>2. ASSUME NEW n \in 1..(Len(chain) - 1) PROVE chain[n].end + 1 < chain[n + 1].start
        <4>1. n + 1 \in 1..Len(chain) /\ n \in 1..((n + 1) - 1)
          BY <3>1
        <4> QED BY <3>1, <4>1 DEF Coalesced
      <3> QED BY <3>1, <3>2 DEF Coalesced, ChainCoalesced
    <2> QED BY <2>1, <2>2
  <1> QED BY AllocatorInvariant, <1>1, PTL

(***************************************************************************)
(* The free lists hold every entry of the chain exactly once, in the list  *)
(* of its current size, smaller entries first.                             *)
(***************************************************************************)
THEOREM FreeListsStayExact == Spec => []FreeListsExact
  <1>1. Inv => FreeListsExact
    <2> SUFFICES ASSUME Inv PROVE FreeListsExact
      OBVIOUS
    <2>1. free_list \in Lists /\ chain \in Seq(Block) /\ Indexed(free_list, Elements(chain))
      <3>1. CASE booted = 0
        <4>1. chain = <<>> /\ free_list = [o \in Order |-> <<>>]
          BY <3>1 DEF Inv, Data
        <4>2. InSizeOrder(<<>>) /\ Elements(<<>>) = {} /\ <<>> \in Seq(Block)
          BY DEF InSizeOrder, Elements
        <4>3. Indexed(free_list, {})
          BY <4>1, <4>2 DEF Indexed
        <4> QED BY <4>1, <4>2, <4>3 DEF Lists
      <3>2. CASE booted # 0
        BY <3>2 DEF Inv, Data, Sound
      <3> QED BY <3>1, <3>2
    <2>2. ASSUME NEW o \in Order, NEW n \in 1..Len(free_list[o])
          PROVE  /\ free_list[o][n] \in Elements(chain)
                 /\ PageOrder(free_list[o][n]) = o
                 /\ \A m \in 1..(n - 1) :
                        /\ free_list[o][m] # free_list[o][n]
                        /\ get_size(free_list[o][m]) <= get_size(free_list[o][n])
      <3>1. free_list[o][n] \in Elements(free_list[o])
        BY DEF Elements
      <3>2. Elements(free_list[o]) = {e \in Elements(chain) : PageOrder(e) = o}
        BY <2>1 DEF Indexed
      <3>3. InSizeOrder(free_list[o])
        BY <2>1 DEF Indexed
      <3> QED BY <3>1, <3>2, <3>3 DEF InSizeOrder
    <2>3. ASSUME NEW e \in Elements(chain) PROVE e \in Elements(free_list[PageOrder(e)])
      <3>1. e \in Block
        BY <2>1 DEF Elements
      <3>2. PageOrder(e) \in Order
        BY <3>1, SizeOf
      <3> QED BY <2>1, <3>2 DEF Indexed
    <2> QED BY <2>2, <2>3 DEF FreeListsExact, PageOrder
  <1> QED BY AllocatorInvariant, <1>1, PTL

(***************************************************************************)
(* A caller that gives back what it was given never runs into the          *)
(* "already freed" and "duplicated area" paths of free.                    *)
(***************************************************************************)
THEOREM OwnedIsNeverDuplicate == Spec => []OwnedNeverDuplicate
  <1>1. Inv => OwnedNeverDuplicate
    <2> SUFFICES ASSUME Inv, NEW b \in owned PROVE ~Duplicate(b)
      BY DEF OwnedNeverDuplicate
    <2>1. Sound
      BY ReservedAssumption DEF Inv, Data
    <2>2. b \in Block /\ b.start <= b.end /\ Bytes(b) \cap FreeBytes = {}
      BY DEF Inv, OwnedApart
    <2> QED BY <2>1, <2>2, NotDuplicate
  <1> QED BY AllocatorInvariant, <1>1, PTL

(***************************************************************************)
(* allocate finds an entry whenever one can hold the request, unless the   *)
(* request is for all that is left: the list of the entry's order is among *)
(* the ones it searches, and free_size is never below the free memory.     *)
(***************************************************************************)
THEOREM AllocateAlwaysFindsRoom == Spec => []AllocateFindsRoom
  <1>1. Inv => AllocateFindsRoom
    <2> SUFFICES ASSUME Inv, booted > Len(Reserved), NEW size \in Sizes, NEW align \in Aligns,
                        NEW e \in Elements(chain), Fits(e, size, align),
                        size # Cardinality(FreeBytes)
                 PROVE  Found(size, align)
      BY DEF AllocateFindsRoom
    <2>1. Sound
      BY ReservedAssumption DEF Inv, Data
    <2>2. size \in Nat \ {0} /\ align \in Nat \ {0}
      BY SizeAssumption
    <2>3. e \in Block /\ e.start < e.end
      BY <2>1 DEF Sound, Coalesced, Elements
    <2>4. e.start <= e.end
      BY <2>3 DEF Block
    <2>5. /\ IsFiniteSet(Bytes(e)) /\ Cardinality(Bytes(e)) = get_size(e)
          /\ get_size(e) \in Nat
      BY <2>3, <2>4, BytesCounted
    <2>6. get_size(e) >= size
      BY DEF Fits
    <2>7. free_size > size
      <3>1. Bytes(e) \subseteq FreeBytes
        BY DEF FreeBytes
      <3>2. /\ IsFiniteSet(FreeBytes) /\ Cardinality(FreeBytes) <= free_size
            /\ free_size \in Nat
        BY <2>1 DEF Sound, Counted
      <3>3. Cardinality(Bytes(e)) <= Cardinality(FreeBytes)
        BY <3>1, <3>2, FS_Subset
      <3>4. Cardinality(FreeBytes) \in Nat
        BY <3>2, FS_CardinalityType
      <3> QED BY <2>2, <2>5, <2>6, <3>2, <3>3, <3>4
    <2>8. Candidates(size, align) # {}
      <3> DEFINE orders == size_to_page_order(size)..(NUM_OF_FREE_LIST - 1)
      <3>1. PageOrder(e) \in Order /\ size_to_page_order(size) \in Order
        BY <2>2, <2>3, SizeOf, OrderOf
      <3>2. size_to_page_order(size) <= PageOrder(e)
        BY <2>2, <2>5, <2>6, OrderRises DEF PageOrder
      <3>3. PICK o \in orders : o = PageOrder(e)
        BY <3>1, <3>2, PoolAssumption DEF Order
      <3>4. e \in Elements(free_list[o])
        BY <2>1, <3>1, <3>3 DEF Sound, Indexed
      <3>5. PICK n \in 1..Len(free_list[o]) : free_list[o][n] = e
        BY <3>4 DEF Elements
      <3> DEFINE p == <<o, n>>
      <3>6. p \in {o} \X (1..Len(free_list[o])) /\ p[1] = o /\ p[2] = n
        OBVIOUS
      <3> HIDE DEF p, orders
      <3>7. p \in Acceptable(orders, size, align)
        BY <3>3, <3>5, <3>6 DEF Acceptable
      <3> QED BY <3>7 DEF Candidates, orders
    <2> QED BY <2>7, <2>8 DEF Found
  <1> QED BY AllocatorInvariant, <1>1, PTL

(***************************************************************************)
(* The allocator implements PageOwnership: setup_memory gives the RAM and  *)
(* takes the reserved ranges, allocate takes a block that is wholly free,  *)
(* free gives one back or loses it, and no other step touches either.      *)
(***************************************************************************)
THEOREM AllocatorImplementsOwnership == Spec => ImplementsOwnership
  <1>1. Init => Ownership!Init
    <2> SUFFICES ASSUME Init PROVE FreeBytes = {} /\ owned = {}
      BY DEF Ownership!Init
    <2>1. Elements(chain) = {}
      BY DEF Init, Elements
    <2> QED BY <2>1 DEF Init, FreeBytes
  <1>2. Inv /\ [Next]_vars => [Ownership!Next]_Ownership!vars
    <2> SUFFICES ASSUME Inv, [Next]_vars PROVE Ownership!Next \/ UNCHANGED <<FreeBytes, owned>>
      BY DEF Ownership!vars
    <2>1. CASE SetupRam
      <3>1. /\ booted = 0 /\ owned' = owned /\ FreeBytes = {} /\ FreeBytes' = Ram
        BY <2>1, SetupRamStep
      <3>2. owned = {}
        BY <3>1, ReservedAssumption DEF Inv
      <3> QED BY <3>1, <3>2 DEF Ownership!Next, Ownership!GiveRam
    <2>2. CASE reserve_memory
      <3>1. PICK b : b = ReservedBlock(booted)
        OBVIOUS
      <3>2. /\ booted \in 1..Len(Reserved) /\ owned' = owned
            /\ Bytes(b) \subseteq FreeBytes /\ FreeBytes' = FreeBytes \ Bytes(b)
        BY <2>2, <3>1, ReserveStep
      <3>3. b \in Block /\ b.start <= b.end
        BY <3>1, <3>2, ReservedBlockIs
      <3>4. b.start \in FreeBytes /\ b.end \in FreeBytes
        BY <3>2, <3>3 DEF Bytes, Block
      <3> QED BY <3>2, <3>4 DEF Ownership!Next, Ownership!Reserve, Bytes
    <2>3. ASSUME NEW size \in Sizes, NEW align \in Aligns, Allocate(size, align)
          PROVE  Ownership!Next
      <3>1. PICK b \in Block :
                /\ b.start <= b.end /\ owned' = owned \cup {b}
                /\ Bytes(b) \subseteq FreeBytes /\ FreeBytes' = FreeBytes \ Bytes(b)
        BY <2>3, AllocateStep
      <3>2. b.start \in FreeBytes /\ b.end \in FreeBytes
        BY <3>1 DEF Bytes, Block
      <3>3. b = [start |-> b.start, end |-> b.end]
        BY DEF Block
      <3>4. Ownership!Allocate
        BY <3>1, <3>2, <3>3, Zenon DEF Ownership!Allocate, Bytes
      <3> QED BY <3>4 DEF Ownership!Next
    <2>4. ASSUME NEW b \in owned, Free(b) PROVE Ownership!Next
      <3>1. owned' = owned \ {b} /\ FreeBytes' \in {FreeBytes, FreeBytes \cup Bytes(b)}
        BY <2>4, ReleaseStep
      <3>2. Ownership!Bytes(b) = Bytes(b)
        BY DEF Ownership!Bytes, Bytes
      <3>3. Ownership!Release
        BY <3>1, <3>2, Zenon DEF Ownership!Release
      <3> QED BY <3>3 DEF Ownership!Next
    <2>5. ASSUME UNCHANGED <<chain, owned>> PROVE UNCHANGED <<FreeBytes, owned>>
      BY <2>5 DEF FreeBytes, Elements, Bytes
    <2>6. ASSUME NEW size \in Sizes, NEW align \in Aligns,
                 AllocateFails(size, align) \/ AllocatePanics(size, align)
          PROVE  UNCHANGED <<FreeBytes, owned>>
      BY <2>5, <2>6 DEF AllocateFails, AllocatePanics, vars
    <2>7. ASSUME NEW b \in owned, FreePanics(b) PROVE UNCHANGED <<FreeBytes, owned>>
      BY <2>5, <2>7 DEF FreePanics
    <2>8. CASE Spin \/ UNCHANGED vars
      BY <2>5, <2>8 DEF Spin, vars
    <2> QED BY <2>1, <2>2, <2>3, <2>4, <2>6, <2>7, <2>8 DEF Next
  <1> QED BY AllocatorInvariant, <1>1, <1>2, PTL DEF Spec, ImplementsOwnership, Ownership!Spec
=============================================================================
