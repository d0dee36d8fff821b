---------------------------- MODULE HostDiskProofs ----------------------------
(***************************************************************************)
(* Proofs about Fat32 and about HostDisk, the file system on the driver.   *)
(*                                                                         *)
(* Fat32, for sectors, clusters, file allocation tables, directories and   *)
(* requests of any size: a request whose clusters follow each other on the *)
(* disk moves exactly the bytes that were asked for, and every request     *)
(* gives its buffers back.                                                 *)
(*                                                                         *)
(* HostDisk, for any disk, directory, callers and device tree, any size of *)
(* the queue from three descriptors on and any range of its index: the     *)
(* host's virtio-blk driver and its device stay in step, and the file      *)
(* system on it does what Fat32 promises.                                  *)
(***************************************************************************)
EXTENDS HostDisk, Integers, WellFoundedInduction, TLAPS

-----------------------------------------------------------------------------
(* Numbers *)

(***************************************************************************)
(* A set of numbers that is not empty has a least one.                     *)
(***************************************************************************)
LEMMA LeastExists ==
    ASSUME NEW S \in SUBSET Nat, S # {}
    PROVE  \E n \in S : \A m \in S : n <= m
  <1> DEFINE R == OpToRel(<, Nat)
  <1>1. IsWellFoundedOn(R, Nat)
    BY NatLessThanWellFounded
  <1>2. \A x, y \in Nat : <<y, x>> \in R <=> y < x
    BY DEF OpToRel
  <1> HIDE DEF R
  <1>3. \E x \in S : \A y \in S : ~(<<y, x>> \in R)
    BY <1>1, WFMin, Zenon
  <1>4. \A x, y \in Nat : ~(y < x) => x <= y
    OBVIOUS
  <1> QED BY <1>2, <1>3, <1>4, Zenon

(***************************************************************************)
(* Division with remainder.                                                *)
(***************************************************************************)
LEMMA Divided ==
    ASSUME NEW a \in Nat, NEW b \in Nat \ {0}
    PROVE  /\ a \div b \in Nat /\ a % b \in 0..(b - 1)
           /\ a = (a \div b) * b + (a % b)
  <1>1. a \div b \in Nat /\ a % b \in 0..(b - 1) /\ a = b * (a \div b) + (a % b)
    OBVIOUS
  <1>2. b * (a \div b) = (a \div b) * b
    BY <1>1
  <1> QED BY <1>1, <1>2

(***************************************************************************)
(* Products keep the order of their factors.                               *)
(***************************************************************************)
LEMMA ProductOrder ==
    ASSUME NEW a \in Int, NEW b \in Int, NEW c \in Nat \ {0}
    PROVE  a <= b <=> a * c <= b * c
  <1>1. ASSUME NEW x \in Int, NEW y \in Int, x <= y PROVE x * c <= y * c
    <2>1. PICK t \in Nat : y = x + t
      <3>1. y - x \in Nat /\ y = x + (y - x)
        BY <1>1
      <3> QED BY <3>1
    <2>2. y * c = x * c + t * c /\ t * c \in Nat /\ x * c \in Int
      BY <2>1
    <2> QED BY <2>2
  <1>2. ASSUME ~(a <= b) PROVE ~(a * c <= b * c)
    <2>1. (b + 1) * c <= a * c
      BY <1>1, <1>2
    <2>2. (b + 1) * c = b * c + c /\ b * c \in Int /\ a * c \in Int
      OBVIOUS
    <2> QED BY <2>1, <2>2
  <1> QED BY <1>1, <1>2

(***************************************************************************)
(* The quotient is the largest multiple that fits.                         *)
(***************************************************************************)
LEMMA QuotientOrder ==
    ASSUME NEW a \in Nat, NEW b \in Nat \ {0}, NEW q \in Int
    PROVE  q <= a \div b <=> q * b <= a
  <1>1. PICK n \in Nat : n = a \div b
    BY Divided
  <1>2. PICK r \in 0..(b - 1) : a = n * b + r
    BY <1>1, Divided
  <1>3. n * b \in Nat /\ q * b \in Int /\ (n + 1) * b = n * b + b
    OBVIOUS
  <1>4. ASSUME q <= n PROVE q * b <= a
    <2>1. q * b <= n * b
      BY <1>4, ProductOrder
    <2> QED BY <1>2, <1>3, <2>1
  <1>5. ASSUME q * b <= a PROVE q <= n
    <2>1. ASSUME ~(q <= n) PROVE FALSE
      <3>1. n + 1 <= q
        BY <2>1
      <3>2. (n + 1) * b <= q * b
        BY <3>1, ProductOrder
      <3> QED BY <1>2, <1>3, <1>5, <3>2
    <2> QED BY <2>1
  <1> QED BY <1>1, <1>4, <1>5

-----------------------------------------------------------------------------
(* The clusters of a file *)

(***************************************************************************)
(* get_next_cluster is a cluster, or 0.                                    *)
(***************************************************************************)
LEMMA NextCluster == \A c : get_next_cluster(c) \in Nat
  BY FatAssumption DEF get_next_cluster

(***************************************************************************)
(* ClustersFrom goes along the chain: the function it is defined as exists.*)
(***************************************************************************)
LEMMA ClustersAre ==
    ASSUME NEW first \in Nat, NEW c, c = ClustersFrom(first)
    PROVE  /\ c[0] = first
           /\ \A n \in Nat : c[n] \in Nat
           /\ \A n \in Nat \ {0} : c[n] = get_next_cluster(c[n - 1])
  <1> DEFINE next(x) == get_next_cluster(x)
             Def(g) == g = [n \in Nat |-> IF n = 0 THEN first ELSE next(g[n - 1])]
             Walk(h, n) == /\ h \in [0..n -> Nat] /\ h[0] = first
                           /\ \A i \in 1..n : h[i] = next(h[i - 1])
  <1>0. \A x : next(x) \in Nat
    BY NextCluster
  <1>1. c = CHOOSE g : Def(g)
    BY DEF ClustersFrom
  <1> HIDE DEF next
  <1>2. \A n \in Nat : \E h : Walk(h, n)
    <2> DEFINE Bad == {n \in Nat : ~\E h : Walk(h, n)}
    <2> SUFFICES ASSUME Bad # {} PROVE FALSE
      OBVIOUS
    <2>1. PICK m \in Bad : \A n \in Bad : m <= n
      <3>1. Bad \in SUBSET Nat
        OBVIOUS
      <3> HIDE DEF Bad
      <3> QED BY <3>1, LeastExists
    <2>2. m # 0
      <3>1. Walk([i \in 0..0 |-> first], 0)
        OBVIOUS
      <3> QED BY <3>1
    <2>3. PICK h : Walk(h, m - 1)
      <3>1. m - 1 \in Nat /\ ~(m <= m - 1)
        BY <2>2
      <3> QED BY <2>1, <3>1
    <2> DEFINE g == [i \in 0..m |-> IF i = m THEN next(h[m - 1]) ELSE h[i]]
    <2>4. g \in [0..m -> Nat] /\ g[0] = first
      BY <1>0, <2>2, <2>3
    <2>5. ASSUME NEW i \in 1..m PROVE g[i] = next(g[i - 1])
      <3>1. CASE i = m
        <4>1. g[i] = next(h[m - 1]) /\ g[i - 1] = h[m - 1]
          BY <2>2, <3>1
        <4> QED BY <4>1
      <3>2. CASE i # m
        <4>1. i \in 1..(m - 1) /\ i - 1 \in 0..m /\ i - 1 # m
          BY <3>2
        <4>2. g[i] = h[i] /\ g[i - 1] = h[i - 1]
          BY <3>2, <4>1
        <4> QED BY <2>3, <4>1, <4>2
      <3> QED BY <3>1, <3>2
    <2>6. Walk(g, m)
      BY <2>4, <2>5
    <2> QED BY <2>6
  <1>3. ASSUME NEW n \in Nat, NEW h, Walk(h, n), NEW m \in 0..n, NEW g, Walk(g, m)
        PROVE  \A i \in 0..m : h[i] = g[i]
    <2> DEFINE Bad == {i \in 0..m : h[i] # g[i]}
    <2> SUFFICES ASSUME Bad # {} PROVE FALSE
      OBVIOUS
    <2>1. PICK j \in Bad : \A i \in Bad : j <= i
      <3>1. Bad \in SUBSET Nat
        OBVIOUS
      <3> HIDE DEF Bad
      <3> QED BY <3>1, LeastExists
    <2>2. j \in 1..m /\ j \in 1..n /\ j - 1 \in 0..m
      BY <1>3, <2>1
    <2>3. h[j - 1] = g[j - 1]
      BY <2>1, <2>2
    <2>4. h[j] = next(h[j - 1]) /\ g[j] = next(g[j - 1])
      BY <1>3, <2>2
    <2> QED BY <2>1, <2>3, <2>4
  <1> DEFINE w(n) == CHOOSE h : Walk(h, n)
             f == [n \in Nat |-> w(n)[n]]
  <1>4. \A n \in Nat : Walk(w(n), n)
    BY <1>2
  <1> HIDE DEF w
  <1>5. f[0] = first /\ \A n \in Nat : f[n] = w(n)[n] /\ f[n] \in Nat
    <2>1. \A n \in Nat : f[n] = w(n)[n]
      OBVIOUS
    <2>2. \A n \in Nat : w(n)[0] = first /\ w(n)[n] \in Nat
      <3>1. \A n \in Nat : n \in 0..n
        OBVIOUS
      <3> QED BY <1>4, <3>1
    <2> QED BY <2>1, <2>2
  <1>6. ASSUME NEW n \in Nat \ {0} PROVE f[n] = next(f[n - 1])
    <2>1. n - 1 \in Nat /\ n - 1 \in 0..n /\ n \in 1..n /\ n - 1 \in 0..(n - 1)
      OBVIOUS
    <2>2. w(n)[n - 1] = w(n - 1)[n - 1]
      <3>1. Walk(w(n), n) /\ Walk(w(n - 1), n - 1)
        BY <1>4, <2>1
      <3> HIDE DEF Walk
      <3> QED BY <1>3, <2>1, <3>1
    <2>3. w(n)[n] = next(w(n)[n - 1])
      BY <1>4, <2>1
    <2> QED BY <1>5, <2>1, <2>2, <2>3
  <1>7. Def(f)
    <2>1. f = [n \in Nat |-> f[n]]
      OBVIOUS
    <2> HIDE DEF f
    <2> QED BY <1>5, <1>6, <2>1
  <1>8. Def(c)
    BY <1>1, <1>7
  <1>9. c[0] = first /\ \A n \in Nat \ {0} : c[n] = next(c[n - 1])
    BY <1>8
  <1>10. \A n \in Nat : c[n] \in Nat
    BY <1>0, <1>9
  <1> QED BY <1>9, <1>10 DEF next

(***************************************************************************)
(* search_file finds the live file of that name.                           *)
(***************************************************************************)
LEMMA FoundIsNamed ==
    ASSUME NEW r \in Requests, search_file(r.name) # NoFile,
           NEW e, e = FileNamed(r.name)
    PROVE  /\ e \in DirectoryEntry
           /\ search_file(r.name).entry_cluster = e.cluster
           /\ search_file(r.name).file_size = e.file_length
  <1> DEFINE found == {i \in 1..Len(Directory) : Found(i, r.name)}
             first == CHOOSE i \in found : \A j \in found : i <= j
             entries == {Directory[i] : i \in 1..Len(Directory)}
  <1>1. /\ found # {}
        /\ search_file(r.name) = [entry_cluster |-> Directory[first].cluster,
                                  file_size |-> Directory[first].file_length]
    BY DEF search_file
  <1>2. first \in found
    <2>1. found \in SUBSET Nat
      BY DirectoryAssumption
    <2> HIDE DEF found
    <2>2. \E i \in found : \A j \in found : i <= j
      BY <1>1, <2>1, LeastExists
    <2> QED BY <2>2
  <1>3. PICK n \in 1..Len(Directory) : n = first /\ Found(n, r.name)
    BY <1>2
  <1> HIDE DEF first
  <1>4. Directory[n] \in DirectoryEntry
    BY DirectoryAssumption
  <1>5. LiveFile(Directory[n], r.name)
    BY <1>3, <1>4 DEF Found, LiveFile, Skipped, SameName, DirectoryEntry, Attribute
  <1>6. Directory[n] \in entries
    OBVIOUS
  <1>7. e \in entries /\ LiveFile(e, r.name)
    BY <1>5, <1>6 DEF FileNamed
  <1>8. e = Directory[n]
    BY <1>5, <1>7, NameAssumption
  <1> QED BY <1>1, <1>3, <1>4, <1>8

-----------------------------------------------------------------------------
(* The bytes of a request *)

\* The definitions of Fat32's properties, said of any request.
At(r, n) == ClustersFrom(FileNamed(r.name).cluster)[n]
FirstOf(r) == r.offset \div BytesPerCluster
LastOf(r) == (r.offset + r.length - 1) \div BytesPerCluster
Follow(r) == \A n \in (FirstOf(r) + 1)..LastOf(r) : At(r, n) = At(r, n - 1) + 1
Whole(r) == Max2((r.length + BytesPerSector - 1) \div BytesPerSector, 1) * BytesPerSector

ByteOf(r, n) ==
    SectorByte(cluster_to_sector(At(r, n \div BytesPerCluster))) + (n % BytesPerCluster)

\* Where the first byte of the request lies on the disk.
InCluster(r) == r.offset % BytesPerCluster
StartByte(r) == SectorByte(cluster_to_sector(At(r, FirstOf(r)))) + InCluster(r)

\* A request for a file that there is.
Proper(r) ==
    /\ r.offset \in Nat /\ r.length \in Nat
    /\ FileNamed(r.name).cluster \in Nat

(***************************************************************************)
(* Sectors and clusters have bytes.                                        *)
(***************************************************************************)
LEMMA Sizes ==
    /\ BytesPerSector \in Nat \ {0} /\ SectorsPerCluster \in Nat \ {0}
    /\ BytesPerCluster \in Nat \ {0} /\ BytesPerSector <= BytesPerCluster
  <1>1. BytesPerSector \in Nat \ {0} /\ SectorsPerCluster \in Nat \ {0}
    BY GeometryAssumption
  <1>2. 1 * BytesPerSector <= SectorsPerCluster * BytesPerSector
    BY <1>1, ProductOrder
  <1>3. SectorsPerCluster * BytesPerSector \in Nat
    BY <1>1
  <1> QED BY <1>1, <1>2, <1>3 DEF BytesPerCluster

(***************************************************************************)
(* The numbers of a request.                                               *)
(***************************************************************************)
LEMMA RequestNumbers ==
    ASSUME NEW r, Proper(r)
    PROVE  /\ FirstOf(r) \in Nat /\ LastOf(r) \in Int /\ InCluster(r) \in 0..(BytesPerCluster - 1)
           /\ r.offset = FirstOf(r) * BytesPerCluster + InCluster(r)
           /\ \A n \in Nat : At(r, n) \in Nat
           /\ \A n \in Nat : At(r, n + 1) = get_next_cluster(At(r, n))
           /\ At(r, 0) = FileNamed(r.name).cluster
  <1>1. r.offset \in Nat /\ r.length \in Nat /\ FileNamed(r.name).cluster \in Nat
    BY DEF Proper
  <1>2. /\ FirstOf(r) \in Nat /\ InCluster(r) \in 0..(BytesPerCluster - 1)
        /\ r.offset = FirstOf(r) * BytesPerCluster + InCluster(r)
    BY <1>1, Sizes, Divided DEF FirstOf, InCluster
  <1>3. LastOf(r) \in Int
    <2>1. r.offset + r.length - 1 \in Int /\ BytesPerCluster \in Nat \ {0}
      BY <1>1, Sizes
    <2> QED BY <2>1 DEF LastOf
  <1>4. PICK c : c = ClustersFrom(FileNamed(r.name).cluster)
    OBVIOUS
  <1>5. \A n : At(r, n) = c[n]
    BY <1>4 DEF At
  <1>6. /\ c[0] = FileNamed(r.name).cluster
        /\ \A n \in Nat : c[n] \in Nat
        /\ \A n \in Nat \ {0} : c[n] = get_next_cluster(c[n - 1])
    BY <1>1, <1>4, ClustersAre
  <1>7. ASSUME NEW n \in Nat PROVE At(r, n + 1) = get_next_cluster(At(r, n))
    <2>1. n + 1 \in Nat \ {0} /\ (n + 1) - 1 = n
      OBVIOUS
    <2> QED BY <1>5, <1>6, <2>1
  <1> QED BY <1>2, <1>3, <1>5, <1>6, <1>7

(***************************************************************************)
(* Clusters that follow each other are numbered from the first one.        *)
(***************************************************************************)
LEMMA RunIs ==
    ASSUME NEW r, Proper(r), Follow(r), NEW k \in Nat, FirstOf(r) + k <= LastOf(r)
    PROVE  At(r, FirstOf(r) + k) = At(r, FirstOf(r)) + k
  <1>0. FirstOf(r) \in Nat /\ LastOf(r) \in Int /\ \A n \in Nat : At(r, n) \in Nat
    BY RequestNumbers
  <1> DEFINE Bad == {i \in Nat : FirstOf(r) + i <= LastOf(r)
                                    /\ At(r, FirstOf(r) + i) # At(r, FirstOf(r)) + i}
  <1> SUFFICES ASSUME Bad # {} PROVE FALSE
    OBVIOUS
  <1>1. PICK j \in Bad : \A i \in Bad : j <= i
    <2>1. Bad \in SUBSET Nat
      OBVIOUS
    <2> HIDE DEF Bad
    <2> QED BY <2>1, LeastExists
  <1>2. j # 0
    BY <1>0, <1>1
  <1>3. /\ j - 1 \in Nat /\ j - 1 \notin Bad /\ FirstOf(r) + (j - 1) <= LastOf(r)
        /\ FirstOf(r) + j \in (FirstOf(r) + 1)..LastOf(r)
        /\ (FirstOf(r) + j) - 1 = FirstOf(r) + (j - 1)
    BY <1>0, <1>1, <1>2
  <1>4. At(r, FirstOf(r) + (j - 1)) = At(r, FirstOf(r)) + (j - 1)
    BY <1>3
  <1>5. At(r, FirstOf(r) + j) = At(r, (FirstOf(r) + j) - 1) + 1
    BY <1>3 DEF Follow
  <1>6. At(r, FirstOf(r)) \in Nat
    BY <1>0
  <1> QED BY <1>1, <1>3, <1>4, <1>5, <1>6

(***************************************************************************)
(* A cluster further on the disk is that many bytes further.               *)
(***************************************************************************)
LEMMA ClusterBytes ==
    ASSUME NEW c \in Nat, NEW k \in Nat
    PROVE  /\ SectorByte(cluster_to_sector(c)) \in Int
           /\ SectorByte(cluster_to_sector(c + k))
                    = SectorByte(cluster_to_sector(c)) + k * BytesPerCluster
  <1> DEFINE B == BytesPerSector
             S == SectorsPerCluster
  <1>1. PICK f \in Nat : f = ReservedSectors + NumberOfFats * FatSectors
    BY GeometryAssumption
  <1>2. B \in Nat /\ S \in Nat /\ PartitionStart \in Nat
    BY GeometryAssumption
  <1> HIDE DEF B, S
  <1>3. PICK x \in Int : x = (c - 2) * S
    BY <1>2
  <1>4. (c + k - 2) * S = x + k * S
    BY <1>2, <1>3
  <1>5. PICK y \in Nat : y = k * S
    BY <1>2
  <1>6. cluster_to_sector(c) = f + x /\ cluster_to_sector(c + k) = (f + x) + y
    BY <1>1, <1>3, <1>4, <1>5 DEF cluster_to_sector, S
  <1>7. ((f + x) + y) * B = (f + x) * B + y * B /\ (f + x) * B \in Int /\ y * B \in Int
    BY <1>2
  <1>8. y * B = k * (S * B)
    BY <1>2, <1>5
  <1>9. BytesPerCluster = S * B
    BY DEF BytesPerCluster, S, B
  <1>10. SectorByte(cluster_to_sector(c)) = PartitionStart + (f + x) * B
    BY <1>6 DEF SectorByte, B
  <1>11. SectorByte(cluster_to_sector(c + k)) = PartitionStart + ((f + x) + y) * B
    BY <1>6 DEF SectorByte, B
  <1> QED BY <1>2, <1>7, <1>8, <1>9, <1>10, <1>11

(***************************************************************************)
(* The bytes of a request whose clusters follow each other lie one after   *)
(* the other on the disk.                                                  *)
(***************************************************************************)
LEMMA BytesFollow ==
    ASSUME NEW r, Proper(r), Follow(r), NEW i \in Nat,
           (r.offset + i) \div BytesPerCluster <= LastOf(r)
    PROVE  ByteOf(r, r.offset + i) = StartByte(r) + i
  <1> DEFINE C == BytesPerCluster
             a == r.offset + i
  <1>0. C \in Nat \ {0} /\ r.offset \in Nat /\ a \in Nat
    BY Sizes DEF Proper
  <1>1. PICK n \in Nat, d \in 0..(C - 1) :
            n = FirstOf(r) /\ d = InCluster(r) /\ r.offset = n * C + d
    BY RequestNumbers
  <1>2. PICK q \in Nat, e \in 0..(C - 1) : q = a \div C /\ e = a % C /\ a = q * C + e
    BY <1>0, Divided
  <1> HIDE DEF C
  <1>3. n <= q
    <2>1. n * C <= a
      BY <1>0, <1>1
    <2> HIDE DEF a
    <2> QED BY <1>0, <1>2, <2>1, QuotientOrder
  <1>4. PICK k \in Nat : q = n + k
    <2>1. q - n \in Nat /\ q = n + (q - n)
      BY <1>3
    <2> QED BY <2>1
  <1>5. PICK c \in Nat : c = At(r, n)
    BY RequestNumbers
  <1>6. At(r, q) = c + k
    BY <1>1, <1>2, <1>4, <1>5, RunIs DEF C
  <1>7. PICK b \in Int : b = SectorByte(cluster_to_sector(c))
    BY ClusterBytes
  <1>8. SectorByte(cluster_to_sector(c + k)) = b + k * C
    BY <1>7, ClusterBytes DEF C
  <1>9. ByteOf(r, a) = b + k * C + e
    BY <1>2, <1>6, <1>8 DEF ByteOf, C
  <1>10. StartByte(r) = b + d
    BY <1>1, <1>5, <1>7 DEF StartByte
  <1>11. q * C = n * C + k * C /\ n * C \in Nat /\ k * C \in Nat
    BY <1>0, <1>4
  <1>12. k * C + e = d + i
    BY <1>1, <1>2, <1>11
  <1> QED BY <1>7, <1>9, <1>10, <1>11, <1>12

(***************************************************************************)
(* A byte of the request lies in its clusters.                             *)
(***************************************************************************)
LEMMA InRange ==
    ASSUME NEW r, Proper(r), NEW i \in Nat, i < r.length
    PROVE  (r.offset + i) \div BytesPerCluster <= LastOf(r)
  <1>1. r.offset \in Nat /\ r.length \in Nat \ {0} /\ BytesPerCluster \in Nat \ {0}
    BY Sizes DEF Proper
  <1>2. PICK a \in Nat, z \in Nat : a = r.offset + i /\ z = r.offset + r.length - 1 /\ a <= z
    <2>1. r.offset + i \in Nat /\ r.offset + r.length - 1 \in Nat
          /\ r.offset + i <= r.offset + r.length - 1
      BY <1>1
    <2> QED BY <2>1
  <1>3. PICK q \in Nat : q = a \div BytesPerCluster
    BY <1>1, Divided
  <1>4. q * BytesPerCluster <= a
    BY <1>1, <1>3, QuotientOrder
  <1>5. q * BytesPerCluster <= z
    BY <1>1, <1>2, <1>4
  <1>6. q <= z \div BytesPerCluster
    BY <1>1, <1>5, QuotientOrder
  <1> QED BY <1>2, <1>3, <1>6 DEF LastOf

(***************************************************************************)
(* The last sector of a request is filled up by less than a sector; that   *)
(* of an empty one counts as if it had a byte.                             *)
(***************************************************************************)
LEMMA WholeIs ==
    ASSUME NEW r, Proper(r)
    PROVE  \E x \in Nat : /\ Whole(r) = x * BytesPerSector /\ Whole(r) \in Nat
                          /\ Max2(r.length, 1) <= Whole(r)
                          /\ Whole(r) < Max2(r.length, 1) + BytesPerSector
  <1>1. r.length \in Nat /\ BytesPerSector \in Nat \ {0}
    BY Sizes DEF Proper
  <1>2. PICK a \in Nat : a = r.length + BytesPerSector - 1
    <2>1. r.length + BytesPerSector - 1 \in Nat
      BY <1>1
    <2> QED BY <2>1
  <1>3. PICK x \in Nat, e \in 0..(BytesPerSector - 1) :
            x = a \div BytesPerSector /\ a = x * BytesPerSector + e
    BY <1>1, Divided
  <1>4. CASE r.length = 0
    <2>1. x = 0
      <3>1. ~(1 <= x)
        <4>1. ~(1 * BytesPerSector <= a)
          BY <1>1, <1>2, <1>4
        <4> QED BY <1>1, <1>3, <4>1, QuotientOrder
      <3> QED BY <3>1
    <2>2. Whole(r) = 1 * BytesPerSector /\ Max2(r.length, 1) = 1
      BY <1>2, <1>3, <1>4, <2>1 DEF Whole, Max2
    <2> QED BY <1>1, <2>2
  <1>5. CASE r.length # 0
    <2>1. 1 <= x
      <3>1. 1 * BytesPerSector <= a
        BY <1>1, <1>2, <1>5
      <3> QED BY <1>1, <1>3, <3>1, QuotientOrder
    <2>2. x * BytesPerSector \in Nat /\ Whole(r) = x * BytesPerSector
      <3>1. Max2(x, 1) = x
        BY <2>1 DEF Max2
      <3> QED BY <1>1, <1>2, <1>3, <3>1 DEF Whole
    <2>3. Max2(r.length, 1) = r.length
      BY <1>1, <1>5 DEF Max2
    <2>4. r.length <= Whole(r) /\ Whole(r) < r.length + BytesPerSector
      BY <1>1, <1>2, <1>3, <2>2
    <2> QED BY <2>2, <2>3, <2>4
  <1> QED BY <1>4, <1>5

(***************************************************************************)
(* If it starts on a sector, the last sector lies in its clusters too.     *)
(***************************************************************************)
LEMMA InSectors ==
    ASSUME NEW r, Proper(r), r.length # 0, NEW y \in Nat, InCluster(r) = y * BytesPerSector,
           NEW i \in Nat, i < Whole(r)
    PROVE  (r.offset + i) \div BytesPerCluster <= LastOf(r)
  <1> DEFINE B == BytesPerSector
             S == SectorsPerCluster
             C == BytesPerCluster
  <1>1. B \in Nat \ {0} /\ S \in Nat \ {0} /\ C \in Nat \ {0} /\ C = S * B
    BY Sizes DEF BytesPerCluster
  <1>2. r.offset \in Nat /\ r.length \in Nat \ {0}
    BY DEF Proper
  <1>3. PICK x \in Nat : Whole(r) = x * B /\ Whole(r) \in Nat /\ Whole(r) < r.length + B
    <2>1. Max2(r.length, 1) = r.length
      BY <1>2 DEF Max2
    <2> QED BY <2>1, WholeIs
  <1>4. PICK n \in Nat : n = FirstOf(r) /\ r.offset = n * C + y * B
    BY RequestNumbers
  <1>5. PICK z \in Nat : z = r.offset + r.length - 1
    <2>1. r.offset + r.length - 1 \in Nat
      BY <1>2
    <2> QED BY <2>1
  <1>6. PICK q \in Nat : q = LastOf(r) /\ q = z \div C
    <2>1. z \div C \in Nat
      BY <1>1, Divided
    <2> QED BY <1>5, <2>1 DEF LastOf
  <1> HIDE DEF B, S, C
  <1>7. z < (q + 1) * C
    <2>1. ~(q + 1 <= z \div C)
      BY <1>6
    <2>2. ~((q + 1) * C <= z)
      BY <1>1, <2>1, QuotientOrder
    <2>3. (q + 1) * C \in Int
      BY <1>1
    <2> QED BY <2>2, <2>3
  <1>8. PICK u \in Nat : u = (q + 1) * S
    BY <1>1
  <1>9. (q + 1) * C = u * B
    BY <1>1, <1>8
  <1>10. PICK v \in Nat : v = n * S
    BY <1>1
  <1>11. n * C = v * B
    BY <1>1, <1>10
  <1>12. PICK t \in Nat : t = v + y + x
    OBVIOUS
  <1>13. t * B = v * B + y * B + x * B /\ v * B \in Nat /\ y * B \in Nat /\ x * B \in Nat
    BY <1>1, <1>12
  <1>14. r.offset + Whole(r) = t * B
    BY <1>3, <1>4, <1>11, <1>13
  <1>15. u * B \in Nat /\ (u + 1) * B = u * B + B
    BY <1>1
  <1>16. t * B < (u + 1) * B
    BY <1>1, <1>2, <1>3, <1>5, <1>7, <1>9, <1>14, <1>15
  <1>17. t <= u
    <2>1. ASSUME ~(t <= u) PROVE FALSE
      <3>1. u + 1 <= t
        BY <2>1
      <3>2. (u + 1) * B <= t * B
        BY <1>1, <3>1, ProductOrder
      <3> QED BY <1>1, <1>13, <1>15, <1>16, <3>2
    <2> QED BY <2>1
  <1>18. t * B <= u * B
    BY <1>1, <1>17, ProductOrder
  <1>19. PICK a \in Nat : a = r.offset + i
    BY <1>2
  <1>20. a < (q + 1) * C
    BY <1>2, <1>3, <1>9, <1>13, <1>14, <1>15, <1>18, <1>19
  <1>21. ~(q + 1 <= a \div C)
    <2>1. (q + 1) * C \in Int
      BY <1>1
    <2>2. ~((q + 1) * C <= a)
      BY <1>20, <2>1
    <2> QED BY <1>1, <2>2, QuotientOrder
  <1>22. a \div C \in Nat
    BY <1>1, Divided
  <1>23. a \div C <= q
    BY <1>21, <1>22
  <1> QED BY <1>6, <1>19, <1>23 DEF C

-----------------------------------------------------------------------------
(* The inductive invariant *)

\* The sectors skipped before the data, and what is left of the offset.
SkipOf(d) == IF d > BytesPerSector THEN d \div BytesPerSector ELSE 0
RestOf(d) == IF d > BytesPerSector THEN d % BytesPerSector ELSE d

(***************************************************************************)
(* The offset in the cluster is divided into sectors and a rest.           *)
(***************************************************************************)
LEMMA SkipIs ==
    ASSUME NEW d \in Nat
    PROVE  /\ SkipOf(d) \in Nat /\ RestOf(d) \in 0..BytesPerSector
           /\ d = SkipOf(d) * BytesPerSector + RestOf(d)
  <1>1. BytesPerSector \in Nat \ {0}
    BY Sizes
  <1>2. CASE d > BytesPerSector
    <2>1. /\ d \div BytesPerSector \in Nat /\ d % BytesPerSector \in 0..(BytesPerSector - 1)
          /\ d = (d \div BytesPerSector) * BytesPerSector + (d % BytesPerSector)
      BY <1>1, Divided
    <2>2. SkipOf(d) = d \div BytesPerSector /\ RestOf(d) = d % BytesPerSector
      BY <1>2 DEF SkipOf, RestOf
    <2> QED BY <1>1, <2>1, <2>2
  <1>3. CASE ~(d > BytesPerSector)
    <2>1. SkipOf(d) = 0 /\ RestOf(d) = d
      BY <1>3 DEF SkipOf, RestOf
    <2>2. 0 * BytesPerSector = 0
      BY <1>1
    <2> QED BY <1>1, <1>3, <2>1, <2>2
  <1> QED BY <1>2, <1>3

Nothing == moved = {} /\ buffer_pointer = 0

\* The inner loop has planned k whole clusters of the request's only run.
Planned(r, k) ==
    LET d == InCluster(r) IN
    /\ Nothing
    /\ first_cluster = At(r, FirstOf(r))
    /\ cluster = first_cluster + k
    /\ sectors = k * SectorsPerCluster
    /\ k = 0 => /\ data_offset = d /\ data_offset_backup = d
                /\ sector_offset = 0 /\ run_bytes = 0
    /\ k # 0 => /\ data_offset = 0 /\ data_offset_backup = RestOf(d)
                /\ sector_offset = SkipOf(d)
                /\ run_bytes = k * BytesPerCluster - RestOf(d)
                /\ run_bytes < r.length

\* The run is all of the request, and ends with its last sector.
Ready(r) ==
    LET d == InCluster(r) IN
    /\ Nothing
    /\ first_cluster = At(r, FirstOf(r))
    /\ data_offset_backup = RestOf(d)
    /\ sector_offset = SkipOf(d)
    /\ run_bytes = r.length
    /\ sectors \in Nat
    /\ Max2(r.length + RestOf(d), 1) <= sectors * BytesPerSector
    /\ sectors * BytesPerSector < Max2(r.length + RestOf(d), 1) + BytesPerSector
    /\ r.op = "write" => r.length # 0

\* The first n bytes from the start of the request.
MovedBytes(r, n) == moved = {<<i, StartByte(r) + i>> : i \in 0..(n - 1)}

\* A bounced read moves the length, anything else whole sectors.
MovedRun(r) ==
    \/ r.op = "read" /\ MovedBytes(r, r.length)
    \/ /\ MovedBytes(r, Whole(r)) /\ \E y \in Nat : InCluster(r) = y * BytesPerSector
       /\ r.op = "write" => r.length # 0

\* What the caller asked for, and the file that search_file found.
Asked ==
    /\ req \in Request /\ Proper(req)
    /\ file_info.file_size = FileNamed(req.name).file_length
    /\ file_info.file_size \in Nat

Skipping(r) ==
    /\ Nothing
    /\ clusters_to_skip \in 0..FirstOf(r)
    /\ cluster = At(r, FirstOf(r) - clusters_to_skip)
    /\ data_offset = InCluster(r)

FileInv ==
    /\ pc \in {"mbr", "bpb", "fat", "root", "idle", "start", "skip", "plan", "transfer", "io",
               "ok", "error", "panic", "failed"}
    /\ pc \in {"mbr", "bpb", "fat", "root", "idle", "panic", "failed"} => Nothing
    /\ pc \in {"start", "skip", "plan", "transfer", "io", "ok"} => Asked
    /\ pc = "start" => Nothing /\ cluster = At(req, 0)
    /\ pc = "skip" => Skipping(req)
    /\ pc = "plan" /\ Follow(req) => \E k \in Nat : Planned(req, k)
    /\ pc \in {"transfer", "io"} /\ Follow(req) => Ready(req)
    /\ pc = "io" /\ Bouncing => req.op = "read"
    /\ pc = "ok" /\ Follow(req) =>
            \/ MovedRun(req)
            \/ moved = {} /\ req.offset >= FileNamed(req.name).file_length
    /\ pc = "error" /\ Follow(req) => moved = {}

-----------------------------------------------------------------------------
(* The steps *)

(***************************************************************************)
(* A step that fails moves nothing.                                        *)
(***************************************************************************)
LEMMA FailStep ==
    ASSUME FileInv, Fail, pc \in {"skip", "plan", "transfer"}
    PROVE  FileInv'
  <1>1. pc' = "error" /\ req' = req /\ moved' = moved
    BY DEF Fail
  <1>2. Follow(req) => moved = {}
    BY DEF FileInv, Skipping, Planned, Ready, Nothing
  <1> QED BY <1>1, <1>2 DEF FileInv

(***************************************************************************)
(* A caller opens a file and asks for a range of it.                       *)
(***************************************************************************)
LEMMA FileCallStep ==
    ASSUME FileInv, NEW r \in Requests, Call(r)
    PROVE  FileInv'
  <1>1. /\ pc = "idle" /\ req' = r /\ file_info' = search_file(r.name)
        /\ cluster' = search_file(r.name).entry_cluster
        /\ buffer_pointer' = buffer_pointer /\ moved' = moved
        /\ pc' = IF search_file(r.name) = NoFile THEN "panic" ELSE "start"
    BY DEF Call
  <1>2. Nothing'
    BY <1>1 DEF FileInv, Nothing
  <1>3. CASE search_file(r.name) = NoFile
    BY <1>1, <1>2, <1>3 DEF FileInv
  <1>4. CASE search_file(r.name) # NoFile
    <2>1. PICK e \in DirectoryEntry :
            /\ e = FileNamed(r.name)
            /\ search_file(r.name).entry_cluster = e.cluster
            /\ search_file(r.name).file_size = e.file_length
      BY <1>4, FoundIsNamed
    <2>2. e.cluster \in Nat /\ e.file_length \in Nat
      BY DEF DirectoryEntry
    <2>3. r \in Request /\ r.offset \in Nat /\ r.length \in Nat
      BY RequestAssumption DEF Request
    <2>4. Proper(r)
      BY <2>1, <2>2, <2>3 DEF Proper
    <2>5. At(r, 0) = e.cluster
      BY <2>1, <2>4, RequestNumbers
    <2>6. Asked'
      BY <1>1, <2>1, <2>2, <2>3, <2>4 DEF Asked
    <2> QED BY <1>1, <1>2, <1>4, <2>1, <2>5, <2>6 DEF FileInv
  <1> QED BY <1>3, <1>4

(***************************************************************************)
(* The request is cut at the end of the file.                              *)
(***************************************************************************)
LEMMA FileStartStep ==
    ASSUME FileInv, Start
    PROVE  FileInv'
  <1>1. /\ pc = "start" /\ UNCHANGED <<file_info, cluster, buffer_pointer, moved>>
        /\ Asked /\ Nothing /\ cluster = At(req, 0)
    BY DEF Start, FileInv
  <1>2. PICK r \in Request : r = req /\ Proper(r)
    BY <1>1 DEF Asked
  <1>3. r.offset \in Nat /\ r.length \in Nat /\ file_info.file_size \in Nat
    BY <1>1, <1>2 DEF Proper, Asked
  <1>4. CASE r.offset + r.length > file_info.file_size /\ r.offset >= file_info.file_size
    <2>1. pc' = "ok" /\ req' = req
      BY <1>2, <1>4 DEF Start
    <2>2. Asked'
      BY <1>1, <2>1 DEF Asked
    <2>3. moved' = {} /\ req'.offset >= FileNamed(req'.name).file_length
      BY <1>1, <1>2, <1>4, <2>1 DEF Asked, Nothing
    <2> QED BY <2>1, <2>2, <2>3 DEF FileInv
  <1>5. CASE ~(r.offset + r.length > file_info.file_size /\ r.offset >= file_info.file_size)
    <2>1. PICK n : n = Min2(r.length, file_info.file_size - r.offset)
      OBVIOUS
    <2>2. /\ pc' = "skip" /\ req' = [r EXCEPT !.length = n]
          /\ clusters_to_skip' = FirstOf(r) /\ data_offset' = InCluster(r)
      BY <1>2, <1>5, <2>1 DEF Start, FirstOf, InCluster
    <2>3. n \in Nat
      BY <1>3, <1>5, <2>1 DEF Min2
    <2>4. /\ req'.offset = r.offset /\ req'.name = r.name /\ req'.op = r.op
          /\ req'.length \in Nat /\ req' \in Request
      BY <2>2, <2>3 DEF Request
    <2>5. Asked'
      BY <1>1, <1>2, <1>3, <2>4 DEF Asked, Proper
    <2>6. FirstOf(req') = FirstOf(r) /\ InCluster(req') = InCluster(r) /\ At(req', 0) = At(r, 0)
      BY <2>4 DEF FirstOf, InCluster, At
    <2>7. FirstOf(r) \in Nat /\ FirstOf(r) - FirstOf(r) = 0
      BY <1>2, RequestNumbers
    <2>8. Skipping(req)'
      BY <1>1, <1>2, <2>2, <2>6, <2>7 DEF Skipping, Nothing
    <2> QED BY <2>2, <2>5, <2>8 DEF FileInv
  <1> QED BY <1>4, <1>5

(***************************************************************************)
(* The clusters before the offset are skipped along the chain.             *)
(***************************************************************************)
LEMMA FileSkipStep ==
    ASSUME FileInv, SkipCluster \/ SkipDone
    PROVE  FileInv'
  <1>1. pc = "skip" /\ Asked /\ Skipping(req)
    BY DEF SkipCluster, SkipDone, FileInv
  <1>2. PICK r : r = req /\ Proper(r)
    BY <1>1 DEF Asked
  <1>3. PICK n \in Nat : n = FirstOf(r)
    BY <1>2, RequestNumbers
  <1>4. clusters_to_skip \in 0..n /\ cluster = At(r, n - clusters_to_skip)
    BY <1>1, <1>2, <1>3 DEF Skipping
  <1>5. ASSUME SkipCluster, get_next_cluster(cluster) # 0 PROVE FileInv'
    <2>1. /\ UNCHANGED <<req, file_info, pc, data_offset, buffer_pointer, moved>>
          /\ cluster' = get_next_cluster(cluster) /\ clusters_to_skip' = clusters_to_skip - 1
          /\ clusters_to_skip > 0
      BY <1>5 DEF SkipCluster, plan
    <2>2. PICK m \in Nat : m = n - clusters_to_skip
      <3>1. n - clusters_to_skip \in Nat
        BY <1>4
      <3> QED BY <3>1
    <2>3. cluster' = At(r, m + 1)
      BY <1>2, <1>4, <2>1, <2>2, RequestNumbers
    <2>4. m + 1 = n - clusters_to_skip' /\ clusters_to_skip' \in 0..n
      BY <1>4, <2>1, <2>2
    <2>5. Skipping(req)'
      BY <1>1, <1>2, <1>3, <2>1, <2>3, <2>4 DEF Skipping, Nothing
    <2>6. Asked'
      BY <1>1, <2>1 DEF Asked
    <2> QED BY <1>1, <2>1, <2>5, <2>6 DEF FileInv
  <1>6. ASSUME SkipDone PROVE FileInv'
    <2>1. /\ UNCHANGED <<req, file_info, buffer_pointer, moved>> /\ clusters_to_skip = 0
          /\ pc' = "plan" /\ cluster' = cluster /\ first_cluster' = cluster
          /\ data_offset' = data_offset /\ data_offset_backup' = data_offset
          /\ sector_offset' = 0 /\ sectors' = 0 /\ run_bytes' = 0
      BY <1>6 DEF SkipDone, BeginRun
    <2>2. cluster = At(r, n) /\ cluster \in Nat
      <3>1. n - clusters_to_skip = n
        BY <2>1
      <3> QED BY <1>2, <1>4, <3>1, RequestNumbers
    <2>3. 0 * SectorsPerCluster = 0 /\ cluster + 0 = cluster
      BY <2>2, Sizes
    <2>4. Planned(req, 0)'
      BY <1>1, <1>2, <1>3, <2>1, <2>2, <2>3 DEF Planned, Skipping, Nothing
    <2>5. Asked'
      BY <1>1, <2>1 DEF Asked
    <2>6. \E k \in Nat : Planned(req, k)'
      BY <2>4
    <2> QED BY <2>1, <2>5, <2>6 DEF FileInv
  <1> QED BY <1>1, <1>5, <1>6, FailStep DEF SkipCluster

(***************************************************************************)
(* One iteration of the inner loop: what is left of the request, and what  *)
(* the first iteration does with the offset in the cluster.                *)
(***************************************************************************)
LEMMA PlanIs ==
    ASSUME Asked, NEW k \in Nat, Planned(req, k), NEW d, d = InCluster(req)
    PROVE  /\ Rest + OffsetInSector = req.length + RestOf(d) - k * BytesPerCluster
           /\ Rest + OffsetInSector \in Nat
           /\ SkippedSectors = SkipOf(d)
           /\ (IF SkipsSectors THEN OffsetInSector ELSE data_offset_backup) = RestOf(d)
           /\ run_bytes + BytesPerCluster - OffsetInSector = (k + 1) * BytesPerCluster - RestOf(d)
  <1> DEFINE C == BytesPerCluster
  <1>0. C \in Nat \ {0} /\ BytesPerSector \in Nat \ {0} /\ req.length \in Nat
    BY Sizes DEF Asked, Proper
  <1>1. d \in Nat
    BY RequestNumbers DEF Asked
  <1>2. PICK t \in Nat : t = RestOf(d)
    BY <1>0, <1>1, SkipIs
  <1>3. PICK z \in Nat : z = k * C /\ (k + 1) * C = z + C
    BY <1>0
  <1>4. CASE k = 0
    <2>1. data_offset = d /\ data_offset_backup = d /\ sector_offset = 0 /\ run_bytes = 0
      BY <1>4 DEF Planned
    <2>2. SkippedSectors = SkipOf(d) /\ OffsetInSector = t
      BY <1>2, <2>1 DEF SkippedSectors, OffsetInSector, SkipsSectors, SkipOf, RestOf
    <2>3. (IF SkipsSectors THEN OffsetInSector ELSE data_offset_backup) = t
      BY <1>2, <2>1, <2>2 DEF SkipsSectors, RestOf
    <2>4. z = 0
      BY <1>0, <1>3, <1>4
    <2>5. Rest = req.length
      BY <1>0, <2>1 DEF Rest
    <2> HIDE DEF C
    <2>6. Rest + OffsetInSector = req.length + t - z /\ Rest + OffsetInSector \in Nat
      BY <1>0, <2>2, <2>4, <2>5
    <2>7. run_bytes + C - OffsetInSector = (k + 1) * C - t
      BY <1>0, <1>3, <2>1, <2>2, <2>4
    <2> QED BY <1>2, <1>3, <2>2, <2>3, <2>6, <2>7 DEF C
  <1>5. CASE k # 0
    <2>1. /\ data_offset = 0 /\ data_offset_backup = t /\ sector_offset = SkipOf(d)
          /\ run_bytes = z - t /\ run_bytes < req.length
      BY <1>2, <1>3, <1>5 DEF Planned
    <2>2. ~SkipsSectors
      BY <1>0, <2>1 DEF SkipsSectors
    <2>3. SkippedSectors = SkipOf(d) /\ OffsetInSector = 0
      BY <2>1, <2>2 DEF SkippedSectors, OffsetInSector
    <2>4. Rest = req.length - (z - t)
      BY <2>1 DEF Rest
    <2> HIDE DEF C
    <2>5. Rest + OffsetInSector = req.length + t - z /\ Rest + OffsetInSector \in Nat
      BY <1>0, <2>1, <2>3, <2>4
    <2>6. run_bytes + C - OffsetInSector = (k + 1) * C - t
      BY <1>0, <1>3, <2>1, <2>3
    <2> QED BY <1>2, <1>3, <2>1, <2>2, <2>3, <2>5, <2>6 DEF C
  <1> QED BY <1>4, <1>5

(***************************************************************************)
(* The last iteration of the inner loop takes the sectors that are left.   *)
(***************************************************************************)
LEMMA FileLastStep ==
    ASSUME FileInv, PlanLast
    PROVE  FileInv'
  <1>1. /\ pc = "plan" /\ pc' = "transfer" /\ Asked
        /\ UNCHANGED <<req, file_info, first_cluster, buffer_pointer, moved>>
        /\ sector_offset' = SkippedSectors
        /\ data_offset_backup' = IF SkipsSectors THEN OffsetInSector ELSE data_offset_backup
        /\ sectors' = sectors + LastSectors /\ run_bytes' = req.length
    BY DEF PlanLast, FileInv
  <1>2. Asked'
    BY <1>1 DEF Asked
  <1>3. ASSUME Follow(req) PROVE Ready(req)'
    <2> DEFINE B == BytesPerSector
               C == BytesPerCluster
    <2>1. PICK k \in Nat : Planned(req, k)
      BY <1>1, <1>3 DEF FileInv
    <2>2. PICK d \in Nat : d = InCluster(req)
      BY <1>1, RequestNumbers DEF Asked
    <2>3. PICK t \in Nat : t = RestOf(d)
      BY <2>2, SkipIs, Sizes
    <2>4. B \in Nat \ {0} /\ SectorsPerCluster \in Nat /\ C = SectorsPerCluster * B
          /\ C \in Nat \ {0} /\ req.length \in Nat
      BY <1>1, Sizes DEF BytesPerCluster, Asked, Proper
    <2>5. PICK w \in Nat : w = Rest + OffsetInSector /\ w = req.length + t - k * C
      BY <1>1, <2>1, <2>2, <2>3, PlanIs
    <2>x. PICK x \in Nat \ {0} : x = Max2(w, 1)
      BY DEF Max2
    <2>6. sector_offset' = SkipOf(d) /\ data_offset_backup' = t
      BY <1>1, <2>1, <2>2, <2>3, PlanIs
    <2>7. PICK m \in Nat, e \in 0..(B - 1) : m = (x - 1) \div B /\ x - 1 = m * B + e
      <3>1. x - 1 \in Nat
        OBVIOUS
      <3> HIDE DEF B
      <3>2. PICK v \in Nat : v = x - 1
        BY <3>1
      <3>3. v \div B \in Nat /\ v % B \in 0..(B - 1) /\ v = (v \div B) * B + (v % B)
        BY <2>4, Divided
      <3> QED BY <3>2, <3>3
    <2>8. LastSectors = 1 + m
      <3>1. Max2(Rest + OffsetInSector, 1) = x
        BY <2>5, <2>x
      <3> QED BY <2>7, <3>1 DEF LastSectors
    <2>9. PICK a \in Nat : a = k * SectorsPerCluster /\ sectors = a
      BY <2>1, <2>4 DEF Planned
    <2> HIDE DEF B, C
    <2>10. a * B = k * C
      BY <2>4, <2>9
    <2>11. PICK z \in Nat, y \in Nat : z = k * C /\ y = m * B
      BY <2>4
    <2>12. sectors' = a + 1 + m /\ (a + 1 + m) * B = a * B + B + m * B /\ a + 1 + m \in Nat
      BY <1>1, <2>4, <2>8, <2>9
    <2>13. sectors' * B = z + B + y
      BY <2>10, <2>11, <2>12
    <2>z. x + z = Max2(req.length + t, 1)
      <3>1. CASE k = 0
        <4>1. z = 0
          BY <2>4, <2>11, <3>1
        <4> QED BY <2>4, <2>5, <2>x, <2>11, <4>1 DEF Max2
      <3>2. CASE k # 0
        <4>1. run_bytes = z - t /\ run_bytes < req.length
          BY <2>1, <2>2, <2>3, <2>11, <3>2 DEF Planned, C
        <4>2. w # 0 /\ x = w
          BY <2>4, <2>5, <2>x, <2>11, <4>1 DEF Max2
        <4>3. 1 * C <= k * C
          BY <2>4, <3>2, ProductOrder
        <4> QED BY <2>4, <2>5, <2>11, <4>1, <4>2, <4>3 DEF Max2
      <3> QED BY <3>1, <3>2
    <2>14. /\ Max2(req.length + t, 1) <= sectors' * B
           /\ sectors' * B < Max2(req.length + t, 1) + B
      <3> HIDE DEF Max2
      <3> QED BY <2>4, <2>7, <2>11, <2>13, <2>z
    <2>w. req.op = "write" => req.length # 0
      <3>1. ~WriteTooShort
        BY DEF PlanLast
      <3>2. req.op = "write" => ~(Rest < B)
        BY <3>1 DEF WriteTooShort, B
      <3>3. CASE k = 0
        <4>1. Rest = req.length
          BY <2>1, <2>4, <3>3 DEF Planned, Rest
        <4> QED BY <2>4, <3>2, <4>1
      <3>4. CASE k # 0
        <4>1. run_bytes = z - t /\ run_bytes < req.length
          BY <2>1, <2>2, <2>3, <2>11, <3>4 DEF Planned, C
        <4>2. t <= z
          <5>1. 1 * C <= k * C
            BY <2>4, <3>4, ProductOrder
          <5>2. t <= B /\ B <= C
            BY <2>2, <2>3, SkipIs, Sizes DEF B, C
          <5> QED BY <2>4, <2>11, <5>1, <5>2
        <4> QED BY <2>4, <2>11, <4>1, <4>2
      <3> QED BY <3>3, <3>4
    <2>15. Nothing' /\ first_cluster' = At(req, FirstOf(req))
      BY <1>1, <2>1 DEF Planned, Nothing
    <2> QED BY <1>1, <2>2, <2>3, <2>6, <2>12, <2>14, <2>15, <2>w DEF Ready, B
  <1> QED BY <1>1, <1>2, <1>3 DEF FileInv, Follow, FirstOf, LastOf, At

(***************************************************************************)
(* A whole cluster is planned; in clusters that follow each other the run  *)
(* goes on.                                                                *)
(***************************************************************************)
LEMMA FileClusterStep ==
    ASSUME FileInv, PlanCluster, get_next_cluster(cluster) # 0
    PROVE  FileInv'
  <1>1. /\ pc = "plan" /\ Asked /\ Rest + OffsetInSector > BytesPerCluster
        /\ UNCHANGED <<req, file_info, first_cluster, buffer_pointer, moved>>
        /\ sector_offset' = SkippedSectors
        /\ data_offset_backup' = IF SkipsSectors THEN OffsetInSector ELSE data_offset_backup
        /\ sectors' = sectors + SectorsPerCluster
        /\ run_bytes' = run_bytes + BytesPerCluster - OffsetInSector
        /\ IF get_next_cluster(cluster) = cluster + 1
           THEN pc' = "plan" /\ cluster' = get_next_cluster(cluster) /\ data_offset' = 0
           ELSE pc' = "transfer"
    BY DEF PlanCluster, FileInv, Fail
  <1>2. Asked' /\ pc' \in {"plan", "transfer"}
    BY <1>1 DEF Asked
  <1>3. ASSUME Follow(req) PROVE pc' = "plan" /\ \E k \in Nat : Planned(req, k)'
    <2> DEFINE C == BytesPerCluster
    <2>1. PICK k \in Nat : Planned(req, k)
      BY <1>1, <1>3 DEF FileInv
    <2>2. PICK d \in Nat : d = InCluster(req)
      BY <1>1, RequestNumbers DEF Asked
    <2>3. PICK t \in Nat : t = RestOf(d) /\ t <= d
      <3>1. PICK y \in Nat : y = SkipOf(d) * BytesPerSector
        BY <2>2, SkipIs, Sizes
      <3>2. RestOf(d) \in Nat /\ d = y + RestOf(d)
        BY <2>2, <3>1, SkipIs, Sizes
      <3> QED BY <3>2
    <2>4. C \in Nat \ {0} /\ SectorsPerCluster \in Nat \ {0} /\ req.length \in Nat
          /\ req.offset \in Nat /\ Proper(req)
      BY <1>1, Sizes DEF Asked, Proper
    <2>5. req.length + t - k * C > C
      BY <1>1, <2>1, <2>2, <2>3, PlanIs
    <2>6. sector_offset' = SkipOf(d) /\ data_offset_backup' = t /\ run_bytes' = (k + 1) * C - t
      BY <1>1, <2>1, <2>2, <2>3, PlanIs
    <2>7. PICK n \in Nat : n = FirstOf(req) /\ req.offset = n * C + d
      BY <2>2, <2>4, RequestNumbers
    <2> HIDE DEF C
    <2>8. n + k + 1 <= LastOf(req)
      <3>1. PICK u \in Nat, v \in Nat : u = n * C /\ v = k * C
        BY <2>4
      <3>2. (n + k + 1) * C = u + v + C /\ n + k + 1 \in Nat
        BY <2>4, <3>1
      <3>3. req.offset = u + d /\ req.length + t - v > C
        BY <2>5, <2>7, <3>1
      <3>4. req.offset + req.length - 1 \in Nat /\ u + v + C <= req.offset + req.length - 1
        BY <2>3, <2>4, <3>3
      <3>5. PICK z \in Nat : z = req.offset + req.length - 1
        BY <3>4
      <3>6. (n + k + 1) * C <= z
        BY <3>2, <3>4, <3>5
      <3>7. n + k + 1 <= z \div C
        BY <2>4, <3>2, <3>6, QuotientOrder
      <3> QED BY <3>5, <3>7 DEF LastOf, C
    <2>9. PICK m \in Int : m = LastOf(req)
      BY <2>4, RequestNumbers
    <2>10. PICK c \in Nat : c = At(req, n)
      BY <2>4, RequestNumbers
    <2>11. At(req, n + k) = c + k
      <3>1. n + k <= LastOf(req)
        BY <2>8, <2>9
      <3> QED BY <1>3, <2>4, <2>7, <2>10, <3>1, RunIs
    <2>12. At(req, n + (k + 1)) = c + (k + 1)
      <3>1. n + (k + 1) <= LastOf(req) /\ k + 1 \in Nat
        BY <2>8, <2>9
      <3> QED BY <1>3, <2>4, <2>7, <2>10, <3>1, RunIs
    <2>13. first_cluster = c /\ cluster = c + k /\ sectors = k * SectorsPerCluster /\ Nothing
      BY <2>1, <2>7, <2>10 DEF Planned
    <2>14. get_next_cluster(cluster) = cluster + 1
      <3>1. At(req, (n + k) + 1) = get_next_cluster(At(req, n + k))
        <4>1. n + k \in Nat
          OBVIOUS
        <4> QED BY <2>4, <4>1, RequestNumbers
      <3>2. (n + k) + 1 = n + (k + 1) /\ c + (k + 1) = (c + k) + 1
        OBVIOUS
      <3> QED BY <2>11, <2>12, <2>13, <3>1, <3>2
    <2>15. pc' = "plan" /\ cluster' = cluster + 1 /\ data_offset' = 0
      BY <1>1, <2>14
    <2>16. k + 1 \in Nat /\ k + 1 # 0
      OBVIOUS
    <2>17. cluster' = first_cluster' + (k + 1)
      BY <1>1, <2>13, <2>15
    <2>18. sectors' = (k + 1) * SectorsPerCluster
      BY <1>1, <2>4, <2>13
    <2>19. run_bytes' < req.length
      <3>1. (k + 1) * C = k * C + C /\ k * C \in Nat
        BY <2>4
      <3> QED BY <2>4, <2>5, <2>6, <3>1
    <2>20. Nothing' /\ first_cluster' = At(req, FirstOf(req))
      BY <1>1, <2>7, <2>10, <2>13 DEF Nothing
    <2>21. Planned(req, k + 1)'
      BY <1>1, <2>2, <2>3, <2>6, <2>15, <2>16, <2>17, <2>18, <2>19, <2>20 DEF Planned, C
    <2> QED BY <2>15, <2>16, <2>21
  <1>4. Follow(req)' <=> Follow(req)
    BY <1>1 DEF Follow, FirstOf, LastOf, At
  <1> QED BY <1>2, <1>3, <1>4 DEF FileInv

(***************************************************************************)
(* There is one way to fill up the last sector.                            *)
(***************************************************************************)
LEMMA WholeIsUnique ==
    ASSUME NEW r, Proper(r), NEW n \in Nat,
           Max2(r.length, 1) <= n * BytesPerSector,
           n * BytesPerSector < Max2(r.length, 1) + BytesPerSector
    PROVE  n * BytesPerSector = Whole(r)
  <1> DEFINE B == BytesPerSector
  <1>0. B \in Nat \ {0}
    BY Sizes
  <1>l. PICK l \in Nat : l = Max2(r.length, 1)
    BY DEF Proper, Max2
  <1>1. PICK x \in Nat : Whole(r) = x * B /\ l <= x * B /\ x * B < l + B
    BY <1>l, WholeIs
  <1>2. l <= n * B /\ n * B < l + B
    BY <1>l
  <1> HIDE DEF B
  <1>3. n * B \in Nat /\ x * B \in Nat /\ (x + 1) * B = x * B + B /\ (n + 1) * B = n * B + B
    BY <1>0
  <1>4. ASSUME x < n PROVE FALSE
    <2>1. x + 1 <= n
      BY <1>4
    <2>2. (x + 1) * B <= n * B
      BY <1>0, <2>1, ProductOrder
    <2> QED BY <1>0, <1>1, <1>2, <1>3, <2>2
  <1>5. ASSUME n < x PROVE FALSE
    <2>1. n + 1 <= x
      BY <1>5
    <2>2. (n + 1) * B <= x * B
      BY <1>0, <2>1, ProductOrder
    <2> QED BY <1>0, <1>1, <1>2, <1>3, <2>2
  <1>6. n = x
    BY <1>4, <1>5
  <1> QED BY <1>1, <1>6 DEF B

(***************************************************************************)
(* The transfer starts where the request starts.                           *)
(***************************************************************************)
LEMMA FirstByteIs ==
    ASSUME Asked, Ready(req), NEW d, d = InCluster(req)
    PROVE  /\ FirstByte \in Int /\ RestOf(d) \in Nat
           /\ FirstByte + RestOf(d) = StartByte(req)
  <1> DEFINE B == BytesPerSector
  <1>1. d \in Nat /\ Proper(req)
    BY RequestNumbers DEF Asked
  <1>2. PICK c \in Nat : c = At(req, FirstOf(req)) /\ first_cluster = c
    BY <1>1, RequestNumbers DEF Ready
  <1>3. PICK t \in Nat, x \in Nat : t = RestOf(d) /\ x = SkipOf(d) /\ d = x * B + t
    BY <1>1, SkipIs, Sizes
  <1>4. B \in Nat \ {0} /\ PartitionStart \in Nat
    BY GeometryAssumption
  <1>5. PICK f \in Int : f = cluster_to_sector(c)
    <2>1. ReservedSectors + NumberOfFats * FatSectors \in Int /\ (c - 2) * SectorsPerCluster \in Int
      BY GeometryAssumption
    <2> QED BY <2>1 DEF cluster_to_sector
  <1>6. FirstByte = PartitionStart + (f + x) * B
    BY <1>2, <1>3, <1>5 DEF FirstByte, SectorByte, Ready
  <1>7. StartByte(req) = PartitionStart + f * B + d
    BY <1>2, <1>5 DEF StartByte, SectorByte
  <1> HIDE DEF B
  <1>8. (f + x) * B = f * B + x * B /\ f * B \in Int /\ x * B \in Nat
    BY <1>4
  <1>9. PICK u \in Int, v \in Nat : u = f * B /\ v = x * B
    BY <1>8
  <1>10. FirstByte = PartitionStart + u + v
    BY <1>4, <1>6, <1>8, <1>9
  <1>11. StartByte(req) = PartitionStart + u + (v + t)
    BY <1>3, <1>7, <1>9
  <1>12. FirstByte \in Int /\ FirstByte + t = StartByte(req)
    BY <1>4, <1>10, <1>11
  <1> QED BY <1>3, <1>12

(***************************************************************************)
(* What a transfer of the only run moves.                                  *)
(***************************************************************************)
LEMMA TransferMoves ==
    ASSUME FileInv, Transfer, Follow(req)
    PROVE  pc' = "ok" /\ MovedRun(req)'
  <1>1. /\ pc = "io" /\ req' = req /\ Asked /\ Ready(req)
        /\ moved' = moved \cup (IF Bouncing THEN Bounced ELSE Direct)
    BY DEF Transfer, FileInv
  <1>2. req.length \in Nat /\ Proper(req) /\ BytesPerSector \in Nat \ {0}
    BY <1>1, Sizes DEF Asked, Proper
  <1>3. moved = {} /\ buffer_pointer = 0 /\ run_bytes = req.length
    BY <1>1 DEF Ready, Nothing
  <1>4. pc' = "ok"
    <2>1. buffer_pointer + run_bytes = req.length
      BY <1>2, <1>3
    <2> QED BY <2>1 DEF Transfer
  <1>5. PICK d : d = InCluster(req)
    OBVIOUS
  <1>6. PICK f \in Int, t \in Nat : /\ f = FirstByte /\ t = RestOf(d) /\ t = data_offset_backup
                                    /\ f + t = StartByte(req)
    BY <1>1, <1>5, FirstByteIs DEF Ready
  <1>7. CASE Bouncing
    <2>1. req.op = "read"
      BY <1>1, <1>7 DEF FileInv
    <2>2. Bounced = {<<i, FirstByte + data_offset_backup + i>> : i \in 0..(req.length - 1)}
      BY <1>3 DEF Bounced
    <2>3. FirstByte + data_offset_backup = StartByte(req)
      BY <1>6
    <2>4. Bounced = {<<i, StartByte(req) + i>> : i \in 0..(req.length - 1)}
      BY <2>2, <2>3
    <2>5. moved' = {<<i, StartByte(req) + i>> : i \in 0..(req.length - 1)}
      BY <1>1, <1>3, <1>7, <2>4, Zenon
    <2>6. MovedBytes(req, req.length)'
      BY <1>1, <2>5 DEF MovedBytes, StartByte, InCluster, FirstOf, At
    <2> QED BY <1>1, <1>4, <2>1, <2>6 DEF MovedRun
  <1>8. CASE ~Bouncing
    <2>1. t = 0
      BY <1>6, <1>8 DEF Bouncing
    <2>2. PICK n \in Nat : n = sectors /\ Max2(req.length, 1) <= n * BytesPerSector
                            /\ n * BytesPerSector < Max2(req.length, 1) + BytesPerSector
      <3>1. sectors \in Nat /\ Max2(req.length + RestOf(d), 1) <= sectors * BytesPerSector
            /\ sectors * BytesPerSector < Max2(req.length + RestOf(d), 1) + BytesPerSector
        BY <1>1, <1>5 DEF Ready
      <3>2. req.length + RestOf(d) = req.length
        BY <1>2, <1>6, <2>1
      <3> QED BY <3>1, <3>2
    <2>3. n * BytesPerSector = Whole(req)
      BY <1>2, <2>2, WholeIsUnique
    <2>4. FirstByte = StartByte(req)
      BY <1>6, <2>1
    <2>5. Direct = {<<i, StartByte(req) + i>> : i \in 0..(Whole(req) - 1)}
      <3>1. \A i \in 0..(Whole(req) - 1) : buffer_pointer + i = i
        BY <1>3
      <3>2. Direct = {<<buffer_pointer + i, StartByte(req) + i>> : i \in 0..(Whole(req) - 1)}
        BY <2>2, <2>3, <2>4 DEF Direct
      <3> QED BY <3>1, <3>2
    <2>6. moved' = {<<i, StartByte(req) + i>> : i \in 0..(Whole(req) - 1)}
      BY <1>1, <1>3, <1>8, <2>5, Zenon
    <2>7. MovedBytes(req, Whole(req))'
      BY <1>1, <2>6 DEF MovedBytes, StartByte, InCluster, FirstOf, At, Whole
    <2>8. \E y \in Nat : InCluster(req) = y * BytesPerSector
      <3>1. d \in Nat
        BY <1>2, <1>5, RequestNumbers
      <3>2. PICK y \in Nat : y = SkipOf(d) /\ d = y * BytesPerSector + t
        BY <1>6, <3>1, SkipIs
      <3>3. d = y * BytesPerSector
        BY <1>2, <2>1, <3>2
      <3> QED BY <1>5, <3>3
    <2>9. \E y \in Nat : InCluster(req') = y * BytesPerSector
      BY <1>1, <2>8
    <2>10. req'.op = "write" => req'.length # 0
      BY <1>1 DEF Ready
    <2> QED BY <1>4, <2>7, <2>9, <2>10 DEF MovedRun
  <1> QED BY <1>7, <1>8

(***************************************************************************)
(* The transfer is submitted, fails or is done.                            *)
(***************************************************************************)
LEMMA FileTransferStep ==
    ASSUME FileInv, Submit \/ Transfer \/ TransferFails
    PROVE  FileInv'
  <1>1. /\ req' = req /\ file_info' = file_info /\ Asked /\ pc \in {"transfer", "io"}
        /\ Follow(req) => Ready(req)
    BY DEF Submit, Transfer, TransferFails, FileInv
  <1>2. Asked' /\ (Follow(req)' <=> Follow(req))
    BY <1>1 DEF Asked, Follow, FirstOf, LastOf, At
  <1>3. ASSUME Submit PROVE FileInv'
    <2>1. /\ pc' = "io" /\ (req.op = "write" => ~Bouncing)
          /\ UNCHANGED <<plan, buffer_pointer, moved>>
      BY <1>3 DEF Submit
    <2>2. Bouncing' => req'.op = "read"
      <3>1. req.op \in {"read", "write"} /\ (Bouncing' <=> Bouncing)
        BY <1>1, <2>1 DEF Asked, Request, Bouncing, plan
      <3> QED BY <1>1, <2>1, <3>1
    <2>3. Follow(req) => Ready(req)'
      BY <1>1, <2>1 DEF Ready, Nothing, plan, At, FirstOf, InCluster
    <2> QED BY <1>2, <2>1, <2>2, <2>3 DEF FileInv
  <1>4. ASSUME TransferFails PROVE FileInv'
    <2>1. pc' = "error" /\ moved' = moved
      BY <1>4 DEF TransferFails
    <2>2. Follow(req) => moved = {}
      BY <1>1 DEF Ready, Nothing
    <2> QED BY <1>2, <2>1, <2>2 DEF FileInv
  <1>5. ASSUME Transfer PROVE FileInv'
    <2>1. pc' \in {"ok", "plan", "error"}
      BY <1>5 DEF Transfer, BeginRun
    <2>2. CASE Follow(req)
      <3>1. pc' = "ok" /\ MovedRun(req)'
        BY <1>5, <2>2, TransferMoves
      <3> QED BY <1>2, <3>1 DEF FileInv
    <2>3. CASE ~Follow(req)
      BY <1>2, <2>1, <2>3 DEF FileInv
    <2> QED BY <2>2, <2>3
  <1> QED BY <1>3, <1>4, <1>5

(***************************************************************************)
(* Every step keeps the invariant.                                         *)
(***************************************************************************)
LEMMA FileStepKeeps == FileInv /\ [Next]_vars => FileInv'
  <1> SUFFICES ASSUME FileInv, [Next]_vars PROVE FileInv'
    OBVIOUS
  <1>1. ASSUME MountStep \/ MountFails \/ MountAllocate \/ MountNoMemory PROVE FileInv'
    <2>1. pc \in {"mbr", "bpb", "fat", "root"}
      BY <1>1 DEF MountStep, MountFails, MountAllocate, MountNoMemory, NeedsBuffer, Mounting,
                  MountRead
    <2>2. /\ pc' \in {"bpb", "fat", "root", "idle", "panic", "failed"}
          /\ UNCHANGED <<buffer_pointer, moved>>
      BY <1>1, <2>1 DEF MountStep, MountFails, MountAllocate, MountNoMemory, NeedsBuffer,
                        AfterMount
    <2> QED BY <2>1, <2>2 DEF FileInv, Nothing
  <1>2. ASSUME NEW r \in Requests, Call(r) PROVE FileInv'
    BY <1>2, FileCallStep
  <1>3. ASSUME PlanRefused PROVE FileInv'
    BY <1>3, FailStep DEF PlanRefused
  <1>4. ASSUME PlanCluster PROVE FileInv'
    <2>1. CASE get_next_cluster(cluster) = 0
      <3>1. pc = "plan" /\ Fail
        BY <1>4, <2>1 DEF PlanCluster
      <3> QED BY <3>1, FailStep
    <2>2. CASE get_next_cluster(cluster) # 0
      BY <1>4, <2>2, FileClusterStep
    <2> QED BY <2>1, <2>2
  <1>5. ASSUME TransferRefused PROVE FileInv'
    BY <1>5, FailStep DEF TransferRefused
  <1>6. ASSUME Return PROVE FileInv'
    <2>1. pc' = "idle" /\ Nothing'
      BY <1>6 DEF Return, NoLocals, Nothing
    <2> QED BY <2>1 DEF FileInv
  <1>7. ASSUME UNCHANGED vars PROVE FileInv'
    BY <1>7 DEF vars, plan, FileInv, Nothing, Asked, Skipping, Planned, Ready, MovedRun, MovedBytes,
                Bouncing
  <1> QED BY <1>1, <1>2, <1>3, <1>4, <1>5, <1>6, <1>7, FileStartStep, FileSkipStep, FileLastStep,
             FileTransferStep
             DEF Next, Step, Panicked

(***************************************************************************)
(* The invariant of read and write.                                        *)
(***************************************************************************)
LEMMA FileInvariance == Spec => []FileInv
  <1>1. Init => FileInv
    BY DEF Init, FileInv, Nothing
  <1> QED BY <1>1, FileStepKeeps, PTL DEF Spec

(***************************************************************************)
(* What the properties say of the request is what is said of any.          *)
(***************************************************************************)
LEMMA SameRequest ==
    /\ OneRun <=> Follow(req)
    /\ WholeSectors = Whole(req)
    /\ \A n : FileByte(n) = ByteOf(req, n)
  BY DEF OneRun, Follow, FirstCluster, LastCluster, FirstOf, LastOf, FileCluster, At,
         WholeSectors, Whole, FileByte, ByteOf

(***************************************************************************)
(* A request whose clusters follow each other, when it has returned Ok,    *)
(* has moved every byte it asked for, and each to or from its own place in *)
(* the file: read and write compute the right sectors for every geometry,  *)
(* file allocation table, directory, offset and length.                    *)
(***************************************************************************)
THEOREM OkMovesTheFile == Spec => []OkMovesFileBytes
  <1>1. FileInv => OkMovesFileBytes
    <2> SUFFICES ASSUME FileInv, pc = "ok", req.offset < FileNamed(req.name).file_length, OneRun
                 PROVE  Right
      BY DEF OkMovesFileBytes
    <2>1. Proper(req) /\ Follow(req) /\ file_info.file_size = FileNamed(req.name).file_length
          /\ file_info.file_size \in Nat
      BY SameRequest DEF FileInv, Asked
    <2>2. req.offset \in Nat /\ req.length \in Nat
      BY <2>1 DEF Proper
    <2>3. MovedRun(req)
      <3>1. ~(req.offset >= FileNamed(req.name).file_length)
        BY <2>1, <2>2
      <3> QED BY <2>1, <3>1 DEF FileInv
    <2>4. PICK n \in Nat : MovedBytes(req, n) /\ req.length <= n
      <3>1. Whole(req) \in Nat /\ req.length <= Whole(req)
        BY <2>1, <2>2, WholeIs DEF Max2
      <3> QED BY <2>2, <2>3, <3>1 DEF MovedRun
    <2>5. ASSUME NEW i \in Requested
          PROVE  /\ <<i, FileByte(req.offset + i)>> \in moved
                 /\ \A m \in moved : m[1] = i => m[2] = FileByte(req.offset + i)
      <3>1. i \in Nat /\ i < req.length /\ i \in 0..(n - 1)
        BY <2>2, <2>4 DEF Requested
      <3>2. FileByte(req.offset + i) = StartByte(req) + i
        <4>1. ByteOf(req, req.offset + i) = StartByte(req) + i
          BY <2>1, <3>1, InRange, BytesFollow
        <4> QED BY <4>1, SameRequest
      <3>3. <<i, StartByte(req) + i>> \in moved
        BY <2>4, <3>1 DEF MovedBytes
      <3>4. ASSUME NEW m \in moved, m[1] = i PROVE m[2] = StartByte(req) + i
        <4>1. PICK j \in 0..(n - 1) : m = <<j, StartByte(req) + j>>
          BY <2>4 DEF MovedBytes
        <4> QED BY <3>4, <4>1
      <3> QED BY <3>2, <3>3, <3>4
    <2> QED BY <2>5 DEF Right
  <1> QED BY <1>1, FileInvariance, PTL

(***************************************************************************)
(* Such a request, also one of length 0, touches no memory of the caller   *)
(* beyond the last sector it asked for (the first, if it asked for         *)
(* nothing), and a write no byte of the disk outside the sectors of its    *)
(* range, whichever way it ends.                                           *)
(***************************************************************************)
THEOREM MovesStayInRequest == Spec => []MovesWithinRequest
  <1>1. FileInv => MovesWithinRequest
    <2> SUFFICES ASSUME FileInv, moved # {}, OneRun, NEW m \in moved
                 PROVE  /\ m[1] < WholeSectors
                        /\ req.op = "write" =>
                                \E i \in 0..(WholeSectors - 1) : m[2] = FileByte(req.offset + i)
      BY DEF MovesWithinRequest
    <2>1. Follow(req)
      BY SameRequest
    <2>2. pc = "ok" /\ MovedRun(req)
      BY <2>1 DEF FileInv, Nothing, Skipping, Planned, Ready
    <2>3. Proper(req) /\ req.length \in Nat
      BY <2>2 DEF FileInv, Asked, Proper
    <2>4. PICK w \in Nat : w = Whole(req) /\ req.length <= w
      BY <2>3, WholeIs DEF Max2
    <2>5. CASE req.op = "read" /\ MovedBytes(req, req.length)
      <3>1. PICK j \in 0..(req.length - 1) : m = <<j, StartByte(req) + j>>
        BY <2>5 DEF MovedBytes
      <3>2. m[1] < w
        BY <2>3, <2>4, <3>1
      <3> QED BY <2>4, <2>5, <3>2, SameRequest
    <2>6. CASE /\ MovedBytes(req, w) /\ \E y \in Nat : InCluster(req) = y * BytesPerSector
               /\ req.op = "write" => req.length # 0
      <3>1. PICK j \in 0..(w - 1) : m = <<j, StartByte(req) + j>>
        BY <2>6 DEF MovedBytes
      <3>2. j \in Nat /\ j < w
        BY <2>4, <3>1
      <3>3. PICK y \in Nat : InCluster(req) = y * BytesPerSector
        BY <2>6
      <3>4. ASSUME req.op = "write" PROVE m[2] = FileByte(req.offset + j)
        <4>1. (req.offset + j) \div BytesPerCluster <= LastOf(req)
          BY <2>3, <2>4, <2>6, <3>2, <3>3, <3>4, InSectors
        <4>2. ByteOf(req, req.offset + j) = StartByte(req) + j
          BY <2>1, <2>3, <3>2, <4>1, BytesFollow
        <4> QED BY <3>1, <4>2, SameRequest
      <3> QED BY <2>4, <3>1, <3>2, <3>4, SameRequest
    <2> QED BY <2>2, <2>4, <2>5, <2>6 DEF MovedRun
  <1> QED BY <1>1, FileInvariance, PTL

-----------------------------------------------------------------------------
(* The file system's buffers *)

\* What is allocated at each place of mounting, read and write.
PagesInv ==
    /\ pc \in {"mbr", "bpb", "fat", "root", "idle", "start", "skip", "plan", "transfer", "io",
               "ok", "error", "panic", "failed"}
    /\ pc \in {"mbr", "bpb", "failed"} => pages = {}
    /\ pc = "fat" => pages \subseteq {"fat"}
    /\ pc = "root" => pages = {"fat"} \/ pages = {"fat", "root"}
    /\ pc \in {"idle", "start", "skip", "plan", "transfer", "ok", "error"} =>
           pages = {"fat", "root"}
    /\ pc = "io" => pages \ {"bounce"} = {"fat", "root"}

(***************************************************************************)
(* The steps that move no data allocate at most the buffers of mounting.   *)
(***************************************************************************)
LEMMA PagesStep ==
    ASSUME PagesInv, Step
    PROVE  PagesInv'
  <1>1. CASE \E r \in Requests : Call(r)
    <2>1. PICK r \in Requests : Call(r)
      BY <1>1
    <2>2. /\ pc = "idle" /\ pc' \in {"panic", "start"} /\ req' = r /\ pages' = pages
      BY <2>1 DEF Call
    <2> QED BY <2>2 DEF PagesInv
  <1>2. CASE Start \/ SkipCluster \/ SkipDone \/ PlanRefused \/ PlanLast \/ PlanCluster
             \/ TransferRefused
    <2>1. /\ pc \in {"start", "skip", "plan", "transfer"} /\ pages' = pages
          /\ pc' \in {"ok", "skip", "plan", "transfer", "error"}
      BY <1>2 DEF Start, SkipCluster, SkipDone, PlanRefused, PlanLast, PlanCluster,
         TransferRefused, Fail, BeginRun
    <2> QED BY <2>1 DEF PagesInv
  <1>3. CASE Return
    BY <1>3 DEF Return, PagesInv
  <1>4. CASE MountAllocate
    <2>1. pc \in {"fat", "root"} /\ pages' = pages \cup {pc} /\ pc' = pc
      BY <1>4 DEF MountAllocate, NeedsBuffer
    <2> QED BY <2>1 DEF PagesInv
  <1>5. CASE MountNoMemory
    BY <1>5 DEF MountNoMemory, PagesInv
  <1> QED BY <1>1, <1>2, <1>3, <1>4, <1>5 DEF Step

(***************************************************************************)
(* Mounting, and the transfers that may take a bounce buffer.              *)
(***************************************************************************)
LEMMA PagesDiskStep ==
    ASSUME PagesInv, MountStep \/ MountFails \/ Submit \/ Transfer \/ TransferFails
    PROVE  PagesInv'
  <1>1. CASE MountStep
    <2>1. /\ pc \in {"mbr", "bpb", "fat", "root"}
          /\ pc = "mbr" => pc' = "bpb"
          /\ pc = "bpb" => pc' = "fat"
          /\ pc = "fat" => pc' = "root"
          /\ pc = "root" => pc' = "idle"
          /\ pages' = pages /\ (pc \in {"fat", "root"} => pc \in pages)
      BY <1>1 DEF MountStep, Mounting, MountRead, AfterMount, NeedsBuffer
    <2> QED BY <2>1 DEF PagesInv
  <1>2. CASE MountFails
    <2>1. pc \in {"mbr", "bpb", "fat", "root"} /\ pc' = "failed"
      BY <1>2 DEF MountFails, Mounting, MountRead
    <2>2. pages' = pages \ MountFrees[pc]
      BY <1>2 DEF MountFails
    <2>3. /\ pc = "fat" => MountFrees[pc] = {"fat"}
          /\ pc = "root" => MountFrees[pc] = {"root", "fat"}
      BY DEF MountFrees
    <2>4. pages' = {}
      BY <2>1, <2>2, <2>3 DEF PagesInv
    <2> QED BY <2>1, <2>4 DEF PagesInv
  <1>3. CASE Submit
    BY <1>3 DEF Submit, PagesInv
  <1>4. CASE Transfer
    <2>1. pc = "io" /\ pages' = pages \ {"bounce"} /\ pc' \in {"ok", "error", "plan"}
      BY <1>4 DEF Transfer, BeginRun
    <2> QED BY <2>1 DEF PagesInv
  <1>5. CASE TransferFails
    BY <1>5 DEF TransferFails, PagesInv
  <1> QED BY <1>1, <1>2, <1>3, <1>4, <1>5

(***************************************************************************)
(* Every buffer of a request is given back, whichever way it ends, and a   *)
(* mount that returns Err has freed those it took, for any file system and *)
(* any callers.                                                            *)
(***************************************************************************)
THEOREM BuffersReturned == Spec => []PagesReturned
  <1>1. Init => PagesInv
    BY DEF Init, PagesInv
  <1>2. PagesInv /\ [Next]_vars => PagesInv'
    <2>1. ASSUME PagesInv, UNCHANGED vars PROVE PagesInv'
      BY <2>1 DEF vars, PagesInv
    <2>2. ASSUME PagesInv, Next PROVE PagesInv'
      BY <2>1, <2>2, PagesStep, PagesDiskStep DEF Next, Panicked
    <2> QED BY <2>1, <2>2
  <1>3. PagesInv => PagesReturned
    BY DEF PagesInv, PagesReturned
  <1> QED BY <1>1, <1>2, <1>3, PTL DEF Spec

-----------------------------------------------------------------------------
(* The file system on the driver *)

Desc == Blk!Desc

\* What the three descriptors of a request hold, the first two with their next.
HeaderDesc(next) ==
    [address |-> "header", length |-> 1, write |-> FALSE, more |-> TRUE, next |-> next]
BufferDesc(next) ==
    [address |-> call.buffer, length |-> call.length, write |-> ~call.is_write,
     more |-> TRUE, next |-> next]
StatusDesc ==
    [address |-> "status", length |-> 1, write |-> TRUE, more |-> FALSE, next |-> 0]

\* The first n descriptors are those of the request, the others are free.
Linked(n) ==
    /\ descriptors = [d \in Desc |-> descriptors[d]]
    /\ n = 1 => descriptors[0] = HeaderDesc(0)
    /\ n \in {2, 3} => descriptors[0] = HeaderDesc(1)
    /\ n = 2 => descriptors[1] = BufferDesc(0)
    /\ n = 3 => descriptors[1] = BufferDesc(2) /\ descriptors[2] = StatusDesc
    /\ \A d \in Desc : d >= n => descriptors[d] = Blk!ZeroDescriptor
    /\ free_bitmap = {d \in Desc : d >= n}

\* The device has taken everything and works on nothing the driver waits for.
Quiet == last = idx /\ job.phase # "fetched"

\* The request at the end of the available ring is still to be taken; or the
\* device is about to perform it; or it has.
Offered ==
    /\ idx = (last + 1) % IdxMod /\ ring[last % NUMBER_OF_DESCRIPTORS] = 0
    /\ job.phase # "fetched" /\ status = Blk!Pending
Served ==
    /\ last = idx /\ status = Blk!Pending
    /\ job = [phase |-> "fetched", request |-> Blk!Asked]
Answered == Quiet /\ status # Blk!Pending

\* The call has taken the first n descriptors.
TakenFirst(n) == taken \in Seq(Nat) /\ Len(taken) = n /\ \A k \in 1..n : taken[k] = k - 1

BlkInv ==
    /\ blk_pc \in {"probe", "panic", "ready", "allocate", "ring", "idx", "notify", "spin",
                   "return"}
    /\ idx \in 0..(IdxMod - 1) /\ last \in 0..(IdxMod - 1)
    /\ ring \in [Desc -> Nat]
    /\ blk_pc = "probe" => ~awake /\ job = Blk!NoJob /\ last = 0
    /\ blk_pc = "panic" => Quiet \/ (~awake /\ job = Blk!NoJob)
    /\ blk_pc \in {"ready", "allocate", "ring", "idx", "return"} => Quiet
    /\ blk_pc \in {"ready", "return"} => Linked(0)
    /\ blk_pc = "allocate" => \E n \in {0, 1, 2} : TakenFirst(n) /\ Linked(n)
    /\ blk_pc \in {"ring", "idx", "notify", "spin"} => TakenFirst(3) /\ Linked(3)
    /\ blk_pc \in {"allocate", "ring", "idx", "notify", "spin"} =>
           header = [is_write |-> call.is_write, block |-> call.block]
    /\ blk_pc \in {"probe", "ready", "allocate", "ring", "idx"} => status = Blk!Pending
    /\ blk_pc = "idx" => ring[idx % NUMBER_OF_DESCRIPTORS] = 0
    /\ blk_pc \in {"notify", "spin"} => Offered \/ Served \/ Answered
    /\ result = "ok" => blk_pc = "return" /\ status = Blk!VIRTIO_BLK_S_OK

-----------------------------------------------------------------------------
(* The driver and the device *)

(***************************************************************************)
(* The index counts past at least three values, and its successor is       *)
(* another value.                                                          *)
(***************************************************************************)
LEMMA NextIndex ==
    ASSUME NEW n \in 0..(IdxMod - 1)
    PROVE  /\ IdxMod >= 3
           /\ (n + 1) % IdxMod \in 0..(IdxMod - 1)
           /\ (n + 1) % IdxMod # n
           /\ n % NUMBER_OF_DESCRIPTORS \in Desc
  <1> DEFINE N == NUMBER_OF_DESCRIPTORS
             d == IdxMod \div N
  <1>1. IdxMod = N * d /\ d \in Nat /\ N \in Nat /\ N >= 3 /\ IdxMod \in Nat \ {0}
    BY QueueAssumption
  <1>2. n % N \in Desc
    BY <1>1 DEF Desc, Blk!Desc
  <1>3. IdxMod >= 3
    <2> HIDE DEF N, d
    <2>1. d # 0
      BY <1>1
    <2>2. PICK e \in Nat : d = e + 1
      <3>1. d - 1 \in Nat
        BY <1>1, <2>1
      <3> QED BY <1>1, <3>1
    <2>3. N * d = N * e + N /\ N * e \in Nat
      BY <1>1, <2>2
    <2> QED BY <1>1, <2>3
  <1>4. CASE n + 1 < IdxMod
    <2>1. (n + 1) % IdxMod = n + 1
      BY <1>1, <1>4
    <2> QED BY <1>1, <1>2, <1>3, <1>4, <2>1
  <1>5. CASE n + 1 = IdxMod
    <2>1. (n + 1) % IdxMod = 0
      BY <1>1, <1>5
    <2> QED BY <1>1, <1>2, <1>3, <1>5, <2>1
  <1> QED BY <1>1, <1>4, <1>5

(***************************************************************************)
(* The first three descriptors exist.                                      *)
(***************************************************************************)
LEMMA ThreeDescriptors ==
    /\ 0 \in Desc /\ 1 \in Desc /\ 2 \in Desc
    /\ Desc \subseteq Nat
  BY QueueAssumption DEF Desc, Blk!Desc

(***************************************************************************)
(* Before the queue is set up.                                             *)
(***************************************************************************)
LEMMA BlkInitInv == Blk!BlkInit => BlkInv
  <1> SUFFICES ASSUME Blk!BlkInit PROVE BlkInv
    OBVIOUS
  <1>1. IdxMod >= 3 /\ IdxMod \in Nat
    <2>1. 0 \in 0..(IdxMod - 1)
      BY QueueAssumption
    <2> QED BY <2>1, NextIndex, QueueAssumption
  <1>2. idx \in 0..(IdxMod - 1) /\ last \in 0..(IdxMod - 1)
    BY <1>1 DEF Blk!BlkInit, Blk!JunkIdx
  <1> QED BY <1>2 DEF Blk!BlkInit, BlkInv, Desc

(***************************************************************************)
(* init_virtio_blk: a node is passed over, none is left, or the queue of a *)
(* suitable one is set up.                                                 *)
(***************************************************************************)
LEMMA ProbeStep ==
    ASSUME BlkInv, Blk!ProbeFails \/ Blk!NoDevice \/ Blk!SetupQueue
    PROVE  BlkInv'
  <1> USE DEF Blk!registers, Blk!queue, Blk!stack, Blk!device
  <1>1. CASE Blk!ProbeFails
    BY <1>1 DEF Blk!ProbeFails, BlkInv
  <1>2. CASE Blk!NoDevice
    BY <1>2 DEF Blk!NoDevice, BlkInv
  <1>3. CASE Blk!SetupQueue
    <2>1. /\ blk_pc = "probe" /\ blk_pc' = "ready" /\ free_bitmap' = Desc
          /\ descriptors' = [d \in Desc |-> Blk!ZeroDescriptor]
          /\ ring' = [d \in Desc |-> 0] /\ idx' = 0
          /\ UNCHANGED <<call, taken, header, status, result, awake, last, job>>
      BY <1>3 DEF Blk!SetupQueue, Desc
    <2>2. last = 0 /\ job = Blk!NoJob /\ result # "ok"
      BY <2>1 DEF BlkInv
    <2>3. idx' \in 0..(IdxMod - 1) /\ last' \in 0..(IdxMod - 1) /\ ring' \in [Desc -> Nat]
      BY <2>1, <2>2, QueueAssumption
    <2>4. Quiet'
      BY <2>1, <2>2 DEF Quiet, Blk!NoJob
    <2>5. Linked(0)'
      <3>1. \A d \in Desc : d >= 0
        BY ThreeDescriptors
      <3>2. free_bitmap' = {d \in Desc : d >= 0}
        BY <2>1, <3>1, Zenon
      <3> QED BY <2>1, <3>2 DEF Linked
    <2>6. status = Blk!Pending
      BY <2>1 DEF BlkInv
    <2> QED BY <2>1, <2>2, <2>3, <2>4, <2>5, <2>6 DEF BlkInv
  <1> QED BY <1>1, <1>2, <1>3

(***************************************************************************)
(* A call begins: refused, or with its header on the stack.                *)
(***************************************************************************)
LEMMA CallStep ==
    ASSUME BlkInv, NEW c, Blk!operation_sync(c)
    PROVE  BlkInv'
  <1> USE DEF Blk!registers, Blk!queue, Blk!device
  <1>1. /\ blk_pc = "ready" /\ call' = c /\ taken' = <<>> /\ status' = Blk!Pending
        /\ UNCHANGED <<free_bitmap, descriptors, ring, idx, awake, last, job>>
        /\ \/ /\ blk_pc' = "allocate" /\ result' = "none"
              /\ header' = [is_write |-> c.is_write, block |-> c.block]
           \/ blk_pc' = "return" /\ result' = "err"
    BY DEF Blk!operation_sync
  <1>2. Linked(0) /\ Quiet
    BY <1>1 DEF BlkInv
  <1>3. Linked(0)' /\ Quiet'
    BY <1>1, <1>2 DEF Linked, Quiet
  <1>4. TakenFirst(0)'
    BY <1>1 DEF TakenFirst
  <1> QED BY <1>1, <1>3, <1>4 DEF BlkInv

(***************************************************************************)
(* The lowest free descriptor is the next of the request.                  *)
(***************************************************************************)
LEMMA FirstFreeIs ==
    ASSUME NEW n \in {0, 1, 2}, free_bitmap = {d \in Desc : d >= n}
    PROVE  /\ Blk!FirstFree = n /\ free_bitmap # {}
           /\ free_bitmap \ {n} = {d \in Desc : d >= n + 1}
  <1>1. n \in free_bitmap /\ \A e \in free_bitmap : n <= e
    BY ThreeDescriptors
  <1>2. \A d \in free_bitmap : (\A e \in free_bitmap : d <= e) => d = n
    BY <1>1, ThreeDescriptors
  <1>3. \A d \in Desc : d >= n + 1 <=> d >= n /\ d # n
    BY ThreeDescriptors
  <1> QED BY <1>1, <1>2, <1>3 DEF Blk!FirstFree

(***************************************************************************)
(* Linking a descriptor changes its next and nothing else.                 *)
(***************************************************************************)
LEMMA NextSet ==
    /\ [HeaderDesc(0) EXCEPT !.next = 1] = HeaderDesc(1)
    /\ [BufferDesc(0) EXCEPT !.next = 2] = BufferDesc(2)
  <1> DEFINE Fields == {"address", "length", "write", "more", "next"}
  <1>1. ASSUME NEW r, r = [HeaderDesc(0) EXCEPT !.next = 1] PROVE r = HeaderDesc(1)
    <2>1. r = [x \in Fields |-> r[x]]
      BY <1>1 DEF HeaderDesc
    <2>2. r.address = "header" /\ r.length = 1 /\ r.write = FALSE /\ r.more = TRUE /\ r.next = 1
      BY <1>1 DEF HeaderDesc
    <2> QED BY <2>1, <2>2 DEF HeaderDesc
  <1>2. ASSUME NEW r, r = [BufferDesc(0) EXCEPT !.next = 2] PROVE r = BufferDesc(2)
    <2>1. r = [x \in Fields |-> r[x]]
      BY <1>2 DEF BufferDesc
    <2>2. /\ r.address = call.buffer /\ r.length = call.length /\ r.write = ~call.is_write
          /\ r.more = TRUE /\ r.next = 2
      BY <1>2 DEF BufferDesc
    <2> QED BY <2>1, <2>2 DEF BufferDesc
  <1> QED BY <1>1, <1>2

(***************************************************************************)
(* A descriptor is taken, filled and linked: the three of a request are    *)
(* always the first three, and there is always one.                        *)
(***************************************************************************)
LEMMA AllocateStep ==
    ASSUME BlkInv, Blk!AllocateDescriptor
    PROVE  BlkInv'
  <1> USE DEF Blk!registers, Blk!queue, Blk!device
  <1>0. /\ blk_pc = "allocate" /\ Quiet
        /\ header = [is_write |-> call.is_write, block |-> call.block]
        /\ status = Blk!Pending /\ result # "ok"
    BY DEF BlkInv, Blk!AllocateDescriptor
  <1>1. PICK n \in {0, 1, 2} : TakenFirst(n) /\ Linked(n)
    BY <1>0 DEF BlkInv
  <1>2. n = Len(taken) /\ (n # 0 => taken[n] = n - 1)
    BY <1>1 DEF TakenFirst
  <1>3. /\ Blk!FirstFree = n /\ free_bitmap # {}
        /\ free_bitmap \ {n} = {d \in Desc : d >= n + 1}
    BY <1>1, FirstFreeIs DEF Linked
  <1>4. descriptors[n] = Blk!ZeroDescriptor
    <2>1. n \in Desc /\ n >= n
      BY ThreeDescriptors
    <2> QED BY <1>1, <2>1 DEF Linked
  <1> DEFINE F == Blk!Filled(n + 1, Blk!ZeroDescriptor)
             filled == [descriptors EXCEPT ![n] = F]
  <1>5. /\ free_bitmap' = free_bitmap \ {n}
        /\ taken' = Append(taken, n)
        /\ blk_pc' = IF n + 1 = 3 THEN "ring" ELSE "allocate"
        /\ UNCHANGED <<ring, idx, result, header, call, status, awake, last, job>>
    BY <1>2, <1>3 DEF Blk!AllocateDescriptor
  <1>d. /\ n = 0 => descriptors' = filled
        /\ n # 0 => descriptors' =
                        [filled EXCEPT ![n - 1] = [filled[n - 1] EXCEPT !.next = n]]
    <2>1. (Len(taken) + 1) - 1 = n /\ (Len(taken) + 1 = 1 <=> n = 0)
      BY <1>2
    <2>2. [descriptors EXCEPT ![n] = Blk!Filled(n + 1, descriptors[n])] = filled
      BY <1>4
    <2> HIDE DEF F, filled
    <2> QED BY <1>2, <1>3, <2>1, <2>2 DEF Blk!AllocateDescriptor
  <1>t. TakenFirst(n + 1)'
    BY <1>1, <1>5 DEF TakenFirst
  <1>6. \A d \in Desc : d >= n + 1 => d # n /\ d >= n /\ d # 0 /\ (n = 2 => d # 1)
    BY <1>2, ThreeDescriptors
  <1>7. Blk!Asked' = Blk!Asked /\ BufferDesc(0)' = BufferDesc(0) /\ BufferDesc(2)' = BufferDesc(2)
    BY <1>5 DEF BufferDesc, Blk!Asked
  <1>8. CASE n = 0
    <2>1. TakenFirst(1)' /\ blk_pc' = "allocate"
      BY <1>5, <1>t, <1>8
    <2>f. F = HeaderDesc(0)
      BY <1>8 DEF Blk!Filled, Blk!ZeroDescriptor, HeaderDesc
    <2>2. descriptors' = [descriptors EXCEPT ![0] = HeaderDesc(0)]
      BY <1>d, <1>8, <2>f
    <2>3. Linked(1)'
      BY <1>1, <1>3, <1>5, <1>6, <1>8, <2>2, ThreeDescriptors DEF Linked
    <2> QED BY <1>0, <1>5, <2>1, <2>3 DEF BlkInv, Quiet
  <1>9. CASE n = 1
    <2>1. TakenFirst(2)' /\ blk_pc' = "allocate"
      BY <1>5, <1>t, <1>9
    <2>2. descriptors[0] = HeaderDesc(0)
      BY <1>1, <1>9 DEF Linked
    <2>3. filled = [descriptors EXCEPT ![1] = BufferDesc(0)]
      <3>1. F = BufferDesc(0)
        BY <1>9 DEF Blk!Filled, Blk!ZeroDescriptor, BufferDesc
      <3> QED BY <1>9, <3>1
    <2> HIDE DEF filled
    <2>4. descriptors' = [filled EXCEPT ![0] = [filled[0] EXCEPT !.next = 1]]
      BY <1>2, <1>d, <1>9
    <2>5. descriptors'[0] = HeaderDesc(1)
      <3>1. filled = [d \in Desc |-> filled[d]] /\ filled[0] = HeaderDesc(0)
        BY <1>1, <2>2, <2>3, ThreeDescriptors DEF Linked
      <3>2. [HeaderDesc(0) EXCEPT !.next = 1] = HeaderDesc(1)
        BY NextSet
      <3> QED BY <2>4, <3>1, <3>2, ThreeDescriptors
    <2>6. /\ descriptors'[1] = BufferDesc(0)
          /\ descriptors' = [d \in Desc |-> descriptors'[d]]
          /\ \A d \in Desc : d >= 2 => descriptors'[d] = Blk!ZeroDescriptor
      <3>1. /\ filled = [d \in Desc |-> filled[d]] /\ filled[1] = BufferDesc(0)
            /\ \A d \in Desc : d # 1 => filled[d] = descriptors[d]
        BY <1>1, <2>3, ThreeDescriptors DEF Linked
      <3>2. PICK x : descriptors' = [filled EXCEPT ![0] = x]
        BY <2>4
      <3>3. /\ descriptors' = [d \in Desc |-> descriptors'[d]]
            /\ \A d \in Desc : d # 0 => descriptors'[d] = filled[d]
        BY <3>1, <3>2
      <3>4. \A d \in Desc : d >= 2 => /\ d >= n /\ d # 0 /\ d # 1
                                     /\ descriptors[d] = Blk!ZeroDescriptor
        BY <1>1, <1>6, <1>9 DEF Linked
      <3> QED BY <3>1, <3>3, <3>4, ThreeDescriptors
    <2>7. Linked(2)'
      BY <1>3, <1>5, <1>7, <1>9, <2>5, <2>6 DEF Linked
    <2> QED BY <1>0, <1>5, <2>1, <2>7 DEF BlkInv, Quiet
  <1>10. CASE n = 2
    <2>1. TakenFirst(3)' /\ blk_pc' = "ring"
      BY <1>5, <1>t, <1>10
    <2>2. descriptors[0] = HeaderDesc(1) /\ descriptors[1] = BufferDesc(0)
      BY <1>1, <1>10 DEF Linked
    <2>3. filled = [descriptors EXCEPT ![2] = StatusDesc]
      <3>1. F = StatusDesc
        BY <1>10 DEF Blk!Filled, Blk!ZeroDescriptor, StatusDesc
      <3> QED BY <1>10, <3>1
    <2> HIDE DEF filled
    <2>4. descriptors' = [filled EXCEPT ![1] = [filled[1] EXCEPT !.next = 2]]
      BY <1>2, <1>d, <1>10
    <2>5. descriptors'[1] = BufferDesc(2)
      <3>1. filled = [d \in Desc |-> filled[d]] /\ filled[1] = BufferDesc(0)
        BY <1>1, <2>2, <2>3, ThreeDescriptors DEF Linked
      <3>2. [BufferDesc(0) EXCEPT !.next = 2] = BufferDesc(2)
        BY NextSet
      <3> QED BY <2>4, <3>1, <3>2, ThreeDescriptors
    <2>6. /\ descriptors'[0] = HeaderDesc(1) /\ descriptors'[2] = StatusDesc
          /\ descriptors' = [d \in Desc |-> descriptors'[d]]
          /\ \A d \in Desc : d >= 3 => descriptors'[d] = Blk!ZeroDescriptor
      <3>1. /\ filled = [d \in Desc |-> filled[d]] /\ filled[2] = StatusDesc
            /\ \A d \in Desc : d # 2 => filled[d] = descriptors[d]
        BY <1>1, <2>3, ThreeDescriptors DEF Linked
      <3>2. PICK x : descriptors' = [filled EXCEPT ![1] = x]
        BY <2>4
      <3>3. /\ descriptors' = [d \in Desc |-> descriptors'[d]]
            /\ \A d \in Desc : d # 1 => descriptors'[d] = filled[d]
        BY <3>1, <3>2
      <3>4. \A d \in Desc : d >= 3 => /\ d # 0 /\ d # 1 /\ d # 2
                                     /\ descriptors[d] = Blk!ZeroDescriptor
        BY <1>1, <1>6, <1>10 DEF Linked
      <3> QED BY <2>2, <3>1, <3>3, <3>4, ThreeDescriptors
    <2>7. Linked(3)'
      BY <1>3, <1>5, <1>7, <1>10, <2>5, <2>6 DEF Linked
    <2> QED BY <1>0, <1>5, <2>1, <2>7 DEF BlkInv, Quiet
  <1> QED BY <1>8, <1>9, <1>10

(***************************************************************************)
(* The request is published: its entry in the ring, the index, and the     *)
(* notification.                                                           *)
(***************************************************************************)
LEMMA PublishStep ==
    ASSUME BlkInv, Blk!PublishRing \/ Blk!PublishIdx \/ Blk!PublishIdxPanics \/ Blk!Notify
    PROVE  BlkInv'
  <1> USE DEF Blk!registers, Blk!queue, Blk!stack, Blk!device
  <1>1. /\ blk_pc \in {"ring", "idx", "notify"}
        /\ UNCHANGED <<free_bitmap, descriptors, call, taken, header, status, result, last, job>>
    BY DEF Blk!PublishRing, Blk!PublishIdx, Blk!PublishIdxPanics, Blk!Notify
  <1>2. TakenFirst(3) /\ Linked(3) /\ result # "ok"
    BY <1>1 DEF BlkInv
  <1>3. TakenFirst(3)' /\ Linked(3)' /\ result' # "ok"
    BY <1>1, <1>2 DEF TakenFirst, Linked, BufferDesc
  <1>4. header' = [is_write |-> call'.is_write, block |-> call'.block]
    BY <1>1 DEF BlkInv
  <1>5. CASE Blk!PublishRing
    <2>1. taken[1] = 0
      BY <1>2 DEF TakenFirst
    <2>2. /\ blk_pc = "ring" /\ blk_pc' = "idx" /\ idx' = idx
          /\ ring' = [ring EXCEPT ![idx % NUMBER_OF_DESCRIPTORS] = 0]
      BY <1>5, <2>1 DEF Blk!PublishRing
    <2>3. idx % NUMBER_OF_DESCRIPTORS \in Desc
      BY NextIndex DEF BlkInv
    <2>4. ring' \in [Desc -> Nat] /\ ring'[idx % NUMBER_OF_DESCRIPTORS] = 0
      BY <2>2, <2>3 DEF BlkInv
    <2>5. Quiet'
      BY <1>1, <2>2 DEF BlkInv, Quiet
    <2>6. status' = Blk!Pending
      BY <1>1, <2>2 DEF BlkInv
    <2> QED BY <1>1, <1>3, <1>4, <2>2, <2>4, <2>5, <2>6 DEF BlkInv
  <1>6. CASE Blk!PublishIdx
    <2>1. /\ blk_pc = "idx" /\ blk_pc' = "notify" /\ ring' = ring
          /\ idx' = (idx + 1) % IdxMod
      BY <1>6 DEF Blk!PublishIdx
    <2>2. last = idx /\ job.phase # "fetched" /\ status = Blk!Pending
          /\ ring[idx % NUMBER_OF_DESCRIPTORS] = 0
      BY <2>1 DEF BlkInv, Quiet
    <2>3. Offered'
      BY <1>1, <2>1, <2>2 DEF Offered
    <2>4. idx' \in 0..(IdxMod - 1)
      BY <2>1, NextIndex DEF BlkInv
    <2> QED BY <1>1, <1>3, <1>4, <2>1, <2>3, <2>4 DEF BlkInv
  <1>7. CASE Blk!Notify
    <2>1. blk_pc = "notify" /\ blk_pc' = "spin" /\ ring' = ring /\ idx' = idx
      BY <1>7 DEF Blk!Notify
    <2>2. Offered \/ Served \/ Answered
      BY <2>1 DEF BlkInv
    <2>3. Offered' \/ Served' \/ Answered'
      BY <1>1, <2>1, <2>2 DEF Offered, Served, Answered, Quiet, Blk!Asked
    <2> QED BY <1>1, <1>3, <1>4, <2>1, <2>3 DEF BlkInv
  <1>8. CASE Blk!PublishIdxPanics
    <2>1. blk_pc = "idx" /\ blk_pc' = "panic" /\ ring' = ring /\ idx' = idx
      BY <1>8 DEF Blk!PublishIdxPanics
    <2>2. Quiet'
      BY <1>1, <2>1 DEF BlkInv, Quiet
    <2> QED BY <1>1, <1>3, <2>1, <2>2 DEF BlkInv
  <1> QED BY <1>5, <1>6, <1>7, <1>8

(***************************************************************************)
(* The loop ends when the device has written the status: the descriptors   *)
(* are free again.                                                         *)
(***************************************************************************)
LEMMA SpinStep ==
    ASSUME BlkInv, Blk!SpinDone
    PROVE  BlkInv'
  <1> USE DEF Blk!registers, Blk!device
  <1>1. /\ blk_pc = "spin" /\ blk_pc' = "return" /\ status # Blk!Pending
        /\ result' = IF status = Blk!VIRTIO_BLK_S_OK THEN "ok" ELSE "err"
        /\ free_bitmap' = free_bitmap \cup {taken[1], taken[2], taken[3]}
        /\ descriptors' = Blk!Freed({taken[1], taken[2], taken[3]})
        /\ UNCHANGED <<ring, idx, call, taken, status, awake, last, job>>
    BY DEF Blk!SpinDone
  <1>2. TakenFirst(3) /\ Linked(3)
    BY <1>1 DEF BlkInv
  <1>3. taken[1] = 0 /\ taken[2] = 1 /\ taken[3] = 2
    BY <1>2 DEF TakenFirst
  <1>4. Quiet
    BY <1>1 DEF BlkInv, Offered, Served, Answered
  <1>5. \A d \in Desc : (d >= 3 \/ d \in {0, 1, 2}) /\ d >= 0
    BY ThreeDescriptors
  <1>6. free_bitmap' = {d \in Desc : d >= 0}
    BY <1>1, <1>2, <1>3, <1>5, ThreeDescriptors DEF Linked
  <1>7. descriptors' = [d \in Desc |-> Blk!ZeroDescriptor]
    <2>1. descriptors' =
            [d \in Desc |-> IF d \in {0, 1, 2} THEN Blk!ZeroDescriptor ELSE descriptors[d]]
      BY <1>1, <1>3 DEF Blk!Freed, Desc
    <2>2. \A d \in Desc : d \notin {0, 1, 2} => descriptors[d] = Blk!ZeroDescriptor
      BY <1>2, <1>5 DEF Linked
    <2> QED BY <2>1, <2>2
  <1>8. Linked(0)'
    BY <1>6, <1>7 DEF Linked
  <1>9. Quiet'
    BY <1>1, <1>4 DEF Quiet
  <1> QED BY <1>1, <1>8, <1>9 DEF BlkInv

(***************************************************************************)
(* The caller has the result.                                              *)
(***************************************************************************)
LEMMA ReturnStep ==
    ASSUME BlkInv, Blk!Return
    PROVE  BlkInv'
  <1> USE DEF Blk!registers, Blk!queue, Blk!device
  <1>1. /\ blk_pc = "return" /\ blk_pc' = "ready" /\ result' = "none" /\ status' = Blk!Pending
        /\ UNCHANGED <<free_bitmap, descriptors, ring, idx, awake, last, job>>
    BY DEF Blk!Return
  <1>2. Linked(0) /\ Quiet
    BY <1>1 DEF BlkInv
  <1>3. Linked(0)' /\ Quiet'
    BY <1>1, <1>2 DEF Linked, Quiet
  <1> QED BY <1>1, <1>3 DEF BlkInv

(***************************************************************************)
(* The chain at descriptor 0 is the request of the call.                   *)
(***************************************************************************)
LEMMA ChainIsAsked ==
    ASSUME Linked(3), header = [is_write |-> call.is_write, block |-> call.block]
    PROVE  Blk!Chain(0) = Blk!Asked
  <1>1. /\ descriptors[0] = HeaderDesc(1) /\ descriptors[1] = BufferDesc(2)
        /\ descriptors[2] = StatusDesc
    BY DEF Linked
  <1>2. /\ descriptors[0].next = 1 /\ descriptors[0].address = "header" /\ descriptors[0].more
    BY <1>1 DEF HeaderDesc
  <1>3. /\ descriptors[1].next = 2 /\ descriptors[1].address = call.buffer
        /\ descriptors[1].length = call.length /\ descriptors[1].more
        /\ descriptors[1].write = ~call.is_write
    BY <1>1 DEF BufferDesc
  <1>4. descriptors[2].address = "status" /\ descriptors[2].write /\ ~descriptors[2].more
    BY <1>1 DEF StatusDesc
  <1>5. header # Blk!None
    <2>1. DOMAIN header = {"is_write", "block"}
      OBVIOUS
    <2>2. DOMAIN Blk!None = {"none"}
      BY DEF Blk!None
    <2>3. "none" \notin {"is_write", "block"}
      OBVIOUS
    <2> QED BY <2>1, <2>2, <2>3
  <1>6. header.is_write = call.is_write /\ header.block = call.block
    OBVIOUS
  <1> QED BY <1>2, <1>3, <1>4, <1>5, <1>6 DEF Blk!Chain, Blk!Asked

(***************************************************************************)
(* The device takes, performs and puts away; it finds new work only while  *)
(* the call that asked for it waits.                                       *)
(***************************************************************************)
LEMMA DeviceStep ==
    ASSUME BlkInv, Blk!Device
    PROVE  BlkInv'
  <1> USE DEF Blk!registers, Blk!queue, Blk!stack
  <1>1. /\ UNCHANGED <<blk_pc, free_bitmap, descriptors, ring, idx, call, taken, header, result>>
    BY DEF Blk!Device, Blk!Fetch, Blk!Perform, Blk!PushUsed, Blk!Sleep
  <1>2. /\ \A n \in {0, 1, 2, 3} : Linked(n) => Linked(n)'
        /\ \A n \in {0, 1, 2, 3} : TakenFirst(n) => TakenFirst(n)'
        /\ Blk!Asked' = Blk!Asked
    BY <1>1 DEF Linked, TakenFirst, BufferDesc, Blk!Asked
  <1>3. CASE Blk!Fetch
    <2>1. /\ job = Blk!NoJob /\ last # idx /\ awake /\ last' = (last + 1) % IdxMod
          /\ job' = [phase |-> "fetched",
                     request |-> Blk!Chain(ring[last % NUMBER_OF_DESCRIPTORS])]
          /\ UNCHANGED status
      BY <1>3 DEF Blk!Fetch
    <2>2. blk_pc \in {"notify", "spin"} /\ Offered
      BY <2>1 DEF BlkInv, Quiet, Served, Answered
    <2>3. Linked(3) /\ header = [is_write |-> call.is_write, block |-> call.block]
      BY <2>2 DEF BlkInv
    <2>4. job' = [phase |-> "fetched", request |-> Blk!Asked']
      BY <1>2, <2>1, <2>2, <2>3, ChainIsAsked DEF Offered
    <2>5. Served' /\ last' = idx
      BY <1>1, <2>1, <2>2, <2>4 DEF Served, Offered
    <2> QED BY <1>1, <1>2, <2>2, <2>5 DEF BlkInv
  <1>4. CASE Blk!Perform
    <2>1. /\ job.phase = "fetched" /\ status' \in {Blk!VIRTIO_BLK_S_OK, Blk!VIRTIO_BLK_S_IOERR}
          /\ job' = [phase |-> "performed"] /\ UNCHANGED <<awake, last>>
      BY <1>4 DEF Blk!Perform
    <2>2. blk_pc \in {"notify", "spin"} /\ Served
      BY <2>1 DEF BlkInv, Quiet, Offered, Answered, Blk!NoJob
    <2>3. status' # Blk!Pending
      BY <2>1 DEF Blk!Pending, Blk!VIRTIO_BLK_S_OK, Blk!VIRTIO_BLK_S_IOERR
    <2>4. Answered'
      BY <1>1, <2>1, <2>2, <2>3 DEF Served, Answered, Quiet
    <2> QED BY <1>1, <1>2, <2>1, <2>2, <2>4 DEF BlkInv
  <1>5. CASE Blk!PushUsed \/ Blk!Sleep
    <2>1. /\ job' = job \/ job' = Blk!NoJob
          /\ UNCHANGED <<last, status>>
          /\ job.phase = "performed" \/ (awake' = FALSE /\ job' = job)
          /\ job' # job => job.phase = "performed"
      BY <1>5 DEF Blk!PushUsed, Blk!Sleep
    <2>2. Blk!NoJob.phase = "none"
      BY DEF Blk!NoJob
    <2>3. job.phase # "fetched" => job'.phase # "fetched"
      BY <2>1, <2>2
    <2>4. (Quiet => Quiet') /\ (Offered => Offered') /\ (Answered => Answered')
      BY <1>1, <2>1, <2>3 DEF Quiet, Offered, Answered
    <2>5. Served => Served'
      BY <1>1, <1>2, <2>1 DEF Served
    <2>6. ~awake /\ job = Blk!NoJob => ~awake' /\ job' = Blk!NoJob
      BY <2>1, <2>2
    <2> QED BY <1>1, <1>2, <2>1, <2>4, <2>5, <2>6 DEF BlkInv
  <1> QED BY <1>3, <1>4, <1>5 DEF Blk!Device

(***************************************************************************)
(* A step that leaves the driver and the device alone.                     *)
(***************************************************************************)
LEMMA BlkUnchanged ==
    ASSUME BlkInv, UNCHANGED blk_vars
    PROVE  BlkInv'
  BY DEF blk_vars, BlkInv, Quiet, Linked, TakenFirst, BufferDesc, Offered, Served, Answered,
         Blk!Asked

(***************************************************************************)
(* The driver and the device stay in step, whatever the file system asks   *)
(* for.                                                                    *)
(***************************************************************************)
LEMMA BlkInvariance == HostSpec => []BlkInv
  <1>1. HostInit => BlkInv
    BY BlkInitInv DEF HostInit
  <1>2. BlkInv /\ [HostNext]_disk_vars => BlkInv'
    <2>1. ASSUME BlkInv, HostNext PROVE BlkInv'
      <3>1. CASE FileSystem \/ Halted
        <4>1. UNCHANGED blk_vars
          BY <3>1 DEF FileSystem, Halted, disk_vars
        <4> QED BY <2>1, <4>1, BlkUnchanged
      <3>2. CASE CallBlk
        BY <2>1, <3>2, CallStep DEF CallBlk
      <3>3. CASE BlkReturns
        BY <2>1, <3>3, ReturnStep DEF BlkReturns
      <3>4. CASE Blk!Driver
        BY <2>1, <3>4, ProbeStep, AllocateStep, PublishStep, SpinStep DEF Blk!Driver
      <3>5. CASE Blk!Device
        BY <2>1, <3>5, DeviceStep
      <3> QED BY <2>1, <3>1, <3>2, <3>3, <3>4, <3>5 DEF HostNext
    <2>2. ASSUME BlkInv, UNCHANGED disk_vars PROVE BlkInv'
      BY <2>2, BlkUnchanged DEF disk_vars
    <2> QED BY <2>1, <2>2
  <1> QED BY <1>1, <1>2, PTL DEF HostSpec

(***************************************************************************)
(* The device never works on anything but what the waiting call asked for, *)
(* and no call returns Ok that was not performed, for any queue size and   *)
(* however often the index wraps.                                          *)
(***************************************************************************)
THEOREM DeviceInStep == HostSpec => []DeviceServesCaller
  <1>1. BlkInv => DeviceServesCaller
    <2> SUFFICES ASSUME BlkInv PROVE Blk!DeviceServesCaller
      BY DEF DeviceServesCaller
    <2>1. ASSUME job.phase = "fetched"
          PROVE  /\ blk_pc \in {"notify", "spin"} /\ status = Blk!Pending
                 /\ job.request = Blk!Asked
      <3>1. blk_pc \in {"notify", "spin"} /\ Served
        BY <2>1 DEF BlkInv, Quiet, Offered, Answered, Blk!NoJob
      <3> QED BY <3>1 DEF Served
    <2> QED BY <2>1 DEF Blk!DeviceServesCaller, BlkInv
  <1> QED BY <1>1, BlkInvariance, PTL

(***************************************************************************)
(* Between two calls every descriptor is free and the device has seen all  *)
(* of the available ring: no call of a sequence of any length runs out of  *)
(* descriptors.                                                            *)
(***************************************************************************)
THEOREM QueueIdleBetweenCalls == HostSpec => []QueueIdle
  <1>1. BlkInv => QueueIdle
    <2> SUFFICES ASSUME BlkInv, blk_pc = "ready" PROVE free_bitmap = Desc /\ last = idx
      BY DEF QueueIdle, Blk!QueueIdle, Desc
    <2>1. \A d \in Desc : d >= 0
      BY ThreeDescriptors
    <2>2. free_bitmap = {d \in Desc : d >= 0} /\ Quiet
      BY DEF BlkInv, Linked
    <2> QED BY <2>1, <2>2 DEF Quiet
  <1> QED BY <1>1, BlkInvariance, PTL

-----------------------------------------------------------------------------
(* The file system on the driver *)

(***************************************************************************)
(* The composition is the file system: whatever the driver does between    *)
(* its call and its return, the file system takes a step of its own        *)
(* specification or none, so what is proved of that holds of this.         *)
(***************************************************************************)
THEOREM HostImplementsFat32 == HostSpec => Spec
  <1>1. HostInit => Init
    BY DEF HostInit
  <1>2. [HostNext]_disk_vars => [Next]_vars
    <2>1. ASSUME HostNext PROVE Next \/ UNCHANGED vars
      <3>1. CASE FileSystem
        BY <3>1 DEF FileSystem, Next
      <3>2. CASE CallBlk
        BY <3>2 DEF CallBlk, Next
      <3>3. CASE BlkReturns
        BY <3>3 DEF BlkReturns, Next
      <3>4. CASE UNCHANGED vars
        BY <3>4
      <3> QED BY <2>1, <3>1, <3>2, <3>3, <3>4 DEF HostNext, Halted, disk_vars
    <2> QED BY <2>1 DEF disk_vars
  <1> QED BY <1>1, <1>2, PTL DEF HostSpec, Spec

(***************************************************************************)
(* Reads and writes of files through the driver move the bytes of the      *)
(* file and no others, and give their buffers back.                        *)
(***************************************************************************)
COROLLARY HostMovesTheFile ==
    HostSpec => [](OkMovesFileBytes /\ MovesWithinRequest /\ PagesReturned)
  BY HostImplementsFat32, OkMovesTheFile, MovesStayInRequest, BuffersReturned, PTL
=============================================================================
