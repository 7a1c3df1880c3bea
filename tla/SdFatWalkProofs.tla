-------------------------- MODULE SdFatWalkProofs --------------------------
(***************************************************************************)
(* More proofs about SdFat: for a card whose volume is sound, the walk     *)
(* from the partition table to the file.  An error code says what is wrong *)
(* with the card, and the RAM holds the file in the order of its chain.    *)
(***************************************************************************)
EXTENDS SdFatProofs, WellFoundedInduction, SequenceTheorems, TLAPS

-----------------------------------------------------------------------------
(* Products and quotients.                                                 *)

LEMMA TimesLeq ==
  ASSUME NEW m \in Nat, NEW a \in Int, NEW b \in Int, a <= b
  PROVE  m * a <= m * b
<1> DEFINE d == b - a
<1>1. d \in Nat /\ b = a + d
  OBVIOUS
<1> HIDE DEF d
<1>2. m * d \in Nat /\ m * a \in Int /\ m * (a + d) = m * a + m * d
  BY <1>1
<1> QED
  BY <1>1, <1>2

LEMMA Division ==
  ASSUME NEW x \in Nat, NEW m \in Nat \ {0}
  PROVE  /\ x \div m \in Nat /\ x % m \in 0 .. m - 1
         /\ x = m * (x \div m) + (x % m)
<1> DEFINE q == x \div m
           r == x % m
<1>1. q \in Int /\ r \in 0 .. m - 1 /\ x = m * q + r
  OBVIOUS
<1> HIDE DEF q, r
<1>2. q >= 0
  <2> SUFFICES ASSUME q <= -1 PROVE FALSE
    BY <1>1
  <2>1. m * q <= m * (-1)
    BY <1>1, TimesLeq
  <2>2. m * (-1) = -m /\ m * q \in Int
    BY <1>1
  <2> QED
    BY <1>1, <2>1, <2>2
<1>3. q \in Nat /\ r \in 0 .. m - 1 /\ x = m * q + r
  BY <1>1, <1>2
<1> QED
  BY <1>3 DEF q, r

-----------------------------------------------------------------------------
(* Chains of clusters: what the recursive function in Cluster computes.    *)

LEMMA Least ==
  ASSUME NEW T \in SUBSET Nat, T # {}
  PROVE  \E m \in T : \A k \in T : m <= k
<1> DEFINE R == OpToRel(<, Nat)
<1>1. IsWellFoundedOn(R, Nat)
  BY NatLessThanWellFounded
<1> HIDE DEF R
<1>2. PICK m \in T : \A k \in T : ~(<<k, m>> \in R)
  BY <1>1, WFMin
<1>3. \A k \in T : ~(k < m)
  <2> SUFFICES ASSUME NEW k \in T, k < m PROVE FALSE
    OBVIOUS
  <2>1. <<k, m>> \in R
    BY DEF R, OpToRel
  <2> QED
    BY <1>2, <2>1
<1> QED
  BY <1>3

(* Induction, for a set of numbers in place of a predicate.                *)
LEMMA SetInduction ==
  ASSUME NEW S \in SUBSET Nat, 0 \in S, \A n \in S : n + 1 \in S
  PROVE  S = Nat
<1> SUFFICES ASSUME Nat \ S # {} PROVE FALSE
  OBVIOUS
<1>1. PICK m \in Nat \ S : \A k \in Nat \ S : m <= k
  BY Least
<1>2. m # 0 /\ m - 1 \in Nat
  BY <1>1
<1>3. m - 1 \in S
  BY <1>1, <1>2
<1>4. (m - 1) + 1 \in S
  BY <1>3
<1> QED
  BY <1>1, <1>4

IsChain(f, first, n) ==
  f = [k \in 0 .. n |-> IF k = 0 THEN first ELSE disk.next[f[k - 1]]]

LEMMA ChainStep ==
  ASSUME NEW first, NEW n \in Nat, NEW f, IsChain(f, first, n)
  PROVE  /\ f[0] = first
         /\ \A k \in 0 .. n : k + 1 \in 0 .. n => f[k + 1] = disk.next[f[k]]
<1>1. \A k \in 0 .. n : f[k] = IF k = 0 THEN first ELSE disk.next[f[k - 1]]
  BY DEF IsChain
<1>2. f[0] = first
  BY <1>1
<1>3. ASSUME NEW k \in 0 .. n, k + 1 \in 0 .. n PROVE f[k + 1] = disk.next[f[k]]
  <2>1. k + 1 # 0 /\ (k + 1) - 1 = k
    OBVIOUS
  <2> QED
    BY <1>1, <1>3, <2>1
<1> QED
  BY <1>2, <1>3

LEMMA ChainExists ==
  ASSUME NEW first
  PROVE  \A n \in Nat : \E f : IsChain(f, first, n)
<1> DEFINE S == {n \in Nat : \E f : IsChain(f, first, n)}
<1>1. 0 \in S
  <2>1. IsChain([k \in 0 .. 0 |-> first], first, 0)
    BY DEF IsChain
  <2> QED
    BY <2>1
<1>2. ASSUME NEW n \in S PROVE n + 1 \in S
  <2>1. PICK f : IsChain(f, first, n)
    OBVIOUS
  <2> DEFINE g == [k \in 0 .. (n + 1) |-> IF k = n + 1 THEN disk.next[f[n]] ELSE f[k]]
  <2>2. ASSUME NEW k \in 0 .. (n + 1)
        PROVE  g[k] = IF k = 0 THEN first ELSE disk.next[g[k - 1]]
    <3>1. n \in Nat
      OBVIOUS
    <3>2. \A j \in 0 .. n : f[j] = IF j = 0 THEN first ELSE disk.next[f[j - 1]]
      BY <2>1, <3>1 DEF IsChain
    <3> HIDE DEF S
    <3>3. CASE k = n + 1
      BY <3>1, <3>3
    <3>4. CASE k # n + 1
      <4>1. /\ k \in 0 .. n /\ (k # 0 => k - 1 \in 0 .. n)
            /\ (k # 0 => k - 1 \in 0 .. (n + 1) /\ k - 1 # n + 1)
        BY <3>1, <3>4
      <4>2. g[k] = f[k] /\ (k # 0 => g[k - 1] = f[k - 1])
        BY <3>1, <3>4, <4>1
      <4> HIDE DEF g
      <4> QED
        BY <3>2, <4>1, <4>2
    <3> QED
      BY <3>3, <3>4
  <2>3. g = [k \in 0 .. (n + 1) |-> g[k]]
    OBVIOUS
  <2>4. IsChain(g, first, n + 1)
    <3> HIDE DEF g
    <3> QED
      BY <2>2, <2>3, Zenon DEF IsChain
  <2> QED
    BY <2>4
<1> HIDE DEF S
<1>3. S = Nat
  <2>1. S \in SUBSET Nat
    BY DEF S
  <2> QED
    BY <1>1, <1>2, <2>1, SetInduction
<1> QED
  BY <1>3 DEF S

(* Two chains from a cluster agree as far as both reach.                   *)
LEMMA ChainsAgree ==
  ASSUME NEW first, NEW n \in Nat, NEW m \in Nat,
         NEW f, IsChain(f, first, n), NEW g, IsChain(g, first, m)
  PROVE  \A k \in Nat : k <= n /\ k <= m => f[k] = g[k]
<1> DEFINE S == {k \in Nat : k <= n /\ k <= m => f[k] = g[k]}
<1>1. 0 \in S
  BY ChainStep
<1>2. ASSUME NEW k \in S PROVE k + 1 \in S
  <2>1. k \in Nat /\ (k <= n /\ k <= m => f[k] = g[k])
    OBVIOUS
  <2> SUFFICES ASSUME k + 1 <= n, k + 1 <= m PROVE f[k + 1] = g[k + 1]
    BY <2>1
  <2>2. k \in 0 .. n /\ k \in 0 .. m /\ k + 1 \in 0 .. n /\ k + 1 \in 0 .. m
    BY <2>1
  <2>3. f[k + 1] = disk.next[f[k]]
    BY <2>2, ChainStep
  <2>4. g[k + 1] = disk.next[g[k]]
    <3>1. \A i \in 0 .. m : i + 1 \in 0 .. m => g[i + 1] = disk.next[g[i]]
      BY ChainStep
    <3> QED
      BY <2>2, <3>1
  <2>5. f[k] = g[k]
    BY <2>1, <2>2
  <2> QED
    BY <2>3, <2>4, <2>5
<1> HIDE DEF S
<1>3. S = Nat
  <2>1. S \in SUBSET Nat
    BY DEF S
  <2> QED
    BY <1>1, <1>2, <2>1, SetInduction
<1> QED
  BY <1>3 DEF S

(* The chain of a cluster begins with it and follows the FAT.              *)
LEMMA ClusterStep ==
  ASSUME NEW first, NEW n \in Nat
  PROVE  Cluster(first, 0) = first /\ Cluster(first, n + 1) = disk.next[Cluster(first, n)]
<1>1. ASSUME NEW m \in Nat PROVE \E f : IsChain(f, first, m) /\ Cluster(first, m) = f[m]
  <2> DEFINE c == CHOOSE f : IsChain(f, first, m)
  <2>1. IsChain(c, first, m)
    BY ChainExists
  <2>2. Cluster(first, m) = c[m]
    BY DEF Cluster, IsChain
  <2> QED
    BY <2>1, <2>2
<1>2. Cluster(first, 0) = first
  BY <1>1, ChainStep
<1>3. PICK f : IsChain(f, first, n) /\ Cluster(first, n) = f[n]
  BY <1>1
<1>4. n + 1 \in Nat
  OBVIOUS
<1>5. PICK g : IsChain(g, first, n + 1) /\ Cluster(first, n + 1) = g[n + 1]
  BY <1>1, <1>4
<1>6. g[n + 1] = disk.next[g[n]]
  <2>1. n \in 0 .. (n + 1) /\ n + 1 \in 0 .. (n + 1)
    OBVIOUS
  <2> QED
    BY <1>4, <1>5, <2>1, ChainStep
<1>7. f[n] = g[n]
  <2>1. n <= n /\ n <= n + 1
    OBVIOUS
  <2> QED
    BY <1>3, <1>4, <1>5, <2>1, ChainsAgree
<1> QED
  BY <1>2, <1>3, <1>5, <1>6, <1>7

-----------------------------------------------------------------------------
(* The card, as the loader needs it: the volume is within the range of the *)
(* sector numbers and of cluster_cnt, the directory ends or has the file   *)
(* within its first sector, and the chain of the file is as long as the    *)
(* file, which fits into the RAM.                                          *)

Span           == SectorLen * disk.spc
ClusterOf(j)   == Cluster(File.cluster, j)
SectorAt(j, n) == Sector(Cluster(File.cluster, j), n)
UnitAt(k)      == Place(File.cluster, k)
EntryAt(i)     == Place(disk.root, i)
DirStart       == Sector(disk.root, 0)

VolumeOnCard ==
  /\ disk.reserved > 0 /\ disk.spc > 0 /\ disk.root > 1
  /\ Span < CountMod /\ DirStart < AddrSpace
  /\ \A c \in DOMAIN disk.next : c < SectorLen * disk.fatsize

SearchEnds ==
  /\ \A k \in 1 .. Len(disk.dir) : disk.dir[k].name[1] # 0
  /\ \E k \in 1 .. SectorLen : k \in Matches \cup {Len(disk.dir) + 1}
  /\ \A j, k \in 1 .. Len(disk.dir) + 1 :
       EntryAt(j - 1) = EntryAt(k - 1) => j = k

FileOnCard ==
  /\ File.size <= RamSize
  /\ \A j \in 0 .. File.size :
       /\ j * Span < File.size       => ClusterOf(j) > 1 /\ SectorAt(j, disk.spc - 1) < AddrSpace
       /\ (j + 1) * Span < File.size => ClusterOf(j) \in DOMAIN disk.next

Sound ==
  /\ disk.type = "none" => disk.lba = 0
  /\ disk.ok => VolumeOnCard /\ SearchEnds /\ (Found => FileOnCard)

(* The card does not change.                                               *)
LEMMA DiskSame ==
  ASSUME disk' = disk
  PROVE  /\ FatStart' = FatStart /\ DataStart' = DataStart /\ Span' = Span
         /\ DirStart' = DirStart /\ Matches' = Matches /\ (Found' <=> Found) /\ File' = File
         /\ \A j : ClusterOf(j)' = ClusterOf(j)
         /\ \A j, n : SectorAt(j, n)' = SectorAt(j, n)
         /\ \A k : UnitAt(k)' = UnitAt(k)
         /\ \A i : EntryAt(i)' = EntryAt(i)
         /\ Sound => Sound'
<1>1. FatStart' = FatStart /\ DataStart' = DataStart /\ Span' = Span
  BY DEF FatStart, DataStart, Span
<1>2. DirStart' = DirStart
  BY DEF DirStart, Sector, FatStart, DataStart
<1>3. Matches' = Matches /\ (Found' <=> Found) /\ File' = File
  BY DEF Matches, Found, File
<1>4. \A j : ClusterOf(j)' = ClusterOf(j)
  BY <1>3 DEF ClusterOf, Cluster
<1>5. \A j, n : SectorAt(j, n)' = SectorAt(j, n)
  BY <1>1, <1>3, <1>4 DEF SectorAt, ClusterOf, Sector, Cluster
<1>6. \A k : UnitAt(k)' = UnitAt(k)
  BY <1>1, <1>3, <1>4 DEF UnitAt, Place, Sector, Cluster
<1>7. VolumeOnCard => VolumeOnCard'
  BY <1>1, <1>2 DEF VolumeOnCard
<1>10. \A i : EntryAt(i)' = EntryAt(i)
  BY <1>1 DEF EntryAt, Place, Sector, Cluster
<1>8. SearchEnds => SearchEnds'
  BY <1>3, <1>10 DEF SearchEnds
<1>9. FileOnCard => FileOnCard'
  BY <1>1, <1>3, <1>4, <1>5 DEF FileOnCard
<1> QED
  BY <1>1, <1>2, <1>3, <1>4, <1>5, <1>6, <1>7, <1>8, <1>9, <1>10 DEF Sound

OnCard == disk \in Disks /\ Sound /\ disk.ok

(* Where the parts of the volume lie.                                      *)
LEMMA VolumeFacts ==
  ASSUME OnCard
  PROVE  /\ disk.lba \in Nat /\ FatStart \in Nat /\ DataStart \in Nat /\ DirStart \in Nat
         /\ disk.lba < FatStart /\ FatStart + disk.fatsize <= DataStart
         /\ DataStart <= DirStart /\ DirStart < AddrSpace
         /\ disk.spc \in Nat \ {0} /\ disk.fatsize \in Nat
         /\ Span \in Nat \ {0} /\ Span = SectorLen * disk.spc /\ Span < CountMod
<1>1. /\ disk.lba \in Nat /\ disk.reserved \in Nat \ {0} /\ disk.fatsize \in Nat
      /\ disk.spc \in Nat \ {0} /\ disk.root \in Nat \ {0, 1} /\ DirStart < AddrSpace
      /\ Span < CountMod
  BY DiskFields, Limits DEF OnCard, Sound, VolumeOnCard
<1>2. FatStart \in Nat /\ DataStart \in Nat /\ disk.lba < FatStart
      /\ FatStart + disk.fatsize <= DataStart
  BY <1>1 DEF FatStart, DataStart
<1>3. (disk.root - 2) * disk.spc \in Nat
  BY <1>1
<1>4. DirStart = DataStart + (disk.root - 2) * disk.spc
  BY <1>1, <1>2, <1>3 DEF DirStart, Sector
<1>5. DirStart \in Nat /\ DataStart <= DirStart
  BY <1>2, <1>3, <1>4
<1>6. Span \in Nat \ {0}
  BY <1>1, Limits DEF Span
<1> QED
  BY <1>1, <1>2, <1>5, <1>6 DEF Span

(* The boot sectors.                                                       *)
LEMMA BootUnits ==
  ASSUME disk \in Disks
  PROVE  /\ Unit(<<0, Last>>).sig = disk.sig /\ Unit(<<0, Last>>).type = disk.type
         /\ Unit(<<0, Last>>).lba = disk.lba
         /\ Unit(<<disk.lba, Last>>).sig = IF disk.lba = 0 THEN disk.sig ELSE disk.bootsig
         /\ Unit(<<disk.lba, 0>>).ok = disk.ok /\ Unit(<<disk.lba, 0>>).spc = disk.spc
         /\ Unit(<<disk.lba, 0>>).reserved = disk.reserved
         /\ Unit(<<disk.lba, 0>>).fatsize = disk.fatsize
         /\ Unit(<<disk.lba, 0>>).root = disk.root
<1>1. Unit(<<0, Last>>) =
        [Blank EXCEPT !.sig = disk.sig, !.type = disk.type, !.lba = disk.lba]
  BY DEF Unit
<1>2. disk.lba # 0 => Unit(<<disk.lba, Last>>) = [Blank EXCEPT !.sig = disk.bootsig]
  BY DEF Unit
<1>3. Unit(<<disk.lba, 0>>) =
        [Blank EXCEPT !.ok = disk.ok, !.spc = disk.spc, !.reserved = disk.reserved,
                      !.fatsize = disk.fatsize, !.root = disk.root]
  BY Limits DEF Unit
<1>4. Unit(<<0, Last>>).sig = disk.sig /\ Unit(<<0, Last>>).type = disk.type
      /\ Unit(<<0, Last>>).lba = disk.lba
  BY <1>1 DEF Blank
<1>5. Unit(<<disk.lba, Last>>).sig = IF disk.lba = 0 THEN disk.sig ELSE disk.bootsig
  BY <1>2, <1>4 DEF Blank
<1>6. /\ Unit(<<disk.lba, 0>>).ok = disk.ok /\ Unit(<<disk.lba, 0>>).spc = disk.spc
      /\ Unit(<<disk.lba, 0>>).reserved = disk.reserved
      /\ Unit(<<disk.lba, 0>>).fatsize = disk.fatsize
      /\ Unit(<<disk.lba, 0>>).root = disk.root
  BY <1>3 DEF Blank
<1> QED
  BY <1>4, <1>5, <1>6

(* The FAT: the entry of a cluster is where the loader looks for it.       *)
LEMMA FatUnits ==
  ASSUME OnCard, NEW c \in DOMAIN disk.next
  PROVE  /\ c \in Nat /\ FatStart + c \div SectorLen \in 0 .. AddrSpace - 1
         /\ Unit(<<FatStart + c \div SectorLen, c % SectorLen>>).next = disk.next[c]
<1> DEFINE q == c \div SectorLen
           r == c % SectorLen
           s == FatStart + q
<1>1. c \in Nat /\ c < SectorLen * disk.fatsize
  BY DiskFields DEF OnCard, Sound, VolumeOnCard
<1>2. q \in Nat /\ r \in 0 .. Last /\ c = SectorLen * q + r
  BY <1>1, Division, Limits
<1> HIDE DEF q, r
<1>3. q < disk.fatsize
  <2>1. CASE q >= disk.fatsize
    <3>1. SectorLen * disk.fatsize <= SectorLen * q
      BY <1>2, <2>1, VolumeFacts, Limits, TimesLeq
    <3>2. SectorLen * disk.fatsize \in Int /\ SectorLen * q \in Int
      BY <1>2, VolumeFacts, Limits
    <3> QED
      BY <1>1, <1>2, <3>1, <3>2, Limits
  <2> QED
    BY <1>2, <2>1, VolumeFacts
<1>4. s \in Nat /\ s # 0 /\ s # disk.lba /\ s < DataStart /\ s - FatStart = q
  BY <1>2, <1>3, VolumeFacts
<1>5. (s - FatStart) * SectorLen + r = c
  BY <1>2, <1>4, Limits
<1>6. Unit(<<s, r>>) = [Blank EXCEPT !.next = disk.next[c]]
  <2> HIDE DEF s
  <2> QED
    BY <1>4, <1>5 DEF Unit
<1>7. Unit(<<s, r>>).next = disk.next[c]
  BY <1>6 DEF Blank
<1>8. s \in 0 .. AddrSpace - 1
  BY <1>4, VolumeFacts, Limits
<1> QED
  BY <1>1, <1>7, <1>8 DEF q, r

(* The first sector of the directory: an entry in each unit as far as the  *)
(* directory goes, and its end.                                            *)
LEMMA EntryPlace ==
  ASSUME OnCard, NEW i \in 0 .. Last
  PROVE  EntryAt(i) = <<DirStart, i>>
<1>1. i % SectorLen = i /\ i \div SectorLen = 0
  BY SmallRemainder, Limits
<1>2. 0 \div disk.spc = 0 /\ 0 % disk.spc = 0
  BY VolumeFacts
<1>3. Cluster(disk.root, 0) = disk.root
  BY ClusterStep
<1> QED
  BY <1>1, <1>2, <1>3 DEF EntryAt, Place, DirStart

LEMMA DirUnits ==
  ASSUME OnCard, NEW i \in 0 .. Last
  PROVE  /\ i + 1 <= Len(disk.dir) =>
              /\ Unit(<<DirStart, i>>).name = disk.dir[i + 1].name
              /\ Unit(<<DirStart, i>>).size = disk.dir[i + 1].size
              /\ Unit(<<DirStart, i>>).cluster = disk.dir[i + 1].cluster
         /\ i = Len(disk.dir) => Unit(<<DirStart, i>>).name[1] = 0
<1> DEFINE place == <<DirStart, i>>
           f == (DirStart - FatStart) * SectorLen + i
           inDir == {k \in 1 .. Len(disk.dir) : EntryAt(k - 1) = place}
           found == CHOOSE k \in inDir : TRUE
<1>0. i \in Nat /\ Len(disk.dir) \in Nat
  BY DiskFields DEF OnCard
<1>1. DirStart # 0 /\ DirStart # disk.lba /\ ~(DirStart < DataStart)
  BY VolumeFacts
<1>2. Unit(place) =
        IF inDir # {}
          THEN [Blank EXCEPT !.name = disk.dir[found].name, !.size = disk.dir[found].size,
                             !.cluster = disk.dir[found].cluster]
        ELSE Blank
  BY <1>1 DEF Unit, EntryAt
<1>3. EntryAt(i) = place
  BY EntryPlace
<1>4. ASSUME NEW k \in 1 .. Len(disk.dir) + 1, i + 1 <= Len(disk.dir) + 1, EntryAt(k - 1) = place
      PROVE  k = i + 1
  <2>1. i + 1 \in 1 .. Len(disk.dir) + 1 /\ (i + 1) - 1 = i
    BY <1>0, <1>4
  <2>2. EntryAt((i + 1) - 1) = EntryAt(k - 1)
    BY <1>3, <1>4, <2>1
  <2> HIDE DEF place
  <2> QED
    BY <2>1, <2>2 DEF OnCard, Sound, SearchEnds
<1>5. ASSUME i + 1 <= Len(disk.dir) PROVE inDir # {} /\ found = i + 1
  <2>1. i + 1 \in 1 .. Len(disk.dir) /\ (i + 1) - 1 = i
    BY <1>0, <1>5
  <2>2. i + 1 \in inDir
    BY <1>3, <2>1
  <2>3. \A k \in inDir : k = i + 1
    <3> SUFFICES ASSUME NEW k \in inDir PROVE k = i + 1
      OBVIOUS
    <3>1. k \in 1 .. Len(disk.dir) + 1
      BY <1>0
    <3> QED
      BY <1>0, <1>4, <1>5, <3>1
  <2> HIDE DEF inDir
  <2> QED
    BY <2>2, <2>3
<1>6. ASSUME i = Len(disk.dir) PROVE inDir = {}
  <2> SUFFICES ASSUME NEW k \in inDir PROVE FALSE
    OBVIOUS
  <2>1. k \in 1 .. Len(disk.dir) /\ EntryAt(k - 1) = place
    OBVIOUS
  <2>2. k \in 1 .. Len(disk.dir) + 1
    BY <1>0, <2>1
  <2>3. k = i + 1
    BY <1>0, <1>4, <1>6, <2>1, <2>2
  <2> QED
    BY <1>0, <1>6, <2>1, <2>3
<1>7. i + 1 <= Len(disk.dir) =>
        Unit(place) = [Blank EXCEPT !.name = disk.dir[i + 1].name,
                                    !.size = disk.dir[i + 1].size,
                                    !.cluster = disk.dir[i + 1].cluster]
  <2> HIDE DEF inDir, place, found
  <2> QED
    BY <1>2, <1>5
<1>8. i = Len(disk.dir) => Unit(place) = Blank
  <2> HIDE DEF inDir, place, found
  <2> QED
    BY <1>2, <1>6
<1> HIDE DEF place
<1>9. i + 1 <= Len(disk.dir) =>
              /\ Unit(place).name = disk.dir[i + 1].name
              /\ Unit(place).size = disk.dir[i + 1].size
              /\ Unit(place).cluster = disk.dir[i + 1].cluster
  BY <1>7 DEF Blank
<1>10. i = Len(disk.dir) => Unit(place).name[1] = 0
  BY <1>8 DEF Blank
<1> QED
  BY <1>9, <1>10 DEF place

(* The file: its entry is the first of its name, and unit k of it is where *)
(* the loader reads it.                                                    *)
LEMMA FileEntry ==
  ASSUME disk \in Disks, NEW k \in Matches, \A j \in Matches : k <= j
  PROVE  Found /\ File = disk.dir[k]
<1>1. Matches \in SUBSET Nat
  BY DEF Matches
<1>2. ASSUME NEW i \in Matches, \A j \in Matches : i <= j PROVE i = k
  BY <1>1, <1>2
<1> QED
  BY <1>2 DEF Found, File

LEMMA FileFields ==
  ASSUME disk \in Disks, Found
  PROVE  File.size \in Nat /\ File.cluster \in Nat
<1>1. Matches \in SUBSET Nat /\ Matches # {} /\ Matches \subseteq 1 .. Len(disk.dir)
  BY DEF Matches, Found
<1>2. PICK k \in Matches : \A j \in Matches : k <= j
  BY <1>1, Least
<1>3. File = disk.dir[k] /\ k \in 1 .. Len(disk.dir)
  BY <1>1, <1>2, FileEntry
<1> QED
  BY <1>3, DiskFields

LEMMA UnitPlace ==
  ASSUME OnCard, NEW j \in Nat, NEW n \in 0 .. disk.spc - 1, NEW t \in 0 .. Last
  PROVE  UnitAt(j * Span + n * SectorLen + t) = <<SectorAt(j, n), t>>
<1> DEFINE q == j * disk.spc + n
           k == j * Span + n * SectorLen + t
<1>1. disk.spc \in Nat \ {0} /\ SectorLen \in Nat \ {0} /\ Span = SectorLen * disk.spc
  BY VolumeFacts, Limits
<1>2. q \in Nat /\ t \in 0 .. SectorLen - 1 /\ n \in Nat
  BY <1>1, Limits
<1>3. k = q * SectorLen + t
  <2>1. j * (SectorLen * disk.spc) = (j * disk.spc) * SectorLen
    BY <1>1
  <2>2. j * disk.spc \in Nat
    BY <1>1
  <2>3. (j * disk.spc + n) * SectorLen = (j * disk.spc) * SectorLen + n * SectorLen
    BY <1>1, <1>2, <2>2
  <2> QED
    BY <1>1, <1>2, <2>1, <2>3
<1> HIDE DEF k
<1>4. k % SectorLen = t /\ k \div SectorLen = q
  <2> HIDE DEF q
  <2>1. q \in Int
    BY <1>2
  <2>2. (q * SectorLen + t) % SectorLen = t /\ (q * SectorLen + t) \div SectorLen = q
    BY ONLY <1>1, <1>2, <2>1, DivMod
  <2> QED
    BY <1>3, <2>2
<1>5. q % disk.spc = n /\ q \div disk.spc = j
  <2>1. j \in Int
    OBVIOUS
  <2>2. (j * disk.spc + n) % disk.spc = n /\ (j * disk.spc + n) \div disk.spc = j
    BY ONLY <1>1, <2>1, DivMod, n \in 0 .. disk.spc - 1
  <2> QED
    BY <2>2
<1> HIDE DEF q
<1>6. UnitAt(k) = <<Sector(Cluster(File.cluster, j), n), t>>
  BY <1>4, <1>5 DEF UnitAt, Place
<1> QED
  BY <1>6 DEF k, SectorAt

LEMMA FileFacts ==
  ASSUME OnCard, Found, NEW j \in Nat, j * Span < File.size
  PROVE  /\ ClusterOf(j) \in Nat
         /\ SectorAt(j, 0) = DataStart + (ClusterOf(j) - 2) * disk.spc
         /\ \A n \in 0 .. disk.spc - 1 : SectorAt(j, n) \in 0 .. AddrSpace - 1
         /\ \A n \in Nat : SectorAt(j, n + 1) = SectorAt(j, n) + 1
         /\ (j + 1) * Span < File.size => ClusterOf(j) \in DOMAIN disk.next
<1>1. /\ File.size \in Nat /\ File.cluster \in Nat /\ Span \in Nat \ {0} /\ disk.spc \in Nat \ {0}
      /\ DataStart \in Nat /\ AddrSpace \in Nat
  BY VolumeFacts, FileFields, Limits DEF OnCard
<1>2. ASSUME NEW i \in Nat, i * Span < File.size PROVE i \in 0 .. File.size
  <2>1. Span * i >= i
    <3>1. i * 1 <= i * Span
      BY <1>1, TimesLeq
    <3> QED
      BY <1>1, <3>1
  <2>2. i * Span = Span * i /\ i * Span \in Nat
    BY <1>1
  <2> QED
    BY <1>1, <1>2, <2>1, <2>2
<1>3. /\ ClusterOf(j) > 1 /\ SectorAt(j, disk.spc - 1) < AddrSpace
      /\ (j + 1) * Span < File.size => ClusterOf(j) \in DOMAIN disk.next
  BY <1>2 DEF OnCard, Sound, FileOnCard
<1>4. ClusterOf(j) \in Nat
  <2>1. CASE j = 0
    BY <1>1, <2>1, ClusterStep DEF ClusterOf
  <2>2. CASE j # 0
    <3> DEFINE i == j - 1
    <3>1. i \in Nat /\ j = i + 1
      BY <2>2
    <3> HIDE DEF i
    <3>2. i * Span < File.size /\ (i + 1) * Span < File.size
      <4>1. Span * i <= Span * (i + 1)
        BY <1>1, <3>1, TimesLeq
      <4>2. i * Span = Span * i /\ (i + 1) * Span = Span * (i + 1) /\ i * Span \in Nat
            /\ (i + 1) * Span \in Nat
        BY <1>1, <3>1
      <4>3. (i + 1) * Span < File.size
        BY <3>1
      <4> QED
        BY <1>1, <4>1, <4>2, <4>3
    <3>3. i \in 0 .. File.size
      BY <1>2, <3>1, <3>2
    <3>4. ClusterOf(i) \in DOMAIN disk.next
      BY <3>2, <3>3 DEF OnCard, Sound, FileOnCard
    <3>5. ClusterOf(j) = disk.next[ClusterOf(i)]
      BY <3>1, ClusterStep DEF ClusterOf
    <3> QED
      BY <3>4, <3>5, DiskFields DEF OnCard
  <2> QED
    BY <2>1, <2>2
<1> DEFINE a == (ClusterOf(j) - 2) * disk.spc
<1>5. a \in Nat
  BY <1>1, <1>3, <1>4
<1>6. \A n : SectorAt(j, n) = DataStart + a + n
  BY DEF SectorAt, Sector, ClusterOf
<1>7. SectorAt(j, 0) = DataStart + a
  <2> HIDE DEF a
  <2> QED
    BY <1>1, <1>5, <1>6
<1>8. \A n \in 0 .. disk.spc - 1 : SectorAt(j, n) \in 0 .. AddrSpace - 1
  <2> HIDE DEF a
  <2>1. DataStart + a + (disk.spc - 1) < AddrSpace
    BY <1>3, <1>6
  <2> SUFFICES ASSUME NEW n \in 0 .. disk.spc - 1 PROVE DataStart + a + n \in 0 .. AddrSpace - 1
    BY <1>6
  <2> QED
    BY <1>1, <1>5, <2>1
<1>9. \A n \in Nat : SectorAt(j, n + 1) = SectorAt(j, n) + 1
  <2> HIDE DEF a
  <2> SUFFICES ASSUME NEW n \in Nat PROVE DataStart + a + (n + 1) = (DataStart + a + n) + 1
    BY <1>6
  <2> QED
    BY <1>1, <1>5
<1> QED
  BY <1>3, <1>4, <1>7, <1>8, <1>9

(* A number within half of the way round from another has its own remainder. *)
LEMMA OwnRemainder ==
  ASSUME NEW m \in Nat \ {0}, NEW a \in Nat, NEW b \in Nat, a < b, b - a < m
  PROVE  a % m # b % m
<1> SUFFICES ASSUME a % m = b % m PROVE FALSE
  OBVIOUS
<1> DEFINE p == a \div m
           q == b \div m
           r == a % m
<1>1. p \in Nat /\ q \in Nat /\ r \in Int /\ a = m * p + r /\ b = m * q + r
  <2>1. p \in Nat /\ r \in 0 .. m - 1 /\ a = m * p + (a % m)
    BY ONLY Division, a \in Nat, m \in Nat \ {0}
  <2>2. q \in Nat /\ b = m * q + (b % m)
    BY ONLY Division, b \in Nat, m \in Nat \ {0}
  <2> QED
    BY <2>1, <2>2
<1> HIDE DEF p, q, r
<1>2. q > p
  <2> SUFFICES ASSUME q <= p PROVE FALSE
    BY <1>1
  <2>1. m * q <= m * p
    BY <1>1, TimesLeq
  <2>2. m * q \in Int /\ m * p \in Int
    BY <1>1
  <2> QED
    BY <1>1, <2>1, <2>2
<1>3. m * (p + 1) <= m * q
  BY <1>1, <1>2, TimesLeq
<1>4. m * (p + 1) = m * p + m /\ m * p \in Int /\ m * q \in Int
  BY <1>1
<1> QED
  BY <1>1, <1>3, <1>4

-----------------------------------------------------------------------------
(* From the partition table to the directory entry.                        *)

(* The loader is in a state, or reads the sector that the state decodes.   *)
Reads(s) == state = s \/ (state \in {"READ_BLOCK1", "READ_BLOCK2"} /\ return_state = s)

Partition == disk.sig /\ disk.type \in {"FAT32", "none"}
Geometry  == /\ Partition /\ disk.ok
             /\ vol.spc = disk.spc /\ vol.fat = FatStart /\ vol.data = DataStart

Volume ==
  /\ Reads("FAT_CHECK") => block_addr = 0 /\ cur.sector = 0 /\ cur.entry = 0
  /\ state \in {"PARTITION_TYPE", "CHECK_LBA"} =>
       block_addr = 0 /\ disk.sig /\ cur.sector = 0 /\ cur.entry = 0
  /\ state = "CHECK_LBA" => Partition /\ (vol.valid <=> disk.type = "FAT32")
  /\ Reads("CHECK_PARTITION") =>
       /\ Partition /\ block_addr = disk.lba /\ vol.lba = disk.lba
       /\ cur.sector = 0 /\ cur.entry = 0

(* The directory's first sector is searched for the first entry that       *)
(* matches: none before the entry compared does.                           *)
SearchBegins ==
  /\ Geometry /\ cur.cluster = 0 /\ cur.sector = 0 /\ cur.entry = 0
  /\ cur.next = disk.root \/ disk.spc = 1
Passed ==
  /\ Geometry /\ block_addr = DirStart
  /\ \A k \in 1 .. cur.sector : k <= Len(disk.dir) /\ k \notin Matches
Matching ==
  cur.entry > 0 =>
    /\ cur.sector + 1 <= Len(disk.dir)
    /\ \A m \in 1 .. cur.entry : disk.dir[cur.sector + 1].name[m] = FileName[m]
Searching ==
  /\ state = "READ_DIR1" => SearchBegins
  /\ Reads("COMPARE1") => Passed
  /\ state = "COMPARE1" => Matching
  /\ Reads("COMPARE1") /\ state # "COMPARE1" => cur.entry = 0

(* With one sector to a cluster READ_DIR1 counts the cluster as read before*)
(* it has read it, and follows the FAT without end.                        *)
Fatting == state = "READ_FAT1" \/ Reads("READ_FAT2")
Looping ==
  Fatting /\ cur.back # "READ_FILE1" =>
    /\ Geometry /\ disk.spc = 1 /\ cur.back = "READ_DIR1"
    /\ cur.cluster = 0 /\ cur.sector = 0 /\ cur.entry = 0

SearchInv == Sound /\ Volume /\ Searching /\ Looping /\ ErrorMeans

(* A cycle of the search.                                                  *)
Search == Cycle /\ SearchInv /\ disk' = disk

(* The parts of the search that the loader's next state leaves open.       *)
LEMMA Elsewhere ==
  ASSUME Search
  PROVE  /\ Sound'
         /\ state' \in {"INIT", "IDLE", "READ_FILE1", "READ_FILE2", "READ_FILE3"} => SearchInv'
<1>1. Sound'
  BY DiskSame DEF Search, SearchInv
<1> QED
  BY <1>1 DEF SearchInv, Volume, Searching, Looping, Reads, Fatting, ErrorMeans

LEMMA StartSearch ==
  ASSUME Search, StartLoad
  PROVE  SearchInv'
<1>1. /\ state' \in {"INIT", "READ_BLOCK1"} /\ return_state' = "FAT_CHECK" /\ block_addr' = 0
      /\ cur'.sector = 0 /\ cur'.entry = 0
  BY DEF StartLoad, Search, Cycle, Types, LoaderTypes, Walks
<1> QED
  BY <1>1, Elsewhere DEF SearchInv, Volume, Searching, Looping, Reads, Fatting,
     ErrorMeans

LEMMA ReadSearch ==
  ASSUME Search, ReadBlock1 \/ ReadBlock2
  PROVE  SearchInv'
<1>1. /\ state \in {"READ_BLOCK1", "READ_BLOCK2"}
      /\ state' \in {"READ_BLOCK1", "READ_BLOCK2"} \/ state' = return_state
      /\ UNCHANGED <<return_state, block_addr, vol, cur, disk>>
  BY DEF ReadBlock1, ReadBlock2, Request, Enter, Search
<1>2. ASSUME NEW s \in {"FAT_CHECK", "CHECK_PARTITION", "COMPARE1", "READ_FAT2"}
      PROVE  Reads(s)' => Reads(s)
  BY <1>1 DEF Reads
<1>3. return_state \in {"INIT", "FAT_CHECK", "CHECK_PARTITION", "COMPARE1", "READ_FAT2"}
  BY DEF Search, Cycle, Types, LoaderTypes, FsmTypes
<1>4. (Partition' <=> Partition) /\ (Geometry' <=> Geometry) /\ (Passed' <=> Passed)
  BY <1>1, DiskSame DEF Partition, Geometry, Passed
<1>5. Volume'
  BY <1>1, <1>2, <1>3, <1>4 DEF Volume, Search, SearchInv
<1>6. Searching'
  <2>1. Reads("COMPARE1")' => cur'.entry = 0
    BY <1>1, <1>2 DEF Reads, Searching, Search, SearchInv
  <2>2. cur'.entry = 0 => Matching'
    BY DEF Matching
  <2> QED
    BY <1>1, <1>2, <1>3, <1>4, <2>1, <2>2 DEF Searching, Search, SearchInv, Reads
<1>7. Looping'
  BY <1>1, <1>2, <1>3, <1>4 DEF Looping, Fatting, Search, SearchInv
<1>8. ErrorMeans'
  BY <1>1, <1>3 DEF ErrorMeans
<1> QED
  BY <1>5, <1>6, <1>7, <1>8, Elsewhere DEF SearchInv

LEMMA VolumeSearch ==
  ASSUME Search, FatCheck \/ PartitionType \/ CheckLba
  PROVE  SearchInv'
<1>0. /\ disk \in Disks /\ cur \in Walks /\ vol \in Volumes /\ block_addr \in 0 .. AddrSpace - 1
      /\ state \in {"FAT_CHECK", "PARTITION_TYPE", "CHECK_LBA"}
  BY DEF FatCheck, PartitionType, CheckLba, Decode, Search, Cycle, Types,
     LoaderTypes, MemTypes
<1>1. block_addr = 0 /\ cur.sector = 0 /\ cur.entry = 0
  BY <1>0 DEF Search, SearchInv, Volume, Reads
<1>2. block_mem[Last] = <<0, Last>>
  BY <1>0, <1>1, Limits DEF Search, Cycle, SectorInv, WholeSector
<1>3. Mem(Last).sig = disk.sig /\ Mem(Last).type = disk.type /\ Mem(Last).lba = disk.lba
  BY <1>0, <1>2, BootUnits DEF Mem
<1>4. CASE FatCheck
  <2>1. UNCHANGED <<block_addr, vol, cur, disk>>
    BY <1>4 DEF FatCheck, Search
  <2>2. CASE disk.sig
    <3>1. state' = "PARTITION_TYPE"
      BY <1>3, <1>4, <2>2 DEF FatCheck, Enter
    <3> QED
      BY <1>1, <2>1, <2>2, <3>1, Elsewhere DEF SearchInv, Volume, Searching,
         Looping, Reads, Fatting, ErrorMeans
  <2>3. CASE ~disk.sig
    <3>1. state' = "ERROR" /\ error_i' = 2
      BY <1>3, <1>4, <2>3 DEF FatCheck, Error
    <3> QED
      BY <2>1, <2>3, <3>1, Elsewhere DEF SearchInv, Volume, Searching, Looping,
         Reads, Fatting, ErrorMeans
  <2> QED
    BY <2>2, <2>3
<1>5. CASE PartitionType
  <2>1. UNCHANGED <<block_addr, cur, disk>> /\ disk.sig
    BY <1>5 DEF PartitionType, Decode, Search, SearchInv, Volume
  <2>2. CASE disk.type \in {"FAT32", "none"}
    <3>1. state' = "CHECK_LBA" /\ vol' = [vol EXCEPT !.valid = (Mem(Last).type = "FAT32")]
      BY <1>3, <1>5, <2>2 DEF PartitionType, Enter
    <3>2. vol'.valid <=> disk.type = "FAT32"
      BY <1>0, <1>3, <3>1 DEF Volumes
    <3>3. Partition'
      BY <2>1, <2>2 DEF Partition
    <3> QED
      BY <1>1, <2>1, <3>1, <3>2, <3>3, Elsewhere DEF SearchInv, Volume, Searching,
         Looping, Reads, Fatting, ErrorMeans
  <2>3. CASE disk.type \notin {"FAT32", "none"}
    <3>1. state' = "ERROR" /\ error_i' = 3
      BY <1>3, <1>5, <2>3 DEF PartitionType, Error
    <3> QED
      BY <2>1, <2>3, <3>1, Elsewhere DEF SearchInv, Volume, Searching, Looping,
         Reads, Fatting, ErrorMeans
  <2> QED
    BY <2>2, <2>3
<1>6. CASE CheckLba
  <2>1. state' = "READ_BLOCK1" /\ return_state' = "CHECK_PARTITION" /\ UNCHANGED <<cur, disk>>
    BY <1>6 DEF CheckLba, Call, Search
  <2>2. Partition /\ (vol.valid <=> disk.type = "FAT32")
    BY <1>6 DEF CheckLba, Decode, Search, SearchInv, Volume
  <2>3. disk.type = "none" => disk.lba = 0
    BY DEF Search, SearchInv, Sound
  <2>4. block_addr' = disk.lba /\ vol'.lba = disk.lba
    <3>1. block_addr' = disk.lba
      BY <1>3, <1>6, <2>2, <2>3 DEF CheckLba, Partition
    <3>2. vol' = [vol EXCEPT !.lba = block_addr']
      BY <1>6 DEF CheckLba
    <3> QED
      BY <1>0, <3>1, <3>2 DEF Volumes
  <2>5. Partition'
    BY <2>1, <2>2 DEF Partition
  <2> QED
    BY <1>1, <2>1, <2>4, <2>5, Elsewhere DEF SearchInv, Volume, Searching, Looping,
       Reads, Fatting, ErrorMeans
<1> QED
  BY <1>4, <1>5, <1>6

LEMMA PartitionSearch ==
  ASSUME Search, CheckPartition
  PROVE  SearchInv'
<1>0. /\ disk \in Disks /\ cur \in Walks /\ vol \in Volumes /\ block_addr \in 0 .. AddrSpace - 1
      /\ state = "CHECK_PARTITION"
  BY DEF CheckPartition, Decode, Search, Cycle, Types, LoaderTypes, MemTypes
<1>1. /\ Partition /\ block_addr = disk.lba /\ vol.lba = disk.lba
      /\ cur.sector = 0 /\ cur.entry = 0
  BY <1>0 DEF Search, SearchInv, Volume, Reads
<1>2. block_mem[0] = <<disk.lba, 0>> /\ block_mem[Last] = <<disk.lba, Last>>
  BY <1>0, <1>1, Limits DEF Search, Cycle, SectorInv, WholeSector
<1>3. Mem(Last).sig = IF disk.lba = 0 THEN disk.sig ELSE disk.bootsig
  BY <1>0, <1>2, BootUnits DEF Mem
<1>4. /\ Mem(0).ok = disk.ok /\ Mem(0).spc = disk.spc /\ Mem(0).reserved = disk.reserved
      /\ Mem(0).fatsize = disk.fatsize /\ Mem(0).root = disk.root
  BY <1>0, <1>2, BootUnits DEF Mem
<1>5. CASE disk.ok /\ Mem(Last).sig
  <2>1. OnCard
    BY <1>0, <1>5 DEF OnCard, Search, SearchInv
  <2> DEFINE fat == (vol.lba + Mem(0).reserved) % AddrSpace
  <2>2. /\ state' = "READ_DIR1"
        /\ vol' = [vol EXCEPT !.spc = Mem(0).spc, !.fat = fat,
                              !.data = (fat + 2 * Mem(0).fatsize) % AddrSpace]
        /\ cur' = [cur EXCEPT !.next = Mem(0).root, !.cluster = 0, !.sector = 0]
    BY <1>4, <1>5 DEF CheckPartition, Enter
  <2>3. fat = FatStart
    <3>1. vol.lba + Mem(0).reserved = FatStart
      BY <1>1, <1>4 DEF FatStart
    <3>2. FatStart \in 0 .. AddrSpace - 1
      BY <2>1, VolumeFacts, Limits
    <3> QED
      BY <3>1, <3>2, SmallRemainder, Limits
  <2>4. (fat + 2 * Mem(0).fatsize) % AddrSpace = DataStart
    <3>1. fat + 2 * Mem(0).fatsize = DataStart
      BY <1>4, <2>3 DEF DataStart
    <3>2. DataStart \in 0 .. AddrSpace - 1
      BY <2>1, VolumeFacts, Limits
    <3> QED
      BY <3>1, <3>2, SmallRemainder, Limits
  <2> HIDE DEF fat
  <2>5. /\ vol'.spc = disk.spc /\ vol'.fat = FatStart /\ vol'.data = DataStart
        /\ cur'.next = disk.root /\ cur'.cluster = 0 /\ cur'.sector = 0 /\ cur'.entry = 0
    BY <1>0, <1>1, <1>4, <2>2, <2>3, <2>4 DEF Volumes, Walks
  <2>6. SearchBegins'
    BY <1>1, <1>5, <2>5, DiskSame DEF SearchBegins, Geometry, Partition, Search
  <2> QED
    BY <2>2, <2>6, Elsewhere DEF SearchInv, Volume, Searching, Looping, Reads,
       Fatting, ErrorMeans
<1>6. CASE ~(disk.ok /\ Mem(Last).sig)
  <2>1. state' = "ERROR" /\ error_i' = 4 /\ disk' = disk
    BY <1>4, <1>6 DEF CheckPartition, Error, Search
  <2>2. ~(disk.ok /\ disk.bootsig)
    BY <1>1, <1>3, <1>6 DEF Partition
  <2> QED
    BY <2>1, <2>2, Elsewhere DEF SearchInv, Volume, Searching, Looping, Reads,
       Fatting, ErrorMeans
<1> QED
  BY <1>5, <1>6

LEMMA DirectorySearch ==
  ASSUME Search, ReadDir1
  PROVE  SearchInv'
<1>0. disk \in Disks /\ cur \in Walks /\ vol \in Volumes /\ state = "READ_DIR1"
  BY DEF ReadDir1, Decode, Search, Cycle, Types, LoaderTypes
<1>1. SearchBegins
  BY <1>0 DEF Search, SearchInv, Searching
<1>2. OnCard /\ vol.spc = disk.spc /\ vol.data = DataStart
  BY <1>0, <1>1 DEF SearchBegins, Geometry, OnCard, Search, SearchInv
<1>3. /\ cur.sector # SectorLen /\ cur.cluster = 0 /\ cur.cluster + SectorLen = SectorLen
      /\ disk.spc \in Nat \ {0} /\ disk' = disk
  BY <1>1, <1>2, VolumeFacts, Limits DEF SearchBegins, Search
<1>4. SectorLen = SectorLen * disk.spc <=> disk.spc = 1
  <2>1. SectorLen * 1 = SectorLen
    BY Limits
  <2>2. CASE disk.spc >= 2
    <3>1. SectorLen * 2 <= SectorLen * disk.spc
      <4>1. SectorLen \in Nat /\ 2 \in Int /\ disk.spc \in Int /\ 2 <= disk.spc
        BY <1>3, <2>2, Limits
      <4> QED
        BY ONLY <4>1, TimesLeq
    <3>2. SectorLen * disk.spc \in Int /\ SectorLen * 2 > SectorLen
      BY <1>3, Limits
    <3> QED
      BY <2>2, <3>1, <3>2, Limits
  <2> QED
    BY <1>3, <2>1, <2>2
<1>5. CASE disk.spc = 1
  <2>1. /\ state' = "READ_FAT1" /\ vol' = vol
        /\ cur' = [cur EXCEPT !.current = cur.next, !.sector = 0, !.cluster = 0,
                              !.back = "READ_DIR1"]
    BY <1>2, <1>3, <1>4, <1>5 DEF ReadDir1, Enter
  <2>2. cur'.cluster = 0 /\ cur'.sector = 0 /\ cur'.entry = 0 /\ cur'.back = "READ_DIR1"
    BY <1>0, <1>1, <2>1 DEF Walks, SearchBegins
  <2>3. Geometry'
    BY <1>1, <1>3, <2>1, DiskSame DEF SearchBegins, Geometry, Partition
  <2> QED
    BY <1>3, <1>5, <2>1, <2>2, <2>3, Elsewhere DEF SearchInv, Volume, Searching,
       Looping, Reads, Fatting, ErrorMeans
<1>6. CASE disk.spc # 1
  <2>1. /\ state' = "READ_BLOCK1" /\ return_state' = "COMPARE1" /\ vol' = vol
        /\ block_addr' = ClusterStart(cur.next)
        /\ cur' = [cur EXCEPT !.current = cur.next, !.sector = 0, !.cluster = cur.cluster,
                              !.back = cur.back]
    BY <1>2, <1>3, <1>4, <1>6 DEF ReadDir1, Call
  <2>2. cur.next = disk.root
    BY <1>1, <1>6 DEF SearchBegins
  <2>3. block_addr' = DirStart
    <3>1. DirStart = DataStart + (disk.root - 2) * disk.spc
      <4>1. (disk.root - 2) * disk.spc \in Int
        BY <1>0, <1>3, DiskFields
      <4> QED
        BY <1>2, <4>1, VolumeFacts DEF DirStart, Sector
    <3>2. ClusterStart(cur.next) = DirStart % AddrSpace
      BY <1>2, <2>2, <3>1 DEF ClusterStart
    <3>3. DirStart \in 0 .. AddrSpace - 1
      BY <1>2, VolumeFacts, Limits
    <3> QED
      BY <2>1, <3>2, <3>3, SmallRemainder, Limits
  <2>4. cur'.sector = 0 /\ cur'.entry = 0
    BY <1>0, <1>1, <2>1 DEF Walks, SearchBegins
  <2>5. Geometry'
    BY <1>1, <1>3, <2>1, DiskSame DEF SearchBegins, Geometry, Partition
  <2>6. Passed'
    BY <1>3, <2>3, <2>4, <2>5, DiskSame DEF Passed
  <2> QED
    BY <2>1, <2>4, <2>6, Elsewhere DEF SearchInv, Volume, Searching, Looping, Reads,
       Fatting, ErrorMeans
<1> QED
  BY <1>5, <1>6

LEMMA FatSearch ==
  ASSUME Search, ReadFat1 \/ ReadFat2
  PROVE  SearchInv'
<1>0. cur \in Walks /\ disk' = disk /\ vol' = vol
  BY DEF ReadFat1, ReadFat2, Search, Cycle, Types, LoaderTypes
<1>1. Geometry => Geometry'
  BY <1>0, DiskSame DEF Geometry, Partition
<1>2. CASE ReadFat1
  <2>1. /\ state = "READ_FAT1" /\ state' = "READ_BLOCK1" /\ return_state' = "READ_FAT2"
        /\ cur' = [cur EXCEPT !.next = 0]
    BY <1>2 DEF ReadFat1, Decode, Call
  <2>2. /\ cur'.back = cur.back /\ cur'.cluster = cur.cluster
        /\ cur'.sector = cur.sector /\ cur'.entry = cur.entry
    BY <1>0, <2>1 DEF Walks
  <2>3. Looping'
    BY <1>0, <1>1, <2>1, <2>2 DEF Looping, Fatting, Search, SearchInv
  <2> QED
    BY <2>1, <2>3, Elsewhere DEF SearchInv, Volume, Searching, Reads, ErrorMeans
<1>3. CASE ReadFat2
  <2>1. /\ state = "READ_FAT2" /\ state' = cur.back
        /\ cur' = [cur EXCEPT !.next = Mem(cur.current % SectorLen).next]
    BY <1>3 DEF ReadFat2, Decode, Enter
  <2>2. CASE cur.back = "READ_FILE1"
    BY <2>1, <2>2, Elsewhere
  <2>3. CASE cur.back # "READ_FILE1"
    <3>1. /\ Geometry /\ disk.spc = 1 /\ state' = "READ_DIR1"
          /\ cur.cluster = 0 /\ cur.sector = 0 /\ cur.entry = 0
      BY <2>1, <2>3 DEF Looping, Fatting, Reads, Search, SearchInv
    <3>2. cur'.cluster = 0 /\ cur'.sector = 0 /\ cur'.entry = 0
      BY <1>0, <2>1, <3>1 DEF Walks
    <3>3. SearchBegins'
      BY <1>0, <1>1, <3>1, <3>2 DEF SearchBegins
    <3> QED
      BY <3>1, <3>3, Elsewhere DEF SearchInv, Volume, Searching, Looping, Reads,
         Fatting, ErrorMeans
  <2> QED
    BY <2>2, <2>3
<1> QED
  BY <1>2, <1>3

(* What COMPARE1 finds at its place in the directory.                      *)
LEMMA Compared ==
  ASSUME Search, state = "COMPARE1"
  PROVE  /\ OnCard /\ Geometry /\ cur.sector \in 0 .. Last /\ cur.entry \in 0 .. Len(FileName) - 1
         /\ \A k \in 1 .. cur.sector : k <= Len(disk.dir) /\ k \notin Matches
         /\ cur.sector <= Len(disk.dir) /\ Len(disk.dir) \in Nat
         /\ cur.sector + 1 <= Len(disk.dir) =>
              LET e == disk.dir[cur.sector + 1]
              IN /\ Mem(cur.sector).name = e.name /\ Mem(cur.sector).size = e.size
                 /\ Mem(cur.sector).cluster = e.cluster /\ e.name[1] # 0
                 /\ e.name \in Seq(Nat) /\ Len(e.name) = Len(FileName)
         /\ cur.sector = Len(disk.dir) => Mem(cur.sector).name[1] = 0
<1>0. /\ disk \in Disks /\ cur \in Walks /\ Len(disk.dir) \in Nat
      /\ cur.sector \in 0 .. Last /\ cur.entry \in 0 .. Len(FileName) - 1
  BY DiskFields DEF Search, Cycle, Types, LoaderTypes, Walks
<1>1. Passed
  BY DEF Search, SearchInv, Searching, Reads
<1>2. OnCard /\ Geometry /\ block_addr = DirStart
  BY <1>0, <1>1 DEF Passed, Geometry, OnCard, Search, SearchInv
<1>3. block_mem[cur.sector] = <<DirStart, cur.sector>>
  BY <1>0, <1>2 DEF Search, Cycle, SectorInv, WholeSector
<1>4. cur.sector <= Len(disk.dir)
  <2>1. CASE cur.sector = 0
    BY <1>0, <2>1
  <2>2. CASE cur.sector # 0
    <3>1. cur.sector \in 1 .. cur.sector
      BY <1>0, <2>2, Limits
    <3> QED
      BY <1>1, <3>1 DEF Passed
  <2> QED
    BY <2>1, <2>2
<1>5. ASSUME cur.sector + 1 <= Len(disk.dir)
      PROVE  LET e == disk.dir[cur.sector + 1]
             IN /\ Mem(cur.sector).name = e.name /\ Mem(cur.sector).size = e.size
                /\ Mem(cur.sector).cluster = e.cluster /\ e.name[1] # 0
                /\ e.name \in Seq(Nat) /\ Len(e.name) = Len(FileName)
  <2>1. cur.sector + 1 \in 1 .. Len(disk.dir)
    BY <1>0, <1>5, Limits
  <2>2. disk.dir[cur.sector + 1].name[1] # 0
    BY <1>2, <2>1 DEF OnCard, Sound, SearchEnds
  <2> QED
    BY <1>0, <1>2, <1>3, <1>5, <2>1, <2>2, DirUnits, DiskFields DEF Mem
<1>6. cur.sector = Len(disk.dir) => Mem(cur.sector).name[1] = 0
  BY <1>0, <1>2, <1>3, DirUnits DEF Mem
<1> QED
  BY <1>0, <1>1, <1>2, <1>4, <1>5, <1>6 DEF Passed

LEMMA CompareSearch ==
  ASSUME Search, Compare1
  PROVE  SearchInv'
<1> DEFINE e == Mem(cur.sector)
           n == cur.entry + 1
           here == disk.dir[cur.sector + 1]
<1>0. state = "COMPARE1" /\ cur \in Walks /\ UNCHANGED <<disk, block_addr, vol>>
  BY DEF Compare1, Decode, Search, Cycle, Types, LoaderTypes
<1>1. /\ OnCard /\ Geometry /\ cur.sector \in 0 .. Last /\ cur.entry \in 0 .. Len(FileName) - 1
      /\ \A k \in 1 .. cur.sector : k <= Len(disk.dir) /\ k \notin Matches
      /\ cur.sector <= Len(disk.dir) /\ Len(disk.dir) \in Nat
      /\ cur.sector + 1 <= Len(disk.dir) =>
           /\ e.name = here.name /\ e.size = here.size /\ e.cluster = here.cluster
           /\ here.name[1] # 0 /\ here.name \in Seq(Nat) /\ Len(here.name) = Len(FileName)
      /\ cur.sector = Len(disk.dir) => e.name[1] = 0
  BY <1>0, Compared
<1>2. Matching /\ block_addr = DirStart
  BY <1>0 DEF Search, SearchInv, Searching, Reads, Passed
<1>3. Geometry' /\ DirStart' = DirStart /\ Matches' = Matches
  BY <1>0, <1>1, DiskSame DEF Geometry, Partition
<1>4. cur.sector + 1 <= Len(disk.dir) \/ cur.sector = Len(disk.dir)
  BY <1>1, Limits
<1> HIDE DEF e, here
<1>5. CASE e.name[1] = 0
  <2>1. state' = "ERROR" /\ error_i' = 5
    BY <1>5 DEF Compare1, Error, e
  <2>2. ~(cur.sector + 1 <= Len(disk.dir)) /\ cur.sector = Len(disk.dir)
    BY <1>1, <1>4, <1>5
  <2>3. Matches = {}
    BY <1>1, <2>2 DEF Matches
  <2>4. ~Found'
    BY <1>3, <2>3 DEF Found
  <2> QED
    BY <2>1, <2>4, Elsewhere DEF SearchInv, Volume, Searching, Looping, Reads,
       Fatting, ErrorMeans
<1>6. CASE e.name[1] # 0 /\ e.name[n] = FileName[n]
  <2>1. cur.sector + 1 <= Len(disk.dir)
    BY <1>1, <1>4, <1>6
  <2>2. CASE n = Len(FileName)
    <3>1. state' = "READ_FILE1"
      BY <1>6, <2>2 DEF Compare1, Enter, e
    <3> QED
      BY <3>1, Elsewhere
  <2>3. CASE n # Len(FileName)
    <3>1. state' = "COMPARE1" /\ cur' = [cur EXCEPT !.entry = n]
      BY <1>6, <2>3 DEF Compare1, Enter, e
    <3>2. cur'.sector = cur.sector /\ cur'.entry = n
      BY <1>0, <3>1 DEF Walks
    <3>3. ASSUME NEW m \in 1 .. n PROVE here.name[m] = FileName[m]
      <4>1. CASE m = n
        <5>1. e.name = here.name
          BY <1>1, <2>1
        <5>2. e.name[n] = FileName[n]
          BY <1>6
        <5> HIDE DEF n
        <5> QED
          BY <4>1, <5>1, <5>2
      <4>2. CASE m # n
        <5>1. m \in 1 .. cur.entry /\ cur.entry > 0
          <6>1. cur.entry \in Nat
            BY <1>1, Limits
          <6> QED
            BY ONLY <4>2, <6>1
        <5> QED
          BY <1>2, <5>1 DEF Matching, here
      <4> QED
        BY <4>1, <4>2
    <3>4. Matching'
      BY <1>0, <2>1, <3>2, <3>3 DEF Matching, here
    <3>5. Passed'
      BY <1>0, <1>1, <1>2, <1>3, <3>2 DEF Passed
    <3> QED
      BY <3>1, <3>4, <3>5, Elsewhere DEF SearchInv, Volume, Searching, Looping,
         Reads, Fatting, ErrorMeans
  <2> QED
    BY <2>2, <2>3
<1>7. CASE e.name[1] # 0 /\ e.name[n] # FileName[n]
  <2>1. cur.sector + 1 <= Len(disk.dir) /\ here.name[n] # FileName[n]
    BY <1>1, <1>4, <1>7
  <2>2. cur.sector + 1 \notin Matches
    BY <2>1 DEF Matches, here
  <2>3. \A k \in 1 .. cur.sector + 1 : k <= Len(disk.dir) /\ k \notin Matches
    <3> SUFFICES ASSUME NEW k \in 1 .. cur.sector + 1
                 PROVE  k <= Len(disk.dir) /\ k \notin Matches
      OBVIOUS
    <3>1. k = cur.sector + 1 \/ k \in 1 .. cur.sector
      BY <1>1, Limits
    <3> QED
      BY <1>1, <2>1, <2>2, <3>1
  <2>4. cur.sector + 1 # SectorLen
    <3> SUFFICES ASSUME cur.sector + 1 = SectorLen PROVE FALSE
      OBVIOUS
    <3>1. PICK k \in 1 .. SectorLen : k \in Matches \cup {Len(disk.dir) + 1}
      BY <1>1 DEF OnCard, Sound, SearchEnds
    <3>2. k <= Len(disk.dir) /\ k \notin Matches
      BY <2>3, <3>1
    <3> QED
      BY <1>1, <3>1, <3>2
  <2>5. state' = "COMPARE1" /\ cur' = [cur EXCEPT !.sector = cur.sector + 1, !.entry = 0]
    BY <1>7, <2>4 DEF Compare1, Enter, e
  <2>6. cur'.sector = cur.sector + 1 /\ cur'.entry = 0
    BY <1>0, <2>5 DEF Walks
  <2>7. Passed'
    BY <1>0, <1>2, <1>3, <2>3, <2>6 DEF Passed
  <2>8. Matching'
    BY <2>6 DEF Matching
  <2> QED
    BY <2>5, <2>7, <2>8, Elsewhere DEF SearchInv, Volume, Searching, Looping, Reads,
       Fatting, ErrorMeans
<1> QED
  BY <1>5, <1>6, <1>7

LEMMA FileSearch ==
  ASSUME Search, ReadFile1 \/ ReadFile2 \/ ReadFile3
  PROVE  SearchInv'
<1>1. CASE ReadFile1 \/ ReadFile2
  <2>1. state' \in {"READ_FILE2", "READ_FILE3"}
    BY <1>1 DEF ReadFile1, ReadFile2, Request, Enter
  <2> QED
    BY <2>1, Elsewhere
<1>2. CASE ReadFile3
  <2>1. \/ state' \in {"READ_FILE2", "READ_FILE3", "IDLE"}
        \/ state' = "READ_FAT1" /\ cur'.back = "READ_FILE1"
    <3> DEFINE more == cur.cluster < SectorLen * vol.spc - 1
    <3>1. Falls /\ more => state' = "READ_FILE2"
      BY <1>2 DEF ReadFile3, Enter
    <3>2. ~Falls => state' \in {"READ_FILE3", "IDLE"}
      BY <1>2 DEF ReadFile3, Enter
    <3>3. Falls /\ ~more => state' = "READ_FAT1" /\ cur'.back = "READ_FILE1"
      BY <1>2 DEF ReadFile3, Enter, Search, Cycle, Types, LoaderTypes, Walks
    <3> QED
      BY <3>1, <3>2, <3>3
  <2> QED
    BY <2>1, Elsewhere DEF SearchInv, Volume, Searching, Looping, Reads, Fatting,
       ErrorMeans
<1> QED
  BY <1>1, <1>2

LEMMA RestSearch ==
  ASSUME Search, Rest
  PROVE  SearchInv'
<1>1. \/ state' \in {"IDLE", "INIT"}
      \/ state = "ERROR" /\ state' = "ERROR" /\ UNCHANGED <<error_i, disk>>
  BY DEF Rest, Enter, Search
<1>2. CASE state = "ERROR" /\ state' = "ERROR" /\ UNCHANGED <<error_i, disk>>
  <2>1. ErrorMeans'
    BY <1>2, DiskSame DEF ErrorMeans, Search, SearchInv
  <2> QED
    BY <1>2, <2>1, Elsewhere DEF SearchInv, Volume, Searching, Looping, Reads, Fatting
<1> QED
  BY <1>1, <1>2, Elsewhere

(* A step that leaves the walk, the memory and the card alone.             *)
SearchVars == <<state, return_state, error_i, block_addr, vol, cur, disk>>

LEMMA SearchSame ==
  ASSUME SearchInv, UNCHANGED SearchVars
  PROVE  SearchInv'
<1>1. \A s \in {"FAT_CHECK", "CHECK_PARTITION", "COMPARE1", "READ_FAT2"} : Reads(s)' = Reads(s)
  BY DEF Reads, SearchVars
<1>2. Sound' /\ (Partition' <=> Partition) /\ (Geometry' <=> Geometry)
  BY DiskSame DEF SearchVars, SearchInv, Partition, Geometry
<1>3. Volume'
  BY <1>1, <1>2 DEF SearchVars, SearchInv, Volume
<1>4. (Passed' <=> Passed) /\ (Matching' <=> Matching) /\ (SearchBegins' <=> SearchBegins)
  BY <1>2, DiskSame DEF SearchVars, Passed, Matching, SearchBegins
<1>5. Searching'
  BY <1>1, <1>4 DEF SearchVars, SearchInv, Searching
<1>6. Looping'
  BY <1>1, <1>2 DEF SearchVars, SearchInv, Looping, Fatting
<1>7. ErrorMeans'
  BY DiskSame DEF SearchVars, SearchInv, ErrorMeans
<1> QED
  BY <1>2, <1>3, <1>5, <1>6, <1>7 DEF SearchInv

LEMMA InitSearch == Init /\ Sound => SearchInv
BY DEF Init, SearchInv, Volume, Searching, Looping, Reads, Fatting, ErrorMeans

LEMMA NextSearch ==
  NoReadErrors => (Types /\ SectorInv /\ SearchInv /\ [Next]_vars => SearchInv')
<1> SUFFICES ASSUME NoReadErrors, Types, SectorInv, SearchInv, [Next]_vars PROVE SearchInv'
  OBVIOUS
<1>1. CASE Works \/ Waits
  <2>1. Search /\ Loader
    BY <1>1, NextTypes DEF Works, Waits, Controller, Cycle, Search, Loader
  <2> QED
    BY <2>1, StartSearch, ReadSearch, VolumeSearch, PartitionSearch,
       DirectorySearch, CompareSearch, FatSearch, FileSearch, RestSearch DEF Loader
<1>2. CASE BoardReset
  <2>1. state' = "IDLE" /\ disk' = disk
    BY <1>2 DEF BoardReset
  <2> QED
    BY <2>1, DiskSame DEF SearchInv, Volume, Searching, Looping, Reads, Fatting,
       ErrorMeans
<1>3. CASE NextStep \/ UNCHANGED vars
  <2>1. UNCHANGED SearchVars
    BY <1>3 DEF NextStep, vars, fsmVars, memVars, SearchVars
  <2> QED
    BY <2>1, SearchSame
<1> QED
  BY <1>1, <1>2, <1>3 DEF Next

LEMMA SearchHolds == NoReadErrors => (Spec /\ Sound => []SearchInv)
<1> SUFFICES ASSUME NoReadErrors PROVE Spec /\ Sound => []SearchInv
  OBVIOUS
<1>1. Types /\ SectorInv /\ SearchInv /\ [Next]_vars => SearchInv'
  BY NextSearch
<1> QED
  BY <1>1, InitSearch, TypesHold, SectorsHold, PTL DEF Spec

(* When the loader stops with an error, the code it shows says what is     *)
(* wrong: no boot signature, another partition type, no FAT32 file system  *)
(* in the partition, or no file of that name; for every sound card.        *)
THEOREM ErrorsTell == NoReadErrors => (Spec /\ Sound => []ErrorMeans)
<1> SUFFICES ASSUME NoReadErrors PROVE Spec /\ Sound => []ErrorMeans
  OBVIOUS
<1>1. SearchInv => ErrorMeans
  BY DEF SearchInv
<1> QED
  BY <1>1, SearchHolds, PTL

-----------------------------------------------------------------------------
(* The copy of the file.                                                   *)

InFile == state \in FileStates \/ (Fatting /\ cur.back = "READ_FILE1")

(* The RAM holds what was read, the last unit perhaps on its way.          *)
Kept ==
  \A k \in 0 .. Copied - 1 :
    IF ram_wr /\ k = Copied - 1
      THEN ram_d = UnitAt(k)
      ELSE ram[(FileAddr + 1 + k) % RamSize] = UnitAt(k)

Tally ==
  /\ Geometry /\ Found /\ cur.size <= File.size /\ cur.ram = FileAddr + Copied
  /\ ram_wr /\ Copied > 0 => state = "READ_FILE3"
  /\ Kept

(* What has gone of the sector on its way, and where it stands in the file.*)
Gone == IF state = "READ_FILE2" THEN 0 ELSE IF phase = "ready" THEN SectorLen ELSE Taken
InSector ==
  \E j \in Nat, n \in 0 .. disk.spc - 1 :
    /\ Copied = j * Span + n * SectorLen + Gone /\ cur.cluster = n * SectorLen + Gone
    /\ cur.current = ClusterOf(j) /\ block_addr = SectorAt(j, n)
AtCluster ==
  \E j \in Nat : Copied = j * Span /\ (cur.size > 0 => cur.next = ClusterOf(j))
PastCluster ==
  \E j \in Nat :
    /\ Copied = (j + 1) * Span /\ cur.current = ClusterOf(j)
    /\ Reads("READ_FAT2") => block_addr = FatStart + cur.current \div SectorLen

Copying ==
  InFile =>
    /\ Tally
    /\ state = "READ_FILE1" => AtCluster
    /\ state \in {"READ_FILE2", "READ_FILE3"} /\ cur.size > 0 => InSector
    /\ state = "READ_FILE3" /\ cur.size = 0 => busy_os
    /\ Fatting => cur.size > 0 /\ PastCluster

(* A cycle of the copy.                                                    *)
Copy == Search /\ Loader /\ Copying /\ RamWrite

LEMMA CopyFacts ==
  ASSUME Copy, InFile
  PROVE  /\ OnCard /\ Geometry /\ Found /\ Tally /\ File.size \in Nat /\ File.size <= RamSize
         /\ cur \in Walks /\ cur.size \in Nat /\ cur.ram \in Nat
         /\ Copied \in 0 .. File.size /\ Copied = File.size - cur.size
<1>1. disk \in Disks /\ cur \in Walks /\ cur.size \in Nat /\ cur.ram \in Nat
  BY DEF Copy, Search, Cycle, Types, LoaderTypes, Walks
<1>2. Tally /\ Geometry /\ Found /\ cur.size <= File.size
  BY DEF Copy, Copying, Tally
<1>3. OnCard /\ File.size <= RamSize
  BY <1>1, <1>2 DEF OnCard, Geometry, Copy, Search, SearchInv, Sound, FileOnCard
<1>4. File.size \in Nat
  BY <1>1, <1>2, FileFields
<1>5. Copied \in 0 .. File.size /\ Copied = File.size - cur.size
  BY <1>1, <1>2, <1>4 DEF Copied
<1> QED
  BY <1>1, <1>2, <1>3, <1>4, <1>5

(* A place in the RAM, counted from one that has wrapped already.          *)
LEMMA Shifted ==
  ASSUME NEW x \in Nat, NEW y \in Nat, NEW n \in Nat \ {0}
  PROVE  ((x % n) + y) % n = (x + y) % n
<1> DEFINE r == x % n
           q == x \div n
           p == (r + y) \div n
           t == (r + y) % n
<1>1. q \in Nat /\ r \in 0 .. n - 1 /\ x = n * q + r
  BY Division
<1>2. r + y \in Nat
  <2> HIDE DEF r, q
  <2> QED
    BY <1>1
<1>3. p \in Nat /\ t \in 0 .. n - 1 /\ r + y = n * p + t
  <2> HIDE DEF r
  <2> QED
    BY <1>2, Division
<1> HIDE DEF r, q, p, t
<1>4. x + y = (q + p) * n + t /\ q + p \in Int
  BY <1>1, <1>3
<1>5. (x + y) % n = t
  BY <1>3, <1>4, DivMod
<1> QED
  BY <1>5 DEF r, t

(* After the RAM's write of a cycle all that was read is in the RAM.       *)
LEMMA KeptWritten ==
  ASSUME Copy, InFile, NEW k \in 0 .. Copied - 1
  PROVE  ram'[(FileAddr + 1 + k) % RamSize] = UnitAt(k)
<1> DEFINE a == FileAddr + 1 + k
           b == FileAddr + Copied
<1>1. /\ Copied \in Nat /\ Copied <= RamSize /\ RamSize \in Nat \ {0} /\ FileAddr \in Nat
      /\ cur.ram = b /\ Kept /\ k \in Nat
  BY CopyFacts, Limits DEF Tally
<1>2. a \in Nat /\ b \in Nat
  BY <1>1
<1>3. a % RamSize \in 0 .. RamSize - 1 /\ b % RamSize \in 0 .. RamSize - 1
  <2> HIDE DEF a, b
  <2>1. a \in Int /\ b \in Int
    BY <1>2
  <2> QED
    BY <1>1, <2>1, Remainder
<1>4. ram_wr \in BOOLEAN /\ ram \in [0 .. RamSize - 1 -> Int \X Int]
  BY DEF Copy, Search, Cycle, Types, RamTypes
<1>5. CASE ~ram_wr
  BY <1>1, <1>5 DEF Kept, Copy, RamWrite
<1>6. CASE ram_wr /\ k = Copied - 1
  <2>1. a = b
    BY <1>1, <1>6
  <2>2. ram_d = UnitAt(k) /\ ram' = [ram EXCEPT ![b % RamSize] = ram_d]
    BY <1>1, <1>6 DEF Kept, Copy, RamWrite
  <2> HIDE DEF a, b
  <2>3. ram'[a % RamSize] = ram_d
    BY <1>3, <1>4, <2>1, <2>2
  <2> QED
    BY <2>2, <2>3 DEF a
<1>7. CASE ram_wr /\ k # Copied - 1
  <2>1. a < b /\ b - a < RamSize
    BY <1>1, <1>7
  <2>2. ram[a % RamSize] = UnitAt(k) /\ ram' = [ram EXCEPT ![b % RamSize] = ram_d]
    BY <1>1, <1>7 DEF Kept, Copy, RamWrite
  <2> HIDE DEF a, b
  <2>3. a % RamSize # b % RamSize
    BY <1>1, <1>2, <2>1, OwnRemainder
  <2>4. ram'[a % RamSize] = ram[a % RamSize]
    BY <1>3, <1>4, <2>2, <2>3
  <2> QED
    BY <2>2, <2>4 DEF a
<1> QED
  BY <1>4, <1>5, <1>6, <1>7

(* The tally after a cycle that copies nothing, and after one that does.   *)
LEMMA TallyStays ==
  ASSUME Copy, InFile, UNCHANGED vol, cur'.size = cur.size, cur'.ram = cur.ram,
         ~ram_wr' \/ (state # "READ_FILE3" /\ ram_wr' = ram_wr)
  PROVE  Tally'
<1>1. /\ Copied' = Copied /\ (\A k : UnitAt(k)' = UnitAt(k)) /\ File' = File
      /\ (Geometry => Geometry') /\ (Found => Found')
  BY DiskSame DEF Copy, Search, Copied, Geometry, Partition
<1>2. ram_wr' \in BOOLEAN /\ ram_wr \in BOOLEAN
  BY DEF Copy, Search, Cycle, Types, RamTypes
<1>3. Geometry /\ Found /\ Tally /\ Copied \in Nat
  BY CopyFacts
<1>4. ram_wr' => ~(Copied > 0)
  BY <1>2, <1>3 DEF Tally
<1>5. Kept'
  <2> SUFFICES ASSUME NEW k \in 0 .. Copied - 1
               PROVE  IF ram_wr' /\ k = Copied - 1
                        THEN ram_d' = UnitAt(k)
                        ELSE ram'[(FileAddr + 1 + k) % RamSize] = UnitAt(k)
    BY <1>1 DEF Kept
  <2>1. ~ram_wr'
    BY <1>3, <1>4
  <2> QED
    BY <2>1, KeptWritten
<1> QED
  BY <1>1, <1>3, <1>4, <1>5 DEF Tally

LEMMA TallyNext ==
  ASSUME Copy, InFile, UNCHANGED vol, cur.size > 0, cur'.size = cur.size - 1,
         cur'.ram = cur.ram + 1, ram_wr', ram_d' = UnitAt(Copied), state' = "READ_FILE3"
  PROVE  Tally' /\ Copied' = Copied + 1
<1>1. /\ (\A k : UnitAt(k)' = UnitAt(k)) /\ File' = File
      /\ (Geometry => Geometry') /\ (Found => Found')
  BY DiskSame DEF Copy, Search, Geometry, Partition
<1>2. /\ Geometry /\ Found /\ Tally /\ Copied \in Nat /\ File.size \in Nat /\ cur.size \in Nat
      /\ Copied = File.size - cur.size /\ FileAddr \in Nat
  BY CopyFacts, Limits
<1>3. Copied' = Copied + 1
  BY <1>1, <1>2 DEF Copied
<1>4. Kept'
  <2> SUFFICES ASSUME NEW k \in 0 .. Copied
               PROVE  IF k = Copied THEN ram_d' = UnitAt(k)
                                    ELSE ram'[(FileAddr + 1 + k) % RamSize] = UnitAt(k)
    <3>1. 0 .. Copied' - 1 = 0 .. Copied /\ Copied' - 1 = Copied
      BY <1>2, <1>3
    <3> QED
      BY <1>1, <3>1 DEF Kept
  <2>1. k = Copied \/ k \in 0 .. Copied - 1
    BY <1>2
  <2> QED
    BY <2>1, KeptWritten
<1>5. cur'.size <= File.size /\ cur'.ram = FileAddr + Copied'
  BY <1>2, <1>3 DEF Tally
<1> QED
  BY <1>1, <1>2, <1>3, <1>4, <1>5 DEF Tally

(* The directory entry found: the copy begins with the file's first cluster.*)
LEMMA CompareCopies ==
  ASSUME Copy, Compare1
  PROVE  Copying'
<1> DEFINE e == Mem(cur.sector)
           n == cur.entry + 1
           here == disk.dir[cur.sector + 1]
<1>0. state = "COMPARE1" /\ cur \in Walks /\ UNCHANGED <<disk, vol>>
  BY DEF Compare1, Decode, Copy, Search, Cycle, Types, LoaderTypes
<1> SUFFICES ASSUME state' = "READ_FILE1" PROVE Copying'
  BY <1>0 DEF Compare1, Enter, Error, Copying, InFile, FileStates, Fatting, Reads
<1>1. /\ OnCard /\ Geometry /\ cur.sector \in 0 .. Last /\ cur.entry \in 0 .. Len(FileName) - 1
      /\ \A k \in 1 .. cur.sector : k <= Len(disk.dir) /\ k \notin Matches
      /\ cur.sector <= Len(disk.dir) /\ Len(disk.dir) \in Nat
      /\ cur.sector + 1 <= Len(disk.dir) =>
           /\ e.name = here.name /\ e.size = here.size /\ e.cluster = here.cluster
           /\ here.name[1] # 0 /\ here.name \in Seq(Nat) /\ Len(here.name) = Len(FileName)
      /\ cur.sector = Len(disk.dir) => e.name[1] = 0
  BY <1>0, Compared DEF Copy
<1> HIDE DEF e
<1>2. /\ e.name[1] # 0 /\ e.name[n] = FileName[n] /\ n = Len(FileName) /\ UNCHANGED ramVars
      /\ cur' = [cur EXCEPT !.size = e.size, !.next = e.cluster, !.ram = FileAddr]
  BY <1>0 DEF Compare1, Decode, Enter, Error, e
<1>3. cur.sector + 1 \in 1 .. Len(disk.dir)
  <2>1. cur.sector # Len(disk.dir)
    BY <1>1, <1>2
  <2>2. cur.sector \in Nat /\ cur.sector <= Len(disk.dir) /\ Len(disk.dir) \in Nat
    BY <1>1, Limits
  <2> QED
    BY <2>1, <2>2
<1>4. here.name = FileName
  <2>1. here.name \in Seq(Nat) /\ Len(here.name) = Len(FileName) /\ FileName \in Seq(Nat)
    BY <1>1, <1>3, Limits
  <2>2. ASSUME NEW m \in 1 .. Len(FileName) PROVE here.name[m] = FileName[m]
    <3>1. CASE m = n
      BY <1>1, <1>2, <1>3, <3>1
    <3>2. CASE m # n
      <4>1. m \in 1 .. cur.entry /\ cur.entry > 0
        <5>1. cur.entry + 1 = Len(FileName) /\ cur.entry \in 0 .. Len(FileName) - 1
          BY <1>1, <1>2
        <5> QED
          BY <3>2, <5>1, Limits
      <4> QED
        BY <1>0, <4>1 DEF Copy, Search, SearchInv, Searching, Matching
    <3> QED
      BY <3>1, <3>2
  <2> HIDE DEF here
  <2> QED
    BY <2>1, <2>2, SeqEqual
<1>5. cur.sector + 1 \in Matches /\ \A k \in Matches : cur.sector + 1 <= k
  <2>1. cur.sector + 1 \in Matches
    BY <1>3, <1>4 DEF Matches
  <2>2. ASSUME NEW k \in Matches, ~(cur.sector + 1 <= k) PROVE FALSE
    <3>1. k \in 1 .. cur.sector
      BY <1>1, <2>2, Limits DEF Matches
    <3> QED
      BY <1>1, <3>1
  <2> QED
    BY <2>1, <2>2
<1>6. Found /\ File = here /\ File.size \in Nat
  BY <1>1, <1>5, FileEntry, FileFields DEF OnCard
<1>7. /\ cur'.size = File.size /\ cur'.next = File.cluster /\ cur'.ram = FileAddr
  BY <1>0, <1>1, <1>2, <1>3, <1>6 DEF Walks
<1>8. /\ File' = File /\ Copied' = 0 /\ Found' /\ Geometry' /\ (\A j : ClusterOf(j)' = ClusterOf(j))
      /\ Span' = Span
  BY <1>0, <1>1, <1>6, <1>7, DiskSame DEF Copied, Geometry, Partition
<1>9. Tally'
  BY <1>6, <1>7, <1>8, Limits DEF Tally, Kept
<1>10. AtCluster'
  <2>1. Span \in Nat
    BY <1>1, VolumeFacts
  <2>2. 0 * Span = 0
    BY ONLY <2>1
  <2>3. ClusterOf(0) = File.cluster
    BY <1>1, <1>6, ClusterStep DEF ClusterOf
  <2> QED
    BY <1>7, <1>8, <2>2, <2>3 DEF AtCluster
<1> QED
  BY <1>9, <1>10 DEF Copying, Fatting, Reads

LEMMA ReadCopies ==
  ASSUME Copy, ReadBlock1 \/ ReadBlock2
  PROVE  Copying'
<1>1. /\ state \in {"READ_BLOCK1", "READ_BLOCK2"}
      /\ state' \in {"READ_BLOCK1", "READ_BLOCK2"} \/ state' = return_state
      /\ UNCHANGED <<return_state, block_addr, vol, cur, disk, ram_wr>>
  BY DEF ReadBlock1, ReadBlock2, Request, Enter, Copy, Search, ramVars
<1>2. return_state \in {"INIT", "FAT_CHECK", "CHECK_PARTITION", "COMPARE1", "READ_FAT2"}
  BY DEF Copy, Search, Cycle, Types, LoaderTypes, FsmTypes
<1>3. /\ state' \notin FileStates /\ state' # "READ_FAT1"
      /\ (Reads("READ_FAT2")' => Reads("READ_FAT2"))
  BY <1>1, <1>2 DEF Reads, FileStates
<1> SUFFICES ASSUME InFile' PROVE Tally' /\ cur'.size > 0 /\ PastCluster'
  BY <1>3 DEF Copying, FileStates
<1>4. InFile /\ Fatting /\ Reads("READ_FAT2")
  BY <1>1, <1>3 DEF InFile, Fatting
<1>5. cur.size > 0 /\ PastCluster
  BY <1>4 DEF Copy, Copying
<1>6. Tally'
  BY <1>1, <1>4, TallyStays
<1>7. PastCluster'
  <2>1. /\ Copied' = Copied /\ Span' = Span /\ FatStart' = FatStart
        /\ \A j : ClusterOf(j)' = ClusterOf(j)
    BY <1>1, DiskSame DEF Copied
  <2> QED
    BY <1>1, <1>4, <1>5, <2>1 DEF PastCluster
<1> QED
  BY <1>1, <1>5, <1>6, <1>7

LEMMA FatCopies ==
  ASSUME Copy, ReadFat1 \/ ReadFat2
  PROVE  Copying'
<1>0. /\ cur \in Walks /\ UNCHANGED <<vol, disk, ram_wr>>
      /\ state \in {"READ_FAT1", "READ_FAT2"} /\ Fatting
      /\ cur'.back = cur.back /\ cur'.current = cur.current /\ cur'.size = cur.size
      /\ cur'.ram = cur.ram
  BY DEF ReadFat1, ReadFat2, Decode, ramVars, Fatting, Reads, Copy, Search, Cycle,
     Types, LoaderTypes, Walks
<1>1. ReadFat1 => state' = "READ_BLOCK1"
  BY DEF ReadFat1, Call
<1>2. ReadFat2 => state = "READ_FAT2" /\ state' = cur.back
  BY DEF ReadFat2, Decode, Enter
<1>3. cur.back # "READ_FILE1" => ~InFile'
  <2>1. cur.back \in {"INIT", "READ_DIR1", "READ_FILE1"}
    BY <1>0 DEF Walks
  <2> QED
    BY <1>0, <1>1, <1>2, <2>1 DEF InFile, FileStates, Fatting, Reads
<1> SUFFICES ASSUME cur.back = "READ_FILE1" PROVE Copying'
  BY <1>3 DEF Copying
<1>4. InFile /\ cur.size > 0 /\ PastCluster
  BY <1>0 DEF InFile, Copy, Copying
<1>5. Tally'
  BY <1>0, <1>4, TallyStays
<1>6. /\ Copied' = Copied /\ Span' = Span /\ FatStart' = FatStart
      /\ (\A j : ClusterOf(j)' = ClusterOf(j))
  BY <1>0, DiskSame DEF Copied
<1>7. PICK j \in Nat :
        /\ Copied = (j + 1) * Span /\ cur.current = ClusterOf(j)
        /\ Reads("READ_FAT2") => block_addr = FatStart + cur.current \div SectorLen
  BY <1>4 DEF PastCluster
<1>8. /\ OnCard /\ ClusterOf(j) \in DOMAIN disk.next /\ Found
  <2>1. /\ OnCard /\ Found /\ Copied < File.size /\ Span \in Nat \ {0} /\ File.size \in Nat
    BY <1>4, CopyFacts, VolumeFacts
  <2>2. (j + 1) * Span < File.size
    BY <1>7, <2>1
  <2>3. j * Span < File.size
    <3>1. Span * j <= Span * (j + 1) /\ Span * j \in Nat /\ Span * (j + 1) \in Nat
      BY <2>1, TimesLeq
    <3>2. Span * j = j * Span /\ Span * (j + 1) = (j + 1) * Span
      BY <2>1
    <3> QED
      BY <2>1, <2>2, <3>1, <3>2
  <2> QED
    BY <2>1, <2>2, <2>3, FileFacts
<1>9. /\ FatStart + cur.current \div SectorLen \in 0 .. AddrSpace - 1
      /\ Unit(<<FatStart + cur.current \div SectorLen, cur.current % SectorLen>>).next =
           disk.next[cur.current]
      /\ cur.current \in Nat
  BY <1>7, <1>8, FatUnits
<1>10. CASE ReadFat1
  <2>1. block_addr' = (vol.fat + cur.current \div SectorLen) % AddrSpace
    BY <1>10 DEF ReadFat1
  <2>2. vol.fat = FatStart
    BY <1>4, CopyFacts DEF Geometry
  <2>3. block_addr' = FatStart + cur.current \div SectorLen
    BY <1>9, <2>1, <2>2, SmallRemainder, Limits
  <2>4. PastCluster'
    BY <1>0, <1>6, <1>7, <2>3 DEF PastCluster
  <2> QED
    BY <1>0, <1>1, <1>4, <1>5, <1>10, <2>4 DEF Copying
<1>11. CASE ReadFat2
  <2>1. state = "READ_FAT2" /\ state' = "READ_FILE1"
    BY <1>2, <1>11
  <2>2. block_mem[cur.current % SectorLen] =
          <<FatStart + cur.current \div SectorLen, cur.current % SectorLen>>
    <3>1. block_addr = FatStart + cur.current \div SectorLen
      BY <1>7, <2>1 DEF Reads
    <3>2. cur.current % SectorLen \in 0 .. Last
      BY <1>9, Division, Limits
    <3> QED
      BY <2>1, <3>1, <3>2 DEF Copy, Search, Cycle, SectorInv, WholeSector
  <2>3. cur'.next = disk.next[ClusterOf(j)]
    BY <1>0, <1>7, <1>9, <1>11, <2>2 DEF ReadFat2, Mem, Walks
  <2>4. cur'.next = ClusterOf(j + 1)
    BY <2>3, ClusterStep DEF ClusterOf
  <2>5. AtCluster'
    <3>1. j + 1 \in Nat
      OBVIOUS
    <3> QED
      BY <1>0, <1>6, <1>7, <2>4, <3>1 DEF AtCluster
  <2> QED
    BY <1>5, <2>1, <2>5 DEF Copying, Fatting, Reads
<1> QED
  BY <1>10, <1>11

LEMMA ClusterCopies ==
  ASSUME Copy, ReadFile1
  PROVE  Copying'
<1>0. /\ cur \in Walks /\ UNCHANGED <<vol, disk, ram_wr>> /\ state = "READ_FILE1"
      /\ state' = "READ_FILE2" /\ block_addr' = ClusterStart(cur.next)
      /\ cur' = [cur EXCEPT !.current = cur.next, !.cluster = 0]
  BY DEF ReadFile1, Decode, Enter, ramVars, Copy, Search, Cycle, Types, LoaderTypes
<1>1. /\ cur'.current = cur.next /\ cur'.cluster = 0 /\ cur'.size = cur.size
      /\ cur'.ram = cur.ram
  BY <1>0 DEF Walks
<1>2. InFile /\ AtCluster
  BY <1>0 DEF InFile, FileStates, Copy, Copying
<1>3. Tally'
  BY <1>0, <1>1, <1>2, TallyStays
<1>4. ASSUME cur.size > 0 PROVE InSector'
  <2>1. PICK j \in Nat : Copied = j * Span /\ cur.next = ClusterOf(j)
    BY <1>2, <1>4 DEF AtCluster
  <2>2. /\ OnCard /\ Found /\ Copied < File.size /\ vol.data = DataStart /\ vol.spc = disk.spc
        /\ disk.spc \in Nat \ {0} /\ Copied \in Nat
    BY <1>2, <1>4, CopyFacts, VolumeFacts DEF Geometry
  <2>3. 0 \in 0 .. disk.spc - 1
    BY <2>2
  <2>4. SectorAt(j, 0) = DataStart + (ClusterOf(j) - 2) * disk.spc
        /\ SectorAt(j, 0) \in 0 .. AddrSpace - 1
    BY <2>1, <2>2, <2>3, FileFacts
  <2>5. block_addr' = SectorAt(j, 0)
    BY <1>0, <2>1, <2>2, <2>4, SmallRemainder, Limits DEF ClusterStart
  <2>6. /\ Copied' = Copied /\ Span' = Span /\ (\A i : ClusterOf(i)' = ClusterOf(i))
        /\ (\A i, n : SectorAt(i, n)' = SectorAt(i, n)) /\ Gone' = 0
    BY <1>0, <1>1, DiskSame DEF Copied, Gone
  <2>7. Copied = j * Span + 0 * SectorLen + 0 /\ 0 = 0 * SectorLen + 0
    BY <2>1, <2>2, VolumeFacts, Limits
  <2> QED
    BY <1>0, <1>1, <2>1, <2>3, <2>5, <2>6, <2>7 DEF InSector
<1> QED
  BY <1>0, <1>1, <1>3, <1>4 DEF Copying, Fatting, Reads

(* The walk and the count stay as they are from one state of a sector to   *)
(* the next.                                                               *)
LEMMA SectorStays ==
  ASSUME InSector, Gone' = Gone, UNCHANGED <<disk, block_addr>>, cur'.size = cur.size,
         cur'.cluster = cur.cluster, cur'.current = cur.current
  PROVE  InSector'
<1>1. /\ Copied' = Copied /\ Span' = Span /\ (\A i : ClusterOf(i)' = ClusterOf(i))
      /\ (\A i, n : SectorAt(i, n)' = SectorAt(i, n))
  BY DiskSame DEF Copied
<1> QED
  BY <1>1 DEF InSector

LEMMA RequestCopies ==
  ASSUME Copy, ReadFile2
  PROVE  Copying'
<1>0. /\ UNCHANGED <<vol, cur, disk, block_addr, ram_wr, hndShk_is>> /\ state = "READ_FILE2"
      /\ state' = IF Rises THEN "READ_FILE3" ELSE "READ_FILE2"
  BY DEF ReadFile2, Request, Enter, ramVars, Copy, Search
<1>1. InFile /\ (cur.size > 0 => InSector)
  BY <1>0 DEF InFile, FileStates, Copy, Copying
<1>2. Tally'
  BY <1>0, <1>1, TallyStays
<1>3. CASE ~Rises
  <2>1. Gone' = Gone
    BY <1>0, <1>3 DEF Gone
  <2>2. cur.size > 0 => InSector'
    BY <1>0, <1>1, <2>1, SectorStays
  <2> QED
    BY <1>0, <1>2, <1>3, <2>2 DEF Copying, Fatting, Reads
<1>4. CASE Rises
  <2>1. ~sd_reset /\ Accepted
    BY <1>0, <1>4 DEF Rises, Copy, Search, Cycle, SectorInv, Resets, Asking
  <2>2. phase' = "reading" /\ busy_os' /\ Taken' = 0
    BY <1>0, <2>1, AcceptedTaken DEF Copy, Search
  <2>3. Gone' = Gone
    BY <1>0, <1>4, <2>2 DEF Gone
  <2>4. cur.size > 0 => InSector'
    BY <1>0, <1>1, <2>3, SectorStays
  <2> QED
    BY <1>0, <1>2, <1>4, <2>2, <2>4 DEF Copying, Fatting, Reads
<1> QED
  BY <1>3, <1>4

(* READ_FILE3, while the sector passes: what has gone grows by the unit    *)
(* that is taken, and that unit is the next one of the sector.             *)
LEMMA SectorPasses ==
  ASSUME Copy, ReadFile3, ~Falls, cur.size # 0
  PROVE  /\ Exchange /\ state' = "READ_FILE3" /\ Owed \in {0, 1}
         /\ Gone' = Gone + Owed /\ Gone \in 0 .. SectorLen
         /\ Owed = 1 => data_os = <<block_addr, Gone>> /\ Gone \in 0 .. Last /\ busy_os'
<1>0. /\ state = "READ_FILE3" /\ left \in 0 .. SectorLen /\ SectorLen \in Nat \ {0}
      /\ Last = SectorLen - 1 /\ Owed \in {0, 1}
  BY Limits DEF ReadFile3, Copy, Search, Cycle, Types, PortTypes, Owed
<1>1. (Sending \/ Sent) /\ ~sd_reset
  BY <1>0 DEF Copy, Search, Cycle, SectorInv, Resets, Taking
<1>2. Exchange /\ state' = "READ_FILE3"
  BY <1>1 DEF ReadFile3, Enter, Exchange, Copy, Search, Cycle
<1>3. /\ Sending' \/ Sent'
      /\ Sending /\ Sending' => Taken' = Taken + Owed
      /\ Sending /\ Sent' => Taken = SectorLen /\ Owed = 0
      /\ Sent => Sent' /\ Owed = 0
  BY <1>1, <1>2, ExchangeKeeps DEF Copy, Search, Cycle
<1>4. /\ Sending => Gone = Taken /\ Taken \in 0 .. SectorLen
      /\ Sent => Gone = SectorLen
      /\ Sending' => Gone' = Taken'
      /\ Sent' => Gone' = SectorLen
  <2>1. Sending => Taken \in 0 .. SectorLen
    BY <1>0 DEF Sending, Taken
  <2> QED
    BY <1>0, <1>2, <2>1 DEF Gone, Sending, Sent
<1>5. Gone' = Gone + Owed /\ Gone \in 0 .. SectorLen
  BY <1>0, <1>1, <1>3, <1>4
<1>6. Owed = 1 => data_os = <<block_addr, Gone>> /\ Gone \in 0 .. Last /\ busy_os'
  <2> SUFFICES ASSUME Owed = 1
               PROVE  data_os = <<block_addr, Gone>> /\ Gone \in 0 .. Last /\ busy_os'
    OBVIOUS
  <2>1. Sending /\ Sending'
    BY <1>1, <1>3
  <2>2. Taken = Last - left /\ Taken \in 0 .. Last
    BY <1>0, <2>1 DEF Taken, Sending
  <2> QED
    BY <1>4, <2>1, <2>2 DEF data_os, Sending
<1> QED
  BY <1>0, <1>2, <1>5, <1>6

(* Whether the sector that has passed was the last of its cluster.         *)
LEMMA SectorsLeft ==
  ASSUME OnCard, NEW n \in 0 .. disk.spc - 1
  PROVE  /\ n * SectorLen + SectorLen = (n + 1) * SectorLen
         /\ n * SectorLen + SectorLen <= Span
         /\ n * SectorLen + SectorLen < Span - 1 <=> n # disk.spc - 1
         /\ n = disk.spc - 1 => n * SectorLen + SectorLen = Span
<1>1. /\ disk.spc \in Nat \ {0} /\ SectorLen \in Nat \ {0, 1} /\ Span = SectorLen * disk.spc
      /\ n \in Nat /\ n + 1 <= disk.spc
  BY VolumeFacts, Limits
<1>2. n * SectorLen + SectorLen = SectorLen * (n + 1) /\ SectorLen * (n + 1) = (n + 1) * SectorLen
  BY <1>1
<1>3. SectorLen * (n + 1) <= SectorLen * disk.spc
  <2>1. SectorLen \in Nat /\ n + 1 \in Int /\ disk.spc \in Int /\ n + 1 <= disk.spc
    BY <1>1
  <2> QED
    BY ONLY <2>1, TimesLeq
<1>4. n = disk.spc - 1 => SectorLen * (n + 1) = SectorLen * disk.spc
  BY <1>1
<1>5. n # disk.spc - 1 => SectorLen * (n + 1) <= SectorLen * disk.spc - SectorLen
  <2> SUFFICES ASSUME n # disk.spc - 1
               PROVE  SectorLen * (n + 1) <= SectorLen * disk.spc - SectorLen
    OBVIOUS
  <2>1. SectorLen \in Nat /\ n + 1 \in Int /\ disk.spc - 1 \in Int /\ n + 1 <= disk.spc - 1
    BY <1>1
  <2>2. SectorLen * (n + 1) <= SectorLen * (disk.spc - 1)
    BY ONLY <2>1, TimesLeq
  <2>3. SectorLen * (disk.spc - 1) = SectorLen * disk.spc - SectorLen
    BY <1>1
  <2> QED
    BY <2>2, <2>3
<1>6. SectorLen * (n + 1) \in Int /\ SectorLen * disk.spc \in Int
  BY <1>1
<1> QED
  BY <1>1, <1>2, <1>3, <1>4, <1>5, <1>6

(* READ_FILE3, when the sector has passed: the next one, or the FAT.       *)
LEMMA NextCopies ==
  ASSUME Copy, ReadFile3, Falls
  PROVE  Copying'
<1> DEFINE more == cur.cluster < SectorLen * vol.spc - 1
<1>0. /\ cur \in Walks /\ UNCHANGED <<vol, disk>> /\ state = "READ_FILE3"
      /\ InFile /\ phase \in {"ready", "reading"} /\ cur.size \in Nat
  BY DEF ReadFile3, Copy, Search, Cycle, Types, LoaderTypes, SectorInv, Taking,
     Sending, Sent, InFile, FileStates, Walks
<1>1. phase = "ready" /\ ~busy_os /\ ~(hndShk_os = 1 /\ hndShk_is = 0)
  BY <1>0 DEF Falls, Copy, Search, Cycle, SectorInv, Taking, Sending, Sent
<1>2. cur.size # 0 /\ cur.size > 0
  BY <1>0, <1>1 DEF Copy, Copying
<1>3. /\ ~ram_wr'
      /\ cur' = [cur EXCEPT !.ram = cur.ram, !.cluster = cur.cluster, !.size = cur.size,
                            !.back = IF ~more THEN "READ_FILE1" ELSE cur.back]
      /\ block_addr' = IF more THEN (block_addr + 1) % AddrSpace ELSE block_addr
      /\ state' = IF more THEN "READ_FILE2" ELSE "READ_FAT1"
  <2>1. ~ram_wr'
    BY <1>1 DEF ReadFile3
  <2>2. cur' = [cur EXCEPT !.ram = cur.ram, !.cluster = cur.cluster, !.size = cur.size,
                            !.back = IF ~more THEN "READ_FILE1" ELSE cur.back]
    BY <1>1 DEF ReadFile3
  <2>3. block_addr' = IF more THEN (block_addr + 1) % AddrSpace ELSE block_addr
    BY DEF ReadFile3
  <2>4. state' = IF more THEN "READ_FILE2" ELSE "READ_FAT1"
    BY DEF ReadFile3, Enter
  <2> QED
    BY <2>1, <2>2, <2>3, <2>4
<1> HIDE DEF more
<1>4. /\ cur'.ram = cur.ram /\ cur'.cluster = cur.cluster /\ cur'.size = cur.size
      /\ cur'.current = cur.current /\ (~more => cur'.back = "READ_FILE1")
  BY <1>0, <1>3 DEF Walks
<1>5. Tally'
  BY <1>0, <1>3, <1>4, TallyStays
<1>6. PICK j \in Nat, n \in 0 .. disk.spc - 1 :
        /\ Copied = j * Span + n * SectorLen + SectorLen
        /\ cur.cluster = n * SectorLen + SectorLen
        /\ cur.current = ClusterOf(j) /\ block_addr = SectorAt(j, n)
  <2>1. Gone = SectorLen
    BY <1>0, <1>1 DEF Gone
  <2> QED
    BY <1>0, <1>2, <2>1 DEF Copy, Copying, InSector
<1>7. /\ OnCard /\ Found /\ File.size \in Nat /\ vol.spc = disk.spc /\ disk.spc \in Nat \ {0}
      /\ SectorLen \in Nat \ {0} /\ Span \in Nat \ {0} /\ Span = SectorLen * disk.spc
      /\ Copied < File.size /\ Copied \in Nat
  <2>1. /\ OnCard /\ Geometry /\ Found /\ File.size \in Nat
        /\ Copied \in 0 .. File.size /\ Copied = File.size - cur.size /\ cur.size \in Nat
    BY <1>0, CopyFacts
  <2>2. vol.spc = disk.spc
    BY <2>1 DEF Geometry
  <2>3. disk.spc \in Nat \ {0} /\ Span \in Nat \ {0} /\ Span = SectorLen * disk.spc
    BY <2>1, VolumeFacts
  <2>4. SectorLen \in Nat \ {0}
    BY Limits
  <2>5. Copied < File.size /\ Copied \in Nat
    BY <1>2, <2>1
  <2> QED
    BY <2>1, <2>2, <2>3, <2>4, <2>5
<1>8. /\ Copied' = Copied /\ Span' = Span /\ (\A i : ClusterOf(i)' = ClusterOf(i))
      /\ (\A i, k : SectorAt(i, k)' = SectorAt(i, k))
  BY <1>0, <1>4, DiskSame DEF Copied
<1>9. /\ n * SectorLen + SectorLen = (n + 1) * SectorLen
      /\ n * SectorLen + SectorLen < Span - 1 <=> n # disk.spc - 1
      /\ n = disk.spc - 1 => n * SectorLen + SectorLen = Span
  BY <1>7, SectorsLeft
<1>10. more <=> n # disk.spc - 1
  BY <1>6, <1>7, <1>9 DEF more
<1>11. n \in Nat /\ j * Span \in Nat /\ n * SectorLen \in Nat /\ j * Span < File.size
  <2>1. n \in Nat /\ j * Span \in Nat /\ n * SectorLen \in Nat
    BY <1>7
  <2> QED
    BY <1>6, <1>7, <2>1
<1>12. CASE more
  <2>1. n + 1 \in 0 .. disk.spc - 1
    <3>1. n # disk.spc - 1
      BY <1>10, <1>12
    <3>2. disk.spc \in Nat \ {0}
      BY <1>7
    <3> QED
      BY <3>1, <3>2
  <2>2. block_addr' = SectorAt(j, n + 1)
    <3>1. SectorAt(j, n + 1) = block_addr + 1 /\ SectorAt(j, n + 1) \in 0 .. AddrSpace - 1
      BY <1>6, <1>7, <1>11, <2>1, FileFacts
    <3> QED
      BY <1>3, <1>12, <3>1, SmallRemainder, Limits
  <2>3. Gone' = 0
    BY <1>3, <1>12 DEF Gone
  <2>4. /\ Copied = j * Span + (n + 1) * SectorLen + 0
        /\ cur.cluster = (n + 1) * SectorLen + 0
    <3>1. (n + 1) * SectorLen \in Nat
      BY <1>7, <1>11
    <3>2. /\ Copied = j * Span + (n * SectorLen + SectorLen)
          /\ j * Span + (n + 1) * SectorLen + 0 = j * Span + (n + 1) * SectorLen
          /\ (n + 1) * SectorLen + 0 = (n + 1) * SectorLen
      <4> DEFINE a == j * Span
                 b == n * SectorLen
                 c == (n + 1) * SectorLen
      <4>1. Copied = a + b + SectorLen /\ a \in Nat /\ b \in Nat /\ c \in Nat /\ SectorLen \in Nat
        BY <1>6, <1>7, <1>11, <3>1
      <4> HIDE DEF a, b, c
      <4>2. Copied = a + (b + SectorLen) /\ a + c + 0 = a + c /\ c + 0 = c
        BY <4>1
      <4> QED
        BY <4>2 DEF a, b, c
    <3> QED
      BY <1>6, <1>9, <3>2
  <2>5. InSector'
    BY <1>0, <1>4, <1>6, <1>8, <2>1, <2>2, <2>3, <2>4 DEF InSector
  <2> QED
    BY <1>3, <1>5, <1>12, <2>5 DEF Copying, Fatting, Reads
<1>13. CASE ~more
  <2>1. Copied = (j + 1) * Span
    <3>1. (j + 1) * Span = j * Span + Span
      <4>1. Span \in Nat /\ j \in Nat
        BY <1>7
      <4> QED
        BY ONLY <4>1
    <3>2. n * SectorLen + SectorLen = Span
      BY <1>9, <1>10, <1>13
    <3> DEFINE a == j * Span
               b == n * SectorLen
    <3>3. Copied = a + b + SectorLen /\ a \in Nat /\ b \in Nat /\ SectorLen \in Nat
      BY <1>6, <1>7, <1>11
    <3>4. b + SectorLen = Span /\ (j + 1) * Span = a + Span
      BY <3>1, <3>2
    <3> HIDE DEF a, b
    <3> QED
      BY <3>3, <3>4
  <2>2. PastCluster'
    BY <1>3, <1>4, <1>6, <1>8, <1>13, <2>1 DEF PastCluster, Reads
  <2> QED
    BY <1>2, <1>3, <1>4, <1>5, <1>13, <2>2 DEF Copying, Fatting, Reads
<1> QED
  BY <1>12, <1>13

(* READ_FILE3, while the sector passes.                                    *)
LEMMA PassCopies ==
  ASSUME Copy, ReadFile3, ~Falls, cur.size # 0
  PROVE  Copying'
<1>0. /\ cur \in Walks /\ UNCHANGED <<vol, disk, block_addr>> /\ state = "READ_FILE3"
      /\ InFile /\ cur.size \in Nat /\ cur.size > 0 /\ cur.ram \in Nat
  BY DEF ReadFile3, Copy, Search, Cycle, Types, LoaderTypes, InFile, FileStates, Walks
<1>1. /\ state' = "READ_FILE3" /\ Owed \in {0, 1}
      /\ Gone' = Gone + Owed /\ Gone \in 0 .. SectorLen
      /\ Owed = 1 => data_os = <<block_addr, Gone>> /\ Gone \in 0 .. Last /\ busy_os'
  BY SectorPasses
<1>2. InSector
  BY <1>0 DEF Copy, Copying
<1>3. CASE Owed = 0
  <2>1. /\ ~ram_wr'
        /\ cur' = [cur EXCEPT !.ram = cur.ram, !.cluster = cur.cluster, !.size = cur.size,
                              !.back = cur.back]
    <3>1. ~(hndShk_os = 1 /\ hndShk_is = 0)
      BY <1>3 DEF Owed
    <3>2. ~ram_wr'
      BY <3>1 DEF ReadFile3
    <3>3. cur' = [cur EXCEPT !.ram = cur.ram, !.cluster = cur.cluster, !.size = cur.size,
                              !.back = cur.back]
      BY <3>1 DEF ReadFile3
    <3> QED
      BY <3>2, <3>3
  <2>2. /\ cur'.ram = cur.ram /\ cur'.cluster = cur.cluster /\ cur'.size = cur.size
        /\ cur'.current = cur.current
    BY <1>0, <2>1 DEF Walks
  <2>3. Tally'
    BY <1>0, <2>1, <2>2, TallyStays
  <2>4. Gone' = Gone
    BY <1>1, <1>3, Limits
  <2>5. InSector'
    BY <1>0, <1>2, <2>2, <2>4, SectorStays
  <2> QED
    BY <1>0, <1>1, <2>2, <2>3, <2>5 DEF Copying, Fatting, Reads
<1>4. CASE Owed = 1
  <2>1. /\ ram_wr' /\ ram_d' = data_os
        /\ cur' = [cur EXCEPT !.ram = cur.ram + 1, !.cluster = (cur.cluster + 1) % CountMod,
                              !.size = cur.size - 1, !.back = cur.back]
    <3>1. hndShk_os = 1 /\ hndShk_is = 0 /\ cur.size # 0
      BY <1>4 DEF Owed
    <3> QED
      BY <3>1 DEF ReadFile3
  <2>2. /\ cur'.ram = cur.ram + 1 /\ cur'.cluster = (cur.cluster + 1) % CountMod
        /\ cur'.size = cur.size - 1 /\ cur'.current = cur.current
    BY <1>0, <2>1 DEF Walks
  <2>3. PICK j \in Nat, n \in 0 .. disk.spc - 1 :
          /\ Copied = j * Span + n * SectorLen + Gone /\ cur.cluster = n * SectorLen + Gone
          /\ cur.current = ClusterOf(j) /\ block_addr = SectorAt(j, n)
    BY <1>2 DEF InSector
  <2>4. /\ OnCard /\ Span \in Nat \ {0} /\ SectorLen \in Nat \ {0} /\ CountMod \in Nat \ {0}
        /\ Span < CountMod /\ disk.spc \in Nat \ {0} /\ Last = SectorLen - 1
    BY <1>0, CopyFacts, VolumeFacts, Limits
  <2>5. ram_d' = UnitAt(Copied)
    BY <1>1, <1>4, <2>1, <2>3, <2>4, UnitPlace
  <2>6. Tally' /\ Copied' = Copied + 1
    BY <1>0, <1>1, <2>1, <2>2, <2>5, TallyNext
  <2>7. cur'.cluster = n * SectorLen + Gone' /\ Copied' = j * Span + n * SectorLen + Gone'
    <3>1. n * SectorLen \in Nat /\ j * Span \in Nat
      BY <2>4
    <3>2. n * SectorLen + SectorLen <= Span
      BY <2>4, SectorsLeft
    <3>3. cur.cluster + 1 \in 0 .. CountMod - 1
      BY <1>1, <1>4, <2>3, <2>4, <3>1, <3>2
    <3>4. cur'.cluster = cur.cluster + 1
      BY <2>2, <2>4, <3>3, SmallRemainder
    <3> QED
      BY <1>1, <1>4, <2>3, <2>4, <2>6, <3>1, <3>4
  <2>8. InSector'
    <3>1. /\ Span' = Span /\ (\A i : ClusterOf(i)' = ClusterOf(i))
          /\ (\A i, k : SectorAt(i, k)' = SectorAt(i, k))
      BY <1>0, DiskSame
    <3> QED
      BY <1>0, <2>2, <2>3, <2>7, <3>1 DEF InSector
  <2> QED
    BY <1>1, <1>4, <2>6, <2>8 DEF Copying, Fatting, Reads
<1> QED
  BY <1>1, <1>3, <1>4

LEMMA NoCopy ==
  ASSUME Copy, \/ StartLoad \/ FatCheck \/ PartitionType \/ CheckLba \/ CheckPartition
               \/ ReadDir1 \/ Rest
  PROVE  Copying'
<1>1. cur \in Walks
  BY DEF Copy, Search, Cycle, Types, LoaderTypes
<1>2. ASSUME ReadDir1 PROVE ~InFile'
  <2>1. \/ state' = "READ_BLOCK1" /\ return_state' = "COMPARE1"
        \/ state' = "READ_FAT1" /\ cur'.back = "READ_DIR1"
    BY <1>1, <1>2 DEF ReadDir1, Call, Enter, Walks
  <2> QED
    BY <2>1 DEF InFile, FileStates, Fatting, Reads
<1>3. ASSUME \/ StartLoad \/ FatCheck \/ PartitionType \/ CheckLba \/ CheckPartition \/ Rest
      PROVE  ~InFile'
  <2>1. \/ state' \in {"INIT", "IDLE", "PARTITION_TYPE", "CHECK_LBA", "READ_DIR1", "ERROR"}
        \/ state' = "READ_BLOCK1" /\ return_state' \in {"FAT_CHECK", "CHECK_PARTITION"}
    BY <1>3 DEF StartLoad, FatCheck, PartitionType, CheckLba, CheckPartition, Rest,
       Enter, Call, Error
  <2> QED
    BY <2>1 DEF InFile, FileStates, Fatting, Reads
<1> QED
  BY <1>2, <1>3 DEF Copying

LEMMA FileCopies ==
  ASSUME Copy, ReadFile3
  PROVE  Copying'
<1>1. CASE ~Falls /\ cur.size = 0
  <2>1. state' = "IDLE"
    BY <1>1 DEF ReadFile3, Enter
  <2> QED
    BY <2>1 DEF Copying, InFile, FileStates, Fatting, Reads
<1> QED
  BY <1>1, NextCopies, PassCopies

(* A step that leaves the copy alone.                                      *)
LEMMA CopySame ==
  ASSUME Copying, UNCHANGED <<fsmVars, hostVars, memVars, vol, cur, ramVars, ram, portVars, disk>>
  PROVE  Copying'
<1>1. /\ Copied' = Copied /\ Span' = Span /\ FatStart' = FatStart /\ File' = File
      /\ (Found' <=> Found) /\ (Geometry' <=> Geometry)
      /\ (\A i : ClusterOf(i)' = ClusterOf(i)) /\ (\A k : UnitAt(k)' = UnitAt(k))
      /\ (\A i, n : SectorAt(i, n)' = SectorAt(i, n))
  BY DiskSame DEF Copied, Geometry, Partition
<1>2. UNCHANGED <<state, return_state, block_addr, vol, cur, ram_d, ram_wr, ram, disk,
                  phase, busy_os, hndShk_os, hndShk_is, left>>
  BY DEF fsmVars, hostVars, memVars, ramVars, portVars
<1>3. Gone' = Gone /\ (Reads("READ_FAT2")' <=> Reads("READ_FAT2"))
  BY <1>2 DEF Gone, Taken, Owed, Reads
<1>4. (Fatting' <=> Fatting) /\ (InFile' <=> InFile)
  BY <1>2, <1>3 DEF Fatting, InFile
<1>5. Kept => Kept'
  BY <1>1, <1>2 DEF Kept
<1>6. Tally => Tally'
  BY <1>1, <1>2, <1>5 DEF Tally
<1>7. (AtCluster => AtCluster') /\ (InSector => InSector') /\ (PastCluster => PastCluster')
  <2>1. AtCluster => AtCluster'
    BY <1>1, <1>2 DEF AtCluster
  <2>2. InSector => InSector'
    BY <1>2, <1>3, SectorStays
  <2>3. PastCluster => PastCluster'
    BY <1>1, <1>2, <1>3 DEF PastCluster
  <2> QED
    BY <2>1, <2>2, <2>3
<1> QED
  BY <1>2, <1>4, <1>6, <1>7 DEF Copying

LEMMA InitCopies == Init => Copying
BY DEF Init, Copying, InFile, FileStates, Fatting, Reads

LEMMA NextCopying ==
  NoReadErrors => (Types /\ SectorInv /\ SearchInv /\ Copying /\ [Next]_vars => Copying')
<1> SUFFICES ASSUME NoReadErrors, Types, SectorInv, SearchInv, Copying, [Next]_vars
             PROVE  Copying'
  OBVIOUS
<1>1. CASE Works \/ Waits
  <2>1. Copy /\ Loader
    BY <1>1, NextTypes DEF Works, Waits, Controller, Cycle, Search, Copy, Loader
  <2> QED
    BY <2>1, NoCopy, ReadCopies, CompareCopies, FatCopies, ClusterCopies,
       RequestCopies, FileCopies DEF Loader
<1>2. CASE BoardReset
  <2>1. state' = "IDLE"
    BY <1>2 DEF BoardReset
  <2> QED
    BY <2>1 DEF Copying, InFile, FileStates, Fatting, Reads
<1>3. CASE NextStep \/ UNCHANGED vars
  <2>1. UNCHANGED <<fsmVars, hostVars, memVars, vol, cur, ramVars, ram, portVars, disk>>
    BY <1>3 DEF NextStep, vars
  <2> QED
    BY <2>1, CopySame
<1> QED
  BY <1>1, <1>2, <1>3 DEF Next

(* Whatever the length of the file and of its chain of clusters, the RAM   *)
(* holds it in order, as far as it was read; for every sound card.         *)
THEOREM FileCopied == NoReadErrors => (Spec /\ Sound => []FileInOrder)
<1> SUFFICES ASSUME NoReadErrors PROVE Spec /\ Sound => []FileInOrder
  OBVIOUS
<1>1. Types /\ SectorInv /\ SearchInv /\ Copying /\ [Next]_vars => Copying'
  BY NextCopying
<1>2. ASSUME Types, Copying, state \in FileStates
      PROVE  Found /\ \E start \in 0 .. RamSize - 1 : FileAt(start)
  <2>1. Found /\ Kept
    BY <1>2 DEF Copying, InFile, Tally
  <2> DEFINE start == (FileAddr + 1) % RamSize
  <2>2. start \in 0 .. RamSize - 1
    <3>1. FileAddr + 1 \in Int /\ RamSize \in Nat \ {0}
      BY Limits
    <3> QED
      BY <3>1, Remainder
  <2>3. ASSUME NEW k \in 0 .. Copied - 1
        PROVE  (start + k) % RamSize = (FileAddr + 1 + k) % RamSize
    <3>1. FileAddr + 1 \in Nat /\ RamSize \in Nat \ {0} /\ k \in Nat
      BY Limits
    <3> QED
      BY <3>1, Shifted
  <2> HIDE DEF start
  <2>4. FileAt(start)
    BY <2>1, <2>3 DEF FileAt, Kept, UnitAt
  <2> QED
    BY <2>1, <2>2, <2>4
<1>3. Types /\ Copying => FileInOrder
  BY <1>2 DEF FileInOrder
<1> QED
  BY <1>1, <1>3, InitCopies, SearchHolds, TypesHold, SectorsHold, PTL DEF Spec

=============================================================================
