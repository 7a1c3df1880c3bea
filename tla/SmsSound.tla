------------------------------ MODULE SmsSound ------------------------------
(***************************************************************************)
(* Cards as the boot loader needs them: what its theorems suppose of the   *)
(* cards.  What a formatting program writes is like this as long as        *)
(* clusters have the eight sectors the loader takes those of a directory   *)
(* to have, directories fit directory_buffer and files the memory behind   *)
(* the mapper.  A card that cannot be mounted may hold anything.           *)
(***************************************************************************)
EXTENDS SmsBoot

(* load_dword as in SmsFat, for a width that is not the build's.           *)
Read32(w, x) ==
  IF w = "full" THEN x % Dword
  ELSE IF w = "sign" /\ x % Word >= Word \div 2 THEN Dword - Word + (x % Word)
  ELSE x % Word

(* What fat_next_cluster and fat_is_last_cluster make of a cell.           *)
ReadCell(v, w, x) == IF v.fat32 THEN Read32(w, x) ELSE x % Word
TakenForLast(v, x) == IF v.fat32 THEN x >= Dword - 8 ELSE x % Word >= Word - 8

Mountable(v, w) ==
  /\ v.mbrsig /\ v.type \in {6, 11}
  /\ Read32(w, v.start) = v.start /\ v.bootsig /\ v.bytes = 512

Geometry(v, w) ==
  /\ v.fat32 = (v.type = 11)
  /\ {v.start, v.reserved, v.nfats, v.fatSize, v.spc, v.size, v.root, v.rootEntries} \subseteq Nat
  /\ v.spc > 0 /\ PerSector(v) > 0 /\ IsFiniteSet(DOMAIN v.chain)
  /\ v.reserved < Word /\ v.rootEntries < Word
  /\ FirstFat(v) > 0 /\ FirstFat(v) + v.fatSize <= DataStart(v) /\ DataStart(v) <= v.size
  /\ v.size <= SectorSpace /\ v.size < Dword
  /\ IF v.fat32 THEN Read32(w, v.fatSize) = v.fatSize /\ Read32(w, v.root) = v.root
     ELSE v.fatSize < Word /\ v.rootEntries \div DirEntries \in 1 .. 255

SoundCluster(v, w, c) ==
  /\ c \in DOMAIN v.chain /\ c \in Nat /\ c >= 2 /\ c + 1 < Dword
  /\ c < v.fatSize * PerSector(v) /\ DataStart(v) + (c - 1) * v.spc <= v.size
  /\ v.chain[c] \in Nat
  /\ IF Marks(v, v.chain[c]) THEN TakenForLast(v, ReadCell(v, w, v.chain[c]))
     ELSE ReadCell(v, w, v.chain[c]) = v.chain[c]

EndsAt(v, c, n) ==
  /\ Marks(v, v.chain[Link(v, c, n)])
  /\ \A m \in 1 .. (n - 1) : ~Marks(v, v.chain[Link(v, c, m)])

SoundChain(v, w, c) ==
  \E n \in 1 .. Cardinality(DOMAIN v.chain) :
    EndsAt(v, c, n) /\ \A m \in 1 .. n : SoundCluster(v, w, Link(v, c, m))

InRoot16(v, c) == ~v.fat32 /\ c = 0

SoundDirectory(v, w, c) ==
  /\ InRoot16(v, c) \/ (SoundChain(v, w, c) /\ v.spc = DirSectors)
  /\ Cardinality(Listing(v, c)) \in 1 .. DirMax

SoundFile(v, w, c) ==
  SoundChain(v, w, c) /\ Len(SectorsOf(v, c)) <= Pages * PageSectors

SoundEntry(v, w, e) ==
  /\ e.kind \in {"dir", "file"} => e.cluster \in Nat /\ e.cluster < (IF v.fat32 THEN Dword ELSE Word)
  /\ e.kind = "dir" => SoundDirectory(v, w, e.cluster)
  /\ e.kind = "file" /\ e.cluster # 0 => SoundFile(v, w, e.cluster)

RootOf(v) == IF v.fat32 THEN v.root ELSE 0

SoundCard(v, w) ==
  Mountable(v, w) =>
    /\ Geometry(v, w)
    /\ SoundDirectory(v, w, RootOf(v))
    /\ \A s \in DOMAIN v.dirs :
         /\ DOMAIN v.dirs[s] = 1 .. DirEntries
         /\ \A i \in 1 .. DirEntries : SoundEntry(v, w, v.dirs[s][i])

SoundCards == \A s \in Setups : SoundCard(Cards[s[1]], s[2])

(* The cells of a FAT hold numbers, also those that no chain leads to.     *)
NumberedCards ==
  \A s \in Setups : \A c \in DOMAIN Cards[s[1]].chain : Cards[s[1]].chain[c] \in Nat
=============================================================================
