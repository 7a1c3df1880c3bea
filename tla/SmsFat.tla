------------------------------- MODULE SmsFat -------------------------------
(***************************************************************************)
(* The FAT16/FAT32 driver of the SMS boot loader (bootloader/fat.c), on    *)
(* the sector driver as SectorPort describes it: a call loads the whole    *)
(* sector, or fails and leaves the buffer alone.                           *)
(*                                                                         *)
(* fat_buffer is a cache and holds the place its contents came from,       *)
(* <<card, sector>>; data_buffer is read only after a load into it has     *)
(* succeeded.  What the code finds in them is read off the card.  A WORD   *)
(* has Word values and a DWORD Word * Word, so that the masks and shifts   *)
(* of the code keep their meaning at a smaller scale.                      *)
(***************************************************************************)
EXTENDS Integers, Sequences, FiniteSets

CONSTANTS
    Cards,        \* what is on the cards that may be in the slot, by name
    Setups,       \* <<card, width>>: a card for the slot, and what the
                  \* build's load_dword makes of its operands, see below
    FailOn,       \* the loads that may fail
    Word,         \* 2^16 in the code
    SectorSpace,  \* sectors before the byte address wraps; 2^23
    FatWords,     \* WORDs in a FAT sector; 256
    DirEntries,   \* directory entries in a sector; 16
    DirSectors,   \* sectors fat_open_directory reads of a cluster; 8
    DirMax,       \* entries of directory_buffer that are cleared; 256
    DirRoom       \* entries up to the end of the memory behind it

ASSUME FatAssumption ==
    /\ Word \in Nat /\ Word >= 16
    /\ {SectorSpace, FatWords, DirEntries, DirSectors, DirMax} \subseteq Nat \ {0}
    /\ DirRoom \in Nat /\ DirRoom > DirMax
    /\ \A s \in Setups : s[1] \in DOMAIN Cards /\ s[2] \in {"full", "zero", "sign"}

VARIABLES
    vol,       \* the card in the slot, by name
    width,     \* the build's load_dword
    fat,       \* the fat_t at 0xc010
    fatBuf,    \* what fat_buffer holds
    dir,       \* directory_buffer and the memory behind it
    walk,      \* locals of the directory functions
    file       \* the file_t of load_rom

fatVars == <<vol, width, fat, fatBuf, dir, walk, file>>

Dword == Word * Word
Nowhere == <<>>
card == Cards[vol]

-----------------------------------------------------------------------------
(* The card, which is outside the repository.                              *)

FirstFat(v)  == v.start + v.reserved
FatSectors(v) == v.nfats * v.fatSize
PerSector(v) == IF v.fat32 THEN FatWords \div 2 ELSE FatWords

(* FAT cell i of sector s: 0 where there is no FAT or no cluster.          *)
Cell(v, s, i) ==
    LET c == (s - FirstFat(v)) * PerSector(v) + i
    IN  IF s >= FirstFat(v) /\ s < FirstFat(v) + v.fatSize /\ c \in DOMAIN v.chain
        THEN v.chain[c] ELSE 0

(* The directory entries of sector s; a sector of something else is taken  *)
(* for one that ends at once.                                              *)
EndEntry == [kind |-> "end", cluster |-> 0]
EntriesAt(v, s) ==
    IF s \in DOMAIN v.dirs THEN v.dirs[s] ELSE [i \in 1..DirEntries |-> EndEntry]

-----------------------------------------------------------------------------
(* sd_load_sector as SectorPort has it: it may fail if "FailOn" says so,   *)
(* and it fails where the card has no sector.  The byte address wraps.     *)

Wrap(s) == s % SectorSpace
Place(s) == <<vol, Wrap(s)>>

Outcome(s, what, ok) ==
    IF ok THEN Wrap(s) < card.size ELSE what \in FailOn \/ Wrap(s) >= card.size

(* Numbers in a sector.  With the 16-bit ints of the target's compiler the *)
(* shifts of load_dword lose the upper half, and the lower one is extended *)
(* with zeros or with its sign; "full" is what the text says.              *)
load_dword(x) ==
    LET low == x % Word
    IN  CASE width = "full" -> x % Dword
          [] width = "zero" -> low
          [] width = "sign" -> IF low >= Word \div 2 THEN Dword - Word + low ELSE low

load_word(x) == x % Word

-----------------------------------------------------------------------------
(* Mounting                                                                *)

(* fat_init after its two loads, on a sound boot sector.                   *)
fat_init32(f) ==
    [f EXCEPT !.firstData = (f.firstFat + card.nfats * load_dword(card.fatSize)) % Dword,
              !.root = load_dword(card.root)]

fat_init16(f) ==
    LET root == (f.firstFat + card.nfats * load_word(card.fatSize)) % Dword
        size == load_word(card.rootEntries) \div DirEntries
    IN  [f EXCEPT !.root = root, !.rootSize = size, !.firstData = (root + size) % Dword]

(* fat_init: the MBR, the partition's type, the boot sector.  What was set *)
(* before a check fails stays set, and current_fat_sector always does.     *)
fat_init(ok) ==
    \E mbr, boot \in BOOLEAN :
        LET start  == load_dword(card.start)
            known  == card.mbrsig /\ card.type \in {6, 11}
            typed  == [fat EXCEPT !.fat32 = (card.type = 11)]
            sound  == start = card.start /\ card.bootsig /\ card.bytes = 512
            based  == [typed EXCEPT !.spc = card.spc,
                                    !.firstFat = (start + load_word(card.reserved)) % Dword]
        IN  /\ Outcome(0, "mount", mbr)
            /\ Outcome(start, "mount", boot)
            /\ fat' = CASE mbr /\ known /\ boot /\ sound ->
                                IF typed.fat32 THEN fat_init32(based) ELSE fat_init16(based)
                        [] mbr /\ known /\ ~(boot /\ sound) -> typed
                        [] OTHER -> fat
            /\ ok = (mbr /\ known /\ boot /\ sound)

-----------------------------------------------------------------------------
(* The chain of clusters                                                   *)

first_sector_of_cluster(c) == (fat.firstData + (c - 2) * fat.spc) % Dword

\* Mutant: only the highest mark is known.
fat_is_last_clusterAllOnes(c) ==
    IF fat.fat32 THEN c = Dword - 1 ELSE c % Word = Word - 1

fat_is_last_cluster(c) ==
    IF fat.fat32 THEN c >= Dword - 8 ELSE c % Word >= Word - 8

\* Mutant: the number is noted before the load.
load_fat_sectorNotedFirst(s, ok) ==
    LET sector == (s + fat.firstFat) % Dword
    IN  IF fat.current = sector
        THEN ok /\ UNCHANGED <<fat, fatBuf>>
        ELSE /\ Outcome(sector, "fat", ok)
             /\ fat' = [fat EXCEPT !.current = sector]
             /\ fatBuf' = IF ok THEN Place(sector) ELSE fatBuf

(* load_fat_sector: the sector the cache holds is known by its number; it  *)
(* is noted after the load has succeeded.                                  *)
load_fat_sector(s, ok) ==
    LET sector == (s + fat.firstFat) % Dword
    IN  IF fat.current = sector
        THEN ok /\ UNCHANGED <<fat, fatBuf>>
        ELSE /\ Outcome(sector, "fat", ok)
             /\ IF ok
                THEN /\ fatBuf' = Place(sector)
                     /\ fat' = [fat EXCEPT !.current = sector]
                ELSE UNCHANGED <<fat, fatBuf>>

(* The value of fat_next_cluster, from the buffer the load has left; 0 if  *)
(* the load has failed.                                                    *)
CellInBuffer(buf, i) == IF buf = Nowhere THEN 0 ELSE Cell(Cards[buf[1]], buf[2], i)

FatEntries == IF fat.fat32 THEN FatWords \div 2 ELSE FatWords

fat_next_cluster(c, ok) ==
    LET cell == CellInBuffer(fatBuf', c % FatEntries)
    IN  IF ~ok THEN 0
        ELSE IF fat.fat32 THEN load_dword(cell) ELSE load_word(cell)

-----------------------------------------------------------------------------
(* Directories                                                             *)

NoEntry == [type |-> 0, cluster |-> 0]

(* The entries of a sector that are taken, by their numbers: those before  *)
(* the end, without deleted ones and those with one of the attributes      *)
(* read-only, system and volume label (long names have all three).         *)
Taken(entries) ==
    {k \in DOMAIN entries : /\ entries[k].kind \in {"dir", "file"}
                            /\ \A m \in 1..k : entries[m].kind # "end"}

(* fat_process_directory_entry: 0x01 for a directory, 0x11 for a file.     *)
Descr(e) ==
    [type    |-> IF e.kind = "dir" THEN 1 ELSE 17,
     cluster |-> IF fat.fat32 THEN e.cluster % Dword ELSE load_word(e.cluster)]

(* process_directory_sector: the entries it takes are stored behind those  *)
(* of the sectors before, and the end is marked.  No limit is looked at.   *)
Before(S, k) == Cardinality({m \in S : m < k})

Stored(d, ptr, entries) ==
    LET taken == Taken(entries)
    IN  [j \in DOMAIN d |->
            LET here == {k \in taken : ptr + Before(taken, k) = j}
            IN  IF here = {} THEN d[j] ELSE Descr(entries[CHOOSE k \in here : TRUE])]

\* Mutant: every sector starts at the front of the buffer.
NextPtrRestarted(ptr, entries) == Cardinality(Taken(entries))

NextPtr(ptr, entries) == ptr + Cardinality(Taken(entries))
EndsHere(entries) == \E k \in DOMAIN entries : entries[k].kind = "end"

MarkEnd(d, ptr) == [d EXCEPT ![ptr].type = 0]

(* clear_directory_buffer clears the types only.                           *)
clear_directory_buffer ==
    [j \in DOMAIN dir |-> IF j < DirMax THEN [dir[j] EXCEPT !.type = 0] ELSE dir[j]]

NoWalk == [chain |-> FALSE, cluster |-> 0, sector |-> 0, i |-> 0, ptr |-> 0]

(* fat_open_root_directory16 up to its loop; its counter is a UBYTE.       *)
open_root16 ==
    /\ walk' = [chain |-> FALSE, cluster |-> 0, sector |-> fat.root,
                i |-> fat.rootSize % 256, ptr |-> 0]
    /\ dir' = clear_directory_buffer
    /\ UNCHANGED <<vol, width, fat, fatBuf, file>>

(* fat_open_directory up to its loop.                                      *)
fat_open_directory(c) ==
    IF ~fat.fat32 /\ c = 0 THEN open_root16
    ELSE /\ walk' = [chain |-> TRUE, cluster |-> c, sector |-> first_sector_of_cluster(c),
                     i |-> DirSectors, ptr |-> 0]
         /\ dir' = clear_directory_buffer
         /\ UNCHANGED <<vol, width, fat, fatBuf, file>>

fat_open_root_directory ==
    IF fat.fat32 THEN fat_open_directory(fat.root) ELSE open_root16

(* One turn of either loop.  "how" is how the function returns, or "on".   *)
ReadDirSector(ok, fatOk, how) ==
    LET entries == EntriesAt(card, Wrap(walk.sector))
        ptr     == NextPtr(walk.ptr, entries)
        stored  == Stored(dir, walk.ptr, entries)
        last    == walk.i = 1
        next    == fat_next_cluster(walk.cluster, fatOk)
        lookUp  == ok /\ ~EndsHere(entries) /\ last /\ walk.chain
    IN  /\ Outcome(walk.sector, "dir", ok)
        /\ IF lookUp THEN load_fat_sector(walk.cluster \div FatEntries, fatOk)
           ELSE fatOk /\ UNCHANGED <<fat, fatBuf>>
        /\ how = CASE ~ok -> "error"
                   [] ok /\ EndsHere(entries) -> "listed"
                   [] ok /\ ~EndsHere(entries) /\ ~last -> "on"
                   [] lookUp -> IF next = 0 THEN "error"
                                ELSE IF fat_is_last_cluster(next) THEN "listed" ELSE "on"
                   [] OTHER -> "listed"
        /\ dir' = CASE ~ok -> dir
                    [] ok /\ how = "listed" -> MarkEnd(stored, ptr)
                    [] OTHER -> stored
        /\ walk' = IF how # "on" THEN NoWalk
                   ELSE IF ~last
                   THEN [walk EXCEPT !.sector = (@ + 1) % Dword, !.i = @ - 1, !.ptr = ptr]
                   ELSE [walk EXCEPT !.cluster = next, !.i = DirSectors, !.ptr = ptr,
                                     !.sector = first_sector_of_cluster(next)]
        /\ UNCHANGED <<vol, width, file>>

-----------------------------------------------------------------------------
(* Files                                                                   *)

NoFile == [cluster |-> 0, sector |-> 0]

fat_open_file(c) == file' = [cluster |-> c, sector |-> first_sector_of_cluster(c)]

(* file->sector++ comes with the load: the sector counts as read whether   *)
(* it was loaded or not.                                                   *)
CountedIfLoaded(sector, ok) == IF ok THEN (sector + 1) % Dword ELSE sector  \* mutant
Counted(sector, ok) == (sector + 1) % Dword

(* fat_load_file_sector: at the end of a cluster the next one is looked    *)
(* up, and followed whatever it is.                                        *)
AtClusterEnd == file.sector = first_sector_of_cluster((file.cluster + 1) % Dword)

fat_load_file_sector(fatOk, ok, value) ==
    LET next   == fat_next_cluster(file.cluster, fatOk)
        ended  == AtClusterEnd /\ fat_is_last_cluster(next)
        sector == IF AtClusterEnd THEN first_sector_of_cluster(next) ELSE file.sector
    IN  /\ IF AtClusterEnd
           THEN load_fat_sector(file.cluster \div FatEntries, fatOk)
           ELSE fatOk /\ UNCHANGED <<fat, fatBuf>>
        /\ IF ended THEN ok ELSE Outcome(sector, "data", ok)
        /\ file' = [cluster |-> IF AtClusterEnd THEN next ELSE file.cluster,
                    sector  |-> IF ended THEN file.sector ELSE Counted(sector, ok)]
        /\ value = IF ended THEN "eof" ELSE IF ok THEN "loaded" ELSE "error"
=============================================================================
