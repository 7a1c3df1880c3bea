---------------------------- MODULE SdFatProofs ----------------------------
(***************************************************************************)
(* Proofs about SdFat: its types, and the handshake with the controller:   *)
(* whatever the loader decodes is all of the sector it asked for.          *)
(***************************************************************************)
EXTENDS SdFat, TLAPS

-----------------------------------------------------------------------------
(* Types                                                                   *)

Volumes == [valid : BOOLEAN, lba : Nat, fat : Nat, data : Nat, spc : Nat]
Walks   == [next : Nat, current : Nat, sector : 0 .. Last, entry : 0 .. Len(FileName) - 1,
            cluster : 0 .. CountMod - 1, size : Nat, ram : Nat,
            back : {"INIT", "READ_DIR1", "READ_FILE1"}]
States  == {"INIT", "READ_BLOCK1", "READ_BLOCK2", "FAT_CHECK", "PARTITION_TYPE",
            "CHECK_LBA", "CHECK_PARTITION", "READ_DIR1", "COMPARE1", "READ_FAT1",
            "READ_FAT2", "IDLE", "ERROR", "READ_FILE1", "READ_FILE2", "READ_FILE3"}

FsmTypes ==
  /\ state \in States /\ error_i \in 0 .. 5
  /\ return_state \in {"INIT", "FAT_CHECK", "CHECK_PARTITION", "COMPARE1", "READ_FAT2"}
HostTypes ==
  /\ rd_is \in BOOLEAN /\ sd_reset \in BOOLEAN /\ hndShk_is \in {0, 1}
  /\ addr_is \in 0 .. AddrSpace - 1 /\ busy_os_r \in BOOLEAN
MemTypes ==
  /\ block_mem \in [0 .. Last -> Int \X Int]
  /\ counter \in 0 .. Last /\ block_addr \in 0 .. AddrSpace - 1
PortTypes ==
  /\ phase \in {"reset", "init", "ready", "reading", "writing", "failed"}
  /\ busy_os \in BOOLEAN /\ hndShk_os \in {0, 1}
  /\ left \in 0 .. SectorLen /\ addr \in 0 .. AddrSpace - 1 /\ timer \in 0 .. Divider
RamTypes ==
  /\ ram_d \in Int \X Int /\ ram_wr \in BOOLEAN
  /\ ram \in [0 .. RamSize - 1 -> Int \X Int]

LoaderTypes == FsmTypes /\ HostTypes /\ MemTypes /\ vol \in Volumes /\ cur \in Walks
Types       == LoaderTypes /\ PortTypes /\ RamTypes /\ disk \in Disks

(* What the assumptions on the constants say, in the forms used below.     *)
LEMMA Limits ==
  /\ SectorLen \in Nat \ {0} /\ AddrSpace \in Nat \ {0} /\ CountMod \in Nat \ {0}
  /\ RamSize \in Nat \ {0} /\ FileAddr \in Nat /\ Divider \in Nat
  /\ Last \in Nat \ {0} /\ Last = SectorLen - 1
  /\ FileName \in Seq(Nat) /\ Len(FileName) \in Nat \ {0}
BY FatAssumption DEF FatAssumption, Last

LEMMA Zeros ==
  0 \in 0 .. Last /\ 0 \in 0 .. Len(FileName) - 1 /\ 0 \in 0 .. CountMod - 1
BY Limits

LEMMA Remainder ==
  ASSUME NEW x \in Int, NEW m \in Nat \ {0}
  PROVE  x % m \in 0 .. m - 1
OBVIOUS

(* Quotient and remainder are the only ones.                               *)
LEMMA DivMod ==
  ASSUME NEW m \in Nat \ {0}, NEW q \in Int, NEW r \in 0 .. m - 1
  PROVE  (q * m + r) % m = r /\ (q * m + r) \div m = q
<1> DEFINE x == q * m + r
           a == x \div m
           b == x % m
<1>0. x \in Int
  OBVIOUS
<1> HIDE DEF x
<1>1. a \in Int /\ b \in 0..m-1 /\ x = m * a + b
  BY <1>0
<1> HIDE DEF a, b
<1>2. q * m + r = m * a + b
  BY <1>1 DEF x
<1> DEFINE d == q - a
<1>3. d \in Int /\ m * d = b - r
  BY <1>1, <1>2
<1> HIDE DEF d
<1>4. d = 0
  <2>1. CASE d >= 1
    <3>1. m * d >= m 
      BY <1>3, <2>1
    <3> QED BY <1>1, <1>3, <3>1
  <2>2. CASE d <= -1
    <3>1. m * d <= -m 
      BY <1>3, <2>2
    <3> QED BY <1>1, <1>3, <3>1
  <2> QED BY <1>3, <2>1, <2>2
<1>5. q = a /\ b = r
  <2>1. q = a
    BY <1>1, <1>4 DEF d
  <2> QED BY <1>1, <1>2, <2>1
<1> QED BY <1>5 DEF a, b, x

LEMMA SmallRemainder ==
  ASSUME NEW m \in Nat \ {0}, NEW r \in 0 .. m - 1
  PROVE  r % m = r /\ r \div m = 0
<1>1. 0 \in Int /\ 0 * m + r = r
  OBVIOUS
<1>2. (0 * m + r) % m = r /\ (0 * m + r) \div m = 0
  BY DivMod
<1> QED
  BY <1>1, <1>2

(* The fields of a card.                                                   *)
LEMMA DiskFields ==
  ASSUME disk \in Disks
  PROVE  /\ disk.sig \in BOOLEAN /\ disk.bootsig \in BOOLEAN /\ disk.ok \in BOOLEAN
         /\ disk.lba \in 0 .. AddrSpace - 1 /\ disk.spc \in Nat
         /\ disk.reserved \in Nat /\ disk.fatsize \in Nat /\ disk.root \in Nat
         /\ DOMAIN disk.next \subseteq Nat /\ \A c \in DOMAIN disk.next : disk.next[c] \in Nat
         /\ Len(disk.dir) \in Nat
         /\ \A k \in 1 .. Len(disk.dir) :
              /\ disk.dir[k].size \in Nat /\ disk.dir[k].cluster \in Nat
              /\ disk.dir[k].name \in Seq(Nat) /\ Len(disk.dir[k].name) = Len(FileName)
<1> DEFINE Entries == [name : {s \in Seq(Nat) : Len(s) = Len(FileName)},
                       size : Nat, cluster : Nat]
<1>1. disk.dir \in Seq(Entries)
  BY DiskAssumption DEF DiskAssumption
<1>2. Len(disk.dir) \in Nat /\ \A k \in 1 .. Len(disk.dir) : disk.dir[k] \in Entries
  <2> HIDE DEF Entries
  <2> QED
    BY <1>1
<1>3. \A k \in 1 .. Len(disk.dir) :
        /\ disk.dir[k].size \in Nat /\ disk.dir[k].cluster \in Nat
        /\ disk.dir[k].name \in Seq(Nat) /\ Len(disk.dir[k].name) = Len(FileName)
  BY <1>2
<1> QED
  BY <1>2, <1>3, DiskAssumption DEF DiskAssumption

(* What is read of a unit has the type of its field.                       *)
LEMMA UnitType ==
  ASSUME disk \in Disks, NEW place
  PROVE  /\ Unit(place).lba \in 0 .. AddrSpace - 1 /\ Unit(place).spc \in Nat
         /\ Unit(place).reserved \in Nat /\ Unit(place).fatsize \in Nat
         /\ Unit(place).root \in Nat /\ Unit(place).next \in Nat
         /\ Unit(place).size \in Nat /\ Unit(place).cluster \in Nat
<1> DEFINE s == place[1]
           i == place[2]
           f == (s - FatStart) * SectorLen + i
           inDir == {k \in 1 .. Len(disk.dir) : Place(disk.root, k - 1) = place}
           found == CHOOSE k \in inDir : TRUE
<1>1. Unit(place) =
        IF s = 0 /\ i = Last
          THEN [Blank EXCEPT !.sig = disk.sig, !.type = disk.type, !.lba = disk.lba]
        ELSE IF s = disk.lba /\ i = Last
          THEN [Blank EXCEPT !.sig = disk.bootsig]
        ELSE IF s = disk.lba /\ i = 0
          THEN [Blank EXCEPT !.ok = disk.ok, !.spc = disk.spc, !.reserved = disk.reserved,
                             !.fatsize = disk.fatsize, !.root = disk.root]
        ELSE IF f \in DOMAIN disk.next /\ s < DataStart
          THEN [Blank EXCEPT !.next = disk.next[f]]
        ELSE IF inDir # {}
          THEN [Blank EXCEPT !.name = disk.dir[found].name, !.size = disk.dir[found].size,
                             !.cluster = disk.dir[found].cluster]
        ELSE Blank
  BY DEF Unit
<1>2. inDir # {} => found \in 1 .. Len(disk.dir)
  OBVIOUS
<1> HIDE DEF s, i, f, inDir, found
<1>3. inDir # {} => disk.dir[found].size \in Nat /\ disk.dir[found].cluster \in Nat
  BY <1>2, DiskFields
<1>4. f \in DOMAIN disk.next => disk.next[f] \in Nat
  BY DiskFields
<1> DEFINE u == Unit(place)
<1> HIDE DEF u
<1>5. /\ u.lba \in 0 .. AddrSpace - 1 /\ u.spc \in Nat
      /\ u.reserved \in Nat /\ u.fatsize \in Nat
  BY <1>1, DiskFields, Limits DEF u, Blank
<1>6. u.root \in Nat /\ u.next \in Nat
  BY <1>1, <1>4, DiskFields DEF u, Blank
<1>7. u.size \in Nat /\ u.cluster \in Nat
  BY <1>1, <1>3 DEF u, Blank
<1> QED
  BY <1>5, <1>6, <1>7 DEF u

LEMMA TypesImply == Types => TypeOK
BY DEF Types, LoaderTypes, FsmTypes, HostTypes, MemTypes, PortTypes, States, Walks,
   TypeOK, FileStates

LEMMA InitTypes == Init => Types
<1> SUFFICES ASSUME Init PROVE Types
  OBVIOUS
<1>1. FsmTypes
  BY DEF Init, FsmTypes, States
<1>6. HostTypes
  <2>1. rd_is \in BOOLEAN /\ sd_reset \in BOOLEAN /\ busy_os_r \in BOOLEAN
    BY DEF Init
  <2>2. hndShk_is \in {0, 1} /\ addr_is \in 0 .. AddrSpace - 1
    BY Limits DEF Init
  <2> QED
    BY <2>1, <2>2 DEF HostTypes
<1>7. PortTypes
  BY Limits DEF Init, PortTypes, Port!Init
<1>2. MemTypes
  BY Limits DEF Init, MemTypes
<1>3. vol \in Volumes
  BY DEF Init, Volumes
<1>4. cur \in Walks
  BY Limits DEF Init, Walks
<1>5. RamTypes
  <2>1. <<AddrSpace, 0>> \in Int \X Int
    BY Limits
  <2> QED
    BY <2>1 DEF Init, RamTypes
<1> QED
  BY <1>1, <1>2, <1>3, <1>4, <1>5, <1>6, <1>7 DEF Types, LoaderTypes, Init

-----------------------------------------------------------------------------
(* What the controller does in a cycle, whatever the loader does.          *)

Controller == ControllerStep \/ ControllerWait

LEMMA ControllerTypes ==
  ASSUME PortTypes, HostTypes, Controller
  PROVE  PortTypes'
<1>1. timer' \in 0 .. Divider
  BY Limits DEF PortTypes, Controller, ControllerStep, ControllerWait
<1>2. \/ Port!Reset \/ Port!Begin \/ Port!Lower \/ Port!Ready \/ Port!Idle
      \/ Port!AcceptRead \/ Port!AcceptWrite \/ Port!Offer \/ Port!Finish
      \/ Port!Fail \/ Port!Report \/ UNCHANGED portVars
  BY DEF Controller, ControllerStep, ControllerWait, Port!Step
<1>3. busy_os' \in BOOLEAN
  BY <1>2 DEF PortTypes, Port!Reset, Port!Begin, Port!Lower, Port!Ready, Port!Idle,
     Port!AcceptRead, Port!AcceptWrite, Port!Accept, Port!Offer, Port!Finish,
     Port!Fail, Port!Report, portVars
<1>4. phase' \in {"reset", "init", "ready", "reading", "writing", "failed"}
  BY <1>2 DEF PortTypes, Port!Reset, Port!Begin, Port!Lower, Port!Ready, Port!Idle,
     Port!AcceptRead, Port!AcceptWrite, Port!Accept, Port!Offer, Port!Finish,
     Port!Fail, Port!Report, portVars
<1>5. hndShk_os' \in {0, 1} /\ left' \in 0 .. SectorLen /\ addr' \in 0 .. AddrSpace - 1
  BY <1>2, Limits DEF PortTypes, HostTypes, Port!Reset, Port!Begin, Port!Lower,
     Port!Ready, Port!Idle, Port!AcceptRead, Port!AcceptWrite, Port!Accept,
     Port!Offer, Port!Finish, Port!Fail, Port!Report, portVars
<1> QED
  BY <1>1, <1>3, <1>4, <1>5 DEF PortTypes

LEMMA RamWriteType ==
  ASSUME RamTypes, cur \in Walks, RamWrite
  PROVE  ram' \in [0 .. RamSize - 1 -> Int \X Int]
<1>1. cur.ram % RamSize \in 0 .. RamSize - 1
  <2>1. cur.ram \in Int
    BY DEF Walks
  <2> QED
    BY <2>1, Remainder, Limits
<1> QED
  BY <1>1 DEF RamTypes, RamWrite

(* The loader's state is well typed after a cycle if each part of it is.   *)
RamPortTypes == ram_d \in Int \X Int /\ ram_wr \in BOOLEAN

LEMMA DataType ==
  ASSUME PortTypes
  PROVE  data_os \in Int \X Int
<1>1. addr \in Int /\ Last - left \in Int
  BY Limits DEF PortTypes
<1> QED
  BY <1>1 DEF data_os

LEMMA StartType ==
  ASSUME vol \in Volumes, NEW c \in Int
  PROVE  ClusterStart(c) \in 0 .. AddrSpace - 1
<1>1. vol.data \in Int /\ vol.spc \in Int
  BY DEF Volumes
<1>2. vol.data + (c - 2) * vol.spc \in Int
  BY <1>1
<1> QED
  BY <1>2, Remainder, Limits DEF ClusterStart

(* The parts that a cycle leaves alone keep their types.                   *)
LEMMA TypesSame ==
  ASSUME LoaderTypes, RamPortTypes
  PROVE  /\ UNCHANGED <<rd_is, addr_is, hndShk_is, sd_reset>> /\ busy_os_r' \in BOOLEAN
              => HostTypes'
         /\ UNCHANGED <<block_mem, counter, block_addr>> => MemTypes'
         /\ UNCHANGED vol => vol' \in Volumes
         /\ UNCHANGED cur => cur' \in Walks
         /\ UNCHANGED <<ram_d, ram_wr>> => RamPortTypes'
<1>1. ASSUME UNCHANGED <<rd_is, addr_is, hndShk_is, sd_reset>>, busy_os_r' \in BOOLEAN
      PROVE  HostTypes'
  <2>1. rd_is' \in BOOLEAN /\ sd_reset' \in BOOLEAN
    BY <1>1 DEF LoaderTypes, HostTypes
  <2>2. hndShk_is' \in {0, 1} /\ addr_is' \in 0 .. AddrSpace - 1
    BY <1>1 DEF LoaderTypes, HostTypes
  <2> QED
    BY <1>1, <2>1, <2>2 DEF HostTypes
<1>2. UNCHANGED <<block_mem, counter, block_addr>> => MemTypes'
  BY DEF LoaderTypes, MemTypes
<1>3. UNCHANGED <<ram_d, ram_wr>> => RamPortTypes'
  BY DEF RamPortTypes
<1> QED
  BY <1>1, <1>2, <1>3 DEF LoaderTypes

LEMMA StartTypes ==
  ASSUME LoaderTypes, RamPortTypes, PortTypes, StartLoad, busy_os_r' = busy_os
  PROVE  LoaderTypes' /\ RamPortTypes'
<1>1. FsmTypes'
  BY DEF StartLoad, FsmTypes, States
<1>2. HostTypes'
  <2>1. rd_is' \in BOOLEAN /\ sd_reset' \in BOOLEAN /\ busy_os_r' \in BOOLEAN
    BY DEF StartLoad, PortTypes
  <2>2. hndShk_is' \in {0, 1} /\ addr_is' \in 0 .. AddrSpace - 1
    BY DEF StartLoad, LoaderTypes, HostTypes
  <2> QED
    BY <2>1, <2>2 DEF HostTypes
<1>3. MemTypes'
  BY Limits DEF StartLoad, LoaderTypes, MemTypes
<1>4. vol' \in Volumes
  BY DEF StartLoad, Volumes
<1>5. cur' \in Walks
  BY Zeros DEF StartLoad, LoaderTypes, Walks
<1> QED
  BY <1>1, <1>2, <1>3, <1>4, <1>5, TypesSame DEF StartLoad, ramVars, LoaderTypes

LEMMA RequestTypes ==
  ASSUME LoaderTypes, RamPortTypes, PortTypes, ReadBlock1 \/ ReadFile2, busy_os_r' = busy_os
  PROVE  LoaderTypes' /\ RamPortTypes'
<1>1. FsmTypes'
  BY DEF ReadBlock1, ReadFile2, Request, Enter, LoaderTypes, FsmTypes, States
<1>2. HostTypes'
  <2>1. rd_is' \in BOOLEAN /\ sd_reset' \in BOOLEAN /\ busy_os_r' \in BOOLEAN
    BY DEF ReadBlock1, ReadFile2, Request, PortTypes, LoaderTypes, HostTypes
  <2>2. hndShk_is' \in {0, 1} /\ addr_is' \in 0 .. AddrSpace - 1
    BY DEF ReadBlock1, ReadFile2, Request, LoaderTypes, HostTypes, MemTypes
  <2> QED
    BY <2>1, <2>2 DEF HostTypes
<1>3. MemTypes'
  BY Limits DEF ReadBlock1, ReadFile2, Request, LoaderTypes, MemTypes
<1> QED
  BY <1>1, <1>2, <1>3, TypesSame DEF ReadBlock1, ReadFile2, Request, ramVars,
     LoaderTypes

LEMMA ReadBlock2Types ==
  ASSUME LoaderTypes, RamPortTypes, PortTypes, ReadBlock2, busy_os_r' = busy_os
  PROVE  LoaderTypes' /\ RamPortTypes'
<1>1. FsmTypes'
  BY DEF ReadBlock2, Enter, LoaderTypes, FsmTypes, States
<1>2. HostTypes'
  <2>1. rd_is' \in BOOLEAN /\ sd_reset' \in BOOLEAN /\ busy_os_r' \in BOOLEAN
    BY DEF ReadBlock2, PortTypes, LoaderTypes, HostTypes
  <2>2. hndShk_is' \in {0, 1} /\ addr_is' \in 0 .. AddrSpace - 1
    BY DEF ReadBlock2, LoaderTypes, HostTypes
  <2> QED
    BY <2>1, <2>2 DEF HostTypes
<1>3. MemTypes'
  <2>1. counter' \in 0 .. Last
    <3>1. (counter + 1) % SectorLen \in 0 .. SectorLen - 1
      <4>1. counter + 1 \in Int
        BY Limits DEF LoaderTypes, MemTypes
      <4> QED
        BY <4>1, Remainder, Limits
    <3> QED
      BY <3>1, Limits DEF ReadBlock2, LoaderTypes, MemTypes
  <2>2. block_mem' \in [0 .. Last -> Int \X Int]
    BY DataType DEF ReadBlock2, LoaderTypes, MemTypes
  <2> QED
    BY <2>1, <2>2 DEF ReadBlock2, LoaderTypes, MemTypes
<1> QED
  BY <1>1, <1>2, <1>3, TypesSame DEF ReadBlock2, ramVars, LoaderTypes

(* The states that decode the block memory touch neither the handshake nor *)
(* the memory.                                                             *)
LEMMA DecodeTypes ==
  ASSUME LoaderTypes, RamPortTypes, PortTypes, busy_os_r' = busy_os, NEW s, Decode(s),
         FsmTypes', block_addr' \in 0 .. AddrSpace - 1, vol' \in Volumes, cur' \in Walks
  PROVE  LoaderTypes' /\ RamPortTypes'
<1>1. busy_os_r' \in BOOLEAN
  BY DEF PortTypes
<1>2. HostTypes'
  BY <1>1, TypesSame DEF Decode, hostVars
<1>3. MemTypes'
  BY DEF Decode, LoaderTypes, MemTypes
<1> QED
  BY <1>2, <1>3, TypesSame DEF Decode, ramVars, LoaderTypes

LEMMA VolumeStateTypes ==
  ASSUME Types, RamPortTypes, busy_os_r' = busy_os,
         FatCheck \/ PartitionType \/ CheckLba \/ CheckPartition
  PROVE  LoaderTypes' /\ RamPortTypes'
<1>1. CASE FatCheck
  <2>1. FsmTypes'
    BY <1>1 DEF FatCheck, Enter, Error, Types, LoaderTypes, FsmTypes, States
  <2> QED
    BY <1>1, <2>1, DecodeTypes DEF FatCheck, Types, LoaderTypes, MemTypes
<1>2. CASE PartitionType
  <2>1. FsmTypes'
    BY <1>2 DEF PartitionType, Enter, Error, Types, LoaderTypes, FsmTypes, States
  <2>2. vol' \in Volumes
    BY <1>2 DEF PartitionType, Types, LoaderTypes, Volumes
  <2> QED
    BY <1>2, <2>1, <2>2, DecodeTypes DEF PartitionType, Types, LoaderTypes, MemTypes
<1>3. CASE CheckLba
  <2>1. FsmTypes'
    BY <1>3 DEF CheckLba, Call, Types, LoaderTypes, FsmTypes, States
  <2>2. block_addr' \in 0 .. AddrSpace - 1
    BY <1>3, UnitType, Limits DEF CheckLba, Types, Mem
  <2>3. vol' \in Volumes
    BY <1>3, <2>2 DEF CheckLba, Types, LoaderTypes, Volumes
  <2> QED
    BY <1>3, <2>1, <2>2, <2>3, DecodeTypes DEF CheckLba, Types, LoaderTypes
<1>4. CASE CheckPartition
  <2> DEFINE boot == Mem(0)
             fat  == (vol.lba + boot.reserved) % AddrSpace
             data == (fat + 2 * boot.fatsize) % AddrSpace
  <2>1. FsmTypes'
    BY <1>4 DEF CheckPartition, Enter, Error, Types, LoaderTypes, FsmTypes, States
  <2>2. /\ boot.spc \in Nat /\ boot.reserved \in Nat /\ boot.fatsize \in Nat
        /\ boot.root \in Nat
    BY UnitType DEF Types, Mem
  <2> HIDE DEF boot
  <2>3. fat \in Nat
    <3>1. vol.lba + boot.reserved \in Int
      BY <2>2 DEF Types, LoaderTypes, Volumes
    <3>2. fat \in 0 .. AddrSpace - 1
      BY <3>1, Remainder, Limits
    <3> HIDE DEF fat
    <3> QED
      BY <3>2, Limits
  <2> HIDE DEF fat
  <2>4. data \in Nat
    <3>1. fat + 2 * boot.fatsize \in Int
      BY <2>2, <2>3
    <3>2. data \in 0 .. AddrSpace - 1
      BY <3>1, Remainder, Limits
    <3> HIDE DEF data
    <3> QED
      BY <3>2, Limits
  <2> HIDE DEF data
  <2>5. \/ /\ vol' = [vol EXCEPT !.spc = boot.spc, !.fat = fat, !.data = data]
           /\ cur' = [cur EXCEPT !.next = boot.root, !.cluster = 0, !.sector = 0]
        \/ UNCHANGED <<vol, cur>>
    BY <1>4 DEF CheckPartition, boot, fat, data
  <2>6. vol' \in Volumes
    BY <2>2, <2>3, <2>4, <2>5 DEF Types, LoaderTypes, Volumes
  <2>7. cur' \in Walks
    BY <2>2, <2>5, Zeros DEF Types, LoaderTypes, Walks
  <2> QED
    BY <1>4, <2>1, <2>6, <2>7, DecodeTypes DEF CheckPartition, Types, LoaderTypes,
       MemTypes
<1> QED
  BY <1>1, <1>2, <1>3, <1>4

LEMMA SearchTypes ==
  ASSUME Types, RamPortTypes, busy_os_r' = busy_os,
         ReadDir1 \/ Compare1 \/ ReadFat1 \/ ReadFat2 \/ ReadFile1
  PROVE  LoaderTypes' /\ RamPortTypes'
<1>0. /\ cur.next \in Nat /\ cur.current \in Nat /\ cur.sector \in 0 .. Last
      /\ cur.entry \in 0 .. Len(FileName) - 1 /\ cur.cluster \in 0 .. CountMod - 1
      /\ cur.size \in Nat /\ cur.ram \in Nat /\ cur.back \in {"INIT", "READ_DIR1", "READ_FILE1"}
      /\ vol \in Volumes /\ vol.fat \in Nat /\ block_addr \in 0 .. AddrSpace - 1
  BY DEF Types, LoaderTypes, Walks, Volumes, MemTypes
<1>1. CASE ReadDir1
  <2> DEFINE counted == IF cur.sector = SectorLen THEN (cur.cluster + SectorLen) % CountMod
                                                  ELSE cur.cluster
             cluster == IF cur.cluster + SectorLen = SectorLen * vol.spc THEN 0 ELSE counted
             back    == IF cur.cluster + SectorLen = SectorLen * vol.spc THEN "READ_DIR1"
                                                                        ELSE cur.back
  <2>1. FsmTypes'
    BY <1>1 DEF ReadDir1, Enter, Call, Types, LoaderTypes, FsmTypes, States
  <2>2. block_addr' \in 0 .. AddrSpace - 1
    <3>1. (block_addr + 1) % AddrSpace \in 0 .. AddrSpace - 1
      <4>1. block_addr + 1 \in Int
        BY <1>0, Limits
      <4> QED
        BY <4>1, Remainder, Limits
    <3>2. ClusterStart(cur.next) \in 0 .. AddrSpace - 1
      <4>1. cur.next \in Int
        BY <1>0
      <4> QED
        BY <1>0, <4>1, StartType
    <3> QED
      BY <1>1, <3>1, <3>2 DEF ReadDir1
  <2>3. cluster \in 0 .. CountMod - 1 /\ back \in {"INIT", "READ_DIR1", "READ_FILE1"}
    <3>1. (cur.cluster + SectorLen) % CountMod \in 0 .. CountMod - 1
      <4>1. cur.cluster + SectorLen \in Int
        BY <1>0, Limits
      <4> QED
        BY <4>1, Remainder, Limits
    <3> QED
      BY <1>0, <3>1, Zeros
  <2>4. cur' = [cur EXCEPT !.current = cur.next, !.sector = 0, !.cluster = cluster,
                           !.back = back]
    BY <1>1 DEF ReadDir1
  <2> HIDE DEF cluster, back
  <2>5. cur' \in Walks
    BY <1>0, <2>3, <2>4, Zeros DEF Types, LoaderTypes, Walks
  <2> QED
    BY <1>1, <2>1, <2>2, <2>5, DecodeTypes DEF ReadDir1, Types, LoaderTypes
<1>2. CASE Compare1
  <2> DEFINE e == Mem(cur.sector)
             n == cur.entry + 1
  <2>1. FsmTypes'
    BY <1>2 DEF Compare1, Enter, Error, Types, LoaderTypes, FsmTypes, States
  <2>2. e.size \in Nat /\ e.cluster \in Nat
    BY UnitType DEF Types, Mem
  <2>3. \/ cur' = cur
        \/ cur' = [cur EXCEPT !.size = e.size, !.next = e.cluster, !.ram = FileAddr]
        \/ n # Len(FileName) /\ cur' = [cur EXCEPT !.entry = n]
        \/ cur.sector + 1 # SectorLen /\ cur' = [cur EXCEPT !.sector = cur.sector + 1, !.entry = 0]
    BY <1>2 DEF Compare1
  <2> HIDE DEF e
  <2>4. n # Len(FileName) => n \in 0 .. Len(FileName) - 1
    <3>1. \A l \in Nat \ {0}, k \in Nat :
            k \in 0 .. l - 1 /\ k + 1 # l => k + 1 \in 0 .. l - 1
      OBVIOUS
    <3>2. Len(FileName) \in Nat \ {0} /\ cur.entry \in 0 .. Len(FileName) - 1 /\ cur.entry \in Nat
      BY <1>0, Limits
    <3> QED
      BY <3>1, <3>2
  <2>5. cur.sector + 1 # SectorLen => cur.sector + 1 \in 0 .. Last
    <3>1. \A k \in 0 .. Last : k + 1 # SectorLen => k + 1 \in 0 .. Last
      BY Limits
    <3> QED
      BY <1>0, <3>1
  <2> HIDE DEF n
  <2>6. cur' \in Walks
    BY <2>2, <2>3, <2>4, <2>5, Zeros, Limits DEF Types, LoaderTypes, Walks
  <2> QED
    BY <1>0, <1>2, <2>1, <2>6, DecodeTypes DEF Compare1, Types, LoaderTypes
<1>3. CASE ReadFat1
  <2>1. FsmTypes'
    BY <1>3 DEF ReadFat1, Call, Types, LoaderTypes, FsmTypes, States
  <2>2. block_addr' \in 0 .. AddrSpace - 1
    <3>1. vol.fat + cur.current \div SectorLen \in Int
      <4>1. vol.fat \in Nat /\ cur.current \in Nat /\ SectorLen \in Nat \ {0}
        BY <1>0, Limits
      <4> QED
        BY ONLY <4>1
    <3> QED
      BY <1>3, <3>1, Remainder, Limits DEF ReadFat1
  <2>3. cur' \in Walks
    BY <1>3 DEF ReadFat1, Types, LoaderTypes, Walks
  <2> QED
    BY <1>0, <1>3, <2>1, <2>2, <2>3, DecodeTypes DEF ReadFat1, Types, LoaderTypes
<1>4. CASE ReadFat2
  <2>1. FsmTypes'
    BY <1>0, <1>4 DEF ReadFat2, Enter, Types, LoaderTypes, FsmTypes, States
  <2>2. Mem(cur.current % SectorLen).next \in Nat
    BY UnitType DEF Types, Mem
  <2>3. cur' \in Walks
    BY <1>4, <2>2 DEF ReadFat2, Types, LoaderTypes, Walks
  <2> QED
    BY <1>0, <1>4, <2>1, <2>3, DecodeTypes DEF ReadFat2, Types, LoaderTypes
<1>5. CASE ReadFile1
  <2>1. FsmTypes'
    BY <1>5 DEF ReadFile1, Enter, Types, LoaderTypes, FsmTypes, States
  <2>2. block_addr' \in 0 .. AddrSpace - 1
    BY <1>0, <1>5, StartType DEF ReadFile1
  <2>3. cur' \in Walks
    BY <1>0, <1>5, Zeros DEF ReadFile1, Types, LoaderTypes, Walks
  <2> QED
    BY <1>0, <1>5, <2>1, <2>2, <2>3, DecodeTypes DEF ReadFile1, Types, LoaderTypes
<1> QED
  BY <1>1, <1>2, <1>3, <1>4, <1>5

LEMMA ReadFile3Types ==
  ASSUME Types, RamPortTypes, ReadFile3, busy_os_r' = busy_os
  PROVE  LoaderTypes' /\ RamPortTypes'
<1>0. /\ cur.cluster \in 0 .. CountMod - 1 /\ cur.size \in Nat /\ cur.ram \in Nat
      /\ cur.back \in {"INIT", "READ_DIR1", "READ_FILE1"} /\ block_addr \in 0 .. AddrSpace - 1
  BY DEF Types, LoaderTypes, Walks, MemTypes
<1> DEFINE done == cur.size = 0
           take == ~done /\ hndShk_os = 1 /\ hndShk_is = 0
           more == cur.cluster < SectorLen * vol.spc - 1
           ramA == IF take THEN cur.ram + 1 ELSE cur.ram
           clus == IF take THEN (cur.cluster + 1) % CountMod ELSE cur.cluster
           size == IF take THEN cur.size - 1 ELSE cur.size
           back == IF Falls /\ ~more THEN "READ_FILE1" ELSE cur.back
<1>1. FsmTypes'
  <2>1. CASE Falls
    <3>1. state' \in {"READ_FILE2", "READ_FAT1"}
      BY <2>1 DEF ReadFile3, Enter
    <3> QED
      BY <3>1 DEF ReadFile3, Enter, Types, LoaderTypes, FsmTypes, States
  <2>2. CASE ~Falls
    <3>1. state' \in {"IDLE", "READ_FILE3"}
      BY <2>2 DEF ReadFile3, Enter
    <3> QED
      BY <3>1 DEF ReadFile3, Enter, Types, LoaderTypes, FsmTypes, States
  <2> QED
    BY <2>1, <2>2
<1>2. HostTypes'
  <2>1. rd_is' \in BOOLEAN /\ sd_reset' \in BOOLEAN /\ busy_os_r' \in BOOLEAN
    BY DEF ReadFile3, Types, PortTypes, LoaderTypes, HostTypes
  <2>2. hndShk_is' \in {0, 1} /\ addr_is' \in 0 .. AddrSpace - 1
    BY DEF ReadFile3, Types, LoaderTypes, HostTypes
  <2> QED
    BY <2>1, <2>2 DEF HostTypes
<1>3. MemTypes'
  <2>1. (block_addr + 1) % AddrSpace \in 0 .. AddrSpace - 1
    <3>1. block_addr + 1 \in Int
      BY <1>0, Limits
    <3> QED
      BY <3>1, Remainder, Limits
  <2>2. block_addr' \in 0 .. AddrSpace - 1
    BY <1>0, <2>1 DEF ReadFile3
  <2> QED
    BY <2>2 DEF ReadFile3, Types, LoaderTypes, MemTypes
<1>4. cur' \in Walks
  <2>1. ramA \in Nat /\ clus \in 0 .. CountMod - 1 /\ size \in Nat
    <3>1. (cur.cluster + 1) % CountMod \in 0 .. CountMod - 1
      <4>1. cur.cluster + 1 \in Int
        BY <1>0, Limits
      <4> QED
        BY <4>1, Remainder, Limits
    <3> QED
      BY <1>0, <3>1
  <2>2. back \in {"INIT", "READ_DIR1", "READ_FILE1"}
    BY <1>0
  <2>3. cur' = [cur EXCEPT !.ram = ramA, !.cluster = clus, !.size = size, !.back = back]
    BY DEF ReadFile3
  <2> HIDE DEF ramA, clus, size, back
  <2> QED
    BY <2>1, <2>2, <2>3 DEF Types, LoaderTypes, Walks
<1>5. RamPortTypes'
  <2>1. ram_wr' \in BOOLEAN
    BY DEF ReadFile3
  <2>2. ram_d' \in Int \X Int
    BY DataType DEF ReadFile3, Types, RamPortTypes
  <2> QED
    BY <2>1, <2>2 DEF RamPortTypes
<1> QED
  BY <1>1, <1>2, <1>3, <1>4, <1>5 DEF ReadFile3, Types, LoaderTypes

LEMMA RestTypes ==
  ASSUME LoaderTypes, RamPortTypes, PortTypes, Rest, busy_os_r' = busy_os
  PROVE  LoaderTypes' /\ RamPortTypes'
<1>1. FsmTypes'
  BY DEF Rest, Enter, LoaderTypes, FsmTypes, States
<1>2. busy_os_r' \in BOOLEAN
  BY DEF PortTypes
<1>3. HostTypes' /\ MemTypes'
  BY <1>2, TypesSame DEF Rest, hostVars, memVars
<1> QED
  BY <1>1, <1>3, TypesSame DEF Rest, ramVars, LoaderTypes

LEMMA NextTypes == Types /\ [Next]_vars => Types'
<1> SUFFICES ASSUME Types, [Next]_vars PROVE Types'
  OBVIOUS
<1>0. RamPortTypes /\ LoaderTypes /\ PortTypes /\ HostTypes /\ cur \in Walks /\ RamTypes
  BY DEF Types, RamTypes, RamPortTypes, LoaderTypes
<1>1. CASE Works \/ Waits
  <2>1. Loader /\ Controller /\ RamWrite /\ UNCHANGED disk
    BY <1>1 DEF Works, Waits, Controller
  <2>2. LoaderTypes' /\ RamPortTypes'
    BY <1>0, <2>1, StartTypes, RequestTypes, ReadBlock2Types, VolumeStateTypes,
       SearchTypes, ReadFile3Types, RestTypes DEF Loader
  <2>3. PortTypes'
    BY <1>0, <2>1, ControllerTypes
  <2>4. RamTypes'
    BY <1>0, <2>1, <2>2, RamWriteType DEF RamTypes, RamPortTypes
  <2> QED
    BY <2>1, <2>2, <2>3, <2>4 DEF Types
<1>2. CASE BoardReset
  <2>1. FsmTypes'
    BY <1>2 DEF BoardReset, Types, LoaderTypes, FsmTypes, States
  <2>2. HostTypes'
    <3>1. rd_is' \in BOOLEAN /\ sd_reset' \in BOOLEAN /\ busy_os_r' \in BOOLEAN
      BY <1>0, <1>2 DEF BoardReset, HostTypes
    <3>2. hndShk_is' \in {0, 1} /\ addr_is' \in 0 .. AddrSpace - 1
      BY <1>0, <1>2 DEF BoardReset, HostTypes
    <3> QED
      BY <3>1, <3>2 DEF HostTypes
  <2>3. MemTypes'
    BY <1>0, <1>2, Zeros, Limits DEF BoardReset, LoaderTypes, MemTypes
  <2>4. vol' \in Volumes /\ cur' \in Walks /\ disk' \in Disks
    BY <1>0, <1>2 DEF BoardReset, Types, LoaderTypes
  <2>5. PortTypes'
    <3>1. busy_os' \in BOOLEAN
      BY <1>2 DEF BoardReset, Port!Reset
    <3>2. phase' \in {"reset", "init", "ready", "reading", "writing", "failed"}
      BY <1>2 DEF BoardReset, Port!Reset
    <3>3. /\ hndShk_os' \in {0, 1} /\ left' \in 0 .. SectorLen /\ addr' \in 0 .. AddrSpace - 1
          /\ timer' \in 0 .. Divider
      BY <1>0, <1>2, Limits DEF BoardReset, Port!Reset, PortTypes
    <3> QED
      BY <3>1, <3>2, <3>3 DEF PortTypes
  <2>6. RamTypes'
    <3>1. RamPortTypes'
      BY <1>0, <1>2, TypesSame DEF BoardReset, ramVars
    <3> QED
      BY <1>0, <1>2, <3>1, RamWriteType DEF BoardReset, RamTypes, RamPortTypes
  <2> QED
    BY <2>1, <2>2, <2>3, <2>4, <2>5, <2>6 DEF Types, LoaderTypes
<1>3. CASE NextStep \/ UNCHANGED vars
  <2>1. UNCHANGED <<fsmVars, hostVars, memVars, vol, cur, ramVars, busy_os_r, ram,
                    portVars, timer, disk>>
    BY <1>3 DEF NextStep, vars
  <2>2. busy_os_r' \in BOOLEAN
    BY <1>0, <2>1 DEF HostTypes
  <2>3. HostTypes' /\ MemTypes' /\ vol' \in Volumes /\ cur' \in Walks /\ RamPortTypes'
    BY <1>0, <2>1, <2>2, TypesSame DEF hostVars, memVars, ramVars
  <2>4. FsmTypes'
    BY <2>1 DEF fsmVars, Types, LoaderTypes, FsmTypes
  <2>5. PortTypes'
    <3>1. busy_os' \in BOOLEAN
      BY <1>0, <2>1 DEF PortTypes, portVars
    <3>2. phase' \in {"reset", "init", "ready", "reading", "writing", "failed"}
      BY <1>0, <2>1 DEF PortTypes, portVars
    <3>3. /\ hndShk_os' \in {0, 1} /\ left' \in 0 .. SectorLen /\ addr' \in 0 .. AddrSpace - 1
          /\ timer' \in 0 .. Divider
      BY <1>0, <2>1 DEF PortTypes, portVars
    <3> QED
      BY <3>1, <3>2, <3>3 DEF PortTypes
  <2> QED
    BY <1>0, <2>1, <2>3, <2>4, <2>5 DEF Types, LoaderTypes, RamTypes, RamPortTypes
<1> QED
  BY <1>1, <1>2, <1>3 DEF Next

LEMMA TypesHold == Spec => []Types
BY InitTypes, NextTypes, PTL DEF Spec

(* Every register keeps to its range, for every card and every size: the   *)
(* counters of units, entries and characters never pass their ends.        *)
THEOREM LoaderTypeCorrect == Spec => []TypeOK
BY TypesHold, TypesImply, PTL

-----------------------------------------------------------------------------
(* The handshake.                                                          *)
(*                                                                         *)
(* The loader sees busy_o through busy_os_r, a cycle late, and answers     *)
(* hndShk_o a cycle late.  What it has taken of a sector is what the       *)
(* controller has passed but for the unit on offer (Taken); between the    *)
(* sectors both are at rest (Decoding), and a request is withdrawn before  *)
(* the first unit is taken, so that it is accepted once (Sending).         *)

Owed  == IF hndShk_os = 1 /\ hndShk_is = 0 THEN 1 ELSE 0
Taken == SectorLen - left - Owed

Calm     == ~busy_os => phase \in {"ready", "failed"} /\ hndShk_os = 0 /\ hndShk_is = 0
Requests == rd_is => state \in {"READ_BLOCK1", "READ_BLOCK2", "READ_FILE2", "READ_FILE3"}
Resets   == sd_reset => state = "INIT" /\ ~busy_os_r

(* A request, until the loader sees that it has been accepted.             *)
Accepted ==
  /\ phase = "reading" /\ busy_os /\ left = SectorLen /\ hndShk_os = 0 /\ hndShk_is = 0
  /\ rd_is /\ addr = block_addr
Asking ==
  state \in {"READ_BLOCK1", "READ_FILE2"} =>
    /\ ~busy_os_r
    /\ rd_is => addr_is = block_addr
    /\ ~busy_os \/ Accepted

(* The sector passes, and has passed.                                      *)
Sending ==
  /\ phase = "reading" /\ busy_os /\ busy_os_r /\ addr = block_addr
  /\ left + Owed <= SectorLen
  /\ rd_is => Taken = 0
Sent ==
  /\ phase = "ready" /\ ~rd_is /\ hndShk_os = 0 /\ hndShk_is = 0
  /\ busy_os \/ busy_os_r
Taking == state \in {"READ_BLOCK2", "READ_FILE3"} => Sending \/ Sent
Stored ==
  state = "READ_BLOCK2" =>
    /\ Sending => /\ counter = Taken % SectorLen
                  /\ \A i \in 0 .. Taken - 1 : block_mem[i] = <<block_addr, i>>
    /\ Sent    => \A i \in 0 .. Last : block_mem[i] = <<block_addr, i>>

DecodeStates == {"FAT_CHECK", "PARTITION_TYPE", "CHECK_LBA", "CHECK_PARTITION", "READ_DIR1",
                 "COMPARE1", "READ_FAT1", "READ_FAT2", "READ_FILE1"}
AtRest   == phase = "ready" /\ ~busy_os /\ ~busy_os_r
Decoding == state \in DecodeStates => AtRest

SectorInv == Calm /\ Requests /\ Resets /\ Asking /\ Taking /\ Stored /\ Decoding /\ WholeSector

(* The board's cards answer a read that they accept with the whole block.  *)
NoReadErrors == "reading" \notin FailIn

LEMMA PortAsked ==
  ASSUME PortTypes, Controller, ~sd_reset, Calm, ~busy_os
  PROVE  \/ phase' = phase /\ ~busy_os' /\ hndShk_os' = 0
         \/ /\ rd_is /\ phase = "ready" /\ phase' = "reading" /\ busy_os' /\ left' = SectorLen
            /\ addr' = addr_is /\ hndShk_os' = 0
<1>1. phase \in {"ready", "failed"} /\ hndShk_os = 0 /\ hndShk_is = 0
  BY DEF Calm
<1>2. CASE ControllerWait
  BY <1>1, <1>2 DEF ControllerWait, portVars
<1>3. CASE Port!Step
  BY <1>1, <1>3 DEF Port!Step, Port!Begin, Port!Lower, Port!Ready, Port!Idle,
     Port!AcceptRead, Port!AcceptWrite, Port!Accept, Port!Offer, Port!Finish
<1>4. CASE Port!Fail \/ Port!Report
  BY <1>1, <1>4 DEF Port!Fail, Port!Report
<1> QED
  BY <1>2, <1>3, <1>4 DEF Controller, ControllerStep

LEMMA PortSends ==
  ASSUME PortTypes, Controller, ~sd_reset, phase = "reading", busy_os, NoReadErrors
  PROVE  \/ UNCHANGED <<phase, busy_os, hndShk_os, left, addr>>
         \/ /\ hndShk_os = 1 /\ hndShk_is = 1 /\ hndShk_os' = 0
            /\ UNCHANGED <<phase, busy_os, left, addr>>
         \/ /\ hndShk_os = 0 /\ hndShk_is = 0 /\ left > 0 /\ hndShk_os' = 1 /\ left' = left - 1
            /\ busy_os' /\ UNCHANGED <<phase, addr>>
         \/ /\ hndShk_os = 0 /\ hndShk_is = 0 /\ left = 0 /\ phase' = "ready" /\ busy_os'
            /\ hndShk_os' = 0
<1>2. CASE ControllerWait
  BY <1>2 DEF ControllerWait, portVars
<1>3. CASE Port!Step
  BY <1>3 DEF Port!Step, Port!Begin, Port!Lower, Port!Ready, Port!Idle,
     Port!BothLow, Port!AcceptRead, Port!AcceptWrite, Port!Accept, Port!Offer,
     Port!Finish
<1>4. ~(phase \in FailIn /\ Port!Fail) /\ ~Port!Report
  BY DEF NoReadErrors, Port!Report
<1> QED
  BY <1>2, <1>3, <1>4 DEF Controller, ControllerStep

LEMMA PortSent ==
  ASSUME PortTypes, Controller, ~sd_reset, phase = "ready", ~rd_is, hndShk_os = 0, hndShk_is = 0
  PROVE  phase' = "ready" /\ hndShk_os' = 0
<1>2. CASE ControllerWait
  BY <1>2 DEF ControllerWait, portVars
<1>3. CASE Port!Step
  BY <1>3 DEF Port!Step, Port!Begin, Port!Lower, Port!Ready, Port!Idle,
     Port!AcceptRead, Port!AcceptWrite, Port!Accept, Port!Offer, Port!Finish
<1>4. ~Port!Fail /\ ~Port!Report
  BY DEF Port!Fail, Port!Report
<1> QED
  BY <1>2, <1>3, <1>4 DEF Controller, ControllerStep

(* busy_o is low only with both halves of the handshake low.               *)
LEMMA CalmNext ==
  ASSUME PortTypes, Calm, Controller, hndShk_os = 0 /\ hndShk_is = 0 => hndShk_is' = 0
  PROVE  Calm'
<1> SUFFICES ASSUME ~busy_os'
             PROVE  phase' \in {"ready", "failed"} /\ hndShk_os' = 0 /\ hndShk_is' = 0
  BY DEF Calm
<1>1. \/ Port!Idle
      \/ Port!Report
      \/ UNCHANGED <<phase, busy_os, hndShk_os>> /\ ~busy_os
  BY DEF Controller, ControllerStep, ControllerWait, portVars, Port!Reset,
     Port!Step, Port!Begin, Port!Lower, Port!Ready, Port!AcceptRead,
     Port!AcceptWrite, Port!Accept, Port!Offer, Port!Finish, Port!Fail, Calm
<1>2. hndShk_os = 0 /\ hndShk_is = 0
  BY <1>1 DEF Port!Idle, Port!Report, Port!BothLow, Calm
<1> QED
  BY <1>1, <1>2 DEF Port!Idle, Port!Report, Calm

(* One cycle of a sector on its way, as READ_BLOCK2 and READ_FILE3 do it.  *)
Exchange ==
  /\ ~sd_reset /\ ~Falls /\ rd_is' = FALSE /\ busy_os_r' = busy_os
  /\ hndShk_is' = IF hndShk_os = 0 THEN 0 ELSE 1
  /\ block_addr' = block_addr

LEMMA ExchangeKeeps ==
  ASSUME Types, Controller, NoReadErrors, Sending \/ Sent, Exchange
  PROVE  /\ Sending' \/ Sent'
         /\ Sending /\ Sending' => Taken' = Taken + Owed
         /\ Sending /\ Sent' => Taken = SectorLen /\ Owed = 0
         /\ Sent => Sent' /\ Owed = 0
<1>0. /\ left \in 0 .. SectorLen /\ SectorLen \in Nat \ {0} /\ hndShk_os \in {0, 1}
      /\ hndShk_is \in {0, 1} /\ PortTypes /\ ~sd_reset
  BY Limits DEF Types, PortTypes, LoaderTypes, HostTypes, Exchange
<1>1. CASE Sent
  <2>1. phase' = "ready" /\ hndShk_os' = 0
    BY <1>0, <1>1, PortSent DEF Sent
  <2>2. busy_os
    BY <1>1 DEF Sent, Exchange, Falls
  <2>3. Sent'
    BY <1>1, <2>1, <2>2 DEF Sent, Exchange
  <2> QED
    BY <1>1, <2>3 DEF Sent, Sending, Owed
<1>2. CASE Sending
  <2>0. phase = "reading" /\ busy_os /\ addr = block_addr /\ left + Owed <= SectorLen
    BY <1>2 DEF Sending
  <2>1. CASE hndShk_os = 0 /\ hndShk_is = 0 /\ left = 0
             /\ phase' = "ready" /\ busy_os' /\ hndShk_os' = 0
    <3>1. Sent'
      BY <2>1 DEF Sent, Exchange
    <3> QED
      BY <1>0, <2>0, <2>1, <3>1 DEF Sent, Sending, Taken, Owed
  <2>2. CASE /\ busy_os' /\ phase' = "reading" /\ addr' = addr
             /\ \/ hndShk_os' = hndShk_os /\ left' = left
                \/ hndShk_os = 1 /\ hndShk_is = 1 /\ hndShk_os' = 0 /\ left' = left
                \/ /\ hndShk_os = 0 /\ hndShk_is = 0 /\ left > 0 /\ hndShk_os' = 1
                   /\ left' = left - 1
    <3>1. left' + Owed' <= SectorLen /\ Taken' = Taken + Owed
      BY <1>0, <2>0, <2>2 DEF Taken, Owed, Exchange
    <3>2. Sending'
      BY <2>0, <2>2, <3>1 DEF Sending, Exchange
    <3> QED
      BY <1>2, <2>2, <3>1, <3>2 DEF Sent, Sending
  <2> QED
    BY <1>0, <2>0, <2>1, <2>2, PortSends
<1> QED
  BY <1>1, <1>2

(* A cycle, from a state where the handshake is as it should be.           *)
Cycle == Types /\ Types' /\ SectorInv /\ Controller /\ NoReadErrors /\ busy_os_r' = busy_os

LEMMA CycleCalm ==
  ASSUME Cycle, Loader
  PROVE  Calm'
<1>1. hndShk_os = 0 /\ hndShk_is = 0 => hndShk_is' = 0
  BY DEF Loader, StartLoad, ReadBlock1, ReadBlock2, FatCheck, PartitionType,
     CheckLba, CheckPartition, ReadDir1, Compare1, ReadFat1, ReadFat2, ReadFile1,
     ReadFile2, ReadFile3, Rest, Request, Decode, hostVars
<1> QED
  BY <1>1, CalmNext DEF Cycle, Types, SectorInv

LEMMA StartSectors ==
  ASSUME Cycle, Loader, StartLoad
  PROVE  SectorInv'
<1>1. Calm'
  BY CycleCalm
<1>2. rd_is' = FALSE /\ state' \in {"INIT", "READ_BLOCK1"}
  BY DEF StartLoad
<1>3. Requests'
  BY <1>2 DEF Requests
<1>4. Resets'
  BY DEF StartLoad, Resets, Cycle
<1>5. Asking'
  <2> SUFFICES ASSUME Falls PROVE ~busy_os_r' /\ ~busy_os' /\ ~rd_is'
    BY <1>2 DEF StartLoad, Asking
  <2>1. ~busy_os /\ busy_os_r /\ ~sd_reset /\ ~rd_is
    BY DEF Falls, Cycle, SectorInv, Resets, Requests, StartLoad
  <2>2. ~busy_os'
    BY <2>1, PortAsked DEF Cycle, Types, SectorInv
  <2> QED
    BY <1>2, <2>1, <2>2 DEF Cycle
<1>6. Taking' /\ Stored' /\ Decoding' /\ WholeSector'
  BY <1>2 DEF Taking, Stored, Decoding, DecodeStates, WholeSector
<1> QED
  BY <1>1, <1>3, <1>4, <1>5, <1>6 DEF SectorInv

(* The controller accepts a request, and nothing is taken yet.             *)
LEMMA AcceptedTaken ==
  ASSUME Cycle, ~sd_reset, Accepted, hndShk_is' = hndShk_is
  PROVE  /\ phase' = "reading" /\ busy_os' /\ addr' = addr
         /\ Taken' = 0 /\ left' + Owed' <= SectorLen
<1>1. left \in 0 .. SectorLen /\ SectorLen \in Nat \ {0}
  BY Limits DEF Cycle, Types, PortTypes
<1>2. /\ phase' = "reading" /\ busy_os' /\ addr' = addr
      /\ \/ hndShk_os' = 0 /\ left' = left
         \/ hndShk_os' = 1 /\ left' = left - 1
  BY <1>1, PortSends DEF Cycle, Types, Accepted
<1> QED
  BY <1>1, <1>2 DEF Taken, Owed, Accepted

LEMMA RequestSectors ==
  ASSUME Cycle, Loader, ReadBlock1 \/ ReadFile2
  PROVE  SectorInv'
<1>1. Calm'
  BY CycleCalm
<1>2. /\ state \in {"READ_BLOCK1", "READ_FILE2"} /\ rd_is' = TRUE /\ addr_is' = block_addr
      /\ state = "READ_BLOCK1" /\ Rises => state' = "READ_BLOCK2" /\ counter' = 0
      /\ state = "READ_FILE2" /\ Rises => state' = "READ_FILE3"
      /\ ~Rises => state' = state
      /\ UNCHANGED <<hndShk_is, sd_reset, block_addr>>
  BY DEF ReadBlock1, ReadFile2, Request, Enter
<1>3. Requests' /\ Resets'
  BY <1>2 DEF Requests, Resets, Cycle, SectorInv
<1>4. ~sd_reset /\ ~busy_os_r /\ (~busy_os \/ Accepted) /\ (rd_is => addr_is = block_addr)
  BY <1>2 DEF Cycle, SectorInv, Resets, Asking
<1>5. CASE ~busy_os
  <2>1. ~Rises /\ ~busy_os_r'
    BY <1>5 DEF Rises, Cycle
  <2>2. hndShk_is' = 0
    BY <1>2, <1>5 DEF Cycle, SectorInv, Calm
  <2>3. ~busy_os' \/ Accepted'
    BY <1>2, <1>4, <1>5, <2>2, PortAsked DEF Cycle, Types, SectorInv, Accepted
  <2>4. Asking'
    BY <1>2, <2>1, <2>3 DEF Asking
  <2>5. Taking' /\ Stored' /\ Decoding' /\ WholeSector'
    BY <1>2, <2>1 DEF Taking, Stored, Decoding, DecodeStates, WholeSector
  <2> QED
    BY <1>1, <1>3, <2>4, <2>5 DEF SectorInv
<1>6. CASE Accepted
  <2>0. SectorLen \in Nat \ {0}
    BY Limits
  <2>1. Rises /\ busy_os_r'
    BY <1>4, <1>6 DEF Rises, Cycle, Accepted
  <2>3. /\ phase' = "reading" /\ busy_os' /\ addr' = addr
        /\ Taken' = 0 /\ left' + Owed' <= SectorLen
    BY <1>2, <1>4, <1>6, AcceptedTaken
  <2>4. Sending'
    BY <1>2, <1>6, <2>1, <2>3 DEF Sending, Accepted
  <2>5. Taking' /\ Asking' /\ Decoding' /\ WholeSector'
    BY <1>2, <2>1, <2>4 DEF Taking, Asking, Decoding, DecodeStates, WholeSector
  <2>6. Stored'
    <3>1. ~Sent'
      BY <2>4 DEF Sending, Sent
    <3>2. 0 % SectorLen = 0 /\ 0 .. Taken' - 1 = {}
      BY <2>0, <2>3
    <3> QED
      BY <1>2, <2>1, <2>3, <3>1, <3>2 DEF Stored
  <2> QED
    BY <1>1, <1>3, <2>5, <2>6 DEF SectorInv
<1> QED
  BY <1>4, <1>5, <1>6

LEMMA ReadBlock2Sectors ==
  ASSUME Cycle, Loader, ReadBlock2
  PROVE  SectorInv'
<1>1. Calm'
  BY CycleCalm
<1>2. /\ state = "READ_BLOCK2" /\ rd_is' = FALSE /\ UNCHANGED <<sd_reset, block_addr>>
      /\ state' = IF Falls THEN return_state ELSE "READ_BLOCK2"
  BY DEF ReadBlock2, Enter
<1>3. Requests' /\ Resets'
  BY <1>2 DEF Requests, Resets, Cycle, SectorInv
<1>4. (Sending \/ Sent) /\ ~sd_reset
  BY <1>2 DEF Cycle, SectorInv, Resets, Taking
<1>5. CASE Falls
  <2>1. Sent /\ ~busy_os /\ ~busy_os_r'
    BY <1>4, <1>5 DEF Falls, Sending, Cycle
  <2>2. phase' = "ready" /\ ~busy_os'
    BY <1>4, <2>1, PortAsked DEF Cycle, Types, SectorInv, Sent
  <2>3. AtRest'
    BY <2>1, <2>2 DEF AtRest
  <2>4. UNCHANGED block_mem
    BY <2>1 DEF ReadBlock2, Sent
  <2>5. \A i \in 0 .. Last : block_mem[i] = <<block_addr, i>>
    BY <1>2, <2>1 DEF Cycle, SectorInv, Stored
  <2>6. Decoding' /\ WholeSector'
    BY <1>2, <2>3, <2>4, <2>5 DEF Decoding, WholeSector
  <2>7. state' \in {"INIT", "FAT_CHECK", "CHECK_PARTITION", "COMPARE1", "READ_FAT2"}
    BY <1>2, <1>5 DEF Cycle, Types, LoaderTypes, FsmTypes
  <2>8. Asking' /\ Taking' /\ Stored'
    BY <2>7 DEF Asking, Taking, Stored
  <2> QED
    BY <1>1, <1>3, <2>6, <2>8 DEF SectorInv
<1>6. CASE ~Falls
  <2>0. /\ left \in 0 .. SectorLen /\ SectorLen \in Nat \ {0} /\ Last = SectorLen - 1
        /\ hndShk_os \in {0, 1} /\ hndShk_is \in {0, 1} /\ counter \in 0 .. Last
        /\ block_mem \in [0 .. Last -> Int \X Int]
    BY Limits DEF Cycle, Types, PortTypes, LoaderTypes, HostTypes, MemTypes
  <2>1. state' = "READ_BLOCK2" /\ Exchange
    BY <1>2, <1>4, <1>6 DEF ReadBlock2, Exchange, Cycle
  <2>2. /\ Sending' \/ Sent'
        /\ Sending /\ Sending' => Taken' = Taken + Owed
        /\ Sending /\ Sent' => Taken = SectorLen /\ Owed = 0
        /\ Sent => Sent' /\ Owed = 0
    BY <1>4, <2>1, ExchangeKeeps DEF Cycle
  <2>3. Taking' /\ Asking' /\ Decoding' /\ WholeSector'
    BY <2>1, <2>2 DEF Taking, Asking, Decoding, DecodeStates, WholeSector
  <2>4. Owed = 0 => UNCHANGED <<block_mem, counter>>
    BY DEF ReadBlock2, Owed
  <2>5. Owed = 1 => /\ block_mem' = [block_mem EXCEPT ![counter] = <<addr, Last - left>>]
                    /\ counter' = (counter + 1) % SectorLen
    BY DEF ReadBlock2, Owed, data_os
  <2>6. Stored'
    <3>1. CASE Sent
      <4>1. Sent' /\ ~Sending' /\ UNCHANGED block_mem /\ UNCHANGED block_addr
        BY <1>2, <2>2, <2>4, <3>1 DEF Sent, Sending
      <4> QED
        BY <1>2, <3>1, <4>1 DEF Stored, Cycle, SectorInv
    <3>2. CASE Sending /\ Sent'
      <4>1. ~Sending' /\ UNCHANGED block_mem /\ UNCHANGED block_addr /\ Taken = SectorLen
        BY <1>2, <2>2, <2>4, <3>2 DEF Sent, Sending
      <4>2. 0 .. Taken - 1 = 0 .. Last
        BY <2>0, <4>1
      <4> QED
        BY <1>2, <3>2, <4>1, <4>2 DEF Stored, Cycle, SectorInv
    <3>3. CASE Sending /\ Sending' /\ Owed = 0
      <4>1. Taken' = Taken /\ UNCHANGED <<block_mem, counter, block_addr>> /\ ~Sent'
        <5>1. Taken' = Taken
          <6>1. Taken \in Int
            BY <2>0 DEF Taken, Owed
          <6> QED
            BY <2>2, <3>3, <6>1
        <5> QED
          BY <1>2, <2>4, <3>3, <5>1 DEF Sent, Sending
      <4> QED
        BY <1>2, <3>3, <4>1 DEF Stored, Cycle, SectorInv
    <3>4. CASE Sending /\ Sending' /\ Owed = 1
      <4>1. Taken \in 0 .. Last /\ Taken = Last - left /\ Taken' = Taken + 1
        BY <2>0, <2>2, <3>4 DEF Taken, Sending
      <4>2. counter = Taken /\ \A i \in 0 .. Taken - 1 : block_mem[i] = <<block_addr, i>>
        <5>1. counter = Taken % SectorLen
          BY <1>2, <3>4 DEF Stored, Cycle, SectorInv
        <5>2. Taken % SectorLen = Taken
          BY <2>0, <4>1, SmallRemainder
        <5> QED
          BY <1>2, <3>4, <4>1, <5>1, <5>2 DEF Stored, Cycle, SectorInv
      <4>3. block_mem' = [block_mem EXCEPT ![Taken] = <<block_addr, Taken>>]
        BY <2>5, <3>4, <4>1, <4>2 DEF Sending
      <4>4. counter' = Taken' % SectorLen
        BY <2>5, <3>4, <4>1, <4>2
      <4>5. ASSUME NEW i \in 0 .. Taken' - 1 PROVE block_mem'[i] = <<block_addr', i>>
        <5>1. i \in 0 .. Last /\ (i = Taken \/ i \in 0 .. Taken - 1)
          BY <2>0, <4>1
        <5> HIDE DEF Taken
        <5> QED
          BY <1>2, <2>0, <4>2, <4>3, <5>1
      <4>6. ~Sent'
        BY <3>4 DEF Sent, Sending
      <4> QED
        BY <4>4, <4>5, <4>6 DEF Stored
    <3>5. Owed \in {0, 1}
      BY DEF Owed
    <3> QED
      BY <1>4, <2>2, <3>1, <3>2, <3>3, <3>4, <3>5
  <2> QED
    BY <1>1, <1>3, <2>3, <2>6 DEF SectorInv
<1> QED
  BY <1>5, <1>6

(* A state that decodes leaves the controller at rest.                     *)
LEMMA DecodeSectors ==
  ASSUME Cycle, Loader, NEW s \in DecodeStates, Decode(s),
         state' \in DecodeStates \cup {"READ_BLOCK1", "READ_FILE2", "INIT", "ERROR"},
         WholeSector'
  PROVE  SectorInv'
<1>1. Calm'
  BY CycleCalm
<1>2. state = s /\ UNCHANGED <<rd_is, addr_is, hndShk_is, sd_reset>>
  BY DEF Decode, hostVars
<1>3. ~rd_is /\ ~sd_reset /\ AtRest
  BY <1>2 DEF Cycle, SectorInv, Requests, Resets, Decoding, DecodeStates
<1>4. AtRest'
  BY <1>3, PortAsked DEF Cycle, Types, SectorInv, AtRest
<1>5. Requests' /\ Resets' /\ Decoding'
  BY <1>2, <1>3, <1>4 DEF Requests, Resets, Decoding
<1>6. Asking'
  BY <1>2, <1>3, <1>4 DEF Asking, AtRest
<1>7. Taking' /\ Stored'
  BY DEF Taking, Stored, DecodeStates
<1> QED
  BY <1>1, <1>5, <1>6, <1>7 DEF SectorInv

LEMMA DecodingSectors ==
  ASSUME Cycle, Loader,
         \/ FatCheck \/ PartitionType \/ CheckLba \/ CheckPartition
         \/ ReadDir1 \/ Compare1 \/ ReadFat1 \/ ReadFat2 \/ ReadFile1
  PROVE  SectorInv'
<1>1. CASE FatCheck
  <2>1. state' \in {"PARTITION_TYPE", "ERROR"} /\ UNCHANGED <<block_mem, block_addr>> /\ WholeSector
    BY <1>1 DEF FatCheck, Decode, Enter, Error, Cycle, SectorInv
  <2>2. state = "FAT_CHECK"
    BY <1>1 DEF FatCheck, Decode
  <2> QED
    BY <1>1, <2>1, <2>2, DecodeSectors DEF FatCheck, WholeSector, DecodeStates
<1>2. CASE PartitionType
  <2>1. state' \in {"CHECK_LBA", "ERROR"} /\ UNCHANGED <<block_mem, block_addr>> /\ WholeSector
    BY <1>2 DEF PartitionType, Decode, Enter, Error, Cycle, SectorInv
  <2>2. state = "PARTITION_TYPE"
    BY <1>2 DEF PartitionType, Decode
  <2> QED
    BY <1>2, <2>1, <2>2, DecodeSectors DEF PartitionType, WholeSector, DecodeStates
<1>3. CASE CheckLba
  <2>1. state' = "READ_BLOCK1"
    BY <1>3 DEF CheckLba, Call
  <2> QED
    BY <1>3, <2>1, DecodeSectors DEF CheckLba, WholeSector, DecodeStates
<1>4. CASE CheckPartition
  <2>1. state' \in {"READ_DIR1", "ERROR"}
    BY <1>4 DEF CheckPartition, Enter, Error
  <2> QED
    BY <1>4, <2>1, DecodeSectors DEF CheckPartition, WholeSector, DecodeStates
<1>5. CASE ReadDir1
  <2>1. state' \in {"READ_FAT1", "READ_BLOCK1"}
    BY <1>5 DEF ReadDir1, Enter, Call
  <2> QED
    BY <1>5, <2>1, DecodeSectors DEF ReadDir1, WholeSector, DecodeStates
<1>6. CASE Compare1
  <2>1. /\ state' \in {"COMPARE1", "READ_FILE1", "READ_DIR1", "ERROR"} /\ state = "COMPARE1"
        /\ UNCHANGED <<block_mem, block_addr>> /\ WholeSector
    BY <1>6 DEF Compare1, Decode, Enter, Error, Cycle, SectorInv
  <2> QED
    BY <1>6, <2>1, DecodeSectors DEF Compare1, WholeSector, DecodeStates
<1>7. CASE ReadFat1
  <2>1. state' = "READ_BLOCK1"
    BY <1>7 DEF ReadFat1, Call
  <2> QED
    BY <1>7, <2>1, DecodeSectors DEF ReadFat1, WholeSector, DecodeStates
<1>8. CASE ReadFat2
  <2>1. state' \in {"INIT", "READ_DIR1", "READ_FILE1"}
    BY <1>8 DEF ReadFat2, Enter, Cycle, Types, LoaderTypes, Walks
  <2> QED
    BY <1>8, <2>1, DecodeSectors DEF ReadFat2, WholeSector, DecodeStates
<1>9. CASE ReadFile1
  <2>1. state' = "READ_FILE2"
    BY <1>9 DEF ReadFile1, Enter
  <2> QED
    BY <1>9, <2>1, DecodeSectors DEF ReadFile1, WholeSector, DecodeStates
<1> QED
  BY <1>1, <1>2, <1>3, <1>4, <1>5, <1>6, <1>7, <1>8, <1>9

LEMMA ReadFile3Sectors ==
  ASSUME Cycle, Loader, ReadFile3
  PROVE  SectorInv'
<1>1. Calm'
  BY CycleCalm
<1>2. state = "READ_FILE3" /\ rd_is' = FALSE /\ UNCHANGED <<sd_reset, addr_is>>
  BY DEF ReadFile3
<1>3. Requests' /\ Resets'
  BY <1>2 DEF Requests, Resets, Cycle, SectorInv
<1>4. (Sending \/ Sent) /\ ~sd_reset
  BY <1>2 DEF Cycle, SectorInv, Resets, Taking
<1>5. CASE Falls
  <2>1. Sent /\ ~busy_os /\ ~busy_os_r'
    BY <1>4, <1>5 DEF Falls, Sending, Cycle
  <2>2. phase' = "ready" /\ ~busy_os'
    BY <1>4, <2>1, PortAsked DEF Cycle, Types, SectorInv, Sent
  <2>3. state' \in {"READ_FILE2", "READ_FAT1"}
    BY <1>5 DEF ReadFile3, Enter
  <2>4. Asking' /\ Taking' /\ Stored' /\ Decoding' /\ WholeSector'
    BY <1>2, <2>1, <2>2, <2>3 DEF Asking, Taking, Stored, Decoding, WholeSector, AtRest
  <2> QED
    BY <1>1, <1>3, <2>4 DEF SectorInv
<1>6. CASE ~Falls /\ cur.size = 0
  <2>1. state' = "IDLE"
    BY <1>6 DEF ReadFile3, Enter
  <2> QED
    BY <1>1, <1>3, <2>1 DEF SectorInv, Asking, Taking, Stored, Decoding,
       DecodeStates, WholeSector
<1>7. CASE ~Falls /\ cur.size # 0
  <2>1. state' = "READ_FILE3"
    BY <1>7 DEF ReadFile3, Enter
  <2>2. Exchange
    BY <1>2, <1>4, <1>7 DEF ReadFile3, Exchange, Cycle
  <2>3. Sending' \/ Sent'
    BY <1>4, <2>2, ExchangeKeeps DEF Cycle
  <2> QED
    BY <1>1, <1>3, <2>1, <2>3 DEF SectorInv, Asking, Taking, Stored, Decoding,
       DecodeStates, WholeSector
<1> QED
  BY <1>5, <1>6, <1>7

LEMMA InitSectors == Init => SectorInv
BY DEF Init, Port!Init, SectorInv, Calm, Requests, Resets, Asking, Taking, Stored,
   Decoding, DecodeStates, WholeSector

LEMMA NextSectors ==
  NoReadErrors => (Types /\ SectorInv /\ [Next]_vars => SectorInv')
<1> SUFFICES ASSUME NoReadErrors, Types, SectorInv, [Next]_vars PROVE SectorInv'
  OBVIOUS
<1>1. Types'
  BY NextTypes
<1>2. CASE Works \/ Waits
  <2>1. Cycle /\ Loader
    BY <1>1, <1>2 DEF Works, Waits, Controller, Cycle, Loader
  <2>2. CASE Rest
    <3>1. Calm'
      BY <2>1, CycleCalm
    <3>2. /\ state \in {"IDLE", "ERROR"} /\ state' \in {"IDLE", "ERROR", "INIT"}
          /\ UNCHANGED <<rd_is, sd_reset>>
      BY <2>2 DEF Rest, Enter, hostVars
    <3>3. ~rd_is /\ ~sd_reset
      BY <3>2 DEF SectorInv, Requests, Resets
    <3> QED
      BY <3>1, <3>2, <3>3 DEF SectorInv, Requests, Resets, Asking, Taking, Stored,
         Decoding, DecodeStates, WholeSector
  <2> QED
    BY <2>1, <2>2, StartSectors, RequestSectors, ReadBlock2Sectors, DecodingSectors,
       ReadFile3Sectors DEF Loader
<1>3. CASE BoardReset
  BY <1>3 DEF BoardReset, Port!Reset, SectorInv, Calm, Requests, Resets, Asking,
     Taking, Stored, Decoding, DecodeStates, WholeSector
<1>4. CASE NextStep \/ UNCHANGED vars
  <2>1. UNCHANGED <<fsmVars, hostVars, memVars, busy_os_r, portVars>>
    BY <1>4 DEF NextStep, vars
  <2> QED
    BY <2>1 DEF fsmVars, hostVars, memVars, portVars, SectorInv, Calm, Requests,
       Resets, Asking, Accepted, Taking, Sending, Sent, Taken, Owed, Stored,
       Decoding, AtRest, WholeSector
<1> QED
  BY <1>2, <1>3, <1>4 DEF Next

LEMMA SectorsHold == NoReadErrors => (Spec => []SectorInv)
<1> SUFFICES ASSUME NoReadErrors PROVE Spec => []SectorInv
  OBVIOUS
<1>1. Types /\ SectorInv /\ [Next]_vars => SectorInv'
  BY NextSectors
<1> QED
  BY <1>1, TypesHold, InitSectors, PTL DEF Spec

(* What the loader decodes is the whole of the sector it asked for last,   *)
(* each unit in its place: although it sees busy_o and the handshake a     *)
(* cycle late, is reset at any moment, and no wait has a limit.            *)
THEOREM DecodesWholeSectors == NoReadErrors => (Spec => []WholeSector)
<1> SUFFICES ASSUME NoReadErrors PROVE Spec => []WholeSector
  OBVIOUS
<1>1. SectorInv => WholeSector
  BY DEF SectorInv
<1> QED
  BY <1>1, SectorsHold, PTL

=============================================================================
