------------------------------- MODULE SdFat -------------------------------
(***************************************************************************)
(* The FAT32 loader sdfat32 (sdfat.vhd): finds a file in the root          *)
(* directory of the card and copies it to the RAM of mist_top.  The        *)
(* controller below it is BlockPort, which SdCardCtrl implements.          *)
(*                                                                         *)
(* Grain: one step per cycle of clk50; loader, controller and RAM step     *)
(* together, each from the values the others had before the edge.          *)
(*                                                                         *)
(* Data: a sector has SectorLen units, a unit being what the loader reads  *)
(* together: the fields of the boot sector, a directory entry, a FAT       *)
(* entry, a byte of the file.  A unit in the block memory or in the RAM is *)
(* known by where on the card it came from: <<sector, index>>.             *)
(***************************************************************************)
EXTENDS Integers, Sequences

CONSTANTS
  SectorLen,      \* units of a sector: 512 bytes, 16 entries, 128 FAT entries
  AddrSpace,      \* sector numbers: 2^32 in the code
  CountMod,       \* cluster_cnt's range, in units: 2^15 bytes in the code
  RamSize,        \* units of the RAM: 2^14 bytes in mist_top
  FileAddr,       \* file_addr: 0 in mist_top
  FileName,       \* filename_i, the characters one by one
  Divider,        \* the controller's clkDivider_v: 1 with mist_top's clocks
  Disks,          \* the cards to try
  FailIn,         \* phases in which the card may answer with an error
  MayReset        \* may the board be reset while the handshake is this

ASSUME FatAssumption ==
  /\ SectorLen \in Nat \ {0, 1} /\ AddrSpace \in Nat \ {0} /\ CountMod \in Nat \ {0}
  /\ RamSize \in Nat \ {0} /\ FileAddr \in Nat /\ Divider \in Nat
  /\ FileName \in Seq(Nat) /\ FileName # <<>> /\ MayReset \subseteq {0, 1}

\* What a card's sectors can hold: numbers, and names of a fixed length.
ASSUME DiskAssumption ==
  \A d \in Disks :
    /\ d.sig \in BOOLEAN /\ d.bootsig \in BOOLEAN /\ d.ok \in BOOLEAN
    /\ d.lba \in 0 .. AddrSpace - 1 /\ d.spc \in Nat
    /\ d.reserved \in Nat /\ d.fatsize \in Nat /\ d.root \in Nat
    /\ DOMAIN d.next \subseteq Nat /\ \A c \in DOMAIN d.next : d.next[c] \in Nat
    /\ d.dir \in Seq([name : {s \in Seq(Nat) : Len(s) = Len(FileName)},
                       size : Nat, cluster : Nat])

VARIABLES
  state, return_state, error_i,
  rd_is, addr_is, hndShk_is, busy_os_r, sd_reset,      \* to the controller
  block_mem, counter, block_addr,
  vol,                \* the volume: valid, lba, fat, data, spc
  cur,                \* the walk: next, current, sector, entry, cluster, size,
                      \* ram (ram_addr), back (return_from_fat)
  ram_d, ram_wr, ram,
  phase, busy_os, hndShk_os, left, addr, timer,        \* the controller
  next_step,          \* from the IO controller: status(1)
  disk                \* the card's contents

fsmVars  == <<state, return_state, error_i>>
hostVars == <<rd_is, addr_is, hndShk_is, sd_reset>>
memVars  == <<block_mem, counter, block_addr>>
ramVars  == <<ram_d, ram_wr>>
portVars == <<phase, busy_os, hndShk_os, left, addr>>
vars     == <<fsmVars, hostVars, memVars, vol, cur, ramVars, busy_os_r, ram,
              portVars, timer, next_step, disk>>

-----------------------------------------------------------------------------
(* The card: a FAT32 volume *)

Last == SectorLen - 1

FatStart  == disk.lba + disk.reserved
DataStart == FatStart + 2 * disk.fatsize
Sector(cluster, n) == DataStart + (cluster - 2) * disk.spc + n

\* The cluster n steps down the chain of a first cluster.
Cluster(first, n) ==
  LET chain[k \in 0 .. n] == IF k = 0 THEN first ELSE disk.next[chain[k - 1]]
  IN chain[n]

\* Where unit k of the directory or file that begins at a cluster lies.
Place(first, k) ==
  <<Sector(Cluster(first, (k \div SectorLen) \div disk.spc), (k \div SectorLen) % disk.spc),
    k % SectorLen>>

Blank == [sig |-> FALSE, type |-> "other", lba |-> 0, ok |-> FALSE, spc |-> 0,
          reserved |-> 0, fatsize |-> 0, root |-> 0, name |-> <<0>>,
          size |-> 0, cluster |-> 0, next |-> 0]

\* What the loader finds in a unit.
Unit(place) ==
  LET s == place[1]
      i == place[2]
      f == (s - FatStart) * SectorLen + i
      inDir == {k \in 1 .. Len(disk.dir) : Place(disk.root, k - 1) = place}
  IN IF s = 0 /\ i = Last
       THEN [Blank EXCEPT !.sig = disk.sig, !.type = disk.type, !.lba = disk.lba]
     ELSE IF s = disk.lba /\ i = Last
       THEN [Blank EXCEPT !.sig = disk.bootsig]
     ELSE IF s = disk.lba /\ i = 0
       THEN [Blank EXCEPT !.ok = disk.ok, !.spc = disk.spc, !.reserved = disk.reserved,
                          !.fatsize = disk.fatsize, !.root = disk.root]
     ELSE IF f \in DOMAIN disk.next /\ s < DataStart
       THEN [Blank EXCEPT !.next = disk.next[f]]
     ELSE IF inDir # {}
       THEN LET e == disk.dir[CHOOSE k \in inDir : TRUE]
            IN [Blank EXCEPT !.name = e.name, !.size = e.size, !.cluster = e.cluster]
     ELSE Blank

\* The unit at a position of the block memory.
Mem(i) == Unit(block_mem[i])

-----------------------------------------------------------------------------
(* The controller *)

Port == INSTANCE BlockPort WITH
  BlockSize <- SectorLen, busy <- busy_os, hs_o <- hndShk_os,
  rd <- rd_is, wr <- FALSE, hs_i <- hndShk_is, next_addr <- addr_is

\* The controller answers the handshake as soon as its clock phase is over; for
\* everything else it takes its time.
Answering == hndShk_os = 1 /\ hndShk_is = 1

ControllerStep ==
  \/ sd_reset /\ Port!Reset /\ timer' = 0
  \/ /\ ~sd_reset /\ timer = 0
     /\ Port!Step \/ (phase \in FailIn /\ Port!Fail) \/ Port!Report
     /\ timer' = IF hndShk_os = 0 /\ hndShk_os' = 1 THEN Divider ELSE 0

ControllerWait ==
  /\ ~sd_reset
  /\ timer > 0 \/ ~Answering
  /\ timer' = IF timer > 0 THEN timer - 1 ELSE 0
  /\ UNCHANGED portVars

\* data_os, while the handshake is high.
data_os == <<addr, Last - left>>

-----------------------------------------------------------------------------
(* The loader: states up to the directory *)

Enter(s) == state' = s /\ UNCHANGED <<return_state, error_i>>
Call(s)  == state' = "READ_BLOCK1" /\ return_state' = s /\ UNCHANGED error_i
Error(n) == state' = "ERROR" /\ error_i' = n /\ UNCHANGED return_state

Falls == busy_os_r /\ ~busy_os
Rises == ~busy_os_r /\ busy_os

\* Mutant: a second load finds the controller idle and waits for it.
StartLoadUnreset ==
  /\ state = "INIT"
  /\ state' = IF Falls THEN "READ_BLOCK1" ELSE "INIT"
  /\ return_state' = "FAT_CHECK" /\ error_i' = 0
  /\ rd_is' = FALSE /\ sd_reset' = FALSE
  /\ counter' = 0 /\ block_addr' = 0
  /\ vol' = [valid |-> FALSE, lba |-> 0, fat |-> 0, data |-> 0, spc |-> 0]
  /\ cur' = [cur EXCEPT !.sector = 0, !.entry = 0]
  /\ UNCHANGED <<addr_is, hndShk_is, block_mem, ramVars>>

\* Every load begins with a reset of the controller, unless it is just ready.
StartLoad ==
  /\ state = "INIT"
  /\ state' = IF Falls THEN "READ_BLOCK1" ELSE "INIT"
  /\ return_state' = "FAT_CHECK" /\ error_i' = 0
  /\ rd_is' = FALSE /\ sd_reset' = (~busy_os /\ ~Falls)
  /\ counter' = 0 /\ block_addr' = 0
  /\ vol' = [valid |-> FALSE, lba |-> 0, fat |-> 0, data |-> 0, spc |-> 0]
  /\ cur' = [cur EXCEPT !.sector = 0, !.entry = 0]
  /\ UNCHANGED <<addr_is, hndShk_is, block_mem, ramVars>>

\* Asks for the sector until the controller is busy.
Request(from, to) ==
  /\ state = from
  /\ addr_is' = block_addr /\ rd_is' = TRUE
  /\ Enter(IF Rises THEN to ELSE from)
  /\ UNCHANGED <<hndShk_is, sd_reset, block_mem, block_addr, vol, cur, ramVars>>

ReadBlock1 == Request("READ_BLOCK1", "READ_BLOCK2") /\ counter' = 0

\* Mutant: the byte is taken again while the controller lowers its handshake.
ReadBlock2Twice ==
  /\ state = "READ_BLOCK2"
  /\ rd_is' = FALSE
  /\ LET take == hndShk_os = 1
     IN /\ block_mem' = IF take THEN [block_mem EXCEPT ![counter] = data_os] ELSE block_mem
        /\ counter' = IF take THEN (counter + 1) % SectorLen ELSE counter
        /\ hndShk_is' = IF Falls \/ hndShk_os = 0 THEN 0 ELSE 1
  /\ Enter(IF Falls THEN return_state ELSE "READ_BLOCK2")
  /\ UNCHANGED <<addr_is, sd_reset, block_addr, vol, cur, ramVars>>

\* Mutant: the counter can hold 512.
ReadBlock2Wide ==
  /\ state = "READ_BLOCK2"
  /\ rd_is' = FALSE
  /\ LET take == hndShk_os = 1 /\ hndShk_is = 0
     IN /\ block_mem' = IF take THEN [block_mem EXCEPT ![counter] = data_os] ELSE block_mem
        /\ counter' = IF take THEN counter + 1 ELSE counter
        /\ hndShk_is' = IF Falls \/ hndShk_os = 0 THEN 0 ELSE 1
  /\ Enter(IF Falls THEN return_state ELSE "READ_BLOCK2")
  /\ UNCHANGED <<addr_is, sd_reset, block_addr, vol, cur, ramVars>>

\* counter has 9 bits, so the comparison with 512 is never true.
ReadBlock2 ==
  /\ state = "READ_BLOCK2"
  /\ rd_is' = FALSE
  /\ LET take == hndShk_os = 1 /\ hndShk_is = 0
     IN /\ block_mem' = IF take THEN [block_mem EXCEPT ![counter] = data_os] ELSE block_mem
        /\ counter' = IF take THEN (counter + 1) % SectorLen ELSE counter
        /\ hndShk_is' = IF Falls \/ hndShk_os = 0 THEN 0 ELSE 1
  /\ Enter(IF Falls THEN return_state ELSE "READ_BLOCK2")
  /\ UNCHANGED <<addr_is, sd_reset, block_addr, vol, cur, ramVars>>

\* A state that only decodes the block memory.
Decode(s) == state = s /\ UNCHANGED <<hostVars, block_mem, counter, ramVars>>

FatCheck ==
  /\ Decode("FAT_CHECK")
  /\ IF Mem(Last).sig THEN Enter("PARTITION_TYPE") ELSE Error(2)
  /\ UNCHANGED <<block_addr, vol, cur>>
\* Mutant: a card without a partition table is refused.
PartitionTypeStrict ==
  /\ Decode("PARTITION_TYPE")
  /\ IF Mem(Last).type = "FAT32"
       THEN Enter("CHECK_LBA") /\ vol' = [vol EXCEPT !.valid = (Mem(Last).type = "FAT32")]
       ELSE Error(3) /\ UNCHANGED vol
  /\ UNCHANGED <<block_addr, cur>>

PartitionType ==
  /\ Decode("PARTITION_TYPE")
  /\ IF Mem(Last).type \in {"FAT32", "none"}
       THEN Enter("CHECK_LBA") /\ vol' = [vol EXCEPT !.valid = (Mem(Last).type = "FAT32")]
       ELSE Error(3) /\ UNCHANGED vol
  /\ UNCHANGED <<block_addr, cur>>

CheckLba ==
  /\ Decode("CHECK_LBA")
  /\ block_addr' = IF vol.valid THEN Mem(Last).lba ELSE 0
  /\ vol' = [vol EXCEPT !.lba = block_addr']
  /\ Call("CHECK_PARTITION")
  /\ UNCHANGED cur

CheckPartition ==
  /\ Decode("CHECK_PARTITION")
  /\ LET boot == Mem(0)
         fat  == (vol.lba + boot.reserved) % AddrSpace
     IN IF boot.ok /\ Mem(Last).sig
          THEN /\ Enter("READ_DIR1")
               /\ vol' = [vol EXCEPT !.spc = boot.spc, !.fat = fat,
                                     !.data = (fat + 2 * boot.fatsize) % AddrSpace]
               /\ cur' = [cur EXCEPT !.next = boot.root, !.cluster = 0, !.sector = 0]
          ELSE Error(4) /\ UNCHANGED <<vol, cur>>
  /\ UNCHANGED block_addr

-----------------------------------------------------------------------------
(* The loader: directory, FAT and file *)

ClusterStart(c) == (vol.data + (c - 2) * vol.spc) % AddrSpace

\* COMPARE1 comes back here with its last entry: sector_cnt is never 512.
ReadDir1 ==
  /\ Decode("READ_DIR1")
  /\ LET beyond  == cur.sector = SectorLen
         whole   == cur.cluster + SectorLen = SectorLen * vol.spc
         counted == IF beyond THEN (cur.cluster + SectorLen) % CountMod ELSE cur.cluster
     IN /\ block_addr' = IF beyond THEN (block_addr + 1) % AddrSpace
                                   ELSE ClusterStart(cur.next)
        /\ cur' = [cur EXCEPT !.current = cur.next, !.sector = 0,
                              !.cluster = IF whole THEN 0 ELSE counted,
                              !.back = IF whole THEN "READ_DIR1" ELSE cur.back]
        /\ IF whole THEN Enter("READ_FAT1") ELSE Call("COMPARE1")
  /\ UNCHANGED vol

\* Compares one character of an entry's name.
Compare1 ==
  /\ Decode("COMPARE1")
  /\ LET e == Mem(cur.sector)
         n == cur.entry + 1
     IN \/ e.name[1] = 0 /\ Error(5) /\ UNCHANGED cur
        \/ /\ e.name[1] # 0 /\ e.name[n] = FileName[n]
           /\ IF n = Len(FileName)
                THEN /\ cur' = [cur EXCEPT !.size = e.size, !.next = e.cluster,
                                       !.ram = FileAddr]
                     /\ Enter("READ_FILE1")
                ELSE cur' = [cur EXCEPT !.entry = n] /\ Enter("COMPARE1")
        \/ /\ e.name[1] # 0 /\ e.name[n] # FileName[n]
           /\ IF cur.sector + 1 = SectorLen
                THEN Enter("READ_DIR1") /\ UNCHANGED cur
                ELSE /\ cur' = [cur EXCEPT !.sector = cur.sector + 1, !.entry = 0]
                     /\ Enter("COMPARE1")
  /\ UNCHANGED <<block_addr, vol>>

ReadFat1 ==
  /\ Decode("READ_FAT1")
  /\ block_addr' = (vol.fat + cur.current \div SectorLen) % AddrSpace
  /\ cur' = [cur EXCEPT !.next = 0]
  /\ Call("READ_FAT2")
  /\ UNCHANGED vol

ReadFat2 ==
  /\ Decode("READ_FAT2")
  /\ cur' = [cur EXCEPT !.next = Mem(cur.current % SectorLen).next]
  /\ Enter(cur.back)
  /\ UNCHANGED <<block_addr, vol>>


\* Mutant: the bytes of the cluster before are still counted.
ReadFile1Uncleared ==
  /\ Decode("READ_FILE1")
  /\ block_addr' = ClusterStart(cur.next)
  /\ cur' = [cur EXCEPT !.current = cur.next]
  /\ Enter("READ_FILE2")
  /\ UNCHANGED vol

ReadFile1 ==
  /\ Decode("READ_FILE1")
  /\ block_addr' = ClusterStart(cur.next)
  /\ cur' = [cur EXCEPT !.current = cur.next, !.cluster = 0]
  /\ Enter("READ_FILE2")
  /\ UNCHANGED vol

ReadFile2 == Request("READ_FILE2", "READ_FILE3") /\ UNCHANGED counter

\* Passes the bytes of a sector to the RAM; the file may end within it.
ReadFile3 ==
  /\ state = "READ_FILE3"
  /\ rd_is' = FALSE
  /\ LET done == cur.size = 0
         take == ~done /\ hndShk_os = 1 /\ hndShk_is = 0
         more == cur.cluster < SectorLen * vol.spc - 1
     IN /\ hndShk_is' = IF done \/ hndShk_os = 0 THEN 0 ELSE 1
        /\ ram_wr' = take
        /\ ram_d' = IF take THEN data_os ELSE ram_d
        /\ cur' = [cur EXCEPT !.ram     = IF take THEN cur.ram + 1 ELSE cur.ram,
                              !.cluster = IF take THEN (cur.cluster + 1) % CountMod
                                                  ELSE cur.cluster,
                              !.size    = IF take THEN cur.size - 1 ELSE cur.size,
                              !.back    = IF Falls /\ ~more THEN "READ_FILE1" ELSE cur.back]
        /\ block_addr' = IF Falls /\ more THEN (block_addr + 1) % AddrSpace ELSE block_addr
        /\ Enter(CASE Falls /\ more  -> "READ_FILE2"
                   [] Falls /\ ~more -> "READ_FAT1"
                   [] ~Falls /\ done -> "IDLE"
                   [] OTHER          -> "READ_FILE3")
  /\ UNCHANGED <<addr_is, sd_reset, block_mem, counter, vol>>

\* modus_i is 00 in mist_top: only next_step starts a load.
Rest ==
  /\ state \in {"IDLE", "ERROR"}
  /\ Enter(IF state = "IDLE" /\ next_step = 1 THEN "INIT" ELSE state)
  /\ UNCHANGED <<hostVars, memVars, vol, cur, ramVars>>

Loader ==
  /\ \/ StartLoad \/ ReadBlock1 \/ ReadBlock2 \/ FatCheck \/ PartitionType \/ CheckLba
     \/ CheckPartition \/ ReadDir1 \/ Compare1 \/ ReadFat1 \/ ReadFat2
     \/ ReadFile1 \/ ReadFile2 \/ ReadFile3 \/ Rest
  /\ busy_os_r' = busy_os

-----------------------------------------------------------------------------
(* Specification *)

RamWrite == ram' = IF ram_wr THEN [ram EXCEPT ![cur.ram % RamSize] = ram_d] ELSE ram

Works == Loader /\ ControllerStep /\ RamWrite /\ UNCHANGED <<next_step, disk>>
Waits == Loader /\ ControllerWait /\ RamWrite /\ UNCHANGED <<next_step, disk>>

\* The board's reset reaches loader and controller; hndShk_is and ram_wr keep
\* their values.
BoardReset ==
  /\ hndShk_is \in MayReset
  /\ state' = "IDLE" /\ error_i' = 0
  /\ sd_reset' = FALSE /\ rd_is' = FALSE
  /\ counter' = 0 /\ block_addr' = 0
  /\ Port!Reset /\ timer' = 0
  /\ RamWrite
  /\ UNCHANGED <<return_state, addr_is, hndShk_is, busy_os_r, block_mem, vol, cur,
                 ramVars, next_step, disk>>

NextStep ==
  /\ next_step' = 1 - next_step
  /\ UNCHANGED <<fsmVars, hostVars, memVars, vol, cur, ramVars, busy_os_r, ram,
                 portVars, timer, disk>>

\* Just after the power-on reset, which mist_top holds until the PLL locks.
Init ==
  /\ state = "IDLE" /\ return_state = "INIT" /\ error_i = 0
  /\ rd_is = FALSE /\ addr_is = 0 /\ hndShk_is = 0 /\ busy_os_r = TRUE /\ sd_reset = FALSE
  /\ block_mem = [i \in 0 .. Last |-> <<AddrSpace, i>>] /\ counter = 0 /\ block_addr = 0
  /\ vol = [valid |-> FALSE, lba |-> 0, fat |-> 0, data |-> 0, spc |-> 0]
  /\ cur = [next |-> 0, current |-> 0, sector |-> 0, entry |-> 0, cluster |-> 0,
            size |-> 0, ram |-> 0, back |-> "INIT"]
  /\ ram_d = <<AddrSpace, 0>> /\ ram_wr = FALSE
  /\ ram = [a \in 0 .. RamSize - 1 |-> <<AddrSpace, 0>>]
  /\ Port!Init /\ timer = 0 /\ next_step = 0
  /\ disk \in Disks

Next == Works \/ Waits \/ BoardReset \/ NextStep

\* The clock runs, and the controller is never idle for ever when it could act.
Fairness == WF_vars(Works) /\ WF_vars(Works \/ Waits)

Spec == Init /\ [][Next]_vars /\ Fairness

-----------------------------------------------------------------------------
(* Properties *)

Matches == {k \in 1 .. Len(disk.dir) : disk.dir[k].name = FileName}
Found   == Matches # {}
File    == disk.dir[CHOOSE k \in Matches : \A j \in Matches : k <= j]

FileStates == {"READ_FILE1", "READ_FILE2", "READ_FILE3"}
Copied     == File.size - cur.size

TypeOK ==
  /\ state \in {"INIT", "READ_BLOCK1", "READ_BLOCK2", "FAT_CHECK", "PARTITION_TYPE",
                "CHECK_LBA", "CHECK_PARTITION", "READ_DIR1", "COMPARE1", "READ_FAT1",
                "READ_FAT2", "IDLE", "ERROR"} \cup FileStates
  /\ rd_is \in BOOLEAN /\ sd_reset \in BOOLEAN /\ hndShk_is \in {0, 1}
  /\ counter \in 0 .. Last /\ left \in 0 .. SectorLen /\ timer \in 0 .. Divider
  /\ block_addr \in 0 .. AddrSpace - 1 /\ addr \in 0 .. AddrSpace - 1
  /\ cur.sector \in 0 .. Last /\ cur.entry \in 0 .. Len(FileName) - 1
  /\ cur.cluster \in 0 .. CountMod - 1 /\ cur.size \in Nat
  /\ error_i \in 0 .. 5

\* What is decoded is all of the sector last asked for, and nothing of another:
\* no byte is lost or taken twice in the handshake.
WholeSector ==
  state \in {"FAT_CHECK", "PARTITION_TYPE", "CHECK_LBA", "CHECK_PARTITION",
             "COMPARE1", "READ_FAT2"} =>
    \A i \in 0 .. Last : block_mem[i] = <<block_addr, i>>

\* The RAM holds what was read of the file so far, one unit behind the other
\* from this place on; the last of them is perhaps on its way.
FileAt(start) ==
  \A k \in 0 .. Copied - 1 :
    LET unit == Place(File.cluster, k)
    IN IF ram_wr /\ k = Copied - 1 THEN ram_d = unit
                                   ELSE ram[(start + k) % RamSize] = unit

\* What is copied is the file looked for, without a gap, in its own order across
\* sectors and clusters.  Where in the RAM it begins is said by FileAddress.
FileInOrder ==
  state \in FileStates => Found /\ \E start \in 0 .. RamSize - 1 : FileAt(start)

\* An error code says what is wrong with the card.
ErrorMeans ==
  state = "ERROR" =>
    CASE error_i = 2 -> ~disk.sig
      [] error_i = 3 -> disk.type \notin {"FAT32", "none"}
      [] error_i = 4 -> ~(disk.ok /\ disk.bootsig)
      [] error_i = 5 -> ~Found
      [] OTHER       -> FALSE

\* Every load comes to an end, with the file or with an error, unless the
\* controller has stalled on an error of its own.
Ends == state = "INIT" ~> state \in {"IDLE", "ERROR"} \/ phase = "failed"

\* Line 32: the file is copied "into ram at addr file_addr".
FileAddress == state \in FileStates => FileAt(FileAddr)

=============================================================================
