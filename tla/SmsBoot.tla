------------------------------ MODULE SmsBoot ------------------------------
(***************************************************************************)
(* The SMS boot loader (bootloader/main.c): mount the card, let the user   *)
(* pick a file, copy it to the ROM area through the mapper's third slot,   *)
(* and start it.  One action per turn of each loop of the code: a key, a   *)
(* sector of a directory, a sector of a file.                              *)
(*                                                                         *)
(* The buttons change on their own; wait_key samples them.  The reset       *)
(* button restarts the program with its memory as it is, unless the reset  *)
(* falls into the load of a sector.                                        *)
(***************************************************************************)
EXTENDS SmsFat

CONSTANTS
    Screen,       \* lines of the listing; 20
    PageSectors,  \* sectors of a page of the mapper; 32
    Pages,        \* pages a byte can select; 256
    Debug         \* DEBUG is defined, as the Makefile does

ASSUME BootAssumption ==
    /\ {Screen, PageSectors, Pages} \subseteq Nat \ {0}
    /\ Pages > 2 /\ Pages * PageSectors < SectorSpace
    /\ Debug \in BOOLEAN

Buttons == {"up", "down", "fire"}

VARIABLES
    pc,         \* where main is
    sdOk,       \* argument of choose_mode
    choice,     \* the line chosen there
    top, cur,   \* top_of_screen and current, counted from entries
    size,       \* sectors loaded; the DWORD of the code counts their bytes
    rom,        \* the memory behind the mapper, sector by sector
    banks,      \* mapper registers
    reported,   \* error messages of load_rom on the screen: 0, or 1 and 2 in
                \* turn, so that a message is a step
    lost,       \* history: a FAT sector of the file could not be loaded
    joy,        \* buttons held down
    looking,    \* wait_key has had its first look
    seen,       \* j1 in wait_key
    acts,       \* how often the press of a button under way has acted
    swapped,    \* the card has been exchanged
    opened,     \* history: cluster of the directory listed
    chosen      \* history: first cluster of the file chosen

menuVars == <<sdOk, choice, top, cur>>
loadVars == <<size, rom, banks, reported, lost>>
keyVars  == <<joy, looking, seen, acts>>
vars == <<fatVars, pc, menuVars, loadVars, keyVars, swapped, opened, chosen>>

EmptyRom == [a \in 0..(Pages * PageSectors - 1) |-> Nowhere]

Init ==
    /\ \E s \in Setups : vol = s[1] /\ width = s[2]
    /\ fat = [fat32 |-> FALSE, spc |-> 0, firstFat |-> 0, firstData |-> 0,
              current |-> 0, root |-> 0, rootSize |-> 0]
    /\ fatBuf = Nowhere
    /\ dir = [j \in 0..(DirRoom - 1) |-> NoEntry]
    /\ walk = NoWalk
    /\ file = NoFile
    /\ pc = "start" /\ sdOk = FALSE /\ choice = 0 /\ top = 0 /\ cur = 0
    /\ size = 0 /\ rom = EmptyRom
    /\ banks = <<0, 1, 2>>
    /\ reported = 0 /\ lost = FALSE
    /\ joy = {} /\ looking = FALSE /\ seen = {} /\ acts = [b \in Buttons |-> 0]
    /\ swapped = FALSE /\ opened = 0 /\ chosen = 0

-----------------------------------------------------------------------------
(* wait_key                                                                *)

(* The code comes to the call, when it has drawn what it draws.            *)
AwaitKey == looking' = FALSE /\ seen' = {} /\ UNCHANGED <<joy, acts>>

\* Mutant: wait_key starts from a pad with no button held.
FirstLookBlank ==
    /\ pc \in {"mode", "menu"}
    /\ ~looking
    /\ looking' = TRUE
    /\ UNCHANGED <<fatVars, pc, menuVars, loadVars, joy, seen, acts, swapped, opened, chosen>>

(* The first look: the buttons held by then are not new.                   *)
FirstLook ==
    /\ pc \in {"mode", "menu"}
    /\ ~looking
    /\ looking' = TRUE
    /\ seen' = joy
    /\ UNCHANGED <<fatVars, pc, menuVars, loadVars, joy, acts, swapped, opened, chosen>>

(* The buttons that have gone down since the last look.  The call returns  *)
(* them, and the switch of the caller knows single ones only.              *)
Pressed == joy \ seen
Key(b) ==
    /\ looking
    /\ Pressed = {b}
    /\ acts' = [acts EXCEPT ![b] = @ + 1]
    /\ looking' = FALSE /\ seen' = {}
    /\ UNCHANGED joy

(* No button is new: the next look.                                        *)
NoKey ==
    /\ pc \in {"mode", "menu"}
    /\ looking /\ Pressed = {} /\ seen # joy
    /\ seen' = joy
    /\ UNCHANGED <<fatVars, pc, menuVars, loadVars, joy, looking, acts, swapped, opened, chosen>>

(* Several are: the caller does nothing and calls again.                   *)
Chord ==
    /\ pc \in {"mode", "menu"}
    /\ looking /\ \A b \in Buttons : Pressed \notin {{}, {b}}
    /\ AwaitKey
    /\ UNCHANGED <<fatVars, pc, menuVars, loadVars, swapped, opened, chosen>>

(* A button goes down or up.  Elsewhere nothing looks at it, and what      *)
(* happens to it there can as well happen before the first look.           *)
Button(b) ==
    /\ pc \in {"mode", "menu"}
    /\ joy' = IF b \in joy THEN joy \ {b} ELSE joy \cup {b}
    /\ acts' = [acts EXCEPT ![b] = IF b \in joy THEN 0 ELSE @]
    /\ UNCHANGED <<fatVars, pc, menuVars, loadVars, looking, seen, swapped, opened, chosen>>

-----------------------------------------------------------------------------
(* main and choose_mode                                                    *)

(* A turn of main's loop up to choose_mode.  Without DEBUG the assignment  *)
(* to i stands under the failure of fat_init.                              *)
Start ==
    /\ pc = "start"
    /\ \E ready, mounted \in BOOLEAN :
        /\ ~ready => "init" \in FailOn
        /\ IF ready THEN fat_init(mounted)
           ELSE ~mounted /\ UNCHANGED fat
        /\ sdOk' = (ready /\ mounted = Debug)
    /\ pc' = "mode" /\ choice' = 0
    /\ chosen' = 0
    /\ AwaitKey
    /\ UNCHANGED <<vol, width, fatBuf, dir, walk, file, top, cur, loadVars, swapped, opened>>

ChooseMode ==
    /\ pc = "mode"
    /\ \/ Key("up") /\ choice' = 0
       \/ Key("down") /\ choice' = 1
    /\ UNCHANGED <<fatVars, pc, sdOk, top, cur, loadVars, swapped, opened, chosen>>

(* start_rom: the mapper's registers, and the write that starts the ROM.   *)
start_rom == banks' = <<0, 1, 2>> /\ pc' = "booted"

BootSram ==
    /\ pc = "mode" /\ choice = 1
    /\ Key("fire")
    /\ start_rom
    /\ UNCHANGED <<fatVars, menuVars, size, rom, reported, lost, swapped, opened, chosen>>

RetryCard ==
    /\ pc = "mode" /\ choice = 0 /\ ~sdOk
    /\ Key("fire")
    /\ pc' = "start"
    /\ UNCHANGED <<fatVars, menuVars, loadVars, swapped, opened, chosen>>

OpenRoot ==
    /\ pc = "mode" /\ choice = 0 /\ sdOk
    /\ Key("fire")
    /\ fat_open_root_directory
    /\ opened' = IF fat.fat32 THEN fat.root ELSE 0
    /\ pc' = "opendir"
    /\ UNCHANGED <<menuVars, loadVars, swapped, chosen>>

-----------------------------------------------------------------------------
(* pick_and_load_rom                                                       *)

(* A sector of the directory.  An error ends pick_and_load_rom, and with   *)
(* it choose_mode; main mounts the card again.                             *)
ReadDirectory ==
    /\ pc = "opendir"
    /\ \E ok, fatOk \in BOOLEAN, how \in {"on", "listed", "error"} :
        /\ ReadDirSector(ok, fatOk, how)
        /\ pc' = CASE how = "on" -> "opendir" [] how = "listed" -> "menu"
                   [] how = "error" -> "start"
        /\ IF how = "listed" THEN top' = 0 /\ cur' = 0 ELSE UNCHANGED <<top, cur>>
        /\ IF how = "listed" THEN AwaitKey ELSE UNCHANGED keyVars
    /\ UNCHANGED <<sdOk, choice, loadVars, swapped, opened, chosen>>

\* Mutant: up from the first line.
UpUnchecked ==
    /\ pc = "menu"
    /\ Key("up")
    /\ cur' = cur - 1
    /\ top' = IF cur' < top THEN cur' ELSE top
    /\ UNCHANGED <<fatVars, pc, sdOk, choice, loadVars, swapped, opened, chosen>>

Up ==
    /\ pc = "menu"
    /\ Key("up")
    /\ cur' = IF cur # 0 THEN cur - 1 ELSE cur
    /\ top' = IF cur' < top THEN cur' ELSE top
    /\ UNCHANGED <<fatVars, pc, sdOk, choice, loadVars, swapped, opened, chosen>>

\* Mutant: the screen is scrolled a line too late.
DownLate ==
    /\ pc = "menu"
    /\ Key("down")
    /\ cur' = IF dir[cur + 1].type # 0 THEN cur + 1 ELSE cur
    /\ top' = IF cur' - top > Screen THEN top + 1 ELSE top
    /\ UNCHANGED <<fatVars, pc, sdOk, choice, loadVars, swapped, opened, chosen>>

Down ==
    /\ pc = "menu"
    /\ Key("down")
    /\ cur' = IF dir[cur + 1].type # 0 THEN cur + 1 ELSE cur
    /\ top' = IF cur' - top > Screen - 1 THEN top + 1 ELSE top
    /\ UNCHANGED <<fatVars, pc, sdOk, choice, loadVars, swapped, opened, chosen>>

EnterDirectory ==
    /\ pc = "menu"
    /\ dir[cur].type \in {0, 1}
    /\ Key("fire")
    /\ fat_open_directory(dir[cur].cluster)
    /\ opened' = dir[cur].cluster
    /\ pc' = "opendir"
    /\ UNCHANGED <<menuVars, loadVars, swapped, chosen>>

(* load_rom up to its loop.                                                *)
PickFile ==
    /\ pc = "menu"
    /\ dir[cur].type = 17
    /\ Key("fire")
    /\ fat_open_file(dir[cur].cluster)
    /\ chosen' = dir[cur].cluster
    /\ size' = 0 /\ reported' = 0 /\ lost' = FALSE
    /\ pc' = "load"
    /\ UNCHANGED <<vol, width, fat, fatBuf, dir, walk, menuVars, rom, banks, swapped, opened>>

(* A turn of load_rom's loop.  The data goes to the third slot, behind     *)
(* which there is the page selected last.  The size counts bytes in a      *)
(* DWORD, and wraps with the byte address of the card.                     *)
LoadTurn(fatOk) ==
    /\ pc = "load"
    /\ banks' = IF size % PageSectors = 0
                THEN [banks EXCEPT ![3] = (size \div PageSectors) % Pages] ELSE banks
    /\ lost' = (lost \/ ~fatOk)
    /\ \E ok \in BOOLEAN, value \in {"loaded", "error"} :
        /\ fat_load_file_sector(fatOk, ok, value)
        /\ rom' = IF value = "loaded"
                  THEN [rom EXCEPT ![banks'[3] * PageSectors + (size % PageSectors)] =
                            Place((file'.sector - 1) % Dword)]
                  ELSE rom
        /\ size' = IF value = "loaded" THEN (size + 1) % SectorSpace ELSE size
        /\ reported' = IF value = "error" THEN (reported % 2) + 1 ELSE reported
    /\ UNCHANGED <<vol, width, dir, walk, pc, menuVars, keyVars, swapped, opened, chosen>>

LoadSector == \E fatOk \in BOOLEAN : LoadTurn(fatOk)

(* The end of the file: load_rom returns, and start_rom follows whether    *)
(* there were errors or not.                                               *)
FileEnds ==
    /\ pc = "load"
    /\ \E fatOk \in BOOLEAN : fat_load_file_sector(fatOk, TRUE, "eof")
    /\ start_rom
    /\ UNCHANGED <<vol, width, dir, walk, menuVars, size, rom, reported, lost,
                   keyVars, swapped, opened, chosen>>

-----------------------------------------------------------------------------
(* The reset button, which leaves the memory as it is, and the card slot.  *)

(* What the program assigns before it reads it again starts afresh.        *)
Reset ==
    /\ pc # "booted"
    /\ pc' = "start"
    /\ sdOk' = FALSE /\ choice' = 0 /\ top' = 0 /\ cur' = 0
    /\ size' = 0 /\ rom' = EmptyRom /\ banks' = <<0, 1, 2>> /\ reported' = 0
    /\ lost' = FALSE
    /\ AwaitKey
    /\ opened' = 0 /\ chosen' = 0 /\ walk' = NoWalk /\ file' = NoFile
    /\ UNCHANGED <<vol, width, fat, fatBuf, dir, swapped>>

(* The card is exchanged, once, before it is mounted.                      *)
Swap ==
    /\ pc = "start" /\ ~swapped
    /\ vol' \in DOMAIN Cards \ {vol} /\ <<vol', width>> \in Setups
    /\ swapped' = TRUE
    /\ UNCHANGED <<width, fat, fatBuf, dir, walk, file, pc, menuVars, loadVars,
                   keyVars, opened, chosen>>

(* Once the ROM runs, the boot loader is over.                             *)
Booted == pc = "booted" /\ UNCHANGED vars

Program == Start \/ FirstLook \/ NoKey \/ Chord \/ ReadDirectory \/ LoadSector \/ FileEnds
Keys == ChooseMode \/ BootSram \/ RetryCard \/ OpenRoot \/ Up \/ Down
        \/ EnterDirectory \/ PickFile

Next == Program \/ Keys \/ (\E b \in Buttons : Button(b)) \/ Reset \/ Swap \/ Booted

(* The program runs; nothing is owed by the user.                          *)
Spec == Init /\ [][Next]_vars /\ WF_vars(Program)

-----------------------------------------------------------------------------
(* What is on the card, read off its FAT without the driver.               *)

DataStart(v) ==
    FirstFat(v) + FatSectors(v) + (IF v.fat32 THEN 0 ELSE v.rootEntries \div DirEntries)

(* The clusters of a chain; FAT32 marks have 28 bits.                      *)
Marks(v, c) == c >= (IF v.fat32 THEN Dword \div 16 ELSE Word) - 8
Link(v, c, n) ==
    LET at[m \in 1..n] == IF m = 1 THEN c ELSE v.chain[at[m - 1]]
    IN  at[n]
Chain(v, c) ==
    LET length == CHOOSE n \in 1..Cardinality(DOMAIN v.chain) :
                      /\ Marks(v, v.chain[Link(v, c, n)])
                      /\ \A m \in 1..(n - 1) : ~Marks(v, v.chain[Link(v, c, m)])
    IN  [n \in 1..length |-> Link(v, c, n)]

SectorsOf(v, c) ==
    [k \in 1..(Len(Chain(v, c)) * v.spc) |->
        DataStart(v) + (Chain(v, c)[((k - 1) \div v.spc) + 1] - 2) * v.spc + ((k - 1) % v.spc)]

DirectorySectors(v, c) ==
    IF ~v.fat32 /\ c = 0
    THEN [k \in 1..(v.rootEntries \div DirEntries) |-> FirstFat(v) + FatSectors(v) + k - 1]
    ELSE SectorsOf(v, c)

(* The entries of a directory in order, and the numbers of those that are  *)
(* files and directories.                                                  *)
Entries(v, c) ==
    LET sectors == DirectorySectors(v, c)
    IN  [k \in 1..(Len(sectors) * DirEntries) |->
            EntriesAt(v, sectors[((k - 1) \div DirEntries) + 1])[((k - 1) % DirEntries) + 1]]

Listing(v, c) ==
    {k \in DOMAIN Entries(v, c) :
        /\ Entries(v, c)[k].kind \in {"dir", "file"}
        /\ ~\E m \in DOMAIN Entries(v, c) : m < k /\ Entries(v, c)[m].kind = "end"}

-----------------------------------------------------------------------------
(* Properties                                                              *)

(* Types and ranges of the program's state.                                *)
TypeOK ==
    /\ pc \in {"start", "mode", "opendir", "menu", "load", "booted"}
    /\ {sdOk, looking, lost, swapped} \subseteq BOOLEAN
    /\ choice \in 0..1
    /\ {top, cur} \subseteq 0..(DirRoom - 1)
    /\ size \in 0..(SectorSpace - 1) /\ reported \in 0..2
    /\ rom \in [0..(Pages * PageSectors - 1) -> {Nowhere} \cup ((DOMAIN Cards) \X (0..(SectorSpace - 1)))]
    /\ banks \in [1..3 -> 0..(Pages - 1)]
    /\ joy \subseteq Buttons /\ seen \subseteq Buttons
    /\ acts \in [Buttons -> Nat]
    /\ \A j \in DOMAIN dir : dir[j].type \in {0, 1, 17} /\ dir[j].cluster \in 0..(Dword - 1)
    /\ {walk.sector, walk.cluster, file.sector, file.cluster, fat.current}
         \subseteq 0..(Dword - 1)

(* What fat_buffer holds is the sector whose number current_fat_sector is, *)
(* whatever failed in between and however often the program was restarted: *)
(* load_fat_sector trusts the number (fat.c:159).                          *)
CacheTrue == ~swapped /\ fat.current # 0 => fatBuf = Place(fat.current)

(* When the menu is shown, directory_buffer holds what the directory that  *)
(* was opened has on the card: every file and directory in order, whatever *)
(* clusters and sectors they are in, and the mark behind the last one. An  *)
(* earlier, longer listing or one broken off by an error leaves no trace.  *)
WholeDirectory ==
    pc = "menu" /\ ~swapped =>
        LET want == Listing(card, opened)
        IN  /\ dir[Cardinality(want)].type = 0
            /\ \A k \in want :
                   dir[Before(want, k)] =
                       [type    |-> IF Entries(card, opened)[k].kind = "dir" THEN 1 ELSE 17,
                        cluster |-> Entries(card, opened)[k].cluster]

(* The line FIRE acts on is one that is shown, and has an entry: moving    *)
(* about, entering a directory and scrolling never lose it (main.c:138).   *)
CursorListed ==
    pc = "menu" => top <= cur /\ cur < top + Screen /\ dir[cur].type # 0

(* What is in the ROM area is the file that was picked: its sectors, in    *)
(* their order, from the start of the area and across its pages.  A sector *)
(* that could not be read is left out and has been reported; without a     *)
(* report the program that is started is the whole file.  This is while    *)
(* FAT sectors can be read: see WholeOrReported.                           *)
RomIsFile ==
    chosen # 0 /\ ~swapped /\ ~lost =>
        LET want   == SectorsOf(card, chosen)
            loaded == [k \in 1..size |-> rom[k - 1]]
            at(k)  == CHOOSE n \in DOMAIN want : loaded[k] = <<vol, want[n]>>
        IN  /\ \A k \in 1..size : \E n \in DOMAIN want : loaded[k] = <<vol, want[n]>>
            /\ \A k \in 1..(size - 1) : at(k) < at(k + 1)
            /\ reported = 0 => /\ \A k \in 1..size : at(k) = k
                               /\ pc = "booted" => size = Len(want)

(* A program that is started is the whole file, or "error while reading    *)
(* file" (main.c:203) is on the screen.  It fails with FAT sectors that    *)
(* cannot be loaded: fat_next_cluster returns 0, and load_rom goes on with *)
(* cluster 0 (fat.c:193, 223).                                             *)
WholeOrReported ==
    pc = "booted" /\ chosen # 0 /\ ~swapped /\ reported = 0 =>
        LET want == SectorsOf(card, chosen)
        IN  size = Len(want) /\ \A k \in DOMAIN want : rom[k - 1] = <<vol, want[k]>>

(* One press of a button does one thing: a button still held when the next *)
(* menu comes up does not act there (wait_key, main.c:271).                *)
PressOnce == \A b \in Buttons : acts[b] <= 1

(* Reading a directory and loading a file come to an end whatever sectors  *)
(* of them fail: an error does not keep load_rom from the end of the chain *)
(* (main.c:193).  The exception is a load that meets a FAT sector it       *)
(* cannot load again and again: fat_next_cluster then returns 0 each time, *)
(* and load_rom goes round cluster 0 for ever (fat.c:193).                 *)
FatFails == LoadTurn(FALSE)
Ends ==
    \/ []<><<FatFails>>_vars
    \/ \A p \in {"opendir", "load"} : pc = p /\ ~swapped ~> pc # p
=============================================================================
