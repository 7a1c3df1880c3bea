# The storage paths of mist-cores in TLA+

This directory holds formal models of the two paths on which the cores of
mist-cores get their programs from an SD card, and of what belongs to them.

* *In hardware*: the SD card a core sees on the MiST board, the controller that
  talks to it, the loader that reads a file from it, and the keyboard channel that
  comes over the same bus: clocked state machines in several clock domains that
  have to agree with each other.
* *In software*: the boot loader of the Sega Master System core, which drives a
  card, walks a FAT16 or FAT32 volume and fills the ROM area, with a user, a
  reset button and a card slot around it; and the converter that lays out the
  disk images of the Apple II core.

Specifications are checked with TLC on small instances; theorems about them are
proved with TLAPS.

1. [The repository](#1-the-repository)
2. [Modules and code](#2-modules-and-code)
3. [What is checked](#3-what-is-checked)
4. [Fairness](#4-fairness)
5. [What is proved](#5-what-is-proved)
6. [Where code and comments disagree](#6-where-code-and-comments-disagree)
7. [Abstractions and limits](#7-abstractions-and-limits)
8. [Plan](#8-plan)

`PROJECT.json` lists components, runs, mutants, hazards, findings and theorems,
and maps every definition to the lines it models. A definition whose comment
begins with "Mutant:" is not part of the model: it is a plausible bug, put in
place of the definition after it to see that a property notices.

## 1. The repository

mist-cores holds FPGA cores for the MiST board. On that board an ARM, the *IO
controller*, owns the real SD card, the keyboard and the joysticks; the FPGA
reaches them over an SPI bus of which the ARM is the master. The ARM's firmware
is not part of the repository.

| Part | Where | State | Operations | Correct when |
| --- | --- | --- | --- | --- |
| Emulated SD card | `misc/sdcard/mist/sd_card.v` | two state machines, bit and byte counters, sector buffer with two pointers, CID/CSD/flag, requests `io_rd`, `io_wr` and their acknowledge latches | edges of `sd_sck`, deselect, byte and end of a transfer of the IO controller | one transfer at a time; a sector is sent and fetched whole, and is the one asked for; the configuration arrives whole |
| IO controller channel | `misc/sdcard/mist/user_io.v` | selected command, strobes, keyboard and serial FIFOs, PS/2 transmitter | commands 0x05, 0x16 to 0x19, 0x1b, status, buttons | strobes and `sd_ack` in order; every key code arrives once, in order |
| SD card controller | `misc/sdcard/src/SDCard.vhd` | FSM with subroutines and return state, counters, shift registers, handshake | initialise, read and write a block, report an error, reset | whole blocks, four-phase handshake, clean pins, every operation ends |
| FAT32 loader | `misc/sdcard/src/sdfat.vhd` | FSM, sector memory, volume geometry, position in directory, chain and file | find a file in the root directory and copy it to RAM | decodes whole sectors only; the file in order; true error codes; ends |
| `misc/sdcard` core | `misc/sdcard/mist/mist_top.vhd` | wiring of the above, RAM, video, OSD | | card, controller and IO controller together are a block device |
| SMS SD driver | `sega-master-system/bootloader/sd.c` | loop counters, last response, card select, clock speed | `sd_init`, `sd_load_sector` | every call ends; no byte is taken for the answer to another command; a sector is whole and the one asked for; a failed call has not touched the buffer |
| SMS FAT driver | `sega-master-system/bootloader/fat.c` | volume geometry, one cached FAT sector, directory buffer, position in a file | mount, open a directory, open a file, load a sector | whole chains and listings; the cached sector is the one its number says |
| SMS ROM loader | `sega-master-system/bootloader/main.c` | menu position, mapper page, bytes loaded, joypad sample | retry, boot, browse, pick and load | the ROM area holds the file picked, or an error is on the screen; FIRE acts on the line shown; one press does one thing |
| `dsk2nib` | `apple2fpga/dsk2nib.c` | track buffer, two global encoding buffers | convert an image | a Disk II finds every sector of every track and decodes it to the image's bytes |
| SMS hardware | `sega-master-system/vhdl/src` | VDP control port, mapper, IO, PSG, `data_io.v`, `sdram.v` | CPU cycles, download, memory access | no torn address, no lost write strobe |
| Apple II | `apple2fpga` | disk head and track buffer, `spi_controller.vhd`, keyboard latch, timing | step, read a track, reload | the track served is the track under the head |
| ColecoVision, Videopac, VIC-20 | `fpga_colecovision`, `fpga_videopac`, `vic20` | imports of other projects with a MiST wrapper | | |
| VGA test core | `misc/vga` | picture generator | | |

How they interact. A host state machine (`sdfat.vhd`) raises `rd_i` or `wr_i` of
the controller and exchanges the bytes of a block with it by a four-phase
handshake. The controller is the SPI master of `sd_card.v`. That module answers
simple commands itself; for a sector it raises a request that the IO controller
finds when it polls the status byte (command 0x16), and which it answers with an
upload (0x17) or a fetch (0x18). The configuration (CID, CSD and one flag byte)
comes with 0x19, over the same data strobe.

The SMS boot loader is one thread of C on a Z80 without interrupts. `main.c` mounts
the card, lists directories and loads a file through `fat.c`; that calls
`sd_load_sector` for sectors of the FAT, of directories and of files; `sd.c`
exchanges bytes with the card over `spi.vhd`. Around it are the card, which answers
when it likes or not at all, the user, who presses buttons while nobody looks, and
the reset button, which restarts the program and leaves its memory as it is: the
cached FAT sector and its number survive.

What is hard about it:

* *two clocks*: `io_rd` is set by `sd_sck` and cleared by a wire derived from the
  IO controller's SPI clock, and the answer to it travels back through a latch and
  a copy of that latch;
* *shared strobes*: one sector buffer is written by two strobes ORed together, and
  one strobe carries sectors and configuration;
* *partial resets*: deselecting the card resets its bit counter and nothing else;
  resetting the controller or the board leaves pins and handshakes as they were;
* *handshakes seen a cycle late* between the loader, which runs on every clock,
  and the controller, which runs on a clock enable;
* *unlimited waits*: no wait of the FSMs has a time limit, so a lost answer is a
  hang;
* *limited waits* in the boot loader: when a counter runs out the code goes on with
  the byte it read last, and the answer comes later, into the next command;
* *errors passed on as data*: a cluster number 0, a sector counted as read, a buffer
  a failed call must have left alone;
* *counters at their limits*: byte counters that run over token, block and CRC at
  once, a 9-bit counter compared with 512, a cluster counter too narrow for large
  clusters, an eight-byte FIFO.

The hazards are listed with their lines in `PROJECT.json`; those no property covers say why.

## 2. Modules and code

```
   BlockDevice        <-- implemented by --   SdSystem     (host, controller,
        (abstract)                            |      |      card, IO controller)
                                    EXTENDS   |      |  INSTANCE, pins shared
                                              v      v
                                          SdCard   SdCardCtrl
                                                     |  implements
                                                     v
   SdFat   -- INSTANCE, the controller below -->  BlockPort   (abstract)

   Ps2Keyboard        (stands alone: no state in common with the card)

   SmsSd   -- implements -->  SectorPort   (abstract)
                                  |
                                  |  what a call may do, said again
                                  v  as an operator: Outcome
   SmsBoot -- EXTENDS -->  SmsFat

   Dsk2Nib            (stands alone)
```

The theorems are in modules of their own, which EXTEND the module they are about:
`SdCardProofs`, `SdCardCtrlProofs`, `SdFatProofs` and, on top of it, `SdFatWalkProofs`,
`Ps2KeyboardProofs`, `SmsSdProofs`, `SmsBootProofs`, `Dsk2NibProofs`.
`SmsSound` says of which cards the theorems about `SmsBoot` speak.

The modules `MC...` give the environments and constants for TLC; they model no code.

### SdCard: `sd_card.v` and commands 0x16 to 0x19 of `user_io.v`

Variables carry the names of the registers. `reply_more` is the sequence of the
bytes that follow R1, in place of `reply0` to `reply3` and `reply_len`; a 32-bit
word is the sequence of its four bytes; `synced` and `bit_cnt` are the receiver's
bit alignment.

| Action | Code |
| --- | --- |
| `SckFall`, with `NegEdge` | `always @(negedge sd_sck)`: `read_state`, the transmitter, `io_rd` |
| `SckRise`, with `PosEdge`, `ByteReceived` | `always @(posedge sd_sck)`: shift register, command decoder, `write_state`, `io_wr` |
| `Deselect`, `Select`, `SetSdi` | `posedge sd_cs` (asynchronous), and the host's own pins |
| `BufferRead`, `BufferWrite` | the two engines of the sector buffer, on the ORed strobes |
| `IoBeginRead`, `IoBeginWrite`, `IoShift`, `IoReadByte`, `IoWriteByte`, `IoEnd` | the IO controller's bytes: `sd_ack`, strobes, and the latches set when `sd_ack` falls |
| `IoBeginConfig`, `IoConfigByte`, `IsConfig`, `ConfigWrite` | the upload of CID, CSD and flag, told from a sector by `io_ack` |
| `IoPoll` | the status byte and the sector number, read together and acted on later |

The grain is one action per edge of `sd_sck`, since both edges do work and
`sd_cs` is asynchronous, and one action per byte of the other bus.

The card's host is general: any bit at any edge, `sd_cs` raised between bytes or
while the card is idle (`MidByteDeselect` also allows the middle of a byte). The
theorems are about this host. TLC uses the one of `MCSdCard`, which sends whole
frames, some of them (`Interrupting`) without waiting for the answer to the last,
and deselects the card between any two bytes of a transfer.

### SdCardCtrl: `SDCard.vhd`

One action per branch of the FSM, named after its state; `SendCommand`, `Check`
and `Accept` are what several branches have in common. `In(s)` is what every
branch begins with: the wait for both halves of the handshake to be low and the
default `busy_o <= YES`. `TakeHandshake` is the cycle in which the host's byte is
taken, `Reset` a cycle with `reset_i`. Subroutines return through `rtnState_v` as
in the code. A cycle that only counts `sclkPhaseTimer_v` or waits for the host
changes nothing and is a stuttering step.

The host follows the port's protocol (`HostRequest` to `HostDone`, as
`sdfat.vhd`'s READ_BLOCK1 and READ_BLOCK2 do). `PromptHost` says whether it
lowers its request before it takes the first byte, as `sdfat.vhd` does.

### BlockPort: what the controller promises at its host port

Phases, `busy`, the handshake, and the number of bytes left; no SPI, no card.
`SdCardCtrl!ImplementsPort` is the refinement: the phase is read off the state
to which the subroutine under way will return, the bytes left off `byteCnt_v`.
It is the interface at which the path is cut in two: `SdCardCtrl` is shown to
implement it, and `SdFat` is built on it.

### SdSystem and BlockDevice

`SdSystem` EXTENDS the card and INSTANCEs the controller with the pins shared: a
cycle of the controller that moves `sd_sck` or `sd_cs` *is* the card's step. The
IO controller gets the sectors of the real card, and writes a fetched one back
after the transfer. `BlockDevice` is what a core may expect: one operation at a
time, a read returns what the sector holds, a write replaces the whole sector at
once and before it is reported as done. `IsBlockDevice` is the refinement. A
write takes effect, in the mapping, when the IO controller ends its fetch
(`to_store`), which is before the controller sees the card's line go high again.

### SdFat: `sdfat.vhd`

One action per state of the FSM (READ_DIR2 is declared in the code and used
nowhere). Loader, controller and RAM step together, once per cycle of
`clk50`: `Works` is a cycle in which the controller does something, `Waits` one in
which it does not, because its clock phase (`timer`) is not over or the card makes
it wait. This simultaneity is the point: the loader sees `busy_o` and the
handshake a cycle late, through `busy_os_r`.

Data are *units*: what the loader reads together (the fields of the boot sector, a
directory entry, a FAT entry, a byte of the file). A unit in the sector memory or
in the RAM is represented by where on the card it came from, `<<sector, index>>`, so
that "the right byte" is checked and not merely "a byte with the right value".
`Unit` says what a FAT32 volume has at a place.

### Ps2Keyboard: command 0x05 and the PS/2 transmitter of `user_io.v`

`KeyByte` writes the FIFO on the SPI bus, `ClkRise` is the transmitter (`Load`,
`Transmit`), `ClkFall` the computer's sampling edge. The computer and the history
`unread` stand for the receiver, which is another module in every core.

### SmsSd and SectorPort: `sd.c`

The driver is a program counter (`pc`, the loop it is in) and the command under way
(`cmd`); a step is a byte on the bus, but the six bytes of a command, between which
the code decides nothing, are one step.

| Action | Code |
| --- | --- |
| `CallInit`, `Wake`, `Gap` | `sd_init` up to its first command |
| `WaitReady`, `SendFrame`, `WaitR1`, `Skip` | what `sd_cmd0`, `sd_cmd8`, `sd_acmd41`, `sd_cmd58` and the beginning of `sd_load_sector` have in common: `sd_wait_ready` (none before CMD55), six bytes, `sd_wait_r1`, bytes read away |
| `Decide`, `Polled`, `Retry`, `StartPolling`, `Usable`, `Unusable` | what the caller does with the response: the branches and loops of `sd_init`, and the test after CMD17 |
| `CallLoad`, `WaitToken`, `LoadData`, `Tailing` | `sd_load_sector` |
| `Pull`, `Insert`, `CardTakes` | the card: it overlooks a command, or answers after a gap, rightly or with an error |

Every byte the card sends carries whether it answers the last command it was sent
(`own`); that is what `OwnAnswer` looks at. Whether the compiler's `BYTE` is signed is
left open (`signed`).

`SectorPort` is what the callers build on: a call ends with one of its values, a load
that fails has not touched the buffer, and one that succeeds has stored the whole
sector. `ImplementsSectorPort` is the refinement; `SmsFat!Outcome` says the same of a
load in one step, and adds which loads may fail (`FailOn`).

### SmsFat and SmsBoot: `fat.c` and `main.c`

`SmsFat` has the state of `fat.c` and its functions as operators; those that load a
sector are relations between the state before and after, with the outcome of each
load as a parameter. A `WORD` has `Word` values and a `DWORD` `Word * Word`, so masks,
shifts and wraps keep their meaning. Buffers hold the place their contents came
from, `<<card, sector>>`, and what the code finds in them is read off that card.

`SmsBoot` is `main.c`: an action is a turn of a loop, `ReadDirectory` a sector of a
directory, `LoadSector` a sector of a file, `Up`, `Down`, `EnterDirectory`,
`PickFile` and the actions of the first menu a key. `wait_key` is not atomic: `Button`
may come between its looks, and between the calls. `Reset` restarts the program and
keeps `fat`, `fatBuf` and the directory buffer; what the program assigns before it
reads it again starts afresh.

What the properties compare with is in the last part of `SmsBoot`: `Chain`,
`SectorsOf` and `Listing` read a volume from its FAT without any of the driver's
operators.

### Dsk2Nib: `dsk2nib.c`

The real tables and sizes; an action is a track read, a sector encoded, the padding,
a track written. C's operators on bytes are sums of bits (`Or`, `And`, `Xor`). `encode62`
goes three times round `GCR_buffer2`; `ByteFor` is the byte of the page that comes to a place
in a round, below 0 where the loop has ended before. The reader in the properties is independent of the encoder: it
knows the track as a circle (as `disk_ii.vhd` plays it), finds fields by their marks,
and takes the 64 data bytes from what a Disk II can read (bit 7 set, two ones side by
side, at most one pair of zeros, not 0xD5) and not from `GCR_encoding_table`.

## 3. What is checked

| Run | Question | Result |
| --- | --- | --- |
| `SdCard` | Every command the card knows, reads and writes started in the middle of other transfers, the card deselected between any two bytes, the IO controller's bytes anywhere in between. `TypeOK`, `OneTransfer`, `SentSector`, `FetchedSector`, `ServedAddress` | holds, 9.2 million states |
| `SdCardEarlyConfig` | The host starts before the configuration has been uploaded; sectors and configuration come in any order. `WholeConfig` | holds, 1.4 million states |
| `SdCardCtrl` | The controller with a card that answers rightly or wrongly, and one pulse of `reset_i` in any cycle. `TypeOK`, `WholeBlock`, `PinDiscipline`, `HandshakePhases`, `ImplementsPort` | holds, 3.9 million states |
| `SdSystem` | Host, controller, card and IO controller. `IsBlockDevice`, `Completes` | holds |
| `SdSystemReset` | One reset of the controller in any cycle, also inside a byte on the card's bus. `FetchedSector`, `ServedAddress` | holds |
| `SdFat` | The loader with good and bad cards, repeated loads, the board's reset, a card that refuses its initialisation. `TypeOK`, `WholeSector`, `FileInOrder`, `ErrorMeans`, `Ends` | holds, 600 thousand states |
| `Ps2Keyboard` | The FIFO with at most seven codes waiting. `TypeOK`, `InOrder`, `Delivered` | holds, 390 thousand states |
| `SmsSd` | The SD driver with cards of version 1 and 2, a multimedia card and an empty slot, answers after every gap the waits allow for, refusals, error tokens, overlooked commands, the card pulled out and put in. `TypeOK`, `OwnAnswer`, `FastWhenReady`, `ImplementsSectorPort`, `Ends` | holds, 114 thousand states |
| `SmsBoot` | The boot loader with FAT16 and FAT32 cards and one without an MBR; any load may fail, as often as it likes; any presses of the buttons, resets, one exchange of the card. `TypeOK`, `CacheTrue`, `WholeDirectory`, `CursorListed`, `RomIsFile`, `PressOnce`, `Ends` | holds, 848 thousand states |
| `Dsk2Nib` | Two images at full size, one file that is cut short, a disk that is full. `TypeOK`, `TrackReadable`, `SectorsDecode` | holds, 1526 states |
| `SilentFatError` | `WholeOrReported`: what is started is the whole file, or an error is on the screen | violated, section 6 |
| `SdFatFileAddress` | `FileAddress`: the file lies at `file_addr` | violated, section 6 |

### The properties

* **OneTransfer** ties three clock domains together: `io_rd` and `io_wr` are set by
  the card's clock and cleared by `sd_ack`, and neither may outlive the state that
  waits for the answer.
* **SentSector**, **FetchedSector**: a sector is sent only after the whole of it has
  come, and is still in the buffer as it came; a sector is fetched while the card
  is busy with it, and the card is told so only after all of it was. With one
  buffer, two ORed strobes, and pointers that only a new command resets, nothing in
  the code says so in one place.
* **ServedAddress**: the IO controller reads the sector number in its poll and uses
  it later; it must still be the card's.
* **WholeConfig**: the upload is told from a sector only by `sd_ack`. Whatever comes first, and
  whatever the host does meanwhile, `cid`, `csd` and `conf` hold the bytes uploaded so far,
  each in its place, and none of a sector.
* **PinDiscipline**: the comments at DESELECT and PULSE_SCLK ask for a low clock on
  entry; eight callers and the reset lead there.
* **HandshakePhases**, **WholeBlock**: the host takes or gives exactly one block,
  whenever it answers, and never sees a byte change under its eyes.
* **ImplementsPort**: the controller implements `BlockPort`, error and reset
  included.
* **IsBlockDevice**, **Completes**: what a core may expect of the whole path.
* **WholeSector**: whatever the loader decodes is all of the sector it asked for.
* **FileInOrder**: somewhere in the RAM the file looked for lies so far, without a gap and in
  the order of the chain, although the addresses of its sectors come from four counters
  and a FAT lookup. **FileAddress** says where: at `file_addr`, which does not hold.
* **ErrorMeans**, **Ends**: an error code is true, and every load ends unless the
  controller itself has stalled. (`SmsSd` and `SmsBoot` have an `Ends` of their own. That of
  `SmsBoot` excepts the load that meets a FAT sector failing for ever: section 6.)
* **OwnAnswer**: with waits that run out, an answer may come when the next command has
  been sent. It is never taken for that command's: `sd_wait_ready`, the bytes read
  away after CMD8 and CMD58, and the card's own silence once it is deselected make it
  so together, and CMD55 goes without the first.
* **FastWhenReady**: the full clock is for a card that has left the idle state; there are
  two ways through `sd_init` to `TRUE`, one of which polls once more than it needs to.
* **ImplementsSectorPort**: the sector asked for, whole, or the buffer as
  it was. The FAT cache is right only because of the latter.
* **CacheTrue**: `load_fat_sector` trusts a number. It must be true over failed loads,
  other directories and resets.
* **WholeDirectory**: entries of several sectors and clusters stored behind each other over
  an older listing, in order, with the mark behind the last.
* **CursorListed**: `current` and `top_of_screen` move separately; FIRE acts on a line that
  is shown and has an entry.
* **RomIsFile**: the ROM area holds the sectors of the chain, in order, over pages of the
  mapper, with the cached FAT sector going back and forth; what is missing has been
  reported.
* **PressOnce**: a button held since the last menu does nothing in the next.
* **TrackReadable**, **SectorsDecode**: what a drive reads is what the image holds, although
  the encoder's buffers are global and keep the last sector's bits.
* **InOrder**, **Delivered**: codes arrive once, in order, in frames with the right
  parity.

Type invariants are there for the counters: `tx_v` never runs out of bits,
`byteCnt_v` never passes zero, no pointer leaves its array.

### Bounds, and why they are enough

| Bound | Value | In the code | Why |
| --- | --- | --- | --- |
| `SectorLen` (`SdCard`, `SdSystem`) | 1 or 2 | 512 | Two bytes have a first, a last and a wrap of the pointers; the bytes between take the same branches. The theorems hold for any length. |
| `CidLen` | 1; 2 in `SdCardEarlyConfig` | 16 | A first and a last byte of CID and CSD, and the flag; any length in the theorems. |
| `Sectors`, `Configs`, `HostData` | 1 to 4 values | all | A misplaced byte shows because the bytes of a sector, and of two sectors, differ. |
| `Interrupting` | CMD17, CMD24 | any frame | The frames that begin transfers; the others only reply. |
| `BlockSize` | 2 | 512 | `byteCnt_v` runs over token, first, last, CRC: two bytes tell first from last. |
| `InitClks` | 2 | 160 | A counter that is decremented to zero. |
| `Responses`, `BlockBytes` | up to 5 | all | One value for each branch that looks at `rx_v`, and one for none. |
| `MaxResets` | 1 | | A reset in any cycle, and everything after it. In the theorems about the controller resets have no bound. |
| `SectorLen` (`SdFat`) | 2 units | 512 bytes, 16 entries, 128 FAT entries | First and last entry, FAT entries in several sectors (clusters 2 to 9), two sectors per cluster, two clusters. |
| `CountMod`, `RamSize`, `AddrSpace` | 8, 8, 64 | 2^15, 2^14, 2^32 | The same ratios: a cluster has half as many units as the counter has values, which is the largest that works (32 sectors). A file of eight units fills the RAM. |
| `Divider` | 1 | 1 | `clkDivider_v` with `mist_top`'s clocks. The handshake's last answer lasts one cycle; a slower clock would miss it. |
| `FifoLen` | 8 | 8 | The real size. |
| `MaxUnread` | 7 | | With eight the FIFO looks empty (section 6). |
| `BlockLen` (`SmsSd`) | 8 | 512 | Longer than a command, so that a block that nobody reads is still being sent behind the next command; its bytes look like tokens and responses. |
| `AddrSpace` (`SmsSd`) | 128 | 2^32 | The sectors asked for are 0, 1 and 8, where a sector number taken for an address leads elsewhere. |
| `ReadyTries`, `R1Tries`, `Retries`, `WakeBytes` | 2, 3, 1, 2 | 32, 32, 255, 16 | A first, a last and one between; `Gaps` has values within and beyond the limit of `sd_wait_r1`. |
| `PullIn` | all but two states | | A card pulled out while its bytes are stored gives a sector of 0xff that nothing tells from data, and while a response is read away no state tells that the response is old; see section 6. |
| `Word`, `FatWords` (`SmsBoot`) | 64, 4 | 2^16, 256 | The end marks keep their place at the top; chains cross FAT sectors in both directions. |
| `DirEntries`, `DirSectors`, `DirMax` | 2, 2, 6 | 16, 8, 256 | Directories that end within a sector, at its end, and at the end of a cluster. |
| `Screen`, `PageSectors`, `Pages` | 2, 2, 3 | 20, 32, 256 | A listing longer than the screen, a file longer than a page. |
| `SectorSpace` (`SmsBoot`) | 24 | 2^23 | As many sectors as the largest card, and whole rounds of the mapper. `size` counts modulo this number: a load that goes astray never stops counting. |
| exchanges of the card | 1, before it is mounted | | One is enough for the cache to be false. |

## 4. Fairness

* `SdSystem`: weak fairness of `Cycle` (the controller's clock runs), of the host's
  answers, and of the IO controller. A clocked FSM that can act will; the IO
  controller polls in a loop. The host owes answers to what it began, never a new
  request.
* `SdFat`: weak fairness of a cycle (`Works \/ Waits`: the clock runs) and of `Works`.
  The second says that controller and card do not stay silent for ever when they
  could act, and is what `BlockPort`'s phases need to end; that the card path
  keeps this promise is `Completes`. Nothing is assumed of `NextStep` or
  `BoardReset`.
* `Ps2Keyboard`: both edges of `ps2_clk`, which comes from a PLL. Nothing is assumed of
  the IO controller.
* `SmsSd`: weak fairness of `Step`: the Z80 runs and no loop of the driver waits for the
  card without a counter. Nothing is assumed of the card or of the caller.
* `SmsBoot`: weak fairness of `Program`, the actions that wait for nobody. Nothing is
  assumed of the user, who may press reset for ever; `Ends` then holds because each
  reset ends what was under way.
* `SdCard`, `SdCardCtrl` and `Dsk2Nib` state safety only and have no fairness.

## 5. What is proved

Every theorem holds for all values of the constants that satisfy the assumptions of
its module (sizes that are positive, addresses within their space), for every
environment the module describes, and for every interleaving. Hypotheses beyond that
are named in the statement of the theorem and listed here; each of them holds of the
configuration with which TLC checks the same property, and each invariant below was
checked by TLC before it was proved.

| Module | Theorem | States | Hypotheses |
| --- | --- | --- | --- |
| `SdCardProofs` | `TypeCorrect` | `TypeOK` | |
| | `OneTransferHolds`, `RequestRaisedOnce` | `OneTransfer`, `RaisedOnce` | `~MidByteDeselect` |
| | `SectorSentWhole`, `SectorFetchedWhole`, `AddressServed` | `SentSector`, `FetchedSector`, `ServedAddress` | `Configured`, `~MidByteDeselect` |
| | `ConfigArrivesWhole` | `WholeConfig` | |
| `SdCardCtrlProofs` | `CtrlTypeCorrect`, `CardPins`, `FourPhases` | `TypeOK`, `PinDiscipline`, `HandshakePhases` | |
| | `PortImplemented` | `ImplementsPort` | |
| | `OneBlockServed` | `WholeBlock` | `PromptHost` |
| `SdFatProofs` | `LoaderTypeCorrect` | `TypeOK` | |
| | `DecodesWholeSectors` | `WholeSector` | `NoReadErrors` |
| `SdFatWalkProofs` | `ErrorsTell`, `FileCopied` | `ErrorMeans`, `FileInOrder` | `NoReadErrors`, `Sound` |
| `Ps2KeyboardProofs` | `KeyboardTypeCorrect` | `TypeOK` | |
| | `CodesInOrder` | `InOrder` | `Roomy` |
| `SmsSdProofs` | `WithinLimits` | `TypeOK` | |
| | `OwnAnswerHolds` | `OwnAnswer` | `AnswersInTime` |
| | `SectorPortImplemented` | `ImplementsSectorPort` | `GoodCards` |
| | `FullSpeedWhenReady` | `FastWhenReady` | `StaysWhileJudged` |
| `SmsBootProofs` | `CacheIsTrue`, `PressActsOnce` | `CacheTrue`, `PressOnce` | |
| | `ListingIsWhole`, `RomIsTheFile` | `WholeDirectory`, `RomIsFile` | `SoundCards`, `Debug` |
| | `WholeUnlessLost` | `~lost => WholeOrReported` | `SoundCards`, `Debug` |
| | `CursorStaysListed` | `~swapped => CursorListed` | `SoundCards`, `Debug` |
| | `BootTypesAreKept` | `~swapped => TypeOK` | `SoundCards`, `NumberedCards`, `Debug` |
| `Dsk2NibProofs` | `TypesAreKept`, `TracksAreReadable`, `EverySectorDecodes` | `TypeOK`, `TrackReadable`, `SectorsDecode` | |

### The hypotheses

| Name | Says | Why it is asked for, and who guarantees it |
| --- | --- | --- |
| `~MidByteDeselect` | the host raises `sd_cs` between bytes, or while the card is idle | a host that does it inside a byte of a transfer makes the reply slot come twice (section 6, `RaisedOnce`). `SDCard.vhd` deselects after whole bytes, unless it is reset |
| `Configured` | CID, CSD and flag have been uploaded before the host starts | the upload moves the write pointer of the sector buffer (section 6, `SentSector`). The firmware uploads when the core asks for it |
| `PromptHost` | the host lowers `rd_i`, `wr_i` before it takes the first byte | a request that is still up is accepted again (section 6). `sdfat.vhd` lowers it in READ_BLOCK1 |
| `NoReadErrors` | a read that the card has accepted is answered with the block; a card may still refuse its initialisation | `error_os` is never read (section 6) |
| `Sound` | the card holds what a formatting program writes: the volume lies within the sector numbers, its clusters within `cluster_cnt`, the FAT within its sectors; the directory ends, or has the file, within its first sector; the chain of the file is as long as the file, which fits into the RAM | outside it the code fails, as section 6 shows for long directories and big clusters. It says nothing about the number of clusters, entries or sectors |
| `Roomy` | fewer codes wait than the FIFO has places | the FIFO has no full flag (section 6) |
| `AnswersInTime` | the card gives up its answer when it is deselected, and lets no more than `R1Tries + 1` bytes pass before an answer: 33 in the code | the SD specification allows 8 |
| `GoodCards` | `AnswersInTime`; the card takes byte addresses; no address overflows; it is not pulled out inside a block | `sd.c` sends byte addresses to every card and reads the CRC away |
| `SoundCards` | a card that can be mounted has its FATs, its root directory and its data area within the sectors the driver can address; the chains of its directories and files lead through cells the build's `load_dword` reads as they are, up to a mark `fat_is_last_cluster` knows; directories have between one and `DirMax` entries and clusters of `DirSectors` sectors, files fit behind the mapper | outside it the code fails, as sections 6 and 7 show. It says nothing of the number of clusters, sectors and entries, of what is deleted or hidden, or of cards that cannot be mounted; TLC evaluates it for the cards of `MCSmsBoot` |
| `NumberedCards` | the cells of a FAT hold numbers, those of no chain too | a loader that has lost its way looks at any of them, and the number of the FAT sector it looked at last stays in memory over a reset |
| `Debug`, `~swapped` | the program is built as the Makefile does; the card has not been exchanged | see section 6 |
| `StaysWhileJudged` | `AnswersInTime`; the card is not pulled out inside the response to CMD58 | the response is judged after its last byte |

### The card: `SdCardProofs`

What is not immediate in `TypeCorrect` is that pointers stay within arrays of any length
(`Remainder`), that a bit of a byte is a bit (`Weight`, `BitType`), and that a byte
received or sent is a byte (`SbufType`, `TxByteType`). One lemma per action; lemmas on the
two clock edges speak of the card's part of the state only (`CardOK`), since the actions
that share them treat pins and IO controller differently.

`OneTransfer` is not inductive: nothing in it says why `io_rd` is low when the card
leaves WAIT_IO, or why a card that waits cannot begin to wait again. The
inductive invariant is `TransferInv`:

| Part | Says | Needed because |
| --- | --- | --- |
| `TypeOK` | widths | case distinctions on states and counters |
| `Commands` | a transfer that is under way is that of `cmd` | the reply slot looks at `cmd` |
| `PastReply` | during a read `byte_cnt` is past the reply slot, or in its last half clock; during a write it is past the slot of the command | otherwise the slot would come again and raise a second request |
| `Requests` | a raised request means that its machine waits and that no answer is latched; while the IO controller serves, none is raised | the request must be cleared before the wait ends |
| `Answers` | a latched answer belongs to a machine that waits or sends; the copy in the card's clock domain has its latch, or its machine has gone to rest | the copy lags behind the latch by a clock |

`PastReply` is where `~MidByteDeselect` is used.

The theorems about sectors add `ServiceInv`, which ties the two clock domains together:

| Part | Says | Needed because |
| --- | --- | --- |
| `ConfigDone` | the upload is over | after it, every data byte belongs to a sector |
| `Strobes`, `Waits` | in which states the card's strobes are raised, and that only CMD17 waits | an engine of the buffer moves with every strobe |
| `Asked` | what the poll has found is the one request the card waits for, and nothing has answered it | the poll may be old when it is acted on |
| `Numbered` | the number found in the poll is the card's | `lba` may change with the next command only, which the card does not take while it waits |
| `Fresh` | a pointer is 0 until its engine begins with the sector | the command that asked for the sector reset both pointers; nothing else does |
| `Filling` | after `io_idx` bytes of an upload the pointer is there, and the bytes before it are the sector's; after the upload all are | the pointer wraps at the end, where the next sector would begin |
| `Draining` | the same for a fetch, one byte ahead: `buffer_dout` has been read before it is shifted | the read pointer moves at the end of the byte before |

`WholeConfig` needs `ConfigInv` only: an upload is begun after a poll that has found the
pointer at 0, and until then, sectors or not, nothing moves it. Below the pointer the registers
hold what was sent (`UploadStored`); that a byte of the CSD comes to its place although it is
addressed by the lower bits of the pointer is arithmetic (`SecondRound`).

### The controller: `SdCardCtrlProofs`

`CtrlInv` has the types, `Bits` and `Structure`. `Bits` says how many bits are left in the
shift register, without which `tx_v` could run empty: one subroutine serves
bytes, commands of 48 bits, and bytes that have still to be taken from the host.
`Structure` says who called whom: which return states a subroutine may have
(`Returns`, `Returning`), where the clock is low (`ClockLow`), where the handshake is high
(`Offered`), where DESELECT may come next (`Deselects`), what the byte counter can be
(`Counting`), and that `busy_o` is low only where the host is waited for (`Busy`). Pins and
handshake follow step by step.

**PortImplemented** is the refinement. `Init` implies `Port!Init`, and each action maps to one of
`BlockPort` or to a stutter, with `Left` and the phase read off return state and byte counter:
most cycles are a stutter because the byte counter has moved
through token or CRC only (`Unseen`), and a reset maps to a reset of the port.
`WholeBlock` adds what the host has taken (`Served`): with a byte that is offered and not
acknowledged (`Owed`), it is the block without what is left.

### The loader: `SdFatProofs`, `SdFatWalkProofs`

The types need no hypothesis. That each sector is decoded whole is the part of the
handshake, `SectorInv`:

| Part | Says |
| --- | --- |
| `Calm` | a controller that is not busy has lowered its handshake, and so has the loader |
| `Requests`, `Resets` | where a request is raised, and what is true while the controller is reset |
| `Asking` | until the loader sees `busy_o` it is either still low, or the controller has just accepted this very request |
| `Taking` | afterwards the sector passes (`Sending`: so many units taken, so many left, at most one owed) or has passed (`Sent`) |
| `Stored` | the units taken lie in the memory, each in its place, and the counter is at the next |
| `Decoding` | where the loader decodes, controller and copy of `busy_o` are at rest |

The cycle by which the loader is late is in `Asking` and `Sent`: `busy_os_r` and `busy_os` differ
there, and nowhere else.

What is decoded depends on the card, and the card on its chains of clusters. A chain is
defined by a function on an initial segment of the numbers (`IsChain`), and
`ClusterStep` says that it goes on with the FAT's entry. The library's induction theorems cannot be used
(they take an operator as a parameter), but its theorem that a set of numbers that is
not empty has a least element can: `SetInduction` follows from it and gives existence and
uniqueness of chains of every length (`ChainExists`, `ChainsAgree`). `FatUnits`, `DirUnits` and
`UnitPlace` say what a sound card has at each place. `SearchInv` then follows the loader
through the volume's sectors (`Volume`), the directory (`Searching`: the entries passed
were not the file, and the characters compared were equal) and the loop of section 6
that a volume with one sector to a cluster leads to (`Looping`), and `ErrorMeans` is part of it. `Copying` does the same for the file: at
every moment there are a cluster of the chain and a sector in it such that the bytes copied
(`Tally`, `Kept`: each in its place in the RAM) are those before (`InSector`, `AtCluster`,
`PastCluster`). The arithmetic, sectors of clusters and bytes of sectors, is in lemmas of its own
(`TimesLeq`, `Division`, `SectorsLeft`).

### The keyboard: `Ps2KeyboardProofs`

`LineInv` ties the frame received to the transmitter's state and the phase of its clock
(`Received`), and says that the pointers never promise more codes than wait (`Backed`),
also when the FIFO overflows. `OrderInv` adds, for a FIFO that does not: the write pointer is as
far ahead as there are codes waiting (`Pointers`), each place between holds its code
(`Content`), and the code under way is the oldest, its bits still to go, its parity so far
and the bits received being those of its frame (`InFlight`).

### The SD driver: `SmsSdProofs`

`TypeOK` is not inductive by itself: `Polled` looks at `path`, so the invariant says in
addition that CMD55 and ACMD41 are sent only in a loop that has set it (`Polling`).
`OwnAnswer` speaks of the next byte only; the invariant `OwnInv` says how much may still come:

| Part | Says | Needed because |
| --- | --- | --- |
| `AllOwn(out)` | no byte that is still to come answers an earlier command | `OwnAnswer` for the bytes behind the next one |
| deselected, idle, waking: nothing is to come | an answer does not live longer than its call | the next call begins with an empty line |
| before a command: at most six bytes are to come | they pass while the six bytes of the command are sent (`BacklogEmpty`) | CMD55 is sent without waiting |
| in `sd_wait_r1`, unless for CMD17: at most `n + 6` bytes, and a response (bit 7 clear) is among the last five (`Late`) | whichever way the loop ends, at most six bytes are left | the loop ends with a response, or when the counter has run out |

The last row is the argument about time-outs: after a response at most four bytes
follow, and when the counter runs out the rest of a late answer fits into the next
command. The length of the listening before a command, `ReadyTries`, does not matter.

**SectorPortImplemented** is the second refinement. What the card still has to send is the sector
asked for (`Promised`), behind a token the driver cannot mistake, and what it has sent is in
the buffer (`Stored`); when it is all there, the call returns `TRUE`, and no other step
touches the buffer. **FullSpeedWhenReady** relates the response on its way to the state of
the card (`FastInv`): while `sd_wait_r1` waits for ACMD41 or CMD58, a response without the
idle bit comes only from a card that has left the idle state.

### The boot loader: `SmsBootProofs`

**CacheIsTrue**. `load_fat_sector` is the only place that touches the number or the buffer,
and it notes the number after a load that succeeded; a number that is not 0 therefore stands
for a sector that was loaded from the card in the slot, as long as the card is not exchanged.

**PressActsOnce**. `PressOnce` is not inductive: a call may return a button only if it is
new, and the invariant says why a button that has acted is not: once `wait_key` has looked, a
button that is held and has acted is among those it has seen, and one that is not held has not
acted yet.

The three properties of what the user sees and gets have one invariant, `BootInv`, since
each leans on the others: the file that is loaded is the one the listing names, and the
listing is only as good as the chain it was read along.

| Part | Says | Needed because |
| --- | --- | --- |
| `Shapes` | the records have their fields, the arrays their bounds | an assignment to a field that is not there changes nothing |
| `Mounted` | `fat_t` has what the card has, from a mount that succeeded on | a failed mount leaves it half set; `Debug` is used here |
| `Walking`: `Listed(n)`, `AtSector(n)` | so many sectors of the directory have been read and had no end; the entries among them are in the buffer, each as far behind the first as entries were listed before it; the next sector is the one behind them, in its cluster and its chain | a listing is broken off, continued in another cluster, or ends with the chain, with the root directory of FAT16, or with an end mark |
| `Choosing` | the listing is whole, and the cursor is among its entries and on the screen | `dir[cur + 1]` is looked at before the cursor moves |
| `Loading`: `Transferred(p)`, `AtPlace(p)`, `PageSelected` | `p` sectors of the file have been passed, what was read of them is in the ROM area in order, all of it unless an error was reported; the cluster and sector of `file_t` are the place behind them, which may be the end of a cluster; the page is that of the sectors loaded so far | after an error the sectors passed and the sectors loaded differ, and the page goes by the latter |

Three families of lemmas carry it. `Chain...` and `Link...`: what the recursive function in `Chain`
computes. The library's induction theorems take an operator and cannot be used, so induction
goes through sets of numbers (`SetInduction`); a chain on a finite FAT ends once
(`EndUnique`) and no cluster comes twice (`SameBehind`, `ChainFacts`). `Before...`: the
place of an entry is the number of entries listed before it, which grows, differs for
different entries and takes every value below their number (`BeforeGrows`, `BeforeDiffers`,
`BeforeOnto`); with that no fold over a filtered sequence has to be reasoned about
(`ListingStep`, `ListingPlace`). `...Place`: sectors of clusters, entries of sectors
and pages of the mapper by quotient and remainder (`DivMod`, `SectorPlace`, `EntryPlace`, `RomPlace`).
`Lookup` joins them to the code: whatever the cache held, and whatever width `load_dword` has, the
cell of a sound cluster is found; `CacheIsTrue`'s invariant is what it needs.

**BootTypesAreKept** adds the ranges (`PlainInv`, `NumberInv`, `CursorInv`): any cell the driver reads gives a
`DWORD`, sound or not; the cursor is bounded by the listing, and `size` wraps with its `DWORD`.
Nothing is asked of the load: it may go astray.

### The converter: `Dsk2NibProofs`

The inductive invariant `IInv` says what has been written, not how: `Sectors` has, for every sector
encoded so far, each of its 409 bytes as `Byte` defines it from the image alone; `Filling` and
`Full` say how long the track is, and that the rest of it is 0xFF. The properties are
consequences for the state in which a track is written.

| Step | Says | Lemmas |
| --- | --- | --- |
| bits | a sum of bits has these bits, and a byte is known by its bits; from that the laws of `Xor`, what 0xAA leaves of a byte, and that the reader's `And` puts the halves together again | `BitsOfSum`, `SumOfBits`, `BitByBit`, `XorFacts`, `ClockBits`, `PairRead` |
| the table | the bytes a Disk II can read are the 64 of `GCR_encoding_table`, in order; `Rank` undoes `GCR` | `DiskBytesTable`, `TableSteps`, `RankOfValue` |
| the pairs | `encode62` gives `Packed(page)` whatever the buffer held: three rounds shift out four bits, and the mask takes the two that are left of the last sector | `ShiftInThrice`, `EncodesPage` |
| the fields | each field byte by byte, none but the first of a mark 0xD5, and where it is put behind the others | `AddressField`, `DataField`, `SectorAppended` |
| the marks | 0xD5 0xAA 0x96 is at 409 s + 38 and 0xD5 0xAA 0xAD at 409 s + 60 of the circle, and nowhere else, across its seam too | `NoOtherMark`, `MarksAre`, `SixteenMarks` |
| the sums | the reader's sums without carry, in groups of 20, telescope to the values that were encoded, and the checksum to 0; the pairs go back to their bytes | `Telescope`, `WithinIs`, `BeforeIs`, `ValuesAre`, `PageRead` |

Recursive functions (`turned`, `within`, `before`) are shown to exist by induction through sets of
numbers, as in `SmsBootProofs`. `IInv` itself was evaluated by TLC over the first tracks of both
images of `MCDsk2Nib`, 110 states; a whole run takes longer than the others, and the
properties it implies are what the run `Dsk2Nib` checks to the end.

### Only model-checked

* `IsBlockDevice` of `SdSystem`, and the theorems about the card with a controller that is reset
  (`SdSystemReset`): there the host is not the one of `~MidByteDeselect`.
* `TypeOK` and `CursorListed` of `SmsBoot` once the card has been exchanged, and `TypeOK` of a loader
  that has gone astray: what it follows is not bounded by the card any more.
* All liveness (`Completes`, `Ends`, `Delivered`), which is out of the proof system's reach.

### What the proofs found

`RxBits` of the controller and `TxByte` and `ByteReceived` of the card had `CASE` arms that
overlapped: TLC takes the first, the semantics of TLA+ allows any, and no invariant could be proved of
the choice. The arms are exclusive now, in the order of the code's `if`s; the units of
`SdFat` likewise. A sector of one unit, with which `SdFat` cannot
find the boot signature behind the first field, is excluded by its assumption.

## 6. Where code and comments disagree

Two runs end in a violation. **`SilentFatError`** (`fat.c:193`): when a FAT sector cannot be
loaded, `fat_next_cluster` returns 0. `fat_open_directory` takes that for an error;
`fat_load_file_sector` (`fat.c:223`) goes on with cluster 0, loads what lies before the
data area, finds the mark in cell 0 and returns `FAT_EOF`. `load_rom`, which prints "error
while reading file" when a sector fails (`main.c:203`), prints nothing, and `start_rom`
starts a program that is not the file. `WholeUnlessLost` proves that this is the only way:
with cards a formatting program writes and FAT sectors that can be read, a program that is
started is the whole file or the error was printed.

**`SdFatFileAddress`** (`sdfat.vhd:314`): `ram_addr_o` is `file_addr` when the file is found and
goes up by one in the cycle that raises `ram_wr` for the first byte, so the file lies at
`file_addr + 1`, not "at addr file_addr" (line 32).

`FileCopied` proves that from there on the file is copied in order, within the limits (`Sound`) that the
rows on `LongDirectory` and `BigClusters` below are about.

More disagreements can be seen by changing one line of a configuration, or adding
one:

| Change | Violated | What happens |
| --- | --- | --- |
| `SdCardEarlyConfig.cfg`: `SectorLen = 2`, `INVARIANT SentSector` | `SentSector` | bytes of the configuration move the sector buffer's write pointer (`sd_card.v:161`, against `user_io.v:302`); uploaded between CMD17 and its sector, they rotate the sector by their number, 33 in the code. The other runs assume `Configured` |
| `SdCardCtrl.cfg`: `INVARIANT WriteChecked` | `WriteChecked` | after the data response of a write the FSM goes to WR_WAIT (`SDCard.vhd:494`); the branch that would look at the response is never reached, against lines 99-103 |
| `SdSystemReset.cfg`: `PROPERTY ReadyAfterReset`, `CHECK_DEADLOCK FALSE` | `ReadyAfterReset` | after a reset in the first bytes of CMD0 the card takes the next CMD0 for the rest of the last, and the controller waits for a response for ever (`SDCard.vhd:547`, against line 44) |
| `SdFat.cfg`: `Disks <- LongDirectory` | `FileInOrder` | at the end of a directory sector the loader reads the same sector again (`sdfat.vhd:277`), since line 244 waits for a value `sector_cnt` does not have there, and `entry_cnt` is not cleared: the entries are compared from the middle of the name on. A file whose name ends like the one looked for is "found" (line 268) and copied |
| `SdFat.cfg`: `Disks <- BigClusters`, `RamSize = 16` | `FileInOrder` | with 64 sectors per cluster, which `sectors_per_cluster` can hold and FAT32 uses, `cluster_cnt` (15 bits, line 93) is back at 0 at the end of a cluster, and what lies behind the cluster is copied (line 327). With `CountMod = 16` the run passes |
| `SdFat.cfg`: `Disks <- SmallClusters` | `Ends` | with one sector per cluster, READ_DIR1 (line 253) follows the FAT before it has read anything, and never stops |
| `SdFat.cfg`: `Disks <- PartialSector` | `Ends` | a file that ends within a sector leaves the controller with a handshake nobody answers (line 309); the next load waits for ever |
| `SdFat.cfg`: `MayReset = {1}` | `Ends` | the board's reset does not lower `hndShk_is` (line 126); the controller waits for it, the loader for the controller |
| `SdFat.cfg`: `FailIn = {"reading"}` | `WholeSector` | `error_os` is never read (line 183): after an error the loader decodes the sector before |
| `SdCardCtrl.cfg`: `PromptHost = FALSE`, `PROPERTY AcceptsOnlyIdle` | `AcceptsOnlyIdle` | a request that is still raised is accepted while `busy_o` is high (`SDCard.vhd:405`, against line 61) |
| `SdSystemReset.cfg`: `PROPERTY RaisedOnce` | `RaisedOnce` | a reset in the byte of the reply raises `io_rd` twice (`sd_card.v:234`, against line 53) |
| `Ps2Keyboard.cfg`: `MaxUnread = 8` | `Delivered` | eight waiting codes make the FIFO look empty (`user_io.v:281`) |
| `SmsSd.cfg`: `"SDHC"` among `CardKinds` | `ImplementsSectorPort` | `sd_init` announces that it knows SDHC cards (`sd.c:250`) and reads the OCR, but not the bit the comment at line 203 speaks of: byte addresses are sent to a card that counts blocks |
| `SmsSd.cfg`: `KeepsOutput = TRUE` | `OwnAnswer` | a card that does not give up its answer when it is deselected sends the rest of it after CMD55 |
| `SmsSd.cfg`: `Gaps = {0, 2, 12}` | `OwnAnswer` | an answer that comes after the end of `sd_wait_r1` and of the next `sd_wait_ready` is taken for the next command's |
| `SmsSd.cfg`: `PullIn <- States` | `FastWhenReady`, and `ImplementsSectorPort` without it | a card pulled out in the middle of a block: the rest is 0xff, and `sd_load_sector` returns `TRUE`; or while the rest of the last response of `sd_init` is read away, which is judged afterwards |
| `SmsBoot.tla`: `Ends` without `[]<><<FatFails>>_vars` | `Ends` | a FAT sector that fails whenever it is asked for, with the card pulled out for instance: cluster 0 (`fat.c:193`) is read to its end, the next cluster is 0 again, and the loop of `load_rom` (`main.c:193`) goes on for ever |
| `SmsBoot.cfg`: `Debug = FALSE` | `CursorListed` | without `DEBUG` the assignment `i = 1` (`main.c:71`) belongs to the failure of `fat_init`: "load from SD card" is offered when the card could not be mounted |
| `MCSmsBoot.tla`: `<<"fat32", "zero">>` or `<<"fat32", "full">>` in `SmallSetups`, the `ASSUME` removed | `RomIsFile` | `load_dword` (`fat.c:24`) shifts 16-bit operands, and `fat_is_last_cluster` compares all 32 bits although marks have 28: the end of a file is recognised only where the upper half is lost and the lower one is extended by its sign |
| `SmsBoot.tla`: `CacheTrue` and `RomIsFile` without `~swapped`; `MCSmsBoot.tla`: `<<"copied", "zero">>` in `SmallSetups` | both | an exchanged card and a reset: the number of the cached FAT sector survives (`fat.c:159`), and the chain of the old card is followed on the new one |

## 7. Abstractions and limits

* Edges of independent clocks come one after the other. What a flip-flop samples
  while its input changes (metastability, a pointer between two values) is below
  the grain of the models.
* Registers that drive nothing else are left out: `sdfat.vhd` copies several fields
  of the volume into registers nobody reads. Inputs that `mist_top.vhd` ties to a
  constant (`allow_sdhc`, the card type, `modus_i`) have that value.
* CRCs: sent as constants by the code, checked by nobody.
* The IO controller's firmware is modelled from the protocol `user_io.v` offers: it
  polls, and serves what it has found in any order, with one command per transfer. The
  real card never fails it.
* `SdFat` does not check the sector number against the volume: a chain that leaves
  the card is not among `Disks`.
* The host of `SdSystem` reads or writes any one block at a time and follows the
  handshake; `SdFat` is checked on `BlockPort` and not on the pins.
* The SD driver's text on the debug line and the screen is left out; of `load_rom`'s,
  whether an error has been printed is kept. `spi.vhd` is a byte exchanged; the clock
  divider is the one bit `fast`.
* `SmsBoot` does not reset the program inside the load of a sector, where `fat_buffer` would
  be half one sector and half another under the number of the first: with that,
  `CacheTrue` would not hold until the next load.
* `current_fat_sector` is never initialised; at power-up the model has 0 there, which no FAT
  sector has as its number.
* Volumes are sound: chains end, directories have at most `DirMax` entries (more would run
  over the memory behind `directory_buffer`, `fat.c:287`), and clusters have as many
  sectors as `fat_open_directory` reads (8 in the code; others are read wrongly). The root
  directory has an entry: in an empty one, FIRE acts on the end mark. A ".." of
  FAT32 has cluster 0, which the driver does not know for the root.
* `Dsk2Nib` begins when the files are open; arguments and file names (lines 150 to 187) are
  not modelled, with a name of fewer than four characters among them (line 177 looks
  before its beginning).
* Not modelled: video, OSD, sound, PLLs, CPU cores, and the imported consoles and
  computers. `PROJECT.json` gives the reason for each.

## 8. Plan

In this order:

1. **The system proved**: `IsBlockDevice` from the theorems about card and controller, which
   speak of the same pins.
2. **`SdFat` with failing reads**: what still holds of `FileInOrder` when `FailIn` has
   "reading".
3. **`SmsConsole`**: `console.c` on the VDP's control port: its address flip-flop, which a
   reset between two bytes leaves toggled (`vdp.vhd:211`), and the cursor kept twice.
4. **`DiskII`, `TrackLoader`**: head stepping, and a track that changes while it loads.
5. **`DataIo`, `Sdram`**: the write strobe's way from the SPI clock to the core's, and the
   eight-step access cycle.
