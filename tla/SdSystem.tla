------------------------------ MODULE SdSystem ------------------------------
(***************************************************************************)
(* The SD card path of misc/sdcard: a host, SdCardCtrl, the emulated card  *)
(* and the IO controller with the sectors of the real card.  The pins are  *)
(* shared: a cycle of the controller that moves sd_sck or sd_cs is at the  *)
(* same time a step of the card.  The IO controller runs on its own clock. *)
(***************************************************************************)
EXTENDS SdCard

CONSTANTS InitClks, AddrSpace, Addrs, HostData,
          MaxResets      \* bound on the pulses of reset_i after power-on

ASSUME ResetsAssumption == MaxResets \in Nat

VARIABLES
  state_v, rtnState_v, bitCnt_v, byteCnt_v, tx_v, rx_v, addr_v,
  getCmdResponse_v, rtnData_v, doDeselect_v,
  busy_o, hndShk_r, data_o, error_o,
  rd_i, wr_i, continue_i, addr_i, data_i, hndShk_i, op, taken,
  disk,          \* sectors of the real card
  to_store,      \* has the IO controller a fetched sector to write to it?
  got,           \* the host: bytes of its operation so far
  resets         \* pulses of reset_i so far

Ctrl == INSTANCE SdCardCtrl WITH
  BlockSize <- SectorLen, Sdhc <- TRUE, PromptHost <- TRUE, MayReset <- TRUE,
  cs_bo <- sd_cs, sclk_r <- sd_sck, mosi_o <- sd_sdi, miso_i <- sd_sdo

ctrlOwn == <<state_v, rtnState_v, bitCnt_v, byteCnt_v, tx_v, rx_v, addr_v,
             getCmdResponse_v, rtnData_v, doDeselect_v, busy_o, hndShk_r,
             data_o, error_o, rd_i, wr_i, continue_i, addr_i, data_i, hndShk_i,
             op, taken>>
storeVars == <<disk, to_store>>
sysVars   == <<vars, ctrlOwn, storeVars, got, resets>>

-----------------------------------------------------------------------------

WordOf(n) == <<n \div 2 ^ 24 % 256, n \div 2 ^ 16 % 256, n \div 256 % 256, n % 256>>
DiskAddrs == 0 .. AddrSpace - 1

\* What the IO controller may upload for a sector number: of a sector that the
\* real card has not (a cut command leaves any number in lba), anything.
Contents(word) == IF \E a \in DiskAddrs : WordOf(a) = word
                    THEN {disk[a] : a \in {b \in DiskAddrs : WordOf(b) = word}}
                    ELSE Sectors
Stored == [a \in DiskAddrs |-> IF WordOf(a) = io_addr THEN io_sector ELSE disk[a]]

SysInit ==
  /\ Init /\ Ctrl!CtrlInit
  /\ disk \in [DiskAddrs -> Sectors]
  /\ to_store = FALSE /\ got = <<>> /\ resets = 0

\* One cycle of the controller, and what the card makes of its pins.
Cycle ==
  /\ Ctrl!CtrlTick
  /\ HostNext \/ UNCHANGED <<pinVars, cardVars, ioVars>>
  /\ UNCHANGED <<storeVars, got, resets>>

ResetCtrl ==
  /\ resets < MaxResets /\ resets' = resets + 1
  /\ Ctrl!Reset
  /\ got' = <<>>
  /\ UNCHANGED <<pinVars, cardVars, ioVars, storeVars>>

Host ==
  /\ \/ Ctrl!HostRequest /\ got' = <<>>
     \/ Ctrl!HostAck /\ got' = Append(got, IF op = "read" THEN data_o ELSE data_i')
     \/ (Ctrl!HostRelease \/ Ctrl!HostAckDone \/ Ctrl!HostDone) /\ UNCHANGED got
  /\ UNCHANGED <<pinVars, cardVars, ioVars, storeVars, resets>>

\* The IO controller uploads the sector it was asked for, and writes a sector
\* it has fetched to the card after the transfer, before it polls again.
IoController ==
  /\ \/ ~to_store /\ IoPoll /\ UNCHANGED storeVars
     \/ /\ \E sector \in Contents(io_addr) : IoBeginRead(sector)
        /\ UNCHANGED storeVars
     \/ (IoBeginConfig \/ IoBeginWrite \/ IoShift \/ IoReadByte \/ IoConfigByte
           \/ IoWriteByte) /\ UNCHANGED storeVars
     \/ IoEnd /\ to_store' = (io_cmd = "WR") /\ UNCHANGED disk
     \/ /\ to_store
        /\ disk' = Stored
        /\ to_store' = FALSE
        /\ UNCHANGED vars
  /\ UNCHANGED <<ctrlOwn, got, resets>>

SysNext == Cycle \/ ResetCtrl \/ Host \/ IoController

\* The controller is clocked all the time; the host answers handshakes and
\* requests it has made; the IO controller polls and serves what it finds.
Fairness ==
  /\ WF_sysVars(Cycle)
  /\ WF_sysVars(Host /\ (Ctrl!HostRelease \/ Ctrl!HostAck \/ Ctrl!HostAckDone \/ Ctrl!HostDone))
  /\ WF_sysVars(IoController)

SysSpec == SysInit /\ [][SysNext]_sysVars /\ Fairness

-----------------------------------------------------------------------------
(* Properties *)

AsBlock(sector) == [i \in 1 .. SectorLen |-> sector[i - 1]]

\* A write takes effect when the IO controller has fetched the whole sector.
Store == [a \in DiskAddrs |-> AsBlock((IF to_store THEN Stored ELSE disk)[a])]

Taken == op = "write" /\ Len(got) = SectorLen
           /\ (wr_io_ack_i \/ write_state = "IDLE")

Device == INSTANCE BlockDevice WITH
  BlockLen <- SectorLen, Addresses <- DiskAddrs, Bytes <- Byte,
  store <- Store, pending <- op, block <- got, written <- Taken,
  addr <- IF state_v = "WAIT_FOR_HOST_RW" /\ (rd_i \/ wr_i) THEN Ctrl!NextAddr
                                                             ELSE addr_v

\* Controller, card and IO controller together are a block device: reads return
\* what the sector holds, writes are atomic and done when reported.
IsBlockDevice == Device!Spec

\* Every operation the host begins ends.
Completes == Device!Completes

\* Header of SDCard.vhd: pulsing reset_i unfreezes the controller, so after a
\* reset it must come to accept requests again.
ReadyAfterReset == state_v = "START_INIT" ~> state_v = "WAIT_FOR_HOST_RW"

=============================================================================
