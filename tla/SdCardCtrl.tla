----------------------------- MODULE SdCardCtrl -----------------------------
(***************************************************************************)
(* The SD card controller SdCardCtrl (SDCard.vhd): initialises the card,   *)
(* reads and writes single blocks over SPI, and passes the bytes of a      *)
(* block to and from its host with a four-phase handshake.                 *)
(*                                                                         *)
(* Grain: one action per cycle of clk_i in which the controller does       *)
(* something.  The cycles in which sclkPhaseTimer_v counts down, or in     *)
(* which it waits for the host's half of the handshake, change nothing and *)
(* are stuttering steps.                                                   *)
(*                                                                         *)
(* The card is any card: each falling edge of the clock puts any bit on    *)
(* miso_i.  The host follows the protocol of the port signals.             *)
(***************************************************************************)
EXTENDS Integers, Sequences

CONSTANTS
  BlockSize,      \* BLOCK_SIZE_G
  Sdhc,           \* CARD_TYPE_G = SDHC_CARD_E
  InitClks,       \* NUM_INIT_CLKS_C: 160 in the code
  AddrSpace,      \* number of block addresses: 2^32 in the code
  Addrs,          \* addresses the host asks for
  HostData,       \* bytes the host writes
  PromptHost,     \* does the host lower its request before it takes a byte?
  MayReset        \* may reset_i be pulsed?

ASSUME CtrlAssumption ==
  /\ BlockSize \in Nat \ {0} /\ InitClks \in Nat \ {0} /\ AddrSpace \in Nat \ {0}
  /\ Sdhc \in BOOLEAN /\ MayReset \in BOOLEAN /\ PromptHost \in BOOLEAN
  /\ Addrs \subseteq 0 .. AddrSpace - 1
  /\ HostData # {} /\ HostData \subseteq 0 .. 255

LO == 0
HI == 1

CMD0_C          == 64
CMD8_C          == 72
CMD55_C         == 119
CMD41_C         == 105
READ_BLK_CMD_C  == 81
WRITE_BLK_CMD_C == 88

ACTIVE_NO_ERRORS_C == 0
IDLE_NO_ERRORS_C   == 1
NO_TOKEN_C         == 255
START_TOKEN_C      == 254
FAKE_CRC_C         == 255
DataAccepted(rx)   == rx % 32 = 5          \* DATA_ACCEPTED_C, "---00101"

RD_BLK_SZ_C == 1 + BlockSize + 2
WR_BLK_SZ_C == 1 + 1 + BlockSize + 2 + 1

FsmStates ==
  {"START_INIT", "SEND_CMD0", "CHK_CMD0_RESPONSE", "SEND_CMD8",
   "GET_CMD8_RESPONSE", "SEND_CMD55", "SEND_CMD41", "CHK_ACMD41_RESPONSE",
   "WAIT_FOR_HOST_RW", "RD_BLK", "WR_BLK", "WR_WAIT", "START_TX", "TX_BITS",
   "GET_CMD_RESPONSE", "RX_BITS", "DESELECT", "PULSE_SCLK", "REPORT_ERROR"}

VARIABLES
  state_v, rtnState_v,                     \* the FSM, and where a subroutine returns
  bitCnt_v, byteCnt_v, tx_v, rx_v, addr_v,
  getCmdResponse_v, rtnData_v, doDeselect_v,
  busy_o, hndShk_r, data_o, error_o,       \* to the host
  rd_i, wr_i, continue_i, addr_i, data_i, hndShk_i,   \* from the host
  op, taken,                               \* the host: request served, its bytes
  cs_bo, sclk_r, mosi_o, miso_i            \* the card's pins

portVars == <<rd_i, wr_i, continue_i, addr_i, data_i, hndShk_i>>
hostVars == <<portVars, op, taken>>
flagVars == <<getCmdResponse_v, rtnData_v, doDeselect_v>>
pins     == <<cs_bo, sclk_r, mosi_o>>
ctrlVars == <<state_v, rtnState_v, bitCnt_v, byteCnt_v, tx_v, rx_v, addr_v,
              flagVars, busy_o, hndShk_r, data_o, error_o, pins>>
vars     == <<ctrlVars, hostVars, miso_i>>

-----------------------------------------------------------------------------

ByteBits(byte) == [i \in 1 .. 8 |-> (byte \div 2 ^ (8 - i)) % 2]
AddrBits(addr) == ByteBits(addr \div 2 ^ 24 % 256) \o ByteBits(addr \div 2 ^ 16 % 256)
                  \o ByteBits(addr \div 256 % 256) \o ByteBits(addr % 256)
CmdBits(cmd, addr, crc) == ByteBits(cmd) \o AddrBits(addr) \o ByteBits(crc)

Shifted(rx, bit) == (2 * rx + bit) % 256

\* Mutant: the host's half of the handshake is not looked at.
ProceedsEarly == state_v = "START_INIT" \/ hndShk_r = LO

\* The controller acts when both handshakes are low; START_INIT does not wait.
Proceeds == state_v = "START_INIT" \/ (hndShk_r = LO /\ hndShk_i = LO)

\* A cycle spent in state s, in which busy_o gets its default.
In(s) == state_v = s /\ Proceeds /\ busy_o' = TRUE

-----------------------------------------------------------------------------
(* Reset and handshake *)

\* reset_i = YES.  The registers that talk to the card and to the host keep
\* their values until START_INIT; the host gives up its request.
Reset ==
  /\ MayReset
  /\ state_v' = "START_INIT" /\ busy_o' = TRUE
  /\ op' = "none" /\ taken' = 0
  /\ UNCHANGED <<rtnState_v, bitCnt_v, byteCnt_v, tx_v, rx_v, addr_v, flagVars,
                 hndShk_r, data_o, error_o, pins, portVars>>

\* The host has acknowledged: take its byte and lower the handshake.
TakeHandshake ==
  /\ state_v # "START_INIT" /\ hndShk_r = HI /\ hndShk_i = HI
  /\ tx_v' = ByteBits(data_i)
  /\ hndShk_r' = LO
  /\ UNCHANGED <<state_v, rtnState_v, bitCnt_v, byteCnt_v, rx_v, addr_v, flagVars,
                 busy_o, data_o, error_o, pins, hostVars>>

-----------------------------------------------------------------------------
(* Initialisation of the card *)

\* Mutant: the flag that returns bytes to the host survives a reset.
StartInitReturning ==
  /\ In("START_INIT")
  /\ error_o' = 0 /\ sclk_r' = LO /\ hndShk_r' = LO /\ addr_v' = 0
  /\ bitCnt_v' = InitClks
  /\ state_v' = "DESELECT" /\ rtnState_v' = "SEND_CMD0"
  /\ UNCHANGED <<byteCnt_v, tx_v, rx_v, getCmdResponse_v, rtnData_v,
                 doDeselect_v, data_o, cs_bo, mosi_o, hostVars>>

\* Mutant: the clock keeps the level it had when the reset came.
StartInitKeepingClock ==
  /\ In("START_INIT")
  /\ error_o' = 0 /\ hndShk_r' = LO /\ addr_v' = 0
  /\ rtnData_v' = FALSE
  /\ bitCnt_v' = InitClks
  /\ state_v' = "DESELECT" /\ rtnState_v' = "SEND_CMD0"
  /\ UNCHANGED <<byteCnt_v, tx_v, rx_v, getCmdResponse_v, doDeselect_v, data_o,
                 sclk_r, cs_bo, mosi_o, hostVars>>

StartInit ==
  /\ In("START_INIT")
  /\ error_o' = 0 /\ sclk_r' = LO /\ hndShk_r' = LO /\ addr_v' = 0
  /\ rtnData_v' = FALSE
  /\ bitCnt_v' = InitClks
  /\ state_v' = "DESELECT" /\ rtnState_v' = "SEND_CMD0"
  /\ UNCHANGED <<byteCnt_v, tx_v, rx_v, getCmdResponse_v, doDeselect_v, data_o,
                 cs_bo, mosi_o, hostVars>>

\* Load a command and call the FSM subroutine that sends it.
SendCommand(from, bits, deselect, to) ==
  /\ In(from)
  /\ cs_bo' = LO
  /\ tx_v' = bits /\ bitCnt_v' = 48
  /\ getCmdResponse_v' = TRUE /\ doDeselect_v' = deselect
  /\ state_v' = "START_TX" /\ rtnState_v' = to
  /\ UNCHANGED <<byteCnt_v, rx_v, addr_v, rtnData_v, hndShk_r, data_o, error_o,
                 sclk_r, mosi_o, hostVars>>

SendCmd0  == SendCommand("SEND_CMD0", CmdBits(CMD0_C, 0, 149), TRUE, "CHK_CMD0_RESPONSE")
SendCmd8  == SendCommand("SEND_CMD8", CmdBits(CMD8_C, 426, 135), FALSE, "GET_CMD8_RESPONSE")
SendCmd55 == SendCommand("SEND_CMD55", CmdBits(CMD55_C, 0, FAKE_CRC_C), TRUE, "SEND_CMD41")
SendCmd41 == SendCommand("SEND_CMD41", CmdBits(CMD41_C, 2 ^ 30, FAKE_CRC_C), TRUE,
                         "CHK_ACMD41_RESPONSE")

\* A state that only looks at the response and branches.
Check(from, to) ==
  /\ In(from)
  /\ state_v' = to
  /\ UNCHANGED <<rtnState_v, bitCnt_v, byteCnt_v, tx_v, rx_v, addr_v, flagVars,
                 hndShk_r, data_o, error_o, pins, hostVars>>

ChkCmd0Response ==
  Check("CHK_CMD0_RESPONSE", IF rx_v = IDLE_NO_ERRORS_C THEN "SEND_CMD8" ELSE "SEND_CMD0")

ChkAcmd41Response ==
  Check("CHK_ACMD41_RESPONSE",
        CASE rx_v = ACTIVE_NO_ERRORS_C -> "WAIT_FOR_HOST_RW"
          [] rx_v = IDLE_NO_ERRORS_C   -> "SEND_CMD55"
          [] OTHER                     -> "REPORT_ERROR")

GetCmd8Response ==
  /\ In("GET_CMD8_RESPONSE")
  /\ cs_bo' = LO
  /\ bitCnt_v' = 31
  /\ getCmdResponse_v' = FALSE /\ doDeselect_v' = TRUE
  /\ state_v' = "RX_BITS" /\ rtnState_v' = "SEND_CMD55"
  /\ UNCHANGED <<byteCnt_v, tx_v, rx_v, addr_v, rtnData_v, hndShk_r, data_o,
                 error_o, sclk_r, mosi_o, hostVars>>

-----------------------------------------------------------------------------
(* Host requests *)

\* With continue_i the address after the last one is used.
NextAddr == IF continue_i THEN (addr_v + (IF Sdhc THEN 1 ELSE BlockSize)) % AddrSpace
                          ELSE addr_i

Accept(cmd, size, to) ==
  /\ In("WAIT_FOR_HOST_RW")
  /\ getCmdResponse_v' = TRUE
  /\ cs_bo' = LO
  /\ addr_v' = NextAddr
  /\ tx_v' = CmdBits(cmd, NextAddr, FAKE_CRC_C) /\ bitCnt_v' = 48
  /\ byteCnt_v' = size
  /\ state_v' = "START_TX" /\ rtnState_v' = to
  /\ UNCHANGED <<rx_v, rtnData_v, doDeselect_v, hndShk_r, data_o, error_o,
                 sclk_r, mosi_o, hostVars>>

AcceptRead  == rd_i /\ Accept(READ_BLK_CMD_C, RD_BLK_SZ_C, "RD_BLK")
AcceptWrite == ~rd_i /\ wr_i /\ Accept(WRITE_BLK_CMD_C, WR_BLK_SZ_C, "WR_BLK")

WaitForHost ==
  /\ state_v = "WAIT_FOR_HOST_RW" /\ Proceeds /\ ~rd_i /\ ~wr_i
  /\ busy_o' = FALSE
  /\ getCmdResponse_v' = TRUE
  /\ cs_bo' = HI
  /\ UNCHANGED <<state_v, rtnState_v, bitCnt_v, byteCnt_v, tx_v, rx_v, addr_v,
                 rtnData_v, doDeselect_v, hndShk_r, data_o, error_o, sclk_r,
                 mosi_o, hostVars>>

-----------------------------------------------------------------------------
(* Blocks *)

\* Mutant: off by one.
ReturnsCrcToo == byteCnt_v >= 2

\* After the token the bytes of the block are returned to the host, the two of
\* the CRC are not.
ReturnsNext == byteCnt_v >= 3
\* Calls RX_BITS for one byte, or ends the block.
ReadBlock ==
  /\ In("RD_BLK")
  /\ LET strange == byteCnt_v = RD_BLK_SZ_C - 1 /\ rx_v \notin {NO_TOKEN_C, START_TOKEN_C}
         waiting == byteCnt_v = RD_BLK_SZ_C - 1 /\ rx_v # START_TOKEN_C
         done    == byteCnt_v = 0
     IN /\ rtnData_v' = (byteCnt_v < RD_BLK_SZ_C /\ ~waiting /\ ReturnsNext)
        /\ byteCnt_v' = IF waiting \/ done THEN byteCnt_v ELSE byteCnt_v - 1
        /\ bitCnt_v' = IF done THEN 2 ELSE 7
        /\ state_v' = CASE strange -> "REPORT_ERROR"
                        [] done    -> "DESELECT"
                        [] OTHER   -> "RX_BITS"
        /\ rtnState_v' = IF done THEN "WAIT_FOR_HOST_RW" ELSE "RD_BLK"
        /\ sclk_r' = IF done THEN LO ELSE sclk_r
  /\ UNCHANGED <<tx_v, rx_v, addr_v, getCmdResponse_v, doDeselect_v, hndShk_r,
                 data_o, error_o, cs_bo, mosi_o, hostVars>>

\* Calls START_TX for one byte: the bytes of the block come from the host, and
\* are loaded into tx_v by its handshake.
WriteBlockByte ==
  /\ In("WR_BLK") /\ byteCnt_v >= 2
  /\ getCmdResponse_v' = FALSE
  /\ bitCnt_v' = 8
  /\ state_v' = "START_TX" /\ rtnState_v' = "WR_BLK"
  /\ byteCnt_v' = byteCnt_v - 1
  /\ hndShk_r' = IF byteCnt_v \in 4 .. WR_BLK_SZ_C - 2 THEN HI ELSE LO
  /\ tx_v' = CASE byteCnt_v = WR_BLK_SZ_C     -> ByteBits(NO_TOKEN_C)
               [] byteCnt_v = WR_BLK_SZ_C - 1 -> ByteBits(START_TOKEN_C)
               [] byteCnt_v \in {2, 3}        -> ByteBits(FAKE_CRC_C)
               [] OTHER                       -> tx_v
  /\ UNCHANGED <<rx_v, addr_v, rtnData_v, doDeselect_v, data_o, error_o, pins,
                 hostVars>>

\* The response to the block is received, and WR_WAIT is next: the branch that
\* would look at it, at byteCnt_v = 0, is never taken.
WriteBlockResponse ==
  /\ In("WR_BLK") /\ byteCnt_v = 1
  /\ getCmdResponse_v' = FALSE
  /\ bitCnt_v' = 7
  /\ state_v' = "RX_BITS" /\ rtnState_v' = "WR_WAIT"
  /\ byteCnt_v' = 0
  /\ UNCHANGED <<tx_v, rx_v, addr_v, rtnData_v, doDeselect_v, hndShk_r, data_o,
                 error_o, pins, hostVars>>

WriteWait ==
  /\ In("WR_WAIT")
  /\ sclk_r' = 1 - sclk_r
  /\ IF sclk_r = HI /\ miso_i = HI
       THEN bitCnt_v' = 2 /\ state_v' = "DESELECT" /\ rtnState_v' = "WAIT_FOR_HOST_RW"
       ELSE UNCHANGED <<bitCnt_v, state_v, rtnState_v>>
  /\ UNCHANGED <<byteCnt_v, tx_v, rx_v, addr_v, flagVars, hndShk_r, data_o,
                 error_o, cs_bo, mosi_o, hostVars>>

-----------------------------------------------------------------------------
(* The FSM's subroutines *)

StartTx ==
  /\ In("START_TX")
  /\ sclk_r' = LO
  /\ mosi_o' = Head(tx_v) /\ tx_v' = Tail(tx_v)
  /\ bitCnt_v' = bitCnt_v - 1
  /\ state_v' = "TX_BITS"
  /\ UNCHANGED <<rtnState_v, byteCnt_v, rx_v, addr_v, flagVars, hndShk_r, data_o,
                 error_o, cs_bo, hostVars>>

TxBits ==
  /\ In("TX_BITS")
  /\ sclk_r' = 1 - sclk_r
  /\ IF sclk_r = HI /\ bitCnt_v # 0
       THEN /\ mosi_o' = Head(tx_v) /\ tx_v' = Tail(tx_v)
            /\ bitCnt_v' = bitCnt_v - 1
       ELSE /\ bitCnt_v' = IF sclk_r = HI /\ getCmdResponse_v THEN 7 ELSE bitCnt_v
            /\ UNCHANGED <<mosi_o, tx_v>>
  /\ state_v' = IF sclk_r = HI /\ bitCnt_v = 0
                  THEN IF getCmdResponse_v THEN "GET_CMD_RESPONSE" ELSE rtnState_v
                  ELSE "TX_BITS"
  /\ UNCHANGED <<rtnState_v, byteCnt_v, rx_v, addr_v, flagVars, hndShk_r, data_o,
                 error_o, cs_bo, hostVars>>

\* The card holds miso_i high until the first bit of its response.
GetCmdResponse ==
  /\ In("GET_CMD_RESPONSE")
  /\ sclk_r' = 1 - sclk_r
  /\ IF sclk_r = HI /\ miso_i = LO
       THEN /\ rx_v' = Shifted(rx_v, miso_i)
            /\ bitCnt_v' = bitCnt_v - 1
            /\ state_v' = "RX_BITS"
       ELSE UNCHANGED <<rx_v, bitCnt_v, state_v>>
  /\ UNCHANGED <<rtnState_v, byteCnt_v, tx_v, addr_v, flagVars, hndShk_r, data_o,
                 error_o, cs_bo, mosi_o, hostVars>>

RxBits ==
  /\ In("RX_BITS")
  /\ sclk_r' = 1 - sclk_r
  /\ LET last == sclk_r = HI /\ bitCnt_v = 0
     IN /\ rx_v' = IF sclk_r = HI THEN Shifted(rx_v, miso_i) ELSE rx_v
        /\ bitCnt_v' = CASE last /\ doDeselect_v -> 1
                         [] sclk_r = HI /\ ~last -> bitCnt_v - 1
                         [] OTHER                -> bitCnt_v
        /\ state_v' = CASE last /\ doDeselect_v  -> "DESELECT"
                        [] last /\ ~doDeselect_v -> rtnState_v
                        [] OTHER                 -> "RX_BITS"
        /\ IF last /\ rtnData_v
             THEN data_o' = rx_v' /\ hndShk_r' = HI
             ELSE UNCHANGED <<data_o, hndShk_r>>
  /\ UNCHANGED <<rtnState_v, byteCnt_v, tx_v, addr_v, flagVars, error_o, cs_bo,
                 mosi_o, hostVars>>

DeselectCard ==
  /\ In("DESELECT")
  /\ doDeselect_v' = FALSE
  /\ cs_bo' = HI /\ mosi_o' = HI /\ sclk_r' = LO
  /\ state_v' = "PULSE_SCLK"
  /\ UNCHANGED <<rtnState_v, bitCnt_v, byteCnt_v, tx_v, rx_v, addr_v,
                 getCmdResponse_v, rtnData_v, hndShk_r, data_o, error_o, hostVars>>

\* Mutant: the counter is decremented past zero.
PulseSclkUnchecked ==
  /\ In("PULSE_SCLK")
  /\ sclk_r' = 1 - sclk_r
  /\ IF sclk_r = HI
       THEN /\ bitCnt_v' = bitCnt_v - 1
            /\ state_v' = IF bitCnt_v = 0 THEN rtnState_v ELSE state_v
       ELSE UNCHANGED <<bitCnt_v, state_v>>
  /\ UNCHANGED <<rtnState_v, byteCnt_v, tx_v, rx_v, addr_v, flagVars, hndShk_r,
                 data_o, error_o, cs_bo, mosi_o, hostVars>>

PulseSclk ==
  /\ In("PULSE_SCLK")
  /\ sclk_r' = 1 - sclk_r
  /\ IF sclk_r = HI
       THEN IF bitCnt_v # 0 THEN bitCnt_v' = bitCnt_v - 1 /\ UNCHANGED state_v
                            ELSE state_v' = rtnState_v /\ UNCHANGED bitCnt_v
       ELSE UNCHANGED <<bitCnt_v, state_v>>
  /\ UNCHANGED <<rtnState_v, byteCnt_v, tx_v, rx_v, addr_v, flagVars, hndShk_r,
                 data_o, error_o, cs_bo, mosi_o, hostVars>>

ReportError ==
  /\ state_v = "REPORT_ERROR" /\ Proceeds
  /\ error_o' = rx_v /\ busy_o' = FALSE
  /\ UNCHANGED <<state_v, rtnState_v, bitCnt_v, byteCnt_v, tx_v, rx_v, addr_v,
                 flagVars, hndShk_r, data_o, pins, hostVars>>

-----------------------------------------------------------------------------
(* The host, as sdfat.vhd's READ_BLOCK1 and READ_BLOCK2 do it: raise the     *)
(* request while busy_o is low, lower it once busy_o is high, answer every   *)
(* handshake, and take the fall of busy_o for the end.                       *)

HostRequest ==
  /\ ~busy_o /\ op = "none" /\ ~rd_i /\ ~wr_i
  /\ \E what \in {"read", "write"} :
       op' = what /\ rd_i' = (what = "read") /\ wr_i' = (what = "write")
  /\ addr_i' \in Addrs /\ continue_i' \in BOOLEAN
  /\ taken' = 0
  /\ UNCHANGED <<ctrlVars, data_i, hndShk_i, miso_i>>

HostRelease ==
  /\ busy_o /\ (rd_i \/ wr_i)
  /\ rd_i' = FALSE /\ wr_i' = FALSE
  /\ UNCHANGED <<ctrlVars, continue_i, addr_i, data_i, hndShk_i, op, taken, miso_i>>

\* taken is capped: a byte too many is as wrong as ten.
HostAck ==
  /\ hndShk_r = HI /\ hndShk_i = LO
  /\ PromptHost => ~rd_i /\ ~wr_i
  /\ hndShk_i' = HI
  /\ data_i' \in HostData
  /\ taken' = IF taken > BlockSize THEN taken ELSE taken + 1
  /\ UNCHANGED <<ctrlVars, rd_i, wr_i, continue_i, addr_i, op, miso_i>>

HostAckDone ==
  /\ hndShk_r = LO /\ hndShk_i = HI
  /\ hndShk_i' = LO
  /\ UNCHANGED <<ctrlVars, rd_i, wr_i, continue_i, addr_i, data_i, op, taken, miso_i>>

HostDone ==
  /\ ~busy_o /\ op # "none" /\ ~rd_i /\ ~wr_i
  /\ op' = "none"
  /\ UNCHANGED <<ctrlVars, portVars, taken, miso_i>>

-----------------------------------------------------------------------------
(* Specification *)

\* The power-on reset has been given: mist_top.vhd holds it until the PLL locks.
CtrlInit ==
  /\ state_v = "START_INIT" /\ rtnState_v = "START_INIT"
  /\ bitCnt_v = 0 /\ byteCnt_v = 0 /\ tx_v = <<>> /\ rx_v = 0 /\ addr_v = 0
  /\ getCmdResponse_v = FALSE /\ rtnData_v = FALSE /\ doDeselect_v = FALSE
  /\ busy_o = TRUE /\ hndShk_r = LO /\ data_o = 0 /\ error_o = 0
  /\ rd_i = FALSE /\ wr_i = FALSE /\ continue_i = FALSE
  /\ addr_i = 0 /\ data_i = 0 /\ hndShk_i = LO
  /\ op = "none" /\ taken = 0

Init == /\ CtrlInit
        /\ cs_bo = HI /\ sclk_r = LO /\ mosi_o = HI /\ miso_i = HI

\* One cycle of clk_i.
CtrlTick ==
  \/ TakeHandshake
  \/ StartInit \/ SendCmd0 \/ ChkCmd0Response \/ SendCmd8 \/ GetCmd8Response
  \/ SendCmd55 \/ SendCmd41 \/ ChkAcmd41Response
  \/ AcceptRead \/ AcceptWrite \/ WaitForHost
  \/ ReadBlock \/ WriteBlockByte \/ WriteBlockResponse \/ WriteWait
  \/ StartTx \/ TxBits \/ GetCmdResponse \/ RxBits
  \/ DeselectCard \/ PulseSclk \/ ReportError

HostStep == HostRequest \/ HostRelease \/ HostAck \/ HostAckDone \/ HostDone

\* A card puts its next bit on miso_i with the falling edge of its clock.
CardOutput == IF sclk_r = HI /\ sclk_r' = LO THEN miso_i' \in {LO, HI}
                                             ELSE UNCHANGED miso_i

Next == ((Reset \/ CtrlTick) /\ CardOutput) \/ HostStep

Spec == Init /\ [][Next]_vars

-----------------------------------------------------------------------------
(* Properties *)

\* Every register holds a value of its type; in particular tx_v never runs out
\* of bits and the byte counter never goes below zero.
TypeOK ==
  /\ state_v \in FsmStates /\ rtnState_v \in FsmStates
  /\ bitCnt_v \in 0 .. (IF InitClks > 48 THEN InitClks ELSE 48)
  /\ byteCnt_v \in 0 .. WR_BLK_SZ_C
  /\ tx_v \in Seq({0, 1}) /\ rx_v \in 0 .. 255 /\ addr_v \in 0 .. AddrSpace - 1
  /\ getCmdResponse_v \in BOOLEAN /\ rtnData_v \in BOOLEAN /\ doDeselect_v \in BOOLEAN
  /\ busy_o \in BOOLEAN /\ hndShk_r \in {LO, HI} /\ data_o \in 0 .. 255
  /\ error_o \in 0 .. 255
  /\ rd_i \in BOOLEAN /\ wr_i \in BOOLEAN /\ continue_i \in BOOLEAN
  /\ addr_i \in 0 .. AddrSpace - 1 /\ data_i \in 0 .. 255 /\ hndShk_i \in {LO, HI}
  /\ op \in {"none", "read", "write"} /\ taken \in 0 .. BlockSize + 1
  /\ cs_bo \in {LO, HI} /\ sclk_r \in {LO, HI} /\ mosi_o \in {LO, HI}
  /\ miso_i \in {LO, HI}

\* The card is selected and deselected only while its clock is low, and its
\* data input changes only then or with the falling edge: DESELECT and
\* PULSE_SCLK "must enter with sclk at zero" on every path, reset included.
PinDiscipline ==
  [][ /\ cs_bo' # cs_bo => sclk_r = LO /\ sclk_r' = LO
      /\ mosi_o' # mosi_o => sclk_r' = LO ]_vars

\* The four phases of the handshake: the controller raises its half only when
\* the host's is low, keeps the byte until the host has answered, and lowers
\* its half only then, or in START_INIT.
HandshakePhases ==
  [][ /\ hndShk_r = LO /\ hndShk_r' = HI => hndShk_i = LO
      /\ hndShk_r = HI /\ hndShk_r' = LO => hndShk_i = HI \/ state_v = "START_INIT"
      /\ hndShk_r = HI /\ hndShk_r' = HI => data_o' = data_o ]_vars

\* When the controller stops being busy with a request, the host has taken or
\* given exactly one block, or an error is reported.
WholeBlock ==
  ~busy_o /\ op # "none" /\ ~rd_i /\ ~wr_i =>
    taken = BlockSize \/ state_v = "REPORT_ERROR"

\* The state to which the subroutine under way will return.
Main == IF state_v \in {"START_TX", "TX_BITS", "GET_CMD_RESPONSE", "RX_BITS",
                        "DESELECT", "PULSE_SCLK"} THEN rtnState_v ELSE state_v

Phase ==
  CASE Main = "START_INIT"           -> "reset"
    [] Main = "REPORT_ERROR"         -> "failed"
    [] Main = "WAIT_FOR_HOST_RW"     -> "ready"
    [] Main = "RD_BLK"               -> "reading"
    [] Main \in {"WR_BLK", "WR_WAIT"} -> "writing"
    [] OTHER                         -> "init"

Within(n) == IF n < 0 THEN 0 ELSE IF n > BlockSize THEN BlockSize ELSE n

\* Bytes of the block the host has not been offered, or asked for, yet.
Left ==
  CASE Phase = "writing" -> Within(byteCnt_v - 3)
    [] Phase = "reading" ->
         Within(byteCnt_v - IF rtnData_v /\ state_v = "RX_BITS" THEN 1 ELSE 2)
    [] OTHER -> 0

Port == INSTANCE BlockPort WITH
  phase <- Phase, busy <- busy_o, hs_o <- hndShk_r, left <- Left, addr <- addr_v,
  rd <- rd_i, wr <- wr_i, hs_i <- hndShk_i, next_addr <- NextAddr

\* The controller keeps the promises of its port, whatever the card answers and
\* whenever it is reset.
ImplementsPort == Port!Spec

\* Header of SDCard.vhd: an error during a write stalls the controller with an
\* error code.  So it may wait for the end of a write only when the card has
\* accepted the block.
WriteChecked == state_v = "WR_WAIT" => DataAccepted(rx_v)

\* Header of SDCard.vhd: new operations are accepted only when busy_o is low.
AcceptsOnlyIdle ==
  [][ state_v = "WAIT_FOR_HOST_RW" /\ state_v' = "START_TX" => ~busy_o ]_vars

=============================================================================
