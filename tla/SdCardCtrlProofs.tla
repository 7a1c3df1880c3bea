-------------------------- MODULE SdCardCtrlProofs --------------------------
(***************************************************************************)
(* Proofs about SdCardCtrl: type correctness, the discipline of the card's *)
(* pins and of the handshake, that the controller implements BlockPort, and*)
(* that a host which lowers its request in time gets exactly one block.    *)
(*                                                                         *)
(* One inductive invariant carries them all: CtrlInv, which says what each *)
(* subroutine of the FSM may rely on when it is called and where it may    *)
(* return.  One lemma per action shows that the action keeps it.           *)
(***************************************************************************)
EXTENDS SdCardCtrl, SequenceTheorems, TLAPS

(* The largest value of bitCnt_v.                                          *)

BitMax == IF InitClks > 48 THEN InitClks ELSE 48

(* What the assumptions on the constants say, in the forms used below.     *)
LEMMA Limits ==
  /\ BlockSize \in Nat \ {0} /\ InitClks \in Nat \ {0} /\ AddrSpace \in Nat \ {0}
  /\ Addrs \subseteq 0 .. AddrSpace - 1 /\ HostData \subseteq 0 .. 255
  /\ BitMax \in Nat /\ InitClks <= BitMax /\ 48 <= BitMax
BY CtrlAssumption DEF CtrlAssumption, BitMax

(* The divisors of ByteBits; powers of two are known only by their value.  *)
LEMMA PowerPositive == \A k \in 0 .. 7 : 2 ^ k \in Nat \ {0}
<1>1. /\ 2 ^ 0 = 1 /\ 2 ^ 1 = 2 /\ 2 ^ 2 = 4 /\ 2 ^ 3 = 8
      /\ 2 ^ 4 = 16 /\ 2 ^ 5 = 32 /\ 2 ^ 6 = 64 /\ 2 ^ 7 = 128
  OBVIOUS
<1>2. \A k \in 0 .. 7 : \/ k = 0 \/ k = 1 \/ k = 2 \/ k = 3
                        \/ k = 4 \/ k = 5 \/ k = 6 \/ k = 7
  OBVIOUS
<1>3. ASSUME NEW k \in 0 .. 7 PROVE 2 ^ k \in {1, 2, 4, 8, 16, 32, 64, 128}
  BY <1>1, <1>2, ZenonT(60)
<1>4. ASSUME NEW k \in 0 .. 7 PROVE 2 ^ k \in Nat \ {0}
  <2> DEFINE p == 2 ^ k
  <2>1. p \in {1, 2, 4, 8, 16, 32, 64, 128}
    BY <1>3
  <2>2. p \in Nat \ {0}
    <3> HIDE DEF p
    <3> QED
      BY <2>1
  <2> QED
    BY <2>2
<1> QED
  BY <1>4

(* A byte is sent as eight bits.                                           *)
LEMMA ByteBitsType ==
  ASSUME NEW byte \in Int
  PROVE  ByteBits(byte) \in Seq({0, 1}) /\ Len(ByteBits(byte)) = 8
<1>1. ByteBits(byte) \in [1 .. 8 -> {0, 1}]
  <2> SUFFICES ASSUME NEW i \in 1 .. 8 PROVE (byte \div 2 ^ (8 - i)) % 2 \in {0, 1}
    BY DEF ByteBits
  <2>1. 2 ^ (8 - i) \in Nat \ {0}
    <3>1. 8 - i \in 0 .. 7
      OBVIOUS
    <3> QED
      BY <3>1, PowerPositive
  <2>2. byte \div 2 ^ (8 - i) \in Int
    BY <2>1
  <2> QED
    BY <2>2
<1>2. ByteBits(byte) \in Seq({0, 1})
  BY <1>1, SeqDef
<1>3. DOMAIN ByteBits(byte) = 1 .. Len(ByteBits(byte)) /\ Len(ByteBits(byte)) \in Nat
  BY <1>2, LenProperties
<1> DEFINE n == Len(ByteBits(byte))
<1>4. n \in Nat /\ 1 .. n = 1 .. 8
  BY <1>1, <1>3
<1>5. n = 8
  <2> HIDE DEF n
  <2>1. 8 \in 1 .. n /\ (n >= 1 => n \in 1 .. 8)
    BY <1>4
  <2> QED
    BY <1>4, <2>1
<1> QED
  BY <1>2, <1>5

(* The bits of two fields one after the other.                             *)
LEMMA BitsConcat ==
  ASSUME NEW s \in Seq({0, 1}), NEW t \in Seq({0, 1})
  PROVE  s \o t \in Seq({0, 1}) /\ Len(s \o t) = Len(s) + Len(t)
BY ConcatProperties

(* An address is sent as 32 bits.                                          *)
LEMMA AddrBitsType ==
  ASSUME NEW addr \in Int
  PROVE  AddrBits(addr) \in Seq({0, 1}) /\ Len(AddrBits(addr)) = 32
<1>1. \A x \in Int, n \in Nat \ {0} : (x \div n) % 256 \in Int
  OBVIOUS
<1>2. 2 ^ 24 \in Nat \ {0} /\ 2 ^ 16 \in Nat \ {0} /\ 256 \in Nat \ {0}
  BY SMT
<1>3. addr % 256 \in Int
  OBVIOUS
<1> DEFINE a == ByteBits(addr \div 2 ^ 24 % 256)
           b == ByteBits(addr \div 2 ^ 16 % 256)
           c == ByteBits(addr \div 256 % 256)
           d == ByteBits(addr % 256)
<1>4. /\ a \in Seq({0, 1}) /\ Len(a) = 8 /\ b \in Seq({0, 1}) /\ Len(b) = 8
      /\ c \in Seq({0, 1}) /\ Len(c) = 8 /\ d \in Seq({0, 1}) /\ Len(d) = 8
  BY <1>1, <1>2, <1>3, ByteBitsType
<1>5. AddrBits(addr) = a \o b \o c \o d
  BY DEF AddrBits
<1> HIDE DEF a, b, c, d
<1>6. a \o b \in Seq({0, 1}) /\ Len(a \o b) = 16
  <2>1. a \o b \in Seq({0, 1}) /\ Len(a \o b) = Len(a) + Len(b)
    BY <1>4, BitsConcat
  <2> QED
    BY <1>4, <2>1
<1>7. a \o b \o c \in Seq({0, 1}) /\ Len(a \o b \o c) = 24
  BY <1>4, <1>6, BitsConcat
<1>8. a \o b \o c \o d \in Seq({0, 1}) /\ Len(a \o b \o c \o d) = 32
  BY <1>4, <1>7, BitsConcat
<1> QED
  BY <1>5, <1>8

(* A command has 48 bits.                                                  *)
LEMMA CmdBitsType ==
  ASSUME NEW cmd \in Int, NEW addr \in Int, NEW crc \in Int
  PROVE  CmdBits(cmd, addr, crc) \in Seq({0, 1}) /\ Len(CmdBits(cmd, addr, crc)) = 48
<1> DEFINE a == ByteBits(cmd)
           b == AddrBits(addr)
           c == ByteBits(crc)
<1>1. /\ a \in Seq({0, 1}) /\ Len(a) = 8 /\ b \in Seq({0, 1}) /\ Len(b) = 32
      /\ c \in Seq({0, 1}) /\ Len(c) = 8
  BY ByteBitsType, AddrBitsType
<1>2. CmdBits(cmd, addr, crc) = a \o b \o c
  BY DEF CmdBits
<1> HIDE DEF a, b, c
<1>3. a \o b \in Seq({0, 1}) /\ Len(a \o b) = Len(a) + Len(b)
  BY <1>1, BitsConcat
<1> DEFINE e == a \o b
<1>4. e \o c \in Seq({0, 1}) /\ Len(e \o c) = Len(e) + Len(c)
  BY <1>1, <1>3, BitsConcat
<1>5. Len(e) = 40 /\ Len(c) = 8 /\ Len(e \o c) = 48
  BY <1>1, <1>3, <1>4
<1> QED
  BY <1>2, <1>4, <1>5

-----------------------------------------------------------------------------
(* Type correctness in parts: the FSM, the registers, the pins and the host.*)

FsmType ==
  /\ state_v \in FsmStates /\ rtnState_v \in FsmStates
  /\ bitCnt_v \in 0 .. BitMax /\ byteCnt_v \in 0 .. WR_BLK_SZ_C

BitsType == tx_v \in Seq({0, 1})

DataType ==
  /\ rx_v \in 0 .. 255 /\ addr_v \in 0 .. AddrSpace - 1
  /\ data_o \in 0 .. 255 /\ error_o \in 0 .. 255

FlagType ==
  /\ getCmdResponse_v \in BOOLEAN /\ rtnData_v \in BOOLEAN /\ doDeselect_v \in BOOLEAN
  /\ busy_o \in BOOLEAN

PinType ==
  /\ hndShk_r \in {LO, HI}
  /\ cs_bo \in {LO, HI} /\ sclk_r \in {LO, HI} /\ mosi_o \in {LO, HI} /\ miso_i \in {LO, HI}

HostType ==
  /\ rd_i \in BOOLEAN /\ wr_i \in BOOLEAN /\ continue_i \in BOOLEAN
  /\ addr_i \in 0 .. AddrSpace - 1 /\ data_i \in 0 .. 255 /\ hndShk_i \in {LO, HI}
  /\ op \in {"none", "read", "write"} /\ taken \in 0 .. BlockSize + 1

Types == FsmType /\ BitsType /\ DataType /\ FlagType /\ PinType /\ HostType

(* The parts are the type invariant, in this state and in the next.        *)
LEMMA Parts == (TypeOK <=> Types) /\ (TypeOK' <=> Types')
BY DEF TypeOK, Types, FsmType, BitsType, DataType, FlagType, PinType, HostType, BitMax

(* A bit shifted into the receive register.                               *)
LEMMA ShiftedType == \A rx \in 0 .. 255, bit \in {0, 1} : Shifted(rx, bit) \in 0 .. 255
BY DEF Shifted

(* The address of the next block, also with continue_i.                    *)
LEMMA NextAddrType ==
  ASSUME DataType, HostType
  PROVE  NextAddr \in 0 .. AddrSpace - 1
<1>1. /\ addr_v \in Int /\ addr_i \in 0 .. AddrSpace - 1
      /\ (IF Sdhc THEN 1 ELSE BlockSize) \in Int
  BY Limits DEF DataType, HostType
<1>2. \A x \in Int : x % AddrSpace \in 0 .. AddrSpace - 1
  BY Limits
<1>3. addr_v + (IF Sdhc THEN 1 ELSE BlockSize) \in Int
  BY <1>1
<1> QED
  BY <1>1, <1>2, <1>3 DEF NextAddr

-----------------------------------------------------------------------------
(* The states in which an FSM subroutine runs, and the states a command    *)
(* and a byte return to.                                                   *)
Subroutines == {"START_TX", "TX_BITS", "GET_CMD_RESPONSE", "RX_BITS", "DESELECT",
                "PULSE_SCLK"}
AfterCommand == {"CHK_CMD0_RESPONSE", "GET_CMD8_RESPONSE", "SEND_CMD41",
                 "CHK_ACMD41_RESPONSE", "RD_BLK", "WR_BLK"}
AfterClocks == {"SEND_CMD0", "CHK_CMD0_RESPONSE", "SEND_CMD55", "SEND_CMD41",
                "CHK_ACMD41_RESPONSE", "WAIT_FOR_HOST_RW"}

(* Where each subroutine may return; a transmission that expects no        *)
(* response returns to WR_BLK.                                             *)
Returns ==
  /\ state_v \in {"START_TX", "TX_BITS", "GET_CMD_RESPONSE"} =>
       rtnState_v \in AfterCommand
  /\ state_v = "RX_BITS" =>
       rtnState_v \in AfterCommand \cup {"SEND_CMD55", "WR_WAIT"}
  /\ state_v \in {"DESELECT", "PULSE_SCLK"} => rtnState_v \in AfterClocks
  /\ state_v \in {"START_TX", "TX_BITS"} /\ ~getCmdResponse_v => rtnState_v = "WR_BLK"

(* Only the states that toggle the clock, and a reset, see it high.        *)
ClockLow ==
  sclk_r = HI => state_v \in {"START_INIT", "TX_BITS", "GET_CMD_RESPONSE", "RX_BITS",
                              "PULSE_SCLK", "WR_WAIT"}

(* While bits are sent there are at least as many of them in tx_v as are   *)
(* still to go; or the byte is about to be loaded by the handshake.        *)
Bits ==
  /\ state_v = "START_TX" =>
       /\ bitCnt_v \in 1 .. 48
       /\ Len(tx_v) >= bitCnt_v \/ (hndShk_r = HI /\ bitCnt_v = 8)
  /\ state_v = "TX_BITS" => Len(tx_v) >= bitCnt_v
  /\ state_v = "GET_CMD_RESPONSE" => bitCnt_v = 7

(* The handshake is high only where it was raised: after a byte received   *)
(* for the host, and before a byte of the host is sent.                    *)
Offered ==
  hndShk_r = HI => \/ state_v \in {"START_INIT", "RD_BLK"}
                   \/ state_v = "START_TX" /\ bitCnt_v = 8 /\ rtnState_v = "WR_BLK"
                      /\ ~getCmdResponse_v

(* DESELECT is called on return only from commands of the initialisation.  *)
Deselects ==
  doDeselect_v =>
    \/ state_v = "START_INIT"
    \/ /\ state_v \in Subroutines \ {"PULSE_SCLK"}
       /\ rtnState_v \in AfterClocks \ {"WAIT_FOR_HOST_RW"}

(* Only a byte of a block being read is returned to the host.              *)
Returning ==
  rtnData_v => \/ state_v = "START_INIT"
               \/ Main = "RD_BLK" /\ state_v \in {"RD_BLK", "RX_BITS"}
                  /\ byteCnt_v \in 2 .. BlockSize + 1

(* The byte counter, by the loop that is under way.                        *)
Counting ==
  /\ Main = "RD_BLK" => byteCnt_v <= RD_BLK_SZ_C
  /\ Main = "WR_BLK" => byteCnt_v >= 1
  /\ Main = "WR_WAIT" => byteCnt_v = 0

(* busy_o is low only where the controller waits for its host.             *)
Busy == ~busy_o => state_v \in {"WAIT_FOR_HOST_RW", "REPORT_ERROR"}

Structure == /\ Returns /\ ClockLow /\ Offered /\ Deselects
             /\ Returning /\ Counting /\ Busy

(* The inductive invariant.                                                *)
CtrlInv == Types /\ Structure /\ Bits

-----------------------------------------------------------------------------
(* One lemma per action: the action keeps the invariant.                   *)

LEMMA TakeHandshakeKeeps ==
  ASSUME CtrlInv, TakeHandshake, miso_i' \in {LO, HI}
  PROVE  CtrlInv'
<1>1. FsmType' /\ FlagType'
  BY Limits DEF CtrlInv, Types, FsmType, FlagType, FsmStates, WR_BLK_SZ_C,
     RD_BLK_SZ_C, In, flagVars, TakeHandshake
<1>2. PinType' /\ HostType'
  BY Limits DEF CtrlInv, Types, PinType, HostType, In, pins, hostVars, portVars, LO,
     HI, TakeHandshake
<1>3. DataType'
  BY Limits, ShiftedType DEF CtrlInv, Types, DataType, PinType, LO, HI, In,
     TakeHandshake
<1>4. BitsType'
  <2>1. data_i \in Int
    BY DEF CtrlInv, Types, HostType
  <2> QED
    BY <2>1, ByteBitsType DEF BitsType, TakeHandshake
<1>5. Structure'
  BY DEF CtrlInv, Structure, Returns, ClockLow, Offered, Deselects, Returning,
     Counting, Busy, Types, FsmType, PinType, Main, Subroutines, AfterCommand,
     AfterClocks, In, Proceeds, pins, flagVars, LO, HI, TakeHandshake
<1>6. Bits'
  <2>1. data_i \in Int /\ tx_v' = ByteBits(data_i)
    BY DEF CtrlInv, Types, HostType, TakeHandshake
  <2>2. Len(tx_v') = 8
    BY <2>1, ByteBitsType
  <2>3. state_v \notin {"TX_BITS", "GET_CMD_RESPONSE"} /\ (state_v = "START_TX" => bitCnt_v = 8)
        /\ UNCHANGED <<state_v, bitCnt_v>>
    BY DEF CtrlInv, Structure, Offered, TakeHandshake
  <2> QED
    BY <2>2, <2>3 DEF Bits
<1> QED
  BY <1>1, <1>2, <1>3, <1>4, <1>5, <1>6 DEF CtrlInv, Types

LEMMA StartInitKeeps ==
  ASSUME CtrlInv, StartInit, miso_i' \in {LO, HI}
  PROVE  CtrlInv'
<1>1. FsmType' /\ FlagType'
  <2>1. 0 \in 0 .. AddrSpace - 1 /\ InitClks \in 0 .. BitMax
    BY Limits
  <2> QED
    BY <2>1 DEF CtrlInv, Types, FsmType, FlagType, FsmStates, WR_BLK_SZ_C,
       RD_BLK_SZ_C, In, flagVars, StartInit
<1>2. PinType' /\ HostType'
  BY Limits DEF CtrlInv, Types, PinType, HostType, In, pins, hostVars, portVars, LO,
     HI, StartInit
<1>3. DataType'
  <2>1. 0 \in 0 .. AddrSpace - 1
    BY Limits
  <2> QED
    BY <2>1 DEF CtrlInv, Types, DataType, PinType, LO, HI, In, StartInit
<1>4. BitsType'
  BY DEF CtrlInv, Types, BitsType, In, StartInit
<1>5. Structure'
  BY DEF CtrlInv, Structure, Returns, ClockLow, Offered, Deselects, Returning,
     Counting, Busy, Types, FsmType, PinType, Main, Subroutines, AfterCommand,
     AfterClocks, In, Proceeds, pins, flagVars, LO, HI, StartInit
<1>6. Bits'
  BY DEF CtrlInv, Types, Bits, BitsType, FsmType, Offered, In, Proceeds, flagVars,
     LO, HI, StartInit
<1> QED
  BY <1>1, <1>2, <1>3, <1>4, <1>5, <1>6 DEF CtrlInv, Types

(* A command: loaded, and sent by START_TX.                                *)
LEMMA SendCommandKeeps ==
  ASSUME CtrlInv, miso_i' \in {LO, HI},
         NEW from \in {"SEND_CMD0", "SEND_CMD8", "SEND_CMD55", "SEND_CMD41"},
         NEW bits \in Seq({0, 1}), Len(bits) = 48,
         NEW deselect \in BOOLEAN, NEW to \in AfterCommand \ {"RD_BLK", "WR_BLK"},
         deselect => to \in AfterClocks \ {"WAIT_FOR_HOST_RW"},
         SendCommand(from, bits, deselect, to)
  PROVE  CtrlInv'
<1>1. FsmType' /\ FlagType'
  <2>1. to \in FsmStates /\ 48 \in 0 .. BitMax
    BY Limits DEF AfterCommand, FsmStates
  <2> QED
    BY <2>1 DEF CtrlInv, Types, FsmType, FlagType, FsmStates, WR_BLK_SZ_C,
       RD_BLK_SZ_C, In, flagVars, SendCommand
<1>2. PinType' /\ HostType'
  BY Limits DEF CtrlInv, Types, PinType, HostType, In, pins, hostVars, portVars, LO,
     HI, SendCommand
<1>3. DataType'
  BY Limits, ShiftedType DEF CtrlInv, Types, DataType, PinType, LO, HI, In, SendCommand
<1>4. BitsType'
  BY DEF CtrlInv, Types, BitsType, In, SendCommand
<1>5. Structure'
  <2>1. /\ state_v = from /\ state_v' = "START_TX" /\ rtnState_v' = to
        /\ getCmdResponse_v' = TRUE /\ doDeselect_v' = deselect /\ busy_o' = TRUE
        /\ hndShk_r = LO /\ UNCHANGED <<byteCnt_v, rtnData_v, hndShk_r, sclk_r>>
    BY DEF SendCommand, In, Proceeds
  <2>2. ~rtnData_v /\ sclk_r # HI
    BY <2>1 DEF CtrlInv, Structure, ClockLow, Returning, Main, Subroutines, HI
  <2>3. Main' = to
    BY <2>1 DEF Main
  <2>4. to \notin {"RD_BLK", "WR_BLK", "WR_WAIT"}
    BY DEF AfterCommand
  <2> QED
    BY <2>1, <2>2, <2>3, <2>4 DEF Structure, Returns, ClockLow, Offered, Deselects,
       Returning, Counting, Busy, Subroutines, LO, HI
<1>6. Bits'
  <2>1. Len(tx_v') = 48 /\ bitCnt_v' = 48 /\ state_v' = "START_TX"
    BY DEF SendCommand
  <2> QED
    BY <2>1 DEF Bits
<1> QED
  BY <1>1, <1>2, <1>3, <1>4, <1>5, <1>6 DEF CtrlInv, Types

LEMMA CommandsKeep ==
  ASSUME CtrlInv, miso_i' \in {LO, HI}, SendCmd0 \/ SendCmd8 \/ SendCmd55 \/ SendCmd41
  PROVE  CtrlInv'
<1>1. CASE SendCmd0
  <2> DEFINE bits == CmdBits(CMD0_C, 0, 149)
  <2>1. bits \in Seq({0, 1}) /\ Len(bits) = 48
    BY CmdBitsType DEF CMD0_C
  <2>2. SendCommand("SEND_CMD0", bits, TRUE, "CHK_CMD0_RESPONSE")
    BY <1>1 DEF SendCmd0
  <2> QED
    <3> HIDE DEF bits
    <3> QED
      BY <2>1, <2>2, SendCommandKeeps DEF AfterCommand, AfterClocks
<1>2. CASE SendCmd8
  <2> DEFINE bits == CmdBits(CMD8_C, 426, 135)
  <2>1. bits \in Seq({0, 1}) /\ Len(bits) = 48
    BY CmdBitsType DEF CMD8_C
  <2>2. SendCommand("SEND_CMD8", bits, FALSE, "GET_CMD8_RESPONSE")
    BY <1>2 DEF SendCmd8
  <2> QED
    <3> HIDE DEF bits
    <3> QED
      BY <2>1, <2>2, SendCommandKeeps DEF AfterCommand
<1>3. CASE SendCmd55
  <2> DEFINE bits == CmdBits(CMD55_C, 0, FAKE_CRC_C)
  <2>1. bits \in Seq({0, 1}) /\ Len(bits) = 48
    BY CmdBitsType DEF CMD55_C, FAKE_CRC_C
  <2>2. SendCommand("SEND_CMD55", bits, TRUE, "SEND_CMD41")
    BY <1>3 DEF SendCmd55
  <2> QED
    <3> HIDE DEF bits
    <3> QED
      BY <2>1, <2>2, SendCommandKeeps DEF AfterCommand, AfterClocks
<1>4. CASE SendCmd41
  <2> DEFINE bits == CmdBits(CMD41_C, 2 ^ 30, FAKE_CRC_C)
  <2>1. bits \in Seq({0, 1}) /\ Len(bits) = 48
    <3>1. 2 ^ 30 \in Int
      BY SMT
    <3> QED
      BY <3>1, CmdBitsType DEF CMD41_C, FAKE_CRC_C
  <2>2. SendCommand("SEND_CMD41", bits, TRUE, "CHK_ACMD41_RESPONSE")
    BY <1>4 DEF SendCmd41
  <2> QED
    <3> HIDE DEF bits
    <3> QED
      BY <2>1, <2>2, SendCommandKeeps DEF AfterCommand, AfterClocks
<1> QED
  BY <1>1, <1>2, <1>3, <1>4

LEMMA ChkCmd0ResponseKeeps ==
  ASSUME CtrlInv, ChkCmd0Response, miso_i' \in {LO, HI}
  PROVE  CtrlInv'
<1>1. FsmType' /\ FlagType'
  BY Limits DEF CtrlInv, Types, FsmType, FlagType, FsmStates, WR_BLK_SZ_C,
     RD_BLK_SZ_C, In, flagVars, ChkCmd0Response, Check
<1>2. PinType' /\ HostType'
  BY Limits DEF CtrlInv, Types, PinType, HostType, In, pins, hostVars, portVars, LO,
     HI, ChkCmd0Response, Check
<1>3. DataType'
  BY Limits, ShiftedType DEF CtrlInv, Types, DataType, PinType, LO, HI, In,
     ChkCmd0Response, Check
<1>4. BitsType'
  BY DEF CtrlInv, Types, BitsType, In, ChkCmd0Response, Check
<1>5. Structure'
  BY DEF CtrlInv, Structure, Returns, ClockLow, Offered, Deselects, Returning,
     Counting, Busy, Types, FsmType, PinType, Main, Subroutines, AfterCommand,
     AfterClocks, In, Proceeds, pins, flagVars, LO, HI, ChkCmd0Response, Check
<1>6. Bits'
  BY DEF CtrlInv, Types, Bits, BitsType, FsmType, Offered, In, Proceeds, flagVars,
     LO, HI, ChkCmd0Response, Check
<1> QED
  BY <1>1, <1>2, <1>3, <1>4, <1>5, <1>6 DEF CtrlInv, Types

LEMMA ChkAcmd41ResponseKeeps ==
  ASSUME CtrlInv, ChkAcmd41Response, miso_i' \in {LO, HI}
  PROVE  CtrlInv'
<1>1. FsmType' /\ FlagType'
  BY Limits DEF CtrlInv, Types, FsmType, FlagType, FsmStates, WR_BLK_SZ_C,
     RD_BLK_SZ_C, In, flagVars, ChkAcmd41Response, Check
<1>2. PinType' /\ HostType'
  BY Limits DEF CtrlInv, Types, PinType, HostType, In, pins, hostVars, portVars, LO,
     HI, ChkAcmd41Response, Check
<1>3. DataType'
  BY Limits, ShiftedType DEF CtrlInv, Types, DataType, PinType, LO, HI, In,
     ChkAcmd41Response, Check
<1>4. BitsType'
  BY DEF CtrlInv, Types, BitsType, In, ChkAcmd41Response, Check
<1>5. Structure'
  BY DEF CtrlInv, Structure, Returns, ClockLow, Offered, Deselects, Returning,
     Counting, Busy, Types, FsmType, PinType, Main, Subroutines, AfterCommand,
     AfterClocks, In, Proceeds, pins, flagVars, LO, HI, ChkAcmd41Response, Check
<1>6. Bits'
  BY DEF CtrlInv, Types, Bits, BitsType, FsmType, Offered, In, Proceeds, flagVars,
     LO, HI, ChkAcmd41Response, Check
<1> QED
  BY <1>1, <1>2, <1>3, <1>4, <1>5, <1>6 DEF CtrlInv, Types

LEMMA GetCmd8ResponseKeeps ==
  ASSUME CtrlInv, GetCmd8Response, miso_i' \in {LO, HI}
  PROVE  CtrlInv'
<1>1. FsmType' /\ FlagType'
  <2>1. 31 \in 0 .. BitMax
    BY Limits
  <2> QED
    BY <2>1 DEF CtrlInv, Types, FsmType, FlagType, FsmStates, WR_BLK_SZ_C,
       RD_BLK_SZ_C, In, flagVars, GetCmd8Response
<1>2. PinType' /\ HostType'
  BY Limits DEF CtrlInv, Types, PinType, HostType, In, pins, hostVars, portVars, LO,
     HI, GetCmd8Response
<1>3. DataType'
  BY Limits, ShiftedType DEF CtrlInv, Types, DataType, PinType, LO, HI, In,
     GetCmd8Response
<1>4. BitsType'
  BY DEF CtrlInv, Types, BitsType, In, GetCmd8Response
<1>5. Structure'
  BY DEF CtrlInv, Structure, Returns, ClockLow, Offered, Deselects, Returning,
     Counting, Busy, Types, FsmType, PinType, Main, Subroutines, AfterCommand,
     AfterClocks, In, Proceeds, pins, flagVars, LO, HI, GetCmd8Response
<1>6. Bits'
  BY DEF CtrlInv, Types, Bits, BitsType, FsmType, Offered, In, Proceeds, flagVars,
     LO, HI, GetCmd8Response
<1> QED
  BY <1>1, <1>2, <1>3, <1>4, <1>5, <1>6 DEF CtrlInv, Types

(* A request of the host.                                                  *)
LEMMA AcceptKeeps ==
  ASSUME CtrlInv, miso_i' \in {LO, HI}, NEW cmd \in Int,
         NEW size, NEW to,
         \/ size = RD_BLK_SZ_C /\ to = "RD_BLK"
         \/ size = WR_BLK_SZ_C /\ to = "WR_BLK",
         Accept(cmd, size, to)
  PROVE  CtrlInv'
<1>a. NextAddr \in 0 .. AddrSpace - 1
  BY NextAddrType DEF CtrlInv, Types
<1>b. tx_v' \in Seq({0, 1}) /\ Len(tx_v') = 48
  <2>1. NextAddr \in Int /\ FAKE_CRC_C \in Int
    BY <1>a, Limits DEF FAKE_CRC_C
  <2>2. tx_v' = CmdBits(cmd, NextAddr, FAKE_CRC_C)
    BY DEF Accept
  <2> QED
    BY <2>1, <2>2, CmdBitsType
<1>1. FsmType' /\ FlagType'
  <2>1. to \in FsmStates /\ 48 \in 0 .. BitMax /\ size \in 0 .. WR_BLK_SZ_C
    BY Limits DEF FsmStates, RD_BLK_SZ_C, WR_BLK_SZ_C
  <2> QED
    BY <2>1 DEF CtrlInv, Types, FsmType, FlagType, FsmStates, In, flagVars, Accept
<1>2. PinType' /\ HostType'
  BY Limits DEF CtrlInv, Types, PinType, HostType, In, pins, hostVars, portVars, LO,
     HI, Accept
<1>3. DataType'
  BY <1>a DEF CtrlInv, Types, DataType, PinType, LO, HI, In, Accept
<1>4. BitsType'
  BY <1>b DEF BitsType
<1>5. Structure'
  <2>1. size >= 1 /\ (to = "RD_BLK" => size <= RD_BLK_SZ_C)
    BY Limits DEF RD_BLK_SZ_C, WR_BLK_SZ_C
  <2>2. to \in {"RD_BLK", "WR_BLK"}
    OBVIOUS
  <2>3. /\ state_v = "WAIT_FOR_HOST_RW" /\ state_v' = "START_TX" /\ rtnState_v' = to
        /\ getCmdResponse_v' = TRUE /\ byteCnt_v' = size /\ busy_o' = TRUE
        /\ UNCHANGED <<rtnData_v, doDeselect_v, hndShk_r, sclk_r>>
    BY DEF Accept, In
  <2>4. ~rtnData_v /\ ~doDeselect_v /\ hndShk_r # HI /\ sclk_r # HI
    BY <2>3 DEF CtrlInv, Structure, ClockLow, Offered, Deselects, Returning, Main,
       Subroutines, HI
  <2>5. Main' = to
    BY <2>3 DEF Main
  <2> QED
    BY <2>1, <2>2, <2>3, <2>4, <2>5 DEF Structure, Returns, ClockLow, Offered,
       Deselects, Returning, Counting, Busy, AfterCommand
<1>6. Bits'
  BY <1>b DEF Bits, Accept
<1> QED
  BY <1>1, <1>2, <1>3, <1>4, <1>5, <1>6 DEF CtrlInv, Types

LEMMA WaitForHostKeeps ==
  ASSUME CtrlInv, WaitForHost, miso_i' \in {LO, HI}
  PROVE  CtrlInv'
<1>1. FsmType' /\ FlagType'
  BY Limits DEF CtrlInv, Types, FsmType, FlagType, FsmStates, WR_BLK_SZ_C,
     RD_BLK_SZ_C, In, flagVars, WaitForHost
<1>2. PinType' /\ HostType'
  BY Limits DEF CtrlInv, Types, PinType, HostType, In, pins, hostVars, portVars, LO,
     HI, WaitForHost
<1>3. DataType'
  BY Limits, ShiftedType DEF CtrlInv, Types, DataType, PinType, LO, HI, In, WaitForHost
<1>4. BitsType'
  BY DEF CtrlInv, Types, BitsType, In, WaitForHost
<1>5. Structure'
  BY DEF CtrlInv, Structure, Returns, ClockLow, Offered, Deselects, Returning,
     Counting, Busy, Types, FsmType, PinType, Main, Subroutines, AfterCommand,
     AfterClocks, In, Proceeds, pins, flagVars, LO, HI, WaitForHost
<1>6. Bits'
  BY DEF CtrlInv, Types, Bits, BitsType, FsmType, Offered, In, Proceeds, flagVars,
     LO, HI, WaitForHost
<1> QED
  BY <1>1, <1>2, <1>3, <1>4, <1>5, <1>6 DEF CtrlInv, Types

LEMMA ReadBlockKeeps ==
  ASSUME CtrlInv, ReadBlock, miso_i' \in {LO, HI}
  PROVE  CtrlInv'
<1>1. FsmType' /\ FlagType'
  BY Limits DEF CtrlInv, Types, FsmType, FlagType, FsmStates, WR_BLK_SZ_C,
     RD_BLK_SZ_C, In, flagVars, ReadBlock
<1>2. PinType' /\ HostType'
  BY Limits DEF CtrlInv, Types, PinType, HostType, In, pins, hostVars, portVars, LO,
     HI, ReadBlock
<1>3. DataType'
  BY Limits, ShiftedType DEF CtrlInv, Types, DataType, PinType, LO, HI, In, ReadBlock
<1>4. BitsType'
  BY DEF CtrlInv, Types, BitsType, In, ReadBlock
<1>5. Structure'
  <2>1. /\ state_v = "RD_BLK" /\ busy_o' = TRUE /\ hndShk_r = LO
        /\ UNCHANGED <<doDeselect_v, hndShk_r>>
    BY DEF ReadBlock, In, Proceeds
  <2>2. ~doDeselect_v /\ sclk_r # HI /\ byteCnt_v <= RD_BLK_SZ_C /\ byteCnt_v \in Nat
    BY <2>1, Limits DEF CtrlInv, Structure, ClockLow, Deselects, Counting, Main,
       Subroutines, HI, Types, FsmType, WR_BLK_SZ_C
  <2>3. RD_BLK_SZ_C = BlockSize + 3 /\ BlockSize \in Nat \ {0}
    BY Limits DEF RD_BLK_SZ_C
  <2>4. CASE byteCnt_v = 0
    <3>1. /\ state_v' = "DESELECT" /\ rtnState_v' = "WAIT_FOR_HOST_RW"
          /\ ~rtnData_v' /\ sclk_r' = LO
      <4>1. byteCnt_v # RD_BLK_SZ_C - 1
        BY <2>3, <2>4
      <4>2. state_v' = "DESELECT" /\ rtnState_v' = "WAIT_FOR_HOST_RW" /\ sclk_r' = LO
        BY <2>4, <4>1 DEF ReadBlock
      <4>3. rtnData_v' => ReturnsNext
        BY DEF ReadBlock
      <4> QED
        BY <2>4, <4>2, <4>3 DEF ReturnsNext
    <3>2. Main' = "WAIT_FOR_HOST_RW"
      BY <3>1 DEF Main
    <3> QED
      BY <2>1, <2>2, <3>1, <3>2 DEF Structure, Returns, ClockLow, Offered,
         Deselects, Returning, Counting, Busy, AfterClocks, LO, HI
  <2>5. CASE byteCnt_v # 0
    <3>1. /\ state_v' \in {"REPORT_ERROR", "RX_BITS"} /\ rtnState_v' = "RD_BLK"
          /\ sclk_r' = sclk_r /\ byteCnt_v' \in {byteCnt_v, byteCnt_v - 1}
      BY <2>5 DEF ReadBlock
    <3>2. rtnData_v' => state_v' = "RX_BITS" /\ byteCnt_v' \in 2 .. BlockSize + 1
      <4>1. rtnData_v' => /\ byteCnt_v < RD_BLK_SZ_C /\ ReturnsNext
                          /\ ~(byteCnt_v = RD_BLK_SZ_C - 1 /\ rx_v # START_TOKEN_C)
        BY DEF ReadBlock
      <4>2. ~(byteCnt_v = RD_BLK_SZ_C - 1 /\ rx_v # START_TOKEN_C) =>
              state_v' = "RX_BITS" /\ byteCnt_v' = byteCnt_v - 1
        BY <2>5 DEF ReadBlock
      <4>3. byteCnt_v >= 3 /\ byteCnt_v < RD_BLK_SZ_C => byteCnt_v - 1 \in 2 .. BlockSize + 1
        BY <2>2, <2>3
      <4> QED
        BY <4>1, <4>2, <4>3 DEF ReturnsNext
    <3>3. Main' = (IF state_v' = "RX_BITS" THEN "RD_BLK" ELSE "REPORT_ERROR")
      BY <3>1 DEF Main
    <3>4. byteCnt_v' <= RD_BLK_SZ_C
      BY <2>2, <2>3, <3>1
    <3> QED
      BY <2>1, <2>2, <3>1, <3>2, <3>3, <3>4 DEF Structure, Returns, ClockLow,
         Offered, Deselects, Returning, Counting, Busy, AfterCommand, LO, HI
  <2> QED
    BY <2>4, <2>5
<1>6. Bits'
  BY DEF CtrlInv, Types, Bits, BitsType, FsmType, Offered, In, Proceeds, flagVars,
     LO, HI, ReadBlock
<1> QED
  BY <1>1, <1>2, <1>3, <1>4, <1>5, <1>6 DEF CtrlInv, Types

LEMMA WriteBlockByteKeeps ==
  ASSUME CtrlInv, WriteBlockByte, miso_i' \in {LO, HI}
  PROVE  CtrlInv'
<1>a. /\ state_v' = "START_TX" /\ rtnState_v' = "WR_BLK" /\ bitCnt_v' = 8 /\ byteCnt_v >= 2
      /\ byteCnt_v' = byteCnt_v - 1 /\ getCmdResponse_v' = FALSE /\ busy_o' = TRUE
      /\ state_v = "WR_BLK" /\ hndShk_r = LO
      /\ hndShk_r' = (IF byteCnt_v \in 4 .. WR_BLK_SZ_C - 2 THEN HI ELSE LO)
      /\ UNCHANGED <<rtnData_v, doDeselect_v, sclk_r>>
  BY DEF WriteBlockByte, In, Proceeds, pins
<1>b. byteCnt_v \in 2 .. WR_BLK_SZ_C
  BY <1>a, Limits DEF CtrlInv, Types, FsmType, WR_BLK_SZ_C
<1>c. /\ tx_v' \in Seq({0, 1})
      /\ Len(tx_v') >= 8 \/ hndShk_r' = HI
  <2>1. /\ ByteBits(NO_TOKEN_C) \in Seq({0, 1}) /\ Len(ByteBits(NO_TOKEN_C)) = 8
        /\ ByteBits(START_TOKEN_C) \in Seq({0, 1}) /\ Len(ByteBits(START_TOKEN_C)) = 8
        /\ ByteBits(FAKE_CRC_C) \in Seq({0, 1}) /\ Len(ByteBits(FAKE_CRC_C)) = 8
    BY ByteBitsType DEF NO_TOKEN_C, START_TOKEN_C, FAKE_CRC_C
  <2>2. \/ tx_v' \in {ByteBits(NO_TOKEN_C), ByteBits(START_TOKEN_C), ByteBits(FAKE_CRC_C)}
        \/ tx_v' = tx_v /\ byteCnt_v \notin {2, 3, WR_BLK_SZ_C - 1, WR_BLK_SZ_C}
    BY DEF WriteBlockByte
  <2>3. WR_BLK_SZ_C \in Nat
    BY Limits DEF WR_BLK_SZ_C
  <2>4. byteCnt_v \notin {2, 3, WR_BLK_SZ_C - 1, WR_BLK_SZ_C} => hndShk_r' = HI
    BY <1>a, <1>b, <2>3
  <2>5. tx_v \in Seq({0, 1})
    BY DEF CtrlInv, Types, BitsType
  <2>6. CASE tx_v' \in {ByteBits(NO_TOKEN_C), ByteBits(START_TOKEN_C), ByteBits(FAKE_CRC_C)}
    <3>1. tx_v' \in Seq({0, 1}) /\ Len(tx_v') = 8
      BY <2>1, <2>6, Zenon
    <3> QED
      BY <3>1
  <2> QED
    BY <2>2, <2>4, <2>5, <2>6
<1>1. FsmType' /\ FlagType'
  <2>1. 8 \in 0 .. BitMax /\ byteCnt_v - 1 \in 0 .. WR_BLK_SZ_C
    BY <1>b, Limits DEF WR_BLK_SZ_C
  <2> QED
    BY <1>a, <2>1 DEF CtrlInv, Types, FsmType, FlagType, FsmStates
<1>2. PinType' /\ HostType'
  <2>1. UNCHANGED <<pins, hostVars>> /\ hndShk_r' \in {LO, HI}
    BY <1>a DEF WriteBlockByte
  <2> QED
    BY <2>1 DEF CtrlInv, Types, PinType, HostType, pins, hostVars, portVars
<1>3. DataType'
  BY Limits, ShiftedType DEF CtrlInv, Types, DataType, PinType, LO, HI, In,
     WriteBlockByte
<1>4. BitsType'
  BY <1>c DEF BitsType
<1>5. Structure'
  <2>1. ~rtnData_v /\ ~doDeselect_v /\ sclk_r # HI
    BY <1>a DEF CtrlInv, Structure, ClockLow, Returning, Deselects, Main,
       Subroutines, HI
  <2>2. Main' = "WR_BLK" /\ byteCnt_v' >= 1
    BY <1>a, <1>b DEF Main
  <2> QED
    BY <1>a, <2>1, <2>2 DEF Structure, Returns, ClockLow, Offered, Deselects,
       Returning, Counting, Busy, AfterCommand, LO, HI
<1>6. Bits'
  BY <1>a, <1>c DEF Bits
<1> QED
  BY <1>1, <1>2, <1>3, <1>4, <1>5, <1>6 DEF CtrlInv, Types

LEMMA WriteBlockResponseKeeps ==
  ASSUME CtrlInv, WriteBlockResponse, miso_i' \in {LO, HI}
  PROVE  CtrlInv'
<1>1. FsmType' /\ FlagType'
  <2>1. 7 \in 0 .. BitMax /\ 0 \in 0 .. WR_BLK_SZ_C
    BY Limits DEF WR_BLK_SZ_C
  <2> QED
    BY <2>1 DEF CtrlInv, Types, FsmType, FlagType, FsmStates, In, flagVars,
       WriteBlockResponse
<1>2. PinType' /\ HostType'
  BY Limits DEF CtrlInv, Types, PinType, HostType, In, pins, hostVars, portVars, LO,
     HI, WriteBlockResponse
<1>3. DataType'
  BY Limits, ShiftedType DEF CtrlInv, Types, DataType, PinType, LO, HI, In,
     WriteBlockResponse
<1>4. BitsType'
  BY DEF CtrlInv, Types, BitsType, In, WriteBlockResponse
<1>5. Structure'
  BY DEF CtrlInv, Structure, Returns, ClockLow, Offered, Deselects, Returning,
     Counting, Busy, Types, FsmType, PinType, Main, Subroutines, AfterCommand,
     AfterClocks, In, Proceeds, pins, flagVars, LO, HI, WriteBlockResponse
<1>6. Bits'
  BY DEF CtrlInv, Types, Bits, BitsType, FsmType, Offered, In, Proceeds, flagVars,
     LO, HI, WriteBlockResponse
<1> QED
  BY <1>1, <1>2, <1>3, <1>4, <1>5, <1>6 DEF CtrlInv, Types

LEMMA WriteWaitKeeps ==
  ASSUME CtrlInv, WriteWait, miso_i' \in {LO, HI}
  PROVE  CtrlInv'
<1>1. FsmType' /\ FlagType'
  BY Limits DEF CtrlInv, Types, FsmType, FlagType, FsmStates, WR_BLK_SZ_C,
     RD_BLK_SZ_C, In, flagVars, WriteWait
<1>2. PinType' /\ HostType'
  BY Limits DEF CtrlInv, Types, PinType, HostType, In, pins, hostVars, portVars, LO,
     HI, WriteWait
<1>3. DataType'
  BY Limits, ShiftedType DEF CtrlInv, Types, DataType, PinType, LO, HI, In, WriteWait
<1>4. BitsType'
  BY DEF CtrlInv, Types, BitsType, In, WriteWait
<1>5. Structure'
  BY DEF CtrlInv, Structure, Returns, ClockLow, Offered, Deselects, Returning,
     Counting, Busy, Types, FsmType, PinType, Main, Subroutines, AfterCommand,
     AfterClocks, In, Proceeds, pins, flagVars, LO, HI, WriteWait
<1>6. Bits'
  BY DEF CtrlInv, Types, Bits, BitsType, FsmType, Offered, In, Proceeds, flagVars,
     LO, HI, WriteWait
<1> QED
  BY <1>1, <1>2, <1>3, <1>4, <1>5, <1>6 DEF CtrlInv, Types

(* The next bit of the shift register, and what is left of it.             *)
LEMMA NextBit ==
  ASSUME NEW s \in Seq({0, 1}), NEW n \in Nat \ {0}, Len(s) >= n
  PROVE  /\ Head(s) \in {0, 1} /\ Tail(s) \in Seq({0, 1})
         /\ Len(Tail(s)) >= n - 1
<1>1. Len(s) \in Nat
  BY LenProperties
<1>2. s # << >>
  BY <1>1, EmptySeq
<1> QED
  BY <1>1, <1>2, HeadTailProperties

LEMMA StartTxKeeps ==
  ASSUME CtrlInv, StartTx, miso_i' \in {LO, HI}
  PROVE  CtrlInv'
<1>a. /\ state_v = "START_TX" /\ state_v' = "TX_BITS" /\ busy_o' = TRUE /\ hndShk_r = LO
      /\ sclk_r' = LO /\ mosi_o' = Head(tx_v) /\ tx_v' = Tail(tx_v) /\ bitCnt_v' = bitCnt_v - 1
      /\ UNCHANGED <<rtnState_v, byteCnt_v, flagVars, hndShk_r, cs_bo>>
  BY DEF StartTx, In, Proceeds
<1>b. bitCnt_v \in 1 .. 48 /\ Len(tx_v) >= bitCnt_v
  BY <1>a DEF CtrlInv, Bits, LO, HI
<1>c. Head(tx_v) \in {0, 1} /\ Tail(tx_v) \in Seq({0, 1}) /\ Len(Tail(tx_v)) >= bitCnt_v - 1
  <2>1. bitCnt_v \in Nat \ {0} /\ tx_v \in Seq({0, 1})
    BY <1>b DEF CtrlInv, Types, BitsType
  <2> QED
    BY <1>b, <2>1, NextBit
<1>1. FsmType' /\ FlagType'
  <2>1. bitCnt_v - 1 \in 0 .. BitMax
    BY <1>b, Limits
  <2> QED
    BY <1>a, <2>1 DEF CtrlInv, Types, FsmType, FlagType, FsmStates, flagVars
<1>2. PinType' /\ HostType'
  <2>1. UNCHANGED <<hostVars, hndShk_r, cs_bo>> /\ sclk_r' = LO /\ mosi_o' \in {LO, HI}
    BY <1>a, <1>c DEF StartTx, LO, HI
  <2> QED
    BY <2>1 DEF CtrlInv, Types, PinType, HostType, hostVars, portVars
<1>3. DataType'
  BY Limits, ShiftedType DEF CtrlInv, Types, DataType, PinType, LO, HI, In, StartTx
<1>4. BitsType'
  BY <1>a, <1>c DEF BitsType
<1>5. Structure'
  BY DEF CtrlInv, Structure, Returns, ClockLow, Offered, Deselects, Returning,
     Counting, Busy, Types, FsmType, PinType, Main, Subroutines, AfterCommand,
     AfterClocks, In, Proceeds, pins, flagVars, LO, HI, StartTx
<1>6. Bits'
  BY <1>a, <1>c DEF Bits
<1> QED
  BY <1>1, <1>2, <1>3, <1>4, <1>5, <1>6 DEF CtrlInv, Types

LEMMA TxBitsKeeps ==
  ASSUME CtrlInv, TxBits, miso_i' \in {LO, HI}
  PROVE  CtrlInv'
<1>a. /\ state_v = "TX_BITS" /\ busy_o' = TRUE /\ hndShk_r = LO /\ sclk_r' = 1 - sclk_r
      /\ UNCHANGED <<rtnState_v, byteCnt_v, flagVars, hndShk_r, cs_bo, hostVars>>
  BY DEF TxBits, In, Proceeds
<1>b. tx_v \in Seq({0, 1}) /\ bitCnt_v \in 0 .. BitMax /\ Len(tx_v) >= bitCnt_v
  BY <1>a DEF CtrlInv, Bits, Types, BitsType, FsmType
<1>c. /\ mosi_o' \in {LO, HI} /\ tx_v' \in Seq({0, 1})
      /\ bitCnt_v' \in 0 .. BitMax
      /\ state_v' = "TX_BITS" => Len(tx_v') >= bitCnt_v'
      /\ state_v' = "GET_CMD_RESPONSE" => bitCnt_v' = 7
  <2>1. CASE sclk_r = HI /\ bitCnt_v # 0
    <3>1. bitCnt_v \in Nat \ {0}
      BY <1>b, <2>1, Limits
    <3>2. /\ mosi_o' = Head(tx_v) /\ tx_v' = Tail(tx_v) /\ bitCnt_v' = bitCnt_v - 1
          /\ state_v' = "TX_BITS"
      BY <2>1 DEF TxBits
    <3>3. Head(tx_v) \in {0, 1} /\ Tail(tx_v) \in Seq({0, 1}) /\ Len(Tail(tx_v)) >= bitCnt_v - 1
      BY <1>b, <3>1, NextBit
    <3>4. bitCnt_v' \in 0 .. BitMax
      BY <1>b, <3>1, <3>2, Limits
    <3> QED
      BY <3>2, <3>3, <3>4 DEF LO, HI
  <2>2. CASE ~(sclk_r = HI /\ bitCnt_v # 0)
    <3>1. /\ bitCnt_v' = (IF sclk_r = HI /\ getCmdResponse_v THEN 7 ELSE bitCnt_v)
          /\ UNCHANGED <<mosi_o, tx_v>>
          /\ state_v' = (IF sclk_r = HI /\ bitCnt_v = 0
                           THEN IF getCmdResponse_v THEN "GET_CMD_RESPONSE" ELSE rtnState_v
                           ELSE "TX_BITS")
      BY <2>2 DEF TxBits
    <3>2. 7 \in 0 .. BitMax
      BY Limits
    <3>3. mosi_o \in {LO, HI} /\ (~getCmdResponse_v => rtnState_v = "WR_BLK")
      BY <1>a DEF CtrlInv, Types, PinType, Structure, Returns
    <3> QED
      BY <1>b, <2>2, <3>1, <3>2, <3>3
  <2> QED
    BY <2>1, <2>2
<1>d. /\ state_v' \in {"TX_BITS", "GET_CMD_RESPONSE", "WR_BLK"}
      /\ state_v' = "WR_BLK" => sclk_r = HI /\ rtnState_v = "WR_BLK" /\ ~getCmdResponse_v
  <2>1. ~getCmdResponse_v => rtnState_v = "WR_BLK"
    BY <1>a DEF CtrlInv, Structure, Returns
  <2>2. state_v' = (IF sclk_r = HI /\ bitCnt_v = 0
                      THEN IF getCmdResponse_v THEN "GET_CMD_RESPONSE" ELSE rtnState_v
                      ELSE "TX_BITS")
    BY DEF TxBits
  <2> QED
    BY <2>1, <2>2
<1>e. sclk_r' \in {LO, HI} /\ (sclk_r = HI => sclk_r' = LO)
  BY <1>a DEF CtrlInv, Types, PinType, LO, HI
<1>1. FsmType' /\ FlagType'
  BY <1>a, <1>c, <1>d DEF CtrlInv, Types, FsmType, FlagType, FsmStates, flagVars
<1>2. PinType' /\ HostType'
  BY <1>a, <1>c, <1>e DEF CtrlInv, Types, PinType, HostType, hostVars, portVars
<1>3. DataType'
  BY Limits, ShiftedType DEF CtrlInv, Types, DataType, PinType, LO, HI, In, TxBits
<1>4. BitsType'
  BY <1>c DEF BitsType
<1>5. Structure'
  <2>1. rtnState_v \in AfterCommand /\ ~rtnData_v
        /\ (rtnState_v = "RD_BLK" => byteCnt_v <= RD_BLK_SZ_C)
        /\ (rtnState_v = "WR_BLK" => byteCnt_v >= 1)
    BY <1>a DEF CtrlInv, Structure, Returns, Returning, Counting, Main
  <2>2. doDeselect_v => rtnState_v \in AfterClocks \ {"WAIT_FOR_HOST_RW"}
    BY <1>a DEF CtrlInv, Structure, Deselects
  <2>3. Main' = rtnState_v
    BY <1>a, <1>d DEF Main
  <2>4. rtnState_v # "WR_WAIT" /\ (doDeselect_v => rtnState_v # "WR_BLK")
    BY <2>1, <2>2 DEF AfterCommand, AfterClocks
  <2>5. ~getCmdResponse_v => rtnState_v = "WR_BLK"
    BY <1>a DEF CtrlInv, Structure, Returns
  <2> QED
    BY <1>a, <1>d, <1>e, <2>1, <2>2, <2>3, <2>4, <2>5 DEF Structure, Returns,
       ClockLow, Offered, Deselects, Returning, Counting, Busy, Subroutines,
       flagVars, LO, HI
<1>6. Bits'
  BY <1>c, <1>d DEF Bits
<1> QED
  BY <1>1, <1>2, <1>3, <1>4, <1>5, <1>6 DEF CtrlInv, Types

LEMMA GetCmdResponseKeeps ==
  ASSUME CtrlInv, GetCmdResponse, miso_i' \in {LO, HI}
  PROVE  CtrlInv'
<1>a. /\ state_v = "GET_CMD_RESPONSE" /\ bitCnt_v = 7
      /\ \/ state_v' = "RX_BITS" /\ bitCnt_v' = 6 /\ rx_v' = Shifted(rx_v, miso_i)
         \/ UNCHANGED <<state_v, bitCnt_v, rx_v>>
      /\ UNCHANGED <<addr_v, data_o, error_o, rtnState_v, byteCnt_v, flagVars>> /\ busy_o' = TRUE
  <2>1. state_v = "GET_CMD_RESPONSE"
    BY DEF GetCmdResponse, In
  <2>2. bitCnt_v = 7
    BY <2>1 DEF CtrlInv, Bits
  <2> QED
    BY <2>1, <2>2 DEF GetCmdResponse, In
<1>1. FsmType' /\ FlagType'
  <2>1. 6 \in 0 .. BitMax
    BY Limits
  <2> QED
    BY <1>a, <2>1 DEF CtrlInv, Types, FsmType, FlagType, FsmStates, flagVars
<1>2. PinType' /\ HostType'
  BY Limits DEF CtrlInv, Types, PinType, HostType, In, pins, hostVars, portVars, LO,
     HI, GetCmdResponse
<1>3. DataType'
  <2>1. rx_v' \in 0 .. 255
    <3>1. rx_v \in 0 .. 255 /\ miso_i \in {0, 1}
      BY DEF CtrlInv, Types, DataType, PinType, LO, HI
    <3> QED
      BY <1>a, <3>1, ShiftedType
  <2> QED
    BY <1>a, <2>1 DEF CtrlInv, Types, DataType
<1>4. BitsType'
  BY DEF CtrlInv, Types, BitsType, In, GetCmdResponse
<1>5. Structure'
  BY DEF CtrlInv, Structure, Returns, ClockLow, Offered, Deselects, Returning,
     Counting, Busy, Types, FsmType, PinType, Main, Subroutines, AfterCommand,
     AfterClocks, In, Proceeds, pins, flagVars, LO, HI, GetCmdResponse
<1>6. Bits'
  BY <1>a DEF Bits
<1> QED
  BY <1>1, <1>2, <1>3, <1>4, <1>5, <1>6 DEF CtrlInv, Types

LEMMA RxBitsKeeps ==
  ASSUME CtrlInv, RxBits, miso_i' \in {LO, HI}
  PROVE  CtrlInv'
<1> DEFINE last == sclk_r = HI /\ bitCnt_v = 0
<1>d. state_v = "RX_BITS" /\ busy_o' = TRUE /\ hndShk_r = LO /\ sclk_r' = 1 - sclk_r
  BY DEF RxBits, In, Proceeds
<1>e. rx_v' \in {rx_v, Shifted(rx_v, miso_i)}
  BY DEF RxBits
<1>f. /\ state_v' = (IF last THEN IF doDeselect_v THEN "DESELECT" ELSE rtnState_v
                             ELSE "RX_BITS")
      /\ IF last /\ rtnData_v THEN data_o' = rx_v' /\ hndShk_r' = HI
                              ELSE UNCHANGED <<data_o, hndShk_r>>
  <2>1. state_v' = CASE last /\ doDeselect_v  -> "DESELECT"
                     [] last /\ ~doDeselect_v -> rtnState_v
                     [] OTHER                 -> "RX_BITS"
    BY DEF RxBits
  <2>2. IF last /\ rtnData_v THEN data_o' = rx_v' /\ hndShk_r' = HI
                             ELSE UNCHANGED <<data_o, hndShk_r>>
    BY DEF RxBits
  <2>3. last \in BOOLEAN /\ doDeselect_v \in BOOLEAN
    BY DEF CtrlInv, Types, FlagType
  <2> QED
    BY <2>1, <2>2, <2>3
<1>a. /\ state_v = "RX_BITS" /\ busy_o' = TRUE /\ hndShk_r = LO /\ sclk_r' = 1 - sclk_r
      /\ state_v' = (IF last THEN IF doDeselect_v THEN "DESELECT" ELSE rtnState_v
                             ELSE "RX_BITS")
      /\ IF last /\ rtnData_v THEN data_o' = rx_v' /\ hndShk_r' = HI
                              ELSE UNCHANGED <<data_o, hndShk_r>>
      /\ rx_v' \in {rx_v, Shifted(rx_v, miso_i)}
      /\ UNCHANGED <<rtnState_v, byteCnt_v, flagVars, addr_v, error_o, tx_v>>
  <2>1. UNCHANGED <<rtnState_v, byteCnt_v, flagVars, addr_v, error_o, tx_v>>
    BY DEF RxBits
  <2> QED
    <3> HIDE DEF last
    <3> QED
      BY <1>d, <1>e, <1>f, <2>1
<1>b. rtnState_v \in AfterCommand \cup {"SEND_CMD55", "WR_WAIT"}
  BY <1>a DEF CtrlInv, Structure, Returns
<1>c. sclk_r' \in {LO, HI} /\ (last => sclk_r' = LO)
  BY <1>a DEF CtrlInv, Types, PinType, LO, HI
<1>1. FsmType' /\ FlagType'
  BY Limits DEF CtrlInv, Types, FsmType, FlagType, FsmStates, WR_BLK_SZ_C,
     RD_BLK_SZ_C, In, flagVars, RxBits
<1>2. PinType' /\ HostType'
  BY Limits DEF CtrlInv, Types, PinType, HostType, In, pins, hostVars, portVars, LO,
     HI, RxBits
<1>3. DataType'
  <2>1. rx_v' \in 0 .. 255
    <3>1. rx_v \in 0 .. 255 /\ miso_i \in {0, 1}
      BY DEF CtrlInv, Types, DataType, PinType, LO, HI
    <3> QED
      BY <1>a, <3>1, ShiftedType
  <2> QED
    BY <1>a, <2>1 DEF CtrlInv, Types, DataType
<1>4. BitsType'
  BY DEF CtrlInv, Types, BitsType, In, RxBits
<1>5. Structure'
  <2>1. /\ rtnData_v => rtnState_v = "RD_BLK" /\ byteCnt_v \in 2 .. BlockSize + 1
        /\ rtnState_v = "RD_BLK" => byteCnt_v <= RD_BLK_SZ_C
        /\ rtnState_v = "WR_BLK" => byteCnt_v >= 1
        /\ rtnState_v = "WR_WAIT" => byteCnt_v = 0
    BY <1>a DEF CtrlInv, Structure, Returning, Counting, Main
  <2>2. doDeselect_v => rtnState_v \in AfterClocks \ {"WAIT_FOR_HOST_RW"}
    BY <1>a DEF CtrlInv, Structure, Deselects
  <2>3. Main' = rtnState_v
    BY <1>a, <1>b DEF Main, AfterCommand
  <2>4. rtnData_v => ~doDeselect_v
    BY <2>1, <2>2 DEF AfterClocks
  <2>5. rtnState_v \notin {"START_TX", "TX_BITS", "GET_CMD_RESPONSE", "RX_BITS", "DESELECT", "PULSE_SCLK"}
    BY <1>b DEF AfterCommand
  <2>6. UNCHANGED <<rtnData_v, doDeselect_v, getCmdResponse_v, byteCnt_v, rtnState_v>>
    BY <1>a DEF flagVars
  <2>7. rtnData_v /\ last => hndShk_r' = HI /\ state_v' = "RD_BLK"
    BY <1>a, <2>1, <2>4
  <2>8. state_v' \in {"RX_BITS", "DESELECT", rtnState_v}
    BY <1>a
  <2>9. hndShk_r' = HI => state_v' = "RD_BLK"
    BY <1>a, <2>7 DEF LO, HI
  <2>10. sclk_r' = HI => state_v' = "RX_BITS"
    BY <1>a, <1>c DEF LO, HI
  <2>11. Returns'
    BY <1>b, <2>2, <2>5, <2>6, <2>8, <1>a DEF Returns
  <2>12. ClockLow' /\ Offered'
    BY <2>9, <2>10 DEF ClockLow, Offered
  <2>13. Deselects'
    BY <1>a, <2>2, <2>6 DEF Deselects, Subroutines
  <2>14. Returning'
    BY <1>a, <2>1, <2>3, <2>4, <2>6 DEF Returning
  <2>15. Counting' /\ Busy'
    BY <1>a, <2>1, <2>3, <2>6 DEF Counting, Busy, RD_BLK_SZ_C
  <2> QED
    BY <2>11, <2>12, <2>13, <2>14, <2>15 DEF Structure
<1>6. Bits'
  BY <1>a, <1>b DEF Bits, AfterCommand
<1> QED
  BY <1>1, <1>2, <1>3, <1>4, <1>5, <1>6 DEF CtrlInv, Types

LEMMA DeselectCardKeeps ==
  ASSUME CtrlInv, DeselectCard, miso_i' \in {LO, HI}
  PROVE  CtrlInv'
<1>1. FsmType' /\ FlagType'
  BY Limits DEF CtrlInv, Types, FsmType, FlagType, FsmStates, WR_BLK_SZ_C,
     RD_BLK_SZ_C, In, flagVars, DeselectCard
<1>2. PinType' /\ HostType'
  BY Limits DEF CtrlInv, Types, PinType, HostType, In, pins, hostVars, portVars, LO,
     HI, DeselectCard
<1>3. DataType'
  BY Limits, ShiftedType DEF CtrlInv, Types, DataType, PinType, LO, HI, In, DeselectCard
<1>4. BitsType'
  BY DEF CtrlInv, Types, BitsType, In, DeselectCard
<1>5. Structure'
  BY DEF CtrlInv, Structure, Returns, ClockLow, Offered, Deselects, Returning,
     Counting, Busy, Types, FsmType, PinType, Main, Subroutines, AfterCommand,
     AfterClocks, In, Proceeds, pins, flagVars, LO, HI, DeselectCard
<1>6. Bits'
  BY DEF CtrlInv, Types, Bits, BitsType, FsmType, Offered, In, Proceeds, flagVars,
     LO, HI, DeselectCard
<1> QED
  BY <1>1, <1>2, <1>3, <1>4, <1>5, <1>6 DEF CtrlInv, Types

LEMMA PulseSclkKeeps ==
  ASSUME CtrlInv, PulseSclk, miso_i' \in {LO, HI}
  PROVE  CtrlInv'
<1>1. FsmType' /\ FlagType'
  BY Limits DEF CtrlInv, Types, FsmType, FlagType, FsmStates, WR_BLK_SZ_C,
     RD_BLK_SZ_C, In, flagVars, PulseSclk
<1>2. PinType' /\ HostType'
  BY Limits DEF CtrlInv, Types, PinType, HostType, In, pins, hostVars, portVars, LO,
     HI, PulseSclk
<1>3. DataType'
  BY Limits, ShiftedType DEF CtrlInv, Types, DataType, PinType, LO, HI, In, PulseSclk
<1>4. BitsType'
  BY DEF CtrlInv, Types, BitsType, In, PulseSclk
<1>5. Structure'
  BY DEF CtrlInv, Structure, Returns, ClockLow, Offered, Deselects, Returning,
     Counting, Busy, Types, FsmType, PinType, Main, Subroutines, AfterCommand,
     AfterClocks, In, Proceeds, pins, flagVars, LO, HI, PulseSclk
<1>6. Bits'
  <2>1. state_v' \in {"PULSE_SCLK", rtnState_v} /\ rtnState_v \in AfterClocks
    BY DEF CtrlInv, Structure, Returns, PulseSclk, In
  <2> QED
    BY <2>1 DEF Bits, AfterClocks
<1> QED
  BY <1>1, <1>2, <1>3, <1>4, <1>5, <1>6 DEF CtrlInv, Types

LEMMA ReportErrorKeeps ==
  ASSUME CtrlInv, ReportError, miso_i' \in {LO, HI}
  PROVE  CtrlInv'
<1>1. FsmType' /\ FlagType'
  BY Limits DEF CtrlInv, Types, FsmType, FlagType, FsmStates, WR_BLK_SZ_C,
     RD_BLK_SZ_C, In, flagVars, ReportError
<1>2. PinType' /\ HostType'
  BY Limits DEF CtrlInv, Types, PinType, HostType, In, pins, hostVars, portVars, LO,
     HI, ReportError
<1>3. DataType'
  BY Limits, ShiftedType DEF CtrlInv, Types, DataType, PinType, LO, HI, In, ReportError
<1>4. BitsType'
  BY DEF CtrlInv, Types, BitsType, In, ReportError
<1>5. Structure'
  BY DEF CtrlInv, Structure, Returns, ClockLow, Offered, Deselects, Returning,
     Counting, Busy, Types, FsmType, PinType, Main, Subroutines, AfterCommand,
     AfterClocks, In, Proceeds, pins, flagVars, LO, HI, ReportError
<1>6. Bits'
  BY DEF CtrlInv, Types, Bits, BitsType, FsmType, Offered, In, Proceeds, flagVars,
     LO, HI, ReportError
<1> QED
  BY <1>1, <1>2, <1>3, <1>4, <1>5, <1>6 DEF CtrlInv, Types

LEMMA ResetKeeps ==
  ASSUME CtrlInv, Reset, miso_i' \in {LO, HI}
  PROVE  CtrlInv'
<1>1. FsmType' /\ FlagType'
  BY Limits DEF CtrlInv, Types, FsmType, FlagType, FsmStates, WR_BLK_SZ_C,
     RD_BLK_SZ_C, In, flagVars, Reset
<1>2. PinType' /\ HostType'
  BY Limits DEF CtrlInv, Types, PinType, HostType, In, pins, hostVars, portVars, LO,
     HI, Reset
<1>3. DataType'
  BY Limits, ShiftedType DEF CtrlInv, Types, DataType, PinType, LO, HI, In, Reset
<1>4. BitsType'
  BY DEF CtrlInv, Types, BitsType, In, Reset
<1>5. Structure'
  BY DEF CtrlInv, Structure, Returns, ClockLow, Offered, Deselects, Returning,
     Counting, Busy, Types, FsmType, PinType, Main, Subroutines, AfterCommand,
     AfterClocks, In, Proceeds, pins, flagVars, LO, HI, Reset
<1>6. Bits'
  BY DEF CtrlInv, Types, Bits, BitsType, FsmType, Offered, In, Proceeds, flagVars,
     LO, HI, Reset
<1> QED
  BY <1>1, <1>2, <1>3, <1>4, <1>5, <1>6 DEF CtrlInv, Types

-----------------------------------------------------------------------------
(* The invariant of the controller, from any start and for every step.     *)

(* The host's steps leave the registers of the controller alone.           *)
LEMMA HostKeeps ==
  ASSUME CtrlInv, HostStep
  PROVE  CtrlInv'
<1>1. UNCHANGED <<ctrlVars, miso_i>>
  BY DEF HostStep, HostRequest, HostRelease, HostAck, HostAckDone, HostDone
<1>2. HostType'
  <2>1. HostType
    BY DEF CtrlInv, Types
  <2>2. CASE HostRequest
    <3>1. /\ op' \in {"none", "read", "write"} /\ rd_i' \in BOOLEAN /\ wr_i' \in BOOLEAN
          /\ continue_i' \in BOOLEAN /\ addr_i' \in Addrs /\ taken' = 0
          /\ UNCHANGED <<data_i, hndShk_i>>
      BY <2>2 DEF HostRequest
    <3>2. addr_i' \in 0 .. AddrSpace - 1 /\ taken' \in 0 .. BlockSize + 1
      BY <3>1, Limits
    <3> QED
      BY <2>1, <3>1, <3>2 DEF HostType
  <2>3. CASE HostRelease
    BY <2>1, <2>3 DEF HostRelease, HostType
  <2>4. CASE HostAck
    <3>1. data_i' \in 0 .. 255 /\ hndShk_i' \in {LO, HI} /\ taken' \in 0 .. BlockSize + 1
      BY <2>1, <2>4, Limits DEF HostAck, HostType
    <3> QED
      BY <2>1, <2>4, <3>1 DEF HostAck, HostType
  <2>5. CASE HostAckDone
    BY <2>1, <2>5 DEF HostAckDone, HostType
  <2>6. CASE HostDone
    BY <2>1, <2>6 DEF HostDone, HostType, portVars
  <2> QED
    BY <2>2, <2>3, <2>4, <2>5, <2>6 DEF HostStep
<1>3. FsmType' /\ BitsType' /\ DataType' /\ FlagType' /\ PinType'
  BY <1>1 DEF CtrlInv, Types, FsmType, BitsType, DataType, FlagType, PinType,
     ctrlVars, flagVars, pins
<1>4. Structure'
  <2>1. UNCHANGED <<state_v, rtnState_v, byteCnt_v, bitCnt_v, busy_o, hndShk_r, sclk_r,
                    rtnData_v, doDeselect_v, getCmdResponse_v>> /\ Main' = Main
    BY <1>1 DEF ctrlVars, flagVars, pins, Main
  <2> QED
    BY <2>1 DEF CtrlInv, Structure, Returns, ClockLow, Offered, Deselects,
       Returning, Counting, Busy
<1>5. Bits'
  BY <1>1 DEF CtrlInv, Bits, ctrlVars
<1> QED
  BY <1>2, <1>3, <1>4, <1>5 DEF CtrlInv, Types

LEMMA InitCtrl == Init => CtrlInv
<1> SUFFICES ASSUME Init PROVE CtrlInv
  OBVIOUS
<1>1. 0 \in 0 .. BitMax /\ 0 \in 0 .. WR_BLK_SZ_C /\ 0 \in 0 .. AddrSpace - 1
      /\ 0 \in 0 .. BlockSize + 1
  BY Limits DEF WR_BLK_SZ_C
<1>2. FsmType /\ FlagType /\ PinType /\ HostType /\ DataType
  <2>1. FsmType /\ FlagType
    BY <1>1 DEF Init, CtrlInit, FsmType, FlagType, FsmStates
  <2>2. PinType /\ DataType
    BY <1>1 DEF Init, CtrlInit, PinType, DataType, LO, HI
  <2>3. HostType
    <3>1. addr_i = 0 /\ data_i = 0 /\ hndShk_i = LO /\ taken = 0 /\ op = "none"
          /\ rd_i = FALSE /\ wr_i = FALSE /\ continue_i = FALSE
      BY DEF Init, CtrlInit
    <3>2. addr_i \in 0 .. AddrSpace - 1 /\ taken \in 0 .. BlockSize + 1
      BY <1>1, <3>1
    <3>3. data_i \in 0 .. 255 /\ hndShk_i \in {LO, HI} /\ op \in {"none", "read", "write"}
      BY <3>1
    <3> QED
      BY <3>1, <3>2, <3>3, Zenon DEF HostType
  <2> QED
    BY <2>1, <2>2, <2>3
<1>3. BitsType
  BY DEF Init, CtrlInit, BitsType
<1>4. Structure /\ Bits
  BY DEF Init, CtrlInit, Structure, Bits, Returns, ClockLow, Offered, Deselects,
     Returning, Counting, Busy, Main, LO, HI
<1> QED
  BY <1>2, <1>3, <1>4 DEF CtrlInv, Types

LEMMA NextCtrl == CtrlInv /\ [Next]_vars => CtrlInv'
<1> SUFFICES ASSUME CtrlInv, [Next]_vars PROVE CtrlInv'
  OBVIOUS
<1>1. CASE UNCHANGED vars
  BY <1>1 DEF CtrlInv, Types, FsmType, BitsType, DataType, FlagType, PinType,
     HostType, Structure, Bits, Returns, ClockLow, Offered, Deselects, Returning,
     Counting, Busy, Main, vars, ctrlVars, flagVars, pins, hostVars, portVars
<1>2. CASE HostStep
  BY <1>2, HostKeeps
<1>3. CASE (Reset \/ CtrlTick) /\ CardOutput
  <2>1. miso_i' \in {LO, HI}
    BY <1>3 DEF CardOutput, CtrlInv, Types, PinType
  <2>2. CASE Reset
    BY <2>1, <2>2, ResetKeeps
  <2>3. CASE TakeHandshake \/ StartInit \/ SendCmd0 \/ SendCmd8 \/ SendCmd55 \/ SendCmd41
    BY <2>1, <2>3, TakeHandshakeKeeps, StartInitKeeps, CommandsKeep
  <2>4. CASE ChkCmd0Response \/ GetCmd8Response \/ ChkAcmd41Response
    BY <2>1, <2>4, ChkCmd0ResponseKeeps, GetCmd8ResponseKeeps, ChkAcmd41ResponseKeeps
  <2>5. CASE AcceptRead
    BY <2>1, <2>5, AcceptKeeps DEF AcceptRead, READ_BLK_CMD_C
  <2>6. CASE AcceptWrite
    BY <2>1, <2>6, AcceptKeeps DEF AcceptWrite, WRITE_BLK_CMD_C
  <2>7. CASE WaitForHost \/ ReadBlock \/ WriteBlockByte \/ WriteBlockResponse \/ WriteWait
    BY <2>1, <2>7, WaitForHostKeeps, ReadBlockKeeps, WriteBlockByteKeeps,
       WriteBlockResponseKeeps, WriteWaitKeeps
  <2>8. CASE StartTx \/ TxBits \/ GetCmdResponse \/ RxBits
    BY <2>1, <2>8, StartTxKeeps, TxBitsKeeps, GetCmdResponseKeeps, RxBitsKeeps
  <2>9. CASE DeselectCard \/ PulseSclk \/ ReportError
    BY <2>1, <2>9, DeselectCardKeeps, PulseSclkKeeps, ReportErrorKeeps
  <2> QED
    BY <1>3, <2>2, <2>3, <2>4, <2>5, <2>6, <2>7, <2>8, <2>9 DEF CtrlTick
<1> QED
  BY <1>1, <1>2, <1>3 DEF Next

LEMMA CtrlInvHolds == Spec => []CtrlInv
BY InitCtrl, NextCtrl, PTL DEF Spec

(* Every register holds a value of its type on every run, for every size   *)
(* of a block and every answer of the card: the shift register never runs  *)
(* out of bits, and neither counter passes its ends.                       *)
THEOREM CtrlTypeCorrect == Spec => []TypeOK
<1>1. CtrlInv => TypeOK
  BY Parts DEF CtrlInv
<1> QED
  BY <1>1, CtrlInvHolds, PTL

-----------------------------------------------------------------------------
(* The pins and the handshake, step by step.                               *)

(* The card is selected and deselected, and its data input changes, only   *)
(* while its clock is low: the discipline that DESELECT and PULSE_SCLK     *)
(* rely on, after a reset too.                                             *)
THEOREM CardPins == Spec => PinDiscipline
<1> DEFINE Step == /\ cs_bo' # cs_bo => sclk_r = LO /\ sclk_r' = LO
                   /\ mosi_o' # mosi_o => sclk_r' = LO
<1>1. ASSUME CtrlInv, Next PROVE Step
  <2>1. CASE HostStep \/ Reset
    BY <2>1 DEF HostStep, HostRequest, HostRelease, HostAck, HostAckDone, HostDone,
       Reset, ctrlVars, pins
  <2>2. sclk_r \in {LO, HI}
    BY <1>1 DEF CtrlInv, Types, PinType
  <2>3. sclk_r = HI => state_v \in {"START_INIT", "TX_BITS", "GET_CMD_RESPONSE", "RX_BITS",
                                    "PULSE_SCLK", "WR_WAIT"}
    BY <1>1 DEF CtrlInv, Structure, ClockLow
  <2>4. CASE SendCmd0 \/ SendCmd8 \/ SendCmd55 \/ SendCmd41
    BY <2>2, <2>3, <2>4 DEF SendCmd0, SendCmd8, SendCmd55, SendCmd41, SendCommand, In
  <2>5. CASE GetCmd8Response
    BY <2>2, <2>3, <2>5 DEF GetCmd8Response, In
  <2>6. CASE AcceptRead \/ AcceptWrite
    BY <2>2, <2>3, <2>6 DEF AcceptRead, AcceptWrite, Accept, In
  <2>7. CASE WaitForHost
    BY <2>2, <2>3, <2>7 DEF WaitForHost
  <2>8. CASE DeselectCard
    BY <2>2, <2>3, <2>8 DEF DeselectCard, In
  <2>9. CASE StartTx
    BY <2>9 DEF StartTx
  <2>10. CASE TxBits
    <3>1. cs_bo' = cs_bo /\ (mosi_o' # mosi_o => sclk_r = HI) /\ sclk_r' = 1 - sclk_r
      BY <2>10 DEF TxBits
    <3> QED
      BY <3>1 DEF LO, HI
  <2>11. CASE TakeHandshake \/ StartInit \/ ChkCmd0Response \/ ChkAcmd41Response
              \/ ReportError
    BY <2>11 DEF TakeHandshake, StartInit, ChkCmd0Response, ChkAcmd41Response,
       Check, ReportError, pins
  <2>12. CASE ReadBlock \/ WriteBlockByte \/ WriteBlockResponse \/ WriteWait
    BY <2>12 DEF ReadBlock, WriteBlockByte, WriteBlockResponse, WriteWait, pins
  <2>13. CASE GetCmdResponse \/ RxBits \/ PulseSclk
    BY <2>13 DEF GetCmdResponse, RxBits, PulseSclk
  <2> QED
    BY <1>1, <2>1, <2>4, <2>5, <2>6, <2>7, <2>8, <2>9, <2>10, <2>11, <2>12, <2>13
       DEF Next, CtrlTick
<1>2. UNCHANGED vars => Step
  BY DEF vars, ctrlVars, pins
<1>3. CtrlInv /\ [Next]_vars => [Step]_vars
  BY <1>1, <1>2
<1> QED
  BY <1>3, CtrlInvHolds, PTL DEF Spec, PinDiscipline

(* The four phases of the handshake between the controller and its host.   *)
THEOREM FourPhases == Spec => HandshakePhases
<1> DEFINE Step ==
      /\ hndShk_r = LO /\ hndShk_r' = HI => hndShk_i = LO
      /\ hndShk_r = HI /\ hndShk_r' = LO => hndShk_i = HI \/ state_v = "START_INIT"
      /\ hndShk_r = HI /\ hndShk_r' = HI => data_o' = data_o
<1>1. ASSUME CtrlInv, Next PROVE Step
  <2>1. CASE HostStep \/ Reset
    BY <2>1 DEF HostStep, HostRequest, HostRelease, HostAck, HostAckDone, HostDone,
       Reset, ctrlVars, LO, HI
  <2>2. CASE TakeHandshake
    BY <2>2 DEF TakeHandshake, LO, HI
  <2>3. CASE StartInit
    BY <2>3 DEF StartInit, In, LO, HI
  <2>4. CASE SendCmd0 \/ SendCmd8 \/ SendCmd55 \/ SendCmd41
    BY <2>4 DEF SendCmd0, SendCmd8, SendCmd55, SendCmd41, SendCommand, LO, HI
  <2>5. CASE ChkCmd0Response \/ ChkAcmd41Response
    BY <2>5 DEF ChkCmd0Response, ChkAcmd41Response, Check, LO, HI
  <2>6. CASE AcceptRead \/ AcceptWrite
    BY <2>6 DEF AcceptRead, AcceptWrite, Accept, LO, HI
  <2>7. CASE WriteBlockByte
    <3>1. hndShk_r = LO /\ hndShk_i = LO
      BY <2>7 DEF WriteBlockByte, In, Proceeds
    <3> QED
      BY <3>1 DEF LO, HI
  <2>8. CASE RxBits
    <3>1. hndShk_r = LO /\ hndShk_i = LO
      BY <2>8 DEF RxBits, In, Proceeds
    <3> QED
      BY <3>1 DEF LO, HI
  <2>9. CASE ReadBlock
    BY <2>9 DEF ReadBlock, LO, HI
  <2>10. CASE GetCmd8Response \/ WaitForHost \/ WriteBlockResponse \/ WriteWait
              \/ StartTx \/ GetCmdResponse \/ DeselectCard \/ PulseSclk \/ ReportError
    BY <2>10 DEF GetCmd8Response, WaitForHost, WriteBlockResponse, WriteWait,
       StartTx, GetCmdResponse, DeselectCard, PulseSclk, ReportError, LO, HI
  <2>11. CASE TxBits
    BY <2>11 DEF TxBits, LO, HI
  <2> QED
    BY <1>1, <2>1, <2>2, <2>3, <2>4, <2>5, <2>6, <2>7, <2>8, <2>9, <2>10, <2>11 DEF
       Next, CtrlTick
<1>2. UNCHANGED vars => Step
  BY DEF vars, ctrlVars, LO, HI
<1>3. CtrlInv /\ [Next]_vars => [Step]_vars
  BY <1>1, <1>2
<1> QED
  BY <1>3, CtrlInvHolds, PTL DEF Spec, HandshakePhases

-----------------------------------------------------------------------------
(* The controller implements its port: every cycle is a step of BlockPort, *)
(* or leaves what the host sees unchanged.                                 *)

InitStates == {"SEND_CMD0", "CHK_CMD0_RESPONSE", "SEND_CMD8", "GET_CMD8_RESPONSE",
               "SEND_CMD55", "SEND_CMD41", "CHK_ACMD41_RESPONSE"}

LEMMA WithinFacts ==
  \A n \in Int : /\ Within(n) \in 0 .. BlockSize
                 /\ n <= 0 => Within(n) = 0
                 /\ n >= BlockSize => Within(n) = BlockSize
                 /\ n \in 0 .. BlockSize => Within(n) = n
BY Limits DEF Within

(* What Phase and Left are for a state to which the FSM returns.           *)
LEMMA PhaseOf ==
  /\ Main = "START_INIT" => Phase = "reset" /\ Left = 0
  /\ Main \in InitStates => Phase = "init" /\ Left = 0
  /\ Main = "WAIT_FOR_HOST_RW" => Phase = "ready" /\ Left = 0
  /\ Main = "REPORT_ERROR" => Phase = "failed" /\ Left = 0
  /\ Main = "RD_BLK" => Phase = "reading"
  /\ Main \in {"WR_BLK", "WR_WAIT"} => Phase = "writing" /\ Left = Within(byteCnt_v - 3)
BY DEF Phase, Left, InitStates

LEMMA PhaseOfNext ==
  /\ Main' = "START_INIT" => Phase' = "reset" /\ Left' = 0
  /\ Main' \in InitStates => Phase' = "init" /\ Left' = 0
  /\ Main' = "WAIT_FOR_HOST_RW" => Phase' = "ready" /\ Left' = 0
  /\ Main' = "REPORT_ERROR" => Phase' = "failed" /\ Left' = 0
  /\ Main' = "RD_BLK" => Phase' = "reading"
  /\ Main' \in {"WR_BLK", "WR_WAIT"} => Phase' = "writing" /\ Left' = Within(byteCnt_v' - 3)
BY DEF Phase, Left, InitStates

LEMMA LeftReading ==
  ASSUME Main = "RD_BLK"
  PROVE  /\ rtnData_v /\ state_v = "RX_BITS" => Left = Within(byteCnt_v - 1)
         /\ ~(rtnData_v /\ state_v = "RX_BITS") => Left = Within(byteCnt_v - 2)
BY PhaseOf DEF Left

LEMMA LeftReadingNext ==
  ASSUME Main' = "RD_BLK"
  PROVE  /\ rtnData_v' /\ state_v' = "RX_BITS" => Left' = Within(byteCnt_v' - 1)
         /\ ~(rtnData_v' /\ state_v' = "RX_BITS") => Left' = Within(byteCnt_v' - 2)
BY PhaseOfNext DEF Left

(* A step after which the FSM still returns to where it did, and that the  *)
(* host does not see.                                                      *)
LEMMA Unseen ==
  ASSUME Main' = Main, UNCHANGED <<byteCnt_v, rtnData_v, hndShk_r, addr_v>>,
         rtnData_v => UNCHANGED state_v, busy_o' = busy_o
  PROVE  UNCHANGED Port!portVars
<1>1. Phase' = Phase
  BY DEF Phase
<1>2. (rtnData_v' /\ state_v' = "RX_BITS") <=> (rtnData_v /\ state_v = "RX_BITS")
  OBVIOUS
<1>3. Left' = Left
  BY <1>1, <1>2 DEF Left
<1> QED
  BY <1>1, <1>3 DEF Port!portVars

(* Whether busy_o is high already.                                         *)
LEMMA AlreadyBusy ==
  ASSUME CtrlInv, state_v \notin {"WAIT_FOR_HOST_RW", "REPORT_ERROR"}
  PROVE  busy_o = TRUE
BY DEF CtrlInv, Types, FlagType, Structure, Busy

PortStep == Port!Step \/ Port!Fail \/ Port!Report

(* The states of the initialisation: ready for the host, or refused.       *)
LEMMA InitImplements ==
  ASSUME CtrlInv, Main \in InitStates, Proceeds, state_v # "START_INIT",
         state_v \notin {"WAIT_FOR_HOST_RW", "REPORT_ERROR"}, busy_o' = TRUE,
         Main' \in InitStates \cup {"WAIT_FOR_HOST_RW", "REPORT_ERROR"},
         UNCHANGED <<hndShk_r, addr_v>>
  PROVE  PortStep \/ UNCHANGED Port!portVars
<1>1. Phase = "init" /\ Left = 0 /\ busy_o = TRUE /\ hndShk_r = 0 /\ hndShk_i = 0
  BY PhaseOf, AlreadyBusy DEF Proceeds, LO
<1>2. CASE Main' \in InitStates
  BY <1>1, <1>2, PhaseOfNext DEF Port!portVars
<1>3. CASE Main' = "WAIT_FOR_HOST_RW"
  <2>1. Port!Ready
    BY <1>1, <1>3, PhaseOfNext DEF Port!Ready, Port!BothLow
  <2> QED
    BY <2>1 DEF PortStep, Port!Step
<1>4. CASE Main' = "REPORT_ERROR"
  <2>1. Port!Fail
    BY <1>1, <1>4, PhaseOfNext DEF Port!Fail, Port!BothLow
  <2> QED
    BY <2>1 DEF PortStep
<1> QED
  BY <1>2, <1>3, <1>4

LEMMA TakeHandshakeImplements ==
  ASSUME CtrlInv, TakeHandshake
  PROVE  PortStep
<1>1. /\ state_v # "START_INIT" /\ hndShk_r = 1 /\ hndShk_i = 1 /\ hndShk_r' = 0
      /\ UNCHANGED <<state_v, rtnState_v, byteCnt_v, rtnData_v, busy_o, addr_v>>
  BY DEF TakeHandshake, flagVars, LO, HI
<1>2. Phase # "reset"
  <2>1. Main # "START_INIT"
    <3>1. state_v \in Subroutines => rtnState_v # "START_INIT"
      BY DEF CtrlInv, Structure, Returns, AfterCommand, AfterClocks, Subroutines
    <3> QED
      BY <1>1, <3>1 DEF Main, Subroutines
  <2> QED
    BY <2>1 DEF Phase
<1>3. Phase' = Phase /\ Left' = Left
  <2>1. Main' = Main
    BY <1>1 DEF Main
  <2>2. Phase' = Phase
    BY <2>1 DEF Phase
  <2> QED
    BY <1>1, <2>2 DEF Left
<1>4. Port!Lower
  BY <1>1, <1>2, <1>3 DEF Port!Lower
<1> QED
  BY <1>4 DEF PortStep, Port!Step

LEMMA StartInitImplements ==
  ASSUME CtrlInv, StartInit
  PROVE  PortStep
<1>1. /\ Main = "START_INIT" /\ Main' = "SEND_CMD0" /\ busy_o' = TRUE /\ hndShk_r' = 0
      /\ addr_v' = 0
  BY DEF StartInit, In, Main, LO
<1>2. Port!Begin
  BY <1>1, PhaseOf, PhaseOfNext DEF Port!Begin, InitStates
<1> QED
  BY <1>2 DEF PortStep, Port!Step

(* The steps of the initialisation that take one cycle.                    *)
LEMMA InitStepImplements ==
  ASSUME CtrlInv,
         \/ SendCmd0 \/ SendCmd8 \/ SendCmd55 \/ SendCmd41
         \/ ChkCmd0Response \/ GetCmd8Response \/ ChkAcmd41Response
  PROVE  PortStep \/ UNCHANGED Port!portVars
<1>1. CASE SendCmd0 \/ SendCmd8 \/ SendCmd55 \/ SendCmd41
  <2>1. /\ state_v \in {"SEND_CMD0", "SEND_CMD8", "SEND_CMD55", "SEND_CMD41"}
        /\ state_v' = "START_TX"
        /\ rtnState_v' \in {"CHK_CMD0_RESPONSE", "GET_CMD8_RESPONSE", "SEND_CMD41",
                            "CHK_ACMD41_RESPONSE"}
        /\ Proceeds /\ busy_o' = TRUE /\ UNCHANGED <<hndShk_r, addr_v>>
    BY <1>1 DEF SendCmd0, SendCmd8, SendCmd55, SendCmd41, SendCommand, In
  <2>2. Main \in InitStates /\ Main' \in InitStates
    BY <2>1 DEF Main, InitStates
  <2> QED
    BY <2>1, <2>2, InitImplements
<1>2. CASE ChkCmd0Response \/ ChkAcmd41Response
  <2>1. /\ state_v \in {"CHK_CMD0_RESPONSE", "CHK_ACMD41_RESPONSE"}
        /\ state_v' \in {"SEND_CMD8", "SEND_CMD0", "WAIT_FOR_HOST_RW", "SEND_CMD55",
                         "REPORT_ERROR"}
        /\ Proceeds /\ busy_o' = TRUE /\ UNCHANGED <<hndShk_r, addr_v>>
    BY <1>2 DEF ChkCmd0Response, ChkAcmd41Response, Check, In
  <2>2. Main \in InitStates /\ Main' \in InitStates \cup {"WAIT_FOR_HOST_RW", "REPORT_ERROR"}
    BY <2>1 DEF Main, InitStates
  <2> QED
    BY <2>1, <2>2, InitImplements
<1>3. CASE GetCmd8Response
  <2>1. /\ state_v = "GET_CMD8_RESPONSE" /\ state_v' = "RX_BITS" /\ rtnState_v' = "SEND_CMD55"
        /\ Proceeds /\ busy_o' = TRUE /\ UNCHANGED <<hndShk_r, addr_v>>
    BY <1>3 DEF GetCmd8Response, In
  <2>2. Main \in InitStates /\ Main' \in InitStates
    BY <2>1 DEF Main, InitStates
  <2> QED
    BY <2>1, <2>2, InitImplements
<1> QED
  BY <1>1, <1>2, <1>3

LEMMA AcceptImplements ==
  ASSUME CtrlInv, AcceptRead \/ AcceptWrite
  PROVE  PortStep
<1>1. /\ Main = "WAIT_FOR_HOST_RW" /\ hndShk_r = 0 /\ hndShk_i = 0 /\ busy_o' = TRUE
      /\ addr_v' = NextAddr /\ hndShk_r' = hndShk_r /\ state_v' = "START_TX"
  BY DEF AcceptRead, AcceptWrite, Accept, In, Proceeds, Main, LO
<1>2. Phase = "ready" /\ Left = 0
  BY <1>1, PhaseOf
<1>3. BlockSize + 1 \in Int /\ BlockSize + 2 \in Int /\ BlockSize \in Int
  BY Limits
<1>4. CASE AcceptRead
  <2>1. rd_i /\ byteCnt_v' = RD_BLK_SZ_C /\ rtnState_v' = "RD_BLK"
    BY <1>4 DEF AcceptRead, Accept
  <2>2. Main' = "RD_BLK"
    BY <1>1, <2>1 DEF Main
  <2>3. byteCnt_v' - 2 = BlockSize + 1
    BY <2>1, Limits DEF RD_BLK_SZ_C
  <2>4. Phase' = "reading" /\ Left' = BlockSize
    BY <1>1, <1>3, <2>2, <2>3, PhaseOfNext, LeftReadingNext, WithinFacts
  <2>5. Port!AcceptRead
    BY <1>1, <1>2, <2>1, <2>4 DEF Port!AcceptRead, Port!Accept, Port!BothLow
  <2> QED
    BY <2>5 DEF PortStep, Port!Step
<1>5. CASE AcceptWrite
  <2>1. ~rd_i /\ wr_i /\ byteCnt_v' = WR_BLK_SZ_C /\ rtnState_v' = "WR_BLK"
    BY <1>5 DEF AcceptWrite, Accept
  <2>2. Main' = "WR_BLK"
    BY <1>1, <2>1 DEF Main
  <2>3. byteCnt_v' - 3 = BlockSize + 2
    BY <2>1, Limits DEF WR_BLK_SZ_C
  <2>4. Phase' = "writing" /\ Left' = BlockSize
    BY <1>1, <1>3, <2>2, <2>3, PhaseOfNext, WithinFacts
  <2>5. Port!AcceptWrite
    BY <1>1, <1>2, <2>1, <2>4 DEF Port!AcceptWrite, Port!Accept, Port!BothLow
  <2> QED
    BY <2>5 DEF PortStep, Port!Step
<1> QED
  BY <1>4, <1>5

LEMMA HostWaitImplements ==
  ASSUME CtrlInv, WaitForHost \/ ReportError
  PROVE  PortStep
<1>1. /\ Main = state_v /\ Main' = Main /\ hndShk_r = 0 /\ hndShk_i = 0 /\ busy_o' = FALSE
      /\ UNCHANGED <<hndShk_r, addr_v>>
  BY DEF WaitForHost, ReportError, Proceeds, Main, LO
<1>2. CASE WaitForHost
  <2>1. Port!Idle
    BY <1>1, <1>2, PhaseOf, PhaseOfNext DEF WaitForHost, Port!Idle, Port!BothLow
  <2> QED
    BY <2>1 DEF PortStep, Port!Step
<1>3. CASE ReportError
  <2>1. Port!Report
    BY <1>1, <1>3, PhaseOf, PhaseOfNext DEF ReportError, Port!Report, Port!BothLow
  <2> QED
    BY <2>1 DEF PortStep
<1> QED
  BY <1>2, <1>3

(* A byte of a block being read, or its end.                               *)
LEMMA ReadBlockImplements ==
  ASSUME CtrlInv, ReadBlock
  PROVE  PortStep \/ UNCHANGED Port!portVars
<1>1. /\ state_v = "RD_BLK" /\ Main = "RD_BLK" /\ hndShk_r = 0 /\ hndShk_i = 0
      /\ busy_o' = TRUE /\ busy_o = TRUE /\ hndShk_r' = hndShk_r /\ addr_v' = addr_v
  BY AlreadyBusy DEF ReadBlock, In, Proceeds, Main, LO
<1>2. byteCnt_v \in 0 .. BlockSize + 3 /\ RD_BLK_SZ_C = BlockSize + 3
  BY <1>1, Limits DEF CtrlInv, Types, FsmType, Structure, Counting, RD_BLK_SZ_C,
     WR_BLK_SZ_C
<1>3. Phase = "reading" /\ Left = Within(byteCnt_v - 2)
  BY <1>1, PhaseOf, LeftReading
<1>4. CASE byteCnt_v = 0
  <2>1. Left = 0
    BY <1>3, <1>4, WithinFacts
  <2>2. state_v' = "DESELECT" /\ rtnState_v' = "WAIT_FOR_HOST_RW"
    <3>1. byteCnt_v # RD_BLK_SZ_C - 1
      BY <1>2, <1>4, Limits
    <3> QED
      BY <1>4, <3>1 DEF ReadBlock
  <2>3. Main' = "WAIT_FOR_HOST_RW"
    BY <2>2 DEF Main
  <2>4. Port!Finish
    BY <1>1, <1>3, <2>1, <2>3, PhaseOfNext DEF Port!Finish, Port!BothLow
  <2> QED
    BY <2>4 DEF PortStep, Port!Step
<1> DEFINE waiting == byteCnt_v = RD_BLK_SZ_C - 1 /\ rx_v # START_TOKEN_C
<1>5. rtnData_v' => byteCnt_v < RD_BLK_SZ_C /\ ~waiting /\ byteCnt_v >= 3
  BY DEF ReadBlock, ReturnsNext
<1>6. byteCnt_v < RD_BLK_SZ_C /\ ~waiting /\ byteCnt_v >= 3 => rtnData_v'
  BY DEF ReadBlock, ReturnsNext
<1>7. CASE byteCnt_v # 0 /\ waiting
  <2>1. /\ byteCnt_v' = byteCnt_v /\ ~rtnData_v' /\ rtnState_v' = "RD_BLK"
        /\ state_v' \in {"REPORT_ERROR", "RX_BITS"}
    BY <1>5, <1>7 DEF ReadBlock
  <2>2. CASE state_v' = "REPORT_ERROR"
    <3>1. Main' = "REPORT_ERROR"
      BY <2>2 DEF Main
    <3>2. Port!Fail
      BY <1>1, <1>3, <3>1, PhaseOfNext DEF Port!Fail, Port!BothLow
    <3> QED
      BY <3>2 DEF PortStep
  <2>3. CASE state_v' = "RX_BITS"
    <3>1. Main' = "RD_BLK"
      BY <2>1, <2>3 DEF Main
    <3>2. Phase' = "reading" /\ Left' = Within(byteCnt_v - 2)
      BY <2>1, <3>1, PhaseOfNext, LeftReadingNext
    <3> QED
      BY <1>1, <1>3, <3>2 DEF Port!portVars
  <2> QED
    BY <2>1, <2>2, <2>3
<1>8. CASE byteCnt_v # 0 /\ ~waiting
  <2>1. byteCnt_v' = byteCnt_v - 1 /\ rtnState_v' = "RD_BLK" /\ state_v' = "RX_BITS"
    BY <1>8 DEF ReadBlock
  <2>2. Main' = "RD_BLK"
    BY <2>1 DEF Main
  <2>3. Left' = Left
    <3>1. CASE rtnData_v'
      <4>1. Left' = Within(byteCnt_v' - 1)
        BY <2>1, <2>2, <3>1, LeftReadingNext
      <4>2. byteCnt_v' - 1 = byteCnt_v - 2
        BY <1>2, <2>1
      <4> QED
        BY <1>3, <4>1, <4>2
    <3>2. CASE ~rtnData_v'
      <4>1. Left' = Within(byteCnt_v' - 2)
        BY <2>2, <3>2, LeftReadingNext
      <4>2. byteCnt_v' - 2 = byteCnt_v - 3 /\ byteCnt_v - 2 \in Int /\ byteCnt_v - 3 \in Int
        BY <1>2, <2>1
      <4>3. byteCnt_v = RD_BLK_SZ_C \/ byteCnt_v < 3
        BY <1>2, <1>6, <1>8, <3>2
      <4>4. \/ byteCnt_v - 2 >= BlockSize /\ byteCnt_v - 3 >= BlockSize
            \/ byteCnt_v - 2 <= 0 /\ byteCnt_v - 3 <= 0
        BY <1>2, <4>3, Limits
      <4> QED
        BY <1>3, <4>1, <4>2, <4>4, WithinFacts
    <3> QED
      BY <3>1, <3>2
  <2>4. Phase' = "reading"
    BY <2>2, PhaseOfNext
  <2> QED
    BY <1>1, <1>3, <2>3, <2>4 DEF Port!portVars
<1> QED
  BY <1>4, <1>7, <1>8

(* A byte of a block being written.                                        *)
LEMMA WriteBlockByteImplements ==
  ASSUME CtrlInv, WriteBlockByte
  PROVE  PortStep \/ UNCHANGED Port!portVars
<1>1. /\ state_v = "WR_BLK" /\ Main = "WR_BLK" /\ hndShk_r = 0 /\ hndShk_i = 0
      /\ busy_o' = TRUE /\ busy_o = TRUE /\ addr_v' = addr_v
      /\ state_v' = "START_TX" /\ rtnState_v' = "WR_BLK"
      /\ byteCnt_v' = byteCnt_v - 1
      /\ hndShk_r' = (IF byteCnt_v \in 4 .. WR_BLK_SZ_C - 2 THEN 1 ELSE 0)
  BY AlreadyBusy DEF WriteBlockByte, In, Proceeds, Main, LO, HI
<1>2. byteCnt_v \in 2 .. BlockSize + 5 /\ WR_BLK_SZ_C = BlockSize + 5
  BY Limits DEF WriteBlockByte, CtrlInv, Types, FsmType, WR_BLK_SZ_C
<1>3. Main' = "WR_BLK"
  BY <1>1 DEF Main
<1>4. /\ Phase = "writing" /\ Left = Within(byteCnt_v - 3)
      /\ Phase' = "writing" /\ Left' = Within(byteCnt_v' - 3)
  BY <1>1, <1>3, PhaseOf, PhaseOfNext
<1>5. /\ byteCnt_v' - 3 = byteCnt_v - 4
      /\ byteCnt_v - 3 \in Int /\ byteCnt_v - 4 \in Int
  BY <1>1, <1>2
<1>6. CASE byteCnt_v \in 4 .. WR_BLK_SZ_C - 2
  <2>1. byteCnt_v - 3 \in 0 .. BlockSize /\ byteCnt_v - 4 \in 0 .. BlockSize
    BY <1>2, <1>6, Limits
  <2>2. Left = byteCnt_v - 3 /\ Left' = byteCnt_v - 4
    BY <1>4, <1>5, <2>1, WithinFacts
  <2>3. Left > 0 /\ Left' = Left - 1
    BY <1>2, <1>6, <2>2
  <2>4. Port!Offer
    BY <1>1, <1>4, <1>6, <2>3 DEF Port!Offer, Port!BothLow
  <2> QED
    BY <2>4 DEF PortStep, Port!Step
<1>7. CASE byteCnt_v \notin 4 .. WR_BLK_SZ_C - 2
  <2>1. \/ byteCnt_v - 3 >= BlockSize /\ byteCnt_v - 4 >= BlockSize
        \/ byteCnt_v - 3 <= 0 /\ byteCnt_v - 4 <= 0
    BY <1>2, <1>7, Limits
  <2>2. Left' = Left
    BY <1>4, <1>5, <2>1, WithinFacts
  <2> QED
    BY <1>1, <1>4, <1>7, <2>2 DEF Port!portVars
<1> QED
  BY <1>6, <1>7

(* The end of a block being written.                                       *)
LEMMA WriteEndImplements ==
  ASSUME CtrlInv, WriteBlockResponse \/ WriteWait
  PROVE  PortStep \/ UNCHANGED Port!portVars
<1>1. CASE WriteBlockResponse
  <2>1. /\ state_v = "WR_BLK" /\ Main = "WR_BLK" /\ busy_o' = TRUE /\ busy_o = TRUE
        /\ UNCHANGED <<addr_v, hndShk_r>> /\ state_v' = "RX_BITS" /\ rtnState_v' = "WR_WAIT"
        /\ byteCnt_v = 1 /\ byteCnt_v' = 0
    BY <1>1, AlreadyBusy DEF WriteBlockResponse, In, Main
  <2>2. Main' = "WR_WAIT"
    BY <2>1 DEF Main
  <2>3. /\ Phase = "writing" /\ Left = Within(1 - 3)
        /\ Phase' = "writing" /\ Left' = Within(0 - 3)
    BY <2>1, <2>2, PhaseOf, PhaseOfNext
  <2>4. Left' = Left
    BY <2>3, WithinFacts
  <2> QED
    BY <2>1, <2>3, <2>4 DEF Port!portVars
<1>2. CASE WriteWait
  <2>1. /\ state_v = "WR_WAIT" /\ Main = "WR_WAIT" /\ busy_o' = TRUE /\ busy_o = TRUE
        /\ hndShk_r = 0 /\ hndShk_i = 0
        /\ UNCHANGED <<addr_v, hndShk_r, byteCnt_v, rtnData_v>>
    BY <1>2, AlreadyBusy DEF WriteWait, In, Proceeds, Main, flagVars, LO
  <2>2. byteCnt_v = 0
    BY <2>1 DEF CtrlInv, Structure, Counting
  <2>3. Phase = "writing" /\ Left = 0
    BY <2>1, <2>2, PhaseOf, WithinFacts
  <2>4. CASE sclk_r = HI /\ miso_i = HI
    <3>1. state_v' = "DESELECT" /\ rtnState_v' = "WAIT_FOR_HOST_RW"
      BY <1>2, <2>4 DEF WriteWait
    <3>2. Main' = "WAIT_FOR_HOST_RW"
      BY <3>1 DEF Main
    <3>3. Port!Finish
      BY <2>1, <2>3, <3>2, PhaseOfNext DEF Port!Finish, Port!BothLow
    <3> QED
      BY <3>3 DEF PortStep, Port!Step
  <2>5. CASE ~(sclk_r = HI /\ miso_i = HI)
    <3>1. UNCHANGED <<state_v, rtnState_v>>
      BY <1>2, <2>5 DEF WriteWait
    <3>2. Main' = Main
      BY <3>1 DEF Main
    <3> QED
      BY <2>1, <3>1, <3>2, Unseen
  <2> QED
    BY <2>4, <2>5
<1> QED
  BY <1>1, <1>2

(* The subroutines that send bits, look for the response and deselect.     *)
LEMMA SubroutineImplements ==
  ASSUME CtrlInv, StartTx \/ TxBits \/ GetCmdResponse \/ DeselectCard \/ PulseSclk
  PROVE  UNCHANGED Port!portVars
<1>1. /\ state_v \in Subroutines \ {"RX_BITS"} /\ busy_o' = TRUE
      /\ UNCHANGED <<rtnState_v, byteCnt_v, rtnData_v, hndShk_r, addr_v>>
  BY DEF StartTx, TxBits, GetCmdResponse, DeselectCard, PulseSclk, In, flagVars,
     Subroutines
<1>2. state_v' \in Subroutines \cup {rtnState_v}
  <2>1. CASE StartTx \/ GetCmdResponse \/ DeselectCard
    BY <1>1, <2>1 DEF StartTx, GetCmdResponse, DeselectCard, Subroutines
  <2>2. CASE TxBits
    BY <2>2 DEF TxBits, Subroutines
  <2>3. CASE PulseSclk
    BY <1>1, <2>3 DEF PulseSclk, Subroutines
  <2> QED
    BY <2>1, <2>2, <2>3
<1>3. ~rtnData_v
  BY <1>1 DEF CtrlInv, Structure, Returning, Subroutines
<1>4. Main' = Main
  BY <1>1, <1>2 DEF Main, Subroutines
<1>5. busy_o = TRUE
  BY <1>1, AlreadyBusy DEF Subroutines
<1> QED
  BY <1>1, <1>3, <1>4, <1>5, Unseen

(* The subroutine that receives a byte, and returns it to the host.        *)
LEMMA RxBitsImplements ==
  ASSUME CtrlInv, RxBits
  PROVE  PortStep \/ UNCHANGED Port!portVars
<1> DEFINE last == sclk_r = HI /\ bitCnt_v = 0
<1>1. /\ state_v = "RX_BITS" /\ hndShk_r = 0 /\ hndShk_i = 0 /\ busy_o' = TRUE /\ busy_o = TRUE
      /\ UNCHANGED <<rtnState_v, byteCnt_v, rtnData_v, addr_v>>
  BY AlreadyBusy DEF RxBits, In, Proceeds, flagVars, LO
<1>2. /\ last /\ doDeselect_v => state_v' = "DESELECT"
      /\ last /\ ~doDeselect_v => state_v' = rtnState_v
      /\ ~last => state_v' = "RX_BITS"
  <2>1. state_v' = CASE last /\ doDeselect_v  -> "DESELECT"
                     [] last /\ ~doDeselect_v -> rtnState_v
                     [] OTHER                 -> "RX_BITS"
    BY DEF RxBits
  <2>2. last \in BOOLEAN /\ doDeselect_v \in BOOLEAN
    BY DEF CtrlInv, Types, FlagType
  <2> QED
    BY <2>1, <2>2
<1>3. Main = rtnState_v /\ Main' = Main
  <2>1. rtnState_v \notin Subroutines
    BY <1>1 DEF CtrlInv, Structure, Returns, AfterCommand, Subroutines
  <2>2. state_v' \in {"DESELECT", "RX_BITS", rtnState_v}
    <3>1. doDeselect_v \in BOOLEAN
      BY DEF CtrlInv, Types, FlagType
    <3> QED
      BY <1>2, <3>1
  <2> QED
    BY <1>1, <2>1, <2>2 DEF Main, Subroutines
<1>4. CASE last /\ rtnData_v
  <2>1. rtnState_v = "RD_BLK" /\ byteCnt_v \in 2 .. BlockSize + 1
    BY <1>1, <1>3, <1>4 DEF CtrlInv, Structure, Returning
  <2>2. ~doDeselect_v
    BY <1>1, <2>1 DEF CtrlInv, Structure, Deselects, AfterClocks
  <2>3. state_v' = "RD_BLK" /\ hndShk_r' = 1
    BY <1>2, <1>4, <2>1, <2>2 DEF RxBits, HI
  <2>4. Phase = "reading" /\ Left = Within(byteCnt_v - 1)
        /\ Phase' = "reading" /\ Left' = Within(byteCnt_v - 2)
    BY <1>1, <1>3, <1>4, <2>1, <2>3, PhaseOf, PhaseOfNext, LeftReading, LeftReadingNext
  <2>5. byteCnt_v - 1 \in 0 .. BlockSize /\ byteCnt_v - 2 \in 0 .. BlockSize
    BY <2>1, Limits
  <2>6. Left = byteCnt_v - 1 /\ Left' = byteCnt_v - 2
    BY <2>4, <2>5, WithinFacts, Limits
  <2>7. Left > 0 /\ Left' = Left - 1
    BY <2>1, <2>6, Limits
  <2>8. Port!Offer
    BY <1>1, <2>3, <2>4, <2>7 DEF Port!Offer, Port!BothLow
  <2> QED
    BY <2>8 DEF PortStep, Port!Step
<1>5. CASE ~(last /\ rtnData_v)
  <2>1. hndShk_r' = hndShk_r
    BY <1>5 DEF RxBits
  <2>2. rtnData_v => state_v' = state_v
    BY <1>1, <1>2, <1>5
  <2> QED
    BY <1>1, <1>3, <2>1, <2>2, Unseen
<1> QED
  BY <1>4, <1>5

(* A cycle of the controller that is not a reset.                          *)
LEMMA TickImplements ==
  ASSUME CtrlInv, CtrlTick
  PROVE  PortStep \/ UNCHANGED Port!portVars
BY TakeHandshakeImplements, StartInitImplements, InitStepImplements,
   AcceptImplements, HostWaitImplements, ReadBlockImplements,
   WriteBlockByteImplements, WriteEndImplements, SubroutineImplements,
   RxBitsImplements DEF CtrlTick

LEMMA ResetImplements ==
  ASSUME Reset
  PROVE  Port!Reset
<1>1. Main' = "START_INIT" /\ busy_o' = TRUE /\ UNCHANGED <<hndShk_r, addr_v>>
  BY DEF Reset, Main
<1> QED
  BY <1>1, PhaseOfNext DEF Port!Reset

LEMMA HostImplements ==
  ASSUME HostStep \/ UNCHANGED vars
  PROVE  UNCHANGED Port!portVars
<1>1. UNCHANGED ctrlVars
  BY DEF HostStep, HostRequest, HostRelease, HostAck, HostAckDone, HostDone, vars
<1>2. Main' = Main /\ UNCHANGED <<state_v, byteCnt_v, rtnData_v, hndShk_r, addr_v, busy_o>>
  BY <1>1 DEF ctrlVars, flagVars, Main
<1> QED
  BY <1>2, Unseen

(* Whatever the card answers, whenever the board is reset and whatever the *)
(* host does with its inputs, the controller keeps the promises of its     *)
(* port: the order of busy_o and hndShk_o, and the bytes of each block.    *)
THEOREM PortImplemented == Spec => ImplementsPort
<1>1. Init => Port!Init
  <2> SUFFICES ASSUME Init PROVE Port!Init
    OBVIOUS
  <2>1. Main = "START_INIT" /\ busy_o = TRUE /\ hndShk_r = 0 /\ addr_v = 0
    BY DEF Init, CtrlInit, Main, LO
  <2> QED
    BY <2>1, PhaseOf DEF Port!Init
<1>2. CtrlInv /\ [Next]_vars => [Port!Next]_Port!portVars
  <2> SUFFICES ASSUME CtrlInv, [Next]_vars PROVE Port!Next \/ UNCHANGED Port!portVars
    OBVIOUS
  <2>1. CASE HostStep \/ UNCHANGED vars
    BY <2>1, HostImplements
  <2>2. CASE Reset
    BY <2>2, ResetImplements DEF Port!Next
  <2>3. CASE CtrlTick
    BY <2>3, TickImplements DEF PortStep, Port!Next
  <2> QED
    BY <2>1, <2>2, <2>3 DEF Next
<1> QED
  BY <1>1, <1>2, CtrlInvHolds, PTL DEF Spec, Port!Spec, ImplementsPort

-----------------------------------------------------------------------------
(* A host that lowers its request before it takes a byte gets, or gives,   *)
(* exactly one block.                                                      *)

(* A byte that is offered, or asked for, and not yet acknowledged.         *)
Owed == IF hndShk_r = HI /\ hndShk_i = LO THEN 1 ELSE 0

(* What the host has taken of its block, at every moment of its request.   *)
Served ==
  op # "none" =>
    /\ Phase \notin {"reset", "init"}
    /\ Phase = "ready" => \/ ~busy_o /\ (rd_i \/ wr_i) /\ taken = 0
                          \/ ~rd_i /\ ~wr_i /\ taken = BlockSize
    /\ Phase \in {"reading", "writing"} =>
         /\ taken = BlockSize - Left - Owed
         /\ taken > 0 => ~rd_i /\ ~wr_i

LEMMA LeftType == ASSUME CtrlInv PROVE Left \in 0 .. BlockSize
<1>1. byteCnt_v \in Nat
  BY Limits DEF CtrlInv, Types, FsmType, WR_BLK_SZ_C
<1>2. byteCnt_v - 3 \in Int /\ byteCnt_v - 2 \in Int /\ byteCnt_v - 1 \in Int
  BY <1>1
<1>3. 0 \in 0 .. BlockSize
  BY Limits
<1> QED
  BY <1>2, <1>3, WithinFacts DEF Left

(* While a byte is offered a block is under way, unless a reset came.      *)
LEMMA OfferedPhase ==
  ASSUME CtrlInv, hndShk_r = HI
  PROVE  Phase \in {"reset", "reading", "writing"}
<1>1. Main \in {"START_INIT", "RD_BLK", "WR_BLK"}
  BY DEF CtrlInv, Structure, Offered, Main
<1> QED
  BY <1>1, PhaseOf

(* When busy_o is low the controller waits for a request, or has failed.   *)
LEMMA IdlePhase ==
  ASSUME CtrlInv, ~busy_o
  PROVE  \/ state_v = "WAIT_FOR_HOST_RW" /\ Phase = "ready"
         \/ state_v = "REPORT_ERROR" /\ Phase = "failed"
<1>1. Main = state_v /\ state_v \in {"WAIT_FOR_HOST_RW", "REPORT_ERROR"}
  BY DEF CtrlInv, Structure, Busy, Main
<1> QED
  BY <1>1, PhaseOf

LEMMA TickServes ==
  ASSUME CtrlInv, CtrlInv', Served, CtrlTick
  PROVE  Served'
<1>1. UNCHANGED hostVars
  BY DEF CtrlTick, TakeHandshake, StartInit, SendCmd0, SendCmd8, SendCmd55,
     SendCmd41, SendCommand, ChkCmd0Response, ChkAcmd41Response, Check,
     GetCmd8Response, AcceptRead, AcceptWrite, Accept, WaitForHost, ReadBlock,
     WriteBlockByte, WriteBlockResponse, WriteWait, StartTx, TxBits, GetCmdResponse,
     RxBits, DeselectCard, PulseSclk, ReportError
<1>2. UNCHANGED <<op, taken, rd_i, wr_i, hndShk_i>>
  BY <1>1 DEF hostVars, portVars
<1> SUFFICES ASSUME op # "none" PROVE Served'
  BY <1>2 DEF Served
<1>3. /\ Phase \notin {"reset", "init"}
      /\ Phase = "ready" => \/ ~busy_o /\ (rd_i \/ wr_i) /\ taken = 0
                            \/ ~rd_i /\ ~wr_i /\ taken = BlockSize
      /\ Phase \in {"reading", "writing"} =>
           /\ taken = BlockSize - Left - Owed
           /\ taken > 0 => ~rd_i /\ ~wr_i
  BY DEF Served
<1>4. Left \in 0 .. BlockSize /\ Left' \in 0 .. BlockSize
  <2>1. ASSUME CtrlInv' PROVE Left' \in 0 .. BlockSize
    <3>1. byteCnt_v' \in Nat
      BY <2>1, Limits DEF CtrlInv, Types, FsmType, WR_BLK_SZ_C
    <3>2. byteCnt_v' - 3 \in Int /\ byteCnt_v' - 2 \in Int /\ byteCnt_v' - 1 \in Int
      BY <3>1
    <3>3. 0 \in 0 .. BlockSize
      BY Limits
    <3> QED
      BY <3>2, <3>3, WithinFacts DEF Left
  <2> QED
    BY <2>1, LeftType
<1>5. CASE UNCHANGED Port!portVars
  <2>1. Phase' = Phase /\ Left' = Left /\ busy_o' = busy_o /\ hndShk_r' = hndShk_r
    BY <1>5 DEF Port!portVars
  <2>2. Owed' = Owed
    BY <1>2, <2>1 DEF Owed
  <2> QED
    BY <1>2, <1>3, <2>1, <2>2 DEF Served
<1>6. CASE Port!Begin \/ Port!Ready
  BY <1>3, <1>6 DEF Port!Begin, Port!Ready
<1>7. CASE Port!Lower
  <2>1. /\ Phase' = Phase /\ Left' = Left /\ busy_o' = busy_o
        /\ hndShk_i = 1 /\ hndShk_r' = 0
    BY <1>7 DEF Port!Lower
  <2>2. Owed' = Owed
    BY <1>2, <2>1 DEF Owed, LO, HI
  <2> QED
    BY <1>2, <1>3, <2>1, <2>2 DEF Served
<1>8. CASE Port!Idle
  <2>1. Phase = "ready" /\ Phase' = "ready" /\ ~rd_i /\ ~wr_i
    BY <1>8 DEF Port!Idle
  <2> QED
    BY <1>2, <1>3, <2>1 DEF Served
<1>9. CASE Port!AcceptRead \/ Port!AcceptWrite
  <2>1. /\ Phase = "ready" /\ Phase' \in {"reading", "writing"} /\ (rd_i \/ wr_i)
        /\ hndShk_r' = 0 /\ Left' = BlockSize
    BY <1>9 DEF Port!AcceptRead, Port!AcceptWrite, Port!Accept, Port!BothLow
  <2>2. taken = 0 /\ Owed' = 0
    BY <1>3, <2>1 DEF Owed, HI
  <2>3. taken' = BlockSize - Left' - Owed' /\ ~(taken' > 0)
    BY <1>2, <2>1, <2>2, Limits
  <2> QED
    BY <2>1, <2>3 DEF Served
<1>10. CASE Port!Offer
  <2>1. /\ Phase \in {"reading", "writing"} /\ Phase' = Phase /\ Left' = Left - 1
        /\ hndShk_r = 0 /\ hndShk_i = 0 /\ hndShk_r' = 1
    BY <1>10 DEF Port!Offer, Port!BothLow
  <2>2. Owed = 0 /\ Owed' = 1
    BY <1>2, <2>1 DEF Owed, LO, HI
  <2>3. taken' = BlockSize - Left' - Owed'
    BY <1>2, <1>3, <1>4, <2>1, <2>2, Limits
  <2> QED
    BY <1>2, <1>3, <2>1, <2>3 DEF Served
<1>11. CASE Port!Finish
  <2>1. /\ Phase \in {"reading", "writing"} /\ Phase' = "ready" /\ Left = 0 /\ hndShk_r = 0
    BY <1>11 DEF Port!Finish, Port!BothLow
  <2>2. Owed = 0
    BY <2>1 DEF Owed, HI
  <2>3. taken = BlockSize /\ ~rd_i /\ ~wr_i
    BY <1>3, <2>1, <2>2, Limits
  <2> QED
    BY <1>2, <2>1, <2>3 DEF Served
<1>12. CASE Port!Fail \/ Port!Report
  <2>1. Phase' = "failed"
    BY <1>12 DEF Port!Fail, Port!Report
  <2> QED
    BY <2>1 DEF Served
<1> QED
  BY <1>5, <1>6, <1>7, <1>8, <1>9, <1>10, <1>11, <1>12, TickImplements DEF PortStep,
     Port!Step

LEMMA HostServes ==
  ASSUME PromptHost, CtrlInv, Served, HostStep
  PROVE  Served'
<1>1. Phase' = Phase /\ Left' = Left /\ busy_o' = busy_o /\ hndShk_r' = hndShk_r
  BY HostImplements DEF Port!portVars
<1>2. /\ hndShk_i' = hndShk_i => Owed' = Owed
      /\ hndShk_r = LO => Owed = 0 /\ Owed' = 0
  BY <1>1 DEF Owed, LO, HI
<1>3. CASE HostRequest
  <2>1. ~busy_o /\ (rd_i' \/ wr_i') /\ taken' = 0
    BY <1>3 DEF HostRequest
  <2>2. Phase \in {"ready", "failed"}
    BY <2>1, IdlePhase
  <2> QED
    BY <1>1, <2>1, <2>2 DEF Served
<1>4. CASE HostRelease
  <2>1. /\ busy_o /\ (rd_i \/ wr_i) /\ ~rd_i' /\ ~wr_i'
        /\ UNCHANGED <<hndShk_i, op, taken>>
    BY <1>4 DEF HostRelease
  <2> QED
    BY <1>1, <1>2, <2>1 DEF Served
<1>5. CASE HostAck
  <2>1. /\ hndShk_r = HI /\ hndShk_i = LO /\ hndShk_i' = HI /\ ~rd_i /\ ~wr_i
        /\ taken' = (IF taken > BlockSize THEN taken ELSE taken + 1)
        /\ UNCHANGED <<rd_i, wr_i, op>>
    BY <1>5 DEF HostAck
  <2>2. Owed = 1 /\ Owed' = 0
    BY <1>1, <2>1 DEF Owed, LO, HI
  <2>3. CASE op = "none"
    BY <2>1, <2>3 DEF Served
  <2>4. CASE op # "none"
    <3>1. Phase \in {"reading", "writing"} /\ taken = BlockSize - Left - 1
      BY <2>1, <2>2, <2>4, OfferedPhase DEF Served
    <3>2. taken' = BlockSize - Left - 0
      BY <2>1, <3>1, LeftType, Limits
    <3> QED
      BY <1>1, <2>1, <2>2, <3>1, <3>2 DEF Served
  <2> QED
    BY <2>3, <2>4
<1>6. CASE HostAckDone
  BY <1>1, <1>2, <1>6 DEF HostAckDone, Served
<1>7. CASE HostDone
  BY <1>7 DEF HostDone, Served
<1> QED
  BY <1>3, <1>4, <1>5, <1>6, <1>7 DEF HostStep

(* When the controller stops being busy with a request the host has taken  *)
(* or given exactly BLOCK_SIZE_G bytes, or an error is reported; for every *)
(* block size, every card, and a reset at any moment.                      *)
THEOREM OneBlockServed == PromptHost => (Spec => []WholeBlock)
<1> SUFFICES ASSUME PromptHost PROVE Spec => []WholeBlock
  OBVIOUS
<1>1. Init => Served
  BY DEF Init, CtrlInit, Served
<1>2. CtrlInv /\ CtrlInv' /\ Served /\ [Next]_vars => Served'
  <2> SUFFICES ASSUME CtrlInv, CtrlInv', Served, [Next]_vars PROVE Served'
    OBVIOUS
  <2>1. CASE HostStep
    BY <2>1, HostServes
  <2>2. CASE Reset
    BY <2>2 DEF Reset, Served
  <2>3. CASE CtrlTick
    BY <2>3, TickServes
  <2>4. CASE UNCHANGED vars
    <3>1. Phase' = Phase /\ Left' = Left /\ busy_o' = busy_o /\ hndShk_r' = hndShk_r
      BY <2>4, HostImplements DEF Port!portVars
    <3>2. UNCHANGED <<op, taken, rd_i, wr_i, hndShk_i>>
      BY <2>4 DEF vars, hostVars, portVars
    <3>3. Owed' = Owed
      BY <3>1, <3>2 DEF Owed
    <3> QED
      BY <3>1, <3>2, <3>3 DEF Served
  <2> QED
    BY <2>1, <2>2, <2>3, <2>4 DEF Next
<1>3. CtrlInv /\ Served => WholeBlock
  BY IdlePhase DEF Served, WholeBlock
<1> QED
  BY <1>1, <1>2, <1>3, CtrlInvHolds, PTL DEF Spec

=============================================================================
