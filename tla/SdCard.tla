------------------------------- MODULE SdCard -------------------------------
(***************************************************************************)
(* The SD card the MiST board pretends to have.  sd_card.v answers the SPI *)
(* protocol of a core that wants a card, and passes every sector access on *)
(* to the IO controller (an ARM outside the FPGA) through user_io.v.       *)
(*                                                                         *)
(* Grain: one action per edge of the card's clock sd_sck, because the      *)
(* transmitter runs on falling edges, the receiver on rising ones, and the *)
(* deselect (sd_cs) is asynchronous; one action per byte of the IO         *)
(* controller's own SPI bus, whose clock is independent of sd_sck.         *)
(*                                                                         *)
(* The host here is the most general one: it puts any bit on sd_sdi and    *)
(* raises sd_cs whenever the card is idle or between two bytes, and, when  *)
(* MidByteDeselect holds, inside a byte of a transfer as well.             *)
(***************************************************************************)
EXTENDS Integers, Sequences

CONSTANTS
  SectorLen,        \* bytes of a sector: 512 in the code
  CidLen,           \* bytes of the CID and of the CSD: 16 in the code
  AllowSdhc,        \* input allow_sdhc of sd_card.v
  Sectors,          \* contents the IO controller may upload
  Configs,          \* configurations it may upload: CID, CSD and a flag byte
  Configured,       \* is the configuration uploaded before the host starts?
  MidByteDeselect   \* may the host raise sd_cs inside a byte of a transfer?

Byte == 0 .. 255

ASSUME CardAssumption ==
  /\ SectorLen \in Nat \ {0}
  /\ CidLen \in Nat \ {0}
  /\ AllowSdhc \in BOOLEAN
  /\ Sectors # {}
  /\ Sectors \subseteq [0 .. SectorLen - 1 -> Byte]
  /\ Configs # {}
  /\ Configs \subseteq [0 .. 2 * CidLen -> Byte]
  /\ Configured \in BOOLEAN
  /\ MidByteDeselect \in BOOLEAN

NCR == 4            \* bytes between a command and its reply

\* Command bytes: 16#40# + the number of the command.
CMD0  == 64
CMD1  == 65
CMD8  == 72
CMD9  == 73
CMD10 == 74
CMD16 == 80
CMD17 == 81
CMD24 == 88
CMD41 == 105
CMD55 == 119
CMD58 == 122

READ_DATA_TOKEN     == 254
WRITE_DATA_RESPONSE == 5

ReadStates  == {"IDLE", "WAIT_IO", "SEND_TOKEN", "SEND_DATA"}
WriteStates == {"IDLE", "EXP_DTOKEN", "RECV_DATA", "RECV_CRC0", "RECV_CRC1",
                "SEND_DRESP", "BUSY"}

\* What the IO controller has selected on its own bus: nothing, or one of the
\* commands 0x17 (sector to the card), 0x18 (sector from the card) and 0x19
\* (configuration).
IoCommands == {"none", "RD", "WR", "CONF"}

VARIABLES
  sd_cs, sd_sck, sd_sdi, sd_sdo,          \* the card's SPI pins
  read_state, write_state,                \* the two state machines
  bit_cnt, synced, sbuf, byte_cnt,        \* receiver
  cmd, cmd55, new_cmd_rcvd, lba,          \* the command being handled
  reply, reply_more,                      \* R1 and the bytes after it
  buffer, buffer_rptr, buffer_wptr,       \* the sector buffer
  buffer_dout, buffer_write_strobe,
  buffer_read_sector_done, buffer_read_ciscid_done,
  cid, csd, conf, csd_wptr,               \* configuration
  cid_byte, csd_byte,
  io_rd, io_wr,                           \* requests to the IO controller
  rd_io_ack_i, wr_io_ack_i,               \* "it has answered", as latched
  rd_io_ack, wr_io_ack,                   \* ... and in the card's clock domain
  io_cmd, io_strobe,                      \* user_io.v: selected command, strobe
  io_todo, io_addr, io_sector, io_idx,    \* the IO controller: see IoPoll
  io_config                               \* the configuration it uploads

pinVars   == <<sd_cs, sd_sck, sd_sdi>>
fsmVars   == <<read_state, write_state>>
shiftVars == <<bit_cnt, synced, sbuf>>
cmdVars   == <<byte_cnt, cmd, cmd55, lba, reply, reply_more>>
rdBufVars == <<buffer_rptr, buffer_dout, buffer_read_sector_done,
               buffer_read_ciscid_done, cid_byte, csd_byte>>
wrBufVars == <<buffer, buffer_wptr>>
confVars  == <<cid, csd, conf, csd_wptr>>
reqVars   == <<io_rd, io_wr>>
latchVars == <<rd_io_ack_i, wr_io_ack_i>>
syncVars  == <<rd_io_ack, wr_io_ack>>
ioVars    == <<io_cmd, io_strobe, io_todo, io_addr, io_sector, io_idx, io_config>>

\* Everything the card itself owns, and the whole state.
cardVars == <<sd_sdo, fsmVars, shiftVars, cmdVars, new_cmd_rcvd, rdBufVars,
              wrBufVars, buffer_write_strobe, confVars, reqVars, latchVars,
              syncVars>>
vars     == <<pinVars, cardVars, ioVars>>

-----------------------------------------------------------------------------
(* Wires *)

\* sd_ack: set by the command bytes 0x17 and 0x18, cleared when the IO
\* controller raises its chip select.
io_ack  == io_cmd \in {"RD", "WR"}
io_conf == csd_wptr = 0

\* io_din_strobe and io_dout_strobe: user_io.v raises one at the end of a byte
\* and lowers it with the first clock of the next one.
DinStrobeHigh  == io_strobe /\ io_cmd \in {"RD", "CONF"}
DoutStrobeHigh == io_strobe /\ io_cmd = "WR"

io_sdhc == AllowSdhc /\ conf

\* A 32 bit number is the sequence of its four bytes, the highest first.
\* Cards that are not SDHC are addressed in bytes, so lba is divided by 512.
Shift9(w) ==
  [i \in 1 .. 4 |-> IF i = 1 THEN 0
                    ELSE w[i - 1] \div 2 + IF i = 2 THEN 0 ELSE 128 * (w[i - 2] % 2)]
io_lba == IF io_sdhc THEN lba ELSE Shift9(lba)

Bit(byte) == (byte \div 2 ^ (7 - bit_cnt)) % 2

-----------------------------------------------------------------------------
(* The sector buffer: each engine reacts to a rising edge of its strobe,   *)
(* which is the OR of the card's strobe and the IO controller's: an edge   *)
(* of the one is lost while the other is high.                             *)

\* posedge buffer_dout_strobe
BufferRead ==
  /\ IF new_cmd_rcvd
       THEN /\ buffer_rptr' = 0
            /\ buffer_read_sector_done' = FALSE
            /\ buffer_read_ciscid_done' = FALSE
            /\ UNCHANGED buffer_dout
       ELSE /\ buffer_dout' = buffer[buffer_rptr]
            /\ buffer_rptr' = (buffer_rptr + 1) % SectorLen
            /\ buffer_read_sector_done' =
                 (buffer_read_sector_done \/ buffer_rptr = SectorLen - 1)
            /\ buffer_read_ciscid_done' =
                 (buffer_read_ciscid_done \/ buffer_rptr = CidLen - 1)
  /\ cid_byte' = cid[buffer_rptr % CidLen]
  /\ csd_byte' = csd[buffer_rptr % CidLen]

\* Mutant: a pointer with a bit too many.
BufferWriteOn(byte) ==
  IF new_cmd_rcvd
    THEN buffer_wptr' = 0 /\ UNCHANGED buffer
    ELSE buffer' = [buffer EXCEPT ![buffer_wptr] = byte] /\ buffer_wptr' = buffer_wptr + 1

\* posedge buffer_din_strobe
BufferWrite(byte) ==
  IF new_cmd_rcvd
    THEN buffer_wptr' = 0 /\ UNCHANGED buffer
    ELSE /\ buffer' = [buffer EXCEPT ![buffer_wptr] = byte]
         /\ buffer_wptr' = (buffer_wptr + 1) % SectorLen

-----------------------------------------------------------------------------
(* Transmitter: falling edges of sd_sck while the card is selected. *)

ReplySlot == byte_cnt = 5 + NCR

ReplyByte ==
  IF ReplySlot THEN reply
  ELSE IF byte_cnt - (5 + NCR) \in 1 .. Len(reply_more)
         THEN reply_more[byte_cnt - (5 + NCR)] ELSE 255

DataByte == CASE cmd = CMD17 -> buffer_dout
              [] cmd = CMD9  -> csd_byte
              [] cmd = CMD10 -> cid_byte
              [] OTHER       -> 255

\* A block being written goes before one being read.
TxByte == IF write_state = "BUSY" THEN 0
          ELSE IF write_state = "SEND_DRESP" THEN WRITE_DATA_RESPONSE
          ELSE CASE read_state = "SEND_TOKEN" -> READ_DATA_TOKEN
                 [] read_state = "SEND_DATA"  -> DataByte
                 [] OTHER                     -> ReplyByte

BlockSent == \/ cmd = CMD17 /\ buffer_read_sector_done
             \/ cmd \in {CMD9, CMD10} /\ buffer_read_ciscid_done

\* Mutant: the token is sent without waiting for the IO controller.
NextReadStateEager ==
  CASE read_state = "WAIT_IO"                  -> "SEND_TOKEN"
    [] read_state = "SEND_TOKEN"               -> "SEND_DATA"
    [] read_state = "SEND_DATA" /\ BlockSent   -> "IDLE"
    [] OTHER -> CASE ReplySlot /\ cmd \in {CMD9, CMD10} -> "SEND_TOKEN"
                  [] ReplySlot /\ cmd = CMD17           -> "WAIT_IO"
                  [] OTHER                              -> read_state

\* The state machine moves with the last bit of a byte.
NextReadState ==
  CASE read_state = "WAIT_IO" /\ rd_io_ack     -> "SEND_TOKEN"
    [] read_state = "SEND_TOKEN"               -> "SEND_DATA"
    [] read_state = "SEND_DATA" /\ BlockSent   -> "IDLE"
    [] OTHER -> CASE ReplySlot /\ cmd \in {CMD9, CMD10} -> "SEND_TOKEN"
                  [] ReplySlot /\ cmd = CMD17           -> "WAIT_IO"
                  [] OTHER                              -> read_state

TxLastBit ==
  LET reads == \/ read_state = "SEND_TOKEN"
               \/ read_state = "SEND_DATA" /\ ~BlockSent
  IN /\ read_state' = NextReadState
     /\ IF reads /\ ~DoutStrobeHigh THEN BufferRead ELSE UNCHANGED rdBufVars
     /\ io_rd' = IF ReplySlot /\ cmd = CMD17 THEN ~io_ack ELSE io_rd
     \* negedge rd_wait_io
     /\ rd_io_ack_i' = (rd_io_ack_i /\ NextReadState # "IDLE")

NegEdge ==
  /\ sd_sdo' = Bit(TxByte)
  /\ IF bit_cnt = 7
       THEN TxLastBit
       ELSE UNCHANGED <<read_state, rdBufVars, io_rd, rd_io_ack_i>>
  /\ UNCHANGED <<write_state, shiftVars, cmdVars, new_cmd_rcvd, wrBufVars,
                 buffer_write_strobe, confVars, io_wr, wr_io_ack_i, syncVars>>

-----------------------------------------------------------------------------
(* Receiver: rising edges of sd_sck. *)

\* Mutant: a command is taken during a transfer, too.
AcceptsAnyTime(byte) == byte_cnt > 5 /\ byte \div 64 = 1

\* A command is taken only between two transfers, and never in the six bytes
\* of the previous one.
Accepts(byte) ==
  /\ byte_cnt > 5
  /\ write_state = "IDLE" /\ read_state = "IDLE"
  /\ byte \div 64 = 1

\* The reply to the command, chosen with its last byte: R1, and what follows it.
Response ==
  CASE cmd \in {CMD0, CMD8, CMD55} -> 1
    [] cmd \in {CMD1, CMD9, CMD10, CMD17, CMD24, CMD58} -> 0
    [] cmd = CMD41 /\ cmd55 -> 0
    [] cmd = CMD16 -> IF io_lba = <<0, 0, 2, 0>> THEN 0 ELSE 64
    [] OTHER -> 4

MoreResponse ==
  CASE cmd = CMD8  -> <<0, 0, 1, 170>>
    [] cmd = CMD58 -> <<IF io_sdhc THEN 64 ELSE 0, 0, 0, 0>>
    [] OTHER       -> <<>>

\* Mutant: the card stops being busy before the sector is taken.
NextWriteStateEager(byte) ==
  CASE write_state = "EXP_DTOKEN" /\ byte = 254             -> "RECV_DATA"
    [] write_state = "RECV_DATA" /\ buffer_wptr = SectorLen - 1 -> "RECV_CRC0"
    [] write_state = "RECV_CRC0"                            -> "RECV_CRC1"
    [] write_state = "RECV_CRC1"                            -> "SEND_DRESP"
    [] write_state = "SEND_DRESP"                           -> "BUSY"
    [] write_state = "BUSY"                                 -> "IDLE"
    [] OTHER -> IF byte_cnt = 4 /\ cmd = CMD24 THEN "EXP_DTOKEN" ELSE write_state

NextWriteState(byte) ==
  CASE write_state = "EXP_DTOKEN" /\ byte = 254             -> "RECV_DATA"
    [] write_state = "RECV_DATA" /\ buffer_wptr = SectorLen - 1 -> "RECV_CRC0"
    [] write_state = "RECV_CRC0"                            -> "RECV_CRC1"
    [] write_state = "RECV_CRC1"                            -> "SEND_DRESP"
    [] write_state = "SEND_DRESP"                           -> "BUSY"
    [] write_state = "BUSY" /\ wr_io_ack                    -> "IDLE"
    [] OTHER -> IF byte_cnt = 4 /\ cmd = CMD24 THEN "EXP_DTOKEN" ELSE write_state

ByteReceived(byte) ==
  /\ IF Accepts(byte)
       THEN byte_cnt' = 0 /\ cmd' = byte /\ cmd55' = (cmd = CMD55)
       ELSE /\ byte_cnt' = IF byte_cnt = 15 THEN 15 ELSE byte_cnt + 1
            /\ UNCHANGED <<cmd, cmd55>>
  /\ new_cmd_rcvd' = Accepts(byte)
  /\ lba' = IF byte_cnt \in 0 .. 3 THEN [lba EXCEPT ![byte_cnt + 1] = byte] ELSE lba
  /\ IF byte_cnt = 4
       THEN reply' = Response /\ reply_more' = MoreResponse
       ELSE UNCHANGED <<reply, reply_more>>
  /\ write_state' = NextWriteState(byte)
  /\ io_wr' = IF write_state = "SEND_DRESP" THEN ~io_ack ELSE io_wr
  \* negedge wr_wait_io
  /\ wr_io_ack_i' = (wr_io_ack_i /\ NextWriteState(byte) = "BUSY")
  /\ buffer_write_strobe' = (write_state = "RECV_DATA")
  /\ CASE Accepts(byte) ->         \* posedge new_cmd_rcvd resets both engines
            /\ buffer_rptr' = 0 /\ buffer_wptr' = 0
            /\ buffer_read_sector_done' = FALSE /\ buffer_read_ciscid_done' = FALSE
            /\ UNCHANGED <<buffer, buffer_dout, cid_byte, csd_byte>>
       [] ~Accepts(byte) /\ write_state = "RECV_DATA" /\ ~DinStrobeHigh ->
            BufferWrite(byte) /\ UNCHANGED rdBufVars
       [] OTHER -> UNCHANGED <<rdBufVars, wrBufVars>>

\* Bits are counted from the first 0 after the card was selected.
PosEdge ==
  LET counts == synced \/ sd_sdi = 0
  IN /\ synced' = counts
     /\ bit_cnt' = IF counts THEN (bit_cnt + 1) % 8 ELSE bit_cnt
     /\ IF bit_cnt = 7
          THEN /\ ByteReceived(2 * sbuf + sd_sdi)
               /\ UNCHANGED sbuf
          ELSE /\ sbuf' = (2 * sbuf + sd_sdi) % 128
               /\ new_cmd_rcvd' = FALSE
               /\ buffer_write_strobe' = FALSE
               /\ UNCHANGED <<write_state, cmdVars, io_wr, wr_io_ack_i,
                              rdBufVars, wrBufVars>>
     /\ UNCHANGED <<sd_sdo, read_state, confVars, io_rd, rd_io_ack_i>>

-----------------------------------------------------------------------------
(* The host's pins. *)

SckRise ==
  /\ sd_sck = 0 /\ sd_sck' = 1
  /\ rd_io_ack' = rd_io_ack_i /\ wr_io_ack' = wr_io_ack_i
  /\ IF sd_cs = 0
       THEN PosEdge
       ELSE /\ bit_cnt' = 0 /\ synced' = FALSE
            /\ UNCHANGED <<sd_sdo, fsmVars, sbuf, cmdVars, new_cmd_rcvd,
                           rdBufVars, wrBufVars, buffer_write_strobe,
                           confVars, reqVars, latchVars>>
  /\ UNCHANGED <<sd_cs, sd_sdi, ioVars>>

SckFall(sdi) ==
  /\ sd_sck = 1 /\ sd_sck' = 0
  /\ sd_sdi' = sdi
  /\ IF sd_cs = 0 THEN NegEdge ELSE UNCHANGED cardVars
  /\ UNCHANGED <<sd_cs, ioVars>>

\* sd_sdi may also change while the clock is low.
SetSdi(sdi) ==
  /\ sd_sck = 0
  /\ sd_sdi' = sdi
  /\ UNCHANGED <<sd_cs, sd_sck, cardVars, ioVars>>

Select ==
  /\ sd_cs = 1 /\ sd_sck = 0 /\ sd_cs' = 0
  /\ UNCHANGED <<sd_sck, sd_sdi, cardVars, ioVars>>

\* posedge sd_cs resets the bit counter and the byte alignment, and nothing
\* else: a transfer under way goes on when the card is selected again.
Deselect(sdi) ==
  /\ sd_cs = 0 /\ sd_sck = 0 /\ sd_cs' = 1
  /\ sd_sdi' = sdi
  /\ bit_cnt' = 0 /\ synced' = FALSE
  /\ UNCHANGED <<sd_sck, sd_sdo, fsmVars, sbuf, cmdVars, new_cmd_rcvd,
                 rdBufVars, wrBufVars, buffer_write_strobe, confVars, reqVars,
                 latchVars, syncVars, ioVars>>

-----------------------------------------------------------------------------
(* The IO controller.  Its firmware is not part of the repository; what    *)
(* follows is the protocol user_io.v offers it: read the status byte and   *)
(* the sector number (command 0x16), then serve what they ask for, in any  *)
(* order, with one command per transfer.                                   *)

IoPoll ==
  /\ io_cmd = "none" /\ io_todo = {}
  /\ io_conf \/ io_wr \/ io_rd       \* a poll that finds nothing is no step
  /\ io_todo' = (IF io_conf THEN {"CONF"} ELSE {})
           \cup (IF io_wr   THEN {"WR"}   ELSE {})
           \cup (IF io_rd   THEN {"RD"}   ELSE {})
  /\ io_addr' = io_lba
  /\ UNCHANGED <<pinVars, cardVars, io_cmd, io_strobe, io_sector, io_idx, io_config>>

IoLen == IF io_cmd = "CONF" THEN 2 * CidLen + 1 ELSE SectorLen

\* Mutant: the IO controller's answer does not clear the requests.
TakeNothing == UNCHANGED reqVars

\* posedge io_ack (commands 0x17 and 0x18) clears both requests.
TakeRequest == io_rd' = FALSE /\ io_wr' = FALSE

IoBeginConfig ==
  /\ io_cmd = "none" /\ "CONF" \in io_todo
  /\ io_cmd' = "CONF" /\ io_idx' = 0
  /\ UNCHANGED <<pinVars, cardVars, io_strobe, io_todo, io_addr, io_sector, io_config>>

IoBeginRead(sector) ==
  /\ io_cmd = "none" /\ "RD" \in io_todo
  /\ io_cmd' = "RD" /\ io_idx' = 0 /\ io_sector' = sector
  /\ TakeRequest
  /\ UNCHANGED <<pinVars, sd_sdo, fsmVars, shiftVars, cmdVars, new_cmd_rcvd,
                 rdBufVars, wrBufVars, buffer_write_strobe, confVars, latchVars,
                 syncVars, io_strobe, io_todo, io_addr, io_config>>

\* The command byte 0x18 fetches the first byte of the sector already.
IoBeginWrite ==
  /\ io_cmd = "none" /\ "WR" \in io_todo
  /\ io_cmd' = "WR" /\ io_idx' = 0 /\ io_strobe' = TRUE
  /\ TakeRequest
  /\ BufferRead
  /\ UNCHANGED <<pinVars, sd_sdo, fsmVars, shiftVars, cmdVars, new_cmd_rcvd,
                 wrBufVars, buffer_write_strobe, confVars, latchVars, syncVars,
                 io_todo, io_addr, io_sector, io_config>>

\* The first clock of the next byte lowers the strobe.
IoShift ==
  /\ io_strobe /\ io_idx < IoLen
  /\ io_strobe' = FALSE
  /\ UNCHANGED <<pinVars, cardVars, io_cmd, io_todo, io_addr, io_sector, io_idx, io_config>>

\* Mutant: bytes of a sector are taken for configuration, too.
IsConfigAny == TRUE

\* Comment at line 192: data sent without io_ack updates the configuration.
IsConfig == ~io_ack

\* CID, CSD and one flag byte, each in its place, and nothing after them.
ConfigWrite(byte) ==
  IF csd_wptr <= 2 * CidLen
    THEN /\ csd_wptr' = csd_wptr + 1
         /\ cid' = IF csd_wptr < CidLen
                     THEN [cid EXCEPT ![csd_wptr] = byte] ELSE cid
         /\ csd' = IF csd_wptr \in CidLen .. 2 * CidLen - 1
                     THEN [csd EXCEPT ![csd_wptr % CidLen] = byte] ELSE csd
         /\ conf' = IF csd_wptr = 2 * CidLen THEN byte % 2 = 1 ELSE conf
    ELSE UNCHANGED confVars

\* posedge io_din_strobe.  The buffer's write engine does not look at io_ack,
\* and takes io_din for its input only during CMD17.
IoDinByte(byte) ==
  /\ io_cmd \in {"RD", "CONF"} /\ ~io_strobe /\ io_idx < IoLen
  /\ io_strobe' = TRUE /\ io_idx' = io_idx + 1
  /\ IF buffer_write_strobe
       THEN UNCHANGED wrBufVars
       ELSE BufferWrite(IF cmd = CMD17 THEN byte ELSE 2 * sbuf + sd_sdi)
  /\ IF IsConfig THEN ConfigWrite(byte) ELSE UNCHANGED confVars
  /\ UNCHANGED <<pinVars, sd_sdo, fsmVars, shiftVars, cmdVars, new_cmd_rcvd,
                 rdBufVars, buffer_write_strobe, reqVars, latchVars, syncVars,
                 io_cmd, io_todo, io_addr, io_sector, io_config>>

IoReadByte   == io_cmd = "RD" /\ IoDinByte(io_sector[io_idx])
IoConfigByte == io_cmd = "CONF" /\ IoDinByte(io_config[io_idx])

\* The byte shifted out is the one fetched before; its end fetches the next.
IoWriteByte ==
  /\ io_cmd = "WR" /\ ~io_strobe /\ io_idx < IoLen
  /\ io_strobe' = TRUE /\ io_idx' = io_idx + 1
  /\ io_sector' = [io_sector EXCEPT ![io_idx] = buffer_dout]
  /\ BufferRead
  /\ UNCHANGED <<pinVars, sd_sdo, fsmVars, shiftVars, cmdVars, new_cmd_rcvd,
                 wrBufVars, buffer_write_strobe, confVars, reqVars, latchVars,
                 syncVars, io_cmd, io_todo, io_addr, io_config>>

\* Mutant: the end of the transfer is not latched.
IoEndUnlatched ==
  /\ io_cmd # "none" /\ io_idx = IoLen
  /\ io_cmd' = "none" /\ io_strobe' = FALSE /\ io_idx' = 0
  /\ io_todo' = io_todo \ {io_cmd}
  /\ UNCHANGED <<pinVars, cardVars, io_addr, io_sector, io_config>>

\* The IO controller raises its chip select: the strobes fall, and a falling
\* io_ack tells the waiting state machine that its sector has been handled.
IoEnd ==
  /\ io_cmd # "none" /\ io_idx = IoLen
  /\ io_cmd' = "none" /\ io_strobe' = FALSE /\ io_idx' = 0
  /\ io_todo' = io_todo \ {io_cmd}
  /\ IF io_ack
       THEN /\ rd_io_ack_i' = (read_state # "IDLE")
            /\ wr_io_ack_i' = (write_state = "BUSY")
       ELSE UNCHANGED latchVars
  /\ UNCHANGED <<pinVars, sd_sdo, fsmVars, shiftVars, cmdVars, new_cmd_rcvd,
                 rdBufVars, wrBufVars, buffer_write_strobe, confVars, reqVars,
                 syncVars, io_addr, io_sector, io_config>>

-----------------------------------------------------------------------------
(* Specification *)

Init ==
  /\ sd_cs = 1 /\ sd_sck = 0 /\ sd_sdi = 1 /\ sd_sdo = 1
  /\ read_state = "IDLE" /\ write_state = "IDLE"
  /\ bit_cnt = 0 /\ synced = FALSE /\ sbuf = 0 /\ byte_cnt = 15
  /\ cmd = 0 /\ cmd55 = FALSE /\ new_cmd_rcvd = FALSE
  /\ lba = [i \in 1 .. 4 |-> 0] /\ reply = 0 /\ reply_more = <<>>
  /\ buffer = [i \in 0 .. SectorLen - 1 |-> 0]
  /\ buffer_rptr = 0 /\ buffer_wptr = 0 /\ buffer_dout = 0
  /\ buffer_write_strobe = FALSE
  /\ buffer_read_sector_done = FALSE /\ buffer_read_ciscid_done = FALSE
  /\ io_config \in Configs
  /\ cid = [i \in 0 .. CidLen - 1 |-> IF Configured THEN io_config[i] ELSE 0]
  /\ csd = [i \in 0 .. CidLen - 1 |-> IF Configured THEN io_config[CidLen + i] ELSE 0]
  /\ cid_byte = 0 /\ csd_byte = 0
  /\ csd_wptr = IF Configured THEN 2 * CidLen + 1 ELSE 0
  /\ conf = (Configured /\ io_config[2 * CidLen] % 2 = 1)
  /\ io_rd = FALSE /\ io_wr = FALSE
  /\ rd_io_ack_i = FALSE /\ wr_io_ack_i = FALSE
  /\ rd_io_ack = FALSE /\ wr_io_ack = FALSE
  /\ io_cmd = "none" /\ io_strobe = FALSE /\ io_todo = {}
  /\ io_addr = [i \in 1 .. 4 |-> 0] /\ io_sector \in Sectors /\ io_idx = 0

IoNext ==
  \/ IoPoll \/ IoBeginConfig \/ IoBeginWrite
  \/ \E sector \in Sectors : IoBeginRead(sector)
  \/ IoShift \/ IoReadByte \/ IoConfigByte \/ IoWriteByte \/ IoEnd

CleanDeselect ==
  bit_cnt = 0 \/ (read_state = "IDLE" /\ write_state = "IDLE") \/ MidByteDeselect

HostNext ==
  \/ SckRise \/ Select
  \/ \E sdi \in {0, 1} :
       \/ SckFall(sdi) \/ SetSdi(sdi)
       \/ CleanDeselect /\ Deselect(sdi)

Next == HostNext \/ IoNext

Spec == Init /\ [][Next]_vars

-----------------------------------------------------------------------------
(* Properties *)

Word == [1 .. 4 -> Byte]

\* Every register holds a value of its width.
TypeOK ==
  /\ sd_cs \in {0, 1} /\ sd_sck \in {0, 1} /\ sd_sdi \in {0, 1} /\ sd_sdo \in {0, 1}
  /\ read_state \in ReadStates /\ write_state \in WriteStates
  /\ bit_cnt \in 0 .. 7 /\ synced \in BOOLEAN /\ sbuf \in 0 .. 127
  /\ byte_cnt \in 0 .. 15 /\ cmd \in Byte
  /\ cmd55 \in BOOLEAN /\ new_cmd_rcvd \in BOOLEAN
  /\ lba \in Word /\ reply \in Byte /\ reply_more \in Seq(Byte)
  /\ buffer \in [0 .. SectorLen - 1 -> Byte]
  /\ buffer_rptr \in 0 .. SectorLen - 1 /\ buffer_wptr \in 0 .. SectorLen - 1
  /\ buffer_dout \in Byte /\ buffer_write_strobe \in BOOLEAN
  /\ buffer_read_sector_done \in BOOLEAN /\ buffer_read_ciscid_done \in BOOLEAN
  /\ cid \in [0 .. CidLen - 1 -> Byte] /\ csd \in [0 .. CidLen - 1 -> Byte]
  /\ cid_byte \in Byte /\ csd_byte \in Byte
  /\ conf \in BOOLEAN /\ csd_wptr \in 0 .. 2 * CidLen + 1
  /\ io_rd \in BOOLEAN /\ io_wr \in BOOLEAN
  /\ rd_io_ack_i \in BOOLEAN /\ wr_io_ack_i \in BOOLEAN
  /\ rd_io_ack \in BOOLEAN /\ wr_io_ack \in BOOLEAN
  /\ io_cmd \in IoCommands /\ io_strobe \in BOOLEAN
  /\ io_todo \subseteq {"CONF", "WR", "RD"} /\ io_addr \in Word
  /\ io_sector \in [0 .. SectorLen - 1 -> Byte] /\ io_idx \in 0 .. IoLen
  /\ io_config \in Configs

Sending == read_state \in {"SEND_TOKEN", "SEND_DATA"} /\ cmd = CMD17
Serving == io_cmd \in {"RD", "WR"}

\* At most one transfer is under way, and a request to the IO controller is
\* raised only by the state machine that waits for its answer: the latches
\* io_rd and io_wr, cleared in another clock domain, never outlive the wait.
OneTransfer ==
  /\ read_state = "IDLE" \/ write_state = "IDLE"
  /\ io_rd => read_state = "WAIT_IO"
  /\ io_wr => write_state = "BUSY"

\* A sector is sent to the host only when all of it has come from the IO
\* controller, and it is still in the buffer as it came.
SentSector == Sending => ~io_rd /\ io_cmd # "RD" /\ buffer = io_sector

\* The IO controller fetches a sector while the card is busy with it, and what
\* it has fetched is what the buffer holds; the card is told that the sector
\* was taken only after the whole of it was.
FetchedSector ==
  /\ io_cmd = "WR" => /\ write_state = "BUSY"
                      /\ \A i \in 0 .. io_idx - 1 : io_sector[i] = buffer[i]
  /\ wr_io_ack_i => io_sector = buffer

\* The sector served is the one the host asked for: the number read in the
\* poll is the card's io_lba for as long as the transfer takes.
ServedAddress == Serving => io_addr = io_lba

\* Comment at line 53: io_rd is set once the read state machine starts waiting,
\* and cleared by the upload.  So a request is raised once per transfer.
RaisedOnce == [][~io_rd /\ io_rd' => read_state = "IDLE" /\ read_state' = "WAIT_IO"]_vars

\* The upload is told from a sector by io_ack alone.  In whatever order the IO
\* controller serves the two, and whatever commands come meanwhile, cid, csd and
\* conf hold what it has uploaded, byte for byte, and no byte of a sector; an
\* upload that has ended was taken to its last byte.
UploadPlace == IF io_cmd = "CONF" THEN csd_wptr = io_idx ELSE csd_wptr \in {0, 2 * CidLen + 1}
UploadStored ==
  /\ \A i \in 0 .. CidLen - 1 :
       /\ i < csd_wptr => cid[i] = io_config[i]
       /\ CidLen + i < csd_wptr => csd[i] = io_config[CidLen + i]
  /\ 2 * CidLen < csd_wptr => conf = (io_config[2 * CidLen] % 2 = 1)
WholeConfig == UploadPlace /\ UploadStored

=============================================================================
