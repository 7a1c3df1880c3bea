---------------------------- MODULE SdCardProofs ----------------------------
(***************************************************************************)
(* Theorems about SdCard, for every length of the sector and of the CID,   *)
(* every contents, and every host SdCard allows.                           *)
(***************************************************************************)
EXTENDS SdCard, TLAPS, SequenceTheorems

-----------------------------------------------------------------------------
(* Arithmetic of bits and bytes *)

\* A remainder is smaller than the divisor.
LEMMA Remainder ==
  ASSUME NEW x \in Nat, NEW n \in Nat \ {0}
  PROVE  x % n \in 0 .. n - 1
  OBVIOUS

\* The remainders of one round after the first.
LEMMA SecondRound ==
  ASSUME NEW n \in Nat \ {0}, NEW i \in 0 .. n - 1
  PROVE  (n + i) % n = i
  <1>1. n + i = n * 1 + i /\ 0 <= i /\ i < n
    OBVIOUS
  <1> QED BY <1>1, SMTT(30)

\* The two lengths are positive.
LEMMA Lengths == SectorLen \in Nat \ {0} /\ CidLen \in Nat \ {0}
  BY CardAssumption

\* What may stand under a division.
Positive == Nat \ {0}

\* The weights of the bits of a byte are positive.
LEMMA Weight ==
  ASSUME NEW n \in 0 .. 7
  PROVE  2 ^ (7 - n) \in Positive
  <1>1. /\ 2 ^ 0 \in Positive /\ 2 ^ 1 \in Positive /\ 2 ^ 2 \in Positive
        /\ 2 ^ 3 \in Positive /\ 2 ^ 4 \in Positive /\ 2 ^ 5 \in Positive
        /\ 2 ^ 6 \in Positive /\ 2 ^ 7 \in Positive
    BY DEF Positive
  <1>2. \A k \in 0 .. 7 :
          \/ k = 0 \/ k = 1 \/ k = 2 \/ k = 3 \/ k = 4 \/ k = 5 \/ k = 6 \/ k = 7
    OBVIOUS
  <1>3. \A k \in 0 .. 7 : 2 ^ k \in Positive  BY <1>1, <1>2, Zenon
  <1>4. 7 - n \in 0 .. 7  OBVIOUS
  <1> QED BY <1>3, <1>4, Zenon

\* What the transmitter puts on the line is a bit.
LEMMA BitType ==
  ASSUME bit_cnt \in 0 .. 7, NEW byte \in Byte
  PROVE  Bit(byte) \in {0, 1}
  <1>1. 2 ^ (7 - bit_cnt) \in Positive  BY Weight
  <1>2. ASSUME NEW d \in Positive PROVE (byte \div d) % 2 \in {0, 1}
    BY DEF Byte, Positive
  <1> QED BY <1>1, <1>2 DEF Bit

\* The sector number handed to the IO controller is a word.
LEMMA IoLbaType ==
  ASSUME lba \in Word
  PROVE  io_lba \in Word
  <1>1. Shift9(lba) \in Word
    <2>1. ASSUME NEW i \in 1 .. 4
          PROVE  (IF i = 1 THEN 0
                  ELSE lba[i - 1] \div 2 + IF i = 2 THEN 0 ELSE 128 * (lba[i - 2] % 2)) \in Byte
      <3>1. CASE i = 1  BY <3>1 DEF Byte
      <3>2. CASE i = 2  BY <3>2 DEF Word, Byte
      <3>3. CASE i \in {3, 4}
        <4>1. lba[i - 1] \in Byte /\ lba[i - 2] \in Byte  BY <3>3 DEF Word
        <4> QED BY <3>3, <4>1 DEF Byte
      <3> QED BY <3>1, <3>2, <3>3
    <2> QED BY <2>1 DEF Shift9, Word
  <1> QED BY <1>1 DEF io_lba

-----------------------------------------------------------------------------
(* Type correctness *)

\* Both ends of the sector buffer, as TypeOK has them.
ReadEndOK ==
  /\ buffer_rptr \in 0 .. SectorLen - 1 /\ buffer_dout \in Byte
  /\ buffer_read_sector_done \in BOOLEAN /\ buffer_read_ciscid_done \in BOOLEAN
  /\ cid_byte \in Byte /\ csd_byte \in Byte

WriteEndOK ==
  buffer \in [0 .. SectorLen - 1 -> Byte] /\ buffer_wptr \in 0 .. SectorLen - 1

\* Both engines keep their end of the buffer within its type.
LEMMA BufferReadType ==
  ASSUME TypeOK, BufferRead
  PROVE  ReadEndOK'
  <1>1. buffer_rptr' \in 0 .. SectorLen - 1
    <2>1. buffer_rptr + 1 \in Int /\ buffer_rptr \in 0 .. SectorLen - 1 /\ SectorLen \in Nat \ {0}
      BY Lengths DEF TypeOK
    <2>2. (buffer_rptr + 1) % SectorLen \in 0 .. SectorLen - 1
      BY ONLY <2>1, Remainder
    <2> QED BY <2>1, <2>2 DEF BufferRead
  <1>2. cid_byte' \in Byte /\ csd_byte' \in Byte
    <2>1. buffer_rptr % CidLen \in 0 .. CidLen - 1
      BY Lengths, Remainder DEF TypeOK
    <2>2. /\ cid \in [0 .. CidLen - 1 -> Byte] /\ csd \in [0 .. CidLen - 1 -> Byte]
          /\ cid_byte' = cid[buffer_rptr % CidLen] /\ csd_byte' = csd[buffer_rptr % CidLen]
      <3>1. cid \in [0 .. CidLen - 1 -> Byte] /\ csd \in [0 .. CidLen - 1 -> Byte]
        BY DEF TypeOK
      <3> QED BY <3>1 DEF BufferRead
    <2> QED BY <2>1, <2>2
  <1>3. /\ buffer_dout' \in Byte
        /\ buffer_read_sector_done' \in BOOLEAN /\ buffer_read_ciscid_done' \in BOOLEAN
    <2>1. /\ buffer \in [0 .. SectorLen - 1 -> Byte] /\ buffer_rptr \in 0 .. SectorLen - 1
          /\ buffer_dout \in Byte
          /\ buffer_read_sector_done \in BOOLEAN /\ buffer_read_ciscid_done \in BOOLEAN
      BY DEF TypeOK
    <2>2. buffer_dout' \in Byte
      BY <2>1 DEF BufferRead
    <2>3. buffer_read_sector_done' \in BOOLEAN /\ buffer_read_ciscid_done' \in BOOLEAN
      BY <2>1 DEF BufferRead
    <2> QED BY <2>2, <2>3
  <1> QED BY <1>1, <1>2, <1>3 DEF ReadEndOK

\* The write engine keeps the buffer a buffer and its pointer inside it.
LEMMA BufferWriteType ==
  ASSUME TypeOK, NEW byte \in Byte, BufferWrite(byte)
  PROVE  WriteEndOK'
  <1>1. (buffer_wptr + 1) % SectorLen \in 0 .. SectorLen - 1
    BY Lengths, Remainder DEF TypeOK
  <1> QED BY <1>1, Lengths DEF BufferWrite, TypeOK, WriteEndOK

\* The reply to any command is one byte, and what follows it is bytes.
LEMMA ResponseType ==
  ASSUME TypeOK
  PROVE  Response \in Byte /\ MoreResponse \in Seq(Byte)
  <1>1. /\ <<>> \in Seq(Byte) /\ <<0, 0, 1, 170>> \in Seq(Byte)
        /\ <<0, 0, 0, 0>> \in Seq(Byte) /\ <<64, 0, 0, 0>> \in Seq(Byte)
    BY DEF Byte
  <1>2. MoreResponse \in Seq(Byte)  BY <1>1 DEF MoreResponse
  <1>3. Response \in Byte  BY DEF Response, Byte
  <1> QED BY <1>2, <1>3

\* A configuration byte keeps the CID, the CSD and their pointer within their bounds.
LEMMA ConfigWriteType ==
  ASSUME TypeOK, NEW byte \in Byte, ConfigWrite(byte)
  PROVE  /\ cid' \in [0 .. CidLen - 1 -> Byte] /\ csd' \in [0 .. CidLen - 1 -> Byte]
         /\ conf' \in BOOLEAN /\ csd_wptr' \in 0 .. 2 * CidLen + 1
  <1>1. CASE csd_wptr > 2 * CidLen
    BY <1>1, Lengths DEF ConfigWrite, TypeOK, confVars
  <1>2. CASE csd_wptr <= 2 * CidLen
    <2>1. csd_wptr % CidLen \in 0 .. CidLen - 1
      BY Lengths, Remainder DEF TypeOK
    <2>2. cid' \in [0 .. CidLen - 1 -> Byte]
      <3>1. /\ cid \in [0 .. CidLen - 1 -> Byte]
            /\ cid' = cid \/ cid' = [cid EXCEPT ![csd_wptr] = byte]
        BY <1>2 DEF ConfigWrite, TypeOK
      <3> QED BY <3>1
    <2>3. csd' \in [0 .. CidLen - 1 -> Byte]
      <3>1. /\ csd \in [0 .. CidLen - 1 -> Byte]
            /\ csd' = csd \/ csd' = [csd EXCEPT ![csd_wptr % CidLen] = byte]
        BY <1>2 DEF ConfigWrite, TypeOK
      <3> QED BY <3>1
    <2>4. csd_wptr' \in 0 .. 2 * CidLen + 1
      BY <1>2, Lengths DEF ConfigWrite, TypeOK
    <2>5. conf' \in BOOLEAN
      <3>1. conf \in BOOLEAN  BY DEF TypeOK
      <3> QED BY <1>2, <3>1, Zenon DEF ConfigWrite
    <2> QED BY <2>2, <2>3, <2>4, <2>5
  <1> QED BY <1>1, <1>2, Lengths DEF TypeOK

\* The byte that comes in on the card's line.
LEMMA SbufType ==
  ASSUME TypeOK
  PROVE  2 * sbuf + sd_sdi \in Byte /\ (2 * sbuf + sd_sdi) % 128 \in 0 .. 127
  BY DEF TypeOK, Byte

\* Whatever the state machines are doing, the transmitter sends a byte.
LEMMA TxByteType ==
  ASSUME TypeOK
  PROVE  TxByte \in Byte
  <1>1. ReplyByte \in Byte
    <2>1. ASSUME byte_cnt - (5 + NCR) \in 1 .. Len(reply_more)
          PROVE  reply_more[byte_cnt - (5 + NCR)] \in Byte
      BY <2>1, ElementOfSeq DEF TypeOK
    <2> QED BY <2>1 DEF TypeOK, ReplyByte, Byte
  <1>2. DataByte \in Byte  BY DEF TypeOK, DataByte, Byte
  <1> QED BY <1>1, <1>2 DEF TxByte, WRITE_DATA_RESPONSE, READ_DATA_TOKEN, Byte

\* The power-on values are of the right widths.
LEMMA InitType == Init => TypeOK
  <1> SUFFICES ASSUME Init PROVE TypeOK  OBVIOUS
  <1>1. /\ buffer \in [0 .. SectorLen - 1 -> Byte]
        /\ cid \in [0 .. CidLen - 1 -> Byte] /\ csd \in [0 .. CidLen - 1 -> Byte]
        /\ lba \in Word /\ io_addr \in Word
    <2>1. io_config \in [0 .. 2 * CidLen -> Byte]  BY CardAssumption DEF Init
    <2>2. ASSUME NEW i \in 0 .. CidLen - 1
          PROVE  io_config[i] \in Byte /\ io_config[CidLen + i] \in Byte
      <3>1. i \in 0 .. 2 * CidLen /\ CidLen + i \in 0 .. 2 * CidLen  BY Lengths
      <3> QED BY <2>1, <3>1
    <2>3. cid \in [0 .. CidLen - 1 -> Byte] /\ csd \in [0 .. CidLen - 1 -> Byte]
      <3>1. /\ cid = [i \in 0 .. CidLen - 1 |-> IF Configured THEN io_config[i] ELSE 0]
            /\ csd = [i \in 0 .. CidLen - 1 |-> IF Configured THEN io_config[CidLen + i] ELSE 0]
        BY DEF Init
      <3>2. 0 \in Byte  BY DEF Byte
      <3> QED BY ONLY <2>2, <3>1, <3>2
    <2>4. buffer \in [0 .. SectorLen - 1 -> Byte] /\ lba \in Word /\ io_addr \in Word
      BY DEF Init, Word, Byte
    <2> QED BY <2>3, <2>4
  <1>2. io_sector \in [0 .. SectorLen - 1 -> Byte] /\ io_config \in Configs
    BY CardAssumption DEF Init
  <1>3. csd_wptr \in 0 .. 2 * CidLen + 1
    BY CardAssumption DEF Init
  <1>6. conf \in BOOLEAN
    BY Zenon DEF Init
  <1>4. reply_more \in Seq(Byte)  BY DEF Init
  <1>5. 0 \in 0 .. SectorLen - 1 /\ 0 \in 0 .. IoLen
    BY Lengths DEF Init, IoLen
  <1>7. /\ read_state \in ReadStates /\ write_state \in WriteStates
        /\ io_cmd \in IoCommands /\ io_todo \subseteq {"CONF", "WR", "RD"}
    BY DEF Init, ReadStates, WriteStates, IoCommands
  <1>8. /\ synced \in BOOLEAN /\ cmd55 \in BOOLEAN /\ new_cmd_rcvd \in BOOLEAN
        /\ buffer_write_strobe \in BOOLEAN /\ buffer_read_sector_done \in BOOLEAN
        /\ buffer_read_ciscid_done \in BOOLEAN /\ io_rd \in BOOLEAN /\ io_wr \in BOOLEAN
        /\ rd_io_ack_i \in BOOLEAN /\ wr_io_ack_i \in BOOLEAN
        /\ rd_io_ack \in BOOLEAN /\ wr_io_ack \in BOOLEAN /\ io_strobe \in BOOLEAN
    BY DEF Init
  <1>9. /\ sd_cs \in {0, 1} /\ sd_sck \in {0, 1} /\ sd_sdi \in {0, 1} /\ sd_sdo \in {0, 1}
        /\ bit_cnt \in 0 .. 7 /\ sbuf \in 0 .. 127 /\ byte_cnt \in 0 .. 15
        /\ cmd \in Byte /\ reply \in Byte /\ buffer_dout \in Byte
        /\ cid_byte \in Byte /\ csd_byte \in Byte
    BY DEF Init, Byte
  <1>10. /\ buffer_rptr \in 0 .. SectorLen - 1 /\ buffer_wptr \in 0 .. SectorLen - 1
         /\ io_idx \in 0 .. IoLen
    BY <1>5 DEF Init
  <1> QED
    BY <1>1, <1>2, <1>3, <1>4, <1>6, <1>7, <1>8, <1>9, <1>10 DEF TypeOK

\* Lemmas on the two edges of the clock leave the pins and the IO controller
\* aside: the actions treat them in different ways.
PinsOK == sd_cs \in {0, 1} /\ sd_sck \in {0, 1} /\ sd_sdi \in {0, 1}

IoOK ==
  /\ io_cmd \in IoCommands /\ io_strobe \in BOOLEAN
  /\ io_todo \subseteq {"CONF", "WR", "RD"} /\ io_addr \in Word
  /\ io_sector \in [0 .. SectorLen - 1 -> Byte] /\ io_idx \in 0 .. IoLen
  /\ io_config \in Configs

FsmOK    == read_state \in ReadStates /\ write_state \in WriteStates
SerialOK == bit_cnt \in 0 .. 7 /\ synced \in BOOLEAN /\ sbuf \in 0 .. 127
CmdOK ==
  /\ byte_cnt \in 0 .. 15 /\ cmd \in Byte /\ cmd55 \in BOOLEAN
  /\ lba \in Word /\ reply \in Byte /\ reply_more \in Seq(Byte)
ConfOK ==
  /\ cid \in [0 .. CidLen - 1 -> Byte] /\ csd \in [0 .. CidLen - 1 -> Byte]
  /\ conf \in BOOLEAN /\ csd_wptr \in 0 .. 2 * CidLen + 1
ReqOK   == io_rd \in BOOLEAN /\ io_wr \in BOOLEAN
LatchOK == rd_io_ack_i \in BOOLEAN /\ wr_io_ack_i \in BOOLEAN
SyncOK  == rd_io_ack \in BOOLEAN /\ wr_io_ack \in BOOLEAN
StrobesOK == new_cmd_rcvd \in BOOLEAN /\ buffer_write_strobe \in BOOLEAN

CardOK ==
  /\ sd_sdo \in {0, 1} /\ FsmOK /\ SerialOK /\ CmdOK /\ StrobesOK /\ ReadEndOK
  /\ WriteEndOK /\ ConfOK /\ ReqOK /\ LatchOK /\ SyncOK

\* TypeOK is the conjunction of the types of the host's pins, the card and the IO controller ...
LEMMA TypeParts == TypeOK => PinsOK /\ CardOK /\ IoOK
  BY DEF TypeOK, PinsOK, CardOK, IoOK, FsmOK, SerialOK, CmdOK, ConfOK, ReqOK,
     LatchOK, SyncOK, StrobesOK, ReadEndOK, WriteEndOK

\* ... and so it is in the next state.
LEMMA TypePartsNext == (PinsOK /\ CardOK /\ IoOK)' => TypeOK'
  BY DEF TypeOK, PinsOK, CardOK, IoOK, IoLen, FsmOK, SerialOK, CmdOK, ConfOK, ReqOK,
     LatchOK, SyncOK, StrobesOK, ReadEndOK, WriteEndOK

\* A group of registers that a step leaves alone keeps its type.
LEMMA SameParts ==
  ASSUME TypeOK
  PROVE  /\ UNCHANGED pinVars   => PinsOK'
         /\ UNCHANGED fsmVars   => FsmOK'
         /\ UNCHANGED shiftVars => SerialOK'
         /\ UNCHANGED cmdVars   => CmdOK'
         /\ UNCHANGED rdBufVars => ReadEndOK'
         /\ UNCHANGED wrBufVars => WriteEndOK'
         /\ UNCHANGED confVars  => ConfOK'
         /\ UNCHANGED reqVars   => ReqOK'
         /\ UNCHANGED latchVars => LatchOK'
         /\ UNCHANGED syncVars  => SyncOK'
         /\ UNCHANGED ioVars    => IoOK'
         /\ UNCHANGED <<new_cmd_rcvd, buffer_write_strobe>> => StrobesOK'
  <1>1. PinsOK /\ CardOK /\ IoOK  BY TypeParts
  <1>2. UNCHANGED pinVars => PinsOK'  BY <1>1 DEF PinsOK, pinVars
  <1>3. UNCHANGED fsmVars => FsmOK'  BY <1>1 DEF CardOK, FsmOK, fsmVars
  <1>4. UNCHANGED shiftVars => SerialOK'  BY <1>1 DEF CardOK, SerialOK, shiftVars
  <1>5. UNCHANGED cmdVars => CmdOK'  BY <1>1 DEF CardOK, CmdOK, cmdVars
  <1>6. UNCHANGED rdBufVars => ReadEndOK'  BY <1>1 DEF CardOK, ReadEndOK, rdBufVars
  <1>7. UNCHANGED wrBufVars => WriteEndOK'  BY <1>1 DEF CardOK, WriteEndOK, wrBufVars
  <1>8. UNCHANGED confVars => ConfOK'  BY <1>1 DEF CardOK, ConfOK, confVars
  <1>9. UNCHANGED reqVars => ReqOK'  BY <1>1 DEF CardOK, ReqOK, reqVars
  <1>10. UNCHANGED latchVars => LatchOK'  BY <1>1 DEF CardOK, LatchOK, latchVars
  <1>11. UNCHANGED syncVars => SyncOK'  BY <1>1 DEF CardOK, SyncOK, syncVars
  <1>12. UNCHANGED ioVars => IoOK'  BY <1>1 DEF IoOK, IoLen, ioVars
  <1>13. UNCHANGED <<new_cmd_rcvd, buffer_write_strobe>> => StrobesOK'
    BY <1>1 DEF CardOK, StrobesOK
  <1> QED BY <1>2, <1>3, <1>4, <1>5, <1>6, <1>7, <1>8, <1>9, <1>10, <1>11, <1>12, <1>13

\* A step that leaves the card alone keeps the types of its registers.
LEMMA SameCard ==
  ASSUME TypeOK, UNCHANGED cardVars
  PROVE  CardOK'
  <1>1. sd_sdo' \in {0, 1}  BY DEF TypeOK, cardVars
  <1>2. UNCHANGED <<fsmVars, shiftVars, cmdVars, rdBufVars, wrBufVars, confVars, reqVars,
                    latchVars, syncVars, new_cmd_rcvd, buffer_write_strobe>>
    BY DEF cardVars
  <1> QED BY <1>1, <1>2, SameParts DEF CardOK

\* The transmitter, on a falling edge, keeps the card's registers within their widths.
LEMMA NegEdgeType ==
  ASSUME TypeOK, NegEdge
  PROVE  CardOK'
  <1>1. sd_sdo' \in {0, 1}
    BY BitType, TxByteType DEF NegEdge, TypeOK
  <1>2. read_state' \in ReadStates /\ ReadEndOK' /\ io_rd' \in BOOLEAN /\ rd_io_ack_i' \in BOOLEAN
    <2>1. CASE bit_cnt = 7
      <3>1. TxLastBit  BY <2>1 DEF NegEdge
      <3>2. read_state' \in ReadStates
        BY <3>1 DEF TypeOK, TxLastBit, NextReadState, ReadStates
      <3>3. ReadEndOK'
        BY <3>1, BufferReadType, SameParts DEF TxLastBit
      <3>4. io_rd' \in BOOLEAN  BY <3>1, Zenon DEF TxLastBit, TypeOK
      <3>5. rd_io_ack_i' \in BOOLEAN  BY <3>1, Zenon DEF TxLastBit
      <3> QED BY <3>2, <3>3, <3>4, <3>5
    <2>2. CASE bit_cnt # 7
      BY <2>2, SameParts DEF NegEdge, TypeOK
    <2> QED BY <2>1, <2>2
  <1>3. FsmOK' /\ ReqOK' /\ LatchOK'
    BY <1>2 DEF NegEdge, TypeOK, FsmOK, ReqOK, LatchOK
  <1>4. SerialOK' /\ CmdOK' /\ StrobesOK' /\ WriteEndOK' /\ ConfOK' /\ SyncOK'
    BY SameParts DEF NegEdge
  <1> QED BY <1>1, <1>2, <1>3, <1>4 DEF CardOK

\* So does the receiver, with the last bit of a byte ...
LEMMA ByteReceivedType ==
  ASSUME TypeOK, NEW byte \in Byte, ByteReceived(byte)
  PROVE  /\ CmdOK' /\ StrobesOK' /\ ReadEndOK' /\ WriteEndOK'
         /\ write_state' \in WriteStates
         /\ io_wr' \in BOOLEAN /\ wr_io_ack_i' \in BOOLEAN
  <1>1. CmdOK'
    <2>1. byte_cnt' \in 0 .. 15 /\ cmd' \in Byte
      BY DEF ByteReceived, TypeOK
    <2>2. cmd55' \in BOOLEAN
      BY Zenon DEF ByteReceived, TypeOK
    <2>3. lba' \in Word
      BY DEF ByteReceived, TypeOK, Word
    <2>4. reply' \in Byte /\ reply_more' \in Seq(Byte)
      BY ResponseType DEF ByteReceived, TypeOK
    <2> QED BY <2>1, <2>2, <2>3, <2>4 DEF CmdOK
  <1>2. StrobesOK'
    BY Zenon DEF ByteReceived, Accepts, StrobesOK
  <1>3. write_state' \in WriteStates
    BY DEF ByteReceived, TypeOK, NextWriteState, WriteStates
  <1>4. io_wr' \in BOOLEAN /\ wr_io_ack_i' \in BOOLEAN
    BY Zenon DEF ByteReceived, TypeOK
  <1>5. ReadEndOK' /\ WriteEndOK'
    <2>1. CASE Accepts(byte)
      <3>1. /\ buffer_rptr' = 0 /\ buffer_wptr' = 0
            /\ buffer_read_sector_done' = FALSE /\ buffer_read_ciscid_done' = FALSE
            /\ UNCHANGED <<buffer, buffer_dout, cid_byte, csd_byte>>
        BY <2>1 DEF ByteReceived, Accepts
      <3>2. 0 \in 0 .. SectorLen - 1  BY Lengths
      <3>3. ReadEndOK /\ WriteEndOK  BY TypeParts DEF CardOK
      <3> QED BY <3>1, <3>2, <3>3 DEF ReadEndOK, WriteEndOK
    <2>2. CASE ~Accepts(byte) /\ write_state = "RECV_DATA" /\ ~DinStrobeHigh
      BY <2>2, BufferWriteType, SameParts DEF ByteReceived
    <2>3. CASE ~Accepts(byte) /\ ~(write_state = "RECV_DATA" /\ ~DinStrobeHigh)
      BY <2>3, SameParts DEF ByteReceived
    <2> QED BY <2>1, <2>2, <2>3
  <1> QED BY <1>1, <1>2, <1>3, <1>4, <1>5

\* ... and with any other bit.
LEMMA PosEdgeType ==
  ASSUME TypeOK, PosEdge, SyncOK'
  PROVE  CardOK'
  <1>1. synced' \in BOOLEAN
    BY Zenon DEF PosEdge, TypeOK
  <1>2. bit_cnt' \in 0 .. 7
    BY DEF PosEdge, TypeOK
  <1>3. ConfOK' /\ sd_sdo' \in {0, 1} /\ read_state' \in ReadStates
        /\ io_rd' \in BOOLEAN /\ rd_io_ack_i' \in BOOLEAN
    BY SameParts DEF PosEdge, TypeOK
  <1>4. CASE bit_cnt = 7
    <2> DEFINE byte == 2 * sbuf + sd_sdi
    <2>1. byte \in Byte /\ ByteReceived(byte) /\ UNCHANGED sbuf
      BY <1>4, SbufType DEF PosEdge
    <2> HIDE DEF byte
    <2>2. SerialOK'  BY <1>1, <1>2, <2>1 DEF TypeOK, SerialOK
    <2> QED
      BY <1>3, <2>1, <2>2, ByteReceivedType DEF CardOK, FsmOK, ReqOK, LatchOK
  <1>5. CASE bit_cnt # 7
    <2>1. SerialOK'
      BY <1>1, <1>2, <1>5, SbufType DEF PosEdge, SerialOK
    <2>2. UNCHANGED <<write_state, cmdVars, io_wr, wr_io_ack_i, rdBufVars, wrBufVars>>
          /\ StrobesOK'
      BY <1>5 DEF PosEdge, StrobesOK
    <2>3. FsmOK' /\ ReqOK' /\ LatchOK'
      BY <1>3, <2>2 DEF TypeOK, FsmOK, ReqOK, LatchOK
    <2> QED BY <1>3, <2>1, <2>2, <2>3, SameParts DEF CardOK
  <1> QED BY <1>4, <1>5

\* A rising edge, whether the card is selected or not.
LEMMA SckRiseType ==
  ASSUME TypeOK, SckRise
  PROVE  TypeOK'
  <1>1. PinsOK'  BY DEF TypeOK, SckRise, PinsOK
  <1>2. IoOK'  BY SameParts DEF SckRise
  <1>3. SyncOK'  BY DEF TypeOK, SckRise, SyncOK
  <1>4. CardOK'
    <2>1. CASE sd_cs = 0
      BY <1>3, <2>1, PosEdgeType DEF SckRise
    <2>2. CASE sd_cs # 0
      <3>1. SerialOK'
        <4>1. bit_cnt' = 0 /\ synced' = FALSE /\ sbuf' = sbuf  BY <2>2 DEF SckRise
        <4>2. sbuf \in 0 .. 127 /\ 0 \in 0 .. 7  BY DEF TypeOK
        <4> QED BY <4>1, <4>2 DEF SerialOK
      <3>2. UNCHANGED <<sd_sdo, fsmVars, cmdVars, new_cmd_rcvd, rdBufVars, wrBufVars,
                        buffer_write_strobe, confVars, reqVars, latchVars>>
        BY <2>2 DEF SckRise
      <3> QED BY <1>3, <3>1, <3>2, SameParts DEF CardOK, TypeOK
    <2> QED BY <2>1, <2>2
  <1> QED BY <1>1, <1>2, <1>4, TypePartsNext

\* A falling edge, whether the card is selected or not.
LEMMA SckFallType ==
  ASSUME TypeOK, NEW sdi \in {0, 1}, SckFall(sdi)
  PROVE  TypeOK'
  <1>1. PinsOK'  BY DEF TypeOK, SckFall, PinsOK
  <1>2. IoOK'  BY SameParts DEF SckFall
  <1>3. CardOK'  BY NegEdgeType, SameCard DEF SckFall
  <1> QED BY <1>1, <1>2, <1>3, TypePartsNext

\* The host's other pins: sd_sdi, and sd_cs in both directions.
LEMMA PinsType ==
  ASSUME TypeOK, NEW sdi \in {0, 1}, SetSdi(sdi) \/ Select \/ Deselect(sdi)
  PROVE  TypeOK'
  <1>1. PinsOK'
    BY DEF TypeOK, SetSdi, Select, Deselect, PinsOK
  <1>2. IoOK'
    BY SameParts DEF SetSdi, Select, Deselect
  <1>3. CardOK'
    <2>1. CASE SetSdi(sdi) \/ Select
      BY <2>1, SameCard DEF SetSdi, Select
    <2>2. CASE Deselect(sdi)
      <3>1. SerialOK'
        <4>1. bit_cnt' = 0 /\ synced' = FALSE /\ sbuf' = sbuf  BY <2>2 DEF Deselect
        <4>2. sbuf \in 0 .. 127 /\ 0 \in 0 .. 7  BY DEF TypeOK
        <4> QED BY <4>1, <4>2 DEF SerialOK
      <3> QED BY <2>2, <3>1, SameParts DEF Deselect, CardOK, TypeOK
    <2> QED BY <2>1, <2>2
  <1> QED BY <1>1, <1>2, <1>3, TypePartsNext

\* The steps of the IO controller that touch no register of the card.
LEMMA IoTurnType ==
  ASSUME TypeOK, IoPoll \/ IoBeginConfig \/ IoShift
  PROVE  TypeOK'
  <1>1. PinsOK'  BY SameParts DEF IoPoll, IoBeginConfig, IoShift
  <1>2. CardOK'  BY SameCard DEF IoPoll, IoBeginConfig, IoShift
  <1>3. IoOK'
    <2>1. CASE IoPoll
      BY <2>1, IoLbaType DEF IoPoll, TypeOK, IoOK, IoLen
    <2>2. CASE IoBeginConfig
      BY <2>2, Lengths DEF IoBeginConfig, TypeOK, IoOK, IoLen, IoCommands
    <2>3. CASE IoShift
      BY <2>3 DEF IoShift, TypeOK, IoOK, IoLen
    <2> QED BY <2>1, <2>2, <2>3
  <1> QED BY <1>1, <1>2, <1>3, TypePartsNext

\* The command byte 0x17, which clears the requests.
LEMMA IoBeginReadType ==
  ASSUME TypeOK, NEW sector \in Sectors, IoBeginRead(sector)
  PROVE  TypeOK'
  <1>1. PinsOK'  BY SameParts DEF IoBeginRead
  <1>2. ReqOK'  BY DEF IoBeginRead, TakeRequest, ReqOK
  <1>3. CardOK'
    BY <1>2, SameParts DEF IoBeginRead, TypeOK, CardOK
  <1>4. IoOK'
    BY CardAssumption DEF IoBeginRead, TypeOK, IoOK, IoLen, IoCommands
  <1> QED BY <1>1, <1>3, <1>4, TypePartsNext

\* The command byte 0x18, which clears the requests and fetches a byte.
LEMMA IoBeginWriteType ==
  ASSUME TypeOK, IoBeginWrite
  PROVE  TypeOK'
  <1>1. PinsOK'  BY SameParts DEF IoBeginWrite
  <1>2. ReadEndOK'  BY BufferReadType DEF IoBeginWrite
  <1>3. ReqOK'  BY DEF IoBeginWrite, TakeRequest, ReqOK
  <1>4. CardOK'
    BY <1>2, <1>3, SameParts DEF IoBeginWrite, TypeOK, CardOK
  <1>5. IoOK'
    BY Lengths DEF IoBeginWrite, TypeOK, IoOK, IoLen, IoCommands
  <1> QED BY <1>1, <1>4, <1>5, TypePartsNext

\* A byte from the IO controller, of a sector or of the configuration.
LEMMA IoDinByteType ==
  ASSUME TypeOK, NEW byte \in Byte, IoDinByte(byte)
  PROVE  TypeOK'
  <1>1. PinsOK'  BY SameParts DEF IoDinByte
  <1>2. WriteEndOK'
    <2>1. CASE buffer_write_strobe
      BY <2>1, SameParts DEF IoDinByte
    <2>2. CASE ~buffer_write_strobe
      <3> DEFINE din == IF cmd = CMD17 THEN byte ELSE 2 * sbuf + sd_sdi
      <3>1. din \in Byte  BY SbufType
      <3>2. BufferWrite(din)  BY <2>2 DEF IoDinByte
      <3> HIDE DEF din
      <3> QED BY <3>1, <3>2, BufferWriteType
    <2> QED BY <2>1, <2>2
  <1>3. ConfOK'
    <2>1. CASE ~IsConfig  BY <2>1, SameParts DEF IoDinByte
    <2>2. CASE IsConfig  BY <2>2, ConfigWriteType DEF IoDinByte, ConfOK
    <2> QED BY <2>1, <2>2
  <1>4. CardOK'
    BY <1>2, <1>3, SameParts DEF IoDinByte, TypeOK, CardOK
  <1>5. IoOK'
    BY Lengths DEF IoDinByte, TypeOK, IoOK, IoLen, IoCommands
  <1> QED BY <1>1, <1>4, <1>5, TypePartsNext

\* A byte to the IO controller.
LEMMA IoWriteByteType ==
  ASSUME TypeOK, IoWriteByte
  PROVE  TypeOK'
  <1>1. PinsOK'  BY SameParts DEF IoWriteByte
  <1>2. ReadEndOK'  BY BufferReadType DEF IoWriteByte
  <1>3. CardOK'
    BY <1>2, SameParts DEF IoWriteByte, TypeOK, CardOK
  <1>4. IoOK'
    BY Lengths DEF IoWriteByte, TypeOK, IoOK, IoLen, IoCommands
  <1> QED BY <1>1, <1>3, <1>4, TypePartsNext

\* The end of a transfer on the IO controller's bus.
LEMMA IoEndType ==
  ASSUME TypeOK, IoEnd
  PROVE  TypeOK'
  <1>1. PinsOK'  BY SameParts DEF IoEnd
  <1>2. LatchOK'
    BY Zenon DEF IoEnd, TypeOK, LatchOK, latchVars
  <1>3. CardOK'
    BY <1>2, SameParts DEF IoEnd, TypeOK, CardOK
  <1>4. IoOK'
    <2>1. io_idx' = 0 /\ io_cmd' = "none" /\ io_strobe' = FALSE
          /\ io_todo' = io_todo \ {io_cmd} /\ UNCHANGED <<io_addr, io_sector, io_config>>
      BY DEF IoEnd
    <2>2. 0 \in 0 .. IoLen'
      BY <2>1, Lengths DEF IoLen
    <2> QED BY <2>1, <2>2 DEF TypeOK, IoOK, IoCommands
  <1> QED BY <1>1, <1>3, <1>4, TypePartsNext

\* Every step of the host and of the IO controller keeps the widths.
LEMMA TypeStep ==
  ASSUME TypeOK, Next
  PROVE  TypeOK'
  <1>1. CASE HostNext
    BY <1>1, SckRiseType, SckFallType, PinsType DEF HostNext
  <1>2. CASE IoNext
    <2>1. CASE IoReadByte
      <3>1. io_idx \in 0 .. SectorLen - 1
        BY <2>1, Lengths DEF TypeOK, IoReadByte, IoDinByte, IoLen
      <3>2. io_sector[io_idx] \in Byte
        BY <3>1 DEF TypeOK
      <3> QED BY <2>1, <3>2, IoDinByteType DEF IoReadByte
    <2>2. CASE IoConfigByte
      <3>1. io_idx \in 0 .. 2 * CidLen
        BY <2>2, Lengths DEF TypeOK, IoConfigByte, IoDinByte, IoLen
      <3>2. io_config \in [0 .. 2 * CidLen -> Byte]
        BY CardAssumption DEF TypeOK
      <3>3. io_config[io_idx] \in Byte
        BY <3>1, <3>2
      <3> QED BY <2>2, <3>3, IoDinByteType DEF IoConfigByte
    <2> QED
      BY <1>2, <2>1, <2>2, IoTurnType, IoBeginReadType, IoBeginWriteType,
         IoWriteByteType, IoEndType DEF IoNext
  <1> QED BY <1>1, <1>2 DEF Next

\* A stuttering step does, too.
LEMMA TypeStutter ==
  ASSUME TypeOK, UNCHANGED vars
  PROVE  TypeOK'
  BY SameParts, SameCard, TypePartsNext DEF vars

\* Every register keeps a value of its width: the pointers into the sector
\* buffer, the CID and the CSD stay within them for every length.
THEOREM TypeCorrect == Spec => []TypeOK
  <1>1. TypeOK /\ [Next]_vars => TypeOK'  BY TypeStep, TypeStutter
  <1> QED BY <1>1, InitType, PTL DEF Spec

-----------------------------------------------------------------------------
(* One transfer at a time.                                                 *)
(*                                                                         *)
(* OneTransfer alone is not inductive.  That io_rd is raised only by a     *)
(* card that starts to wait rests on where the byte counter stands: the    *)
(* reply slot, byte 9 of a command, must not come a second time            *)
(* (PastReply), which is true only of a host that does not raise sd_cs     *)
(* inside a byte of a transfer.  That io_rd is low when the card leaves    *)
(* WAIT_IO rests on the latch rd_io_ack_i and its copy rd_io_ack in the    *)
(* card's clock domain, which lags behind it (Answers).                    *)

Commands ==
  /\ read_state # "IDLE" => cmd \in {CMD9, CMD10, CMD17}
  /\ write_state # "IDLE" => cmd = CMD24

PastReply ==
  /\ read_state # "IDLE" =>
       byte_cnt > 9 \/ (byte_cnt = 9 /\ bit_cnt = 7 /\ sd_sck = 0 /\ sd_cs = 0)
  /\ write_state # "IDLE" => byte_cnt > 4

Requests ==
  /\ io_rd => read_state = "WAIT_IO" /\ ~rd_io_ack_i /\ ~rd_io_ack
  /\ io_wr => write_state = "BUSY" /\ ~wr_io_ack_i /\ ~wr_io_ack
  /\ Serving => ~io_rd /\ ~io_wr

Answers ==
  /\ rd_io_ack_i => read_state # "IDLE"
  /\ wr_io_ack_i => write_state = "BUSY"
  /\ rd_io_ack => rd_io_ack_i \/ (sd_sck = 0 /\ read_state = "IDLE")
  /\ wr_io_ack => wr_io_ack_i \/ write_state = "IDLE"

TransferInv == TypeOK /\ Commands /\ PastReply /\ Requests /\ Answers

\* The registers TransferInv is about.
transferVars == <<read_state, write_state, cmd, byte_cnt, bit_cnt, sd_sck, sd_cs, io_rd, io_wr,
                  rd_io_ack_i, wr_io_ack_i, rd_io_ack, wr_io_ack, io_cmd>>

\* The strengthening implies what it strengthens.
LEMMA TransferImplies == TransferInv => OneTransfer
  BY DEF TransferInv, Commands, Requests, OneTransfer, CMD9, CMD10, CMD17, CMD24

\* It holds at power-on.
LEMMA TransferInit == Init => Commands /\ PastReply /\ Requests /\ Answers
  BY DEF Init, Commands, PastReply, Requests, Answers, Serving

\* It speaks of transferVars only.
LEMMA TransferSame ==
  ASSUME TransferInv, UNCHANGED transferVars
  PROVE  (Commands /\ PastReply /\ Requests /\ Answers)'
  BY DEF TransferInv, Commands, PastReply, Requests, Answers, Serving, transferVars

\* A falling edge moves the read state machine; it starts only in the reply slot.
LEMMA TransferNegEdge ==
  ASSUME TransferInv, NegEdge, sd_sck = 1, sd_sck' = 0, sd_cs = 0,
         UNCHANGED <<sd_cs, io_cmd>>
  PROVE  (Commands /\ PastReply /\ Requests /\ Answers)'
  <1>1. UNCHANGED <<write_state, cmd, byte_cnt, bit_cnt, sd_cs, io_wr, wr_io_ack_i,
                    rd_io_ack, wr_io_ack, io_cmd>>
    BY DEF NegEdge, cmdVars, shiftVars, syncVars
  <1>2. CASE bit_cnt # 7
    BY <1>1, <1>2 DEF NegEdge, TransferInv, Commands, PastReply, Requests, Answers,
       Serving
  <1>3. CASE bit_cnt = 7
    <2>1. /\ read_state' = NextReadState
          /\ io_rd' = IF ReplySlot /\ cmd = CMD17 THEN ~io_ack ELSE io_rd
          /\ rd_io_ack_i' = (rd_io_ack_i /\ NextReadState # "IDLE")
      BY <1>3 DEF NegEdge, TxLastBit
    <2>2. read_state # "IDLE" => ~ReplySlot
      BY DEF TransferInv, PastReply, ReplySlot, NCR
    <2>3. CASE ReplySlot
      <3>1. read_state = "IDLE" /\ ~rd_io_ack_i /\ ~rd_io_ack
        BY <2>2, <2>3 DEF TransferInv, Answers
      <3>2. read_state' = CASE cmd \in {CMD9, CMD10} -> "SEND_TOKEN"
                            [] cmd = CMD17 -> "WAIT_IO"
                            [] OTHER -> "IDLE"
        BY <2>1, <2>3, <3>1 DEF NextReadState, CMD9, CMD10, CMD17
      <3>3. read_state' # "IDLE" => cmd \in {CMD9, CMD10, CMD17} /\ byte_cnt = 9
        BY <2>3, <3>2 DEF ReplySlot, NCR
      <3>4. ~io_rd  BY <3>1 DEF TransferInv, Requests
      <3>5. io_rd' => cmd = CMD17 /\ ~Serving /\ read_state' = "WAIT_IO"
        <4>1. io_rd' => cmd = CMD17 /\ ~Serving
          BY <2>1, <2>3, <3>4, Zenon DEF io_ack, Serving
        <4>2. cmd = CMD17 => read_state' = "WAIT_IO"
          BY <3>2 DEF CMD9, CMD10, CMD17
        <4> QED BY <4>1, <4>2
      <3>6. ~rd_io_ack_i'  BY <2>1, <3>1
      <3> QED
        BY <1>1, <1>3, <3>1, <3>3, <3>5, <3>6
        DEF TransferInv, Commands, PastReply, Requests, Answers, Serving
    <2>4. CASE ~ReplySlot
      <3>1. io_rd' = io_rd  BY <2>1, <2>4
      <3>2. read_state = "IDLE" => read_state' = "IDLE"
        BY <2>1, <2>4 DEF NextReadState
      <3>3. io_rd => read_state' = "WAIT_IO"
        BY <2>1, <2>4 DEF TransferInv, Requests, NextReadState
      <3>4. rd_io_ack_i' => rd_io_ack_i /\ read_state' # "IDLE"
        BY <2>1
      <3>5. rd_io_ack => rd_io_ack_i' \/ read_state' = "IDLE"
        <4>1. rd_io_ack => rd_io_ack_i  BY DEF TransferInv, Answers
        <4> QED BY <2>1, <4>1, Zenon
      <3> QED
        BY <1>1, <3>1, <3>2, <3>3, <3>4, <3>5
        DEF TransferInv, Commands, PastReply, Requests, Answers, Serving
    <2> QED BY <2>3, <2>4
  <1> QED BY <1>2, <1>3

\* A rising edge moves the write state machine, and copies the two latches.
LEMMA TransferByte ==
  ASSUME TransferInv, NEW byte \in Byte, ByteReceived(byte),
         wr_io_ack' = wr_io_ack_i, UNCHANGED io_cmd
  PROVE  /\ read_state # "IDLE" => UNCHANGED cmd /\ byte_cnt' > 9
         /\ write_state' # "IDLE" => cmd' = CMD24 /\ byte_cnt' > 4
         /\ io_wr' => write_state' = "BUSY" /\ ~wr_io_ack_i' /\ ~wr_io_ack' /\ ~Serving
         /\ wr_io_ack_i' => write_state' = "BUSY"
         /\ wr_io_ack' => wr_io_ack_i' \/ write_state' = "IDLE"
  <1>1. /\ write_state' = NextWriteState(byte)
        /\ wr_io_ack_i' = (wr_io_ack_i /\ NextWriteState(byte) = "BUSY")
        /\ io_wr' = IF write_state = "SEND_DRESP" THEN ~io_ack ELSE io_wr
    BY DEF ByteReceived
  <1>2. read_state # "IDLE" => UNCHANGED cmd /\ byte_cnt' > 9
    <2>1. SUFFICES ASSUME read_state # "IDLE" PROVE UNCHANGED cmd /\ byte_cnt' > 9
      OBVIOUS
    <2>2. ~Accepts(byte)  BY <2>1 DEF Accepts
    <2>3. byte_cnt \in 0 .. 15 /\ byte_cnt >= 9
      BY <2>1 DEF TransferInv, TypeOK, PastReply
    <2> QED BY <2>2, <2>3 DEF ByteReceived
  <1>3. write_state' # "IDLE" => cmd' = CMD24
    <2>1. CASE Accepts(byte)
      <3>1. write_state = "IDLE" /\ byte_cnt # 4  BY <2>1 DEF Accepts
      <3> QED BY <1>1, <3>1 DEF NextWriteState
    <2>2. CASE ~Accepts(byte)
      <3>1. cmd' = cmd  BY <2>2 DEF ByteReceived
      <3> QED BY <1>1, <3>1 DEF NextWriteState, TransferInv, Commands
    <2> QED BY <2>1, <2>2
  <1>4. wr_io_ack_i' => wr_io_ack_i /\ write_state' = "BUSY"
    BY <1>1, Zenon
  <1>5. wr_io_ack' => wr_io_ack_i' \/ write_state' = "IDLE"
    <2>1. SUFFICES ASSUME wr_io_ack_i, write_state' # "IDLE"
                   PROVE  wr_io_ack_i'
      OBVIOUS
    <2>2. write_state = "BUSY"  BY <2>1 DEF TransferInv, Answers
    <2>3. byte_cnt # 4  BY <2>2 DEF TransferInv, PastReply
    <2>4. NextWriteState(byte) = "BUSY"
      BY <1>1, <2>1, <2>2, <2>3 DEF NextWriteState
    <2> QED BY <1>1, <2>1, <2>4, Zenon
  <1>6. io_wr' => write_state' = "BUSY" /\ ~wr_io_ack_i' /\ ~wr_io_ack' /\ ~Serving
    <2>1. SUFFICES ASSUME io_wr'
                   PROVE  write_state' = "BUSY" /\ ~wr_io_ack_i' /\ ~wr_io_ack' /\ ~Serving
      OBVIOUS
    <2>2. CASE write_state = "SEND_DRESP"
      <3>1. ~Serving  BY <1>1, <2>1, <2>2, Zenon DEF io_ack, Serving
      <3>2. ~wr_io_ack_i  BY <2>2 DEF TransferInv, Answers
      <3>3. NextWriteState(byte) = "BUSY"  BY <2>2 DEF NextWriteState
      <3> QED BY <1>1, <1>4, <3>1, <3>2, <3>3
    <2>3. CASE write_state # "SEND_DRESP"
      <3>1. io_wr  BY <1>1, <2>1, <2>3
      <3>2. write_state = "BUSY" /\ ~wr_io_ack_i /\ ~wr_io_ack /\ ~Serving
        BY <3>1 DEF TransferInv, Requests
      <3>3. byte_cnt # 4  BY <3>2 DEF TransferInv, PastReply
      <3>4. NextWriteState(byte) = "BUSY"
        BY <3>2, <3>3 DEF NextWriteState
      <3> QED BY <1>1, <1>4, <3>2, <3>4
    <2> QED BY <2>2, <2>3
  <1>7. write_state' # "IDLE" => byte_cnt' > 4
    <2>1. CASE Accepts(byte)
      <3>1. write_state = "IDLE" /\ byte_cnt # 4  BY <2>1 DEF Accepts
      <3> QED BY <1>1, <3>1 DEF NextWriteState
    <2>2. CASE ~Accepts(byte)
      <3>1. byte_cnt' = IF byte_cnt = 15 THEN 15 ELSE byte_cnt + 1
        BY <2>2 DEF ByteReceived
      <3>2. write_state' # "IDLE" => write_state # "IDLE" \/ byte_cnt = 4
        BY <1>1 DEF NextWriteState
      <3> QED BY <3>1, <3>2 DEF TransferInv, TypeOK, PastReply
    <2> QED BY <2>1, <2>2
  <1> QED BY <1>2, <1>3, <1>4, <1>5, <1>6, <1>7

\* A rising edge inside a byte leaves the state machines alone.
LEMMA TransferPosEdge ==
  ASSUME TransferInv, PosEdge, sd_sck' = 1, rd_io_ack' = rd_io_ack_i,
         wr_io_ack' = wr_io_ack_i, UNCHANGED <<sd_cs, io_cmd>>
  PROVE  (Commands /\ PastReply /\ Requests /\ Answers)'
  <1>1. UNCHANGED <<read_state, io_rd, rd_io_ack_i>>
    BY DEF PosEdge
  <1>2. CASE bit_cnt # 7
    <2>1. UNCHANGED <<write_state, cmd, byte_cnt, io_wr, wr_io_ack_i>>
      BY <1>2 DEF PosEdge, cmdVars
    <2>2. read_state # "IDLE" => byte_cnt > 9
      BY <1>2 DEF TransferInv, PastReply
    <2> QED
      BY <1>1, <2>1, <2>2 DEF TransferInv, Commands, PastReply, Requests, Answers,
         Serving
  <1>3. CASE bit_cnt = 7
    <2> DEFINE byte == 2 * sbuf + sd_sdi
    <2>1. byte \in Byte /\ ByteReceived(byte)
      BY <1>3, SbufType DEF PosEdge, TransferInv
    <2> HIDE DEF byte
    <2>2. /\ read_state # "IDLE" => UNCHANGED cmd /\ byte_cnt' > 9
          /\ write_state' # "IDLE" => cmd' = CMD24 /\ byte_cnt' > 4
          /\ io_wr' => write_state' = "BUSY" /\ ~wr_io_ack_i' /\ ~wr_io_ack' /\ ~Serving
          /\ wr_io_ack_i' => write_state' = "BUSY"
          /\ wr_io_ack' => wr_io_ack_i' \/ write_state' = "IDLE"
      BY <2>1, TransferByte
    <2> QED
      BY <1>1, <2>2 DEF TransferInv, Commands, PastReply, Requests, Answers, Serving
  <1> QED BY <1>2, <1>3

\* No step of a host that deselects between bytes breaks it.
LEMMA TransferHost ==
  ASSUME ~MidByteDeselect, TransferInv, HostNext
  PROVE  (Commands /\ PastReply /\ Requests /\ Answers)'
  <1>1. CASE SckRise
    <2>1. /\ rd_io_ack' = rd_io_ack_i /\ wr_io_ack' = wr_io_ack_i
          /\ sd_sck' = 1 /\ UNCHANGED <<sd_cs, io_cmd>>
      BY <1>1 DEF SckRise, ioVars
    <2>2. CASE sd_cs = 0
      BY <1>1, <2>1, <2>2, TransferPosEdge DEF SckRise
    <2>3. CASE sd_cs # 0
      <3>1. UNCHANGED <<read_state, write_state, cmd, byte_cnt, io_rd, io_wr,
                        rd_io_ack_i, wr_io_ack_i>>
        BY <1>1, <2>3 DEF SckRise, fsmVars, cmdVars, reqVars, latchVars
      <3>2. read_state # "IDLE" => byte_cnt > 9
        BY <2>3 DEF TransferInv, PastReply
      <3> QED
        BY <2>1, <3>1, <3>2 DEF TransferInv, Commands, PastReply, Requests, Answers,
           Serving
    <2> QED BY <2>2, <2>3
  <1>2. ASSUME NEW sdi \in {0, 1}, SckFall(sdi)
        PROVE  (Commands /\ PastReply /\ Requests /\ Answers)'
    <2>1. sd_sck = 1 /\ sd_sck' = 0 /\ UNCHANGED <<sd_cs, io_cmd>>
      BY <1>2 DEF SckFall, ioVars
    <2>2. CASE sd_cs = 0
      BY <1>2, <2>1, <2>2, TransferNegEdge DEF SckFall
    <2>3. CASE sd_cs # 0
      <3>1. UNCHANGED <<read_state, write_state, cmd, byte_cnt, bit_cnt, io_rd, io_wr,
                        rd_io_ack_i, wr_io_ack_i, rd_io_ack, wr_io_ack>>
        BY <1>2, <2>3
        DEF SckFall, cardVars, fsmVars, cmdVars, shiftVars, reqVars, latchVars, syncVars
      <3> QED
        BY <2>1, <2>3, <3>1 DEF TransferInv, Commands, PastReply, Requests, Answers,
           Serving
    <2> QED BY <2>2, <2>3
  <1>3. ASSUME NEW sdi \in {0, 1}, Deselect(sdi), CleanDeselect
        PROVE  (Commands /\ PastReply /\ Requests /\ Answers)'
    <2>1. UNCHANGED <<read_state, write_state, cmd, byte_cnt, sd_sck, io_rd, io_wr,
                      rd_io_ack_i, wr_io_ack_i, rd_io_ack, wr_io_ack, io_cmd>>
      BY <1>3 DEF Deselect, fsmVars, cmdVars, reqVars, latchVars, syncVars, ioVars
    <2>2. read_state # "IDLE" => byte_cnt > 9
      BY <1>3 DEF CleanDeselect, TransferInv, PastReply
    <2> QED
      BY <2>1, <2>2 DEF TransferInv, Commands, PastReply, Requests, Answers, Serving
  <1>4. ASSUME NEW sdi \in {0, 1}, SetSdi(sdi)
        PROVE  (Commands /\ PastReply /\ Requests /\ Answers)'
    <2>1. UNCHANGED transferVars
      BY <1>4 DEF SetSdi, transferVars, cardVars, fsmVars, cmdVars, shiftVars,
         reqVars, latchVars, syncVars, ioVars
    <2> QED BY <2>1, TransferSame
  <1>5. CASE Select
    <2>1. UNCHANGED <<read_state, write_state, cmd, byte_cnt, bit_cnt, sd_sck, io_rd, io_wr,
                      rd_io_ack_i, wr_io_ack_i, rd_io_ack, wr_io_ack, io_cmd>>
          /\ sd_cs' = 0
      BY <1>5 DEF Select, cardVars, fsmVars, cmdVars, shiftVars, reqVars, latchVars,
         syncVars, ioVars
    <2> QED
      BY <2>1 DEF TransferInv, Commands, PastReply, Requests, Answers, Serving
  <1> QED BY <1>1, <1>2, <1>3, <1>4, <1>5 DEF HostNext

\* No step of the IO controller breaks it.
LEMMA TransferIo ==
  ASSUME TransferInv, IoNext
  PROVE  (Commands /\ PastReply /\ Requests /\ Answers)'
  <1>1. UNCHANGED <<read_state, write_state, cmd, byte_cnt, bit_cnt, sd_sck, sd_cs,
                    rd_io_ack, wr_io_ack>>
    BY DEF IoNext, IoPoll, IoBeginConfig, IoBeginRead, IoBeginWrite, IoShift,
       IoReadByte, IoConfigByte, IoDinByte, IoWriteByte, IoEnd, pinVars, cardVars,
       fsmVars, cmdVars, shiftVars, syncVars
  <1>2. ASSUME TakeRequest, UNCHANGED latchVars
        PROVE  (Commands /\ PastReply /\ Requests /\ Answers)'
    BY <1>1, <1>2
    DEF TakeRequest, latchVars, TransferInv, Commands, PastReply, Requests, Answers, Serving
  <1>3. CASE \/ IoPoll \/ IoShift \/ IoReadByte \/ IoConfigByte \/ IoWriteByte
    <2>1. UNCHANGED transferVars
      BY <1>1, <1>3
      DEF IoPoll, IoShift, IoReadByte, IoConfigByte, IoDinByte, IoWriteByte, transferVars,
          cardVars, reqVars, latchVars
    <2> QED BY <2>1, TransferSame
  <1>4. CASE IoBeginConfig
    <2>1. io_cmd' = "CONF" /\ UNCHANGED <<io_rd, io_wr, rd_io_ack_i, wr_io_ack_i>>
      BY <1>4 DEF IoBeginConfig, cardVars, reqVars, latchVars
    <2> QED
      BY <1>1, <2>1 DEF TransferInv, Commands, PastReply, Requests, Answers, Serving
  <1>5. CASE IoBeginWrite \/ \E sector \in Sectors : IoBeginRead(sector)
    BY <1>2, <1>5 DEF IoBeginWrite, IoBeginRead
  <1>6. CASE IoEnd
    <2>1. io_cmd' = "none" /\ UNCHANGED <<io_rd, io_wr>>
      BY <1>6 DEF IoEnd, reqVars
    <2>2. CASE io_ack
      <3>1. /\ rd_io_ack_i' = (read_state # "IDLE")
            /\ wr_io_ack_i' = (write_state = "BUSY")
        BY <1>6, <2>2 DEF IoEnd
      <3>2. ~io_rd /\ ~io_wr
        BY <2>2 DEF TransferInv, Requests, Serving, io_ack
      <3>3. /\ rd_io_ack => read_state # "IDLE" \/ (sd_sck = 0 /\ read_state = "IDLE")
            /\ wr_io_ack => write_state = "BUSY" \/ write_state = "IDLE"
        BY DEF TransferInv, Answers
      <3> QED
        BY <1>1, <2>1, <3>1, <3>2, <3>3
        DEF TransferInv, Commands, PastReply, Requests, Answers, Serving
    <2>3. CASE ~io_ack
      <3>1. UNCHANGED <<rd_io_ack_i, wr_io_ack_i>>
        BY <1>6, <2>3 DEF IoEnd, latchVars
      <3> QED
        BY <1>1, <2>1, <3>1
        DEF TransferInv, Commands, PastReply, Requests, Answers, Serving
    <2> QED BY <2>2, <2>3
  <1> QED BY <1>3, <1>4, <1>5, <1>6 DEF IoNext

LEMMA TransferInvHolds ==
  ASSUME ~MidByteDeselect
  PROVE  Spec => []TransferInv
  <1>1. Init => TransferInv
    BY InitType, TransferInit DEF TransferInv
  <1>2. TransferInv /\ [Next]_vars => TransferInv'
    <2>1. ASSUME TransferInv, Next PROVE TransferInv'
      <3>1. TypeOK'  BY <2>1, TypeStep DEF TransferInv
      <3> QED BY <2>1, <3>1, TransferHost, TransferIo DEF Next, TransferInv
    <2>2. ASSUME TransferInv, UNCHANGED vars PROVE TransferInv'
      <3>1. TypeOK'  BY <2>2, TypeStutter DEF TransferInv
      <3>2. UNCHANGED transferVars
        BY <2>2 DEF vars, transferVars, pinVars, cardVars, fsmVars, cmdVars,
           shiftVars, reqVars, latchVars, syncVars, ioVars
      <3> QED BY <2>2, <3>1, <3>2, TransferSame DEF TransferInv
    <2> QED BY <2>1, <2>2
  <1> QED BY <1>1, <1>2, PTL DEF Spec

\* A host that raises sd_cs only between bytes, or while the card is idle,
\* never makes the card run two transfers at a time or ask twice for a sector,
\* whatever bits it sends and however its clock and the IO controller's mix.
THEOREM OneTransferHolds ==
  ASSUME ~MidByteDeselect
  PROVE  Spec => []OneTransfer
  BY TransferInvHolds, TransferImplies, PTL

-----------------------------------------------------------------------------
(* The service of the IO controller.                                       *)
(*                                                                         *)
(* Once the configuration is there, what the IO controller has read in its *)
(* poll is the one request the card waits for (Asked), and the number it   *)
(* read with it stays the card's (Numbered).  A pointer of the buffer is   *)
(* 0 when its engine begins a sector, because the command that asked for   *)
(* it reset both (Fresh), and from then on the two copies of the sector    *)
(* agree up to the byte the IO controller has reached (Filling, Draining). *)

ConfigDone == csd_wptr = 2 * CidLen + 1

\* The strobes of the card's clock domain, by the states that raise them.
Strobes ==
  /\ new_cmd_rcvd => byte_cnt = 0
  /\ buffer_write_strobe => write_state \in {"RECV_DATA", "RECV_CRC0"}

\* Only a sector read goes through WAIT_IO.
Waits == read_state = "WAIT_IO" => cmd = CMD17

Asked ==
  /\ io_cmd \in {"none", "RD", "WR"}
  /\ io_cmd # "none" => io_todo = {io_cmd}
  /\ io_cmd = "none" => \/ io_todo = {}
                        \/ io_todo = {"RD"} /\ io_rd
                        \/ io_todo = {"WR"} /\ io_wr
  /\ io_cmd = "RD" => read_state = "WAIT_IO" /\ ~rd_io_ack_i /\ ~rd_io_ack
  /\ io_cmd = "WR" => write_state = "BUSY" /\ ~wr_io_ack_i /\ ~wr_io_ack

Numbered == io_todo # {} => io_addr = io_lba

\* Both pointers, until the IO controller begins.
Fresh ==
  /\ cmd = CMD17 => \/ buffer_wptr = 0
                    \/ read_state = "IDLE" /\ byte_cnt > 9
                    \/ read_state # "IDLE" /\ (io_cmd = "RD" \/ rd_io_ack_i \/ Sending)
  /\ cmd = CMD24 => \/ buffer_rptr = 0
                    \/ write_state = "IDLE" /\ byte_cnt > 4
                    \/ write_state # "IDLE" /\ (io_cmd = "WR" \/ wr_io_ack_i)

\* The buffer is being filled, and has been filled.
Filling ==
  /\ io_cmd = "RD" => /\ buffer_wptr = io_idx % SectorLen
                      /\ \A i \in 0 .. io_idx - 1 : buffer[i] = io_sector[i]
  /\ cmd = CMD17 /\ read_state # "IDLE" /\ (rd_io_ack_i \/ Sending) =>
       ~io_rd /\ io_cmd = "none" /\ buffer = io_sector

\* The buffer is being emptied, and has been emptied.
Draining ==
  /\ io_cmd = "WR" => /\ buffer_rptr = (io_idx + 1) % SectorLen
                      /\ io_idx < SectorLen => buffer_dout = buffer[io_idx]
                      /\ \A i \in 0 .. io_idx - 1 : io_sector[i] = buffer[i]
  /\ wr_io_ack_i => io_cmd = "none" /\ io_sector = buffer

ServiceInv == ConfigDone /\ Strobes /\ Waits /\ Asked /\ Numbered /\ Fresh /\ Filling /\ Draining

\* The service by its parts, each with the registers it speaks of.
LEMMA ServiceSame ==
  ASSUME ServiceInv
  PROVE  /\ UNCHANGED csd_wptr => ConfigDone'
         /\ UNCHANGED <<new_cmd_rcvd, byte_cnt, buffer_write_strobe, write_state>> => Strobes'
         /\ UNCHANGED <<read_state, cmd>> => Waits'
         /\ UNCHANGED <<io_cmd, io_todo, io_rd, io_wr, read_state, write_state, rd_io_ack_i,
                        rd_io_ack, wr_io_ack_i, wr_io_ack>> => Asked'
         /\ UNCHANGED <<io_todo, io_addr, lba, conf>> => Numbered'
         /\ UNCHANGED <<cmd, buffer_wptr, buffer_rptr, read_state, write_state, byte_cnt, io_cmd,
                        rd_io_ack_i, wr_io_ack_i>> => Fresh'
         /\ UNCHANGED <<io_cmd, buffer_wptr, io_idx, buffer, io_sector, cmd, read_state,
                        rd_io_ack_i, io_rd>> => Filling'
         /\ UNCHANGED <<io_cmd, buffer_rptr, buffer_dout, io_idx, buffer, io_sector,
                        wr_io_ack_i>> => Draining'
  <1>1. UNCHANGED csd_wptr => ConfigDone'
    BY DEF ServiceInv, ConfigDone
  <1>2. UNCHANGED <<new_cmd_rcvd, byte_cnt, buffer_write_strobe, write_state>> => Strobes'
    BY DEF ServiceInv, Strobes
  <1>3. UNCHANGED <<read_state, cmd>> => Waits'
    BY DEF ServiceInv, Waits
  <1>4. UNCHANGED <<io_cmd, io_todo, io_rd, io_wr, read_state, write_state, rd_io_ack_i,
                    rd_io_ack, wr_io_ack_i, wr_io_ack>> => Asked'
    BY DEF ServiceInv, Asked
  <1>5. UNCHANGED <<io_todo, io_addr, lba, conf>> => Numbered'
    BY DEF ServiceInv, Numbered, io_lba, io_sdhc
  <1>6. UNCHANGED <<cmd, buffer_wptr, buffer_rptr, read_state, write_state, byte_cnt, io_cmd,
                    rd_io_ack_i, wr_io_ack_i>> => Fresh'
    BY DEF ServiceInv, Fresh, Sending
  <1>7. UNCHANGED <<io_cmd, buffer_wptr, io_idx, buffer, io_sector, cmd, read_state,
                    rd_io_ack_i, io_rd>> => Filling'
    BY DEF ServiceInv, Filling, Sending
  <1>8. UNCHANGED <<io_cmd, buffer_rptr, buffer_dout, io_idx, buffer, io_sector,
                    wr_io_ack_i>> => Draining'
    BY DEF ServiceInv, Draining
  <1> QED BY <1>1, <1>2, <1>3, <1>4, <1>5, <1>6, <1>7, <1>8

\* Whatever the IO controller is asked or does, the card waits for it.
LEMMA ServiceFacts ==
  ASSUME TransferInv, ServiceInv
  PROVE  /\ read_state # "IDLE" => ~new_cmd_rcvd /\ write_state = "IDLE" /\ byte_cnt >= 9
         /\ write_state # "IDLE" => ~new_cmd_rcvd /\ read_state = "IDLE" /\ byte_cnt > 4
         /\ io_todo = {"RD"} => read_state = "WAIT_IO" /\ cmd = CMD17 /\ ~rd_io_ack_i /\ ~rd_io_ack
         /\ io_todo = {"WR"} => write_state = "BUSY" /\ cmd = CMD24 /\ ~wr_io_ack_i /\ ~wr_io_ack
         /\ io_todo \in {{}, {"RD"}, {"WR"}}
         /\ io_cmd = "RD" => io_todo = {"RD"} /\ ~io_rd
         /\ io_cmd = "WR" => io_todo = {"WR"} /\ ~io_wr
         /\ io_cmd = "none" /\ io_todo = {"RD"} => io_rd
         /\ io_cmd = "none" /\ io_todo = {"WR"} => io_wr
  <1>1. read_state # "IDLE" => ~new_cmd_rcvd /\ write_state = "IDLE" /\ byte_cnt >= 9
    BY DEF TransferInv, TypeOK, PastReply, Commands, ServiceInv, Strobes, CMD9,
       CMD10, CMD17, CMD24
  <1>2. write_state # "IDLE" => ~new_cmd_rcvd /\ read_state = "IDLE" /\ byte_cnt > 4
    BY DEF TransferInv, TypeOK, PastReply, Commands, ServiceInv, Strobes, CMD9,
       CMD10, CMD17, CMD24
  <1>3. /\ io_todo \in {{}, {"RD"}, {"WR"}}
        /\ io_cmd = "RD" => io_todo = {"RD"} /\ ~io_rd
        /\ io_cmd = "WR" => io_todo = {"WR"} /\ ~io_wr
        /\ io_cmd = "none" /\ io_todo = {"RD"} => io_rd
        /\ io_cmd = "none" /\ io_todo = {"WR"} => io_wr
    BY DEF ServiceInv, Asked, TransferInv, Requests, Serving
  <1>4. io_todo = {"RD"} => read_state = "WAIT_IO" /\ ~rd_io_ack_i /\ ~rd_io_ack
    BY DEF ServiceInv, Asked, TransferInv, Requests
  <1>5. io_todo = {"WR"} => write_state = "BUSY" /\ ~wr_io_ack_i /\ ~wr_io_ack
    BY DEF ServiceInv, Asked, TransferInv, Requests
  <1>6. (read_state = "WAIT_IO" => cmd = CMD17) /\ (write_state = "BUSY" => cmd = CMD24)
    BY DEF ServiceInv, Waits, TransferInv, Commands
  <1> QED BY <1>1, <1>2, <1>3, <1>4, <1>5, <1>6

\* Places of the buffer.
LEMMA Place ==
  /\ SectorLen \in Nat \ {0}
  /\ 0 % SectorLen = 0 /\ SectorLen % SectorLen = 0
  /\ \A i \in 0 .. SectorLen - 1 : i % SectorLen = i
  <1>1. \A n \in Nat \ {0} : n % n = 0 /\ 0 % n = 0 /\ \A i \in 0 .. n - 1 : i % n = i
    BY SMT
  <1> QED BY <1>1, Lengths

\* A poll that finds a request finds the one that is waiting.
LEMMA ServicePoll ==
  ASSUME TransferInv, ServiceInv, IoPoll
  PROVE  ServiceInv'
  <1>1. /\ io_cmd = "none" /\ io_cmd' = "none" /\ io_todo = {} /\ io_addr' = io_lba
        /\ io_todo' = (IF io_wr THEN {"WR"} ELSE {}) \cup (IF io_rd THEN {"RD"} ELSE {})
        /\ UNCHANGED <<cardVars, io_sector, io_idx>>
    <2>1. ~io_conf
      BY Lengths DEF ServiceInv, ConfigDone, io_conf
    <2> QED BY <2>1 DEF IoPoll
  <1>2. UNCHANGED <<csd_wptr, new_cmd_rcvd, byte_cnt, buffer_write_strobe, write_state, read_state,
                    cmd, lba, conf, buffer_wptr, buffer_rptr, buffer, buffer_dout, io_rd, io_wr,
                    rd_io_ack_i, rd_io_ack, wr_io_ack_i, wr_io_ack>>
    BY <1>1 DEF cardVars, fsmVars, cmdVars, rdBufVars, wrBufVars, confVars, reqVars,
       latchVars, syncVars
  <1>3. ~(io_rd /\ io_wr)
    BY TransferImplies DEF OneTransfer
  <1>4. Asked'
    BY <1>1, <1>2, <1>3 DEF Asked
  <1>5. Numbered'
    BY <1>1, <1>2 DEF Numbered, io_lba, io_sdhc
  <1> QED BY <1>1, <1>2, <1>4, <1>5, ServiceSame DEF ServiceInv

\* The IO controller begins to upload a sector: nothing has been written since
\* the command was accepted.
LEMMA ServiceBeginRead ==
  ASSUME TransferInv, ServiceInv, NEW sector \in Sectors, IoBeginRead(sector)
  PROVE  ServiceInv'
  <1>1. /\ io_cmd = "none" /\ io_todo = {"RD"} /\ io_cmd' = "RD" /\ io_idx' = 0
        /\ io_rd' = FALSE /\ io_wr' = FALSE /\ UNCHANGED <<io_todo, io_addr>>
    <2>1. "RD" \in io_todo
      BY DEF IoBeginRead
    <2> QED BY <2>1, ServiceFacts DEF IoBeginRead, TakeRequest
  <1>2. UNCHANGED <<csd_wptr, new_cmd_rcvd, byte_cnt, buffer_write_strobe, write_state, read_state,
                    cmd, lba, conf, buffer_wptr, buffer_rptr, buffer, buffer_dout,
                    rd_io_ack_i, rd_io_ack, wr_io_ack_i, wr_io_ack>>
    BY DEF IoBeginRead, fsmVars, cmdVars, rdBufVars, wrBufVars, confVars, latchVars,
       syncVars
  <1>3. read_state = "WAIT_IO" /\ cmd = CMD17 /\ ~rd_io_ack_i /\ ~rd_io_ack
    BY <1>1, ServiceFacts
  <1>4. ~wr_io_ack_i /\ buffer_wptr = 0 /\ ~Sending
    <2>1. ~wr_io_ack_i
      BY <1>3, ServiceFacts DEF TransferInv, Answers
    <2>2. ~Sending
      BY <1>3 DEF Sending
    <2> QED BY <1>1, <1>3, <2>1, <2>2 DEF ServiceInv, Fresh
  <1>5. Asked'
    BY <1>1, <1>2, <1>3 DEF Asked
  <1>6. Fresh'
    BY <1>2, <1>3, <1>4 DEF Fresh, CMD17, CMD24
  <1>7. Filling'
    BY <1>1, <1>2, <1>3, <1>4, Place DEF Filling, Sending
  <1>8. Draining'
    BY <1>1, <1>2, <1>4 DEF Draining
  <1> QED BY <1>1, <1>2, <1>5, <1>6, <1>7, <1>8, ServiceSame DEF ServiceInv

\* The read engine at work for the IO controller: the byte fetched is the next one.
LEMMA Fetch ==
  ASSUME ~new_cmd_rcvd, BufferRead
  PROVE  buffer_dout' = buffer[buffer_rptr] /\ buffer_rptr' = (buffer_rptr + 1) % SectorLen
  BY DEF BufferRead

\* The IO controller begins to fetch a sector.
LEMMA ServiceBeginWrite ==
  ASSUME TransferInv, ServiceInv, IoBeginWrite
  PROVE  ServiceInv'
  <1>1. /\ io_cmd = "none" /\ io_todo = {"WR"} /\ io_cmd' = "WR" /\ io_idx' = 0
        /\ io_rd' = FALSE /\ io_wr' = FALSE /\ UNCHANGED <<io_todo, io_addr, io_sector>>
    <2>1. "WR" \in io_todo
      BY DEF IoBeginWrite
    <2> QED BY <2>1, ServiceFacts DEF IoBeginWrite, TakeRequest
  <1>2. UNCHANGED <<csd_wptr, new_cmd_rcvd, byte_cnt, buffer_write_strobe, write_state, read_state,
                    cmd, lba, conf, buffer_wptr, buffer,
                    rd_io_ack_i, rd_io_ack, wr_io_ack_i, wr_io_ack>>
    BY DEF IoBeginWrite, fsmVars, cmdVars, wrBufVars, confVars, latchVars, syncVars
  <1>3. write_state = "BUSY" /\ cmd = CMD24 /\ ~wr_io_ack_i /\ ~wr_io_ack /\ ~new_cmd_rcvd
        /\ read_state = "IDLE"
    BY <1>1, ServiceFacts
  <1>4. buffer_rptr = 0
    BY <1>1, <1>3 DEF ServiceInv, Fresh
  <1>5. buffer_dout' = buffer[0] /\ buffer_rptr' = (0 + 1) % SectorLen
    BY <1>3, <1>4, Fetch DEF IoBeginWrite
  <1>6. Asked'
    BY <1>1, <1>2, <1>3 DEF Asked
  <1>7. Fresh'
    BY <1>1, <1>2, <1>3 DEF Fresh, CMD17, CMD24
  <1>8. Filling'
    BY <1>1, <1>2, <1>3 DEF Filling
  <1>9. Draining'
    BY <1>1, <1>2, <1>3, <1>5 DEF Draining
  <1> QED BY <1>1, <1>2, <1>6, <1>7, <1>8, <1>9, ServiceSame DEF ServiceInv

\* A byte of the upload lands where it belongs.
LEMMA ServiceReadByte ==
  ASSUME TransferInv, ServiceInv, IoReadByte
  PROVE  ServiceInv'
  <1>1. /\ io_cmd = "RD" /\ io_idx < SectorLen /\ io_idx' = io_idx + 1 /\ io_ack
        /\ IoDinByte(io_sector[io_idx])
    BY DEF IoReadByte, IoDinByte, IoLen, io_ack
  <1>2. UNCHANGED <<csd_wptr, new_cmd_rcvd, byte_cnt, buffer_write_strobe, write_state, read_state,
                    cmd, lba, conf, buffer_rptr, buffer_dout, io_rd, io_wr, io_cmd, io_todo,
                    io_addr, io_sector, rd_io_ack_i, rd_io_ack, wr_io_ack_i, wr_io_ack>>
    BY <1>1 DEF IoDinByte, IsConfig, fsmVars, cmdVars, rdBufVars, confVars, reqVars,
       latchVars, syncVars
  <1>3. /\ read_state = "WAIT_IO" /\ cmd = CMD17 /\ ~rd_io_ack_i /\ ~new_cmd_rcvd
        /\ write_state = "IDLE"
    BY <1>1, ServiceFacts
  <1>4. ~buffer_write_strobe /\ ~wr_io_ack_i /\ ~Sending
    BY <1>3 DEF ServiceInv, Strobes, TransferInv, Answers, Sending
  <1>5. io_idx \in 0 .. SectorLen - 1
    BY <1>1, Place DEF TransferInv, TypeOK, IoLen
  <1>6. buffer_wptr = io_idx
    BY <1>1, <1>5, Place DEF ServiceInv, Filling
  <1>7. /\ buffer' = [buffer EXCEPT ![io_idx] = io_sector[io_idx]]
        /\ buffer_wptr' = (io_idx + 1) % SectorLen
    BY <1>1, <1>3, <1>4, <1>6 DEF IoDinByte, BufferWrite
  <1>8. Fresh'
    BY <1>1, <1>2, <1>3 DEF Fresh, CMD17, CMD24
  <1>9. Filling'
    <2>1. buffer_wptr' = io_idx' % SectorLen
      BY <1>1, <1>7
    <2>2. \A i \in 0 .. io_idx' - 1 : buffer'[i] = io_sector'[i]
      <3> SUFFICES ASSUME NEW i \in 0 .. io_idx PROVE buffer'[i] = io_sector[i]
        BY <1>1, <1>2, <1>5
      <3>1. buffer \in [0 .. SectorLen - 1 -> Byte] /\ i \in 0 .. SectorLen - 1
        BY <1>5, Place DEF TransferInv, TypeOK
      <3>2. i # io_idx => i \in 0 .. io_idx - 1
        BY <1>5
      <3>3. i # io_idx => buffer[i] = io_sector[i]
        BY <1>1, <3>2 DEF ServiceInv, Filling
      <3> QED BY <1>7, <3>1, <3>3
    <2>3. ~(rd_io_ack_i' \/ Sending')
      BY <1>2, <1>3, <1>4 DEF Sending
    <2> QED BY <2>1, <2>2, <2>3 DEF Filling
  <1>10. Draining'
    BY <1>1, <1>2, <1>4 DEF Draining
  <1> QED BY <1>2, <1>8, <1>9, <1>10, ServiceSame DEF ServiceInv

\* A byte fetched is stored where it came from, and the next one is fetched.
LEMMA ServiceWriteByte ==
  ASSUME TransferInv, ServiceInv, IoWriteByte
  PROVE  ServiceInv'
  <1>1. /\ io_cmd = "WR" /\ io_idx < SectorLen /\ io_idx' = io_idx + 1
        /\ io_sector' = [io_sector EXCEPT ![io_idx] = buffer_dout] /\ BufferRead
    BY DEF IoWriteByte, IoLen
  <1>2. UNCHANGED <<csd_wptr, new_cmd_rcvd, byte_cnt, buffer_write_strobe, write_state, read_state,
                    cmd, lba, conf, buffer_wptr, buffer, io_rd, io_wr, io_cmd, io_todo,
                    io_addr, rd_io_ack_i, rd_io_ack, wr_io_ack_i, wr_io_ack>>
    BY DEF IoWriteByte, fsmVars, cmdVars, wrBufVars, confVars, reqVars, latchVars,
       syncVars
  <1>3. /\ write_state = "BUSY" /\ cmd = CMD24 /\ ~wr_io_ack_i /\ ~new_cmd_rcvd
        /\ read_state = "IDLE"
    BY <1>1, ServiceFacts
  <1>4. io_idx \in 0 .. SectorLen - 1
    BY <1>1, Place DEF TransferInv, TypeOK, IoLen
  <1>5. buffer_rptr = (io_idx + 1) % SectorLen /\ buffer_dout = buffer[io_idx]
    BY <1>1 DEF ServiceInv, Draining
  <1>6. buffer_dout' = buffer[buffer_rptr] /\ buffer_rptr' = (buffer_rptr + 1) % SectorLen
    BY <1>1, <1>3, Fetch
  <1>7. Fresh'
    BY <1>1, <1>2, <1>3 DEF Fresh, CMD17, CMD24
  <1>8. Filling'
    BY <1>1, <1>2, <1>3 DEF Filling
  <1>9. Draining'
    <2>1. buffer_rptr' = (io_idx' + 1) % SectorLen
      <3>1. CASE io_idx + 1 = SectorLen
        BY <1>1, <1>5, <1>6, <3>1, Place
      <3>2. CASE io_idx + 1 # SectorLen
        <4>1. io_idx + 1 \in 0 .. SectorLen - 1
          BY <1>4, <3>2, Place
        <4> QED BY <1>1, <1>5, <1>6, <4>1, Place
      <3> QED BY <3>1, <3>2
    <2>2. io_idx' < SectorLen => buffer_dout' = buffer'[io_idx']
      <3>1. io_idx + 1 < SectorLen => io_idx + 1 \in 0 .. SectorLen - 1
        BY <1>4, Place
      <3> QED BY <1>1, <1>2, <1>5, <1>6, <3>1, Place
    <2>3. \A i \in 0 .. io_idx' - 1 : io_sector'[i] = buffer'[i]
      <3> SUFFICES ASSUME NEW i \in 0 .. io_idx PROVE io_sector'[i] = buffer[i]
        BY <1>1, <1>2, <1>4
      <3>1. io_sector \in [0 .. SectorLen - 1 -> Byte] /\ i \in 0 .. SectorLen - 1
        BY <1>4, Place DEF TransferInv, TypeOK
      <3>2. i # io_idx => i \in 0 .. io_idx - 1
        BY <1>4
      <3>3. i # io_idx => io_sector[i] = buffer[i]
        BY <1>1, <3>2 DEF ServiceInv, Draining
      <3> QED BY <1>1, <1>5, <3>1, <3>3
    <2> QED BY <1>2, <1>3, <2>1, <2>2, <2>3 DEF Draining
  <1> QED BY <1>2, <1>7, <1>8, <1>9, ServiceSame DEF ServiceInv

\* Functions that agree everywhere are the same.
LEMMA SameFunction ==
  ASSUME NEW S, NEW T, NEW f \in [S -> T], NEW g \in [S -> T], \A i \in S : f[i] = g[i]
  PROVE  f = g
  OBVIOUS

\* The end of a transfer: all of the sector has been seen.
LEMMA ServiceEnd ==
  ASSUME TransferInv, ServiceInv, IoEnd
  PROVE  ServiceInv'
  <1>1. /\ io_cmd \in {"RD", "WR"} /\ io_idx = SectorLen /\ io_ack /\ io_cmd' = "none"
        /\ rd_io_ack_i' = (read_state # "IDLE") /\ wr_io_ack_i' = (write_state = "BUSY")
        /\ io_todo' = {}
    <2>1. io_cmd \in {"RD", "WR"} /\ io_todo = {io_cmd}
      BY DEF IoEnd, ServiceInv, Asked
    <2> QED BY <2>1 DEF IoEnd, IoLen, io_ack
  <1>2. UNCHANGED <<csd_wptr, new_cmd_rcvd, byte_cnt, buffer_write_strobe, write_state, read_state,
                    cmd, lba, conf, buffer_wptr, buffer, buffer_rptr, buffer_dout, io_rd, io_wr,
                    io_addr, io_sector, rd_io_ack, wr_io_ack>>
    BY DEF IoEnd, fsmVars, cmdVars, wrBufVars, rdBufVars, confVars, reqVars, syncVars
  <1>3. \A i \in 0 .. SectorLen - 1 : buffer[i] = io_sector[i]
    BY <1>1 DEF ServiceInv, Filling, Draining
  <1>4. buffer = io_sector
    <2> DEFINE S == 0 .. SectorLen - 1
    <2>1. buffer \in [S -> Byte] /\ io_sector \in [S -> Byte]
      BY DEF TransferInv, TypeOK
    <2>2. \A i \in S : buffer[i] = io_sector[i]
      BY <1>3
    <2> HIDE DEF S
    <2> QED BY <2>1, <2>2, SameFunction
  <1>5. ~io_rd
    BY <1>1 DEF TransferInv, Requests, Serving
  <1>6. Asked' /\ Numbered'
    BY <1>1 DEF Asked, Numbered
  <1>7. Fresh'
    <2>1. CASE io_cmd = "RD"
      <3>1. read_state = "WAIT_IO" /\ cmd = CMD17
        BY <2>1, ServiceFacts
      <3>2. rd_io_ack_i'
        BY <1>1, <3>1
      <3> QED BY <1>2, <3>1, <3>2 DEF Fresh, CMD17, CMD24
    <2>2. CASE io_cmd = "WR"
      <3>1. write_state = "BUSY" /\ cmd = CMD24
        BY <2>2, ServiceFacts
      <3>2. wr_io_ack_i'
        BY <1>1, <3>1
      <3> QED BY <1>2, <3>1, <3>2 DEF Fresh, CMD17, CMD24
    <2> QED BY <1>1, <2>1, <2>2
  <1>8. Filling' /\ Draining'
    BY <1>1, <1>2, <1>4, <1>5 DEF Filling, Draining
  <1> QED BY <1>1, <1>2, <1>6, <1>7, <1>8, ServiceSame DEF ServiceInv

LEMMA ServiceIo ==
  ASSUME TransferInv, ServiceInv, IoNext
  PROVE  ServiceInv'
  <1>1. ~IoBeginConfig
    BY ServiceFacts DEF IoBeginConfig
  <1>2. ~IoConfigByte
    BY DEF IoConfigByte, ServiceInv, Asked
  <1>3. CASE IoShift
    <2>1. UNCHANGED <<csd_wptr, new_cmd_rcvd, byte_cnt, buffer_write_strobe, write_state, read_state,
                      cmd, lba, conf, buffer_wptr, buffer, buffer_rptr, buffer_dout, io_rd, io_wr,
                      io_cmd, io_todo, io_idx, io_addr, io_sector, rd_io_ack_i, rd_io_ack,
                      wr_io_ack_i, wr_io_ack>>
      BY <1>3 DEF IoShift, cardVars, fsmVars, cmdVars, wrBufVars, rdBufVars,
         confVars, reqVars, latchVars, syncVars
    <2> QED BY <2>1, ServiceSame DEF ServiceInv
  <1> QED
    BY <1>1, <1>2, <1>3, ServicePoll, ServiceBeginRead, ServiceBeginWrite,
       ServiceReadByte, ServiceWriteByte, ServiceEnd DEF IoNext

\* A step that leaves the card's registers and the IO controller alone.
LEMMA ServiceStill ==
  ASSUME ServiceInv,
         UNCHANGED <<fsmVars, cmdVars, new_cmd_rcvd, rdBufVars, wrBufVars, buffer_write_strobe,
                     confVars, reqVars, latchVars, syncVars, ioVars>>
  PROVE  ServiceInv'
  <1>1. UNCHANGED <<csd_wptr, new_cmd_rcvd, byte_cnt, buffer_write_strobe, write_state, read_state,
                    cmd, lba, conf, buffer_wptr, buffer, buffer_rptr, buffer_dout, io_rd, io_wr,
                    io_cmd, io_todo, io_idx, io_addr, io_sector, rd_io_ack_i, rd_io_ack,
                    wr_io_ack_i, wr_io_ack>>
    BY DEF fsmVars, cmdVars, wrBufVars, rdBufVars, confVars, reqVars, latchVars,
       syncVars, ioVars
  <1> QED BY <1>1, ServiceSame DEF ServiceInv

\* A falling edge: the read state machine leaves WAIT_IO only when it has been
\* told that the sector is there.
LEMMA ServiceNegEdge ==
  ASSUME TransferInv, ServiceInv, NegEdge, sd_sck = 1, UNCHANGED ioVars
  PROVE  ServiceInv'
  <1>1. UNCHANGED <<csd_wptr, new_cmd_rcvd, byte_cnt, buffer_write_strobe, write_state, cmd, lba,
                    conf, buffer_wptr, buffer, io_wr, wr_io_ack_i, rd_io_ack, wr_io_ack, io_cmd,
                    io_todo, io_idx, io_addr, io_sector>>
    BY DEF NegEdge, cmdVars, wrBufVars, confVars, syncVars, ioVars
  <1>2. CASE bit_cnt # 7
    <2>1. UNCHANGED <<read_state, buffer_rptr, buffer_dout, io_rd, rd_io_ack_i>>
      BY <1>2 DEF NegEdge, rdBufVars
    <2> QED BY <1>1, <2>1, ServiceSame DEF ServiceInv
  <1>3. CASE bit_cnt = 7
    <2>1. /\ read_state' = NextReadState
          /\ rd_io_ack_i' = (rd_io_ack_i /\ NextReadState # "IDLE")
          /\ io_rd' = IF ReplySlot /\ cmd = CMD17 THEN ~io_ack ELSE io_rd
          /\ read_state \notin {"SEND_TOKEN", "SEND_DATA"} => UNCHANGED rdBufVars
      BY <1>3 DEF NegEdge, TxLastBit
    <2>2. read_state # "IDLE" => ~ReplySlot /\ byte_cnt > 9 /\ io_rd' = io_rd
      BY <2>1 DEF TransferInv, PastReply, ReplySlot, NCR
    <2>3. read_state = "WAIT_IO" => read_state' = IF rd_io_ack THEN "SEND_TOKEN" ELSE "WAIT_IO"
      BY <2>1, <2>2 DEF NextReadState
    <2>4. read_state \in {"SEND_TOKEN", "SEND_DATA"} =>
            read_state' \in {"SEND_TOKEN", "SEND_DATA", "IDLE"}
      BY <2>1, <2>2 DEF NextReadState
    <2>5. read_state = "IDLE" =>
            /\ read_state' \in {"IDLE", "WAIT_IO", "SEND_TOKEN"}
            /\ read_state' = "WAIT_IO" => cmd = CMD17
            /\ cmd = CMD17 => read_state' # "SEND_TOKEN"
            /\ byte_cnt > 9 => read_state' = "IDLE"
      BY <2>1 DEF NextReadState, ReplySlot, NCR, CMD9, CMD10, CMD17
    <2>6. read_state \in {"IDLE", "WAIT_IO", "SEND_TOKEN", "SEND_DATA"}
      BY DEF TransferInv, TypeOK, ReadStates
    <2>7. rd_io_ack_i' => rd_io_ack_i /\ read_state' # "IDLE"
      BY <2>1
    <2>8. rd_io_ack_i /\ read_state' # "IDLE" => rd_io_ack_i'
      BY <2>1
    <2>9. (rd_io_ack_i => read_state # "IDLE")
          /\ (rd_io_ack /\ read_state # "IDLE" => rd_io_ack_i)
      BY DEF TransferInv, Answers
    <2>10. Waits'
      BY <1>1, <2>3, <2>4, <2>5, <2>6 DEF ServiceInv, Waits
    <2>11. Asked'
      <3>1. io_cmd = "none" /\ io_todo = {"RD"} => io_rd /\ io_rd'
        BY <2>2, ServiceFacts
      <3>2. io_cmd = "RD" => read_state' = "WAIT_IO" /\ ~rd_io_ack_i' /\ ~rd_io_ack'
        BY <1>1, <2>3, <2>7, ServiceFacts
      <3> QED BY <1>1, <3>1, <3>2 DEF ServiceInv, Asked
    <2>12. Fresh'
      <3>1. cmd = CMD17 => \/ buffer_wptr = 0
                           \/ read_state' = "IDLE" /\ byte_cnt > 9
                           \/ read_state' # "IDLE" /\ (io_cmd = "RD" \/ rd_io_ack_i' \/ Sending')
        BY <1>1, <2>2, <2>3, <2>4, <2>5, <2>6, <2>8, <2>9 DEF ServiceInv, Fresh, Sending
      <3>2. cmd = CMD24 => UNCHANGED buffer_rptr
        <4>1. cmd = CMD24 => read_state = "IDLE"
          BY DEF TransferInv, Commands, CMD9, CMD10, CMD17, CMD24
        <4> QED BY <2>1, <4>1 DEF rdBufVars
      <3> QED BY <1>1, <3>1, <3>2 DEF ServiceInv, Fresh
    <2>13. Filling'
      <3>1. ASSUME cmd = CMD17, read_state' # "IDLE", rd_io_ack_i' \/ Sending'
            PROVE  ~io_rd' /\ io_cmd = "none" /\ buffer = io_sector
        <4>1. read_state # "IDLE"
          BY <1>1, <2>5, <2>7, <2>9, <3>1 DEF Sending
        <4>2. rd_io_ack_i \/ Sending
          BY <1>1, <2>3, <2>6, <2>7, <2>9, <3>1, <4>1 DEF Sending
        <4> QED BY <2>2, <3>1, <4>1, <4>2 DEF ServiceInv, Filling
      <3> QED BY <1>1, <3>1 DEF ServiceInv, Filling
    <2>14. Draining'
      <3>1. io_cmd = "WR" => UNCHANGED <<buffer_rptr, buffer_dout>>
        BY <2>1, ServiceFacts DEF rdBufVars
      <3> QED BY <1>1, <3>1 DEF ServiceInv, Draining
    <2> QED BY <1>1, <2>10, <2>11, <2>12, <2>13, <2>14, ServiceSame DEF ServiceInv
  <1> QED BY <1>2, <1>3

\* A byte from the host: a command resets both engines, a transfer under way
\* keeps its number.
LEMMA ServiceByte ==
  ASSUME TransferInv, ServiceInv, NEW byte \in Byte, ByteReceived(byte),
         rd_io_ack' = rd_io_ack_i, wr_io_ack' = wr_io_ack_i,
         UNCHANGED <<ioVars, confVars, read_state, io_rd, rd_io_ack_i>>
  PROVE  ServiceInv'
  <1>1. UNCHANGED <<csd_wptr, conf, read_state, io_rd, rd_io_ack_i, io_cmd, io_todo, io_idx,
                    io_addr, io_sector>>
    BY DEF ioVars, confVars
  <1>2. /\ write_state' = NextWriteState(byte) /\ new_cmd_rcvd' = Accepts(byte)
        /\ buffer_write_strobe' = (write_state = "RECV_DATA")
        /\ wr_io_ack_i' = (wr_io_ack_i /\ NextWriteState(byte) = "BUSY")
        /\ io_wr' = IF write_state = "SEND_DRESP" THEN ~io_ack ELSE io_wr
        /\ lba' = IF byte_cnt \in 0 .. 3 THEN [lba EXCEPT ![byte_cnt + 1] = byte] ELSE lba
    BY DEF ByteReceived
  <1>3. byte_cnt \in 0 .. 15
    BY DEF TransferInv, TypeOK
  <1>4. /\ read_state # "IDLE" => write_state = "IDLE" /\ byte_cnt >= 9
        /\ write_state # "IDLE" => read_state = "IDLE" /\ byte_cnt > 4 /\ cmd = CMD24
        /\ wr_io_ack_i => write_state = "BUSY"
    BY ServiceFacts DEF TransferInv, Commands, Answers
  <1>5. Accepts(byte) => /\ read_state = "IDLE" /\ write_state = "IDLE" /\ byte_cnt > 5
                         /\ byte_cnt' = 0 /\ buffer_rptr' = 0 /\ buffer_wptr' = 0
                         /\ UNCHANGED <<buffer, buffer_dout>>
    BY DEF Accepts, ByteReceived
  <1>6. ~Accepts(byte) => /\ UNCHANGED <<cmd, rdBufVars>>
                          /\ byte_cnt' = IF byte_cnt = 15 THEN 15 ELSE byte_cnt + 1
                          /\ write_state # "RECV_DATA" => UNCHANGED wrBufVars
    BY DEF ByteReceived
  <1>7. /\ write_state = "RECV_DATA" => write_state' \in {"RECV_DATA", "RECV_CRC0"}
        /\ write_state = "BUSY" => write_state' = IF wr_io_ack THEN "IDLE" ELSE "BUSY"
        /\ write_state = "IDLE" /\ ~(byte_cnt = 4 /\ cmd = CMD24) => write_state' = "IDLE"
    BY <1>2, <1>4 DEF NextWriteState
  <1>8. (wr_io_ack_i' => wr_io_ack_i) /\ (wr_io_ack_i /\ write_state' = "BUSY" => wr_io_ack_i')
    BY <1>2
  <1>9. Strobes'
    BY <1>2, <1>5, <1>7 DEF Strobes
  <1>10. Waits'
    BY <1>1, <1>5, <1>6 DEF ServiceInv, Waits
  <1>11. Asked'
    <2>1. io_cmd = "WR" => write_state' = "BUSY" /\ ~wr_io_ack_i' /\ ~wr_io_ack'
      BY <1>7, <1>8, ServiceFacts
    <2>2. io_cmd = "RD" => read_state' = "WAIT_IO" /\ ~rd_io_ack_i' /\ ~rd_io_ack'
      BY <1>1, ServiceFacts
    <2>3. io_cmd = "none" /\ io_todo = {"WR"} => io_wr /\ io_wr'
      BY <1>2, ServiceFacts
    <2> QED BY <1>1, <2>1, <2>2, <2>3 DEF ServiceInv, Asked
  <1>12. Numbered'
    <2>1. io_todo # {} => UNCHANGED lba
      BY <1>2, <1>4, ServiceFacts
    <2> QED BY <1>1, <2>1 DEF ServiceInv, Numbered, io_lba, io_sdhc
  <1>13. Fresh'
    <2>1. CASE Accepts(byte)
      BY <1>5, <2>1 DEF Fresh
    <2>2. CASE ~Accepts(byte)
      <3>1. cmd' = cmd /\ byte_cnt' >= byte_cnt /\ buffer_rptr' = buffer_rptr
        BY <1>3, <1>6, <2>2 DEF rdBufVars
      <3>2. cmd = CMD17 => UNCHANGED buffer_wptr
        BY <1>4, <1>6, <2>2 DEF wrBufVars, CMD17, CMD24
      <3>3. cmd = CMD17 => \/ buffer_wptr' = 0
                           \/ read_state = "IDLE" /\ byte_cnt' > 9
                           \/ read_state # "IDLE" /\ (io_cmd = "RD" \/ rd_io_ack_i \/ Sending)
        BY <1>3, <1>6, <2>2, <3>1, <3>2 DEF ServiceInv, Fresh
      <3>4. cmd = CMD24 => \/ buffer_rptr' = 0
                           \/ write_state' = "IDLE" /\ byte_cnt' > 4
                           \/ write_state' # "IDLE" /\ (io_cmd = "WR" \/ wr_io_ack_i')
        <4> SUFFICES ASSUME cmd = CMD24, buffer_rptr # 0
                     PROVE  \/ write_state' = "IDLE" /\ byte_cnt' > 4
                            \/ write_state' # "IDLE" /\ (io_cmd = "WR" \/ wr_io_ack_i')
          BY <3>1
        <4>1. CASE write_state = "IDLE" /\ byte_cnt > 4
          BY <1>3, <1>6, <1>7, <2>2, <4>1
        <4>2. CASE write_state # "IDLE" /\ (io_cmd = "WR" \/ wr_io_ack_i)
          <5>1. write_state = "BUSY" /\ byte_cnt > 4
            BY <1>4, <4>2, ServiceFacts
          <5> QED BY <1>3, <1>6, <1>7, <1>8, <2>2, <4>2, <5>1
        <4> QED BY <4>1, <4>2 DEF ServiceInv, Fresh
      <3> QED BY <1>1, <3>1, <3>3, <3>4 DEF Fresh, Sending
    <2> QED BY <2>1, <2>2
  <1>14. Filling'
    <2>1. CASE Accepts(byte)
      <3>1. io_cmd # "RD" /\ read_state = "IDLE"
        BY <1>5, <2>1, ServiceFacts
      <3> QED BY <1>1, <3>1 DEF Filling
    <2>2. CASE ~Accepts(byte)
      <3>1. read_state # "IDLE" => UNCHANGED <<buffer, buffer_wptr>>
        BY <1>4, <1>6, <2>2 DEF wrBufVars
      <3>2. io_cmd = "RD" => read_state # "IDLE"
        BY ServiceFacts
      <3>3. Sending' = Sending /\ cmd' = cmd
        BY <1>1, <1>6, <2>2 DEF Sending
      <3> QED BY <1>1, <3>1, <3>2, <3>3 DEF ServiceInv, Filling
    <2> QED BY <2>1, <2>2
  <1>15. Draining'
    <2>1. CASE write_state = "BUSY"
      <3>1. UNCHANGED <<buffer, buffer_rptr, buffer_dout>>
        BY <1>5, <1>6, <2>1 DEF rdBufVars, wrBufVars
      <3> QED BY <1>1, <1>8, <3>1 DEF ServiceInv, Draining
    <2>2. CASE write_state # "BUSY"
      <3>1. io_cmd # "WR" /\ ~wr_io_ack_i'
        BY <1>4, <1>8, <2>2, ServiceFacts
      <3> QED BY <1>1, <3>1 DEF Draining
    <2> QED BY <2>1, <2>2
  <1> QED
    BY <1>1, <1>9, <1>10, <1>11, <1>12, <1>13, <1>14, <1>15, ServiceSame DEF ServiceInv

\* A rising edge without a byte, with the card selected or not.
LEMMA ServiceBit ==
  ASSUME TransferInv, ServiceInv, rd_io_ack' = rd_io_ack_i, wr_io_ack' = wr_io_ack_i,
         UNCHANGED <<fsmVars, cmdVars, rdBufVars, wrBufVars, confVars, reqVars, latchVars, ioVars>>,
         new_cmd_rcvd' => new_cmd_rcvd, buffer_write_strobe' => buffer_write_strobe
  PROVE  ServiceInv'
  <1>1. UNCHANGED <<csd_wptr, byte_cnt, write_state, read_state, cmd, lba, conf, buffer_wptr,
                    buffer_rptr, buffer, buffer_dout, io_rd, io_wr, rd_io_ack_i, wr_io_ack_i,
                    io_cmd, io_todo, io_idx, io_addr, io_sector>>
    BY DEF fsmVars, cmdVars, rdBufVars, wrBufVars, confVars, reqVars, latchVars, ioVars
  <1>2. Strobes'
    BY <1>1 DEF ServiceInv, Strobes
  <1>3. Asked'
    BY <1>1 DEF ServiceInv, Asked
  <1> QED BY <1>1, <1>2, <1>3, ServiceSame DEF ServiceInv

LEMMA ServiceHost ==
  ASSUME TransferInv, ServiceInv, HostNext
  PROVE  ServiceInv'
  <1>1. CASE SckRise
    <2>1. rd_io_ack' = rd_io_ack_i /\ wr_io_ack' = wr_io_ack_i /\ UNCHANGED ioVars
      BY <1>1 DEF SckRise
    <2>2. CASE sd_cs # 0
      <3>1. UNCHANGED <<fsmVars, cmdVars, rdBufVars, wrBufVars, confVars, reqVars, latchVars,
                        new_cmd_rcvd, buffer_write_strobe>>
        BY <1>1, <2>2 DEF SckRise
      <3> QED BY <2>1, <3>1, ServiceBit
    <2>3. CASE sd_cs = 0 /\ bit_cnt # 7
      <3>1. /\ UNCHANGED <<fsmVars, cmdVars, rdBufVars, wrBufVars, confVars, reqVars, latchVars>>
            /\ new_cmd_rcvd' = FALSE /\ buffer_write_strobe' = FALSE
        BY <1>1, <2>3 DEF SckRise, PosEdge, fsmVars, reqVars, latchVars
      <3> QED BY <2>1, <3>1, ServiceBit
    <2>4. CASE sd_cs = 0 /\ bit_cnt = 7
      <3> DEFINE byte == 2 * sbuf + sd_sdi
      <3>1. byte \in Byte /\ ByteReceived(byte)
            /\ UNCHANGED <<confVars, read_state, io_rd, rd_io_ack_i>>
        BY <1>1, <2>4, SbufType DEF SckRise, PosEdge, TransferInv
      <3> HIDE DEF byte
      <3> QED BY <2>1, <3>1, ServiceByte
    <2> QED BY <2>2, <2>3, <2>4
  <1>2. ASSUME NEW sdi \in {0, 1}, SckFall(sdi)
        PROVE  ServiceInv'
    <2>1. sd_sck = 1 /\ UNCHANGED ioVars
      BY <1>2 DEF SckFall
    <2>2. CASE sd_cs = 0
      BY <1>2, <2>1, <2>2, ServiceNegEdge DEF SckFall
    <2>3. CASE sd_cs # 0
      <3>1. UNCHANGED <<cardVars, ioVars>>
        BY <1>2, <2>1, <2>3 DEF SckFall
      <3> QED BY <3>1, ServiceStill DEF cardVars
    <2> QED BY <2>2, <2>3
  <1>3. ASSUME NEW sdi \in {0, 1}, Deselect(sdi) \/ SetSdi(sdi) \/ Select
        PROVE  ServiceInv'
    <2>1. UNCHANGED <<fsmVars, cmdVars, new_cmd_rcvd, rdBufVars, wrBufVars, buffer_write_strobe,
                      confVars, reqVars, latchVars, syncVars, ioVars>>
      BY <1>3 DEF Deselect, SetSdi, Select, cardVars
    <2> QED BY <2>1, ServiceStill
  <1> QED BY <1>1, <1>2, <1>3 DEF HostNext

LEMMA ServiceInit ==
  ASSUME Configured
  PROVE  Init => ServiceInv
  <1> SUFFICES ASSUME Init PROVE ServiceInv
    OBVIOUS
  <1>1. /\ read_state = "IDLE" /\ write_state = "IDLE" /\ byte_cnt = 15 /\ cmd = 0
        /\ ~new_cmd_rcvd /\ ~buffer_write_strobe /\ csd_wptr = 2 * CidLen + 1
        /\ io_cmd = "none" /\ io_todo = {} /\ ~wr_io_ack_i
    BY DEF Init
  <1> QED
    BY <1>1 DEF ServiceInv, ConfigDone, Strobes, Waits, Asked, Numbered, Fresh,
       Filling, Draining, CMD17, CMD24

LEMMA ServiceInvHolds ==
  ASSUME Configured, ~MidByteDeselect
  PROVE  Spec => []ServiceInv
  <1>1. TransferInv /\ ServiceInv /\ [Next]_vars => ServiceInv'
    <2>1. ASSUME TransferInv, ServiceInv, Next PROVE ServiceInv'
      BY <2>1, ServiceHost, ServiceIo DEF Next
    <2>2. ASSUME ServiceInv, UNCHANGED vars PROVE ServiceInv'
      BY <2>2, ServiceStill DEF vars, cardVars
    <2> QED BY <2>1, <2>2
  <1> QED BY <1>1, ServiceInit, TransferInvHolds, PTL DEF Spec

\* Once the configuration has been uploaded, a sector is sent to the host only
\* when all of it has come from the IO controller, and the buffer still holds
\* it as it came: for every length of the sector and every contents.
THEOREM SectorSentWhole ==
  ASSUME Configured, ~MidByteDeselect
  PROVE  Spec => []SentSector
  <1>1. TransferInv /\ ServiceInv => SentSector
    BY DEF ServiceInv, Filling, SentSector, Sending, TransferInv, CMD17
  <1> QED BY <1>1, TransferInvHolds, ServiceInvHolds, PTL

\* A sector written by the host is fetched while the card is busy with it, byte
\* by byte as the buffer holds it, and the card is told that it was taken only
\* after the last byte.
THEOREM SectorFetchedWhole ==
  ASSUME Configured, ~MidByteDeselect
  PROVE  Spec => []FetchedSector
  <1>1. ServiceInv => FetchedSector
    BY DEF ServiceInv, Asked, Draining, FetchedSector
  <1> QED BY <1>1, ServiceInvHolds, PTL

\* The sector served is the one the host asked for: the number the IO
\* controller read in its poll is the card's as long as the transfer takes.
THEOREM AddressServed ==
  ASSUME Configured, ~MidByteDeselect
  PROVE  Spec => []ServedAddress
  <1>1. ServiceInv => ServedAddress
    <2>1. {io_cmd} # {}
      OBVIOUS
    <2> QED BY <2>1 DEF ServiceInv, Asked, Numbered, ServedAddress, Serving
  <1> QED BY <1>1, ServiceInvHolds, PTL

-----------------------------------------------------------------------------
(* The configuration.  Here the host may do what it likes and start before *)
(* the configuration is there, and the IO controller may serve a sector    *)
(* first: the upload is begun only after a poll that found the pointer at  *)
(* 0, and until then nothing moves the pointer.                            *)

ConfigInv ==
  /\ WholeConfig
  /\ io_cmd = "CONF" => "CONF" \in io_todo
  /\ io_cmd # "CONF" /\ "CONF" \in io_todo => csd_wptr = 0

\* A step that leaves the configuration and the upload alone.
LEMMA ConfigSame ==
  ASSUME ConfigInv, UNCHANGED <<confVars, io_config>>
  PROVE  /\ UploadStored'
         /\ UNCHANGED <<io_cmd, io_todo, io_idx>> => ConfigInv'
  <1>1. UNCHANGED <<cid, csd, conf, csd_wptr, io_config>>
    BY DEF confVars
  <1>2. UploadStored'
    BY <1>1 DEF ConfigInv, WholeConfig, UploadStored
  <1>3. UNCHANGED <<io_cmd, io_todo, io_idx>> => ConfigInv'
    BY <1>1, <1>2 DEF ConfigInv, WholeConfig, UploadPlace
  <1> QED BY <1>2, <1>3

\* Byte n of the upload goes to place n.
LEMMA ConfigByte ==
  ASSUME TypeOK, ConfigInv, IoConfigByte
  PROVE  ConfigInv'
  <1> DEFINE n == csd_wptr
  <1>1. /\ CidLen \in Nat \ {0} /\ io_config \in [0 .. 2 * CidLen -> Byte]
        /\ cid \in [0 .. CidLen - 1 -> Byte] /\ csd \in [0 .. CidLen - 1 -> Byte]
    BY CardAssumption, Lengths DEF TypeOK
  <1>2. /\ io_cmd = "CONF" /\ io_idx < 2 * CidLen + 1 /\ io_idx' = io_idx + 1
        /\ ConfigWrite(io_config[io_idx]) /\ UNCHANGED <<io_cmd, io_todo, io_config>>
    BY DEF IoConfigByte, IoDinByte, IsConfig, IoLen, io_ack
  <1>3. n = io_idx /\ n \in 0 .. 2 * CidLen
    BY <1>1, <1>2 DEF ConfigInv, WholeConfig, UploadPlace, TypeOK
  <1>4. /\ csd_wptr' = n + 1
        /\ cid' = IF n < CidLen THEN [cid EXCEPT ![n] = io_config[n]] ELSE cid
        /\ csd' = IF n \in CidLen .. 2 * CidLen - 1
                    THEN [csd EXCEPT ![n % CidLen] = io_config[n]] ELSE csd
        /\ conf' = IF n = 2 * CidLen THEN io_config[n] % 2 = 1 ELSE conf
    BY <1>1, <1>2, <1>3 DEF ConfigWrite
  <1>5. ASSUME NEW i \in 0 .. CidLen - 1
        PROVE  /\ i < n => cid[i] = io_config[i]
               /\ CidLen + i < n => csd[i] = io_config[CidLen + i]
    BY DEF ConfigInv, WholeConfig, UploadStored
  <1> HIDE DEF n
  <1>6. ASSUME NEW i \in 0 .. CidLen - 1, i < n + 1
        PROVE  cid'[i] = io_config[i]
    BY <1>1, <1>3, <1>4, <1>5, <1>6
  <1>7. ASSUME NEW i \in 0 .. CidLen - 1, CidLen + i < n + 1
        PROVE  csd'[i] = io_config[CidLen + i]
    <2>1. CASE CidLen + i = n
      <3>1. n % CidLen = i
        BY ONLY <1>1, <2>1, i \in 0 .. CidLen - 1, SecondRound
      <3>2. n \in CidLen .. 2 * CidLen - 1
        BY <1>1, <2>1
      <3>3. csd' = [csd EXCEPT ![i] = io_config[n]]
        BY <1>4, <3>1, <3>2
      <3> QED BY ONLY <1>1, <2>1, <3>3, i \in 0 .. CidLen - 1
    <2>2. CASE CidLen + i < n
      <3>1. csd[i] = io_config[CidLen + i]
        BY <1>5, <2>2
      <3>2. CASE n \in CidLen .. 2 * CidLen - 1
        <4>1. n - CidLen \in 0 .. CidLen - 1 /\ n = CidLen + (n - CidLen)
          BY <1>1, <1>3, <3>2
        <4>3. n % CidLen = n - CidLen
          BY ONLY <1>1, <4>1, SecondRound
        <4>2. n % CidLen # i
          BY <1>1, <1>3, <2>2, <4>3
        <4> QED BY <1>1, <1>4, <3>1, <3>2, <4>2
      <3>3. CASE n \notin CidLen .. 2 * CidLen - 1
        BY <1>4, <3>1, <3>3
      <3> QED BY <3>2, <3>3
    <2> QED BY <1>1, <1>3, <1>7, <2>1, <2>2
  <1>8. 2 * CidLen < n + 1 => conf' = (io_config[2 * CidLen] % 2 = 1)
    <2>1. 2 * CidLen < n + 1 => n = 2 * CidLen
      BY <1>1, <1>3
    <2> QED BY Zenon, <1>4, <2>1
  <1>9. UploadStored'
    BY <1>2, <1>4, <1>6, <1>7, <1>8 DEF UploadStored
  <1>10. UploadPlace' /\ io_cmd' = "CONF" /\ "CONF" \in io_todo'
    BY <1>2, <1>3, <1>4 DEF UploadPlace, ConfigInv
  <1> QED BY <1>9, <1>10 DEF ConfigInv, WholeConfig

LEMMA ConfigIo ==
  ASSUME TypeOK, ConfigInv, IoNext
  PROVE  ConfigInv'
  <1>1. CASE IoPoll
    <2>1. /\ io_cmd = "none" /\ io_cmd' = io_cmd /\ UNCHANGED <<confVars, io_config>>
          /\ "CONF" \in io_todo' => csd_wptr = 0
      BY <1>1 DEF IoPoll, cardVars, io_conf
    <2> QED BY <2>1, ConfigSame DEF ConfigInv, WholeConfig, UploadPlace, confVars
  <1>2. CASE IoBeginConfig
    <2>1. /\ io_cmd = "none" /\ "CONF" \in io_todo /\ io_cmd' = "CONF" /\ io_idx' = 0
          /\ UNCHANGED <<io_todo, confVars, io_config>>
      BY <1>2 DEF IoBeginConfig, cardVars
    <2> QED BY <2>1, ConfigSame DEF ConfigInv, WholeConfig, UploadPlace, confVars
  <1>3. CASE IoBeginWrite \/ \E sector \in Sectors : IoBeginRead(sector)
    <2>1. /\ io_cmd = "none" /\ io_cmd' \in {"RD", "WR"}
          /\ UNCHANGED <<io_todo, confVars, io_config>>
      BY <1>3 DEF IoBeginWrite, IoBeginRead
    <2> QED BY <2>1, ConfigSame DEF ConfigInv, WholeConfig, UploadPlace, confVars
  <1>4. CASE IoShift
    BY <1>4, ConfigSame DEF IoShift, cardVars
  <1>5. CASE IoReadByte \/ IoWriteByte
    <2>1. io_cmd \in {"RD", "WR"} /\ UNCHANGED <<io_cmd, io_todo, confVars, io_config>>
      BY <1>5 DEF IoReadByte, IoDinByte, IoWriteByte, IsConfig, io_ack
    <2> QED BY <2>1, ConfigSame DEF ConfigInv, WholeConfig, UploadPlace, confVars
  <1>6. CASE IoConfigByte
    BY <1>6, ConfigByte
  <1>7. CASE IoEnd
    <2>1. /\ io_idx = IoLen /\ io_cmd' = "none"
          /\ io_todo' = io_todo \ {io_cmd} /\ UNCHANGED <<confVars, io_config>>
      BY <1>7 DEF IoEnd
    <2>2. "CONF" \in io_todo' => csd_wptr = 0
      BY <2>1 DEF ConfigInv
    <2>3. csd_wptr \in {0, 2 * CidLen + 1}
      BY <2>1 DEF ConfigInv, WholeConfig, UploadPlace, IoLen
    <2> QED BY <2>1, <2>2, <2>3, ConfigSame DEF ConfigInv, WholeConfig, UploadPlace, confVars
  <1> QED BY <1>1, <1>2, <1>3, <1>4, <1>5, <1>6, <1>7 DEF IoNext

\* Every host, every order of service, and every mixture of the host's clock
\* with the IO controller's: what cid, csd and conf hold is what was uploaded,
\* each byte in its place, and never a byte of a sector.
THEOREM ConfigArrivesWhole == Spec => []WholeConfig
  <1>1. Init => ConfigInv
    <2> SUFFICES ASSUME Init PROVE ConfigInv
      OBVIOUS
    <2>1. UploadStored
      <3>1. ~Configured => csd_wptr = 0  BY DEF Init
      <3>2. ~Configured => UploadStored  BY <3>1, Lengths DEF UploadStored
      <3>3. Configured => UploadStored  BY DEF Init, UploadStored
      <3> QED BY <3>2, <3>3
    <2> QED BY <2>1 DEF Init, ConfigInv, WholeConfig, UploadPlace
  <1>2. ASSUME TypeOK, ConfigInv, [Next]_vars PROVE ConfigInv'
    <2>1. CASE IoNext
      BY <1>2, <2>1, ConfigIo
    <2>2. CASE HostNext \/ UNCHANGED vars
      <3>1. UNCHANGED <<io_cmd, io_todo, io_idx, confVars, io_config>>
        BY <2>2 DEF HostNext, SckRise, PosEdge, SckFall, NegEdge, SetSdi, Select,
           Deselect, vars, cardVars, ioVars
      <3> QED BY <1>2, <3>1, ConfigSame
    <2> QED BY <1>2, <2>1, <2>2 DEF Next
  <1>3. ConfigInv => WholeConfig
    BY DEF ConfigInv
  <1> QED BY <1>1, <1>2, <1>3, TypeCorrect, PTL DEF Spec

-----------------------------------------------------------------------------

\* Comment at line 53 of the card: a request for a sector is raised only with
\* the step that starts to wait for it, so once in a transfer.
THEOREM RequestRaisedOnce ==
  ASSUME ~MidByteDeselect
  PROVE  Spec => RaisedOnce
  <1>1. TransferInv /\ [Next]_vars =>
          [~io_rd /\ io_rd' => read_state = "IDLE" /\ read_state' = "WAIT_IO"]_vars
    <2> SUFFICES ASSUME TransferInv, Next, ~io_rd, io_rd'
                 PROVE  read_state = "IDLE" /\ read_state' = "WAIT_IO"
      OBVIOUS
    <2>1. ~IoNext
      BY DEF IoNext, IoPoll, IoBeginConfig, IoBeginRead, IoBeginWrite, IoShift,
         IoReadByte, IoConfigByte, IoDinByte, IoWriteByte, IoEnd, TakeRequest,
         cardVars, reqVars
    <2>2. sd_sck = 1 /\ NegEdge
      BY <2>1 DEF Next, HostNext, SckRise, PosEdge, SckFall, SetSdi, Select,
         Deselect, cardVars, reqVars
    <2>3. ReplySlot /\ cmd = CMD17 /\ read_state' = NextReadState
      BY <2>2 DEF NegEdge, TxLastBit
    <2>4. read_state = "IDLE"
      BY <2>2, <2>3 DEF TransferInv, PastReply, ReplySlot, NCR
    <2> QED BY <2>3, <2>4 DEF NextReadState, CMD9, CMD10, CMD17
  <1> QED BY <1>1, TransferInvHolds, PTL DEF Spec, RaisedOnce

=============================================================================
