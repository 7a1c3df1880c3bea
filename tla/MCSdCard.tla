------------------------------ MODULE MCSdCard ------------------------------
(* A host for SdCard that sends whole frames: one of Frames when the card has *)
(* answered the last one, one of Interrupting at any time, or it keeps the    *)
(* line high.  It deselects the card between two bytes, also in the middle of *)
(* a transfer, and clocks it with the line high until it selects it again.    *)
EXTENDS SdCard, SequencesExt

CONSTANTS
  Frames,        \* the byte sequences the host may send
  Interrupting   \* those of them it sends without waiting for an answer

VARIABLE tx            \* bits of the current byte, then of the current frame

mcVars == <<vars, tx>>

Bits(byte) == [i \in 1 .. 8 |-> (byte \div 2 ^ (8 - i)) % 2]
FrameBits(frame) == FlattenSeq([i \in 1 .. Len(frame) |-> Bits(frame[i])])

Answered == /\ read_state = "IDLE" /\ write_state \in {"IDLE", "EXP_DTOKEN"}
            /\ byte_cnt > 5 + NCR + Len(reply_more)

\* A high line takes a whole byte once the first 0 has aligned the receiver.
MaySend ==
  IF sd_cs = 1 THEN {<<1>>}
  ELSE {IF synced THEN Bits(255) ELSE <<1>>}
         \cup {FrameBits(frame) : frame \in Interrupting \cup IF Answered THEN Frames ELSE {}}

MCInit == Init /\ tx = <<>>

\* With the falling edge the host puts its next bit on the line.
MCFall ==
  \E bits \in IF tx # <<>> THEN {tx} ELSE MaySend :
    SckFall(Head(bits)) /\ tx' = Tail(bits)

MCDeselect ==
  /\ bit_cnt = 0 /\ (Answered \/ read_state # "IDLE" \/ write_state # "IDLE")
  /\ Deselect(1) /\ tx' = <<>>

MCNext == \/ (SckRise \/ Select \/ IoNext) /\ UNCHANGED tx
          \/ MCFall
          \/ MCDeselect

MCSpec == MCInit /\ [][MCNext]_mcVars

\* Every byte of the configuration differs from the others and from a sector's;
\* its last one is the flag.
Config(flag) == [i \in 0 .. 2 * CidLen |-> IF i = 2 * CidLen THEN flag ELSE 17 + i]
BothConfigs == {Config(0), Config(1)}
SdhcConfig == {Config(1)}
MCSectors == {[i \in 0 .. SectorLen - 1 |-> 170 + i]}
Frame(c, arg) == <<c>> \o arg \o <<255>>
At0 == <<0, 0, 0, 0>>
At512 == <<0, 0, 2, 0>>
BlockFrames ==
  {Frame(CMD17, At512), Frame(CMD24, At0), <<254, 18, 52, 255, 255>>}
AllFrames ==
  {Frame(c, At512) : c \in {CMD0, CMD1, CMD9, CMD10, CMD16, CMD41, CMD55, CMD58}}
    \cup {Frame(CMD8, At0), Frame(CMD17, At0)} \cup BlockFrames
StartFrames == {Frame(CMD17, At512), Frame(CMD24, At0)}
ReadFrames == {Frame(CMD17, At512)}
=============================================================================
