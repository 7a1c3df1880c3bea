---------------------------- MODULE MCSdCardCtrl ----------------------------
(* A card for SdCardCtrl that answers in whole bytes, right or wrong, aligned *)
(* as the controller reads them.                                              *)
EXTENDS SdCardCtrl

CONSTANTS
  Responses,     \* first bytes of the answers to a command, all below 128
  BlockBytes,    \* bytes that may follow: the rest of an answer, or a block
  MaxResets,     \* how often reset_i may be pulsed
  EagerHost      \* does the host react before the controller's next cycle?

VARIABLES
  out,           \* the bits left of the byte on miso_i
  resets         \* resets so far

mcVars == <<vars, out, resets>>

\* Inside a block, bytes follow each other without a gap; a command response
\* begins with the first 0; the line is low while the card writes a block.
InBlock == {"RX_BITS", "RD_BLK", "WR_BLK", "GET_CMD8_RESPONSE"}
Answers ==
  CASE state_v' \in InBlock -> {ByteBits(byte) : byte \in BlockBytes \cup {255}}
    [] state_v' = "GET_CMD_RESPONSE" ->
            {<<1>>} \cup {ByteBits(byte) : byte \in Responses}
    [] state_v' = "WR_WAIT" -> {<<0>>, <<1>>}
    [] OTHER -> {<<1>>}

MCOutput ==
  IF sclk_r = HI /\ sclk_r' = LO
    THEN \E bits \in IF out # <<>> /\ state_v' # "DESELECT" THEN {out} ELSE Answers :
            miso_i' = Head(bits) /\ out' = Tail(bits)
    ELSE UNCHANGED <<miso_i, out>>

MCInit == Init /\ out = <<>> /\ resets = 0
HostReacts == HostRelease \/ HostAck \/ HostAckDone \/ HostDone
MayTick    == EagerHost => ~ENABLED HostReacts

MCReset == resets < MaxResets /\ resets' = resets + 1 /\ Reset

MCNext == \/ MCReset /\ MCOutput
          \/ MayTick /\ CtrlTick /\ MCOutput /\ UNCHANGED resets
          \/ HostStep /\ UNCHANGED <<out, resets>>
MCSpec == MCInit /\ [][MCNext]_mcVars
=============================================================================
