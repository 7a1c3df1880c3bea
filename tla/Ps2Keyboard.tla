---------------------------- MODULE Ps2Keyboard ----------------------------
(***************************************************************************)
(* The keyboard path of user_io.v: the IO controller stores key codes in a *)
(* FIFO over its SPI bus, a transmitter in the clock domain of ps2_clk     *)
(* sends them to the computer as PS/2 frames.                              *)
(*                                                                         *)
(* Grain: one action per byte from the IO controller and one per edge of   *)
(* ps2_clk; edges of the two clocks come one after the other.              *)
(***************************************************************************)
EXTENDS Integers, Sequences, FiniteSets

CONSTANTS
  FifoLen,        \* length of the FIFO: 2 ** PS2_FIFO_BITS, 8 in the code
  Codes,          \* key codes the IO controller sends
  MaxUnread       \* codes it sends ahead of the computer

ASSUME Ps2Assumption ==
  /\ FifoLen \in Nat \ {0} /\ MaxUnread \in Nat
  /\ Codes # {} /\ Codes \subseteq 0 .. 255

VARIABLES
  ps2_fifo, ps2_wptr,                          \* written on the SPI bus
  ps2_rptr, ps2_r_inc,                         \* the transmitter
  ps2_tx_state, ps2_tx_byte, ps2_parity,
  ps2_clk, ps2_kbd_data,
  frame,          \* the computer: bits of the frame it is receiving
  unread          \* history: codes sent whose frame has not been received

fifoVars == <<ps2_fifo, ps2_wptr>>
txVars   == <<ps2_rptr, ps2_r_inc, ps2_tx_state, ps2_tx_byte, ps2_parity, ps2_kbd_data>>
vars     == <<fifoVars, txVars, ps2_clk, frame, unread>>

-----------------------------------------------------------------------------

\* The low bits first.
CodeBits(code) == [i \in 1 .. 8 |-> (code \div 2 ^ (i - 1)) % 2]

\* Command 5 of the IO controller: nothing keeps it from overtaking ps2_rptr.
KeyByte ==
  /\ Len(unread) < MaxUnread
  /\ \E code \in Codes :
       /\ ps2_fifo' = [ps2_fifo EXCEPT ![ps2_wptr] = CodeBits(code)]
       /\ unread' = Append(unread, code)
  /\ ps2_wptr' = (ps2_wptr + 1) % FifoLen
  /\ UNCHANGED <<txVars, ps2_clk, frame>>

\* Mutant: the read pointer has a bit too many.
AdvanceWide == ps2_rptr' = IF ps2_r_inc THEN ps2_rptr + 1 ELSE ps2_rptr

\* The read pointer follows one clock after the byte was loaded.
Advance == ps2_rptr' = IF ps2_r_inc THEN (ps2_rptr + 1) % FifoLen ELSE ps2_rptr

\* Mutant: the read pointer moves when the FIFO is empty, too.
LoadAlways ==
  /\ ps2_tx_state = 0
  /\ Advance
  /\ ps2_tx_byte' = ps2_fifo[ps2_rptr]
  /\ ps2_r_inc' = TRUE
  /\ ps2_parity' = 1 /\ ps2_tx_state' = 1 /\ ps2_kbd_data' = 0

\* Mutant: the pointers are compared as if they never wrapped.
LoadUnwrapped ==
  /\ ps2_tx_state = 0
  /\ Advance
  /\ IF ps2_wptr > ps2_rptr
       THEN /\ ps2_tx_byte' = ps2_fifo[ps2_rptr]
            /\ ps2_r_inc' = TRUE
            /\ ps2_parity' = 1 /\ ps2_tx_state' = 1 /\ ps2_kbd_data' = 0
       ELSE /\ ps2_r_inc' = FALSE
            /\ UNCHANGED <<ps2_tx_byte, ps2_parity, ps2_tx_state, ps2_kbd_data>>

Load ==
  /\ ps2_tx_state = 0
  /\ Advance
  /\ IF ps2_wptr # ps2_rptr
       THEN /\ ps2_tx_byte' = ps2_fifo[ps2_rptr]
            /\ ps2_r_inc' = TRUE
            /\ ps2_parity' = 1 /\ ps2_tx_state' = 1 /\ ps2_kbd_data' = 0
       ELSE /\ ps2_r_inc' = FALSE
            /\ UNCHANGED <<ps2_tx_byte, ps2_parity, ps2_tx_state, ps2_kbd_data>>

\* Eight bits, parity and the stop bit.
Transmit ==
  /\ ps2_tx_state # 0
  /\ Advance /\ ps2_r_inc' = FALSE
  /\ ps2_kbd_data' = CASE ps2_tx_state \in 1 .. 8 -> ps2_tx_byte[1]
                       [] ps2_tx_state = 9        -> ps2_parity
                       [] ps2_tx_state = 10       -> 1
                       [] OTHER                   -> ps2_kbd_data
  /\ IF ps2_tx_state \in 1 .. 8
       THEN /\ ps2_tx_byte' = Tail(ps2_tx_byte) \o <<ps2_tx_byte[8]>>
            /\ ps2_parity' = IF ps2_tx_byte[1] = 1 THEN 1 - ps2_parity ELSE ps2_parity
       ELSE UNCHANGED <<ps2_tx_byte, ps2_parity>>
  /\ ps2_tx_state' = IF ps2_tx_state < 11 THEN ps2_tx_state + 1 ELSE 0

ClkRise ==
  /\ ps2_clk = 0 /\ ps2_clk' = 1
  /\ Load \/ Transmit
  /\ UNCHANGED <<fifoVars, frame, unread>>

\* ps2_kbd_clk follows ps2_clk unless the transmitter rests, and the computer
\* samples the data on its falling edge.
ClkFall ==
  /\ ps2_clk = 1 /\ ps2_clk' = 0
  /\ LET bits == Append(frame, ps2_kbd_data)
     IN CASE ps2_tx_state = 0 -> UNCHANGED <<frame, unread>>
          [] ps2_tx_state # 0 /\ Len(bits) < 11 -> frame' = bits /\ UNCHANGED unread
          [] OTHER -> frame' = <<>> /\ unread' = Tail(unread)
  /\ UNCHANGED <<fifoVars, txVars>>

Init ==
  /\ ps2_fifo = [i \in 0 .. FifoLen - 1 |-> CodeBits(0)] /\ ps2_wptr = 0
  /\ ps2_rptr = 0 /\ ps2_r_inc = FALSE
  /\ ps2_tx_state = 0 /\ ps2_tx_byte = CodeBits(0) /\ ps2_parity = 0
  /\ ps2_clk = 0 /\ ps2_kbd_data = 0
  /\ frame = <<>> /\ unread = <<>>

Next == KeyByte \/ ClkRise \/ ClkFall

\* ps2_clk comes from a PLL and never stops.
Spec == Init /\ [][Next]_vars /\ WF_vars(ClkRise) /\ WF_vars(ClkFall)

-----------------------------------------------------------------------------

Parity(code) == (1 + Cardinality({i \in 1 .. 8 : CodeBits(code)[i] = 1})) % 2

\* What a PS/2 keyboard sends for a code: start bit, code, odd parity, stop bit.
Ps2Frame(code) == <<0>> \o CodeBits(code) \o <<Parity(code), 1>>

TypeOK ==
  /\ ps2_wptr \in 0 .. FifoLen - 1 /\ ps2_rptr \in 0 .. FifoLen - 1
  /\ ps2_fifo \in [0 .. FifoLen - 1 -> [1 .. 8 -> {0, 1}]]
  /\ ps2_r_inc \in BOOLEAN /\ ps2_tx_state \in 0 .. 11
  /\ ps2_tx_byte \in [1 .. 8 -> {0, 1}]
  /\ ps2_parity \in {0, 1} /\ ps2_clk \in {0, 1} /\ ps2_kbd_data \in {0, 1}
  /\ Len(frame) \in 0 .. 10 /\ Len(unread) \in 0 .. MaxUnread

\* The computer receives the codes in the order in which they were sent, each
\* once and in a well-formed frame.
InOrder ==
  frame # <<>> =>
    unread # <<>> /\ frame = SubSeq(Ps2Frame(Head(unread)), 1, Len(frame))

\* Every code sent is received in the end.
Delivered == \A n \in 1 .. MaxUnread : Len(unread) = n ~> Len(unread) # n

=============================================================================
