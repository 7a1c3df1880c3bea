-------------------------- MODULE Ps2KeyboardProofs --------------------------
(***************************************************************************)
(* Proofs about Ps2Keyboard: type correctness for every FIFO, and, when    *)
(* the IO controller keeps the FIFO from overflowing, that the computer    *)
(* receives every code in order and in a well-formed frame.                *)
(***************************************************************************)
EXTENDS Ps2Keyboard, SequenceTheorems, FiniteSetTheorems, TLAPS

-----------------------------------------------------------------------------
(* Operators of the model                                                  *)

(* The divisors of CodeBits; powers of two are known only by their value.  *)
LEMMA PowerPositive == \A k \in 0 .. 7 : 2 ^ k \in Nat \ {0}
<1>1. /\ 2 ^ 0 = 1 /\ 2 ^ 1 = 2 /\ 2 ^ 2 = 4 /\ 2 ^ 3 = 8
      /\ 2 ^ 4 = 16 /\ 2 ^ 5 = 32 /\ 2 ^ 6 = 64 /\ 2 ^ 7 = 128
  OBVIOUS
<1>2. \A k \in 0 .. 7 : \/ k = 0 \/ k = 1 \/ k = 2 \/ k = 3
                        \/ k = 4 \/ k = 5 \/ k = 6 \/ k = 7
  OBVIOUS
<1>3. ASSUME NEW k \in 0 .. 7 PROVE 2 ^ k \in {1, 2, 4, 8, 16, 32, 64, 128}
  <2> DEFINE S == {1, 2, 4, 8, 16, 32, 64, 128}
  <2>1. /\ 2 ^ 0 \in S /\ 2 ^ 1 \in S /\ 2 ^ 2 \in S /\ 2 ^ 3 \in S
        /\ 2 ^ 4 \in S /\ 2 ^ 5 \in S /\ 2 ^ 6 \in S /\ 2 ^ 7 \in S
    BY <1>1
  <2> HIDE DEF S
  <2>2. 2 ^ k \in S
    BY <1>2, <2>1, Zenon
  <2> QED
    BY <2>2 DEF S
<1>4. ASSUME NEW k \in 0 .. 7 PROVE 2 ^ k \in Nat \ {0}
  <2> DEFINE p == 2 ^ k
  <2>1. p \in {1, 2, 4, 8, 16, 32, 64, 128}
    BY <1>3
  <2>2. p \in Nat \ {0}
    <3> HIDE DEF p
    <3> QED
      BY <2>1
  <2> QED
    BY <2>2
<1> QED
  BY <1>4

(* A sequence of bits of a known length is a function, and the other way.  *)
LEMMA BitSeq ==
  ASSUME NEW b, NEW n \in Nat
  PROVE  b \in [1 .. n -> {0, 1}] <=> b \in Seq({0, 1}) /\ Len(b) = n
<1>1. ASSUME b \in [1 .. n -> {0, 1}] PROVE b \in Seq({0, 1}) /\ Len(b) = n
  <2>1. b \in Seq({0, 1})
    BY <1>1, SeqDef
  <2> DEFINE m == Len(b)
  <2>2. m \in Nat /\ 1 .. m = 1 .. n
    BY <1>1, <2>1, LenProperties
  <2>3. m = n
    <3> HIDE DEF m
    <3>1. (m >= 1 => m \in 1 .. n) /\ (n >= 1 => n \in 1 .. m)
      BY <2>2
    <3> QED
      BY <2>2, <3>1
  <2> QED
    BY <2>1, <2>3
<1>2. ASSUME b \in Seq({0, 1}), Len(b) = n PROVE b \in [1 .. n -> {0, 1}]
  BY <1>2, LenProperties
<1> QED
  BY <1>1, <1>2

(* A code has eight bits.                                                  *)
LEMMA CodeBitsType ==
  ASSUME NEW code \in Int
  PROVE  CodeBits(code) \in [1 .. 8 -> {0, 1}]
<1> SUFFICES ASSUME NEW i \in 1 .. 8 PROVE (code \div 2 ^ (i - 1)) % 2 \in {0, 1}
  BY DEF CodeBits
<1>1. 2 ^ (i - 1) \in Nat \ {0}
  <2>1. i - 1 \in 0 .. 7
    OBVIOUS
  <2> QED
    BY <2>1, PowerPositive
<1>2. code \div 2 ^ (i - 1) \in Int
  BY <1>1
<1> QED
  BY <1>2

(* Bits of a code up to the n-th that are set, and the parity they give.   *)
Ones(code, n) == {i \in 1 .. n : CodeBits(code)[i] = 1}
ParityUpTo(code, n) == (1 + Cardinality(Ones(code, n))) % 2

LEMMA OnesFinite ==
  ASSUME NEW code, NEW n \in Nat
  PROVE  IsFiniteSet(Ones(code, n)) /\ Cardinality(Ones(code, n)) \in Nat
<1>1. IsFiniteSet(1 .. n) /\ Ones(code, n) \in SUBSET (1 .. n)
  BY FS_Interval DEF Ones
<1> QED
  BY <1>1, FS_Subset, FS_CardinalityType

LEMMA ParityStart ==
  ASSUME NEW code
  PROVE  ParityUpTo(code, 0) = 1
<1>1. Ones(code, 0) = {}
  BY DEF Ones
<1>2. Cardinality(Ones(code, 0)) = 0
  BY <1>1, FS_EmptySet
<1> QED
  BY <1>2 DEF ParityUpTo

LEMMA ParityStep ==
  ASSUME NEW code, NEW n \in 0 .. 7
  PROVE  ParityUpTo(code, n + 1) =
           IF CodeBits(code)[n + 1] = 1 THEN 1 - ParityUpTo(code, n) ELSE ParityUpTo(code, n)
<1>1. IsFiniteSet(Ones(code, n)) /\ Cardinality(Ones(code, n)) \in Nat
  BY OnesFinite
<1>2. CASE CodeBits(code)[n + 1] = 1
  <2>1. Ones(code, n + 1) = Ones(code, n) \cup {n + 1} /\ n + 1 \notin Ones(code, n)
    BY <1>2 DEF Ones
  <2>2. Cardinality(Ones(code, n + 1)) = Cardinality(Ones(code, n)) + 1
    BY <1>1, <2>1, FS_AddElement
  <2>3. \A c \in Nat : (1 + (c + 1)) % 2 = 1 - ((1 + c) % 2)
    OBVIOUS
  <2> QED
    BY <1>1, <1>2, <2>2, <2>3 DEF ParityUpTo
<1>3. CASE CodeBits(code)[n + 1] # 1
  <2>1. Ones(code, n + 1) = Ones(code, n)
    BY <1>3 DEF Ones
  <2> QED
    BY <1>3, <2>1 DEF ParityUpTo
<1> QED
  BY <1>2, <1>3

LEMMA ParityType ==
  ASSUME NEW code
  PROVE  Parity(code) = ParityUpTo(code, 8) /\ Parity(code) \in {0, 1}
<1>1. Parity(code) = ParityUpTo(code, 8)
  BY DEF Parity, ParityUpTo, Ones
<1>2. Cardinality(Ones(code, 8)) \in Nat
  <2>1. 8 \in Nat
    OBVIOUS
  <2> QED
    BY <2>1, OnesFinite
<1>3. \A c \in Nat : (1 + c) % 2 \in {0, 1}
  OBVIOUS
<1> QED
  BY <1>1, <1>2, <1>3 DEF ParityUpTo

(* Bits after bits.                                                        *)
LEMMA BitsConcat ==
  ASSUME NEW s \in Seq({0, 1}), NEW t \in Seq({0, 1})
  PROVE  /\ s \o t \in Seq({0, 1}) /\ Len(s \o t) = Len(s) + Len(t)
         /\ \A i \in 1 .. Len(s) + Len(t) :
              (s \o t)[i] = IF i <= Len(s) THEN s[i] ELSE t[i - Len(s)]
BY ConcatProperties

(* The bits of a frame.                                                    *)
LEMMA FrameBits ==
  ASSUME NEW code \in Int
  PROVE  /\ Ps2Frame(code) \in Seq({0, 1}) /\ Len(Ps2Frame(code)) = 11
         /\ Ps2Frame(code)[1] = 0
         /\ \A i \in 1 .. 8 : Ps2Frame(code)[i + 1] = CodeBits(code)[i]
         /\ Ps2Frame(code)[10] = Parity(code)
         /\ Ps2Frame(code)[11] = 1
<1> DEFINE s == <<0>>
           b == CodeBits(code)
           p == Parity(code)
           e == <<p, 1>>
<1>1. /\ s \in Seq({0, 1}) /\ Len(s) = 1 /\ s[1] = 0
      /\ b \in Seq({0, 1}) /\ Len(b) = 8
      /\ e \in Seq({0, 1}) /\ Len(e) = 2 /\ e[1] = p /\ e[2] = 1
  <2>1. b \in Seq({0, 1}) /\ Len(b) = 8
    BY CodeBitsType, BitSeq
  <2>2. p \in {0, 1}
    BY ParityType
  <2>3. e \in Seq({0, 1}) /\ Len(e) = 2 /\ e[1] = p /\ e[2] = 1
    <3> HIDE DEF p
    <3> QED
      BY <2>2
  <2> QED
    BY <2>1, <2>3
<1>2. Ps2Frame(code) = s \o b \o e
  BY DEF Ps2Frame
<1> HIDE DEF s, b, e
<1> DEFINE h == s \o b
<1>3. /\ h \in Seq({0, 1}) /\ Len(h) = 9
      /\ \A i \in 1 .. 9 : h[i] = IF i <= 1 THEN s[i] ELSE b[i - 1]
  <2>1. /\ s \o b \in Seq({0, 1}) /\ Len(s \o b) = Len(s) + Len(b)
        /\ \A i \in 1 .. Len(s) + Len(b) :
             (s \o b)[i] = IF i <= Len(s) THEN s[i] ELSE b[i - Len(s)]
    BY <1>1, BitsConcat
  <2>2. Len(s) + Len(b) = 9
    BY <1>1
  <2> DEFINE c == s \o b
  <2>3. c \in Seq({0, 1}) /\ Len(c) = 9
        /\ \A i \in 1 .. 9 : c[i] = IF i <= Len(s) THEN s[i] ELSE b[i - Len(s)]
    BY <2>1, <2>2
  <2> HIDE DEF c
  <2>4. \A i \in 1 .. 9 : c[i] = IF i <= 1 THEN s[i] ELSE b[i - 1]
    BY <1>1, <2>3
  <2> QED
    BY <2>3, <2>4 DEF c
<1> HIDE DEF h
<1>4. /\ h \o e \in Seq({0, 1}) /\ Len(h \o e) = 11
      /\ \A i \in 1 .. 11 : (h \o e)[i] = IF i <= 9 THEN h[i] ELSE e[i - 9]
  <2>1. /\ h \o e \in Seq({0, 1}) /\ Len(h \o e) = Len(h) + Len(e)
        /\ \A i \in 1 .. Len(h) + Len(e) :
             (h \o e)[i] = IF i <= Len(h) THEN h[i] ELSE e[i - Len(h)]
    BY <1>1, <1>3, BitsConcat
  <2>2. Len(h) + Len(e) = 11
    BY <1>1, <1>3
  <2> DEFINE c == h \o e
  <2>3. c \in Seq({0, 1}) /\ Len(c) = 11
        /\ \A i \in 1 .. 11 : c[i] = IF i <= Len(h) THEN h[i] ELSE e[i - Len(h)]
    BY <2>1, <2>2
  <2> HIDE DEF c
  <2>4. \A i \in 1 .. 11 : c[i] = IF i <= 9 THEN h[i] ELSE e[i - 9]
    BY <1>1, <1>3, <2>3
  <2> QED
    BY <2>3, <2>4 DEF c
<1>5. Ps2Frame(code) = h \o e
  BY <1>2 DEF h
<1>6. \A i \in 1 .. 8 : (h \o e)[i + 1] = b[i]
  BY <1>3, <1>4, SMTT(20)
<1>7. (h \o e)[1] = 0 /\ (h \o e)[10] = e[1] /\ (h \o e)[11] = e[2]
  BY <1>1, <1>3, <1>4, SMTT(20)
<1> QED
  BY <1>1, <1>4, <1>5, <1>6, <1>7 DEF b, p

(* The shift register after a bit was sent.                                *)
LEMMA ShiftBits ==
  ASSUME NEW byte \in [1 .. 8 -> {0, 1}]
  PROVE  /\ Tail(byte) \o <<byte[8]>> \in [1 .. 8 -> {0, 1}]
         /\ \A i \in 1 .. 7 : (Tail(byte) \o <<byte[8]>>)[i] = byte[i + 1]
<1> DEFINE t == Tail(byte)
           e == <<byte[8]>>
<1>1. byte \in Seq({0, 1}) /\ Len(byte) = 8
  BY BitSeq
<1>2. byte # << >>
  <2>1. Len(<< >>) = 0
    OBVIOUS
  <2> QED
    BY <1>1, <2>1
<1>3. t \in Seq({0, 1}) /\ Len(t) = 7 /\ \A i \in 1 .. 7 : t[i] = byte[i + 1]
  <2>1. t \in Seq({0, 1}) /\ Len(t) = Len(byte) - 1
        /\ \A i \in 1 .. Len(t) : t[i] = byte[i + 1]
    BY <1>1, <1>2, HeadTailProperties
  <2>2. Len(t) = 7
    BY <1>1, <2>1
  <2> QED
    BY <2>1, <2>2
<1>4. e \in Seq({0, 1}) /\ Len(e) = 1
  OBVIOUS
<1> HIDE DEF t, e
<1>5. /\ t \o e \in Seq({0, 1}) /\ Len(t \o e) = 8
      /\ \A i \in 1 .. 7 : (t \o e)[i] = t[i]
  <2>1. /\ t \o e \in Seq({0, 1}) /\ Len(t \o e) = Len(t) + Len(e)
        /\ \A i \in 1 .. Len(t) + Len(e) :
             (t \o e)[i] = IF i <= Len(t) THEN t[i] ELSE e[i - Len(t)]
    BY <1>3, <1>4, BitsConcat
  <2> QED
    BY <1>3, <1>4, <2>1
<1>6. t \o e \in [1 .. 8 -> {0, 1}]
  BY <1>5, BitSeq
<1>7. \A i \in 1 .. 7 : (t \o e)[i] = byte[i + 1]
  BY <1>3, <1>5
<1> QED
  BY <1>6, <1>7 DEF t, e

(* The place after a place of the FIFO.                                    *)
After(p) == (p + 1) % FifoLen

LEMMA AfterPlace ==
  ASSUME NEW p \in 0 .. FifoLen - 1
  PROVE  /\ After(p) \in 0 .. FifoLen - 1
         /\ After(p) = IF p + 1 = FifoLen THEN 0 ELSE p + 1
<1>1. FifoLen \in Nat \ {0}
  BY Ps2Assumption DEF Ps2Assumption
<1>2. \A n \in Nat \ {0} : n % n = 0 /\ \A x \in 0 .. n - 1 : x % n = x
  BY SMT
<1>3. CASE p + 1 = FifoLen
  BY <1>1, <1>2, <1>3 DEF After
<1>4. CASE p + 1 # FifoLen
  <2>1. p + 1 \in 0 .. FifoLen - 1
    BY <1>1, <1>4
  <2> QED
    BY <1>1, <1>2, <1>4, <2>1 DEF After
<1> QED
  BY <1>1, <1>3, <1>4

-----------------------------------------------------------------------------
(* The invariant that holds for every FIFO, an overflowing one too         *)

(* A code is on its way: its frame has begun, and its last bit has not     *)
(* been received.                                                          *)
Sending == ps2_tx_state \in 1 .. 10 \/ (ps2_tx_state = 11 /\ ps2_clk = 1)

(* Codes that have been stored and whose frame has not begun.              *)
Waiting == IF Sending THEN Len(unread) - 1 ELSE Len(unread)

(* The place the next frame is read from: ps2_rptr is one clock late.      *)
NextRead == IF ps2_r_inc THEN After(ps2_rptr) ELSE ps2_rptr

(* Codes in the FIFO, as far as the pointers tell.                         *)
Distance == IF ps2_wptr >= NextRead THEN ps2_wptr - NextRead
                                    ELSE ps2_wptr - NextRead + FifoLen

PlaceType ==
  /\ ps2_wptr \in 0 .. FifoLen - 1 /\ ps2_rptr \in 0 .. FifoLen - 1
  /\ ps2_r_inc \in BOOLEAN /\ (ps2_r_inc => ps2_tx_state = 1)

TxType ==
  /\ ps2_tx_state \in 0 .. 11 /\ ps2_tx_byte \in [1 .. 8 -> {0, 1}]
  /\ ps2_parity \in {0, 1} /\ ps2_clk \in {0, 1} /\ ps2_kbd_data \in {0, 1}
  /\ ps2_fifo \in [0 .. FifoLen - 1 -> [1 .. 8 -> {0, 1}]]

SeqType == frame \in Seq({0, 1}) /\ unread \in Seq(Codes) /\ Len(unread) <= MaxUnread

(* The bits of the frame that have been received, by the transmitter's     *)
(* state and the phase of its clock.                                       *)
Received == Len(frame) = IF ps2_tx_state = 0 THEN 0
                         ELSE IF ps2_clk = 1 THEN ps2_tx_state - 1
                         ELSE IF ps2_tx_state = 11 THEN 0 ELSE ps2_tx_state

(* The pointers never promise more codes than there are.                   *)
Backed == Distance <= Waiting

LineInv == PlaceType /\ TxType /\ SeqType /\ Received /\ Backed

LEMMA Bounds == FifoLen \in Nat \ {0} /\ MaxUnread \in Nat /\ Codes \subseteq 0 .. 255
BY Ps2Assumption DEF Ps2Assumption

LEMMA PlaceFacts ==
  ASSUME PlaceType
  PROVE  /\ NextRead \in 0 .. FifoLen - 1 /\ Distance \in 0 .. FifoLen - 1
         /\ Distance = 0 <=> ps2_wptr = NextRead
<1>1. NextRead \in 0 .. FifoLen - 1
  BY AfterPlace DEF PlaceType, NextRead
<1>2. ps2_wptr \in 0 .. FifoLen - 1
  BY DEF PlaceType
<1> DEFINE r == NextRead
<1>3. r \in 0 .. FifoLen - 1 /\ Distance = IF ps2_wptr >= r THEN ps2_wptr - r
                                           ELSE ps2_wptr - r + FifoLen
  BY <1>1 DEF Distance
<1> HIDE DEF r
<1>4. Distance \in 0 .. FifoLen - 1 /\ (Distance = 0 <=> ps2_wptr = r)
  BY <1>2, <1>3, Bounds
<1> QED
  BY <1>1, <1>4 DEF r

(* A code more: it is waiting, and the write pointer moves on.             *)
LEMMA KeyByteLine ==
  ASSUME LineInv, KeyByte
  PROVE  LineInv'
<1> PICK code \in Codes : /\ ps2_fifo' = [ps2_fifo EXCEPT ![ps2_wptr] = CodeBits(code)]
                          /\ unread' = Append(unread, code)
  BY DEF KeyByte
<1>1. /\ Len(unread) < MaxUnread /\ ps2_wptr' = After(ps2_wptr)
      /\ UNCHANGED <<txVars, ps2_clk, frame>>
  BY DEF KeyByte, After
<1>2. unread' \in Seq(Codes) /\ Len(unread') = Len(unread) + 1 /\ Len(unread) \in Nat
  BY AppendProperties, LenProperties DEF LineInv, SeqType
<1>3. CodeBits(code) \in [1 .. 8 -> {0, 1}]
  BY Bounds, CodeBitsType
<1>4. PlaceType' /\ TxType'
  <2>1. ps2_wptr' \in 0 .. FifoLen - 1
    BY <1>1, AfterPlace DEF LineInv, PlaceType
  <2> QED
    BY <1>1, <1>3, <2>1 DEF LineInv, PlaceType, TxType, txVars
<1>5. SeqType'
  BY <1>1, <1>2, Bounds DEF LineInv, SeqType
<1>6. Received'
  BY <1>1 DEF LineInv, Received, txVars
<1>7. NextRead' = NextRead /\ Sending' = Sending
  BY <1>1 DEF NextRead, Sending, txVars
<1>8. Waiting' = Waiting + 1
  BY <1>2, <1>7 DEF Waiting
<1>9. Distance' <= Distance + 1
  <2> DEFINE r == NextRead
             w == ps2_wptr
             v == ps2_wptr'
  <2>1. /\ r \in 0 .. FifoLen - 1 /\ w \in 0 .. FifoLen - 1
        /\ v = IF w + 1 = FifoLen THEN 0 ELSE w + 1
    BY <1>1, PlaceFacts, AfterPlace DEF LineInv, PlaceType
  <2>2. /\ Distance = IF w >= r THEN w - r ELSE w - r + FifoLen
        /\ Distance' = IF v >= r THEN v - r ELSE v - r + FifoLen
    BY <1>7 DEF Distance
  <2> HIDE DEF r, w, v
  <2> QED
    BY <2>1, <2>2, Bounds
<1>10. Backed'
  <2>1. Waiting \in Int /\ Distance \in Int /\ Distance' \in Int
    <3>1. Waiting \in Int
      BY <1>2 DEF Waiting
    <3>2. Distance' \in Int
      <4>1. ps2_wptr' \in Int /\ NextRead' \in Int /\ FifoLen \in Int
        BY <1>4, <1>7, PlaceFacts, Bounds DEF LineInv, PlaceType
      <4> QED
        BY <4>1 DEF Distance
    <3> QED
      BY <3>1, <3>2, PlaceFacts DEF LineInv
  <2> QED
    BY <1>8, <1>9, <2>1 DEF LineInv, Backed
<1> QED
  BY <1>4, <1>5, <1>6, <1>10 DEF LineInv

(* A rising edge of the clock with nothing to send, or with the start bit  *)
(* of a frame.                                                             *)
LEMMA LoadLine ==
  ASSUME LineInv, ClkRise, Load
  PROVE  LineInv'
<1>1. /\ ps2_tx_state = 0 /\ ps2_clk = 0 /\ ps2_clk' = 1 /\ UNCHANGED <<fifoVars, frame, unread>>
  BY DEF ClkRise, Load
<1>2. ~ps2_r_inc /\ NextRead = ps2_rptr /\ ps2_rptr' = ps2_rptr
  BY <1>1 DEF LineInv, PlaceType, NextRead, Load, Advance
<1>3. Waiting = Len(unread) /\ Len(unread) \in Nat
  BY <1>1, LenProperties DEF Waiting, Sending, LineInv, SeqType
<1>4. SeqType'
  BY <1>1 DEF LineInv, SeqType
<1>5. CASE ps2_wptr = ps2_rptr
  <2>1. ps2_r_inc' = FALSE /\ UNCHANGED <<ps2_tx_byte, ps2_parity, ps2_tx_state, ps2_kbd_data>>
    BY <1>5 DEF Load
  <2>2. PlaceType' /\ TxType' /\ Received'
    BY <1>1, <1>2, <2>1 DEF LineInv, PlaceType, TxType, Received, fifoVars
  <2>3. Distance' = Distance /\ Waiting' = Waiting
    BY <1>1, <1>2, <2>1 DEF Distance, NextRead, Waiting, Sending, fifoVars
  <2> QED
    BY <1>4, <2>2, <2>3 DEF LineInv, Backed
<1>6. CASE ps2_wptr # ps2_rptr
  <2>1. /\ ps2_tx_byte' = ps2_fifo[ps2_rptr] /\ ps2_r_inc' = TRUE
        /\ ps2_parity' = 1 /\ ps2_tx_state' = 1 /\ ps2_kbd_data' = 0
    BY <1>6 DEF Load
  <2>2. PlaceType' /\ TxType' /\ Received'
    BY <1>1, <1>2, <2>1 DEF LineInv, PlaceType, TxType, Received, fifoVars
  <2>3. Waiting' = Waiting - 1
    BY <1>1, <1>3, <2>1 DEF Waiting, Sending
  <2>4. Distance' = Distance - 1
    <3> DEFINE r == ps2_rptr
               s == NextRead'
               w == ps2_wptr
    <3>1. /\ r \in 0 .. FifoLen - 1 /\ w \in 0 .. FifoLen - 1 /\ w # r
          /\ s = IF r + 1 = FifoLen THEN 0 ELSE r + 1
      BY <1>2, <1>6, <2>1, AfterPlace DEF LineInv, PlaceType, NextRead
    <3>2. /\ Distance = IF w >= r THEN w - r ELSE w - r + FifoLen
          /\ Distance' = IF w >= s THEN w - s ELSE w - s + FifoLen
      BY <1>1, <1>2 DEF Distance, fifoVars
    <3> HIDE DEF r, s, w
    <3> QED
      BY <3>1, <3>2, Bounds
  <2>5. Distance \in Int /\ Waiting \in Int
    BY <1>3, PlaceFacts DEF LineInv
  <2> QED
    BY <1>4, <2>2, <2>3, <2>4, <2>5 DEF LineInv, Backed
<1> QED
  BY <1>5, <1>6

(* A rising edge of the clock within a frame.                              *)
LEMMA TransmitLine ==
  ASSUME LineInv, ClkRise, Transmit
  PROVE  LineInv'
<1>1. /\ ps2_tx_state # 0 /\ ps2_clk = 0 /\ ps2_clk' = 1 /\ UNCHANGED <<fifoVars, frame, unread>>
      /\ ps2_rptr' = (IF ps2_r_inc THEN After(ps2_rptr) ELSE ps2_rptr) /\ ps2_r_inc' = FALSE
      /\ ps2_tx_state' = (IF ps2_tx_state < 11 THEN ps2_tx_state + 1 ELSE 0)
  BY DEF ClkRise, Transmit, Advance, After
<1>2. NextRead' = NextRead /\ ps2_rptr' \in 0 .. FifoLen - 1
  BY <1>1, AfterPlace DEF NextRead, LineInv, PlaceType
<1>3. ps2_tx_byte' \in [1 .. 8 -> {0, 1}] /\ ps2_parity' \in {0, 1}
  <2>1. CASE ps2_tx_state \in 1 .. 8
    <3>1. ps2_tx_byte' = Tail(ps2_tx_byte) \o <<ps2_tx_byte[8]>>
          /\ ps2_parity' = IF ps2_tx_byte[1] = 1 THEN 1 - ps2_parity ELSE ps2_parity
      BY <2>1 DEF Transmit
    <3> QED
      BY <3>1, ShiftBits DEF LineInv, TxType
  <2>2. CASE ps2_tx_state \notin 1 .. 8
    BY <2>2 DEF Transmit, LineInv, TxType
  <2> QED
    BY <2>1, <2>2
<1>4. ps2_kbd_data' \in {0, 1}
  <2>1. ps2_tx_byte[1] \in {0, 1}
    BY DEF LineInv, TxType
  <2>2. ps2_kbd_data' \in {ps2_tx_byte[1], ps2_parity, 1, ps2_kbd_data}
    BY DEF Transmit
  <2> QED
    BY <2>1, <2>2 DEF LineInv, TxType
<1>5. PlaceType' /\ TxType'
  <2>1. ps2_tx_state' \in 0 .. 11
    BY <1>1 DEF LineInv, TxType
  <2> QED
    BY <1>1, <1>2, <1>3, <1>4, <2>1 DEF LineInv, PlaceType, TxType, fifoVars
<1>6. SeqType' /\ Received'
  BY <1>1 DEF LineInv, SeqType, Received, TxType
<1>7. Sending' <=> Sending
  BY <1>1 DEF Sending, LineInv, TxType
<1>8. Distance' = Distance /\ Waiting' = Waiting
  BY <1>1, <1>2, <1>7 DEF Distance, Waiting, fifoVars
<1> QED
  BY <1>5, <1>6, <1>8 DEF LineInv, Backed

(* A falling edge: the computer receives a bit, and after the last one the *)
(* code has been received.                                                 *)
LEMMA FallLine ==
  ASSUME LineInv, ClkFall
  PROVE  LineInv'
<1>1. ps2_clk = 1 /\ ps2_clk' = 0 /\ UNCHANGED <<fifoVars, txVars>>
  BY DEF ClkFall
<1> DEFINE bits == Append(frame, ps2_kbd_data)
<1>2. bits \in Seq({0, 1}) /\ Len(bits) = Len(frame) + 1 /\ Len(frame) \in Nat
  BY AppendProperties, LenProperties DEF LineInv, SeqType, TxType
<1>3. PlaceType' /\ TxType' /\ NextRead' = NextRead /\ Distance' = Distance
  BY <1>1 DEF LineInv, PlaceType, TxType, NextRead, Distance, fifoVars, txVars
<1>4. ps2_tx_state' = ps2_tx_state /\ ps2_tx_state \in 0 .. 11
  BY <1>1 DEF txVars, LineInv, TxType
<1>5. Len(frame) = IF ps2_tx_state = 0 THEN 0 ELSE ps2_tx_state - 1
  BY <1>1 DEF LineInv, Received
<1>6. CASE ps2_tx_state = 0
  <2>1. UNCHANGED <<frame, unread>>
    BY <1>6 DEF ClkFall
  <2>2. SeqType' /\ Received'
    BY <1>4, <1>5, <1>6, <2>1 DEF LineInv, SeqType, Received
  <2>3. Waiting' = Waiting
    BY <1>4, <1>6, <2>1 DEF Waiting, Sending
  <2> QED
    BY <1>3, <2>2, <2>3 DEF LineInv, Backed
<1>7. CASE ps2_tx_state \in 1 .. 10
  <2>1. frame' = bits /\ UNCHANGED unread
    BY <1>2, <1>5, <1>7 DEF ClkFall
  <2>2. SeqType' /\ Received'
    BY <1>1, <1>2, <1>4, <1>5, <1>7, <2>1 DEF LineInv, SeqType, Received
  <2>3. Waiting' = Waiting
    BY <1>4, <1>7, <2>1 DEF Waiting, Sending
  <2> QED
    BY <1>3, <2>2, <2>3 DEF LineInv, Backed
<1>8. CASE ps2_tx_state = 11
  <2>1. frame' = << >> /\ unread' = Tail(unread)
    BY <1>2, <1>5, <1>8 DEF ClkFall
  <2>2. Waiting = Len(unread) - 1 /\ Waiting >= 0
    BY <1>1, <1>8, PlaceFacts, LenProperties DEF Waiting, Sending, LineInv, Backed,
       SeqType
  <2>3. unread # << >>
    <3>1. Len(<< >>) = 0
      OBVIOUS
    <3> QED
      BY <2>2, <3>1
  <2>4. unread' \in Seq(Codes) /\ Len(unread') = Len(unread) - 1 /\ Len(unread) \in Nat
    BY <2>1, <2>3, HeadTailProperties, LenProperties DEF LineInv, SeqType
  <2>5. frame' \in Seq({0, 1}) /\ Len(frame') = 0
    BY <2>1
  <2>6. SeqType' /\ Received'
    BY <1>1, <1>4, <1>8, <2>4, <2>5, Bounds DEF LineInv, SeqType, Received
  <2>7. ~Sending'
    BY <1>1, <1>4, <1>8 DEF Sending
  <2>8. Waiting' = Waiting
    BY <2>2, <2>4, <2>7 DEF Waiting
  <2> QED
    BY <1>3, <2>6, <2>8 DEF LineInv, Backed
<1> QED
  BY <1>4, <1>6, <1>7, <1>8

LEMMA InitLine == Init => LineInv
<1> SUFFICES ASSUME Init PROVE LineInv
  OBVIOUS
<1>1. /\ ps2_wptr = 0 /\ ps2_rptr = 0 /\ ps2_r_inc = FALSE /\ ps2_tx_state = 0
      /\ ps2_clk = 0 /\ frame = << >> /\ unread = << >> /\ ps2_parity = 0
      /\ ps2_kbd_data = 0
  BY DEF Init
<1>2. CodeBits(0) \in [1 .. 8 -> {0, 1}]
  BY CodeBitsType
<1>3. TxType
  BY <1>1, <1>2 DEF Init, TxType
<1>4. PlaceType
  <2>1. 0 \in 0 .. FifoLen - 1
    BY Bounds
  <2> QED
    BY <1>1, <2>1 DEF PlaceType
<1>5. Len(unread) = 0 /\ Len(frame) = 0 /\ frame \in Seq({0, 1}) /\ unread \in Seq(Codes)
  BY <1>1
<1>6. SeqType /\ Received
  BY <1>1, <1>5, Bounds DEF SeqType, Received
<1>7. Backed
  BY <1>1, <1>5 DEF Backed, Distance, NextRead, Waiting, Sending
<1> QED
  BY <1>3, <1>4, <1>6, <1>7 DEF LineInv

LEMMA NextLine == LineInv /\ [Next]_vars => LineInv'
<1> SUFFICES ASSUME LineInv, [Next]_vars PROVE LineInv'
  OBVIOUS
<1>1. CASE KeyByte
  BY <1>1, KeyByteLine
<1>2. CASE ClkRise
  BY <1>2, LoadLine, TransmitLine DEF ClkRise
<1>3. CASE ClkFall
  BY <1>3, FallLine
<1>4. CASE UNCHANGED vars
  BY <1>4 DEF LineInv, PlaceType, TxType, SeqType, Received, Backed, Distance,
     NextRead, Waiting, Sending, vars, fifoVars, txVars
<1> QED
  BY <1>1, <1>2, <1>3, <1>4 DEF Next

LEMMA LineInvHolds == Spec => []LineInv
BY InitLine, NextLine, PTL DEF Spec

(* Every register holds a value of its type, whatever the length of the    *)
(* FIFO and however many codes are sent ahead: when the FIFO overflows     *)
(* codes are lost, but no frame is sent for a code that was never stored.  *)
THEOREM KeyboardTypeCorrect == Spec => []TypeOK
<1>1. LineInv => TypeOK
  <2> SUFFICES ASSUME LineInv PROVE TypeOK
    OBVIOUS
  <2>1. Len(frame) \in 0 .. 10
    BY DEF LineInv, Received, TxType
  <2>2. Len(unread) \in 0 .. MaxUnread
    BY LenProperties, Bounds DEF LineInv, SeqType
  <2> QED
    BY <2>1, <2>2 DEF LineInv, PlaceType, TxType, TypeOK
<1> QED
  BY <1>1, LineInvHolds, PTL


-----------------------------------------------------------------------------
(* A FIFO that does not overflow                                           *)

Roomy == MaxUnread < FifoLen

(* The place j places after place p, and the code that is being sent, as   *)
(* a number: the waiting codes come after it.                              *)
Slot(p, j) == IF p + j < FifoLen THEN p + j ELSE p + j - FifoLen
First      == IF Sending THEN 1 ELSE 0

(* The write pointer is as far ahead as there are codes waiting, and every *)
(* place between the pointers holds the code it should.                    *)
Pointers == ps2_wptr = Slot(NextRead, Waiting)
Content  == \A j \in 0 .. Waiting - 1 :
              ps2_fifo[Slot(NextRead, j)] = CodeBits(unread[First + 1 + j])

(* The transmitter is sending code c: what it has still to send, the       *)
(* parity of what it has sent, the bit on the line, and the bits received. *)
ShiftOf(c)  == ps2_tx_state \in 1 .. 8 =>
                 \A i \in 1 .. 9 - ps2_tx_state :
                   ps2_tx_byte[i] = CodeBits(c)[i + ps2_tx_state - 1]
ParityOf(c) == ps2_tx_state \in 1 .. 9 => ps2_parity = ParityUpTo(c, ps2_tx_state - 1)
LineOf(c)   == ps2_clk = 1 => ps2_kbd_data = Ps2Frame(c)[ps2_tx_state]
FrameOf(c)  == \A i \in 1 .. Len(frame) : frame[i] = Ps2Frame(c)[i]

InFlight == Sending => LET c == unread[1] IN ShiftOf(c) /\ ParityOf(c) /\ LineOf(c) /\ FrameOf(c)

OrderInv == LineInv /\ Pointers /\ Content /\ InFlight

LEMMA CodesInt == \A k \in Codes : k \in Int
BY Bounds

LEMMA UnreadFacts ==
  ASSUME LineInv
  PROVE  /\ Waiting \in 0 .. MaxUnread /\ First \in 0 .. 1
         /\ Len(unread) \in Nat /\ Len(unread) = Waiting + First
         /\ unread \in Seq(Codes) /\ (Sending => Len(unread) >= 1)
         /\ NextRead \in 0 .. FifoLen - 1
<1>1. unread \in Seq(Codes) /\ Len(unread) \in Nat /\ Len(unread) <= MaxUnread
  BY LenProperties DEF LineInv, SeqType
<1>2. Distance >= 0 /\ Distance \in Int /\ Distance <= Waiting /\ NextRead \in 0 .. FifoLen - 1
  BY PlaceFacts, Bounds DEF LineInv, Backed
<1>3. /\ Waiting = IF Sending THEN Len(unread) - 1 ELSE Len(unread)
      /\ First = IF Sending THEN 1 ELSE 0
  BY DEF Waiting, First
<1> QED
  BY <1>1, <1>2, <1>3, Bounds

LEMMA SlotFacts ==
  ASSUME NEW p \in 0 .. FifoLen - 1, NEW j \in 0 .. FifoLen - 1
  PROVE  /\ Slot(p, j) \in 0 .. FifoLen - 1
         /\ Slot(p, 0) = p
         /\ j > 0 => Slot(p, j) # p
         /\ \A i \in 0 .. j - 1 : Slot(p, i) # Slot(p, j)
         /\ j + 1 < FifoLen => /\ After(Slot(p, j)) = Slot(p, j + 1)
                               /\ Slot(After(p), j) = Slot(p, j + 1)
<1>1. /\ Slot(p, j) \in 0 .. FifoLen - 1 /\ Slot(p, 0) = p /\ (j > 0 => Slot(p, j) # p)
      /\ \A i \in 0 .. j - 1 : Slot(p, i) # Slot(p, j)
  BY Bounds DEF Slot
<1>2. ASSUME j + 1 < FifoLen
      PROVE  After(Slot(p, j)) = Slot(p, j + 1) /\ Slot(After(p), j) = Slot(p, j + 1)
  <2> DEFINE s == Slot(p, j)
             a == After(p)
             b == After(s)
  <2>1. s \in 0 .. FifoLen - 1 /\ s = IF p + j < FifoLen THEN p + j ELSE p + j - FifoLen
    BY <1>1 DEF Slot
  <2>2. a \in 0 .. FifoLen - 1 /\ a = IF p + 1 = FifoLen THEN 0 ELSE p + 1
    BY AfterPlace
  <2>3. b = IF s + 1 = FifoLen THEN 0 ELSE s + 1
    BY <2>1, AfterPlace
  <2> HIDE DEF s, a, b
  <2>4. b = Slot(p, j + 1) /\ Slot(a, j) = Slot(p, j + 1)
    BY <1>2, <2>1, <2>2, <2>3, Bounds DEF Slot
  <2> QED
    BY <2>4 DEF a, b, s
<1> QED
  BY <1>1, <1>2

(* A code more is stored behind the last one, where none is waiting.       *)
LEMMA KeyByteOrder ==
  ASSUME Roomy, OrderInv, KeyByte
  PROVE  Pointers' /\ Content' /\ InFlight'
<1> PICK code \in Codes : /\ ps2_fifo' = [ps2_fifo EXCEPT ![ps2_wptr] = CodeBits(code)]
                          /\ unread' = Append(unread, code)
  BY DEF KeyByte
<1>1. /\ Len(unread) < MaxUnread /\ ps2_wptr' = After(ps2_wptr)
      /\ UNCHANGED <<txVars, ps2_clk, frame>>
  BY DEF KeyByte, After
<1>2. NextRead' = NextRead /\ (Sending' <=> Sending) /\ First' = First
  BY <1>1 DEF NextRead, Sending, First, txVars
<1>3. /\ Waiting \in 0 .. MaxUnread - 1 /\ Waiting + 1 < FifoLen /\ First \in 0 .. 1
      /\ Len(unread) = Waiting + First /\ NextRead \in 0 .. FifoLen - 1
      /\ Len(unread) \in Nat
  BY <1>1, UnreadFacts, Bounds DEF OrderInv, Roomy
<1>4. /\ Len(unread') = Len(unread) + 1 /\ unread'[Len(unread) + 1] = code
      /\ \A i \in 1 .. Len(unread) : unread'[i] = unread[i]
  BY AppendProperties, UnreadFacts DEF OrderInv
<1>5. Waiting' = Waiting + 1
  BY <1>2, <1>3, <1>4 DEF Waiting
<1>6. Pointers'
  <2>1. ps2_wptr' = After(Slot(NextRead, Waiting))
    BY <1>1 DEF OrderInv, Pointers
  <2>2. Waiting \in 0 .. FifoLen - 1
    BY <1>3, Bounds
  <2>3. After(Slot(NextRead, Waiting)) = Slot(NextRead, Waiting + 1)
    BY <1>3, <2>2, SlotFacts
  <2> QED
    BY <1>2, <1>5, <2>1, <2>3 DEF Pointers
<1>7. Content'
  <2> SUFFICES ASSUME NEW j \in 0 .. Waiting
               PROVE  ps2_fifo'[Slot(NextRead, j)] = CodeBits(unread'[First + 1 + j])
    <3>1. \A j \in 0 .. Waiting' - 1 : j \in 0 .. Waiting
      BY <1>3, <1>5
    <3> QED
      BY <1>2, <3>1 DEF Content
  <2>1. j \in 0 .. FifoLen - 1 /\ Waiting \in 0 .. FifoLen - 1
    BY <1>3, Bounds
  <2>2. Slot(NextRead, j) \in DOMAIN ps2_fifo /\ ps2_wptr = Slot(NextRead, Waiting)
    <3>1. DOMAIN ps2_fifo = 0 .. FifoLen - 1
      BY DEF OrderInv, LineInv, TxType
    <3> QED
      BY <1>3, <2>1, <3>1, SlotFacts DEF OrderInv, Pointers
  <2>3. CASE j = Waiting
    <3>1. unread'[First + 1 + j] = code
      BY <1>3, <1>4, <2>3
    <3> QED
      BY <2>2, <2>3, <3>1
  <2>4. CASE j # Waiting
    <3>1. j \in 0 .. Waiting - 1
      BY <1>3, <2>4
    <3>2. Slot(NextRead, j) # ps2_wptr
      BY <1>3, <2>1, <2>2, <3>1, SlotFacts
    <3>3. First + 1 + j \in 1 .. Len(unread)
      BY <1>3, <3>1
    <3> QED
      BY <1>4, <2>2, <3>1, <3>2, <3>3 DEF OrderInv, Content
  <2> QED
    BY <2>3, <2>4
<1>8. InFlight'
  <2> SUFFICES ASSUME Sending'
               PROVE  (LET c == unread[1] IN ShiftOf(c) /\ ParityOf(c) /\ LineOf(c) /\ FrameOf(c))'
    BY DEF InFlight
  <2>1. unread'[1] = unread[1]
    <3>1. 1 \in 1 .. Len(unread)
      BY <1>2, UnreadFacts DEF OrderInv
    <3> QED
      BY <1>4, <3>1
  <2> QED
    BY <1>1, <1>2, <2>1 DEF OrderInv, InFlight, ShiftOf, ParityOf, LineOf, FrameOf,
       txVars
<1> QED
  BY <1>6, <1>7, <1>8

(* The frame of the oldest code begins.                                    *)
LEMMA LoadOrder ==
  ASSUME Roomy, OrderInv, ClkRise, Load
  PROVE  Pointers' /\ Content' /\ InFlight'
<1>1. /\ ps2_tx_state = 0 /\ ps2_clk' = 1 /\ ps2_wptr' = ps2_wptr /\ ps2_fifo' = ps2_fifo
      /\ frame' = frame /\ unread' = unread
  BY DEF ClkRise, Load, fifoVars
<1>2. ~ps2_r_inc /\ NextRead = ps2_rptr /\ ps2_rptr' = ps2_rptr
  BY <1>1 DEF OrderInv, LineInv, PlaceType, NextRead, Load, Advance
<1>3. ~Sending /\ First = 0
  BY <1>1 DEF Sending, First
<1>4. /\ Waiting \in Nat /\ Waiting < FifoLen /\ Len(unread) = Waiting
      /\ NextRead \in 0 .. FifoLen - 1 /\ Len(frame) = 0
  BY <1>1, <1>3, UnreadFacts, Bounds DEF OrderInv, Roomy, LineInv, Received
<1>5. CASE ps2_wptr = ps2_rptr
  <2>1. ps2_r_inc' = FALSE /\ ps2_tx_state' = ps2_tx_state
    BY <1>5 DEF Load
  <2>2. NextRead' = NextRead /\ ~Sending' /\ First' = 0
    BY <1>1, <1>2, <2>1 DEF NextRead, Sending, First
  <2>3. Waiting' = Waiting
    BY <1>1, <1>3, <2>2 DEF Waiting
  <2> QED
    BY <1>1, <1>3, <2>2, <2>3 DEF OrderInv, Pointers, Content, InFlight
<1>6. CASE ps2_wptr # ps2_rptr
  <2>1. /\ ps2_tx_byte' = ps2_fifo[ps2_rptr] /\ ps2_r_inc' = TRUE
        /\ ps2_parity' = 1 /\ ps2_tx_state' = 1 /\ ps2_kbd_data' = 0
    BY <1>6 DEF Load
  <2>2. NextRead' = After(NextRead) /\ Sending' /\ First' = 1
    BY <1>2, <2>1 DEF NextRead, Sending, First
  <2>3. Waiting' = Waiting - 1
    BY <1>1, <1>4, <2>2 DEF Waiting
  <2>4. Waiting >= 1
    <3>1. Slot(NextRead, 0) = NextRead
      BY <1>4, Bounds DEF Slot
    <3> QED
      BY <1>2, <1>4, <1>6, <3>1 DEF OrderInv, Pointers
  <2>5. \A j \in 0 .. Waiting - 1 :
          Slot(After(NextRead), j) = Slot(NextRead, j + 1)
    <3> SUFFICES ASSUME NEW j \in 0 .. Waiting - 1
                 PROVE  Slot(After(NextRead), j) = Slot(NextRead, j + 1)
      OBVIOUS
    <3>1. j \in 0 .. FifoLen - 1 /\ j + 1 < FifoLen
      BY <1>4, Bounds
    <3> QED
      BY <1>4, <3>1, SlotFacts
  <2>6. Pointers'
    <3>1. Waiting - 1 \in 0 .. Waiting - 1 /\ (Waiting - 1) + 1 = Waiting
      BY <1>4, <2>4
    <3>2. Slot(After(NextRead), Waiting - 1) = Slot(NextRead, Waiting)
      BY <2>5, <3>1
    <3> QED
      BY <1>1, <2>2, <2>3, <3>2 DEF OrderInv, Pointers
  <2>7. Content'
    <3> SUFFICES ASSUME NEW j \in 0 .. Waiting - 2
                 PROVE  ps2_fifo[Slot(After(NextRead), j)] = CodeBits(unread[1 + 1 + j])
      <4>1. Waiting' - 1 = Waiting - 2
        BY <1>4, <2>3
      <4> QED
        BY <1>1, <2>2, <4>1 DEF Content
    <3>1. j \in 0 .. Waiting - 1 /\ j + 1 \in 0 .. Waiting - 1 /\ 0 + 1 + (j + 1) = 1 + 1 + j
      BY <1>4
    <3>2. ps2_fifo[Slot(NextRead, j + 1)] = CodeBits(unread[0 + 1 + (j + 1)])
      BY <1>3, <3>1 DEF OrderInv, Content
    <3> QED
      BY <2>5, <3>1, <3>2
  <2>8. InFlight'
    <3> PICK c : c = unread[1]
      OBVIOUS
    <3>1. ps2_tx_byte' = CodeBits(c)
      <4>1. 0 \in 0 .. Waiting - 1 /\ Slot(NextRead, 0) = NextRead /\ 0 + 1 + 0 = 1
        BY <1>4, <2>4, Bounds DEF Slot
      <4>2. ps2_fifo[Slot(NextRead, 0)] = CodeBits(unread[0 + 1 + 0])
        BY <1>3, <4>1 DEF OrderInv, Content
      <4> QED
        BY <1>2, <2>1, <4>1, <4>2
    <3>2. c \in Int
      <4>1. 1 \in 1 .. Len(unread) /\ unread \in Seq(Codes)
        BY <1>4, <2>4, UnreadFacts DEF OrderInv
      <4>2. c \in Codes
        BY <4>1, ElementOfSeq
      <4> QED
        BY <4>2, CodesInt
    <3>3. Ps2Frame(c)[1] = 0 /\ ParityUpTo(c, 0) = 1
      BY <3>2, FrameBits, ParityStart
    <3>4. ShiftOf(c)'
      BY <2>1, <3>1 DEF ShiftOf
    <3>5. ParityOf(c)' /\ LineOf(c)'
      BY <2>1, <3>3 DEF ParityOf, LineOf
    <3>6. FrameOf(c)'
      BY <1>1, <1>4 DEF FrameOf
    <3>7. unread'[1] = c
      BY <1>1
    <3> QED
      BY <3>4, <3>5, <3>6, <3>7 DEF InFlight, ShiftOf, ParityOf, LineOf, FrameOf
  <2> QED
    BY <2>6, <2>7, <2>8
<1> QED
  BY <1>5, <1>6

(* The next bit of the frame.                                              *)
LEMMA TransmitOrder ==
  ASSUME OrderInv, ClkRise, Transmit
  PROVE  Pointers' /\ Content' /\ InFlight'
<1>1. /\ ps2_tx_state # 0 /\ ps2_clk = 0 /\ ps2_clk' = 1 /\ ps2_wptr' = ps2_wptr
      /\ ps2_fifo' = ps2_fifo /\ frame' = frame /\ unread' = unread
      /\ ps2_rptr' = (IF ps2_r_inc THEN After(ps2_rptr) ELSE ps2_rptr) /\ ps2_r_inc' = FALSE
      /\ ps2_tx_state' = (IF ps2_tx_state < 11 THEN ps2_tx_state + 1 ELSE 0)
      /\ ps2_tx_state \in 0 .. 11
  BY DEF ClkRise, Transmit, Advance, After, fifoVars, OrderInv, LineInv, TxType
<1>2. NextRead' = NextRead
  BY <1>1 DEF NextRead
<1>3. Sending' <=> Sending
  BY <1>1 DEF Sending
<1>4. Pointers' /\ Content'
  <2>1. Waiting' = Waiting /\ First' = First
    BY <1>1, <1>3 DEF Waiting, First
  <2> QED
    BY <1>1, <1>2, <2>1 DEF OrderInv, Pointers, Content
<1>5. InFlight'
  <2> PICK c : c = unread[1]
    OBVIOUS
  <2> SUFFICES ASSUME Sending PROVE ShiftOf(c)' /\ ParityOf(c)' /\ LineOf(c)' /\ FrameOf(c)'
    BY <1>1, <1>3 DEF InFlight, ShiftOf, ParityOf, LineOf, FrameOf
  <2>1. ShiftOf(c) /\ ParityOf(c) /\ FrameOf(c) /\ c \in Int
    <3>1. c \in Codes
      <4>1. 1 \in 1 .. Len(unread) /\ unread \in Seq(Codes)
        BY UnreadFacts DEF OrderInv
      <4> QED
        BY <4>1, ElementOfSeq
    <3> QED
      BY <3>1, CodesInt DEF OrderInv, InFlight
  <2>2. ps2_tx_state \in 1 .. 10 /\ ps2_tx_state' = ps2_tx_state + 1
    BY <1>1 DEF Sending
  <2>3. FrameOf(c)'
    BY <1>1, <2>1 DEF FrameOf
  <2>4. CodeBits(c) \in [1 .. 8 -> {0, 1}]
    BY <2>1, CodeBitsType
  <2>5. /\ \A i \in 1 .. 8 : Ps2Frame(c)[i + 1] = CodeBits(c)[i]
        /\ Ps2Frame(c)[10] = ParityUpTo(c, 8) /\ Ps2Frame(c)[11] = 1
    BY <2>1, FrameBits, ParityType
  <2>6. CASE ps2_tx_state \in 1 .. 8
    <3>1. /\ ps2_kbd_data' = ps2_tx_byte[1]
          /\ ps2_tx_byte' = Tail(ps2_tx_byte) \o <<ps2_tx_byte[8]>>
          /\ ps2_parity' = IF ps2_tx_byte[1] = 1 THEN 1 - ps2_parity ELSE ps2_parity
      BY <2>6 DEF Transmit
    <3>2. \A i \in 1 .. 7 : ps2_tx_byte'[i] = ps2_tx_byte[i + 1]
      BY <3>1, ShiftBits DEF OrderInv, LineInv, TxType
    <3>3. ps2_tx_byte[1] = CodeBits(c)[ps2_tx_state]
      BY <2>1, <2>6 DEF ShiftOf
    <3>4. LineOf(c)'
      BY <2>2, <2>5, <2>6, <3>1, <3>3 DEF LineOf
    <3>5. ParityOf(c)'
      <4> DEFINE n == ps2_tx_state - 1
      <4>1. n \in 0 .. 7 /\ n + 1 = ps2_tx_state /\ ps2_tx_state' - 1 = n + 1
        BY <2>2, <2>6
      <4>2. ps2_parity = ParityUpTo(c, n)
        BY <2>1, <2>6 DEF ParityOf
      <4>3. ParityUpTo(c, n + 1) =
              IF CodeBits(c)[n + 1] = 1 THEN 1 - ParityUpTo(c, n) ELSE ParityUpTo(c, n)
        BY <4>1, ParityStep
      <4> HIDE DEF n
      <4>4. ps2_parity' = ParityUpTo(c, n + 1)
        BY <3>1, <3>3, <4>1, <4>2, <4>3
      <4> QED
        BY <4>1, <4>4 DEF ParityOf
    <3>6. ShiftOf(c)'
      <4> SUFFICES ASSUME ps2_tx_state' \in 1 .. 8, NEW i \in 1 .. 9 - ps2_tx_state'
                   PROVE  ps2_tx_byte'[i] = CodeBits(c)[i + ps2_tx_state' - 1]
        BY DEF ShiftOf
      <4>1. /\ i \in 1 .. 7 /\ i + 1 \in 1 .. 9 - ps2_tx_state
            /\ (i + 1) + ps2_tx_state - 1 = i + ps2_tx_state' - 1
        BY <2>2, <2>6
      <4>2. ps2_tx_byte[i + 1] = CodeBits(c)[(i + 1) + ps2_tx_state - 1]
        BY <2>1, <2>6, <4>1 DEF ShiftOf
      <4> QED
        BY <3>2, <4>1, <4>2
    <3> QED
      BY <2>3, <3>4, <3>5, <3>6
  <2>7. CASE ps2_tx_state = 9
    <3>1. ps2_kbd_data' = ps2_parity
      BY <2>7 DEF Transmit
    <3>2. ps2_parity = ParityUpTo(c, 8)
      BY <2>1, <2>7 DEF ParityOf
    <3>3. ps2_tx_state' = 10
      BY <2>2, <2>7
    <3> QED
      BY <2>3, <2>5, <3>1, <3>2, <3>3 DEF LineOf, ParityOf, ShiftOf
  <2>8. CASE ps2_tx_state = 10
    <3>1. ps2_kbd_data' = 1
      BY <2>8 DEF Transmit
    <3>2. ps2_tx_state' = 11
      BY <2>2, <2>8
    <3> QED
      BY <2>3, <2>5, <3>1, <3>2 DEF LineOf, ParityOf, ShiftOf
  <2> QED
    BY <2>2, <2>6, <2>7, <2>8
<1> QED
  BY <1>4, <1>5

(* The computer receives a bit of the frame, or its last one.              *)
LEMMA FallOrder ==
  ASSUME OrderInv, ClkFall
  PROVE  Pointers' /\ Content' /\ InFlight'
<1>1. /\ ps2_clk = 1 /\ ps2_clk' = 0 /\ ps2_wptr' = ps2_wptr /\ ps2_fifo' = ps2_fifo
      /\ UNCHANGED txVars /\ ps2_tx_state' = ps2_tx_state /\ ps2_tx_state \in 0 .. 11
  BY DEF ClkFall, fifoVars, txVars, OrderInv, LineInv, TxType
<1> DEFINE bits == Append(frame, ps2_kbd_data)
<1>2. /\ Len(bits) = Len(frame) + 1 /\ Len(frame) \in Nat
      /\ bits[Len(frame) + 1] = ps2_kbd_data
      /\ \A i \in 1 .. Len(frame) : bits[i] = frame[i]
  BY AppendProperties, LenProperties DEF OrderInv, LineInv, SeqType, TxType
<1>3. NextRead' = NextRead
  BY <1>1 DEF NextRead, txVars
<1>4. Len(frame) = IF ps2_tx_state = 0 THEN 0 ELSE ps2_tx_state - 1
  BY <1>1 DEF OrderInv, LineInv, Received
<1>5. CASE ps2_tx_state = 0
  <2>1. UNCHANGED <<frame, unread>> /\ ~Sending /\ ~Sending'
    BY <1>1, <1>5 DEF ClkFall, Sending
  <2>2. Waiting' = Waiting /\ First' = First
    BY <2>1 DEF Waiting, First
  <2> QED
    BY <1>1, <1>3, <2>1, <2>2 DEF OrderInv, Pointers, Content, InFlight
<1>6. CASE ps2_tx_state \in 1 .. 10
  <2>1. frame' = bits /\ UNCHANGED unread
    BY <1>2, <1>4, <1>6 DEF ClkFall
  <2>2. Sending /\ Sending'
    BY <1>1, <1>6 DEF Sending
  <2>3. Waiting' = Waiting /\ First' = First
    BY <2>1, <2>2 DEF Waiting, First
  <2>4. Pointers' /\ Content'
    BY <1>1, <1>3, <2>1, <2>3 DEF OrderInv, Pointers, Content
  <2> PICK c : c = unread[1]
    OBVIOUS
  <2>5. ShiftOf(c) /\ ParityOf(c) /\ LineOf(c) /\ FrameOf(c)
    BY <2>2 DEF OrderInv, InFlight
  <2>6. ShiftOf(c)' /\ ParityOf(c)' /\ LineOf(c)'
    BY <1>1, <2>5 DEF ShiftOf, ParityOf, LineOf, txVars
  <2>7. FrameOf(c)'
    <3> SUFFICES ASSUME NEW i \in 1 .. Len(frame) + 1 PROVE bits[i] = Ps2Frame(c)[i]
      BY <1>2, <2>1 DEF FrameOf
    <3> HIDE DEF bits
    <3>1. CASE i = Len(frame) + 1
      BY <1>1, <1>2, <1>4, <1>6, <2>5, <3>1 DEF LineOf
    <3>2. CASE i # Len(frame) + 1
      <4>1. i \in 1 .. Len(frame)
        BY <1>2, <3>2
      <4> QED
        BY <1>2, <2>5, <4>1 DEF FrameOf
    <3> QED
      BY <3>1, <3>2
  <2>8. unread'[1] = c
    BY <2>1
  <2> QED
    BY <2>4, <2>6, <2>7, <2>8 DEF InFlight, ShiftOf, ParityOf, LineOf, FrameOf
<1>7. CASE ps2_tx_state = 11
  <2>1. frame' = << >> /\ unread' = Tail(unread)
    BY <1>2, <1>4, <1>7 DEF ClkFall
  <2>2. Sending /\ ~Sending' /\ First = 1 /\ First' = 0
    BY <1>1, <1>7 DEF Sending, First
  <2>3. /\ unread \in Seq(Codes) /\ Len(unread) \in Nat /\ Len(unread) >= 1
        /\ Waiting = Len(unread) - 1
    BY <2>2, UnreadFacts DEF OrderInv, Waiting
  <2>4. unread # << >>
    <3>1. Len(<< >>) = 0
      OBVIOUS
    <3> QED
      BY <2>3, <3>1
  <2>5. /\ Len(unread') = Len(unread) - 1
        /\ \A i \in 1 .. Len(unread') : unread'[i] = unread[i + 1]
    BY <2>1, <2>3, <2>4, HeadTailProperties
  <2>6. Waiting' = Waiting
    BY <2>2, <2>3, <2>5 DEF Waiting
  <2>7. Pointers' /\ InFlight'
    BY <1>1, <1>3, <2>2, <2>6 DEF OrderInv, Pointers, InFlight
  <2>8. Content'
    <3> SUFFICES ASSUME NEW j \in 0 .. Waiting - 1
                 PROVE  ps2_fifo[Slot(NextRead, j)] = CodeBits(unread'[0 + 1 + j])
      BY <1>1, <1>3, <2>2, <2>6 DEF Content
    <3>1. 0 + 1 + j \in 1 .. Len(unread') /\ (0 + 1 + j) + 1 = 1 + 1 + j
      BY <2>3, <2>5
    <3> QED
      BY <2>2, <2>5, <3>1 DEF OrderInv, Content
  <2> QED
    BY <2>7, <2>8
<1> QED
  BY <1>1, <1>5, <1>6, <1>7

LEMMA InitOrder == Init => OrderInv
<1> SUFFICES ASSUME Init PROVE OrderInv
  OBVIOUS
<1>1. LineInv
  BY InitLine
<1>2. /\ ps2_wptr = 0 /\ ps2_rptr = 0 /\ ps2_r_inc = FALSE /\ ps2_tx_state = 0
      /\ unread = << >>
  BY DEF Init
<1>3. ~Sending /\ NextRead = 0
  BY <1>2 DEF Sending, NextRead
<1>4. Waiting = 0
  BY <1>2, <1>3 DEF Waiting
<1>5. Slot(0, 0) = 0
  BY Bounds DEF Slot
<1> QED
  BY <1>1, <1>2, <1>3, <1>4, <1>5 DEF OrderInv, Pointers, Content, InFlight

LEMMA NextOrder == Roomy /\ OrderInv /\ [Next]_vars => OrderInv'
<1> SUFFICES ASSUME Roomy, OrderInv, [Next]_vars PROVE OrderInv'
  OBVIOUS
<1>1. LineInv'
  BY NextLine DEF OrderInv
<1>2. Pointers' /\ Content' /\ InFlight'
  <2>1. CASE KeyByte
    BY <2>1, KeyByteOrder
  <2>2. CASE ClkRise
    BY <2>2, LoadOrder, TransmitOrder DEF ClkRise
  <2>3. CASE ClkFall
    BY <2>3, FallOrder
  <2>4. CASE UNCHANGED vars
    BY <2>4 DEF OrderInv, Pointers, Content, InFlight, ShiftOf, ParityOf, LineOf,
       FrameOf, First, NextRead, Waiting, Sending, vars, fifoVars, txVars
  <2> QED
    BY <2>1, <2>2, <2>3, <2>4 DEF Next
<1> QED
  BY <1>1, <1>2 DEF OrderInv

(* As long as the IO controller sends fewer codes ahead than the FIFO has  *)
(* places, the computer receives every code once, in the order in which    *)
(* they were sent and in a well-formed frame, whatever the codes and       *)
(* wherever the pointers wrap.                                             *)
THEOREM CodesInOrder == Roomy => (Spec => []InOrder)
<1> SUFFICES ASSUME Roomy PROVE Spec => []InOrder
  OBVIOUS
<1>1. OrderInv => InOrder
  <2> SUFFICES ASSUME OrderInv, frame # << >>
               PROVE  unread # << >> /\ frame = SubSeq(Ps2Frame(Head(unread)), 1, Len(frame))
    BY DEF InOrder
  <2>1. frame \in Seq({0, 1}) /\ Len(frame) \in Nat /\ Len(frame) # 0
    BY EmptySeq, LenProperties DEF OrderInv, LineInv, SeqType
  <2>2. Sending /\ Len(frame) <= 10
    BY <2>1 DEF OrderInv, LineInv, Received, Sending, TxType
  <2>3. unread \in Seq(Codes) /\ Len(unread) >= 1 /\ Len(unread) \in Nat
    BY <2>2, UnreadFacts DEF OrderInv
  <2>4. unread # << >> /\ Head(unread) = unread[1]
    <3>1. Len(<< >>) = 0
      OBVIOUS
    <3> QED
      BY <2>3, <3>1, HeadTailProperties
  <2> PICK c : c = unread[1]
    OBVIOUS
  <2> DEFINE f == Ps2Frame(c)
             s == SubSeq(f, 1, Len(frame))
  <2>5. \A i \in 1 .. Len(frame) : frame[i] = f[i]
    BY <2>2 DEF OrderInv, InFlight, FrameOf
  <2>6. c \in Int
    <3>1. 1 \in 1 .. Len(unread)
      BY <2>3
    <3>2. c \in Codes
      BY <2>3, <3>1, ElementOfSeq
    <3> QED
      BY <3>2, CodesInt
  <2>7. f \in Seq({0, 1}) /\ Len(f) = 11
    BY <2>6, FrameBits
  <2> HIDE DEF f
  <2>8. s \in Seq({0, 1}) /\ Len(s) = Len(frame) /\ \A i \in 1 .. Len(frame) : s[i] = f[i]
    BY <2>1, <2>2, <2>7, SubSeqProperties
  <2> HIDE DEF s
  <2>9. frame = s
    BY <2>1, <2>5, <2>8, SeqEqual
  <2> QED
    BY <2>4, <2>9 DEF s, f
<1>2. OrderInv /\ [Next]_vars => OrderInv'
  BY NextOrder
<1> QED
  BY <1>1, <1>2, InitOrder, PTL DEF Spec
=============================================================================
