---------------------------- MODULE SmsSdProofs ----------------------------
(***************************************************************************)
(* The SD driver takes no answer for another command's, keeps the promises *)
(* of SectorPort, and sets the clock to full speed only for a card that is *)
(* ready: for every card content, every sector length and every limit of   *)
(* its waits.                                                              *)
(***************************************************************************)
EXTENDS SmsSd, SequenceTheorems, TLAPS

Bytes == [b : 0..255, own : BOOLEAN]

-----------------------------------------------------------------------------
(* What the card sends                                                     *)

LEMMA ByteType == \A x \in 0..255 : Byte(x) \in Bytes
BY DEF Byte, Bytes

LEMMA WaitsType == \A k \in Nat : Waits(k) \in Seq(Bytes)
BY DEF Waits, HighByte, Bytes

LEMMA FollowsType == \A s \in Seq(0..255) : Follows(s) \in Seq(Bytes)
<1> SUFFICES ASSUME NEW s \in Seq(0..255) PROVE Follows(s) \in Seq(Bytes)
  OBVIOUS
<1>1. Len(s) \in Nat
  OBVIOUS
<1>2. \A i \in 1..Len(s) : Byte(s[i]) \in Bytes
  <2> SUFFICES ASSUME NEW i \in 1..Len(s) PROVE Byte(s[i]) \in Bytes
    OBVIOUS
  <2>1. s[i] \in 0..255
    BY ElementOfSeq
  <2> QED
    BY <2>1, ByteType
<1> QED
  BY <1>1, <1>2 DEF Follows

LEMMA BlockType ==
    ASSUME NEW s \in Sectors, NEW gap \in TokenGaps
    PROVE  Block(s, gap) \in Seq(Bytes)
<1>1. gap \in Nat /\ BlockLen \in Nat /\ Contents[s] \in [1..BlockLen -> 0..255]
  BY DriverAssumption DEF DriverAssumption
<1>2. Contents[s] \in Seq(0..255)
  BY <1>1
<1>3. Waits(gap) \in Seq(Bytes) /\ Follows(Contents[s]) \in Seq(Bytes)
  BY <1>1, <1>2, WaitsType, FollowsType
<1>4. <<0, 1>> \in Seq(0..255)
  OBVIOUS
<1>5. Follows(<<0, 1>>) \in Seq(Bytes)
  BY <1>4, FollowsType
<1>6. <<Byte(254)>> \in Seq(Bytes)
  <2>1. Byte(254) \in Bytes
    BY ByteType
  <2> QED
    BY <2>1
<1> QED
  BY <1>3, <1>5, <1>6 DEF Block

(* A response of one to five bytes.                                        *)
LEMMA ResponseType ==
    /\ \A r \in 0..255 : <<Byte(r)>> \in Seq(Bytes)
    /\ \A r \in 0..255 : \A s \in Seq(0..255) : <<Byte(r)>> \o Follows(s) \in Seq(Bytes)
<1>1. \A r \in 0..255 : <<Byte(r)>> \in Seq(Bytes)
  <2> SUFFICES ASSUME NEW r \in 0..255 PROVE <<Byte(r)>> \in Seq(Bytes)
    OBVIOUS
  <2>1. Byte(r) \in Bytes
    BY ByteType
  <2> QED
    BY <2>1
<1>2. ASSUME NEW r \in 0..255, NEW s \in Seq(0..255)
      PROVE  <<Byte(r)>> \o Follows(s) \in Seq(Bytes)
  <2>1. <<Byte(r)>> \in Seq(Bytes) /\ Follows(s) \in Seq(Bytes)
    BY <1>1, FollowsType
  <2> QED
    BY <2>1
<1> QED
  BY <1>1, <1>2

CardType == [kind : CardKinds, mode : {"off", "idle", "ready"}, app : BOOLEAN, polls : 0..InitPolls]

LEMMA AnswersType ==
    ASSUME NEW c \in CardType, NEW command, NEW arg,
           command \in {"CMD0", "CMD8", "CMD55", "ACMD41", "CMD58", "CMD17"},
           NEW a \in Answers(c, command, arg)
    PROVE  a \in Seq(Bytes)
<1>1. Idle(c) \in 0..1
  BY DEF Idle
<1>2. CASE command = "CMD0"
  <2>1. a = <<Byte(1)>>
    BY <1>2 DEF Answers
  <2>2. 1 \in 0..255
    OBVIOUS
  <2> QED
    BY <2>1, <2>2, ResponseType
<1>3. CASE command = "CMD8"
  <2>1. \/ a = <<Byte(Idle(c))>> \o Follows(<<0, 0, 1, 170>>)
        \/ a = <<Byte(4 + Idle(c))>>
    BY <1>3 DEF Answers
  <2>2. <<0, 0, 1, 170>> \in Seq(0..255)
    OBVIOUS
  <2>3. 4 + Idle(c) \in 0..255 /\ Idle(c) \in 0..255
    BY <1>1
  <2> QED
    BY <2>1, <2>2, <2>3, ResponseType
<1>4. CASE command = "CMD55"
  <2>1. \/ a = <<Byte(4 + Idle(c))>>
        \/ a = <<Byte(Idle(c))>>
    BY <1>4 DEF Answers
  <2>2. 4 + Idle(c) \in 0..255 /\ Idle(c) \in 0..255
    BY <1>1
  <2> QED
    BY <2>1, <2>2, ResponseType
<1>5. CASE command = "ACMD41"
  <2>1. \/ a = <<Byte(4 + Idle(c))>>
        \/ a = <<Byte(0)>>
        \/ a = <<Byte(Idle(c))>>
    BY <1>5 DEF Answers
  <2>2. 4 + Idle(c) \in 0..255 /\ Idle(c) \in 0..255 /\ 0 \in 0..255
    BY <1>1
  <2> QED
    BY <2>1, <2>2, ResponseType
<1>6. CASE command = "CMD58"
  <2>1. a = <<Byte(Idle(c))>> \o Follows(<<128, 255, 128, 0>>)
    BY <1>6 DEF Answers
  <2>2. <<128, 255, 128, 0>> \in Seq(0..255)
    OBVIOUS
  <2>3. Idle(c) \in 0..255
    BY <1>1
  <2> QED
    BY <2>1, <2>2, <2>3, ResponseType
<1>7. CASE command = "CMD17"
  <2>1. \/ a = <<Byte(4 + Idle(c))>>
        \/ a = <<Byte(64)>>
        \/ a = <<Byte(0), Byte(8)>>
        \/ /\ Addressed(c, arg) \in Sectors
           /\ \E g \in TokenGaps : a = <<Byte(0)>> \o Block(Addressed(c, arg), g)
    BY <1>7 DEF Answers
  <2>2. 4 + Idle(c) \in 0..255
    BY <1>1
  <2>3. <<Byte(0), Byte(8)>> \in Seq(Bytes)
    <3>1. Byte(0) \in Bytes /\ Byte(8) \in Bytes
      BY ByteType
    <3> QED
      BY <3>1
  <2>4. <<Byte(0)>> \in Seq(Bytes) /\ <<Byte(64)>> \in Seq(Bytes)
    <3>1. 0 \in 0..255 /\ 64 \in 0..255
      OBVIOUS
    <3> QED
      BY <3>1, ResponseType
  <2>5. CASE \E g \in TokenGaps : /\ Addressed(c, arg) \in Sectors
                                  /\ a = <<Byte(0)>> \o Block(Addressed(c, arg), g)
    BY <2>4, <2>5, BlockType
  <2> QED
    BY <2>1, <2>2, <2>3, <2>4, <2>5, ResponseType
<1> QED
  BY <1>2, <1>3, <1>4, <1>5, <1>6, <1>7

-----------------------------------------------------------------------------
(* What the driver receives                                                *)

LEMMA ReceivedType ==
    ASSUME out \in Seq(Bytes)
    PROVE  Received.b \in 0..255
<1>1. CASE cs /\ out # <<>>
  <2>1. Head(out) \in Bytes
    BY <1>1
  <2> QED
    BY <1>1, <2>1 DEF Received, Bytes
<1>2. CASE ~(cs /\ out # <<>>)
  BY <1>2 DEF Received, HighByte
<1> QED
  BY <1>1, <1>2

LEMMA ShiftsType ==
    ASSUME out \in Seq(Bytes), CardShifts
    PROVE  out' \in Seq(Bytes)
<1>1. out # <<>> => Tail(out) \in Seq(Bytes)
  OBVIOUS
<1>2. <<>> \in Seq(Bytes)
  OBVIOUS
<1> QED
  BY <1>1, <1>2 DEF CardShifts

LEMMA BacklogType ==
    ASSUME out \in Seq(Bytes)
    PROVE  Backlog \in Seq(Bytes)
<1> DEFINE heard == IF cs THEN 6 ELSE 0
           left  == SubSeq(out, heard + 1, Len(out))
<1>1. left \in Seq(Bytes)
  OBVIOUS
<1>2. Len(left) \in Nat /\ \A i \in 1..Len(left) : left[i] \in Bytes
  <2> HIDE DEF left
  <2>1. Len(left) \in Nat
    BY <1>1
  <2>2. ASSUME NEW i \in 1..Len(left) PROVE left[i] \in Bytes
    BY <1>1, <2>2
  <2> QED
    BY <2>1, <2>2
<1>3. \A x \in Bytes : OldByte(x) \in Bytes
  BY DEF OldByte, Bytes
<1>4. Backlog = [i \in 1..Len(left) |-> OldByte(left[i])]
  BY DEF Backlog
<1> QED
  <2> HIDE DEF left
  <2> QED
    BY <1>2, <1>3, <1>4

LEMMA AfterCommandType ==
    ASSUME NEW c \in CardType, NEW command, NEW arg,
           NEW d \in AfterCommand(c, command, arg)
    PROVE  d \in CardType
<1>1. InitPolls \in Nat
  BY DriverAssumption DEF DriverAssumption
<1>2. CASE command = "CMD0"
  BY <1>2 DEF AfterCommand, CardType
<1>3. CASE command = "CMD55"
  BY <1>3 DEF AfterCommand, CardType
<1>4. CASE command = "ACMD41" /\ c.app /\ c.polls = 0
  BY <1>4 DEF AfterCommand, CardType
<1>5. CASE command = "ACMD41" /\ c.app /\ c.polls # 0
  <2>1. c.polls \in 0..InitPolls /\ c.polls - 1 \in 0..InitPolls
    BY <1>1, <1>5 DEF CardType
  <2>2. d \in {[c EXCEPT !.app = FALSE, !.polls = c.polls], [c EXCEPT !.app = FALSE, !.polls = c.polls - 1]}
    BY <1>5 DEF AfterCommand
  <2> QED
    BY <2>1, <2>2 DEF CardType
<1>6. CASE command \notin {"CMD0", "CMD55"} /\ ~(command = "ACMD41" /\ c.app)
  BY <1>6 DEF AfterCommand, CardType
<1> QED
  BY <1>2, <1>3, <1>4, <1>5, <1>6

LEMMA TakesType ==
    ASSUME out \in Seq(Bytes), card \in CardType, NEW command, NEW arg,
           command \in {"CMD0", "CMD8", "CMD55", "ACMD41", "CMD58", "CMD17"},
           CardTakes(command, arg)
    PROVE  out' \in Seq(Bytes) /\ card' \in CardType
<1>1. CASE out' = Backlog /\ UNCHANGED card
  BY <1>1, BacklogType
<1>2. CASE /\ \E gap \in Gaps, a \in Answers(card, command, arg) :
                 out' = Backlog \o Waits(gap) \o a
           /\ card' \in AfterCommand(card, command, arg)
  <2>1. PICK gap \in Gaps, a \in Answers(card, command, arg) :
           out' = Backlog \o Waits(gap) \o a
    BY <1>2
  <2>2. gap \in Nat
    BY DriverAssumption DEF DriverAssumption
  <2>3. Waits(gap) \in Seq(Bytes) /\ a \in Seq(Bytes) /\ Backlog \in Seq(Bytes)
    BY <2>2, WaitsType, AnswersType, BacklogType
  <2> QED
    BY <1>2, <2>1, <2>3, AfterCommandType
<1> QED
  BY <1>1, <1>2 DEF CardTakes

-----------------------------------------------------------------------------
(* The driver's own state, without what a byte on the bus changes.         *)

Driver ==
    /\ pc \in States
    /\ cmd \in {"CMD0", "CMD8", "CMD55", "ACMD41", "CMD58", "CMD17"}
    /\ n \in 0..(WakeBytes + ReadyTries + R1Tries + BlockLen + 5)
    /\ timeout \in 0..Retries
    /\ path \in {"none", "probe", "v1", "v2"}
    /\ signed \in BOOLEAN /\ cs \in BOOLEAN /\ fast \in BOOLEAN
    /\ sector \in Sectors
    /\ buffer \in [1..BlockLen -> 0..255]
    /\ result \in {"none", "ready", "unusable", "loaded", "failed"}
    /\ card \in CardType

LEMMA Parts == TypeOK <=> Driver /\ r1 \in 0..255 /\ out \in Seq(Bytes)
BY DEF TypeOK, Driver, CardType, Bytes

LEMMA PartsPrime ==
    TypeOK' <=> Driver' /\ r1' \in 0..255 /\ out' \in Seq(Bytes)
BY DEF TypeOK, Driver, CardType, Bytes

LEMMA Limits ==
    /\ WakeBytes \in Nat \ {0} /\ ReadyTries \in Nat \ {0}
    /\ R1Tries \in Nat \ {0} /\ BlockLen \in Nat \ {0}
    /\ Retries \in Nat /\ InitPolls \in Nat
BY DriverAssumption DEF DriverAssumption

(* A command begins: the counter of sd_wait_ready is within the bound.     *)
LEMMA BeginType ==
    ASSUME NEW command, Begin(command)
    PROVE  /\ cmd' = command
           /\ pc' \in States
           /\ n' \in 0..(WakeBytes + ReadyTries + R1Tries + BlockLen + 5)
BY Limits DEF Begin, States

LEMMA ReturnType ==
    ASSUME Driver, NEW value \in {"ready", "unusable", "loaded", "failed"},
           Return(value), fast' \in BOOLEAN
    PROVE  Driver'
<1>1. n' \in 0..(WakeBytes + ReadyTries + R1Tries + BlockLen + 5)
  BY Limits DEF Return
<1>2. pc' \in States /\ cs' \in BOOLEAN
  BY DEF Return, States
<1>3. result' \in {"none", "ready", "unusable", "loaded", "failed"}
  BY DEF Return
<1>4. UNCHANGED <<cmd, timeout, path, signed, sector, buffer, card>>
  BY DEF Return
<1> QED
  BY <1>1, <1>2, <1>3, <1>4 DEF Driver

LEMMA RetryType ==
    ASSUME Driver, NEW command \in {"CMD0", "CMD55"}, Retry(command)
    PROVE  Driver'
<1>1. CASE timeout = 0
  BY <1>1, ReturnType DEF Retry, Driver
<1>2. CASE timeout # 0
  <2>1. timeout' \in 0..Retries
    BY <1>2, Limits DEF Retry, Driver
  <2> QED
    BY <1>2, <2>1, BeginType DEF Retry, Driver, call
<1> QED
  BY <1>1, <1>2

LEMMA StartPollingType ==
    ASSUME Driver, NEW which \in {"probe", "v1", "v2"}, StartPolling(which)
    PROVE  Driver'
<1>1. timeout' \in 0..Retries
  BY Limits DEF StartPolling
<1> QED
  BY <1>1, BeginType DEF StartPolling, Driver

LEMMA EndType ==
    ASSUME Driver, Usable \/ Unusable
    PROVE  Driver'
<1>1. fast' \in BOOLEAN
  BY DEF Usable, Unusable, Driver
<1> QED
  BY <1>1, ReturnType DEF Usable, Unusable

(* The same call goes on with another command.                             *)
LEMMA NextCommandType ==
    ASSUME Driver, NEW command \in {"CMD8", "ACMD41", "CMD58"},
           Begin(command), UNCHANGED <<timeout, call, cs, card>>
    PROVE  Driver'
BY BeginType DEF Driver, call

LEMMA PolledType ==
    ASSUME Driver, path \in {"probe", "v1", "v2"}, NEW r \in 0..255, Polled(r)
    PROVE  Driver'
<1>1. CASE path = "probe"
  BY <1>1, StartPollingType, EndType DEF Polled
<1>2. CASE path = "v1"
  BY <1>2, RetryType, EndType DEF Polled
<1>3. CASE path = "v2"
  BY <1>3, RetryType, NextCommandType DEF Polled
<1> QED
  BY <1>1, <1>2, <1>3

-----------------------------------------------------------------------------
(* Polled looks at path, so the loop that sends CMD55 and ACMD41 must have *)
(* been begun.                                                             *)

Polling ==
    pc \in {"ready", "frame", "r1", "skip"} /\ cmd \in {"CMD55", "ACMD41"}
        => path # "none"

IInv == TypeOK /\ Polling

LEMMA DecideType ==
    ASSUME Driver, Polling, pc \in {"r1", "skip"}, NEW r \in 0..255, Decide(r)
    PROVE  Driver'
<1>1. cmd \in {"CMD0", "CMD8", "CMD55", "ACMD41", "CMD58", "CMD17"}
  BY DEF Driver
<1>2. cmd \in {"CMD55", "ACMD41"} => path \in {"probe", "v1", "v2"}
  BY DEF Driver, Polling
<1>3. CASE cmd = "CMD0"
  BY <1>3, NextCommandType, RetryType DEF Decide
<1>4. CASE cmd = "CMD8"
  BY <1>4, StartPollingType DEF Decide
<1>5. CASE cmd = "CMD55"
  <2>1. CASE AsByte(r) > 1
    <3>1. 255 \in 0..255 /\ Polled(255)
      BY <1>5, <2>1 DEF Decide
    <3> QED
      BY <1>2, <1>5, <3>1, PolledType
  <2>2. CASE ~(AsByte(r) > 1)
    BY <1>5, <2>2, NextCommandType DEF Decide
  <2> QED
    BY <2>1, <2>2
<1>6. CASE cmd = "ACMD41"
  BY <1>2, <1>6, PolledType DEF Decide
<1>7. CASE cmd = "CMD58"
  BY <1>7, EndType DEF Decide
<1>8. CASE cmd = "CMD17"
  <2>1. CASE r >= 128
    <3>1. Return("failed") /\ fast' \in BOOLEAN
      BY <1>8, <2>1 DEF Decide, Driver
    <3> QED
      BY <3>1, ReturnType
  <2>2. CASE ~(r >= 128)
    <3>1. pc' = "token" /\ timeout' = Retries /\ n' = 0 /\ UNCHANGED <<cmd, call, cs, card>>
      BY <1>8, <2>2 DEF Decide
    <3>2. n' \in 0..(WakeBytes + ReadyTries + R1Tries + BlockLen + 5)
      BY <3>1, Limits
    <3>3. timeout' \in 0..Retries
      BY <3>1, Limits
    <3> QED
      BY <3>1, <3>2, <3>3 DEF Driver, call, States
  <2> QED
    BY <2>1, <2>2
<1> QED
  BY <1>1, <1>3, <1>4, <1>5, <1>6, <1>7, <1>8

(* And the loop stays begun until the call ends.                           *)
LEMMA PolledKeepsPolling ==
    ASSUME path \in {"probe", "v1", "v2"}, NEW r, Polled(r)
    PROVE  Polling'
<1>1. CASE path = "probe"
  BY <1>1 DEF Polled, Polling, StartPolling, Unusable, Return
<1>2. CASE path = "v1"
  BY <1>2 DEF Polled, Polling, Retry, Usable, Return, Begin, call
<1>3. CASE path = "v2"
  BY <1>3 DEF Polled, Polling, Retry, Return, Begin, Unusable, call
<1> QED
  BY <1>1, <1>2, <1>3

LEMMA DecideKeepsPolling ==
    ASSUME Driver, Polling, pc \in {"r1", "skip"}, NEW r \in 0..255, Decide(r)
    PROVE  Polling'
<1>1. cmd \in {"CMD0", "CMD8", "CMD55", "ACMD41", "CMD58", "CMD17"}
  BY DEF Driver
<1>2. cmd \in {"CMD55", "ACMD41"} => path \in {"probe", "v1", "v2"}
  BY DEF Driver, Polling
<1>3. CASE cmd = "CMD0"
  BY <1>3 DEF Decide, Begin, Retry, Return, Polling
<1>4. CASE cmd = "CMD8"
  BY <1>4 DEF Decide, StartPolling, Polling
<1>5. CASE cmd = "CMD55"
  BY <1>2, <1>5, PolledKeepsPolling DEF Decide, Polling, call
<1>6. CASE cmd = "ACMD41"
  BY <1>2, <1>6, PolledKeepsPolling DEF Decide
<1>7. CASE cmd = "CMD58"
  BY <1>7 DEF Decide, Unusable, Usable, Return, Polling
<1>8. CASE cmd = "CMD17"
  BY <1>8 DEF Decide, Return, Polling
<1> QED
  BY <1>1, <1>3, <1>4, <1>5, <1>6, <1>7, <1>8

-----------------------------------------------------------------------------
(* The theorem                                                             *)

LEMMA InitType == Init => IInv
<1> SUFFICES ASSUME Init PROVE IInv
  OBVIOUS
<1>1. pc = "idle" /\ n = 0 /\ r1 = 255 /\ timeout = 0 /\ buffer = [i \in 1..BlockLen |-> 0]
  BY DEF Init
<1>2. n \in 0..(WakeBytes + ReadyTries + R1Tries + BlockLen + 5) /\ timeout \in 0..Retries
  BY <1>1, Limits
<1>3. card \in CardType
  <2>1. card \in [kind : CardKinds, mode : {"off"}, app : {FALSE}, polls : {0}]
    BY DEF Init
  <2>2. 0 \in 0..InitPolls
    BY Limits
  <2> QED
    BY <2>1, <2>2 DEF CardType
<1>4. buffer \in [1..BlockLen -> 0..255] /\ r1 \in 0..255
  BY <1>1
<1>5. out \in Seq(Bytes)
  BY DEF Init
<1>6. /\ cmd = "CMD0" /\ path = "none" /\ result = "none" /\ cs = FALSE /\ fast = FALSE
      /\ signed \in BOOLEAN /\ sector \in Sectors
  BY DEF Init
<1>7. Driver
  BY <1>1, <1>2, <1>3, <1>4, <1>6 DEF Driver, States
<1>8. Polling
  BY <1>1 DEF Polling
<1> QED
  BY <1>4, <1>5, <1>7, <1>8, Parts DEF IInv

(* A step that only counts, and clocks a byte.                             *)
LEMMA CountType ==
    ASSUME Driver, n > 1, n' = n - 1
    PROVE  n' \in 0..(WakeBytes + ReadyTries + R1Tries + BlockLen + 5)
BY Limits DEF Driver

LEMMA NextType == IInv /\ [Next]_vars => IInv'
<1> SUFFICES ASSUME IInv, [Next]_vars PROVE IInv'
  OBVIOUS
<1> DEFINE NMax == WakeBytes + ReadyTries + R1Tries + BlockLen + 5
<1>1. Driver /\ Polling /\ r1 \in 0..255 /\ out \in Seq(Bytes)
  BY Parts DEF IInv
<1>2. ASSUME Driver', Polling', r1' \in 0..255, out' \in Seq(Bytes) PROVE IInv'
  BY <1>2, PartsPrime DEF IInv
<1>3. Received.b \in 0..255
  BY <1>1, ReceivedType
<1>4. \A k \in {WakeBytes, 2, 0, ReadyTries + 1, R1Tries, BlockLen, 3, 4, 5} : k \in 0..NMax
  BY Limits
<1>5. CASE CallInit
  <2>1. n' \in 0..NMax
    BY <1>4, <1>5 DEF CallInit
  <2> QED
    BY <1>1, <1>2, <1>5, <2>1 DEF CallInit, Driver, Polling, States
<1>6. ASSUME NEW s \in Sectors, CallLoad(s) PROVE IInv'
  <2>1. cmd' = "CMD17" /\ pc' \in States /\ n' \in 0..NMax
    BY <1>6, BeginType DEF CallLoad
  <2>2. Driver'
    BY <1>1, <1>6, <2>1 DEF CallLoad, Driver
  <2> QED
    BY <1>1, <1>2, <1>6, <2>1, <2>2 DEF CallLoad, Polling
<1>7. CASE Wake
  <2>1. n' \in 0..NMax
    BY <1>1, <1>4, <1>7, CountType DEF Wake
  <2>2. out' \in Seq(Bytes)
    BY <1>1, <1>7, ShiftsType DEF Wake
  <2> QED
    <3>1. Driver'
      BY <1>1, <1>7, <2>1 DEF Wake, Driver, States, call
    <3>2. r1' = r1 /\ Polling'
      BY <1>7 DEF Wake, Polling
    <3> QED
      BY <1>1, <1>2, <2>2, <3>1, <3>2
<1>8. CASE Gap
  <2>1. out' \in Seq(Bytes)
    BY <1>1, <1>8, ShiftsType DEF Gap
  <2>2. CASE n > 1
    <3>1. n' \in 0..NMax
      BY <1>1, <1>8, <2>2, CountType DEF Gap
    <3> QED
      BY <1>1, <1>2, <1>8, <2>1, <2>2, <3>1 DEF Gap, Driver, Polling, call
  <2>3. CASE ~(n > 1)
    <3>1. cmd' = "CMD0" /\ pc' \in States /\ n' \in 0..NMax
      BY <1>8, <2>3, BeginType DEF Gap
    <3>2. timeout' \in 0..Retries
      BY <1>8, <2>3, Limits DEF Gap
    <3> QED
      BY <1>1, <1>2, <1>8, <2>1, <2>3, <3>1, <3>2 DEF Gap, Driver, Polling, call
  <2> QED
    BY <2>2, <2>3
<1>9. CASE WaitReady
  <2>1. n' \in 0..NMax
    BY <1>1, <1>4, <1>9, CountType DEF WaitReady
  <2>2. out' \in Seq(Bytes)
    BY <1>1, <1>9, ShiftsType DEF WaitReady
  <2> QED
    <3>1. Driver'
      <4>1. pc' \in States /\ cs' \in BOOLEAN /\ UNCHANGED <<cmd, call, card>>
        BY <1>1, <1>9 DEF WaitReady, States, Driver
      <4>2. UNCHANGED <<path, signed, sector, buffer, result, fast, timeout>>
        BY <1>9 DEF WaitReady, call
      <4> QED
        BY <1>1, <2>1, <4>1, <4>2 DEF Driver
    <3>2. r1' = r1 /\ Polling'
      BY <1>1, <1>9 DEF WaitReady, Polling, call
    <3> QED
      BY <1>1, <1>2, <2>2, <3>1, <3>2
<1>10. CASE SendFrame
  <2>1. cmd \in {"CMD0", "CMD8", "CMD55", "ACMD41", "CMD58", "CMD17"} /\ card \in CardType
    BY <1>1 DEF Driver
  <2>2. out' \in Seq(Bytes) /\ card' \in CardType
    BY <1>1, <1>10, <2>1, TakesType DEF SendFrame
  <2>3. n' \in 0..NMax
    BY <1>4, <1>10 DEF SendFrame
  <2> QED
    BY <1>1, <1>2, <1>10, <2>2, <2>3 DEF SendFrame, Driver, Polling, States, call
<1>11. CASE WaitR1
  <2>1. out' \in Seq(Bytes)
    BY <1>1, <1>11, ShiftsType DEF WaitR1
  <2>2. CASE Received.b >= 128 /\ n > 1
    <3>1. n' = n - 1 /\ UNCHANGED <<pc, cmd, r1, timeout, call, cs, card>>
      BY <1>11, <2>2 DEF WaitR1
    <3>2. n' \in 0..NMax
      BY <1>1, <2>2, <3>1, CountType
    <3> QED
      BY <1>1, <1>2, <2>1, <3>1, <3>2 DEF Driver, Polling, call
  <2>3. CASE ~(Received.b >= 128 /\ n > 1) /\ Trailing(cmd) > 0
    <3>1. pc' = "skip" /\ n' = Trailing(cmd) /\ pc = "r1" /\ r1' = Received.b
          /\ UNCHANGED <<cmd, timeout, call, cs, card>>
      BY <1>11, <2>3 DEF WaitR1
    <3>2. n' \in 0..NMax
      BY <1>4, <3>1 DEF Trailing
    <3> QED
      BY <1>1, <1>2, <1>3, <2>1, <3>1, <3>2 DEF Driver, Polling, States, call
  <2>4. CASE ~(Received.b >= 128 /\ n > 1) /\ ~(Trailing(cmd) > 0)
    <3>1. pc = "r1" /\ r1' = Received.b /\ Decide(Received.b)
      BY <1>11, <2>4 DEF WaitR1
    <3> QED
      BY <1>1, <1>2, <1>3, <2>1, <3>1, DecideType, DecideKeepsPolling
  <2> QED
    BY <2>2, <2>3, <2>4
<1>12. CASE Skip
  <2>1. out' \in Seq(Bytes) /\ r1' = r1 /\ pc = "skip"
    BY <1>1, <1>12, ShiftsType DEF Skip
  <2>2. CASE n > 1
    <3>1. n' \in 0..NMax
      BY <1>1, <1>12, <2>2, CountType DEF Skip
    <3> QED
      BY <1>1, <1>2, <1>12, <2>1, <2>2, <3>1 DEF Skip, Driver, Polling, call
  <2>3. CASE ~(n > 1)
    <3>1. Decide(r1)
      BY <1>12, <2>3 DEF Skip
    <3> QED
      BY <1>1, <1>2, <2>1, <3>1, DecideType, DecideKeepsPolling
  <2> QED
    BY <2>2, <2>3
<1>13. CASE WaitToken
  <2>1. out' \in Seq(Bytes) /\ r1' = r1 /\ pc = "token"
    BY <1>1, <1>13, ShiftsType DEF WaitToken
  <2>2. CASE Received.b = 254
    <3>1. n' \in 0..NMax
      BY <1>4, <1>13, <2>2 DEF WaitToken
    <3> QED
      BY <1>1, <1>2, <1>13, <2>1, <2>2, <3>1 DEF WaitToken, Driver, Polling, States, call
  <2>3. CASE Received.b # 254 /\ timeout = 0
    <3>1. Return("failed") /\ UNCHANGED fast
      BY <1>13, <2>3 DEF WaitToken
    <3>2. fast' \in BOOLEAN
      BY <1>1, <3>1 DEF Driver
    <3>3. Driver'
      BY <1>1, <3>1, <3>2, ReturnType
    <3> QED
      BY <1>1, <1>2, <2>1, <3>1, <3>3 DEF Return, Polling
  <2>4. CASE Received.b # 254 /\ timeout # 0
    <3>1. timeout' = timeout - 1 /\ UNCHANGED <<pc, cmd, n, call, cs, card>>
      BY <1>13, <2>4 DEF WaitToken
    <3>2. timeout' \in 0..Retries
      BY <1>1, <2>4, <3>1, Limits DEF Driver
    <3> QED
      BY <1>1, <1>2, <2>1, <3>1, <3>2 DEF Driver, Polling, call
  <2> QED
    BY <2>2, <2>3, <2>4
<1>14. CASE LoadData
  <2>1. out' \in Seq(Bytes)
    BY <1>1, <1>14, ShiftsType DEF LoadData
  <2>2. n' \in 0..NMax
    BY <1>1, <1>4, <1>14, CountType DEF LoadData
  <2>3. buffer' \in [1..BlockLen -> 0..255]
    BY <1>1, <1>3, <1>14 DEF LoadData, Driver
  <2> QED
    BY <1>1, <1>2, <1>14, <2>1, <2>2, <2>3 DEF LoadData, Driver, Polling, States
<1>15. CASE Tailing
  <2>1. out' \in Seq(Bytes) /\ r1' = r1 /\ pc = "tail"
    BY <1>1, <1>15, ShiftsType DEF Tailing
  <2>2. CASE n > 1
    <3>1. n' \in 0..NMax
      BY <1>1, <1>15, <2>2, CountType DEF Tailing
    <3> QED
      BY <1>1, <1>2, <1>15, <2>1, <2>2, <3>1 DEF Tailing, Driver, Polling, call
  <2>3. CASE ~(n > 1)
    <3>1. Return("loaded") /\ UNCHANGED fast
      BY <1>15, <2>3 DEF Tailing
    <3>2. fast' \in BOOLEAN
      BY <1>1, <3>1 DEF Driver
    <3>3. Driver'
      BY <1>1, <3>1, <3>2, ReturnType
    <3> QED
      BY <1>1, <1>2, <2>1, <3>1, <3>3 DEF Return, Polling
  <2> QED
    BY <2>2, <2>3
<1>16. CASE Pull
  <2>1. card' \in CardType /\ out' \in Seq(Bytes)
    <3>1. card' = [kind |-> "none", mode |-> "off", app |-> FALSE, polls |-> 0] /\ out' = <<>>
      BY <1>16 DEF Pull
    <3>2. "none" \in CardKinds
      BY <1>16, DriverAssumption DEF DriverAssumption, Pull
    <3> QED
      BY <3>1, <3>2, Limits DEF CardType
  <2> QED
    BY <1>1, <1>2, <1>16, <2>1 DEF Pull, Driver, Polling, call
<1>17. CASE Insert
  <2>1. card' \in CardType
    BY <1>1, <1>17 DEF Insert, Driver, CardType
  <2> QED
    BY <1>1, <1>2, <1>17, <2>1 DEF Insert, Driver, Polling, call
<1>18. CASE UNCHANGED vars
  BY <1>1, <1>2, <1>18 DEF vars, call, Driver, Polling
<1> QED
  BY <1>5, <1>6, <1>7, <1>8, <1>9, <1>10, <1>11, <1>12, <1>13, <1>14, <1>15, <1>16, <1>17, <1>18
     DEF Next, Step

(* The counters of the driver stay within their limits, and so does every  *)
(* byte that it or the card handles, through every sequence of calls and   *)
(* whatever the card does.                                                 *)
THEOREM WithinLimits == Spec => []TypeOK
<1>1. IInv => TypeOK
  BY DEF IInv
<1> QED
  BY InitType, NextType, <1>1, PTL DEF Spec

-----------------------------------------------------------------------------
(* OwnAnswer.  A card that gives up its answer when it is deselected, and  *)
(* that does not answer later than R1Tries + 2 bytes after a command, has  *)
(* nothing left of an answer when the next command has been sent: at most  *)
(* six bytes are left before it, and as many pass while it is sent.        *)

AnswersInTime == KeepsOutput = FALSE /\ \A g \in Gaps : g <= R1Tries + 1

(* In an answer that is not a block, the response is followed by no more   *)
(* than four bytes.                                                        *)
Late(s) == \A i \in 1..Len(s) : s[i].b < 128 => i >= Len(s) - 4

AllOwn(s) == \A i \in 1..Len(s) : s[i].own

OwnInv ==
    /\ AllOwn(out)
    /\ ~cs => out = <<>>
    /\ pc = "idle" => ~cs
    /\ pc \in {"idle", "wake", "gap"} => out = <<>>
    /\ pc \in {"ready", "frame", "skip"} => Len(out) <= 6
    /\ pc = "r1" /\ cmd # "CMD17" => Len(out) <= n + 6 /\ Late(out)

Short == {"CMD0", "CMD8", "CMD55", "ACMD41", "CMD58"}

LEMMA WaitsOwn ==
    ASSUME NEW k \in Nat
    PROVE  /\ Waits(k) \in Seq(Bytes) /\ Len(Waits(k)) = k
           /\ \A i \in 1..k : Waits(k)[i].own /\ Waits(k)[i].b = 255
BY WaitsType DEF Waits, HighByte

LEMMA FollowsOwn ==
    ASSUME NEW s \in Seq(0..255)
    PROVE  /\ Follows(s) \in Seq(Bytes) /\ Len(Follows(s)) = Len(s)
           /\ \A i \in 1..Len(s) : Follows(s)[i].own
<1>1. Follows(s) \in Seq(Bytes) /\ Len(s) \in Nat
  BY FollowsType
<1>2. Follows(s) = [i \in 1..Len(s) |-> Byte(s[i])]
  BY DEF Follows
<1>3. Len(Follows(s)) = Len(s)
  BY <1>1, <1>2
<1>4. \A i \in 1..Len(s) : Follows(s)[i] = Byte(s[i])
  BY <1>2
<1>5. \A i \in 1..Len(s) : Follows(s)[i].own
  <2>1. \A x : Byte(x).own
    BY DEF Byte
  <2> QED
    BY <1>4, <2>1
<1> QED
  BY <1>1, <1>3, <1>5

(* Both properties of the parts are properties of the whole.               *)
LEMMA ConcatOwn ==
    ASSUME NEW s \in Seq(Bytes), NEW t \in Seq(Bytes), AllOwn(s), AllOwn(t)
    PROVE  /\ s \o t \in Seq(Bytes) /\ AllOwn(s \o t)
           /\ Len(s \o t) = Len(s) + Len(t)
<1>1. /\ s \o t \in Seq(Bytes)
      /\ Len(s \o t) = Len(s) + Len(t) /\ Len(s) \in Nat /\ Len(t) \in Nat
  OBVIOUS
<1>2. ASSUME NEW i \in 1..Len(s \o t) PROVE (s \o t)[i].own
  <2>1. CASE i <= Len(s)
    BY <1>1, <2>1 DEF AllOwn
  <2>2. CASE i > Len(s)
    <3>1. i - Len(s) \in 1..Len(t) /\ (s \o t)[i] = t[i - Len(s)]
      BY <1>1, <2>2
    <3> QED
      BY <3>1 DEF AllOwn
  <2> QED
    BY <1>1, <2>1, <2>2
<1> QED
  BY <1>1, <1>2 DEF AllOwn

LEMMA OneOwn == \A r \in 0..255 : /\ <<Byte(r)>> \in Seq(Bytes) /\ AllOwn(<<Byte(r)>>)
                                 /\ Len(<<Byte(r)>>) = 1
<1> SUFFICES ASSUME NEW r \in 0..255
             PROVE  /\ <<Byte(r)>> \in Seq(Bytes) /\ AllOwn(<<Byte(r)>>)
                    /\ Len(<<Byte(r)>>) = 1
  OBVIOUS
<1>1. <<Byte(r)>> \in Seq(Bytes)
  BY ResponseType
<1>2. Byte(r).own
  BY DEF Byte
<1> QED
  BY <1>1, <1>2 DEF AllOwn

LEMMA FollowsAllOwn ==
    ASSUME NEW s \in Seq(0..255)
    PROVE  Follows(s) \in Seq(Bytes) /\ AllOwn(Follows(s)) /\ Len(Follows(s)) = Len(s)
BY FollowsOwn DEF AllOwn

LEMMA BlockOwn ==
    ASSUME NEW s \in Sectors, NEW gap \in TokenGaps
    PROVE  Block(s, gap) \in Seq(Bytes) /\ AllOwn(Block(s, gap))
<1>1. gap \in Nat /\ Contents[s] \in [1..BlockLen -> 0..255] /\ BlockLen \in Nat
  BY DriverAssumption DEF DriverAssumption
<1>2. Contents[s] \in Seq(0..255)
  BY <1>1
<1>3. Waits(gap) \in Seq(Bytes) /\ AllOwn(Waits(gap))
  BY <1>1, WaitsOwn DEF AllOwn
<1>4. Follows(Contents[s]) \in Seq(Bytes) /\ AllOwn(Follows(Contents[s]))
  BY <1>2, FollowsAllOwn
<1>5. Follows(<<0, 1>>) \in Seq(Bytes) /\ AllOwn(Follows(<<0, 1>>))
  <2>1. <<0, 1>> \in Seq(0..255)
    OBVIOUS
  <2> QED
    BY <2>1, FollowsAllOwn
<1>6. <<Byte(254)>> \in Seq(Bytes) /\ AllOwn(<<Byte(254)>>)
  <2>1. 254 \in 0..255
    OBVIOUS
  <2> QED
    BY <2>1, OneOwn
<1> DEFINE a == Waits(gap) \o <<Byte(254)>>
           b == a \o Follows(Contents[s])
<1>7. a \in Seq(Bytes) /\ AllOwn(a)
  <2> DEFINE token == <<Byte(254)>>
  <2> HIDE DEF token
  <2>1. token \in Seq(Bytes) /\ AllOwn(token)
    BY <1>6 DEF token
  <2>2. Waits(gap) \o token \in Seq(Bytes) /\ AllOwn(Waits(gap) \o token)
    BY <1>3, <2>1, ConcatOwn
  <2> QED
    BY <2>2 DEF token
<1>8. b \in Seq(Bytes) /\ AllOwn(b)
  <2> HIDE DEF a
  <2> QED
    BY <1>4, <1>7, ConcatOwn
<1>9. Block(s, gap) = b \o Follows(<<0, 1>>)
  BY DEF Block
<1> QED
  <2> HIDE DEF b
  <2> QED
    BY <1>5, <1>8, <1>9, ConcatOwn

(* An answer to anything but CMD17 is one byte, or five.                   *)
LEMMA AnswersOwn ==
    ASSUME NEW c \in CardType, NEW command \in Short \cup {"CMD17"}, NEW arg,
           NEW a \in Answers(c, command, arg)
    PROVE  a \in Seq(Bytes) /\ AllOwn(a) /\ (command # "CMD17" => Len(a) <= 5)
<1> DEFINE Good(s) == s \in Seq(Bytes) /\ AllOwn(s) /\ Len(s) <= 5
<1>1. Idle(c) \in 0..255 /\ 4 + Idle(c) \in 0..255 /\ 0 \in 0..255 /\ 1 \in 0..255
      /\ 64 \in 0..255
  BY DEF Idle
<1>2. ASSUME NEW r \in 0..255 PROVE Good(<<Byte(r)>>)
  <2>1. <<Byte(r)>> \in Seq(Bytes) /\ AllOwn(<<Byte(r)>>) /\ Len(<<Byte(r)>>) = 1
    BY OneOwn
  <2> DEFINE s == <<Byte(r)>>
  <2> HIDE DEF s
  <2>2. s \in Seq(Bytes) /\ AllOwn(s) /\ Len(s) = 1
    BY <2>1 DEF s
  <2>3. Good(s)
    BY <2>2
  <2> QED
    BY <2>3 DEF s
<1>3. ASSUME NEW r \in 0..255, NEW s \in Seq(0..255), Len(s) = 4
      PROVE  Good(<<Byte(r)>> \o Follows(s))
  <2>1. /\ <<Byte(r)>> \in Seq(Bytes) /\ AllOwn(<<Byte(r)>>) /\ Len(<<Byte(r)>>) = 1
    BY OneOwn
  <2>2. Follows(s) \in Seq(Bytes) /\ AllOwn(Follows(s)) /\ Len(Follows(s)) = 4
    BY <1>3, FollowsAllOwn
  <2> DEFINE first == <<Byte(r)>>
             rest  == Follows(s)
  <2> HIDE DEF first, rest
  <2>3. /\ first \in Seq(Bytes) /\ AllOwn(first) /\ Len(first) = 1
        /\ rest \in Seq(Bytes) /\ AllOwn(rest) /\ Len(rest) = 4
    BY <2>1, <2>2 DEF first, rest
  <2>4. /\ first \o rest \in Seq(Bytes) /\ AllOwn(first \o rest)
        /\ Len(first \o rest) = Len(first) + Len(rest)
    BY <2>3, ConcatOwn
  <2> DEFINE whole == first \o rest
  <2> HIDE DEF whole
  <2>5. whole \in Seq(Bytes) /\ AllOwn(whole) /\ Len(whole) = 5
    BY <2>3, <2>4 DEF whole
  <2>6. Good(whole)
    BY <2>5
  <2> QED
    BY <2>6 DEF whole, first, rest
<1>4. CASE command = "CMD0"
  <2>1. a = <<Byte(1)>>
    BY <1>4 DEF Answers
  <2> QED
    BY <1>1, <1>2, <2>1
<1>5. CASE command = "CMD8"
  <2>1. \/ a = <<Byte(Idle(c))>> \o Follows(<<0, 0, 1, 170>>)
        \/ a = <<Byte(4 + Idle(c))>>
    BY <1>5 DEF Answers
  <2>2. <<0, 0, 1, 170>> \in Seq(0..255) /\ Len(<<0, 0, 1, 170>>) = 4
    OBVIOUS
  <2>3. Good(<<Byte(Idle(c))>> \o Follows(<<0, 0, 1, 170>>)) /\ Good(<<Byte(4 + Idle(c))>>)
    BY <1>1, <1>2, <1>3, <2>2
  <2> QED
    BY <2>1, <2>3
<1>6. CASE command = "CMD55"
  <2>1. \/ a = <<Byte(4 + Idle(c))>>
        \/ a = <<Byte(Idle(c))>>
    BY <1>6 DEF Answers
  <2>2. Good(<<Byte(4 + Idle(c))>>) /\ Good(<<Byte(Idle(c))>>)
    BY <1>1, <1>2
  <2> QED
    BY <2>1, <2>2
<1>7. CASE command = "ACMD41"
  <2>1. \/ a = <<Byte(4 + Idle(c))>>
        \/ a = <<Byte(0)>>
        \/ a = <<Byte(Idle(c))>>
    BY <1>7 DEF Answers
  <2>2. Good(<<Byte(4 + Idle(c))>>) /\ Good(<<Byte(Idle(c))>>) /\ Good(<<Byte(0)>>)
    BY <1>1, <1>2
  <2> QED
    BY <2>1, <2>2
<1>8. CASE command = "CMD58"
  <2>1. a = <<Byte(Idle(c))>> \o Follows(<<128, 255, 128, 0>>)
    BY <1>8 DEF Answers
  <2>2. <<128, 255, 128, 0>> \in Seq(0..255) /\ Len(<<128, 255, 128, 0>>) = 4
    OBVIOUS
  <2>3. Good(<<Byte(Idle(c))>> \o Follows(<<128, 255, 128, 0>>))
    BY <1>1, <1>3, <2>2
  <2> QED
    BY <2>1, <2>3
<1>9. CASE command = "CMD17"
  <2>1. \/ a = <<Byte(4 + Idle(c))>>
        \/ a = <<Byte(64)>>
        \/ a = <<Byte(0), Byte(8)>>
        \/ /\ Addressed(c, arg) \in Sectors
           /\ \E g \in TokenGaps : a = <<Byte(0)>> \o Block(Addressed(c, arg), g)
    BY <1>9 DEF Answers
  <2>2. Good(<<Byte(4 + Idle(c))>>) /\ Good(<<Byte(64)>>) /\ Good(<<Byte(0)>>)
    BY <1>1, <1>2
  <2>3. <<Byte(0), Byte(8)>> \in Seq(Bytes) /\ AllOwn(<<Byte(0), Byte(8)>>)
    <3>1. Byte(0) \in Bytes /\ Byte(8) \in Bytes /\ Byte(0).own /\ Byte(8).own
      BY ByteType DEF Byte
    <3> QED
      BY <3>1 DEF AllOwn
  <2>4. CASE \E g \in TokenGaps : /\ Addressed(c, arg) \in Sectors
                                  /\ a = <<Byte(0)>> \o Block(Addressed(c, arg), g)
    <3>1. PICK g \in TokenGaps : /\ Addressed(c, arg) \in Sectors
                                 /\ a = <<Byte(0)>> \o Block(Addressed(c, arg), g)
      BY <2>4
    <3> DEFINE block == Block(Addressed(c, arg), g)
    <3>2. block \in Seq(Bytes) /\ AllOwn(block)
      BY <3>1, BlockOwn
    <3> HIDE DEF block
    <3>3. <<Byte(0)>> \in Seq(Bytes) /\ AllOwn(<<Byte(0)>>)
      BY <2>2
    <3>4. <<Byte(0)>> \o block \in Seq(Bytes) /\ AllOwn(<<Byte(0)>> \o block)
      BY <3>2, <3>3, ConcatOwn
    <3> QED
      BY <1>9, <3>1, <3>4 DEF block
  <2> QED
    BY <1>9, <2>1, <2>2, <2>3, <2>4
<1> QED
  BY <1>4, <1>5, <1>6, <1>7, <1>8, <1>9 DEF Short

(* A command that is sent to a card with at most six bytes left finds it   *)
(* with none.                                                              *)
LEMMA BacklogEmpty ==
    ASSUME out \in Seq(Bytes), Len(out) <= 6, ~cs => out = <<>>
    PROVE  Backlog = <<>>
<1> DEFINE heard == IF cs THEN 6 ELSE 0
           left  == SubSeq(out, heard + 1, Len(out))
<1>1. Len(out) \in Nat /\ heard \in Nat /\ Len(out) <= heard
  OBVIOUS
<1>2. left = <<>>
  BY <1>1
<1>3. Backlog = [i \in 1..Len(left) |-> OldByte(left[i])]
  BY DEF Backlog
<1>4. Len(left) = 0
  BY <1>2
<1> HIDE DEF left
<1> QED
  BY <1>3, <1>4

(* An answer behind a gap that is not too long.                            *)
LEMMA GapOwn ==
    ASSUME AnswersInTime, NEW gap \in Gaps, NEW a \in Seq(Bytes), AllOwn(a),
           NEW short \in BOOLEAN, short => Len(a) <= 5
    PROVE  /\ <<>> \o Waits(gap) \o a \in Seq(Bytes)
           /\ AllOwn(<<>> \o Waits(gap) \o a)
           /\ short => /\ Len(<<>> \o Waits(gap) \o a) <= R1Tries + 6
                       /\ Late(<<>> \o Waits(gap) \o a)
<1>1. gap \in Nat /\ gap <= R1Tries + 1 /\ R1Tries \in Nat
  BY DriverAssumption, Limits DEF DriverAssumption, AnswersInTime
<1> DEFINE w == Waits(gap)
<1>2. /\ w \in Seq(Bytes) /\ Len(w) = gap
      /\ \A i \in 1..gap : w[i].own /\ w[i].b = 255
  BY <1>1, WaitsOwn
<1> HIDE DEF w
<1>3. AllOwn(w)
  BY <1>2 DEF AllOwn
<1>4. <<>> \o w = w
  BY <1>2
<1> DEFINE s == w \o a
<1>5. s \in Seq(Bytes) /\ AllOwn(s) /\ Len(s) = gap + Len(a) /\ Len(a) \in Nat
  BY <1>2, <1>3, ConcatOwn
<1>6. \A i \in 1..gap : s[i] = w[i]
  BY <1>1, <1>2
<1> HIDE DEF s
<1>7. ASSUME short PROVE Len(s) <= R1Tries + 6 /\ Late(s)
  <2>1. Len(a) <= 5
    BY <1>7
  <2>2. ASSUME NEW i \in 1..Len(s), s[i].b < 128 PROVE i >= Len(s) - 4
    <3>1. CASE i <= gap
      <4>1. s[i].b = 255
        BY <1>1, <1>2, <1>6, <3>1
      <4> QED
        BY <2>2, <4>1
    <3>2. CASE ~(i <= gap)
      BY <1>1, <1>5, <2>1, <3>2
    <3> QED
      BY <3>1, <3>2
  <2> QED
    BY <1>1, <1>5, <2>1, <2>2 DEF Late
<1>8. <<>> \o Waits(gap) \o a = s
  BY <1>4 DEF w, s
<1> QED
  BY <1>5, <1>7, <1>8

(* A byte on the bus: what is left keeps all that the invariant says of it.*)
LEMMA ShiftsOwn ==
    ASSUME AnswersInTime, out \in Seq(Bytes), AllOwn(out), ~cs => out = <<>>, CardShifts
    PROVE  /\ out' \in Seq(Bytes) /\ AllOwn(out') /\ (~cs' => out' = <<>>)
           /\ Late(out) => Late(out')
           /\ \/ out' = <<>>
              \/ cs /\ out # <<>> /\ Len(out') = Len(out) - 1
<1>1. \/ out' = <<>>
      \/ cs /\ cs' /\ out # <<>> /\ out' = Tail(out)
  BY DEF CardShifts, AnswersInTime
<1>2. CASE out' = <<>>
  <2>1. Len(out') = 0 /\ out' \in Seq(Bytes)
    BY <1>2
  <2> QED
    BY <1>2, <2>1 DEF AllOwn, Late
<1>3. CASE cs /\ cs' /\ out # <<>> /\ out' = Tail(out)
  <2>1. /\ out' \in Seq(Bytes) /\ Len(out') = Len(out) - 1 /\ Len(out) \in Nat
        /\ \A i \in 1..Len(out') : out'[i] = out[i + 1]
    BY <1>3
  <2>2. AllOwn(out')
    BY <2>1 DEF AllOwn
  <2>3. ASSUME Late(out) PROVE Late(out')
    <3>1. ASSUME NEW i \in 1..Len(out'), out'[i].b < 128 PROVE i >= Len(out') - 4
      <4>1. i + 1 \in 1..Len(out) /\ out[i + 1].b < 128
        BY <2>1, <3>1
      <4>2. i + 1 >= Len(out) - 4
        BY <2>3, <4>1 DEF Late
      <4> QED
        BY <2>1, <4>2
    <3> QED
      BY <3>1 DEF Late
  <2> QED
    BY <1>3, <2>1, <2>2, <2>3
<1> QED
  BY <1>1, <1>2, <1>3


(* What becomes of a call whose response is complete: it ends with the     *)
(* card deselected, goes on to the next command, or, after CMD17 only,     *)
(* waits for the token.                                                    *)
Onward ==
    \/ pc' = "idle" /\ cs' = FALSE
    \/ cmd # "CMD17" /\ pc' \in {"ready", "frame"} /\ cs' = cs
    \/ cmd = "CMD17" /\ pc' = "token" /\ cs' = cs

LEMMA PolledOnward ==
    ASSUME cmd # "CMD17", path \in {"probe", "v1", "v2"}, NEW r, Polled(r)
    PROVE  Onward
<1>1. CASE path = "probe"
  BY <1>1 DEF Polled, Onward, StartPolling, Begin, Usable, Unusable, Return
<1>2. CASE path = "v1"
  BY <1>2 DEF Polled, Onward, Retry, Usable, Return, Begin
<1>3. CASE path = "v2"
  BY <1>3 DEF Polled, Onward, Retry, Return, Begin
<1> QED
  BY <1>1, <1>2, <1>3

LEMMA DecideOnward ==
    ASSUME Driver, Polling, pc \in {"r1", "skip"}, NEW r, Decide(r)
    PROVE  Onward
<1>1. cmd \in {"CMD0", "CMD8", "CMD55", "ACMD41", "CMD58", "CMD17"}
  BY DEF Driver
<1>2. cmd \in {"CMD55", "ACMD41"} => path \in {"probe", "v1", "v2"}
  BY DEF Driver, Polling
<1>3. CASE cmd = "CMD0"
  BY <1>3 DEF Decide, Begin, Retry, Return, Onward
<1>4. CASE cmd = "CMD8"
  BY <1>4 DEF Decide, StartPolling, Begin, Onward
<1>5. CASE cmd = "CMD55"
  <2>1. CASE AsByte(r) > 1
    BY <1>2, <1>5, <2>1, PolledOnward DEF Decide
  <2>2. CASE ~(AsByte(r) > 1)
    BY <1>5, <2>2 DEF Decide, Begin, Onward
  <2> QED
    BY <2>1, <2>2
<1>6. CASE cmd = "ACMD41"
  BY <1>2, <1>6, PolledOnward DEF Decide
<1>7. CASE cmd = "CMD58"
  BY <1>7 DEF Decide, Unusable, Usable, Return, Onward
<1>8. CASE cmd = "CMD17"
  BY <1>8 DEF Decide, Return, Onward
<1> QED
  BY <1>1, <1>3, <1>4, <1>5, <1>6, <1>7, <1>8

(* A response that is complete leaves no more than six bytes behind it,    *)
(* unless it is CMD17's.                                                   *)
LEMMA OnwardOwn ==
    ASSUME AllOwn(out'), ~cs' => out' = <<>>,
           Onward, out' \in Seq(Bytes), cmd # "CMD17" => Len(out') <= 6
    PROVE  OwnInv'
<1>1. CASE pc' = "idle" /\ cs' = FALSE
  BY <1>1 DEF OwnInv
<1>2. CASE pc' \in {"ready", "frame"} /\ cs' = cs /\ cmd # "CMD17"
  <2>1. Len(out') <= 6
    BY <1>2
  <2> QED
    BY <1>2, <2>1 DEF OwnInv
<1>3. CASE cmd = "CMD17" /\ pc' = "token" /\ cs' = cs
  BY <1>3 DEF OwnInv
<1> QED
  BY <1>1, <1>2, <1>3 DEF Onward


LEMMA InitOwn == Init => OwnInv
<1> SUFFICES ASSUME Init PROVE OwnInv
  OBVIOUS
<1>1. pc = "idle" /\ cs = FALSE /\ out = <<>>
  BY DEF Init
<1> QED
  BY <1>1 DEF OwnInv, AllOwn

LEMMA NextOwn == AnswersInTime /\ IInv /\ OwnInv /\ [Next]_vars => OwnInv'
<1> SUFFICES ASSUME AnswersInTime, IInv, OwnInv, [Next]_vars PROVE OwnInv'
  OBVIOUS
<1>1. /\ Driver /\ Polling /\ out \in Seq(Bytes) /\ Len(out) \in Nat
      /\ R1Tries \in Nat /\ n \in Nat
  <2>1. Driver /\ Polling /\ out \in Seq(Bytes)
    BY Parts DEF IInv
  <2> QED
    BY <2>1, Limits DEF Driver
<1>2. AllOwn(out) /\ (~cs => out = <<>>)
  BY DEF OwnInv
<1>3. ASSUME CardShifts
      PROVE  /\ out' \in Seq(Bytes) /\ AllOwn(out') /\ (~cs' => out' = <<>>)
             /\ Late(out) => Late(out')
             /\ \/ out' = <<>>
                \/ cs /\ out # <<>> /\ Len(out') = Len(out) - 1
  BY <1>1, <1>2, <1>3, ShiftsOwn
<1>4. Len(<<>>) = 0
  OBVIOUS
<1>5. CASE CallInit
  BY <1>5 DEF CallInit, OwnInv
<1>6. ASSUME NEW s \in Sectors, CallLoad(s) PROVE OwnInv'
  <2>1. out' = <<>> /\ cs' = cs /\ ~cs /\ pc' = "ready" /\ Len(out') = 0
    BY <1>6 DEF CallLoad, Begin, OwnInv
  <2> QED
    BY <2>1 DEF OwnInv, AllOwn
<1>7. CASE Wake
  <2>1. out' = <<>> /\ pc' \in {"wake", "gap"} /\ CardShifts
    BY <1>3, <1>7 DEF Wake, OwnInv
  <2> QED
    BY <1>3, <2>1 DEF OwnInv
<1>8. CASE Gap
  <2>1. out' = <<>> /\ pc' \in {"gap", "ready"} /\ CardShifts
    BY <1>3, <1>8 DEF Gap, Begin, OwnInv
  <2>2. Len(out') = 0
    BY <2>1
  <2> QED
    BY <1>3, <2>1, <2>2 DEF OwnInv
<1>9. CASE WaitReady
  <2>1. pc = "ready" /\ pc' \in {"ready", "frame"} /\ CardShifts
    BY <1>9 DEF WaitReady
  <2>2. Len(out) <= 6
    BY <2>1 DEF OwnInv
  <2>3. Len(out') <= 6
    BY <1>1, <1>3, <1>4, <2>1, <2>2
  <2> QED
    BY <1>3, <2>1, <2>3 DEF OwnInv
<1>10. CASE SendFrame
  <2>1. /\ pc = "frame" /\ pc' = "r1" /\ n' = R1Tries /\ cs' = cs /\ cmd' = cmd
        /\ CardTakes(cmd, Argument)
    BY <1>10 DEF SendFrame, call
  <2>2. Backlog = <<>>
    BY <1>1, <1>2, <2>1, BacklogEmpty DEF OwnInv
  <2>3. CASE out' = Backlog
    BY <1>1, <1>4, <2>1, <2>2, <2>3 DEF OwnInv, AllOwn, Late
  <2>4. CASE cs /\ \E gap \in Gaps, a \in Answers(card, cmd, Argument) :
                      out' = Backlog \o Waits(gap) \o a
    <3>1. PICK gap \in Gaps, a \in Answers(card, cmd, Argument) :
             out' = <<>> \o Waits(gap) \o a
      BY <2>2, <2>4
    <3>2. card \in CardType /\ cmd \in Short \cup {"CMD17"}
      BY <1>1 DEF Driver, Short
    <3>3. a \in Seq(Bytes) /\ AllOwn(a) /\ (cmd # "CMD17" => Len(a) <= 5)
      BY <3>2, AnswersOwn
    <3>4. (cmd # "CMD17") \in BOOLEAN
      OBVIOUS
    <3>5. /\ AllOwn(out')
          /\ cmd # "CMD17" => Len(out') <= R1Tries + 6 /\ Late(out')
      BY <3>1, <3>3, <3>4, GapOwn
    <3> QED
      BY <2>1, <2>4, <3>5 DEF OwnInv
  <2> QED
    BY <2>1, <2>3, <2>4 DEF CardTakes
<1>11. CASE WaitR1
  <2>1. pc = "r1" /\ CardShifts
    BY <1>11 DEF WaitR1
  <2>2. cmd # "CMD17" => Len(out) <= n + 6 /\ Late(out)
    BY <2>1 DEF OwnInv
  <2>3. CASE Received.b >= 128 /\ n > 1
    <3>1. n' = n - 1 /\ pc' = "r1" /\ cmd' = cmd
      BY <1>11, <2>3 DEF WaitR1
    <3>2. cmd # "CMD17" => Len(out') <= n' + 6 /\ Late(out')
      BY <1>1, <1>3, <1>4, <2>1, <2>2, <2>3, <3>1
    <3> QED
      BY <1>3, <2>1, <3>1, <3>2 DEF OwnInv
  <2>4. ASSUME ~(Received.b >= 128 /\ n > 1), cmd # "CMD17" PROVE Len(out') <= 6
    <3>1. CASE out' = <<>>
      BY <1>4, <3>1
    <3>2. CASE cs /\ out # <<>> /\ Len(out') = Len(out) - 1
      <4>1. CASE n <= 1
        BY <1>1, <2>2, <2>4, <3>2, <4>1
      <4>2. CASE n > 1
        <5>1. Received = out[1] /\ 1 \in 1..Len(out)
          BY <1>1, <3>2 DEF Received
        <5>2. out[1].b < 128
          <6>1. Received.b \in 0..255
            BY <1>1, ReceivedType
          <6> DEFINE x == Received.b
          <6>2. x \in 0..255 /\ ~(x >= 128 /\ n > 1)
            BY <2>4, <6>1
          <6> HIDE DEF x
          <6>3. x < 128
            BY <1>1, <4>2, <6>2
          <6>4. x = out[1].b
            BY <5>1 DEF x
          <6> QED
            BY <6>3, <6>4
        <5>3. 1 >= Len(out) - 4
          BY <2>2, <2>4, <5>1, <5>2 DEF Late
        <5> QED
          BY <1>1, <3>2, <5>3
      <4> QED
        BY <1>1, <4>1, <4>2
    <3> QED
      BY <1>3, <2>1, <3>1, <3>2
  <2>5. CASE ~(Received.b >= 128 /\ n > 1) /\ Trailing(cmd) > 0
    <3>1. pc' = "skip" /\ cmd # "CMD17"
      BY <1>11, <2>5 DEF WaitR1, Trailing
    <3>2. Len(out') <= 6
      BY <2>4, <2>5, <3>1
    <3> QED
      BY <1>3, <2>1, <3>1, <3>2 DEF OwnInv
  <2>6. CASE ~(Received.b >= 128 /\ n > 1) /\ ~(Trailing(cmd) > 0)
    <3>1. Decide(Received.b)
      BY <1>11, <2>6 DEF WaitR1
    <3>2. Onward
      BY <1>1, <2>1, <3>1, DecideOnward
    <3> QED
      BY <1>3, <2>1, <2>4, <2>6, <3>2, OnwardOwn
  <2> QED
    BY <2>3, <2>5, <2>6
<1>12. CASE Skip
  <2>1. pc = "skip" /\ CardShifts
    BY <1>12 DEF Skip
  <2>2. Len(out) <= 6
    BY <2>1 DEF OwnInv
  <2>3. Len(out') <= 6
    BY <1>1, <1>3, <1>4, <2>1, <2>2
  <2>4. CASE n > 1
    BY <1>3, <1>12, <2>1, <2>3, <2>4 DEF Skip, OwnInv
  <2>5. CASE ~(n > 1)
    <3>1. Decide(r1)
      BY <1>12, <2>5 DEF Skip
    <3>2. Onward
      BY <1>1, <2>1, <3>1, DecideOnward
    <3> QED
      BY <1>3, <2>1, <2>3, <3>2, OnwardOwn
  <2> QED
    BY <2>4, <2>5
<1>13. CASE WaitToken
  <2>1. CardShifts /\ (pc' \in {"token", "data"} \/ (pc' = "idle" /\ cs' = FALSE))
    BY <1>13 DEF WaitToken, Return
  <2> QED
    BY <1>3, <2>1 DEF OwnInv
<1>14. CASE LoadData
  <2>1. CardShifts /\ pc' \in {"data", "tail"}
    BY <1>14 DEF LoadData
  <2> QED
    BY <1>3, <2>1 DEF OwnInv
<1>15. CASE Tailing
  <2>1. CardShifts /\ (pc' = "tail" \/ (pc' = "idle" /\ cs' = FALSE))
    BY <1>15 DEF Tailing, Return
  <2> QED
    BY <1>3, <2>1 DEF OwnInv
<1>16. CASE Pull
  <2>1. out' = <<>> /\ UNCHANGED <<pc, cmd, n, cs>> /\ Len(out') = 0
    BY <1>4, <1>16 DEF Pull
  <2> QED
    BY <1>1, <2>1 DEF OwnInv, AllOwn, Late
<1>17. CASE Insert
  BY <1>17 DEF Insert, OwnInv, AllOwn, Late
<1>18. CASE UNCHANGED vars
  BY <1>18 DEF vars, OwnInv, AllOwn, Late
<1> QED
  BY <1>5, <1>6, <1>7, <1>8, <1>9, <1>10, <1>11, <1>12, <1>13, <1>14, <1>15, <1>16, <1>17, <1>18
     DEF Next, Step

(* With a card that gives up its answer when it is deselected and does not *)
(* answer too late, nothing the driver takes for a response, for the token *)
(* or for data is left over from an earlier command.                       *)
THEOREM OwnAnswerHolds == AnswersInTime => (Spec => []OwnAnswer)
<1>1. ASSUME IInv, OwnInv PROVE OwnAnswer
  <2>1. out \in Seq(Bytes)
    BY <1>1, Parts DEF IInv
  <2>2. ASSUME out # <<>> PROVE Head(out).own
    <3>1. Head(out) = out[1] /\ 1 \in 1..Len(out)
      BY <2>1, <2>2
    <3> QED
      BY <1>1, <3>1 DEF OwnInv, AllOwn
  <2> QED
    BY <2>2 DEF OwnAnswer
<1> SUFFICES ASSUME AnswersInTime PROVE Spec => []OwnAnswer
  OBVIOUS
<1>2. OwnInv /\ IInv /\ [Next]_vars => OwnInv'
  BY NextOwn
<1> QED
  BY <1>1, <1>2, InitOwn, InitType, NextType, PTL DEF Spec

-----------------------------------------------------------------------------
(* What the card sends after CMD17, and what the driver reads from it.     *)

(* The driver takes the first 0xfe for the token.                          *)
TokenAt(s, i) == s[i].b = 254 /\ \A j \in 1..(i - 1) : s[j].b # 254

(* Behind the token is the whole block.                                    *)
Whole(s, block) ==
    \A i \in 1..Len(s) : TokenAt(s, i) =>
        /\ i + BlockLen <= Len(s)
        /\ \A k \in 1..BlockLen : s[i + k].b = block[k]

(* Before the token is a response, which sd_wait_r1 stops at.              *)
Answered(s) ==
    \A i \in 1..Len(s) : s[i].b = 254 => \E j \in 1..(i - 1) : s[j].b < 128

(* The first byte with bit 7 clear tells whether the card is ready, and    *)
(* nothing but 0xff is before it.                                          *)
Telling(s, mode) ==
    \A i \in 1..Len(s) :
        (\A j \in 1..(i - 1) : s[j].b >= 128)
            => \/ s[i].b = 255
               \/ s[i].b < 128 /\ (s[i].b % 2 = 0 => mode = "ready")

LEMMA NothingSent ==
    /\ \A block : Whole(<<>>, block)
    /\ Answered(<<>>)
    /\ \A mode : Telling(<<>>, mode)
<1>1. Len(<<>>) = 0
  OBVIOUS
<1>2. 1..Len(<<>>) = {}
  BY <1>1
<1> QED
  BY <1>2 DEF Whole, Answered, Telling

(* An answer in which no byte looks like a token.                          *)
LEMMA NoToken ==
    ASSUME NEW s, NEW block, \A i \in 1..Len(s) : s[i].b # 254
    PROVE  Whole(s, block) /\ Answered(s)
BY DEF Whole, Answered, TokenAt

LEMMA TailFacts ==
    ASSUME NEW s \in Seq(Bytes), s # <<>>
    PROVE  /\ Len(s) \in Nat \ {0} /\ Len(Tail(s)) = Len(s) - 1
           /\ \A i \in 1..Len(Tail(s)) : Tail(s)[i] = s[i + 1]
           /\ Head(s) = s[1] /\ 1 \in 1..Len(s)
OBVIOUS

(* A byte that is not the token is read.                                   *)
LEMMA ShiftWhole ==
    ASSUME NEW s \in Seq(Bytes), s # <<>>, NEW block, Whole(s, block), s[1].b # 254
    PROVE  Whole(Tail(s), block)
<1> DEFINE t == Tail(s)
<1>1. /\ Len(s) \in Nat \ {0} /\ Len(t) = Len(s) - 1 /\ BlockLen \in Nat
      /\ \A i \in 1..Len(t) : t[i] = s[i + 1]
  BY TailFacts, Limits
<1> HIDE DEF t
<1>2. ASSUME NEW i \in 1..Len(t), TokenAt(t, i)
      PROVE  i + BlockLen <= Len(t) /\ \A k \in 1..BlockLen : t[i + k].b = block[k]
  <2>1. i + 1 \in 1..Len(s) /\ s[i + 1].b = 254
    BY <1>1, <1>2 DEF TokenAt
  <2>2. ASSUME NEW j \in 1..((i + 1) - 1) PROVE s[j].b # 254
    <3>1. CASE j = 1
      BY <3>1
    <3>2. CASE j # 1
      <4>1. j - 1 \in 1..(i - 1) /\ j - 1 \in 1..Len(t) /\ (j - 1) + 1 = j
        BY <1>1, <3>2
      <4>2. t[j - 1] = s[j]
        BY <1>1, <4>1
      <4> QED
        BY <1>2, <4>1, <4>2 DEF TokenAt
    <3> QED
      BY <3>1, <3>2
  <2>3. TokenAt(s, i + 1)
    BY <2>1, <2>2 DEF TokenAt
  <2>4. /\ (i + 1) + BlockLen <= Len(s)
        /\ \A k \in 1..BlockLen : s[(i + 1) + k].b = block[k]
    BY <2>1, <2>3 DEF Whole
  <2>5. ASSUME NEW k \in 1..BlockLen PROVE t[i + k].b = block[k]
    <3>1. i + k \in 1..Len(t) /\ (i + k) + 1 = (i + 1) + k
      BY <1>1, <2>4
    <3>2. t[i + k] = s[(i + k) + 1]
      BY <1>1, <3>1
    <3>3. s[(i + 1) + k].b = block[k]
      BY <2>4
    <3> QED
      BY <3>1, <3>2, <3>3
  <2> QED
    BY <1>1, <2>4, <2>5
<1>3. Whole(t, block)
  BY <1>2 DEF Whole
<1> QED
  BY <1>3 DEF t

LEMMA ShiftAnswered ==
    ASSUME NEW s \in Seq(Bytes), s # <<>>, Answered(s)
    PROVE  /\ s[1].b # 254
           /\ s[1].b >= 128 => Answered(Tail(s))
<1> DEFINE t == Tail(s)
<1>1. /\ Len(s) \in Nat \ {0} /\ Len(t) = Len(s) - 1
      /\ \A i \in 1..Len(t) : t[i] = s[i + 1]
  BY TailFacts
<1> HIDE DEF t
<1>2. s[1].b # 254
  <2>1. 1 \in 1..Len(s) /\ 1..(1 - 1) = {}
    BY <1>1
  <2> QED
    BY <2>1 DEF Answered
<1>3. ASSUME s[1].b >= 128, NEW i \in 1..Len(t), t[i].b = 254
      PROVE  \E j \in 1..(i - 1) : t[j].b < 128
  <2>1. i + 1 \in 1..Len(s) /\ s[i + 1].b = 254
    BY <1>1, <1>3
  <2>2. PICK j \in 1..((i + 1) - 1) : s[j].b < 128
    BY <2>1 DEF Answered
  <2>3. j # 1
    <3> SUFFICES ASSUME j = 1 PROVE FALSE
      OBVIOUS
    <3>1. s[1] \in Bytes
      BY <1>1, ElementOfSeq
    <3>2. s[1].b \in 0..255
      BY <3>1 DEF Bytes
    <3> DEFINE x == s[1].b
    <3>3. x \in 0..255 /\ x < 128 /\ x >= 128
      BY <1>3, <2>2, <3>2
    <3> HIDE DEF x
    <3> QED
      BY <3>3
  <2>4. j - 1 \in 1..(i - 1) /\ j - 1 \in 1..Len(t) /\ (j - 1) + 1 = j
    BY <1>1, <2>3
  <2>5. t[j - 1] = s[j]
    BY <1>1, <2>4
  <2> QED
    BY <2>2, <2>4, <2>5
<1>4. s[1].b >= 128 => Answered(t)
  BY <1>3 DEF Answered
<1> QED
  BY <1>2, <1>4 DEF t

LEMMA ShiftTelling ==
    ASSUME NEW s \in Seq(Bytes), s # <<>>, NEW mode, Telling(s, mode)
    PROVE  /\ \/ s[1].b = 255
              \/ s[1].b < 128 /\ (s[1].b % 2 = 0 => mode = "ready")
           /\ s[1].b >= 128 => Telling(Tail(s), mode)
<1> DEFINE t == Tail(s)
<1>1. /\ Len(s) \in Nat \ {0} /\ Len(t) = Len(s) - 1
      /\ \A i \in 1..Len(t) : t[i] = s[i + 1]
  BY TailFacts
<1> HIDE DEF t
<1>2. \/ s[1].b = 255
      \/ s[1].b < 128 /\ (s[1].b % 2 = 0 => mode = "ready")
  <2>1. 1 \in 1..Len(s) /\ 1..(1 - 1) = {}
    BY <1>1
  <2> QED
    BY <2>1 DEF Telling
<1>3. ASSUME s[1].b >= 128, NEW i \in 1..Len(t), \A j \in 1..(i - 1) : t[j].b >= 128
      PROVE  \/ t[i].b = 255
             \/ t[i].b < 128 /\ (t[i].b % 2 = 0 => mode = "ready")
  <2>1. i + 1 \in 1..Len(s) /\ t[i] = s[i + 1]
    BY <1>1
  <2>2. ASSUME NEW j \in 1..((i + 1) - 1) PROVE s[j].b >= 128
    <3>1. CASE j = 1
      BY <1>3, <3>1
    <3>2. CASE j # 1
      <4>1. j - 1 \in 1..(i - 1) /\ j - 1 \in 1..Len(t) /\ (j - 1) + 1 = j
        BY <1>1, <3>2
      <4>2. t[j - 1] = s[j]
        BY <1>1, <4>1
      <4> QED
        BY <1>3, <4>1, <4>2
    <3> QED
      BY <3>1, <3>2
  <2>3. \/ s[i + 1].b = 255
        \/ s[i + 1].b < 128 /\ (s[i + 1].b % 2 = 0 => mode = "ready")
    BY <2>1, <2>2 DEF Telling
  <2> QED
    BY <2>1, <2>3
<1>4. s[1].b >= 128 => Telling(t, mode)
  BY <1>3 DEF Telling
<1> QED
  BY <1>2, <1>4 DEF t

(* The bytes a card lets pass before its answer change nothing.            *)
LEMMA GapPasses ==
    ASSUME NEW gap \in Nat, NEW a \in Seq(Bytes), NEW block, NEW mode
    PROVE  /\ Whole(a, block) => Whole(<<>> \o Waits(gap) \o a, block)
           /\ Answered(a) => Answered(<<>> \o Waits(gap) \o a)
           /\ Telling(a, mode) => Telling(<<>> \o Waits(gap) \o a, mode)
<1> DEFINE w == Waits(gap)
<1>1. w \in Seq(Bytes) /\ Len(w) = gap /\ \A i \in 1..gap : w[i].b = 255
  BY WaitsOwn
<1> HIDE DEF w
<1>2. <<>> \o w = w
  BY <1>1
<1> DEFINE s == w \o a
<1>3. /\ Len(s) = gap + Len(a) /\ Len(a) \in Nat
      /\ \A i \in 1..gap : s[i] = w[i]
      /\ \A i \in 1..Len(a) : s[gap + i] = a[i]
  BY <1>1
<1>4. <<>> \o Waits(gap) \o a = s
  BY <1>2 DEF w
<1> HIDE DEF s
<1>5. \A i \in 1..gap : s[i].b = 255
  BY <1>1, <1>3
<1>6. \A i \in 1..Len(s) : i <= gap \/ (i - gap \in 1..Len(a) /\ s[i] = a[i - gap])
  <2> SUFFICES ASSUME NEW i \in 1..Len(s), ~(i <= gap)
               PROVE  i - gap \in 1..Len(a) /\ s[i] = a[i - gap]
    OBVIOUS
  <2>1. i - gap \in 1..Len(a) /\ gap + (i - gap) = i
    BY <1>3
  <2> QED
    BY <1>3, <2>1
<1>7. ASSUME Whole(a, block) PROVE Whole(s, block)
  <2>1. ASSUME NEW i \in 1..Len(s), TokenAt(s, i)
        PROVE  i + BlockLen <= Len(s) /\ \A k \in 1..BlockLen : s[i + k].b = block[k]
    <3>1. ~(i <= gap)
      BY <1>5, <2>1 DEF TokenAt
    <3>2. i - gap \in 1..Len(a) /\ s[i] = a[i - gap]
      BY <1>6, <3>1
    <3>3. ASSUME NEW j \in 1..((i - gap) - 1) PROVE a[j].b # 254
      <4>1. gap + j \in 1..(i - 1) /\ j \in 1..Len(a)
        BY <3>2
      <4> QED
        BY <1>3, <2>1, <4>1 DEF TokenAt
    <3>4. TokenAt(a, i - gap)
      BY <2>1, <3>2, <3>3 DEF TokenAt
    <3>5. /\ (i - gap) + BlockLen <= Len(a)
          /\ \A k \in 1..BlockLen : a[(i - gap) + k].b = block[k]
      BY <1>7, <3>2, <3>4 DEF Whole
    <3>6. ASSUME NEW k \in 1..BlockLen PROVE s[i + k].b = block[k]
      <4>1. (i - gap) + k \in 1..Len(a) /\ gap + ((i - gap) + k) = i + k
        BY <3>2, <3>5, Limits
      <4> QED
        BY <1>3, <3>5, <4>1
    <3> QED
      BY <1>3, <3>5, <3>6, Limits
  <2> QED
    BY <2>1 DEF Whole
<1>8. ASSUME Answered(a) PROVE Answered(s)
  <2>1. ASSUME NEW i \in 1..Len(s), s[i].b = 254
        PROVE  \E j \in 1..(i - 1) : s[j].b < 128
    <3>1. ~(i <= gap)
      BY <1>5, <2>1
    <3>2. i - gap \in 1..Len(a) /\ s[i] = a[i - gap]
      BY <1>6, <3>1
    <3>3. PICK j \in 1..((i - gap) - 1) : a[j].b < 128
      BY <1>8, <2>1, <3>2 DEF Answered
    <3>4. gap + j \in 1..(i - 1) /\ j \in 1..Len(a)
      BY <3>2
    <3> QED
      BY <1>3, <3>3, <3>4
  <2> QED
    BY <2>1 DEF Answered
<1>9. ASSUME Telling(a, mode) PROVE Telling(s, mode)
  <2>1. ASSUME NEW i \in 1..Len(s), ~(i <= gap), \A j \in 1..(i - 1) : s[j].b >= 128
        PROVE  \/ s[i].b = 255
               \/ s[i].b < 128 /\ (s[i].b % 2 = 0 => mode = "ready")
    <3>1. i - gap \in 1..Len(a) /\ s[i] = a[i - gap]
      BY <1>6, <2>1
    <3>2. ASSUME NEW j \in 1..((i - gap) - 1) PROVE a[j].b >= 128
      <4>1. gap + j \in 1..(i - 1) /\ j \in 1..Len(a)
        BY <3>1
      <4> QED
        BY <1>3, <2>1, <4>1
    <3>3. \/ a[i - gap].b = 255
          \/ a[i - gap].b < 128 /\ (a[i - gap].b % 2 = 0 => mode = "ready")
      BY <1>9, <3>1, <3>2 DEF Telling
    <3> QED
      BY <3>1, <3>3
  <2>2. \A i \in 1..Len(s) : i <= gap => s[i].b = 255
    BY <1>5
  <2> QED
    BY <2>1, <2>2 DEF Telling
<1> QED
  BY <1>4, <1>7, <1>8, <1>9

LEMMA ConcatParts ==
    ASSUME NEW s \in Seq(Bytes), NEW t \in Seq(Bytes)
    PROVE  /\ s \o t \in Seq(Bytes) /\ Len(s \o t) = Len(s) + Len(t)
           /\ \A i \in 1..Len(s) : (s \o t)[i] = s[i]
           /\ \A i \in 1..Len(t) : (s \o t)[Len(s) + i] = t[i]
OBVIOUS

(* Where the parts of a block are.                                         *)
LEMMA BlockParts ==
    ASSUME NEW s \in Sectors, NEW gap \in TokenGaps
    PROVE  /\ Block(s, gap) \in Seq(Bytes)
           /\ Len(Block(s, gap)) = gap + 1 + BlockLen + 2
           /\ \A i \in 1..gap : Block(s, gap)[i].b = 255
           /\ Block(s, gap)[gap + 1].b = 254
           /\ \A k \in 1..BlockLen : Block(s, gap)[gap + 1 + k].b = Contents[s][k]
<1> DEFINE w == Waits(gap)
           data == Follows(Contents[s])
           crc == Follows(<<0, 1>>)
<1>1. gap \in Nat /\ Contents[s] \in [1..BlockLen -> 0..255] /\ BlockLen \in Nat
  BY DriverAssumption DEF DriverAssumption
<1>2. Contents[s] \in Seq(0..255) /\ Len(Contents[s]) = BlockLen
  BY <1>1
<1>3. w \in Seq(Bytes) /\ Len(w) = gap /\ \A i \in 1..gap : w[i].b = 255
  BY <1>1, WaitsOwn
<1>4. data \in Seq(Bytes) /\ Len(data) = BlockLen
  BY <1>2, FollowsOwn
<1>5. \A k \in 1..BlockLen : data[k].b = Contents[s][k]
  BY <1>2 DEF Follows, Byte
<1>6. crc \in Seq(Bytes) /\ Len(crc) = 2
  <2>1. <<0, 1>> \in Seq(0..255) /\ Len(<<0, 1>>) = 2
    OBVIOUS
  <2> QED
    BY <2>1, FollowsOwn
<1> DEFINE token == <<Byte(254)>>
<1>7. token \in Seq(Bytes) /\ Len(token) = 1 /\ token[1].b = 254
  <2>1. 254 \in 0..255
    OBVIOUS
  <2> QED
    BY <2>1, OneOwn DEF Byte
<1>8. Block(s, gap) = w \o token \o data \o crc
  BY DEF Block
<1> HIDE DEF w, data, crc, token
<1> DEFINE b == w \o token \o data \o crc
<1>9. /\ b \in Seq(Bytes) /\ Len(b) = gap + 1 + BlockLen + 2
      /\ \A i \in 1..gap : b[i] = w[i]
      /\ b[gap + 1] = token[1]
      /\ \A k \in 1..BlockLen : b[gap + 1 + k] = data[k]
  <2> DEFINE p == w \o token
             q == p \o data
  <2>1. /\ p \in Seq(Bytes) /\ Len(p) = gap + 1
        /\ \A i \in 1..gap : p[i] = w[i]
        /\ p[gap + 1] = token[1]
    <3>0. w \in Seq(Bytes) /\ token \in Seq(Bytes)
      BY <1>3, <1>7
    <3>1. /\ p \in Seq(Bytes) /\ Len(p) = Len(w) + Len(token)
          /\ \A i \in 1..Len(w) : p[i] = w[i]
          /\ \A i \in 1..Len(token) : p[Len(w) + i] = token[i]
      BY <3>0, ConcatParts
    <3>2. 1 \in 1..Len(token)
      BY <1>7
    <3> HIDE DEF p
    <3> QED
      BY <1>3, <1>7, <3>1, <3>2
  <2> HIDE DEF p
  <2>2. /\ q \in Seq(Bytes) /\ Len(q) = gap + 1 + BlockLen
        /\ \A i \in 1..(gap + 1) : q[i] = p[i]
        /\ \A k \in 1..BlockLen : q[gap + 1 + k] = data[k]
    <3>1. /\ q \in Seq(Bytes) /\ Len(q) = Len(p) + Len(data)
          /\ \A i \in 1..Len(p) : q[i] = p[i]
          /\ \A i \in 1..Len(data) : q[Len(p) + i] = data[i]
      BY <1>4, <2>1, ConcatParts
    <3> HIDE DEF q
    <3> QED
      BY <1>1, <1>4, <2>1, <3>1
  <2> HIDE DEF q
  <2>3. b = q \o crc
    BY DEF p, q
  <2>4. /\ b \in Seq(Bytes) /\ Len(b) = gap + 1 + BlockLen + 2
        /\ \A i \in 1..(gap + 1 + BlockLen) : b[i] = q[i]
    <3>1. /\ q \o crc \in Seq(Bytes) /\ Len(q \o crc) = Len(q) + Len(crc)
          /\ \A i \in 1..Len(q) : (q \o crc)[i] = q[i]
      BY <1>6, <2>2, ConcatParts
    <3> HIDE DEF b
    <3> QED
      BY <1>1, <1>6, <2>2, <2>3, <3>1
  <2> HIDE DEF b
  <2>5. \A i \in 1..gap : b[i] = w[i]
    BY <1>1, <2>1, <2>2, <2>4
  <2>6. b[gap + 1] = token[1]
    BY <1>1, <2>1, <2>2, <2>4
  <2>7. \A k \in 1..BlockLen : b[gap + 1 + k] = data[k]
    BY <1>1, <2>2, <2>4
  <2> QED
    BY <2>4, <2>5, <2>6, <2>7
<1> HIDE DEF b
<1>10. b = Block(s, gap)
  BY <1>8 DEF b
<1> QED
  BY <1>3, <1>5, <1>7, <1>9, <1>10, SMTT(20)

(* A block has one token the driver can find, and the data behind it.      *)
LEMMA BlockWhole ==
    ASSUME NEW s \in Sectors, NEW gap \in TokenGaps
    PROVE  /\ <<Byte(0)>> \o Block(s, gap) \in Seq(Bytes)
           /\ Whole(<<Byte(0)>> \o Block(s, gap), Contents[s])
           /\ Answered(<<Byte(0)>> \o Block(s, gap))
<1> DEFINE b == Block(s, gap)
           first == <<Byte(0)>>
<1>1. /\ gap \in Nat /\ BlockLen \in Nat
      /\ b \in Seq(Bytes) /\ Len(b) = gap + 1 + BlockLen + 2
      /\ \A i \in 1..gap : b[i].b = 255
      /\ b[gap + 1].b = 254
      /\ \A k \in 1..BlockLen : b[gap + 1 + k].b = Contents[s][k]
  BY DriverAssumption, BlockParts, SMTT(20) DEF DriverAssumption
<1>2. first \in Seq(Bytes) /\ Len(first) = 1 /\ first[1].b = 0
  <2>1. 0 \in 0..255
    OBVIOUS
  <2> QED
    BY <2>1, OneOwn DEF Byte
<1> HIDE DEF b, first
<1> DEFINE a == first \o b
<1>3. /\ a \in Seq(Bytes) /\ Len(a) = 1 + Len(b)
      /\ a[1] = first[1]
      /\ \A i \in 1..Len(b) : a[1 + i] = b[i]
  <2>0. first \in Seq(Bytes) /\ b \in Seq(Bytes)
    BY <1>1, <1>2
  <2>1. /\ a \in Seq(Bytes) /\ Len(a) = Len(first) + Len(b)
        /\ \A i \in 1..Len(first) : a[i] = first[i]
        /\ \A i \in 1..Len(b) : a[Len(first) + i] = b[i]
    BY <2>0, ConcatParts
  <2> HIDE DEF a
  <2>2. 1 \in 1..Len(first)
    BY <1>2
  <2> QED
    BY <1>2, <2>1, <2>2
<1> HIDE DEF a
<1>4. a[1].b = 0 /\ a[gap + 2].b = 254
  <2>1. gap + 1 \in 1..Len(b) /\ 1 + (gap + 1) = gap + 2
    BY <1>1
  <2> QED
    BY <1>1, <1>2, <1>3, <2>1
<1>5. \A i \in 2..(gap + 1) : a[i].b = 255
  <2> SUFFICES ASSUME NEW i \in 2..(gap + 1) PROVE a[i].b = 255
    OBVIOUS
  <2>1. i - 1 \in 1..gap /\ i - 1 \in 1..Len(b) /\ 1 + (i - 1) = i
    BY <1>1
  <2>2. a[i] = b[i - 1]
    BY <1>3, <2>1
  <2> QED
    BY <1>1, <2>1, <2>2
<1>6. \A k \in 1..BlockLen : a[gap + 2 + k].b = Contents[s][k]
  <2> SUFFICES ASSUME NEW k \in 1..BlockLen PROVE a[gap + 2 + k].b = Contents[s][k]
    OBVIOUS
  <2>1. gap + 1 + k \in 1..Len(b) /\ 1 + (gap + 1 + k) = gap + 2 + k
    BY <1>1
  <2>2. a[1 + (gap + 1 + k)] = b[gap + 1 + k]
    BY <1>3, <2>1
  <2>3. b[gap + 1 + k].b = Contents[s][k]
    BY <1>1
  <2> QED
    BY <2>1, <2>2, <2>3
<1>7. ASSUME NEW i \in 1..Len(a), TokenAt(a, i)
      PROVE  /\ i + BlockLen <= Len(a)
             /\ \A k \in 1..BlockLen : a[i + k].b = Contents[s][k]
  <2>1. i # 1 /\ i \notin 2..(gap + 1)
    BY <1>4, <1>5, <1>7 DEF TokenAt
  <2>2. ~(i > gap + 2)
    <3> SUFFICES ASSUME i > gap + 2 PROVE FALSE
      OBVIOUS
    <3>1. gap + 2 \in 1..(i - 1)
      BY <1>1, <2>1
    <3> QED
      BY <1>4, <1>7, <3>1 DEF TokenAt
  <2>3. i = gap + 2
    BY <1>1, <1>3, <2>1, <2>2
  <2> QED
    BY <1>1, <1>3, <1>6, <2>3
<1>8. ASSUME NEW i \in 1..Len(a), a[i].b = 254
      PROVE  \E j \in 1..(i - 1) : a[j].b < 128
  <2>1. i # 1
    BY <1>4, <1>8
  <2>2. 1 \in 1..(i - 1)
    BY <1>1, <1>3, <2>1
  <2> QED
    BY <1>4, <2>2
<1>9. a \in Seq(Bytes) /\ Whole(a, Contents[s]) /\ Answered(a)
  BY <1>3, <1>7, <1>8 DEF Whole, Answered
<1> QED
  BY <1>9 DEF a, first, b

(* A card that takes byte addresses answers CMD17 with the sector the      *)
(* driver means, or with no block at all.                                  *)
LEMMA LoadAnswered ==
    ASSUME NEW c \in CardType, c.kind # "SDHC", NEW s \in Sectors,
           NEW a \in Answers(c, "CMD17", s * BlockLen)
    PROVE  a \in Seq(Bytes) /\ Whole(a, Contents[s]) /\ Answered(a)
<1>1. Addressed(c, s * BlockLen) = s
  <2>1. s \in Nat /\ BlockLen \in Nat \ {0}
    BY DriverAssumption DEF DriverAssumption
  <2>2. (s * BlockLen) \div BlockLen = s
    BY <2>1
  <2> QED
    BY <2>2 DEF Addressed
<1>2. \/ a = <<Byte(4 + Idle(c))>>
      \/ a = <<Byte(64)>>
      \/ a = <<Byte(0), Byte(8)>>
      \/ \E g \in TokenGaps : a = <<Byte(0)>> \o Block(s, g)
  BY <1>1 DEF Answers
<1>3. a \in Seq(Bytes)
  BY AnswersType
<1>4. CASE a = <<Byte(4 + Idle(c))>>
  <2>1. Len(a) = 1 /\ a[1].b \in {4, 5}
    BY <1>4 DEF Byte, Idle
  <2> QED
    BY <1>3, <2>1, NoToken
<1>5. CASE a = <<Byte(64)>>
  <2>1. Len(a) = 1 /\ a[1].b = 64
    BY <1>5 DEF Byte
  <2> QED
    BY <1>3, <2>1, NoToken
<1>6. CASE a = <<Byte(0), Byte(8)>>
  <2>1. Len(a) = 2 /\ a[1].b = 0 /\ a[2].b = 8
    BY <1>6 DEF Byte
  <2>2. \A i \in 1..Len(a) : a[i].b # 254
    BY <2>1
  <2> QED
    BY <1>3, <2>2, NoToken
<1>7. CASE \E g \in TokenGaps : a = <<Byte(0)>> \o Block(s, g)
  BY <1>7, BlockWhole
<1> QED
  BY <1>2, <1>4, <1>5, <1>6, <1>7

(* The responses by which sd_init judges that a card is ready.             *)
LEMMA OneTelling ==
    ASSUME NEW r \in {0, 1, 4, 5}, NEW mode, r \in {0, 4} => mode = "ready"
    PROVE  \A rest : Len(rest) \in Nat /\ Len(rest) >= 1 /\ rest[1].b = r => Telling(rest, mode)
<1> SUFFICES ASSUME NEW rest, Len(rest) \in Nat, rest[1].b = r,
                    NEW i \in 1..Len(rest), \A j \in 1..(i - 1) : rest[j].b >= 128
             PROVE  \/ rest[i].b = 255
                    \/ rest[i].b < 128 /\ (rest[i].b % 2 = 0 => mode = "ready")
  BY DEF Telling
<1>1. i = 1
  <2> SUFFICES ASSUME i # 1 PROVE FALSE
    OBVIOUS
  <2>1. 1 \in 1..(i - 1)
    OBVIOUS
  <2>2. rest[1].b >= 128
    BY <2>1
  <2>3. r >= 128
    BY <2>2
  <2> QED
    BY <2>3
<1>2. r < 128 /\ (r % 2 = 0 => mode = "ready")
  OBVIOUS
<1> QED
  BY <1>1, <1>2

LEMMA ReadyTold ==
    ASSUME NEW c \in CardType, NEW command \in {"ACMD41", "CMD58"}, NEW arg,
           NEW a \in Answers(c, command, arg), NEW d \in AfterCommand(c, command, arg)
    PROVE  a \in Seq(Bytes) /\ Telling(a, d.mode)
<1>1. Idle(c) = (IF c.mode = "ready" THEN 0 ELSE 1)
  BY DEF Idle
<1>2. a \in Seq(Bytes) /\ Len(a) \in Nat
  BY AnswersType
<1>3. CASE command = "CMD58"
  <2>1. a = <<Byte(Idle(c))>> \o Follows(<<128, 255, 128, 0>>)
    BY <1>3 DEF Answers
  <2>2. Len(a) >= 1 /\ a[1].b = Idle(c)
    <3>1. <<128, 255, 128, 0>> \in Seq(0..255)
      OBVIOUS
    <3> DEFINE rest == Follows(<<128, 255, 128, 0>>)
    <3>2. rest \in Seq(Bytes)
      BY <3>1, FollowsType
    <3> HIDE DEF rest
    <3>3. a = <<Byte(Idle(c))>> \o rest
      BY <2>1 DEF rest
    <3>4. Len(a) >= 1 /\ a[1] = Byte(Idle(c))
      BY <3>2, <3>3
    <3> QED
      BY <3>4 DEF Byte
  <2>3. d.mode = c.mode
    BY <1>3 DEF AfterCommand, CardType
  <2>4. Idle(c) \in {0, 1, 4, 5} /\ (Idle(c) \in {0, 4} => d.mode = "ready")
    BY <1>1, <2>3
  <2> QED
    BY <1>2, <2>2, <2>4, OneTelling
<1>4. CASE command = "ACMD41" /\ ~c.app
  <2>1. a = <<Byte(4 + Idle(c))>>
    BY <1>4 DEF Answers
  <2>2. Len(a) >= 1 /\ a[1].b = 4 + Idle(c)
    BY <2>1 DEF Byte
  <2>3. d.mode = c.mode
    BY <1>4 DEF AfterCommand, CardType
  <2>4. 4 + Idle(c) \in {0, 1, 4, 5} /\ (4 + Idle(c) \in {0, 4} => d.mode = "ready")
    BY <1>1, <2>3
  <2> QED
    BY <1>2, <2>2, <2>4, OneTelling
<1>5. CASE command = "ACMD41" /\ c.app /\ c.polls = 0
  <2>1. a = <<Byte(0)>>
    BY <1>5 DEF Answers
  <2>2. Len(a) >= 1 /\ a[1].b = 0
    BY <2>1 DEF Byte
  <2>3. d.mode = "ready"
    BY <1>5 DEF AfterCommand, CardType
  <2> QED
    BY <1>2, <2>2, <2>3, OneTelling
<1>6. CASE command = "ACMD41" /\ c.app /\ c.polls # 0
  <2>1. a = <<Byte(Idle(c))>>
    BY <1>6 DEF Answers
  <2>2. Len(a) >= 1 /\ a[1].b = Idle(c)
    BY <2>1 DEF Byte
  <2>3. d.mode = c.mode
    BY <1>6 DEF AfterCommand, CardType
  <2>4. Idle(c) \in {0, 1, 4, 5} /\ (Idle(c) \in {0, 4} => d.mode = "ready")
    BY <1>1, <2>3
  <2> QED
    BY <1>2, <2>2, <2>4, OneTelling
<1> QED
  BY <1>3, <1>4, <1>5, <1>6

-----------------------------------------------------------------------------
(* What the driver does with a byte and with a response                    *)

(* A byte on the bus takes the first byte of what the card has to send.    *)
LEMMA ShiftsTo ==
    ASSUME AnswersInTime, ~cs => out = <<>>, CardShifts
    PROVE  \/ out' = <<>>
           \/ cs /\ out # <<>> /\ out' = Tail(out)
BY DEF CardShifts, AnswersInTime

LEMMA ReceivedByte ==
    ASSUME out \in Seq(Bytes)
    PROVE  /\ cs /\ out # <<>> => Received.b = out[1].b
           /\ ~(cs /\ out # <<>>) => Received.b = 255
<1>1. out # <<>> => Head(out) = out[1]
  OBVIOUS
<1> QED
  BY <1>1 DEF Received, HighByte

LEMMA DecideLoad ==
    ASSUME cmd = "CMD17", NEW r, Decide(r)
    PROVE  \/ r >= 128 /\ Return("failed") /\ UNCHANGED fast
           \/ /\ ~(r >= 128) /\ pc' = "token"
              /\ UNCHANGED <<cmd, path, signed, sector, buffer, result, fast, cs, card>>
BY DEF Decide, call

(* A step of sd_init: the call goes on with another command, or ends.      *)
InitGoesOn ==
    \/ pc' \in {"ready", "frame"} /\ cmd' # "CMD17" /\ UNCHANGED <<sector, buffer, result, fast>>
    \/ pc' = "idle" /\ result' \in {"ready", "unusable"} /\ UNCHANGED <<sector, buffer>>

LEMMA PolledGoesOn ==
    ASSUME path \in {"probe", "v1", "v2"}, NEW r, Polled(r)
    PROVE  /\ InitGoesOn
           /\ fast' => fast \/ (card' = card /\ ~(r % 2 # 0))
<1>1. CASE path = "probe"
  BY <1>1 DEF Polled, InitGoesOn, StartPolling, Begin, Unusable, Return
<1>2. CASE path = "v1"
  BY <1>2 DEF Polled, InitGoesOn, Retry, Usable, Return, Begin, call
<1>3. CASE path = "v2"
  BY <1>3 DEF Polled, InitGoesOn, Retry, Return, Begin, call
<1> QED
  BY <1>1, <1>2, <1>3

LEMMA DecideGoesOn ==
    ASSUME Driver, Polling, pc \in {"r1", "skip"}, cmd # "CMD17", NEW r \in 0..255, Decide(r)
    PROVE  /\ InitGoesOn
           /\ fast' => \/ fast
                       \/ card' = card /\ cmd = "ACMD41" /\ r % 2 = 0
                       \/ card' = card /\ cmd = "CMD58" /\ r = 0
<1>1. cmd \in {"CMD0", "CMD8", "CMD55", "ACMD41", "CMD58"}
  BY DEF Driver
<1>2. cmd \in {"CMD55", "ACMD41"} => path \in {"probe", "v1", "v2"}
  BY DEF Driver, Polling
<1>3. CASE cmd = "CMD0"
  BY <1>3 DEF Decide, InitGoesOn, Begin, Retry, Return, call
<1>4. CASE cmd = "CMD8"
  BY <1>4 DEF Decide, InitGoesOn, StartPolling, Begin
<1>5. CASE cmd = "CMD55"
  <2>1. CASE AsByte(r) > 1
    <3>1. 255 % 2 # 0
      OBVIOUS
    <3>2. Polled(255)
      BY <1>5, <2>1 DEF Decide
    <3> QED
      BY <1>2, <1>5, <3>1, <3>2, PolledGoesOn
  <2>2. CASE ~(AsByte(r) > 1)
    BY <1>5, <2>2 DEF Decide, InitGoesOn, Begin, call
  <2> QED
    BY <2>1, <2>2
<1>6. CASE cmd = "ACMD41"
  <2>1. Polled(r)
    BY <1>6 DEF Decide
  <2> QED
    BY <1>2, <1>6, <2>1, PolledGoesOn
<1>7. CASE cmd = "CMD58"
  BY <1>7 DEF Decide, InitGoesOn, Unusable, Usable, Return
<1> QED
  BY <1>1, <1>3, <1>4, <1>5, <1>6, <1>7

-----------------------------------------------------------------------------
(* The driver implements its port.  The hypotheses are those of OwnAnswer  *)
(* and three more: the card takes byte addresses, as the driver sends them *)
(* for every card; no sector asked for lies beyond the addresses; and the  *)
(* card stays in the slot while a block is read, since the CRC is read     *)
(* away.                                                                   *)

GoodCards ==
    /\ AnswersInTime
    /\ "SDHC" \notin CardKinds
    /\ \A s \in Sectors : s * BlockLen < AddrSpace
    /\ "data" \notin PullIn

Reading ==
    /\ pc \in {"token", "data", "tail"} => cmd = "CMD17"
    /\ pc = "skip" => cmd \in {"CMD8", "CMD58"}

(* What the card still has to send holds the sector asked for.             *)
Promised ==
    /\ cmd = "CMD17" /\ pc \in {"r1", "token"} => Whole(out, Contents[sector])
    /\ cmd = "CMD17" /\ pc = "r1" => Answered(out)

(* The first bytes of it are in the buffer, the others at the head of what *)
(* the card has to send.                                                   *)
Stored ==
    /\ pc = "data" =>
          /\ n \in 1..BlockLen /\ n <= Len(out)
          /\ \A k \in 1..n : out[k].b = Contents[sector][BlockLen - n + k]
          /\ \A i \in 1..(BlockLen - n) : buffer[i] = Contents[sector][i]
    /\ pc = "tail" => buffer = Contents[sector]

PortInv == Reading /\ Promised /\ Stored

LEMMA Elsewhere ==
    ASSUME pc' \in {"idle", "wake", "gap", "ready", "frame"}
    PROVE  PortInv'
BY DEF PortInv, Reading, Promised, Stored

(* What the invariants of the earlier theorems say of a step.              *)
LEMMA Facts ==
    ASSUME IInv, OwnInv
    PROVE  /\ Driver /\ Polling /\ out \in Seq(Bytes) /\ Len(out) \in Nat
           /\ n \in Nat /\ r1 \in 0..255 /\ Received.b \in 0..255
           /\ ~cs => out = <<>>
<1>1. Driver /\ Polling /\ out \in Seq(Bytes) /\ r1 \in 0..255
  BY Parts DEF IInv
<1> QED
  BY <1>1, Limits, ReceivedType DEF Driver, OwnInv

LEMMA PortFrame ==
    ASSUME GoodCards, IInv, OwnInv, SendFrame
    PROVE  PortInv'
<1>1. /\ pc = "frame" /\ pc' = "r1" /\ cmd' = cmd /\ sector' = sector
      /\ CardTakes(cmd, Argument)
  BY DEF SendFrame, call
<1>2. ASSUME cmd = "CMD17"
      PROVE  Whole(out', Contents[sector]) /\ Answered(out')
  <2>1. Backlog = <<>>
    BY <1>1, Facts, BacklogEmpty DEF OwnInv
  <2>2. sector \in Sectors /\ card \in CardType /\ card.kind # "SDHC"
    BY Facts DEF Driver, CardType, GoodCards
  <2>3. Argument = sector * BlockLen
    <3>1. sector * BlockLen \in Nat /\ sector * BlockLen < AddrSpace /\ AddrSpace \in Nat
      BY <2>2, DriverAssumption DEF DriverAssumption, GoodCards
    <3> DEFINE address == sector * BlockLen
    <3>2. Argument = address % AddrSpace
      BY <1>2 DEF Argument
    <3>3. address \in Nat /\ address < AddrSpace
      BY <3>1
    <3> HIDE DEF address
    <3>4. address % AddrSpace = address
      BY <3>1, <3>3
    <3> QED
      BY <3>2, <3>4 DEF address
  <2>4. CASE out' = Backlog
    BY <2>1, <2>4, NothingSent
  <2>5. CASE \E gap \in Gaps, a \in Answers(card, cmd, Argument) :
                out' = Backlog \o Waits(gap) \o a
    <3>1. PICK gap \in Gaps, a \in Answers(card, "CMD17", sector * BlockLen) :
             out' = <<>> \o Waits(gap) \o a
      BY <1>2, <2>1, <2>3, <2>5
    <3>2. gap \in Nat
      BY DriverAssumption DEF DriverAssumption
    <3>3. a \in Seq(Bytes) /\ Whole(a, Contents[sector]) /\ Answered(a)
      BY <2>2, LoadAnswered
    <3> QED
      BY <3>1, <3>2, <3>3, GapPasses
  <2> QED
    BY <1>1, <2>4, <2>5 DEF CardTakes
<1> QED
  BY <1>1, <1>2 DEF PortInv, Reading, Promised, Stored

LEMMA PortR1 ==
    ASSUME GoodCards, IInv, OwnInv, PortInv, WaitR1
    PROVE  PortInv'
<1> DEFINE r == Received.b
<1>1. pc = "r1" /\ CardShifts
  BY DEF WaitR1
<1>2. out' = <<>> \/ (cs /\ out # <<>> /\ out' = Tail(out))
  BY <1>1, Facts, ShiftsTo DEF GoodCards
<1>3. ASSUME cmd = "CMD17"
      PROVE  /\ Whole(out', Contents[sector])
             /\ r >= 128 => Answered(out')
  <2>1. Whole(out, Contents[sector]) /\ Answered(out)
    BY <1>1, <1>3 DEF PortInv, Promised
  <2>2. CASE out' = <<>>
    BY <2>2, NothingSent
  <2>3. CASE cs /\ out # <<>> /\ out' = Tail(out)
    <3>1. out \in Seq(Bytes) /\ r = out[1].b
      BY <2>3, Facts, ReceivedByte
    <3>2. out[1].b # 254 /\ (out[1].b >= 128 => Answered(Tail(out)))
      BY <2>1, <2>3, <3>1, ShiftAnswered
    <3>3. Whole(Tail(out), Contents[sector])
      BY <2>1, <2>3, <3>1, <3>2, ShiftWhole
    <3> QED
      BY <2>3, <3>1, <3>2, <3>3
  <2> QED
    BY <1>2, <2>2, <2>3
<1> HIDE DEF r
<1>4. CASE r >= 128 /\ n > 1
  <2>1. pc' = "r1" /\ cmd' = cmd /\ sector' = sector
    BY <1>1, <1>4 DEF WaitR1, call, r
  <2> QED
    BY <1>3, <1>4, <2>1 DEF PortInv, Reading, Promised, Stored
<1>5. CASE ~(r >= 128 /\ n > 1) /\ Trailing(cmd) > 0
  <2>1. pc' = "skip" /\ cmd' = cmd
    BY <1>5 DEF WaitR1, r
  <2>2. cmd \in {"CMD8", "CMD58"}
    BY <1>5 DEF Trailing
  <2> QED
    BY <2>1, <2>2 DEF PortInv, Reading, Promised, Stored
<1>6. CASE ~(r >= 128 /\ n > 1) /\ ~(Trailing(cmd) > 0)
  <2>1. Decide(r) /\ r \in 0..255
    BY <1>6, Facts DEF WaitR1, r
  <2>2. CASE cmd = "CMD17"
    <3>1. CASE Return("failed")
      BY <3>1, Elsewhere DEF Return
    <3>2. CASE pc' = "token" /\ UNCHANGED <<cmd, path, signed, sector, buffer, result, fast, cs, card>>
      BY <1>3, <2>2, <3>2 DEF PortInv, Reading, Promised, Stored
    <3> QED
      BY <2>1, <2>2, <3>1, <3>2, DecideLoad
  <2>3. CASE cmd # "CMD17"
    <3>1. InitGoesOn
      BY <1>1, <2>1, <2>3, Facts, DecideGoesOn
    <3> QED
      BY <3>1, Elsewhere DEF InitGoesOn
  <2> QED
    BY <2>2, <2>3
<1> QED
  BY <1>4, <1>5, <1>6

LEMMA SkipGoesOn ==
    ASSUME IInv, OwnInv, PortInv, Skip
    PROVE  \/ UNCHANGED <<pc, cmd, call, card, r1>>
           \/ /\ InitGoesOn
              /\ fast' => \/ fast
                          \/ card' = card /\ cmd = "ACMD41" /\ r1 % 2 = 0
                          \/ card' = card /\ cmd = "CMD58" /\ r1 = 0
<1>1. pc = "skip" /\ r1' = r1
  BY DEF Skip
<1>2. CASE n > 1
  BY <1>1, <1>2 DEF Skip, call
<1>3. CASE ~(n > 1)
  <2>1. Decide(r1)
    BY <1>3 DEF Skip
  <2>2. cmd # "CMD17"
    BY <1>1 DEF PortInv, Reading
  <2> QED
    BY <1>1, <2>1, <2>2, Facts, DecideGoesOn
<1> QED
  BY <1>2, <1>3

LEMMA PortToken ==
    ASSUME GoodCards, IInv, OwnInv, PortInv, WaitToken
    PROVE  PortInv'
<1> DEFINE r == Received.b
           block == Contents[sector]
<1>1. /\ pc = "token" /\ CardShifts /\ cmd = "CMD17" /\ Whole(out, block)
      /\ out \in Seq(Bytes) /\ BlockLen \in Nat \ {0}
  BY Facts, Limits DEF WaitToken, PortInv, Reading, Promised
<1>2. out' = <<>> \/ (cs /\ out # <<>> /\ out' = Tail(out))
  BY <1>1, Facts, ShiftsTo DEF GoodCards
<1>3. (cs /\ out # <<>> => r = out[1].b) /\ (~(cs /\ out # <<>>) => r = 255)
  BY <1>1, ReceivedByte
<1>4. CASE r = 254
  <2>1. /\ pc' = "data" /\ n' = BlockLen /\ cmd' = cmd /\ sector' = sector /\ cs' = cs
    BY <1>4 DEF WaitToken, call
  <2>2. cs /\ out # <<>> /\ out[1].b = 254
    BY <1>3, <1>4
  <2>3. out' = Tail(out)
    BY <1>1, <2>1, <2>2 DEF CardShifts
  <2> DEFINE t == Tail(out)
  <2>4. /\ Len(out) \in Nat \ {0} /\ Len(t) = Len(out) - 1 /\ 1 \in 1..Len(out)
        /\ \A i \in 1..Len(t) : t[i] = out[i + 1]
    BY <1>1, <2>2, TailFacts
  <2> HIDE DEF t
  <2>5. TokenAt(out, 1)
    BY <2>2 DEF TokenAt
  <2>6. 1 + BlockLen <= Len(out) /\ \A k \in 1..BlockLen : out[1 + k].b = block[k]
    BY <1>1, <2>4, <2>5 DEF Whole
  <2>7. BlockLen <= Len(t) /\ \A k \in 1..BlockLen : t[k].b = block[BlockLen - BlockLen + k]
    <3>1. ASSUME NEW k \in 1..BlockLen PROVE t[k].b = block[BlockLen - BlockLen + k]
      <4>1. k \in 1..Len(t) /\ k + 1 = 1 + k /\ BlockLen - BlockLen + k = k
        BY <1>1, <2>4, <2>6
      <4> QED
        BY <2>4, <2>6, <4>1
    <3> QED
      BY <1>1, <2>4, <2>6, <3>1
  <2>8. 1..(BlockLen - BlockLen) = {} /\ BlockLen \in 1..BlockLen
    BY <1>1
  <2>9. out' = t
    BY <2>3 DEF t
  <2>10. block' = block
    BY <2>1
  <2> HIDE DEF block
  <2> QED
    BY <1>1, <2>1, <2>7, <2>8, <2>9, <2>10 DEF PortInv, Reading, Promised, Stored, block
<1>5. CASE r # 254 /\ timeout = 0
  BY <1>5, Elsewhere DEF WaitToken, Return
<1>6. CASE r # 254 /\ timeout # 0
  <2>1. pc' = "token" /\ cmd' = cmd /\ sector' = sector
    BY <1>1, <1>6 DEF WaitToken, call
  <2>2. Whole(out', block)
    <3>1. CASE out' = <<>>
      BY <3>1, NothingSent
    <3>2. CASE cs /\ out # <<>> /\ out' = Tail(out)
      <4>1. out[1].b # 254
        BY <1>3, <1>6, <3>2
      <4> QED
        BY <1>1, <3>2, <4>1, ShiftWhole
    <3> QED
      BY <1>2, <3>1, <3>2
  <2> QED
    BY <1>1, <2>1, <2>2 DEF PortInv, Reading, Promised, Stored
<1> QED
  BY <1>4, <1>5, <1>6

(* A byte of the block is stored: the one that belongs there.              *)
LEMMA PortData ==
    ASSUME GoodCards, IInv, OwnInv, PortInv, LoadData
    PROVE  /\ PortInv'
           /\ BlockLen - n + 1 \in 1..BlockLen
           /\ Received.b = Contents[sector][BlockLen - n + 1]
<1> DEFINE block == Contents[sector]
<1>1. /\ pc = "data" /\ CardShifts /\ cmd = "CMD17"
      /\ cmd' = cmd /\ sector' = sector /\ cs' = cs
      /\ buffer' = [buffer EXCEPT ![BlockLen - n + 1] = Received.b]
  BY DEF LoadData, PortInv, Reading
<1>2. /\ n \in 1..BlockLen /\ n <= Len(out)
      /\ \A k \in 1..n : out[k].b = block[BlockLen - n + k]
      /\ \A i \in 1..(BlockLen - n) : buffer[i] = block[i]
  BY <1>1 DEF PortInv, Stored
<1>3. out \in Seq(Bytes) /\ BlockLen \in Nat \ {0} /\ Len(out) \in Nat
  BY Facts, Limits
<1>4. out # <<>> /\ cs
  <2>1. Len(<<>>) = 0
    OBVIOUS
  <2>2. out # <<>>
    BY <1>2, <1>3, <2>1
  <2> QED
    BY <2>2, Facts
<1>5. Received.b = block[BlockLen - n + 1]
  <2>1. Received.b = out[1].b
    BY <1>3, <1>4, ReceivedByte
  <2>2. 1 \in 1..n
    BY <1>2
  <2> QED
    BY <1>2, <2>1, <2>2
<1>6. BlockLen - n + 1 \in 1..BlockLen
  BY <1>2, <1>3
<1> DEFINE t == Tail(out)
<1>7. out' = t
  BY <1>1, <1>4 DEF CardShifts
<1>8. Len(t) = Len(out) - 1 /\ \A i \in 1..Len(t) : t[i] = out[i + 1]
  BY <1>3, <1>4, TailFacts
<1>9. \A i \in 1..(BlockLen - n + 1) : buffer'[i] = block[i]
  <2> SUFFICES ASSUME NEW i \in 1..(BlockLen - n + 1) PROVE buffer'[i] = block[i]
    OBVIOUS
  <2>1. buffer \in [1..BlockLen -> 0..255]
    BY Facts DEF Driver
  <2>2. CASE i = BlockLen - n + 1
    BY <1>1, <1>5, <1>6, <2>1, <2>2
  <2>3. CASE i # BlockLen - n + 1
    <3>1. i \in 1..(BlockLen - n) /\ i \in 1..BlockLen
      BY <1>2, <1>3, <2>3
    <3> QED
      BY <1>1, <1>2, <2>1, <2>3, <3>1
  <2> QED
    BY <2>2, <2>3
<1> HIDE DEF t
<1>10. CASE n > 1
  <2>1. pc' = "data" /\ n' = n - 1
    BY <1>1, <1>10 DEF LoadData
  <2>2. n - 1 \in 1..BlockLen /\ n - 1 <= Len(t)
    BY <1>2, <1>3, <1>8, <1>10
  <2>3. \A k \in 1..(n - 1) : t[k].b = block[BlockLen - (n - 1) + k]
    <3> SUFFICES ASSUME NEW k \in 1..(n - 1) PROVE t[k].b = block[BlockLen - (n - 1) + k]
      OBVIOUS
    <3>1. k \in 1..Len(t)
      BY <1>2, <1>3, <1>8, <1>10
    <3>2. k + 1 \in 1..n
      BY <1>2, <1>3
    <3>3. BlockLen - n + (k + 1) = BlockLen - (n - 1) + k
      BY <1>2, <1>3
    <3> QED
      BY <1>2, <1>8, <3>1, <3>2, <3>3
  <2>4. \A i \in 1..(BlockLen - (n - 1)) : buffer'[i] = block[i]
    <3>1. BlockLen - (n - 1) = BlockLen - n + 1
      BY <1>2, <1>3
    <3> QED
      BY <1>9, <3>1
  <2>5. Stored'
    <3>1. block' = block
      BY <1>1
    <3> HIDE DEF block
    <3> QED
      BY <1>7, <2>1, <2>2, <2>3, <2>4, <3>1 DEF Stored, block
  <2> QED
    BY <1>1, <1>5, <1>6, <2>1, <2>5 DEF PortInv, Reading, Promised
<1>11. CASE ~(n > 1)
  <2>1. pc' = "tail"
    BY <1>11 DEF LoadData
  <2>2. buffer' = block
    <3>1. n = 1 /\ BlockLen - n + 1 = BlockLen
      BY <1>2, <1>3, <1>11
    <3>2. block \in [1..BlockLen -> 0..255]
      BY Facts, DriverAssumption DEF DriverAssumption, Driver
    <3>3. buffer' \in [1..BlockLen -> 0..255]
      BY <1>1, Facts DEF Driver
    <3>4. \A i \in 1..BlockLen : buffer'[i] = block[i]
      BY <1>9, <3>1
    <3> HIDE DEF block
    <3>5. buffer' = [i \in 1..BlockLen |-> buffer'[i]] /\ block = [i \in 1..BlockLen |-> block[i]]
      BY <3>2, <3>3
    <3>6. [i \in 1..BlockLen |-> buffer'[i]] = [i \in 1..BlockLen |-> block[i]]
      BY <3>4, Zenon
    <3> QED
      BY <3>5, <3>6
  <2> QED
    BY <1>1, <1>5, <1>6, <2>1, <2>2 DEF PortInv, Reading, Promised, Stored
<1> QED
  BY <1>10, <1>11

LEMMA InitPort == Init => PortInv
BY DEF Init, PortInv, Reading, Promised, Stored

LEMMA NextPort == GoodCards /\ IInv /\ OwnInv /\ PortInv /\ [Next]_vars => PortInv'
<1> SUFFICES ASSUME GoodCards, IInv, OwnInv, PortInv, [Next]_vars PROVE PortInv'
  OBVIOUS
<1>1. CASE CallInit \/ Wake \/ Gap \/ WaitReady
  <2>1. pc' \in {"idle", "wake", "gap", "ready", "frame"}
    BY <1>1 DEF CallInit, Wake, Gap, WaitReady, Begin
  <2> QED
    BY <2>1, Elsewhere
<1>2. ASSUME NEW s \in Sectors, CallLoad(s) PROVE PortInv'
  <2>1. pc' = "ready"
    BY <1>2 DEF CallLoad, Begin
  <2> QED
    BY <2>1, Elsewhere
<1>3. CASE Skip
  <2>1. pc = "skip"
    BY <1>3 DEF Skip
  <2>2. CASE UNCHANGED <<pc, cmd, call, card, r1>>
    BY <2>1, <2>2 DEF PortInv, Reading, Promised, Stored
  <2>3. CASE InitGoesOn
    BY <2>3, Elsewhere DEF InitGoesOn
  <2> QED
    BY <1>3, <2>2, <2>3, SkipGoesOn
<1>4. CASE Tailing
  <2>1. pc = "tail"
    BY <1>4 DEF Tailing
  <2>2. CASE n > 1
    BY <1>4, <2>1, <2>2 DEF Tailing, call, PortInv, Reading, Promised, Stored
  <2>3. CASE ~(n > 1)
    BY <1>4, <2>3, Elsewhere DEF Tailing, Return
  <2> QED
    BY <2>2, <2>3
<1>5. CASE Pull
  <2>1. out' = <<>> /\ UNCHANGED <<pc, cmd, n, call>> /\ pc # "data"
    BY <1>5 DEF Pull, GoodCards
  <2> QED
    BY <2>1, NothingSent DEF call, PortInv, Reading, Promised, Stored
<1>6. CASE Insert \/ UNCHANGED vars
  <2>1. UNCHANGED <<pc, cmd, n, call, out>>
    BY <1>6 DEF Insert, vars, call
  <2> QED
    BY <2>1 DEF call, PortInv, Reading, Promised, Stored
<1> QED
  BY <1>1, <1>2, <1>3, <1>4, <1>5, <1>6, PortFrame, PortR1, PortToken, PortData DEF
     Next, Step

-----------------------------------------------------------------------------
(* Every step of the driver is a step of SectorPort or changes nothing     *)
(* that SectorPort speaks of.                                              *)

Place ==
    IF pc = "idle" THEN "idle"
    ELSE IF Storing THEN "storing"
    ELSE IF Loading THEN "load"
    ELSE "init"

LEMMA PlaceOf ==
    /\ pc = "idle" => Place = "idle"
    /\ pc \in {"wake", "gap", "skip"} => Place = "init"
    /\ pc \in {"ready", "frame", "r1"} /\ cmd # "CMD17" => Place = "init"
    /\ pc \in {"ready", "frame", "r1", "token"} /\ cmd = "CMD17" => Place = "load"
    /\ pc = "data" /\ cmd = "CMD17" /\ ~(n < BlockLen) => Place = "load"
    /\ pc = "data" /\ n < BlockLen => Place = "storing"
    /\ pc = "tail" => Place = "storing"
BY DEF Place, Storing, Loading

LEMMA PlaceOfNext ==
    /\ pc' = "idle" => Place' = "idle"
    /\ pc' \in {"wake", "gap", "skip"} => Place' = "init"
    /\ pc' \in {"ready", "frame", "r1"} /\ cmd' # "CMD17" => Place' = "init"
    /\ pc' \in {"ready", "frame", "r1", "token"} /\ cmd' = "CMD17" => Place' = "load"
    /\ pc' = "data" /\ cmd' = "CMD17" /\ ~(n' < BlockLen) => Place' = "load"
    /\ pc' = "data" /\ n' < BlockLen => Place' = "storing"
    /\ pc' = "tail" => Place' = "storing"
BY DEF Place, Storing, Loading

LEMMA PortIdles ==
    ASSUME Place' = Place, UNCHANGED <<sector, buffer, result>>
    PROVE  UNCHANGED Port!vars
BY DEF Port!vars, Place

(* A step of sd_init.                                                      *)
LEMMA InitImplements ==
    ASSUME Place = "init", InitGoesOn
    PROVE  Port!Next \/ UNCHANGED Port!vars
<1>1. CASE pc' \in {"ready", "frame"} /\ cmd' # "CMD17" /\ UNCHANGED <<sector, buffer, result, fast>>
  <2>1. Place' = Place
    BY <1>1, PlaceOfNext
  <2> QED
    BY <1>1, <2>1, PortIdles
<1>2. CASE pc' = "idle" /\ result' \in {"ready", "unusable"} /\ UNCHANGED <<sector, buffer>>
  <2>1. Place' = "idle"
    BY <1>2, PlaceOfNext
  <2>2. Port!InitReturns
    BY <1>2, <2>1 DEF Port!InitReturns, Place
  <2> QED
    BY <2>2 DEF Port!Next
<1> QED
  BY <1>1, <1>2 DEF InitGoesOn

LEMMA FailImplements ==
    ASSUME Place = "load", Return("failed")
    PROVE  Port!Next
<1>1. pc' = "idle" /\ result' = "failed" /\ UNCHANGED <<sector, buffer>>
  BY DEF Return
<1>2. Place' = "idle"
  BY <1>1, PlaceOfNext
<1>3. Port!LoadFails
  BY <1>1, <1>2 DEF Port!LoadFails, Place
<1> QED
  BY <1>3 DEF Port!Next

LEMMA R1Implements ==
    ASSUME IInv, OwnInv, PortInv, WaitR1
    PROVE  Port!Next \/ UNCHANGED Port!vars
<1> DEFINE r == Received.b
<1>1. pc = "r1" /\ r \in 0..255
  BY Facts DEF WaitR1
<1>2. (cmd = "CMD17" => Place = "load") /\ (cmd # "CMD17" => Place = "init")
  BY <1>1, PlaceOf
<1> HIDE DEF r
<1>3. CASE r >= 128 /\ n > 1
  <2>1. pc' = "r1" /\ UNCHANGED <<cmd, sector, buffer, result>>
    BY <1>1, <1>3 DEF WaitR1, call, r
  <2>2. Place' = Place
    BY <1>2, <2>1, PlaceOfNext
  <2> QED
    BY <2>1, <2>2, PortIdles
<1>4. CASE ~(r >= 128 /\ n > 1) /\ Trailing(cmd) > 0
  <2>1. pc' = "skip" /\ UNCHANGED <<sector, buffer, result>>
    BY <1>4 DEF WaitR1, call, r
  <2>2. cmd # "CMD17"
    BY <1>4 DEF Trailing
  <2>3. Place' = Place
    BY <1>2, <2>1, <2>2, PlaceOfNext
  <2> QED
    BY <2>1, <2>3, PortIdles
<1>5. CASE ~(r >= 128 /\ n > 1) /\ ~(Trailing(cmd) > 0)
  <2>1. Decide(r)
    BY <1>5 DEF WaitR1, r
  <2>2. CASE cmd = "CMD17" /\ Return("failed")
    BY <1>2, <2>2, FailImplements
  <2>3. CASE /\ cmd = "CMD17" /\ pc' = "token"
             /\ UNCHANGED <<cmd, path, signed, sector, buffer, result, fast, cs, card>>
    <3>1. Place' = Place
      BY <1>2, <2>3, PlaceOfNext
    <3> QED
      BY <2>3, <3>1, PortIdles
  <2>4. CASE cmd # "CMD17"
    <3>1. InitGoesOn
      BY <1>1, <2>1, <2>4, Facts, DecideGoesOn
    <3> QED
      BY <1>2, <2>4, <3>1, InitImplements
  <2> QED
    BY <2>1, <2>2, <2>3, <2>4, DecideLoad
<1> QED
  BY <1>3, <1>4, <1>5

LEMMA TokenImplements ==
    ASSUME IInv, OwnInv, PortInv, WaitToken
    PROVE  Port!Next \/ UNCHANGED Port!vars
<1>1. pc = "token" /\ cmd = "CMD17" /\ BlockLen \in Nat
  BY Limits DEF WaitToken, PortInv, Reading
<1>2. Place = "load"
  BY <1>1, PlaceOf
<1>3. CASE Received.b = 254
  <2>1. pc' = "data" /\ n' = BlockLen /\ UNCHANGED <<cmd, sector, buffer, result>>
    BY <1>3 DEF WaitToken, call
  <2>2. ~(n' < BlockLen)
    BY <1>1, <2>1
  <2>3. Place' = Place
    BY <1>1, <1>2, <2>1, <2>2, PlaceOfNext
  <2> QED
    BY <2>1, <2>3, PortIdles
<1>4. CASE Received.b # 254 /\ timeout = 0
  BY <1>2, <1>4, FailImplements DEF WaitToken
<1>5. CASE Received.b # 254 /\ timeout # 0
  <2>1. pc' = "token" /\ UNCHANGED <<cmd, sector, buffer, result>>
    BY <1>1, <1>5 DEF WaitToken, call
  <2>2. Place' = Place
    BY <1>1, <1>2, <2>1, PlaceOfNext
  <2> QED
    BY <2>1, <2>2, PortIdles
<1> QED
  BY <1>3, <1>4, <1>5

LEMMA DataImplements ==
    ASSUME GoodCards, IInv, OwnInv, PortInv, LoadData
    PROVE  Port!Next
<1>1. /\ pc = "data" /\ UNCHANGED <<cmd, sector, result>>
      /\ buffer' = [buffer EXCEPT ![BlockLen - n + 1] = Received.b]
      /\ \/ n > 1 /\ n' = n - 1 /\ pc' = "data"
         \/ pc' = "tail"
  BY DEF LoadData
<1>2. BlockLen - n + 1 \in 1..BlockLen /\ Received.b = Contents[sector][BlockLen - n + 1]
  BY PortData
<1>3. cmd = "CMD17" /\ n \in 1..BlockLen
  BY <1>1 DEF PortInv, Reading, Stored
<1>4. Place \in {"load", "storing"}
  BY <1>1, <1>3, PlaceOf
<1>5. Place' = "storing"
  <2>1. n' = n - 1 => n' < BlockLen
    BY <1>3, Limits
  <2> QED
    BY <1>1, <2>1, PlaceOfNext
<1>6. buffer' = [buffer EXCEPT ![BlockLen - n + 1] = Contents[sector][BlockLen - n + 1]]
  BY <1>1, <1>2
<1>7. Port!Store(BlockLen - n + 1)
  BY <1>1, <1>4, <1>5, <1>6 DEF Port!Store, Place
<1> QED
  BY <1>2, <1>7 DEF Port!Next

LEMMA TailImplements ==
    ASSUME PortInv, Tailing
    PROVE  Port!Next \/ UNCHANGED Port!vars
<1>1. pc = "tail" /\ buffer = Contents[sector] /\ Place = "storing"
  BY PlaceOf DEF Tailing, PortInv, Stored
<1>2. CASE n > 1
  <2>1. pc' = "tail" /\ UNCHANGED <<sector, buffer, result>>
    BY <1>1, <1>2 DEF Tailing, call
  <2>2. Place' = Place
    BY <1>1, <2>1, PlaceOfNext
  <2> QED
    BY <2>1, <2>2, PortIdles
<1>3. CASE ~(n > 1)
  <2>1. pc' = "idle" /\ result' = "loaded" /\ UNCHANGED <<sector, buffer>>
    BY <1>3 DEF Tailing, Return
  <2>2. Place' = "idle"
    BY <2>1, PlaceOfNext
  <2>3. Port!LoadSucceeds
    BY <1>1, <2>1, <2>2 DEF Port!LoadSucceeds, Place
  <2> QED
    BY <2>3 DEF Port!Next
<1> QED
  BY <1>2, <1>3

LEMMA StepImplements ==
    GoodCards /\ IInv /\ OwnInv /\ PortInv /\ [Next]_vars => [Port!Next]_Port!vars
<1> SUFFICES ASSUME GoodCards, IInv, OwnInv, PortInv, [Next]_vars
             PROVE  Port!Next \/ UNCHANGED Port!vars
  OBVIOUS
<1>1. CASE CallInit
  <2>1. Place = "idle" /\ Place' = "init" /\ result' = "none" /\ UNCHANGED <<sector, buffer>>
    BY <1>1, PlaceOf, PlaceOfNext DEF CallInit
  <2>2. Port!CallInit
    BY <2>1 DEF Port!CallInit, Place
  <2> QED
    BY <2>2 DEF Port!Next
<1>2. ASSUME NEW s \in Sectors, CallLoad(s) PROVE Port!Next
  <2>1. Place = "idle" /\ Place' = "load"
    BY <1>2, PlaceOf, PlaceOfNext DEF CallLoad, Begin
  <2>2. /\ result \in {"ready", "loaded", "failed"}
        /\ sector' = s /\ result' = "none" /\ UNCHANGED buffer
    BY <1>2 DEF CallLoad
  <2>3. Port!CallLoad(s)
    BY <2>1, <2>2 DEF Port!CallLoad, Place
  <2> QED
    BY <2>3 DEF Port!Next
<1>3. CASE Wake \/ Gap
  <2>1. pc \in {"wake", "gap"} /\ UNCHANGED <<sector, buffer, result>>
    BY <1>3 DEF Wake, Gap, call
  <2>2. pc' \in {"wake", "gap"} \/ (pc' \in {"ready", "frame"} /\ cmd' = "CMD0")
    BY <1>3 DEF Wake, Gap, Begin
  <2>3. Place = "init" /\ Place' = "init"
    BY <2>1, <2>2, PlaceOf, PlaceOfNext
  <2> QED
    BY <2>1, <2>3, PortIdles
<1>4. CASE WaitReady \/ SendFrame
  <2>1. /\ pc \in {"ready", "frame"} /\ pc' \in {"ready", "frame", "r1"}
        /\ UNCHANGED <<cmd, sector, buffer, result>>
    BY <1>4 DEF WaitReady, SendFrame, call
  <2>2. Place' = Place
    BY <2>1, PlaceOf, PlaceOfNext
  <2> QED
    BY <2>1, <2>2, PortIdles
<1>5. CASE Skip
  <2>1. pc = "skip" /\ Place = "init"
    BY <1>5, PlaceOf DEF Skip
  <2>2. CASE UNCHANGED <<pc, cmd, call, card, r1>>
    <3>1. Place' = Place /\ UNCHANGED <<sector, buffer, result>>
      BY <2>1, <2>2, PlaceOfNext DEF call
    <3> QED
      BY <3>1, PortIdles
  <2>3. CASE InitGoesOn
    BY <2>1, <2>3, InitImplements
  <2> QED
    BY <1>5, <2>2, <2>3, SkipGoesOn
<1>6. CASE Pull \/ Insert \/ UNCHANGED vars
  <2>1. UNCHANGED <<pc, cmd, n, sector, buffer, result>>
    BY <1>6 DEF Pull, Insert, vars, call
  <2>2. Place' = Place
    BY <2>1 DEF Place, Storing, Loading
  <2> QED
    BY <2>1, <2>2, PortIdles
<1> QED
  BY <1>1, <1>2, <1>3, <1>4, <1>5, <1>6, R1Implements, TokenImplements,
     DataImplements, TailImplements DEF Next, Step

LEMMA PortInvHolds == GoodCards => (Spec => [](IInv /\ OwnInv /\ PortInv))
<1> SUFFICES ASSUME GoodCards PROVE Spec => [](IInv /\ OwnInv /\ PortInv)
  OBVIOUS
<1>1. IInv /\ OwnInv /\ PortInv /\ [Next]_vars => (IInv /\ OwnInv /\ PortInv)'
  BY NextType, NextOwn, NextPort DEF GoodCards
<1>2. Init => IInv /\ OwnInv /\ PortInv
  BY InitType, InitOwn, InitPort
<1> QED
  BY <1>1, <1>2, PTL DEF Spec

(* sd_load_sector keeps its promises: when it returns TRUE the buffer      *)
(* holds the sector asked for, the whole of it, and when it returns FALSE  *)
(* the buffer is as it was; and every other step of the driver leaves the  *)
(* caller's buffer and the last result alone (sd.c:357-382).               *)
THEOREM SectorPortImplemented == GoodCards => (Spec => ImplementsSectorPort)
<1> SUFFICES ASSUME GoodCards PROVE Spec => ImplementsSectorPort
  OBVIOUS
<1>1. Init => Port!Init
  <2> SUFFICES ASSUME Init PROVE Port!Init
    OBVIOUS
  <2>1. pc = "idle" /\ sector \in Sectors /\ result = "none"
    BY DEF Init
  <2>2. buffer \in [1..BlockLen -> {0}]
    BY DEF Init
  <2> QED
    BY <2>1, <2>2 DEF Port!Init
<1>2. IInv /\ OwnInv /\ PortInv /\ [Next]_vars => [Port!Next]_Port!vars
  BY StepImplements
<1> QED
  BY <1>1, <1>2, PortInvHolds, PTL DEF Spec, Port!Spec, ImplementsSectorPort

-----------------------------------------------------------------------------
(* FastWhenReady.  While sd_wait_r1 waits for the response to ACMD41 or    *)
(* CMD58, that response tells the state of the card; and the card is not   *)
(* pulled out between the response to CMD58 and the end of its five bytes, *)
(* after which the driver judges a response it has read before.            *)

StaysWhileJudged == AnswersInTime /\ "skip" \notin PullIn

FastInv ==
    /\ pc = "skip" => cmd \in {"CMD8", "CMD58"}
    /\ pc = "r1" /\ cmd \in {"ACMD41", "CMD58"} => Telling(out, card.mode)
    /\ pc = "skip" /\ cmd = "CMD58" /\ r1 = 0 => card.mode = "ready"

FastStep == ~fast /\ fast' => card'.mode = "ready"

LEMMA FastFrame ==
    ASSUME StaysWhileJudged, IInv, OwnInv, SendFrame
    PROVE  FastInv'
<1>1. pc = "frame" /\ pc' = "r1" /\ cmd' = cmd /\ CardTakes(cmd, Argument)
  BY DEF SendFrame
<1>2. ASSUME cmd \in {"ACMD41", "CMD58"} PROVE Telling(out', card'.mode)
  <2>1. Backlog = <<>> /\ card \in CardType
    BY <1>1, Facts, BacklogEmpty DEF OwnInv, Driver
  <2>2. CASE out' = Backlog
    BY <2>1, <2>2, NothingSent
  <2>3. CASE /\ \E gap \in Gaps, a \in Answers(card, cmd, Argument) :
                   out' = Backlog \o Waits(gap) \o a
             /\ card' \in AfterCommand(card, cmd, Argument)
    <3>1. PICK gap \in Gaps, a \in Answers(card, cmd, Argument) :
             out' = <<>> \o Waits(gap) \o a
      BY <2>1, <2>3
    <3>2. gap \in Nat
      BY DriverAssumption DEF DriverAssumption
    <3>3. a \in Seq(Bytes) /\ Telling(a, card'.mode)
      BY <1>2, <2>1, <2>3, ReadyTold
    <3> QED
      BY <3>1, <3>2, <3>3, GapPasses
  <2> QED
    BY <1>1, <2>2, <2>3 DEF CardTakes
<1> QED
  BY <1>1, <1>2 DEF FastInv

LEMMA FastR1 ==
    ASSUME StaysWhileJudged, IInv, OwnInv, FastInv, WaitR1
    PROVE  FastInv' /\ FastStep
<1> DEFINE r == Received.b
<1>1. pc = "r1" /\ CardShifts /\ r \in 0..255
  BY Facts DEF WaitR1
<1>2. out' = <<>> \/ (cs /\ out # <<>> /\ out' = Tail(out))
  BY <1>1, Facts, ShiftsTo DEF StaysWhileJudged
<1>3. ASSUME cmd \in {"ACMD41", "CMD58"}
      PROVE  /\ r = 255 \/ (r % 2 = 0 => card.mode = "ready")
             /\ r >= 128 => Telling(out', card.mode)
  <2>1. Telling(out, card.mode) /\ out \in Seq(Bytes)
    BY <1>1, <1>3, Facts DEF FastInv
  <2>2. CASE cs /\ out # <<>>
    <3>1. r = out[1].b
      BY <2>1, <2>2, ReceivedByte
    <3>2. /\ \/ out[1].b = 255
             \/ out[1].b < 128 /\ (out[1].b % 2 = 0 => card.mode = "ready")
          /\ out[1].b >= 128 => Telling(Tail(out), card.mode)
      BY <2>1, <2>2, ShiftTelling
    <3>3. out' = <<>> => Telling(out', card.mode)
      BY NothingSent
    <3> HIDE DEF r
    <3> QED
      BY <1>2, <3>1, <3>2, <3>3
  <2>3. CASE ~(cs /\ out # <<>>)
    <3>1. r = 255 /\ out' = <<>>
      BY <1>2, <2>1, <2>3, ReceivedByte
    <3> QED
      BY <3>1, NothingSent
  <2> QED
    BY <2>2, <2>3
<1>4. 255 % 2 = 1 /\ 0 % 2 = 0
  OBVIOUS
<1> HIDE DEF r
<1>5. CASE r >= 128 /\ n > 1
  <2>1. pc' = "r1" /\ cmd' = cmd /\ card' = card /\ fast' = fast
    BY <1>1, <1>5 DEF WaitR1, call, r
  <2> QED
    BY <1>3, <1>5, <2>1 DEF FastInv, FastStep
<1>6. CASE ~(r >= 128 /\ n > 1) /\ Trailing(cmd) > 0
  <2>1. pc' = "skip" /\ cmd' = cmd /\ card' = card /\ fast' = fast /\ r1' = r
    BY <1>6 DEF WaitR1, call, r
  <2>2. cmd \in {"CMD8", "CMD58"}
    BY <1>6 DEF Trailing
  <2>3. cmd = "CMD58" /\ r = 0 => card.mode = "ready"
    BY <1>3, <1>4
  <2> QED
    BY <2>1, <2>2, <2>3 DEF FastInv, FastStep
<1>7. CASE ~(r >= 128 /\ n > 1) /\ ~(Trailing(cmd) > 0)
  <2>1. Decide(r)
    BY <1>7 DEF WaitR1, r
  <2>2. CASE cmd = "CMD17"
    <3>1. (pc' = "idle" \/ pc' = "token") /\ fast' = fast
      BY <2>1, <2>2, DecideLoad DEF Return
    <3> QED
      BY <3>1 DEF FastInv, FastStep
  <2>3. CASE cmd # "CMD17"
    <3>1. /\ InitGoesOn
          /\ fast' => \/ fast
                      \/ card' = card /\ cmd = "ACMD41" /\ r % 2 = 0
                      \/ card' = card /\ cmd = "CMD58" /\ r = 0
      BY <1>1, <2>1, <2>3, Facts, DecideGoesOn
    <3>2. FastInv'
      BY <3>1 DEF InitGoesOn, FastInv
    <3>3. FastStep
      BY <1>3, <1>4, <3>1 DEF FastStep
    <3> QED
      BY <3>2, <3>3
  <2> QED
    BY <2>2, <2>3
<1> QED
  BY <1>5, <1>6, <1>7

LEMMA FastSkip ==
    ASSUME IInv, FastInv, Skip
    PROVE  FastInv' /\ FastStep
<1>1. pc = "skip" /\ r1' = r1 /\ cmd \in {"CMD8", "CMD58"} /\ cmd # "CMD17"
  BY DEF Skip, FastInv
<1>2. CASE n > 1
  <2>1. UNCHANGED <<pc, cmd, card, fast>>
    BY <1>1, <1>2 DEF Skip, call
  <2> QED
    BY <1>1, <2>1 DEF FastInv, FastStep
<1>3. CASE ~(n > 1)
  <2>1. Decide(r1) /\ Driver /\ Polling /\ r1 \in 0..255
    BY <1>3, Parts DEF Skip, IInv
  <2>2. /\ InitGoesOn
        /\ fast' => \/ fast
                    \/ card' = card /\ cmd = "ACMD41" /\ r1 % 2 = 0
                    \/ card' = card /\ cmd = "CMD58" /\ r1 = 0
    BY <1>1, <2>1, DecideGoesOn
  <2>3. FastInv'
    BY <2>2 DEF InitGoesOn, FastInv
  <2>4. FastStep
    BY <1>1, <2>2 DEF FastInv, FastStep
  <2> QED
    BY <2>3, <2>4
<1> QED
  BY <1>2, <1>3

LEMMA NextFast ==
    StaysWhileJudged /\ IInv /\ OwnInv /\ FastInv /\ [Next]_vars => FastInv' /\ FastStep
<1> SUFFICES ASSUME StaysWhileJudged, IInv, OwnInv, FastInv, [Next]_vars
             PROVE  FastInv' /\ FastStep
  OBVIOUS
<1>1. CASE CallInit \/ Wake \/ Gap \/ WaitReady
  <2>1. pc' \in {"wake", "gap", "ready", "frame"} /\ (fast' = fast \/ fast' = FALSE)
    BY <1>1 DEF CallInit, Wake, Gap, WaitReady, Begin, call
  <2> QED
    BY <2>1 DEF FastInv, FastStep
<1>2. ASSUME NEW s \in Sectors, CallLoad(s) PROVE FastInv' /\ FastStep
  <2>1. pc' = "ready" /\ fast' = fast
    BY <1>2 DEF CallLoad, Begin
  <2> QED
    BY <2>1 DEF FastInv, FastStep
<1>3. CASE SendFrame
  <2>1. fast' = fast
    BY <1>3 DEF SendFrame, call
  <2> QED
    BY <1>3, <2>1, FastFrame DEF FastStep
<1>4. CASE WaitToken \/ LoadData \/ Tailing
  <2>1. pc' \in {"idle", "token", "data", "tail"} /\ fast' = fast
    BY <1>4 DEF WaitToken, LoadData, Tailing, Return, call
  <2> QED
    BY <2>1 DEF FastInv, FastStep
<1>5. CASE Pull
  <2>1. out' = <<>> /\ UNCHANGED <<pc, cmd, r1, fast>> /\ pc # "skip"
    BY <1>5 DEF Pull, call, StaysWhileJudged
  <2> QED
    BY <2>1, NothingSent DEF FastInv, FastStep
<1>6. CASE Insert \/ UNCHANGED vars
  <2>1. UNCHANGED <<pc, cmd, r1, fast, out>>
    BY <1>6 DEF Insert, vars, call
  <2>2. card'.mode = card.mode
    <3>1. card \in CardType
      BY Facts DEF Driver
    <3> QED
      BY <1>6, <3>1 DEF Insert, vars, CardType
  <2> QED
    BY <2>1, <2>2 DEF FastInv, FastStep
<1> QED
  BY <1>1, <1>2, <1>3, <1>4, <1>5, <1>6, FastR1, FastSkip DEF Next, Step

(* The clock is set to full speed (sd.c:290) only for a card that has left *)
(* the idle state, by whichever of its three ways sd_init returns TRUE.    *)
THEOREM FullSpeedWhenReady == StaysWhileJudged => (Spec => FastWhenReady)
<1> SUFFICES ASSUME StaysWhileJudged PROVE Spec => FastWhenReady
  OBVIOUS
<1>1. Init => FastInv
  BY DEF Init, FastInv
<1>2. IInv /\ OwnInv /\ FastInv /\ [Next]_vars
         => (IInv /\ OwnInv /\ FastInv)' /\ [~fast /\ fast' => card'.mode = "ready"]_vars
  BY NextType, NextOwn, NextFast DEF StaysWhileJudged, FastStep
<1> QED
  BY <1>1, <1>2, InitType, InitOwn, PTL DEF Spec, FastWhenReady

=============================================================================
