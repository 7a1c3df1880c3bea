------------------------------- MODULE SmsSd -------------------------------
(***************************************************************************)
(* The SD driver of the SMS boot loader (bootloader/sd.c) and the card it  *)
(* talks to.  The driver polls: every wait is a loop with a counter, and   *)
(* when the counter runs out the code goes on with the byte it read last.  *)
(* The card may answer late, refuse a command or not answer at all.        *)
(*                                                                         *)
(* One step is one byte on the SPI bus, except that the six bytes of a     *)
(* command, between which the driver decides nothing, are one step.        *)
(***************************************************************************)
EXTENDS Integers, Sequences

CONSTANTS
    Sectors,      \* sectors main and fat.c ask for
    BlockLen,     \* bytes in a sector; $200 in the code
    Contents,     \* Contents[s][i] is byte i of sector s of the card
    AddrSpace,    \* byte addresses; 2^32 in the code
    WakeBytes,    \* bytes sent to wake the card; 0x10 in sd_init
    ReadyTries,   \* limit of sd_wait_ready; 0x20 in the code
    R1Tries,      \* limit of sd_wait_r1; 0x20 in the code
    Retries,      \* retries of CMD0 and ACMD41, bytes before a token; 0xff
    CardKinds,    \* the cards that may be in the slot
    Gaps,         \* bytes a card may let pass before it answers a command
    TokenGaps,    \* bytes a card may let pass before it sends a block
    InitPolls,    \* polls of ACMD41 a card may need
    KeepsOutput,  \* a deselected card resumes its answer when selected again
    PullIn        \* states of the driver in which the card may be pulled out

States == {"idle", "wake", "gap", "ready", "frame", "r1", "skip", "token",
           "data", "tail"}

ASSUME DriverAssumption ==
    /\ {BlockLen, WakeBytes, ReadyTries, R1Tries} \subseteq Nat \ {0}
    /\ {Retries, InitPolls} \subseteq Nat
    /\ Gaps \cup TokenGaps \subseteq Nat
    /\ AddrSpace \in Nat \ {0}
    /\ Sectors \subseteq Nat
    /\ Contents \in [Sectors -> [1..BlockLen -> 0..255]]
    /\ CardKinds \subseteq {"V1", "V2", "SDHC", "MMC", "none"}
    /\ KeepsOutput \in BOOLEAN
    /\ PullIn \subseteq States
    /\ PullIn # {} => "none" \in CardKinds

VARIABLES
    pc,        \* where the driver is
    cmd,       \* the command under way
    n,         \* counter of the innermost loop
    r1,        \* the last response, r in the code
    timeout,   \* counter of sd_init's loops and of the wait for a token
    path,      \* the loop of sd_init that polls ACMD41
    signed,    \* BYTE is signed in this build
    sector,    \* argument of sd_load_sector
    buffer,    \* the caller's buffer
    result,    \* what the last call returned
    cs,        \* the card is selected
    fast,      \* clock divider 0, set at the end of sd_init
    card,      \* state of the card
    out        \* bytes the card is going to send

vars == <<pc, cmd, n, r1, timeout, path, signed, sector, buffer, result, cs, fast,
          card, out>>
call == <<path, signed, sector, buffer, result, fast>>

-----------------------------------------------------------------------------
(* The card, which is outside the repository.  A byte it sends is a record *)
(* of its value and of whether it answers the last command it was sent.    *)

Byte(b) == [b |-> b, own |-> TRUE]
HighByte == [b |-> 255, own |-> TRUE]
OldByte(x) == [x EXCEPT !.own = FALSE]

(* R1 in idle state has bit 0 set; bit 2 means an illegal command.         *)
Idle(c) == IF c.mode = "ready" THEN 0 ELSE 1

Follows(bytes) == [i \in 1..Len(bytes) |-> Byte(bytes[i])]
Waits(k) == [i \in 1..k |-> HighByte]

(* A block: token, data and CRC.                                           *)
Block(s, gap) ==
    Waits(gap) \o <<Byte(254)>> \o Follows(Contents[s]) \o Follows(<<0, 1>>)

(* The sector a card takes the argument of CMD17 for.                      *)
Addressed(c, address) ==
    IF c.kind = "SDHC" THEN address ELSE address \div BlockLen

(* The answers a card may give, without the gap before them.               *)
Answers(c, command, arg) ==
    CASE command = "CMD0" -> { <<Byte(1)>> }
      [] command = "CMD8" ->
            IF c.kind \in {"V2", "SDHC"}
            THEN { <<Byte(Idle(c))>> \o Follows(<<0, 0, 1, 170>>) }
            ELSE { <<Byte(4 + Idle(c))>> }
      [] command = "CMD55" ->
            { <<Byte(IF c.kind = "MMC" THEN 4 + Idle(c) ELSE Idle(c))>> }
      [] command = "ACMD41" ->
            IF ~c.app THEN { <<Byte(4 + Idle(c))>> }
            ELSE { <<Byte(IF c.polls = 0 THEN 0 ELSE Idle(c))>> }
      [] command = "CMD58" -> { <<Byte(Idle(c))>> \o Follows(<<128, 255, 128, 0>>) }
      [] command = "CMD17" ->
            IF c.mode # "ready" THEN { <<Byte(4 + Idle(c))>> }
            ELSE IF Addressed(c, arg) \notin Sectors THEN { <<Byte(64)>> }
            ELSE { <<Byte(0)>> \o Block(Addressed(c, arg), g) : g \in TokenGaps }
                 \cup { <<Byte(0), Byte(8)>> }       \* a data error token

(* What a command does to the card.  SDHC cards get ready only for a host  *)
(* that has announced that it knows them.                                  *)
AfterCommand(c, command, arg) ==
    CASE command = "CMD0" -> {[c EXCEPT !.mode = "idle", !.app = FALSE, !.polls = p] :
                                    p \in 0..InitPolls}
      [] command = "CMD55" -> {[c EXCEPT !.app = (c.kind # "MMC")]}
      [] command = "ACMD41" /\ c.app ->
            IF c.polls = 0
            THEN {[c EXCEPT !.mode = "ready", !.app = FALSE]}
            ELSE {[c EXCEPT !.app = FALSE, !.polls = IF c.kind = "SDHC" /\ arg = 0
                                                     THEN @ ELSE @ - 1]}
      [] OTHER -> {[c EXCEPT !.app = FALSE]}

(* The card is sent a command: what it still had to send passes unheard    *)
(* while the six bytes come, and what is left of it belongs to the past.   *)
(* A card may also take no notice; one that waits for CMD0 knows no other. *)
Backlog ==
    LET heard == IF cs THEN 6 ELSE 0
        left  == SubSeq(out, heard + 1, Len(out))
    IN  [i \in 1..Len(left) |-> OldByte(left[i])]

CardTakes(command, arg) ==
    \/ /\ out' = Backlog
       /\ UNCHANGED card
    \/ /\ cs
       /\ card.kind # "none"
       /\ card.mode # "off" \/ command = "CMD0"
       /\ \E gap \in Gaps, a \in Answers(card, command, arg) :
             out' = Backlog \o Waits(gap) \o a
       /\ card' \in AfterCommand(card, command, arg)

(* The card is pulled out, and one is put in.                              *)
Pull ==
    /\ pc \in PullIn
    /\ card.kind # "none"
    /\ card' = [kind |-> "none", mode |-> "off", app |-> FALSE, polls |-> 0]
    /\ out' = <<>>
    /\ UNCHANGED <<pc, cmd, n, r1, timeout, call, cs>>

Insert ==
    /\ card.kind = "none"
    /\ \E k \in CardKinds \ {"none"} : card' = [card EXCEPT !.kind = k]
    /\ UNCHANGED <<pc, cmd, n, r1, timeout, call, cs, out>>

(* The byte the driver receives.  Afterwards the card has sent it; when it *)
(* is deselected it gives up the rest of its answer.                       *)
Received == IF cs /\ out # <<>> THEN Head(out) ELSE HighByte

CardShifts ==
    LET rest == IF cs /\ out # <<>> THEN Tail(out) ELSE out
    IN  out' = IF cs' \/ KeepsOutput THEN rest ELSE <<>>

-----------------------------------------------------------------------------
(* Helpers of the driver.                                                  *)

(* A BYTE as it is compared: the build may take it for signed.             *)
AsByte(x) == IF signed /\ x >= 128 THEN x - 256 ELSE x

(* The argument of the command: HCS in ACMD41, the byte address in CMD17.  *)
Argument ==
    CASE cmd = "ACMD41" -> IF path = "v2" THEN 64 ELSE 0
      [] cmd = "CMD17"  -> (sector * BlockLen) % AddrSpace
      [] OTHER          -> 0

(* Bytes read and thrown away after the response.                          *)
Trailing(command) ==
    CASE command = "CMD8"  -> 5
      [] command = "CMD58" -> 4
      [] OTHER             -> 0

(* The beginning of a command: sd_wait_ready, which CMD55 is sent without. *)
Begin(command) ==
    /\ cmd' = command
    /\ IF command = "CMD55"
       THEN pc' = "frame" /\ n' = 0
       ELSE pc' = "ready" /\ n' = ReadyTries + 1

(* Mutant: an end of a call that leaves the card selected.                 *)
ReturnSelected(value) ==
    /\ pc' = "idle"
    /\ result' = value
    /\ n' = 0
    /\ UNCHANGED <<cmd, timeout, path, signed, sector, buffer, card, cs>>

(* Every end of a call deselects the card.                                 *)
Return(value) ==
    /\ pc' = "idle"
    /\ result' = value
    /\ cs' = FALSE
    /\ n' = 0
    /\ UNCHANGED <<cmd, timeout, path, signed, sector, buffer, card>>

Init ==
    /\ pc = "idle" /\ cmd = "CMD0" /\ n = 0 /\ r1 = 255 /\ timeout = 0 /\ path = "none"
    /\ signed \in BOOLEAN
    /\ sector \in Sectors
    /\ buffer = [i \in 1..BlockLen |-> 0]
    /\ result = "none"
    /\ cs = FALSE /\ fast = FALSE
    /\ card \in [kind : CardKinds, mode : {"off"}, app : {FALSE}, polls : {0}]
    /\ out = <<>>

-----------------------------------------------------------------------------
(* sd_init                                                                 *)

CallInit ==
    /\ pc = "idle"
    /\ pc' = "wake" /\ n' = WakeBytes
    /\ cs' = TRUE
    /\ fast' = FALSE
    /\ result' = "none"
    /\ path' = "none"
    /\ UNCHANGED <<cmd, r1, timeout, signed, sector, buffer, card, out>>

(* Bytes with the card selected, two without, then CMD0.                   *)
Wake ==
    /\ pc = "wake"
    /\ IF n > 1
       THEN n' = n - 1 /\ UNCHANGED <<pc, cs>>
       ELSE pc' = "gap" /\ n' = 2 /\ cs' = FALSE
    /\ CardShifts
    /\ UNCHANGED <<cmd, r1, timeout, call, card>>

Gap ==
    /\ pc = "gap"
    /\ IF n > 1
       THEN /\ n' = n - 1
            /\ UNCHANGED <<pc, cmd, timeout, cs>>
       ELSE /\ cs' = TRUE
            /\ timeout' = Retries
            /\ Begin("CMD0")
    /\ CardShifts
    /\ UNCHANGED <<r1, call, card>>

(* sd_wait_ready: the first byte is not looked at, and the result neither. *)
WaitReady ==
    /\ pc = "ready"
    /\ IF n > 1 /\ (n = ReadyTries + 1 \/ AsByte(Received.b) # 255)
       THEN n' = n - 1 /\ UNCHANGED <<pc, cs>>
       ELSE pc' = "frame" /\ n' = 0 /\ cs' = TRUE
    /\ CardShifts
    /\ UNCHANGED <<cmd, r1, timeout, call, card>>

SendFrame ==
    /\ pc = "frame"
    /\ CardTakes(cmd, Argument)
    /\ pc' = "r1" /\ n' = R1Tries
    /\ UNCHANGED <<cmd, r1, timeout, call, cs>>

(* Mutant: the retries are not counted.                                    *)
RetryForever(command) ==
    /\ Begin(command)
    /\ UNCHANGED <<timeout, call, cs, card>>

(* One more try, if there is one, of a loop of sd_init.                    *)
Retry(command) ==
    IF timeout = 0
    THEN Return("unusable") /\ UNCHANGED fast
    ELSE /\ timeout' = timeout - 1
         /\ Begin(command)
         /\ UNCHANGED <<call, cs, card>>

(* A loop of sd_init begins.                                               *)
StartPolling(which) ==
    /\ path' = which
    /\ timeout' = Retries
    /\ Begin("CMD55")
    /\ UNCHANGED <<signed, sector, buffer, result, cs, fast, card>>

Usable == Return("ready") /\ fast' = TRUE
Unusable == Return("unusable") /\ UNCHANGED fast

(* Mutant: on the way for V1 cards the probe counts as the last poll.      *)
PolledOnce(r) ==
    CASE path = "probe" -> IF r <= 1 THEN Usable ELSE Unusable
      [] path = "v1"    -> IF r % 2 # 0 THEN Retry("CMD55") ELSE Usable
      [] path = "v2"    -> IF r % 2 # 0 THEN Retry("CMD55")
                           ELSE /\ Begin("CMD58")
                                /\ UNCHANGED <<timeout, call, cs, card>>

(* What sd_init does with the value of sd_acmd41.                          *)
Polled(r) ==
    CASE path = "probe" -> IF r <= 1 THEN StartPolling("v1") ELSE Unusable
      [] path = "v1"    -> IF r % 2 # 0 THEN Retry("CMD55") ELSE Usable
      [] path = "v2"    -> IF r % 2 # 0 THEN Retry("CMD55")
                           ELSE /\ Begin("CMD58")
                                /\ UNCHANGED <<timeout, call, cs, card>>

(* What becomes of the call when a command's response is complete.         *)
Decide(r) ==
    CASE cmd = "CMD0" -> IF r = 1
                         THEN /\ Begin("CMD8")
                              /\ UNCHANGED <<timeout, call, cs, card>>
                         ELSE Retry("CMD0")
      [] cmd = "CMD8" -> StartPolling(IF r = 1 THEN "v2" ELSE "probe")
      [] cmd = "CMD55" -> IF AsByte(r) > 1
                          THEN Polled(255)
                          ELSE /\ Begin("ACMD41")
                               /\ UNCHANGED <<timeout, call, cs, card>>
      [] cmd = "ACMD41" -> Polled(r)
      [] cmd = "CMD58" -> IF r # 0 THEN Unusable ELSE Usable
      [] cmd = "CMD17" -> IF r >= 128
                          THEN Return("failed") /\ UNCHANGED fast
                          ELSE /\ pc' = "token"
                               /\ timeout' = Retries
                               /\ n' = 0
                               /\ UNCHANGED <<cmd, call, cs, card>>

(* Mutant: the response is handed on as a signed byte.                     *)
WaitR1Signed ==
    /\ pc = "r1"
    /\ LET r == Received.b IN
       IF r >= 128 /\ n > 1
       THEN /\ n' = n - 1
            /\ UNCHANGED <<pc, cmd, r1, timeout, call, cs, card>>
       ELSE /\ r1' = AsByte(r)
            /\ IF Trailing(cmd) > 0
               THEN /\ pc' = "skip"
                    /\ n' = Trailing(cmd)
                    /\ UNCHANGED <<cmd, timeout, call, cs, card>>
               ELSE Decide(r)
    /\ CardShifts

(* sd_wait_r1: a byte with bit 7 clear ends it, or the last byte does.     *)
WaitR1 ==
    /\ pc = "r1"
    /\ LET r == Received.b IN
       IF r >= 128 /\ n > 1
       THEN /\ n' = n - 1
            /\ UNCHANGED <<pc, cmd, r1, timeout, call, cs, card>>
       ELSE /\ r1' = r
            /\ IF Trailing(cmd) > 0
               THEN /\ pc' = "skip"
                    /\ n' = Trailing(cmd)
                    /\ UNCHANGED <<cmd, timeout, call, cs, card>>
               ELSE Decide(r)
    /\ CardShifts

Skip ==
    /\ pc = "skip"
    /\ IF n > 1
       THEN /\ n' = n - 1
            /\ UNCHANGED <<pc, cmd, timeout, call, cs, card>>
       ELSE Decide(r1)
    /\ CardShifts
    /\ UNCHANGED r1

-----------------------------------------------------------------------------
(* sd_load_sector.  main asks for sectors once sd_init has returned TRUE.  *)

CallLoad(s) ==
    /\ pc = "idle"
    /\ result \in {"ready", "loaded", "failed"}
    /\ sector' = s
    /\ result' = "none"
    /\ Begin("CMD17")
    /\ UNCHANGED <<r1, timeout, path, signed, buffer, cs, fast, card, out>>

(* Mutant: any byte but 0xff is taken for the token.                       *)
WaitTokenLax ==
    /\ pc = "token"
    /\ IF Received.b # 255
       THEN /\ pc' = "data" /\ n' = BlockLen
            /\ UNCHANGED <<cmd, timeout, call, cs, card>>
       ELSE IF timeout = 0
       THEN Return("failed") /\ UNCHANGED fast
       ELSE /\ timeout' = timeout - 1
            /\ UNCHANGED <<pc, cmd, n, call, cs, card>>
    /\ CardShifts
    /\ UNCHANGED r1

WaitToken ==
    /\ pc = "token"
    /\ IF Received.b = 254
       THEN /\ pc' = "data" /\ n' = BlockLen
            /\ UNCHANGED <<cmd, timeout, call, cs, card>>
       ELSE IF timeout = 0
       THEN Return("failed") /\ UNCHANGED fast
       ELSE /\ timeout' = timeout - 1
            /\ UNCHANGED <<pc, cmd, n, call, cs, card>>
    /\ CardShifts
    /\ UNCHANGED r1

LoadData ==
    /\ pc = "data"
    /\ buffer' = [buffer EXCEPT ![BlockLen - n + 1] = Received.b]
    /\ IF n > 1
       THEN n' = n - 1 /\ UNCHANGED pc
       ELSE pc' = "tail" /\ n' = 3
    /\ UNCHANGED <<cmd, r1, timeout, path, signed, sector, result, cs, fast, card>>
    /\ CardShifts

(* The CRC and one more byte.                                              *)
Tailing ==
    /\ pc = "tail"
    /\ IF n > 1
       THEN n' = n - 1 /\ UNCHANGED <<pc, cmd, timeout, call, cs, card>>
       ELSE Return("loaded") /\ UNCHANGED fast
    /\ CardShifts
    /\ UNCHANGED r1

-----------------------------------------------------------------------------
Step == Wake \/ Gap \/ WaitReady \/ SendFrame \/ WaitR1 \/ Skip
        \/ WaitToken \/ LoadData \/ Tailing

Next ==
    \/ CallInit
    \/ \E s \in Sectors : CallLoad(s)
    \/ Step
    \/ Pull
    \/ Insert

(* The Z80 runs: the driver polls and never waits for anybody.             *)
Spec == Init /\ [][Next]_vars /\ WF_vars(Step)

-----------------------------------------------------------------------------
(* Properties                                                              *)

(* Counters stay within their limits, and the driver's state is one of its *)
(* states.                                                                 *)
TypeOK ==
    /\ pc \in States
    /\ cmd \in {"CMD0", "CMD8", "CMD55", "ACMD41", "CMD58", "CMD17"}
    /\ n \in 0..(WakeBytes + ReadyTries + R1Tries + BlockLen + 5)
    /\ r1 \in 0..255
    /\ timeout \in 0..Retries
    /\ path \in {"none", "probe", "v1", "v2"}
    /\ signed \in BOOLEAN /\ cs \in BOOLEAN /\ fast \in BOOLEAN
    /\ sector \in Sectors
    /\ buffer \in [1..BlockLen -> 0..255]
    /\ result \in {"none", "ready", "unusable", "loaded", "failed"}
    /\ card \in [kind : CardKinds, mode : {"off", "idle", "ready"},
                 app : BOOLEAN, polls : 0..InitPolls]
    /\ out \in Seq([b : 0..255, own : BOOLEAN])

(* What the driver takes for the response to a command, for the token or   *)
(* for data is never left over from an earlier command.  sd.c:136-140 and  *)
(* 203-206 read away what they do not want; sd_acmd41 sends CMD55 without  *)
(* waiting for the card to be quiet.                                       *)
OwnAnswer ==
    pc \in {"r1", "token", "data"} /\ cs /\ out # <<>> => Head(out).own

(* The clock is set to full speed (sd.c:290) only for a card that has left *)
(* the idle state: every way through sd_init that returns TRUE has seen it.*)
FastWhenReady == [][~fast /\ fast' => card'.mode = "ready"]_vars

(* The driver keeps the promises of SectorPort: sd_load_sector returns     *)
(* TRUE with the sector asked for, all of it, and a call that returns      *)
(* FALSE has not touched the caller's buffer (sd.c:357-382).               *)
Storing == pc = "tail" \/ (pc = "data" /\ n < BlockLen)
Loading == cmd = "CMD17" /\ pc \in {"ready", "frame", "r1", "token", "data"}

Port == INSTANCE SectorPort WITH
    port <- IF pc = "idle" THEN "idle"
            ELSE IF Storing THEN "storing"
            ELSE IF Loading THEN "load"
            ELSE "init"
ImplementsSectorPort == Port!Spec

(* Every call ends, whatever the card does: each wait has a limit.         *)
Ends == pc # "idle" ~> pc = "idle"

=============================================================================
