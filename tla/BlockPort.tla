----------------------------- MODULE BlockPort -----------------------------
(***************************************************************************)
(* What SdCardCtrl promises at its host port: the order in which busy_o    *)
(* and hndShk_o move, and how many bytes an operation passes.  The clock,  *)
(* the card and its commands are not seen here.  The inputs belong to the  *)
(* host and may change at any time.                                        *)
(***************************************************************************)
EXTENDS Integers

CONSTANT BlockSize      \* bytes of a block, at least 1

VARIABLES
  phase,        \* "reset", "init", "ready", "reading", "writing", "failed"
  busy, hs_o,   \* outputs busy_o and hndShk_o
  left,         \* bytes of the block not yet passed
  addr,         \* address of the block
  rd, wr, hs_i, next_addr      \* inputs: requests, handshake, address

portVars == <<phase, busy, hs_o, left, addr>>

Init == phase = "reset" /\ busy = TRUE /\ hs_o = 0 /\ left = 0 /\ addr = 0

\* Nothing but the first cycle after a reset happens unless both are low.
BothLow == hs_o = 0 /\ hs_i = 0

Reset ==
  /\ phase' = "reset" /\ busy' = TRUE /\ left' = 0
  /\ UNCHANGED <<hs_o, addr>>

Begin ==
  /\ phase = "reset"
  /\ phase' = "init" /\ busy' = TRUE /\ hs_o' = 0 /\ addr' = 0
  /\ UNCHANGED left

\* The host has taken or given its byte.
Lower ==
  /\ phase # "reset" /\ hs_o = 1 /\ hs_i = 1
  /\ hs_o' = 0
  /\ UNCHANGED <<phase, busy, left, addr>>

Ready ==
  /\ phase = "init" /\ BothLow
  /\ phase' = "ready" /\ busy' = TRUE
  /\ UNCHANGED <<hs_o, left, addr>>

Idle ==
  /\ phase = "ready" /\ BothLow /\ ~rd /\ ~wr
  /\ busy' = FALSE
  /\ UNCHANGED <<phase, hs_o, left, addr>>

Accept(what) ==
  /\ phase = "ready" /\ BothLow
  /\ phase' = what /\ busy' = TRUE /\ left' = BlockSize /\ addr' = next_addr
  /\ UNCHANGED hs_o

AcceptRead  == rd /\ Accept("reading")
AcceptWrite == ~rd /\ wr /\ Accept("writing")

\* A byte is there for the host, or wanted from it.
Offer ==
  /\ phase \in {"reading", "writing"} /\ left > 0 /\ BothLow
  /\ hs_o' = 1 /\ left' = left - 1 /\ busy' = TRUE
  /\ UNCHANGED <<phase, addr>>

Finish ==
  /\ phase \in {"reading", "writing"} /\ left = 0 /\ BothLow
  /\ phase' = "ready" /\ busy' = TRUE
  /\ UNCHANGED <<hs_o, left, addr>>

\* A refused command or a strange answer; the controller stalls until reset.
Fail ==
  /\ phase \in {"init", "reading"} /\ BothLow
  /\ phase' = "failed" /\ left' = 0 /\ busy' = TRUE
  /\ UNCHANGED <<hs_o, addr>>

Report ==
  /\ phase = "failed" /\ BothLow
  /\ busy' = FALSE
  /\ UNCHANGED <<phase, hs_o, left, addr>>

\* A cycle without a reset, and without an error.
Step == \/ Begin \/ Lower \/ Ready \/ Idle \/ AcceptRead \/ AcceptWrite
        \/ Offer \/ Finish

Next == Reset \/ Step \/ Fail \/ Report

Spec == Init /\ [][Next]_portVars

=============================================================================
