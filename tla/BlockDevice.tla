---------------------------- MODULE BlockDevice ----------------------------
(***************************************************************************)
(* What a core may expect of its SD card: one operation at a time, a read  *)
(* returns the bytes the sector held when the operation began, and a write *)
(* replaces the whole sector at once, before it is reported as done.       *)
(***************************************************************************)
EXTENDS Integers, Sequences

CONSTANTS BlockLen, Addresses, Bytes

VARIABLES
  store,        \* contents of the sectors
  pending,      \* "none", "read" or "write"
  addr,         \* sector of the pending operation
  block,        \* bytes the core has got or given so far
  written       \* has the pending write taken effect?

vars == <<store, pending, addr, block, written>>

Init ==
  /\ store \in [Addresses -> [1 .. BlockLen -> Bytes]]
  /\ pending = "none" /\ addr \in Addresses /\ block = <<>> /\ written = FALSE

Begin ==
  /\ pending = "none"
  /\ pending' \in {"read", "write"}
  /\ addr' \in Addresses
  /\ block' = <<>> /\ written' = FALSE
  /\ UNCHANGED store

Take ==
  /\ pending = "read" /\ Len(block) < BlockLen
  /\ block' = Append(block, store[addr][Len(block) + 1])
  /\ UNCHANGED <<store, pending, addr, written>>

Give ==
  /\ pending = "write" /\ Len(block) < BlockLen
  /\ \E byte \in Bytes : block' = Append(block, byte)
  /\ UNCHANGED <<store, pending, addr, written>>

Write ==
  /\ pending = "write" /\ Len(block) = BlockLen /\ ~written
  /\ store' = [store EXCEPT ![addr] = block]
  /\ written' = TRUE
  /\ UNCHANGED <<pending, addr, block>>

Done ==
  /\ pending # "none" /\ Len(block) = BlockLen
  /\ pending = "write" => written
  /\ pending' = "none" /\ written' = FALSE
  /\ UNCHANGED <<store, addr, block>>

Next == Begin \/ Take \/ Give \/ Write \/ Done

Spec == Init /\ [][Next]_vars

\* Every operation that has begun ends.
Completes == pending # "none" ~> pending = "none"
=============================================================================
