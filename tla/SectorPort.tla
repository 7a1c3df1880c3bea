----------------------------- MODULE SectorPort -----------------------------
(***************************************************************************)
(* What the SD driver of the SMS boot loader promises to its callers, the  *)
(* FAT driver and main: sd_init and sd_load_sector return TRUE or FALSE,   *)
(* and a sector that is loaded is the whole of the sector asked for.  A    *)
(* call that fails has not touched the caller's buffer: the cached FAT     *)
(* sector of fat.c is true only because of that.  Once the first byte is   *)
(* stored the call can no longer fail.                                     *)
(***************************************************************************)
EXTENDS Integers

CONSTANTS
    Sectors,     \* numbers of the sectors of the card
    BlockLen,    \* bytes in a sector
    Contents     \* Contents[s][i] is byte i of sector s

VARIABLES
    port,        \* the call under way, and how far it is
    sector,      \* the sector asked for
    buffer,      \* the caller's buffer
    result       \* what the last call returned

vars == <<port, sector, buffer, result>>

Init ==
    /\ port = "idle"
    /\ sector \in Sectors
    /\ buffer \in [1..BlockLen -> {0}]
    /\ result = "none"

(* sd_init is called at any time, sd_load_sector after it has succeeded.   *)
CallInit ==
    /\ port = "idle"
    /\ port' = "init"
    /\ result' = "none"
    /\ UNCHANGED <<sector, buffer>>

CallLoad(s) ==
    /\ port = "idle"
    /\ result \in {"ready", "loaded", "failed"}
    /\ port' = "load"
    /\ sector' = s
    /\ result' = "none"
    /\ UNCHANGED buffer

InitReturns ==
    /\ port = "init"
    /\ port' = "idle"
    /\ result' \in {"ready", "unusable"}
    /\ UNCHANGED <<sector, buffer>>

LoadFails ==
    /\ port = "load"
    /\ port' = "idle"
    /\ result' = "failed"
    /\ UNCHANGED <<sector, buffer>>

(* The bytes are stored one after the other, and the call succeeds.        *)
Store(i) ==
    /\ port \in {"load", "storing"}
    /\ port' = "storing"
    /\ buffer' = [buffer EXCEPT ![i] = Contents[sector][i]]
    /\ UNCHANGED <<sector, result>>

LoadSucceeds ==
    /\ port = "storing"
    /\ buffer = Contents[sector]
    /\ port' = "idle"
    /\ result' = "loaded"
    /\ UNCHANGED <<sector, buffer>>

Next ==
    \/ CallInit
    \/ \E s \in Sectors : CallLoad(s)
    \/ InitReturns
    \/ LoadFails
    \/ \E i \in 1..BlockLen : Store(i)
    \/ LoadSucceeds

Spec == Init /\ [][Next]_vars
=============================================================================
