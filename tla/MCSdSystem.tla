----------------------------- MODULE MCSdSystem -----------------------------
(* Two sectors with different contents, so that a wrong address shows.       *)
EXTENDS SdSystem

\* The flag byte says SDHC.
MCConfigs == {[i \in 0 .. 2 * CidLen |-> 1]}

Sector(first) == [i \in 0 .. SectorLen - 1 |-> first + 85 * i]

\* What the card may hold: the first contents, or what the host has written.
MCSectors == {Sector(3), Sector(170)} \cup [0 .. SectorLen - 1 -> HostData]

MCInit == SysInit /\ disk = [a \in 0 .. AddrSpace - 1 |-> Sector(IF a = 0 THEN 3 ELSE 170)]
                  /\ io_sector = disk[0]
MCSpec == MCInit /\ [][SysNext]_sysVars /\ Fairness
=============================================================================
