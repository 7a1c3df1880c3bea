------------------------------ MODULE MCSdFat ------------------------------
(* Small cards for SdFat.                                                   *)
EXTENDS SdFat

Wanted == <<1, 2>>
File1(size) == [name |-> Wanted, size |-> size, cluster |-> 3]
Other1      == [name |-> <<1, 1>>, size |-> 2, cluster |-> 5]

EOC == 1000
Chain(f) == [c \in 2 .. 9 |-> IF c \in DOMAIN f THEN f[c] ELSE EOC]

\* A good card: the root directory is cluster 2, the file is clusters 3 and 6.
Card(spc, size) ==
  [sig |-> TRUE, type |-> "FAT32", lba |-> 1, bootsig |-> TRUE, ok |-> TRUE,
   spc |-> spc, reserved |-> 1, fatsize |-> 5, root |-> 2,
   next |-> Chain([c \in {3} |-> 6]), dir |-> <<Other1, File1(size)>>]

Good == Card(2, 6)
\* Also without a partition table, and with a file that fills its clusters and
\* the RAM.
GoodCards == {Good, [Good EXCEPT !.type = "none", !.lba = 0], Card(2, 8)}
BadCards ==
  {[Good EXCEPT !.sig = FALSE], [Good EXCEPT !.type = "other"],
   [Good EXCEPT !.ok = FALSE], [Good EXCEPT !.bootsig = FALSE],
   [Good EXCEPT !.dir = <<Other1>>]}
AnyCards == GoodCards \cup BadCards

\* The directory goes on in a second sector, where the file is.
LongDirectory ==
  {[Good EXCEPT !.dir = <<[name |-> <<2, 2>>, size |-> 2, cluster |-> 5], Other1,
                          File1(6)>>]}

SmallClusters == {Card(1, 2)}
PartialSector == {Card(2, 5)}
BigClusters   == {Card(4, 10)}
=============================================================================
