------------------------------ MODULE MCSmsBoot ------------------------------
(* Small cards for SmsBoot: a WORD has 64 values, a FAT sector 4 WORDs, a     *)
(* directory sector 2 entries.                                                *)
EXTENDS SmsSound, TLC

Entry(k, c) == [kind |-> k, cluster |-> c]

\* A root directory of two sectors that is full, a subdirectory of two clusters
\* with more entries than fit the screen, a file that goes back to an earlier
\* FAT sector, and one that ends with the lowest end mark.
Fat16 == [fat32 |-> FALSE, mbrsig |-> TRUE, bootsig |-> TRUE, bytes |-> 512, type |-> 6,
          start |-> 1, reserved |-> 1, nfats |-> 2, fatSize |-> 3, rootEntries |-> 4,
          root |-> 0, spc |-> 2, size |-> 24,
          chain |-> (0 :> 56) @@ (1 :> 63) @@ (7 :> 2) @@ (2 :> 63)
                    @@ (4 :> 8) @@ (8 :> 63) @@ (3 :> 56),
          dirs |-> (8 :> <<Entry("dir", 4), Entry("deleted", 5)>>)
                   @@ (9 :> <<Entry("fancy", 0), Entry("file", 7)>>)
                   @@ (14 :> <<Entry("dir", 4), Entry("dir", 0)>>)
                   @@ (15 :> <<Entry("fancy", 0), Entry("file", 3)>>)
                   @@ (22 :> <<Entry("file", 7), EndEntry>>)]

\* A root directory of two clusters, a subdirectory, files of one cluster.
Fat32 == [fat32 |-> TRUE, mbrsig |-> TRUE, bootsig |-> TRUE, bytes |-> 512, type |-> 11,
          start |-> 3, reserved |-> 2, nfats |-> 1, fatSize |-> 5, rootEntries |-> 0,
          root |-> 2, spc |-> 2, size |-> 24,
          chain |-> (0 :> 248) @@ (1 :> 255) @@ (2 :> 5) @@ (5 :> 255) @@ (3 :> 255)
                    @@ (8 :> 255) @@ (6 :> 248),
          dirs |-> (10 :> <<Entry("file", 3), Entry("fancy", 0)>>)
                   @@ (11 :> <<Entry("deleted", 7), Entry("dir", 8)>>)
                   @@ (16 :> <<Entry("file", 6), EndEntry>>)
                   @@ (22 :> <<Entry("dir", 8), Entry("file", 6)>>)]

\* The first card with the file in other clusters, to be exchanged for it, and
\* without an MBR.
Copied == [Fat16 EXCEPT !.chain = (7 :> 5) @@ (5 :> 63) @@ @]
Blank == [Fat16 EXCEPT !.mbrsig = FALSE]

SmallCards == [fat16 |-> Fat16, copied |-> Copied, fat32 |-> Fat32, blank |-> Blank]

\* The marks of FAT32 are known to load_dword only where it extends the sign.
SmallSetups == {<<"fat16", "zero">>, <<"fat32", "sign">>, <<"blank", "sign">>}

\* What the theorems of SmsBootProofs suppose.
ASSUME CardsAreSound == SoundCards /\ NumberedCards
=============================================================================
