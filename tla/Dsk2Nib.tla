------------------------------ MODULE Dsk2Nib ------------------------------
(***************************************************************************)
(* dsk2nib.c, which turns an Apple II disk image into the track images the *)
(* Disk II emulator plays: at its real size, one action per track read,    *)
(* sector encoded and track written.                                       *)
(***************************************************************************)
EXTENDS Integers, Sequences, FiniteSets

CONSTANTS
    Images,          \* the images to convert
    Data(_, _, _),   \* Data(image, track, n): byte n of a track, from 0
    Lengths          \* lengths of the file in bytes

TRACKS == 35
SECTORS == 16
SECTOR_SIZE == 256
DOS_TRACK_BYTES == SECTORS * SECTOR_SIZE
RAW_TRACK_BYTES == 6656
VOLUME_NUMBER == 254

VARIABLES
    image, length,   \* the file
    pc,              \* "read", "encode", "write", "done" or "failed"
    track, sector,
    raw,             \* raw_track up to target
    GCR_buffer2,     \* global, and not cleared between two sectors
    nib              \* tracks written

vars == <<image, length, pc, track, sector, raw, GCR_buffer2, nib>>

ImageAssumption ==
    /\ Lengths \subseteq Nat
    /\ \A i \in Images, t \in 0..(TRACKS - 1), n \in 0..(DOS_TRACK_BYTES - 1) :
           Data(i, t, n) \in 0..255
ASSUME ImageAssumption

-----------------------------------------------------------------------------
(* C's operators |, & and ^ on bytes.                                      *)

Bit(b, k) == (b \div 2^k) % 2
FromBits(d) == d[0] + 2 * d[1] + 4 * d[2] + 8 * d[3]
                    + 16 * d[4] + 32 * d[5] + 64 * d[6] + 128 * d[7]

Or(a, b)  == FromBits([k \in 0..7 |-> IF Bit(a, k) = 1 \/ Bit(b, k) = 1 THEN 1 ELSE 0])
And(a, b) == FromBits([k \in 0..7 |-> IF Bit(a, k) = 1 /\ Bit(b, k) = 1 THEN 1 ELSE 0])
Xor(a, b) == FromBits([k \in 0..7 |-> IF Bit(a, k) # Bit(b, k) THEN 1 ELSE 0])

-----------------------------------------------------------------------------
(* Encoding                                                                *)

GCR_encoding_table == <<
    150, 151, 154, 155, 157, 158, 159, 166, 167, 171, 172, 173, 174, 175, 178, 179,
    180, 181, 182, 183, 185, 186, 187, 188, 189, 190, 191, 203, 205, 206, 207, 211,
    214, 215, 217, 218, 219, 220, 221, 222, 223, 229, 230, 231, 233, 234, 235, 236,
    237, 238, 239, 242, 243, 244, 245, 246, 247, 249, 250, 251, 252, 253, 254, 255 >>
GCR(v) == GCR_encoding_table[v + 1]

Swap_Bit(v) == <<0, 2, 1, 3>>[v + 1]

Logical_Sector(s) == <<0, 7, 14, 6, 13, 5, 12, 4, 11, 3, 10, 2, 9, 1, 8, 15>>[s + 1]

\* Mutants: the clock bits left out, and the two halves exchanged.
FM_encodeBare(data) == <<data \div 2, data>>
FM_encodeSwapped(data) == <<Or(data, 170), Or(data \div 2, 170)>>

FM_encode(data) == <<Or(data \div 2, 170), Or(data, 170)>>

write_sync(n) == [k \in 1..n |-> 255]

write_address_field(t, s) ==
    <<213, 170, 150>> \o FM_encode(VOLUME_NUMBER) \o FM_encode(t) \o FM_encode(s)
        \o FM_encode(Xor(Xor(VOLUME_NUMBER, t), s)) \o <<222, 170, 235>>

(* encode62's GCR_buffer2: the bytes of the page, from the last to the     *)
(* first, go to one place after the other and round again; each puts two   *)
(* bits below those that are there.  What the last call left is shifted    *)
(* out of the BYTE or masked off.  The upper six bits are GCR_buffer.      *)
LowBits(page, i) == Swap_Bit(page[i] % 4)

Preset(old, page) == [old EXCEPT ![0] = LowBits(page, 1), ![1] = LowBits(page, 0)]

\* Mutant: the first byte goes to place 1.
ByteForEarly(round, j) == 255 - (86 * (round - 1) + ((j - 1) % 86))
ByteFor(round, j) == 255 - (86 * (round - 1) + ((j - 2) % 86))

encode62(old, page) ==
    LET turned[round \in 0..3] ==
            IF round = 0 THEN Preset(old, page)
            ELSE [j \in 0..85 |->
                     LET i == ByteFor(round, j)
                     IN  IF i < 0 THEN turned[round - 1][j]
                         ELSE Or((turned[round - 1][j] * 4) % 256, LowBits(page, i))]
    IN  [j \in 0..85 |-> turned[3][j] % 64]

(* The 342 values, each as its difference from the one before, the last    *)
(* one as the checksum, between prologue and epilogue.                     *)
write_data_field(low, page) ==
    LET value(k) == IF k = 0 THEN 0
                    ELSE IF k <= 86 THEN low[86 - k] ELSE page[k - 87] \div 4
    IN  <<213, 170, 173>>
        \o [k \in 1..342 |-> GCR(Xor(value(k - 1), value(k)))]
        \o <<GCR(value(342)), 222, 170, 235>>

-----------------------------------------------------------------------------
(* main, after the files have been opened                                  *)

Init ==
    /\ image \in Images /\ length \in Lengths
    /\ pc = "read" /\ track = 0 /\ sector = 0 /\ raw = <<>> /\ nib = 0
    /\ GCR_buffer2 = [j \in 0..85 |-> 0]

ReadTrack ==
    /\ pc = "read"
    /\ IF length >= (track + 1) * DOS_TRACK_BYTES
       THEN pc' = "encode" /\ raw' = <<>> /\ sector' = 0
       ELSE pc' = "failed" /\ UNCHANGED <<raw, sector>>
    /\ UNCHANGED <<image, length, track, GCR_buffer2, nib>>

WriteSector ==
    /\ pc = "encode" /\ sector < SECTORS
    /\ LET start == Logical_Sector(sector) * SECTOR_SIZE
           page  == [i \in 0..255 |-> Data(image, track, start + i)]
           low   == encode62(GCR_buffer2, page)
       IN  /\ GCR_buffer2' = low
           /\ raw' = raw \o write_sync(38) \o write_address_field(track, sector)
                         \o write_sync(8) \o write_data_field(low, page)
    /\ sector' = sector + 1
    /\ UNCHANGED <<image, length, pc, track, nib>>

(* The loop ends only if the target meets the end of the buffer: past it   *)
(* the program would go no further than this.                              *)
Pad ==
    /\ pc = "encode" /\ sector = SECTORS
    /\ Len(raw) <= RAW_TRACK_BYTES
    /\ raw' = raw \o [k \in 1..(RAW_TRACK_BYTES - Len(raw)) |-> 255]
    /\ pc' = "write"
    /\ UNCHANGED <<image, length, track, sector, GCR_buffer2, nib>>

WriteTrack ==
    /\ pc = "write"
    /\ \/ /\ nib' = nib + 1 /\ track' = track + 1
          /\ pc' = IF track' < TRACKS THEN "read" ELSE "done"
       \/ pc' = "failed" /\ UNCHANGED <<nib, track>>
    /\ UNCHANGED <<image, length, sector, raw, GCR_buffer2>>

Exited == pc \in {"done", "failed"} /\ UNCHANGED vars

Next == ReadTrack \/ WriteSector \/ Pad \/ WriteTrack \/ Exited

Spec == Init /\ [][Next]_vars

-----------------------------------------------------------------------------
(* How a Disk II is read, without the encoder: the track runs in a circle, *)
(* fields are found by their marks, and a byte of data is one of the 64    *)
(* that the drive can read and that are in no mark.                        *)

At(p) == raw[(p % RAW_TRACK_BYTES) + 1]

(* Bit 7 set, two ones side by side below it, no more than one pair of     *)
(* zeros side by side, and not 0xD5, which begins the marks.               *)
Zeros(b, k) == Bit(b, k) = 0 /\ Bit(b, k + 1) = 0
DiskBytes ==
    {b \in 128..255 :
        /\ \E k \in 0..5 : Bit(b, k) = 1 /\ Bit(b, k + 1) = 1
        /\ \A k, m \in 0..6 : Zeros(b, k) /\ Zeros(b, m) => k = m
        /\ b # 213}
Rank == [b \in DiskBytes |-> Cardinality({c \in DiskBytes : c < b})]

Marks(third) == {p \in 0..(RAW_TRACK_BYTES - 1) : At(p) = 213 /\ At(p + 1) = 170 /\ At(p + 2) = third}

(* The value of two bytes of an address field.                             *)
Odd(p) == And((At(p) % 128) * 2 + 1, At(p + 1))

(* Sums without carry, as a table.                                         *)
Plus == [v \in 0..63 |-> [w \in 0..63 |-> Xor(v, w)]]

(* The values of a data field whose mark is at p, each the sum without     *)
(* carry of the bytes up to it, taken together in groups of 20; and the    *)
(* bytes of the page.                                                      *)
Values(p) ==
    LET within[k \in 1..343] ==
            IF k % 20 = 1 THEN Rank[At(p + 2 + k)] ELSE Plus[within[k - 1]][Rank[At(p + 2 + k)]]
        before[g \in 0..17] == IF g = 0 THEN 0 ELSE Plus[before[g - 1]][within[20 * g]]
    IN  <<>> \o [k \in 1..343 |-> Plus[before[(k - 1) \div 20]][within[k]]]
PageAt(values) ==
    [i \in 0..255 |-> values[i + 87] * 4
                      + Swap_Bit((values[(i % 86) + 1] \div 4^(i \div 86)) % 4)]

-----------------------------------------------------------------------------
(* Properties                                                              *)

(* Types, and the target never passes the end of raw_track: the loop that  *)
(* pads the track looks for equality (dsk2nib.c:211).                      *)
TypeOK ==
    /\ pc \in {"read", "encode", "write", "done", "failed"}
    /\ track \in 0..TRACKS /\ sector \in 0..SECTORS /\ nib \in 0..TRACKS
    /\ Len(raw) <= RAW_TRACK_BYTES /\ \A k \in DOMAIN raw : raw[k] \in 128..255
    /\ \A j \in 0..85 : GCR_buffer2[j] \in 0..63

(* A drive that plays the track from anywhere finds sixteen address fields *)
(* with the track's number, a sound checksum and every sector's number     *)
(* once; the next mark after each is that of a data field, close behind,   *)
(* and no other mark is on the track.                                      *)
TrackReadable ==
    pc = "write" =>
        LET addresses == Marks(150)
            data      == Marks(173)
        IN  /\ Cardinality(addresses) = SECTORS /\ Cardinality(data) = SECTORS
            /\ {Odd(p + 7) : p \in addresses} = 0..(SECTORS - 1)
            /\ \A p \in addresses :
                   /\ Odd(p + 3) = VOLUME_NUMBER /\ Odd(p + 5) = track
                   /\ Odd(p + 9) = Xor(Xor(Odd(p + 3), Odd(p + 5)), Odd(p + 7))
                   /\ \E q \in data : q > p + 13 /\ q < p + 32

(* What a reader decodes from the data fields is the image: every byte of  *)
(* every sector, where DOS looks for it, with a sound checksum, whatever   *)
(* the buffers held from the sector before.                                *)
SectorsDecode ==
    pc = "write" =>
        \E addresses \in {Marks(150)}, data \in {Marks(173)} :
            \A p \in addresses :
                \E q \in data :
                    /\ q > p /\ q < p + 32
                    /\ \E values \in {Values(q)} :
                           /\ values[343] = 0
                           /\ PageAt(values) =
                                [i \in 0..255 |->
                                   Data(image, track, Logical_Sector(Odd(p + 7)) * SECTOR_SIZE + i)]
=============================================================================
