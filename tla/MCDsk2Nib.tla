------------------------------ MODULE MCDsk2Nib ------------------------------
(* Images for Dsk2Nib: bytes that differ in all bits, track and sector, and   *)
(* bytes that look like marks.                                                *)
EXTENDS Dsk2Nib

MCData(img, t, n) ==
    CASE img = "mixed" -> (n * 7 + (n \div 256) * 31 + t * 57 + (n % 13) * 19) % 256
      [] img = "marks" -> IF n % 3 = 0 THEN 213 ELSE IF n % 3 = 1 THEN 170 ELSE 150

\* A whole image, and one whose fourth track lacks its last byte.
MCLengths == {TRACKS * DOS_TRACK_BYTES, 4 * DOS_TRACK_BYTES - 1}
=============================================================================
