--------------------------- MODULE SmsBootProofs ---------------------------
(***************************************************************************)
(* Proofs about the SMS boot loader, for every card, every way its loads   *)
(* fail and every scale of WORDs, sectors and buffers.                     *)
(***************************************************************************)
EXTENDS SmsSound, FiniteSetTheorems, WellFoundedInduction, TLAPS

-----------------------------------------------------------------------------
(* The FAT cache                                                           *)

(* CacheTrue by itself is not inductive for one reason only: an EXCEPT on  *)
(* a record without the field would lose it.                               *)
CacheInv == "current" \in DOMAIN fat /\ CacheTrue

(* The parts of a step the cache depends on: it is left alone, or a sector *)
(* of the card in the slot goes in together with its number.               *)
CacheKept == /\ vol' = vol /\ fatBuf' = fatBuf
             /\ DOMAIN fat' = DOMAIN fat /\ fat'.current = fat.current
CacheLoaded == /\ vol' = vol
               /\ DOMAIN fat' = DOMAIN fat
               /\ fatBuf' = Place(fat'.current)

(* Either preserves the invariant.                                         *)
LEMMA CacheStep ==
    ASSUME CacheInv, swapped' = swapped, CacheKept \/ CacheLoaded
    PROVE  CacheInv'
BY DEF CacheInv, CacheTrue, CacheKept, CacheLoaded, Place

(* load_fat_sector is one of them, whether the load succeeds or fails.     *)
LEMMA LoadStep ==
    ASSUME CacheInv, vol' = vol, NEW s, NEW ok, load_fat_sector(s, ok)
    PROVE  CacheKept \/ CacheLoaded
BY DEF CacheInv, load_fat_sector, CacheKept, CacheLoaded, Place

(* Mounting a card leaves current_fat_sector as it is.                     *)
LEMMA MountStep ==
    ASSUME CacheInv, vol' = vol, fatBuf' = fatBuf, NEW ok, fat_init(ok)
    PROVE  CacheKept
BY DEF CacheInv, fat_init, fat_init16, fat_init32, CacheKept

(* A turn of a directory's loop looks into the FAT at most once.           *)
LEMMA DirectoryStep ==
    ASSUME CacheInv, NEW ok, NEW fatOk, NEW how, ReadDirSector(ok, fatOk, how)
    PROVE  CacheKept \/ CacheLoaded
<1>1. vol' = vol
  BY DEF ReadDirSector
<1>2. \/ load_fat_sector(walk.cluster \div FatEntries, fatOk)
      \/ UNCHANGED <<fat, fatBuf>>
  BY DEF ReadDirSector
<1>3. CASE load_fat_sector(walk.cluster \div FatEntries, fatOk)
  BY <1>1, <1>3, LoadStep
<1>4. CASE UNCHANGED <<fat, fatBuf>>
  BY <1>1, <1>4 DEF CacheKept
<1> QED
  BY <1>2, <1>3, <1>4

(* So does the load of a file's sector.                                    *)
LEMMA FileStep ==
    ASSUME CacheInv, vol' = vol, NEW fatOk, NEW ok, NEW value,
           fat_load_file_sector(fatOk, ok, value)
    PROVE  CacheKept \/ CacheLoaded
<1>1. \/ load_fat_sector(file.cluster \div FatEntries, fatOk)
      \/ UNCHANGED <<fat, fatBuf>>
  BY DEF fat_load_file_sector
<1>2. CASE load_fat_sector(file.cluster \div FatEntries, fatOk)
  BY <1>2, LoadStep
<1>3. CASE UNCHANGED <<fat, fatBuf>>
  BY <1>3 DEF CacheKept
<1> QED
  BY <1>1, <1>2, <1>3

LEMMA CacheInit == Init => CacheInv
BY DEF Init, CacheInv, CacheTrue

LEMMA CacheNext == CacheInv /\ [Next]_vars => CacheInv'
<1> SUFFICES ASSUME CacheInv, [Next]_vars PROVE CacheInv'
  OBVIOUS
<1>1. CASE Start
  <2>1. vol' = vol /\ fatBuf' = fatBuf /\ swapped' = swapped
    BY <1>1 DEF Start
  <2>2. \/ \E mounted \in BOOLEAN : fat_init(mounted)
        \/ fat' = fat
    BY <1>1 DEF Start
  <2>3. CacheKept
    BY <2>1, <2>2, MountStep DEF CacheKept
  <2> QED
    BY <2>1, <2>3, CacheStep
<1>2. CASE ReadDirectory
  BY <1>2, DirectoryStep, CacheStep DEF ReadDirectory
<1>3. CASE LoadSector
  BY <1>3, FileStep, CacheStep DEF LoadSector, LoadTurn
<1>4. CASE FileEnds
  BY <1>4, FileStep, CacheStep DEF FileEnds
<1>5. CASE OpenRoot \/ EnterDirectory
  <2>1. CacheKept /\ swapped' = swapped
    BY <1>5 DEF OpenRoot, EnterDirectory, fat_open_root_directory,
                fat_open_directory, open_root16, CacheKept
  <2> QED
    BY <2>1, CacheStep
<1>6. CASE Swap
  <2>1. swapped' /\ "current" \in DOMAIN fat'
    BY <1>6 DEF Swap, CacheInv
  <2> QED
    BY <2>1 DEF CacheInv, CacheTrue
<1>7. CASE \/ FirstLook \/ NoKey \/ Chord \/ ChooseMode \/ BootSram \/ RetryCard
           \/ Up \/ Down \/ PickFile \/ (\E b \in Buttons : Button(b)) \/ Reset
           \/ Booted \/ UNCHANGED vars
  <2>1. CacheKept /\ swapped' = swapped
    BY <1>7 DEF FirstLook, NoKey, Chord, ChooseMode, BootSram, RetryCard, Up, Down,
                PickFile, Button, Reset, Booted, vars, fatVars, CacheKept
  <2> QED
    BY <2>1, CacheStep
<1> QED
  BY <1>1, <1>2, <1>3, <1>4, <1>5, <1>6, <1>7 DEF Next, Program, Keys

(* Until the card is exchanged, the cached FAT sector is the one its       *)
(* number says, whatever loads have failed and however often the program   *)
(* was restarted (fat.c:156).                                              *)
THEOREM CacheIsTrue == Spec => []CacheTrue
<1>1. CacheInv => CacheTrue
  BY DEF CacheInv
<1> QED
  BY <1>1, CacheInit, CacheNext, PTL DEF Spec

-----------------------------------------------------------------------------
(* The keys                                                                *)

(* A button that has acted is still held, and wait_key knows that it was   *)
(* held from its first look on.                                            *)
KeyInv ==
    /\ acts \in [Buttons -> {0, 1}]
    /\ looking \in BOOLEAN
    /\ \A b \in Buttons : acts[b] = 1 => b \in joy /\ (looking => b \in seen)

(* A key that acts is new: its press had not acted.                        *)
LEMMA KeyStep ==
    ASSUME KeyInv, NEW k \in Buttons, Key(k)
    PROVE  KeyInv'
<1>1. k \in joy /\ k \notin seen /\ looking
  BY DEF Key, Pressed
<1>2. acts[k] = 0
  BY <1>1 DEF KeyInv
<1>3. acts' \in [Buttons -> {0, 1}] /\ \A b \in Buttons \ {k} : acts'[b] = acts[b]
  BY <1>2 DEF Key, KeyInv
<1> QED
  BY <1>1, <1>3 DEF Key, KeyInv

(* When wait_key starts again, nothing has to be known of the buttons.     *)
LEMMA AwaitStep ==
    ASSUME KeyInv, AwaitKey
    PROVE  KeyInv'
BY DEF KeyInv, AwaitKey

LEMMA KeyInit == Init => KeyInv
<1> SUFFICES ASSUME Init PROVE KeyInv
  OBVIOUS
<1>1. looking = FALSE /\ acts = [b \in Buttons |-> 0]
  BY DEF Init
<1>2. acts \in [Buttons -> {0, 1}] /\ \A b \in Buttons : acts[b] # 1
  BY <1>1
<1> QED
  BY <1>1, <1>2 DEF KeyInv

LEMMA KeyNext == KeyInv /\ [Next]_vars => KeyInv'
<1> SUFFICES ASSUME KeyInv, [Next]_vars PROVE KeyInv'
  OBVIOUS
<1>1. CASE Keys
  <2>1. \E k \in Buttons : Key(k)
    BY <1>1 DEF Keys, ChooseMode, BootSram, RetryCard, OpenRoot, Up, Down,
                EnterDirectory, PickFile, Buttons
  <2> QED
    BY <2>1, KeyStep
<1>2. CASE Start \/ Chord \/ Reset
  BY <1>2, AwaitStep DEF Start, Chord, Reset
<1>3. CASE ReadDirectory
  <2>1. AwaitKey \/ UNCHANGED keyVars
    BY <1>3 DEF ReadDirectory
  <2> QED
    BY <2>1, AwaitStep DEF keyVars, KeyInv
<1>4. CASE FirstLook \/ NoKey
  <2>1. seen' = joy /\ joy' = joy /\ acts' = acts /\ looking' \in BOOLEAN
    BY <1>4 DEF FirstLook, NoKey, KeyInv
  <2> QED
    BY <2>1 DEF KeyInv
<1>5. ASSUME NEW k \in Buttons, Button(k) PROVE KeyInv'
  <2>1. looking' = looking /\ seen' = seen
    BY <1>5 DEF Button
  <2>2. CASE k \in joy
    <3>1. acts' = [acts EXCEPT ![k] = 0] /\ joy' = joy \ {k}
      BY <1>5, <2>2 DEF Button
    <3> QED
      BY <2>1, <3>1 DEF KeyInv
  <2>3. CASE k \notin joy
    <3>1. acts' = [acts EXCEPT ![k] = @] /\ joy' = joy \cup {k}
      BY <1>5, <2>3 DEF Button
    <3>2. acts' = acts
      BY <3>1 DEF KeyInv
    <3> QED
      BY <2>1, <3>1, <3>2 DEF KeyInv
  <2> QED
    BY <2>2, <2>3
<1>6. CASE LoadSector \/ FileEnds \/ Swap \/ Booted \/ UNCHANGED vars
  <2>1. UNCHANGED keyVars
    BY <1>6 DEF LoadSector, LoadTurn, FileEnds, Swap, Booted, vars
  <2> QED
    BY <2>1 DEF keyVars, KeyInv
<1> QED
  BY <1>1, <1>2, <1>3, <1>4, <1>5, <1>6 DEF Next, Program

(* For every card and every way the buttons are pressed, a press acts at   *)
(* most once (main.c:271).                                                 *)
THEOREM PressActsOnce == Spec => []PressOnce
<1>1. KeyInv => PressOnce
  BY DEF KeyInv, PressOnce
<1> QED
  BY <1>1, KeyInit, KeyNext, PTL DEF Spec

-----------------------------------------------------------------------------
(* The invariant.                                                          *)

Shapes ==
  /\ DOMAIN fat = {"fat32", "spc", "firstFat", "firstData", "current", "root", "rootSize"}
  /\ DOMAIN walk = {"chain", "cluster", "sector", "i", "ptr"}
  /\ DOMAIN dir = 0 .. (DirRoom - 1)
  /\ \A j \in DOMAIN dir : DOMAIN dir[j] = {"type", "cluster"}
  /\ DOMAIN rom = 0 .. (Pages * PageSectors - 1)
  /\ DOMAIN banks = 1 .. 3

(* fat_t has what the card has.                                            *)
Mounted ==
  /\ Mountable(card, width)
  /\ fat.fat32 = card.fat32 /\ fat.spc = card.spc
  /\ fat.firstFat = FirstFat(card) /\ fat.firstData = DataStart(card)
  /\ IF card.fat32 THEN fat.root = card.root
     ELSE /\ fat.root = FirstFat(card) + FatSectors(card)
          /\ fat.rootSize = card.rootEntries \div DirEntries

Description(v, c, k) ==
  [type |-> IF Entries(v, c)[k].kind = "dir" THEN 1 ELSE 17, cluster |-> Entries(v, c)[k].cluster]

(* The entries listed among the first n of a directory.                    *)
Upto(v, c, n) == {k \in Listing(v, c) : k <= n}

(* n sectors of the directory have been read, and their entries are in     *)
(* directory_buffer, each as far behind the first as there are listed      *)
(* entries before it.                                                      *)
Listed(n) ==
  /\ \A k \in 1 .. n * DirEntries : Entries(card, opened)[k].kind # "end"
  /\ walk.ptr = Cardinality(Upto(card, opened, n * DirEntries))
  /\ \A k \in Upto(card, opened, n * DirEntries) :
       dir[Before(Listing(card, opened), k)] = Description(card, opened, k)

(* The next sector to be read is the one behind them.                      *)
AtSector(n) ==
  /\ n < Len(DirectorySectors(card, opened))
  /\ walk.sector = DirectorySectors(card, opened)[n + 1]
  /\ IF InRoot16(card, opened)
     THEN ~walk.chain /\ walk.i = (card.rootEntries \div DirEntries) - n
     ELSE /\ walk.chain
          /\ \E j \in 1 .. Len(Chain(card, opened)), m \in 0 .. (DirSectors - 1) :
               /\ n = (j - 1) * DirSectors + m
               /\ walk.cluster = Chain(card, opened)[j] /\ walk.i = DirSectors - m

Walking == SoundDirectory(card, width, opened) /\ \E n \in 0 .. Len(DirectorySectors(card, opened)) : Listed(n) /\ AtSector(n)

Choosing ==
  /\ SoundDirectory(card, width, opened)
  /\ WholeDirectory
  /\ top \in Nat /\ cur \in Nat /\ top <= cur /\ cur < top + Screen
  /\ cur < Cardinality(Listing(card, opened))

(* p sectors of the file have been passed; those that could be read are in *)
(* the ROM area, and without an error these are all.                       *)
HoldsSector(k, n) == rom[k - 1] = <<vol, SectorsOf(card, chosen)[n]>>

Transferred(p) ==
  /\ size <= p
  /\ \A k \in 1 .. size : \E n \in 1 .. p : HoldsSector(k, n)
  /\ \A k \in 1 .. (size - 1) : \A a, b \in 1 .. Len(SectorsOf(card, chosen)) :
       HoldsSector(k, a) /\ HoldsSector(k + 1, b) => a < b
  /\ reported = 0 => size = p /\ \A k \in 1 .. size : HoldsSector(k, k)

(* The place behind the p-th sector, which may be the end of a cluster.    *)
AtPlace(p) ==
  \E j \in 1 .. Len(Chain(card, chosen)), m \in 0 .. card.spc :
    /\ p = (j - 1) * card.spc + m
    /\ file.cluster = Chain(card, chosen)[j]
    /\ file.sector = DataStart(card) + (Chain(card, chosen)[j] - 2) * card.spc + m

(* The page for the next sector is selected, unless it is a new one.       *)
PageSelected == size % PageSectors # 0 => banks[3] = size \div PageSectors

Loading ==
  /\ Mountable(card, width) /\ SoundFile(card, width, chosen)
  /\ size \in Nat /\ reported \in 0 .. 2
  /\ \E p \in 0 .. Len(SectorsOf(card, chosen)) :
       /\ Transferred(p)
       /\ IF pc = "load" THEN AtPlace(p) ELSE p = Len(SectorsOf(card, chosen))
  /\ pc = "load" => PageSelected

BootInv ==
  ~swapped =>
    /\ (\E s \in Setups : vol = s[1] /\ width = s[2]) /\ Shapes
    /\ pc \in {"start", "mode", "opendir", "menu", "load", "booted"}
    /\ pc \in {"opendir", "menu", "load"} \/ (pc = "mode" /\ sdOk) => Mounted
    /\ pc = "opendir" => Walking
    /\ pc = "menu" => Choosing
    /\ pc \in {"start", "mode", "opendir", "menu"} => chosen = 0
    /\ chosen # 0 /\ ~lost => Loading

-----------------------------------------------------------------------------
(* Numbers: products, quotients, induction for sets of numbers.            *)

LEMMA Constants ==
  /\ Word \in Nat /\ Word >= 16 /\ Dword \in Nat /\ Dword >= 256 /\ Dword > Word
  /\ SectorSpace \in Nat \ {0} /\ FatWords \in Nat \ {0} /\ DirEntries \in Nat \ {0}
  /\ DirSectors \in Nat \ {0} /\ DirMax \in Nat \ {0} /\ DirRoom \in Nat /\ DirRoom > DirMax
  /\ Screen \in Nat \ {0} /\ PageSectors \in Nat \ {0} /\ Pages \in Nat \ {0}
<1>1. Word \in Nat /\ Word >= 16
  BY FatAssumption DEF FatAssumption
<1>2. Word * Word >= 16 * Word /\ Word * Word \in Nat
  BY <1>1
<1> QED
  BY <1>1, <1>2, FatAssumption, BootAssumption DEF FatAssumption, BootAssumption, Dword

LEMMA TimesLeq ==
  ASSUME NEW m \in Nat, NEW a \in Int, NEW b \in Int, a <= b
  PROVE  a * m <= b * m
<1> DEFINE d == b - a
<1>1. d \in Nat /\ b = a + d
  OBVIOUS
<1> HIDE DEF d
<1>2. d * m \in Nat /\ a * m \in Int /\ (a + d) * m = a * m + d * m
  BY <1>1
<1> QED
  BY <1>1, <1>2

(* Quotient and remainder are the only ones.                               *)
LEMMA DivMod ==
  ASSUME NEW m \in Nat \ {0}, NEW q \in Int, NEW r \in 0 .. m - 1
  PROVE  (q * m + r) % m = r /\ (q * m + r) \div m = q
<1> DEFINE x == q * m + r
           a == x \div m
           b == x % m
<1>0. x \in Int
  OBVIOUS
<1> HIDE DEF x
<1>1. a \in Int /\ b \in 0 .. m - 1 /\ x = m * a + b
  BY <1>0
<1> HIDE DEF a, b
<1>2. q * m + r = m * a + b
  BY <1>1 DEF x
<1> DEFINE d == q - a
<1>3. d \in Int /\ m * d = b - r
  BY <1>1, <1>2
<1> HIDE DEF d
<1>4. d = 0
  <2>1. CASE d >= 1
    <3>1. m * d >= m
      BY <1>3, <2>1
    <3> QED BY <1>1, <1>3, <3>1
  <2>2. CASE d <= -1
    <3>1. m * d <= -m
      BY <1>3, <2>2
    <3> QED BY <1>1, <1>3, <3>1
  <2> QED BY <1>3, <2>1, <2>2
<1>5. q = a /\ b = r
  <2>1. q = a
    BY <1>1, <1>4 DEF d
  <2> QED BY <1>1, <1>2, <2>1
<1> QED BY <1>5 DEF a, b, x

LEMMA Division ==
  ASSUME NEW x \in Nat, NEW m \in Nat \ {0}
  PROVE  /\ x \div m \in Nat /\ x % m \in 0 .. m - 1
         /\ x = (x \div m) * m + (x % m)
<1> DEFINE q == x \div m
           r == x % m
<1>1. q \in Int /\ r \in 0 .. m - 1 /\ x = q * m + r
  OBVIOUS
<1> HIDE DEF q, r
<1>2. q >= 0
  <2> SUFFICES ASSUME q <= -1 PROVE FALSE
    BY <1>1
  <2>1. q * m <= (-1) * m
    BY <1>1, TimesLeq
  <2>2. (-1) * m = -m /\ q * m \in Int
    BY <1>1
  <2> QED
    BY <1>1, <2>1, <2>2
<1>3. q \in Nat /\ r \in 0 .. m - 1 /\ x = q * m + r
  BY <1>1, <1>2
<1> QED
  BY <1>3 DEF q, r

(* A number smaller than the modulus.                                      *)
LEMMA Small ==
  ASSUME NEW m \in Nat \ {0}, NEW r \in 0 .. m - 1
  PROVE  r % m = r /\ r \div m = 0
<1>1. 0 \in Int /\ 0 * m + r = r
  OBVIOUS
<1>2. (0 * m + r) % m = r /\ (0 * m + r) \div m = 0
  BY DivMod
<1> QED
  BY <1>1, <1>2

LEMMA SmallDword ==
  ASSUME NEW r \in 0 .. (Dword - 1)
  PROVE  r % Dword = r
<1>1. Dword \in Nat \ {0}
  BY Constants
<1> QED
  BY <1>1, Small

LEMMA Least ==
  ASSUME NEW T \in SUBSET Nat, T # {}
  PROVE  \E m \in T : \A k \in T : m <= k
<1> DEFINE R == OpToRel(<, Nat)
<1>1. IsWellFoundedOn(R, Nat)
  BY NatLessThanWellFounded
<1> HIDE DEF R
<1>2. PICK m \in T : \A k \in T : ~(<<k, m>> \in R)
  BY <1>1, WFMin
<1>3. \A k \in T : ~(k < m)
  <2> SUFFICES ASSUME NEW k \in T, k < m PROVE FALSE
    OBVIOUS
  <2>1. <<k, m>> \in R
    BY DEF R, OpToRel
  <2> QED
    BY <1>2, <2>1
<1> QED
  BY <1>3

(* Induction, for a set of numbers in place of a predicate.                *)
LEMMA SetInduction ==
  ASSUME NEW S \in SUBSET Nat, 0 \in S, \A n \in S : n + 1 \in S
  PROVE  S = Nat
<1> SUFFICES ASSUME Nat \ S # {} PROVE FALSE
  OBVIOUS
<1>1. PICK m \in Nat \ S : \A k \in Nat \ S : m <= k
  BY Least
<1>2. m # 0 /\ m - 1 \in Nat
  BY <1>1
<1>3. m - 1 \in S
  BY <1>1, <1>2
<1>4. (m - 1) + 1 \in S
  BY <1>3
<1> QED
  BY <1>1, <1>4

-----------------------------------------------------------------------------
(* How many of a set of numbers are below one of them: Before counts the   *)
(* members of a set in their order, from 0.                                *)

LEMMA BeforeType ==
  ASSUME NEW S \in SUBSET Int, IsFiniteSet(S), NEW k \in Int
  PROVE  /\ Before(S, k) \in Nat /\ Before(S, k) <= Cardinality(S)
         /\ k \in S => Before(S, k) < Cardinality(S)
<1> DEFINE B == {m \in S : m < k}
<1>1. B \in SUBSET S /\ Before(S, k) = Cardinality(B)
  BY DEF Before
<1> HIDE DEF B
<1>2. IsFiniteSet(B) /\ Cardinality(B) <= Cardinality(S)
      /\ (Cardinality(S) = Cardinality(B) => S = B)
  BY <1>1, FS_Subset
<1>3. Cardinality(B) \in Nat /\ Cardinality(S) \in Nat
  BY <1>2, FS_CardinalityType
<1>4. k \in S => S # B
  BY DEF B
<1> QED
  BY <1>1, <1>2, <1>3, <1>4

LEMMA BeforeGrows ==
  ASSUME NEW S \in SUBSET Int, IsFiniteSet(S), NEW a \in S, NEW b \in S, a < b
  PROVE  Before(S, a) < Before(S, b)
<1> DEFINE A == {m \in S : m < a}
           B == {m \in S : m < b}
<1>0. a \in B /\ a \notin A
  OBVIOUS
<1>1. A \in SUBSET B /\ B \in SUBSET S /\ A # B
  <2>1. \A m \in A : m \in Int /\ m \in S /\ m < a /\ a \in Int /\ b \in Int
    OBVIOUS
  <2>2. \A m \in A : m \in B
    BY <2>1
  <2> HIDE DEF A
  <2>3. A \subseteq B
    BY <2>2
  <2> QED
    BY <1>0, <2>3
<1>2. Before(S, a) = Cardinality(A) /\ Before(S, b) = Cardinality(B)
  BY DEF Before
<1> HIDE DEF A, B
<1>3. IsFiniteSet(B)
  BY <1>1, FS_Subset
<1>4. IsFiniteSet(A) /\ Cardinality(A) <= Cardinality(B)
      /\ (Cardinality(B) = Cardinality(A) => B = A)
  BY <1>1, <1>3, FS_Subset
<1>5. Cardinality(A) \in Nat /\ Cardinality(B) \in Nat
  BY <1>3, <1>4, FS_CardinalityType
<1> QED
  BY <1>1, <1>2, <1>4, <1>5

LEMMA BeforeDiffers ==
  ASSUME NEW S \in SUBSET Int, IsFiniteSet(S), NEW a \in S, NEW b \in S,
         Before(S, a) = Before(S, b)
  PROVE  a = b
<1>1. Before(S, a) \in Nat /\ Before(S, b) \in Nat
  BY BeforeType
<1>2. a \in Int /\ b \in Int
  OBVIOUS
<1>3. ~(a < b)
  BY <1>1, BeforeGrows
<1>4. ~(b < a)
  BY <1>1, BeforeGrows
<1> QED
  BY <1>2, <1>3, <1>4

(* Every number below the size is that of a member.                        *)
LEMMA BeforeOnto ==
  ASSUME NEW S \in SUBSET Int, IsFiniteSet(S), NEW j \in 0 .. Cardinality(S) - 1
  PROVE  \E k \in S : Before(S, k) = j
<1> DEFINE n == Cardinality(S)
           T == 0 .. n - 1
           f == [k \in S |-> Before(S, k)]
<1>1. n \in Nat
  BY FS_CardinalityType
<1>2. IsFiniteSet(T) /\ Cardinality(T) = n
  <2> HIDE DEF n
  <2>1. 0 \in Int /\ n - 1 \in Int
    BY <1>1
  <2>2. IsFiniteSet(T) /\ Cardinality(T) = (IF 0 > n - 1 THEN 0 ELSE (n - 1) - 0 + 1)
    BY <2>1, FS_Interval
  <2> QED
    BY <1>1, <2>2
<1>3. f \in [S -> T]
  <2> SUFFICES ASSUME NEW k \in S PROVE Before(S, k) \in T
    OBVIOUS
  <2> QED
    BY <1>1, BeforeType
<1>4. \A a, b \in S : f[a] = f[b] => a = b
  BY BeforeDiffers
<1> HIDE DEF f
<1>5. f \in Injection(S, T)
  BY <1>3, <1>4 DEF Injection, IsInjective
<1>6. f \in Surjection(S, T)
  BY <1>2, <1>5, FS_Injection
<1>7. \E k \in S : f[k] = j
  BY <1>6 DEF Surjection
<1> QED
  BY <1>7 DEF f

LEMMA Shifted ==
  ASSUME NEW T \in SUBSET Int, IsFiniteSet(T), NEW a \in Int
  PROVE  /\ IsFiniteSet({a + e : e \in T})
         /\ Cardinality({a + e : e \in T}) = Cardinality(T)
<1> DEFINE U == {a + e : e \in T}
           f == [e \in T |-> a + e]
<1>1. f \in [T -> U] /\ (\A x, y \in T : f[x] = f[y] => x = y)
  OBVIOUS
<1>2. \A u \in U : \E e \in T : f[e] = u
  OBVIOUS
<1> HIDE DEF f, U
<1>3. f \in Injection(T, U) /\ f \in Surjection(T, U)
  BY <1>1, <1>2 DEF Injection, Surjection, IsInjective
<1>4. ExistsBijection(T, U)
  BY <1>3 DEF ExistsBijection, Bijection
<1>5. IsFiniteSet(U) /\ Cardinality(U) = Cardinality(T)
  BY <1>4, FS_Bijection
<1> QED
  BY <1>5 DEF U

-----------------------------------------------------------------------------
(* Chains of clusters: what the recursive function in Link computes.       *)

IsChain(f, v, c, n) == f = [m \in 1 .. n |-> IF m = 1 THEN c ELSE v.chain[f[m - 1]]]

LEMMA ChainStep ==
  ASSUME NEW v, NEW c, NEW n \in Nat \ {0}, NEW f, IsChain(f, v, c, n)
  PROVE  /\ f[1] = c
         /\ \A k \in 1 .. n : k + 1 \in 1 .. n => f[k + 1] = v.chain[f[k]]
<1>1. \A k \in 1 .. n : f[k] = IF k = 1 THEN c ELSE v.chain[f[k - 1]]
  BY DEF IsChain
<1>2. f[1] = c
  BY <1>1
<1>3. ASSUME NEW k \in 1 .. n, k + 1 \in 1 .. n PROVE f[k + 1] = v.chain[f[k]]
  <2>1. k + 1 # 1 /\ (k + 1) - 1 = k
    OBVIOUS
  <2> QED
    BY <1>1, <1>3, <2>1
<1> QED
  BY <1>2, <1>3

LEMMA ChainExists ==
  ASSUME NEW v, NEW c
  PROVE  \A n \in Nat : \E f : IsChain(f, v, c, n + 1)
<1> DEFINE S == {n \in Nat : \E f : IsChain(f, v, c, n + 1)}
<1>1. 0 \in S
  <2>1. [m \in 1 .. 1 |-> c] = [m \in 1 .. 0 + 1 |-> IF m = 1 THEN c ELSE v.chain[[k \in 1 .. 1 |-> c][m - 1]]]
    OBVIOUS
  <2>2. IsChain([m \in 1 .. 1 |-> c], v, c, 0 + 1)
    BY <2>1, Zenon DEF IsChain
  <2> QED
    BY <2>2
<1>2. ASSUME NEW i \in S PROVE i + 1 \in S
  <2> DEFINE n == i + 1
  <2>0. n \in Nat \ {0} /\ i + 1 \in Nat
    OBVIOUS
  <2>1. PICK f : IsChain(f, v, c, n)
    OBVIOUS
  <2> HIDE DEF n, S
  <2> DEFINE g == [k \in 1 .. (n + 1) |-> IF k = n + 1 THEN v.chain[f[n]] ELSE f[k]]
  <2>2. ASSUME NEW k \in 1 .. (n + 1)
        PROVE  g[k] = IF k = 1 THEN c ELSE v.chain[g[k - 1]]
    <3>2. \A j \in 1 .. n : f[j] = IF j = 1 THEN c ELSE v.chain[f[j - 1]]
      BY <2>1 DEF IsChain
    <3>3. CASE k = n + 1
      BY <2>0, <3>3
    <3>4. CASE k # n + 1
      <4>1. /\ k \in 1 .. n /\ (k # 1 => k - 1 \in 1 .. n)
            /\ (k # 1 => k - 1 \in 1 .. (n + 1) /\ k - 1 # n + 1)
        BY <2>0, <3>4
      <4>2. g[k] = f[k] /\ (k # 1 => g[k - 1] = f[k - 1])
        BY <2>0, <3>4, <4>1
      <4> HIDE DEF g
      <4> QED
        BY <3>2, <4>1, <4>2
    <3> QED
      BY <3>3, <3>4
  <2>3. g = [k \in 1 .. (n + 1) |-> g[k]]
    OBVIOUS
  <2>4. IsChain(g, v, c, n + 1)
    <3> HIDE DEF g
    <3> QED
      BY <2>2, <2>3, Zenon DEF IsChain
  <2>5. IsChain(g, v, c, (i + 1) + 1)
    BY <2>4 DEF n
  <2> QED
    BY <2>0, <2>5 DEF S
<1> HIDE DEF S
<1>3. S = Nat
  <2>1. S \in SUBSET Nat
    BY DEF S
  <2> QED
    BY <1>1, <1>2, <2>1, SetInduction
<1> QED
  BY <1>3 DEF S

(* Two chains from a cluster agree as far as both reach.                   *)
LEMMA ChainsAgree ==
  ASSUME NEW v, NEW c, NEW n \in Nat \ {0}, NEW m \in Nat \ {0},
         NEW f, IsChain(f, v, c, n), NEW g, IsChain(g, v, c, m)
  PROVE  \A k \in Nat : k + 1 <= n /\ k + 1 <= m => f[k + 1] = g[k + 1]
<1> DEFINE S == {k \in Nat : k + 1 <= n /\ k + 1 <= m => f[k + 1] = g[k + 1]}
<1>1. 0 \in S
  <2>0. 1 \in 1 .. n /\ 1 \in 1 .. m
    OBVIOUS
  <2>1. f[1] = c
    BY <2>0 DEF IsChain
  <2>2. g[1] = c
    BY <2>0 DEF IsChain
  <2> QED
    BY <2>1, <2>2
<1>2. ASSUME NEW i \in S PROVE i + 1 \in S
  <2> DEFINE k == i + 1
  <2>1. k \in Nat /\ k >= 1 /\ i + 1 \in Nat /\ (k <= n /\ k <= m => f[k] = g[k])
    OBVIOUS
  <2> HIDE DEF S
  <2> SUFFICES ASSUME k + 1 <= n, k + 1 <= m PROVE f[k + 1] = g[k + 1]
    BY <2>1 DEF S
  <2> HIDE DEF k
  <2>2. k \in 1 .. n /\ k \in 1 .. m /\ k + 1 \in 1 .. n /\ k + 1 \in 1 .. m
    BY <2>1
  <2>3. f[k + 1] = v.chain[f[k]]
    BY <2>2, ChainStep
  <2>4. g[k + 1] = v.chain[g[k]]
    <3>1. \A j \in 1 .. m : j + 1 \in 1 .. m => g[j + 1] = v.chain[g[j]]
      BY ChainStep
    <3> QED
      BY <2>2, <3>1
  <2>5. f[k] = g[k]
    BY <2>1, <2>2
  <2> QED
    BY <2>3, <2>4, <2>5
<1> HIDE DEF S
<1>3. S = Nat
  <2>1. S \in SUBSET Nat
    BY DEF S
  <2> QED
    BY <1>1, <1>2, <2>1, SetInduction
<1> QED
  BY <1>3 DEF S

(* A chain begins with its cluster and follows the FAT.                    *)
LEMMA LinkStep ==
  ASSUME NEW v, NEW c, NEW n \in Nat \ {0}
  PROVE  Link(v, c, 1) = c /\ Link(v, c, n + 1) = v.chain[Link(v, c, n)]
<1>1. ASSUME NEW m \in Nat \ {0} PROVE \E f : IsChain(f, v, c, m) /\ Link(v, c, m) = f[m]
  <2> DEFINE d == CHOOSE f : IsChain(f, v, c, m)
  <2>0. m - 1 \in Nat /\ (m - 1) + 1 = m
    OBVIOUS
  <2>1. IsChain(d, v, c, m)
    <3>1. \E f : IsChain(f, v, c, (m - 1) + 1)
      BY <2>0, ChainExists
    <3> QED
      BY <2>0, <3>1
  <2>2. Link(v, c, m) = d[m]
    BY DEF Link, IsChain
  <2> QED
    BY <2>1, <2>2
<1>2. Link(v, c, 1) = c
  <2>1. 1 \in Nat \ {0}
    OBVIOUS
  <2>2. PICK f : IsChain(f, v, c, 1) /\ Link(v, c, 1) = f[1]
    BY <1>1, <2>1
  <2>3. f = [m \in 1 .. 1 |-> IF m = 1 THEN c ELSE v.chain[f[m - 1]]]
    BY <2>2, Zenon DEF IsChain
  <2>4. 1 \in 1 .. 1
    OBVIOUS
  <2>5. f[1] = c
    BY <2>3, <2>4
  <2> QED
    BY <2>2, <2>5
<1>3. PICK f : IsChain(f, v, c, n) /\ Link(v, c, n) = f[n]
  BY <1>1
<1>4. n + 1 \in Nat \ {0}
  OBVIOUS
<1>5. PICK g : IsChain(g, v, c, n + 1) /\ Link(v, c, n + 1) = g[n + 1]
  BY <1>1, <1>4
<1>6. g[n + 1] = v.chain[g[n]]
  <2>1. n \in 1 .. (n + 1) /\ n + 1 \in 1 .. (n + 1)
    OBVIOUS
  <2> QED
    BY <1>4, <1>5, <2>1, ChainStep
<1>7. f[n] = g[n]
  <2>1. n - 1 \in Nat /\ (n - 1) + 1 = n /\ n <= n /\ n <= n + 1
    OBVIOUS
  <2>2. \A k \in Nat : k + 1 <= n /\ k + 1 <= n + 1 => f[k + 1] = g[k + 1]
    BY <1>3, <1>4, <1>5, ChainsAgree
  <2>3. (n - 1) + 1 <= n /\ (n - 1) + 1 <= n + 1 => f[(n - 1) + 1] = g[(n - 1) + 1]
    BY <2>1, <2>2
  <2> QED
    BY <2>1, <2>3
<1> QED
  BY <1>2, <1>3, <1>5, <1>6, <1>7

(* Two equal clusters of a chain have the same clusters behind them.       *)
LEMMA SameBehind ==
  ASSUME NEW v, NEW c, NEW i \in Nat \ {0}, NEW j \in Nat \ {0}, Link(v, c, i) = Link(v, c, j)
  PROVE  \A d \in Nat : Link(v, c, i + d) = Link(v, c, j + d)
<1> DEFINE S == {d \in Nat : Link(v, c, i + d) = Link(v, c, j + d)}
<1>1. 0 \in S
  <2>1. i + 0 = i /\ j + 0 = j
    OBVIOUS
  <2> QED
    BY <2>1
<1>2. ASSUME NEW d \in S PROVE d + 1 \in S
  <2>1. d \in Nat /\ Link(v, c, i + d) = Link(v, c, j + d)
    OBVIOUS
  <2> HIDE DEF S
  <2>2. i + d \in Nat \ {0} /\ j + d \in Nat \ {0}
        /\ i + (d + 1) = (i + d) + 1 /\ j + (d + 1) = (j + d) + 1
    BY <2>1
  <2>3. Link(v, c, (i + d) + 1) = v.chain[Link(v, c, i + d)]
    BY <2>2, LinkStep
  <2>4. Link(v, c, (j + d) + 1) = v.chain[Link(v, c, j + d)]
    BY <2>2, LinkStep
  <2> QED
    BY <2>1, <2>2, <2>3, <2>4 DEF S
<1> HIDE DEF S
<1>3. S = Nat
  <2>1. S \in SUBSET Nat
    BY DEF S
  <2> QED
    BY <1>1, <1>2, <2>1, SetInduction
<1> QED
  BY <1>3 DEF S

(* A chain ends once.                                                      *)
LEMMA EndUnique ==
  ASSUME NEW v, NEW c, NEW n \in Nat \ {0}, NEW m \in Nat \ {0},
         EndsAt(v, c, n), EndsAt(v, c, m)
  PROVE  n = m
<1>1. ~(n < m)
  <2> SUFFICES ASSUME n < m PROVE FALSE
    OBVIOUS
  <2>1. n \in 1 .. (m - 1)
    OBVIOUS
  <2> QED
    BY <2>1 DEF EndsAt
<1>2. ~(m < n)
  <2> SUFFICES ASSUME m < n PROVE FALSE
    OBVIOUS
  <2>1. m \in 1 .. (n - 1)
    OBVIOUS
  <2> QED
    BY <2>1 DEF EndsAt
<1> QED
  BY <1>1, <1>2

(* A sound chain: its clusters are sound and differ, each but the last     *)
(* holds the next, and the last a mark.                                    *)
LEMMA ChainFacts ==
  ASSUME NEW v, NEW w, NEW c, IsFiniteSet(DOMAIN v.chain), SoundChain(v, w, c)
  PROVE  /\ Len(Chain(v, c)) \in Nat \ {0}
         /\ DOMAIN Chain(v, c) = 1 .. Len(Chain(v, c))
         /\ Chain(v, c)[1] = c
         /\ \A j \in 1 .. Len(Chain(v, c)) :
              /\ SoundCluster(v, w, Chain(v, c)[j])
              /\ j = Len(Chain(v, c)) <=> Marks(v, v.chain[Chain(v, c)[j]])
              /\ j # Len(Chain(v, c)) => Chain(v, c)[j + 1] = v.chain[Chain(v, c)[j]]
         /\ \A i, j \in 1 .. Len(Chain(v, c)) : Chain(v, c)[i] = Chain(v, c)[j] => i = j
<1> DEFINE card0 == Cardinality(DOMAIN v.chain)
           L == CHOOSE n \in 1 .. card0 : EndsAt(v, c, n)
<1>1. card0 \in Nat
  BY FS_CardinalityType
<1>2. PICK n \in 1 .. card0 : EndsAt(v, c, n) /\ \A m \in 1 .. n : SoundCluster(v, w, Link(v, c, m))
  BY DEF SoundChain
<1>3. L \in 1 .. card0 /\ EndsAt(v, c, L)
  BY <1>2
<1>4. Chain(v, c) = [m \in 1 .. L |-> Link(v, c, m)]
  BY DEF Chain, EndsAt
<1> HIDE DEF L, card0
<1>5. L \in Nat \ {0} /\ n \in Nat \ {0}
  BY <1>1, <1>2, <1>3
<1>6. L = n
  BY <1>2, <1>3, <1>5, EndUnique
<1>7. DOMAIN Chain(v, c) = 1 .. L /\ \A m \in 1 .. L : Chain(v, c)[m] = Link(v, c, m)
  BY <1>4
<1>8. Len(Chain(v, c)) = L
  BY <1>4, <1>5
<1>9. Chain(v, c)[1] = c
  <2>1. 1 \in 1 .. L
    BY <1>5
  <2>2. Link(v, c, 1) = c
    BY <1>5, LinkStep
  <2> QED
    BY <1>7, <2>1, <2>2
<1>10. ASSUME NEW j \in 1 .. L
       PROVE  /\ SoundCluster(v, w, Chain(v, c)[j])
              /\ j = L <=> Marks(v, v.chain[Chain(v, c)[j]])
              /\ j # L => Chain(v, c)[j + 1] = v.chain[Chain(v, c)[j]]
  <2>1. Chain(v, c)[j] = Link(v, c, j)
    BY <1>7
  <2>2. SoundCluster(v, w, Link(v, c, j))
    BY <1>2, <1>6
  <2>3. Marks(v, v.chain[Link(v, c, L)]) /\ \A m \in 1 .. (L - 1) : ~Marks(v, v.chain[Link(v, c, m)])
    BY <1>3 DEF EndsAt
  <2>4. j # L => j \in 1 .. (L - 1) /\ j + 1 \in 1 .. L
    BY <1>5
  <2>5. j = L <=> Marks(v, v.chain[Link(v, c, j)])
    BY <2>3, <2>4
  <2>6. j # L => Chain(v, c)[j + 1] = Link(v, c, j + 1)
    BY <1>7, <2>4
  <2>7. Link(v, c, j + 1) = v.chain[Link(v, c, j)]
    <3>1. j \in Nat \ {0}
      BY <1>5
    <3> QED
      BY <3>1, LinkStep
  <2> QED
    BY <2>1, <2>2, <2>5, <2>6, <2>7
<1>11. ASSUME NEW i \in 1 .. L, NEW j \in 1 .. L, i < j, Chain(v, c)[i] = Chain(v, c)[j]
       PROVE  FALSE
  <2>1. Link(v, c, i) = Link(v, c, j)
    BY <1>7, <1>11
  <2>2. i \in Nat \ {0} /\ j \in Nat \ {0} /\ L - j \in Nat
        /\ j + (L - j) = L /\ i + (L - j) \in 1 .. (L - 1)
    BY <1>5, <1>11
  <2>3. \A d \in Nat : Link(v, c, i + d) = Link(v, c, j + d)
    BY <2>1, <2>2, SameBehind
  <2>4. Link(v, c, i + (L - j)) = Link(v, c, L)
    BY <2>2, <2>3
  <2> QED
    BY <1>3, <2>2, <2>4 DEF EndsAt
<1>12. \A i, j \in 1 .. L : Chain(v, c)[i] = Chain(v, c)[j] => i = j
  <2> SUFFICES ASSUME NEW i \in 1 .. L, NEW j \in 1 .. L, Chain(v, c)[i] = Chain(v, c)[j]
               PROVE  i = j
    OBVIOUS
  <2>1. ~(i < j) /\ ~(j < i)
    BY <1>11
  <2>2. i \in Int /\ j \in Int
    BY <1>5
  <2> QED
    BY <2>1, <2>2
<1> QED
  BY <1>5, <1>7, <1>8, <1>9, <1>10, <1>12

-----------------------------------------------------------------------------
(* Where clusters, sectors and entries are on a card.                      *)

(* Numbers counted in groups of m: the r-th of group q.                    *)
LEMMA InGroup ==
  ASSUME NEW m \in Nat \ {0}, NEW n \in Nat, NEW q \in 0 .. (n - 1), NEW r \in 0 .. (m - 1)
  PROVE  /\ q * m + r + 1 \in 1 .. (n * m) /\ n * m \in Nat
         /\ ((q * m + r + 1) - 1) \div m = q /\ ((q * m + r + 1) - 1) % m = r
<1>1. q * m \in Nat /\ n * m \in Nat /\ (q + 1) * m = q * m + m /\ q + 1 <= n
  OBVIOUS
<1>2. (q + 1) * m <= n * m
  BY <1>1, TimesLeq
<1> DEFINE x == q * m
<1>3. x \in Nat /\ n * m \in Nat /\ x + m <= n * m
  BY <1>1, <1>2
<1> HIDE DEF x
<1>4. x + r + 1 \in 1 .. (n * m) /\ (x + r + 1) - 1 = x + r
  BY <1>3
<1>5. (q * m + r) % m = r /\ (q * m + r) \div m = q
  BY DivMod
<1> QED
  BY <1>1, <1>4, <1>5 DEF x

LEMMA OfGroup ==
  ASSUME NEW m \in Nat \ {0}, NEW n \in Nat, NEW k \in 1 .. (n * m)
  PROVE  \E q \in 0 .. (n - 1), r \in 0 .. (m - 1) : k = q * m + r + 1
<1> DEFINE q == (k - 1) \div m
           r == (k - 1) % m
<1>0. n * m \in Nat
  OBVIOUS
<1>1. k - 1 \in Nat /\ k - 1 < n * m
  BY <1>0
<1>2. q \in Nat /\ r \in 0 .. (m - 1) /\ k - 1 = q * m + r
  BY <1>1, Division
<1> HIDE DEF q, r
<1>3. q < n
  <2> SUFFICES ASSUME n <= q PROVE FALSE
    BY <1>2
  <2>1. n * m <= q * m
    BY <1>2, TimesLeq
  <2>2. q * m \in Nat
    BY <1>2
  <2> QED
    BY <1>0, <1>1, <1>2, <2>1, <2>2
<1>4. k = q * m + r + 1
  BY <1>2
<1> QED
  BY <1>2, <1>3, <1>4

Base(v, c) == DataStart(v) + (c - 2) * v.spc

LEMMA GeometryFacts ==
  ASSUME NEW v, NEW w, Geometry(v, w)
  PROVE  /\ v.spc \in Nat \ {0} /\ v.fat32 \in BOOLEAN /\ v.size \in Nat /\ v.fatSize \in Nat
         /\ FirstFat(v) \in Nat \ {0} /\ FatSectors(v) \in Nat /\ DataStart(v) \in Nat
         /\ FirstFat(v) + v.fatSize <= DataStart(v) /\ DataStart(v) <= v.size
         /\ v.size <= SectorSpace /\ v.size < Dword
         /\ v.rootEntries \div DirEntries \in Nat
         /\ ~v.fat32 => DataStart(v) = FirstFat(v) + FatSectors(v) + (v.rootEntries \div DirEntries)
         /\ PerSector(v) \in Nat \ {0}
<1>1. /\ v.start \in Nat /\ v.reserved \in Nat /\ v.nfats \in Nat /\ v.fatSize \in Nat
      /\ v.spc \in Nat /\ v.size \in Nat /\ v.rootEntries \in Nat
  BY DEF Geometry
<1>2. v.fat32 \in BOOLEAN
  BY DEF Geometry
<1>3. FatSectors(v) \in Nat /\ FirstFat(v) \in Nat
  BY <1>1 DEF FatSectors, FirstFat
<1>4. v.rootEntries \div DirEntries \in Nat
  BY <1>1, Constants, Division
<1>5. /\ DataStart(v) \in Nat
      /\ ~v.fat32 => DataStart(v) = FirstFat(v) + FatSectors(v) + (v.rootEntries \div DirEntries)
  BY <1>2, <1>3, <1>4 DEF DataStart
<1>6. PerSector(v) \in Nat \ {0}
  <2>1. PerSector(v) > 0
    BY DEF Geometry
  <2>2. PerSector(v) \in Int
    BY Constants DEF PerSector
  <2> QED
    BY <2>1, <2>2
<1> QED
  BY <1>1, <1>2, <1>3, <1>4, <1>5, <1>6 DEF Geometry

(* The sectors of a cluster are on the card, behind its FATs.              *)
LEMMA ClusterPlace ==
  ASSUME NEW v, NEW w, Geometry(v, w), NEW c, SoundCluster(v, w, c)
  PROVE  /\ Base(v, c) \in Nat /\ Base(v, c) >= DataStart(v)
         /\ Base(v, c) + v.spc <= v.size /\ Base(v, c + 1) = Base(v, c) + v.spc
<1>1. c \in Nat /\ c >= 2 /\ DataStart(v) + (c - 1) * v.spc <= v.size
  BY DEF SoundCluster
<1>2. v.spc \in Nat \ {0} /\ DataStart(v) \in Nat /\ v.size \in Nat
  BY GeometryFacts
<1> DEFINE d == v.spc
           x == (c - 2) * d
<1>3. x \in Nat /\ (c - 1) * d = x + d /\ ((c + 1) - 2) * d = x + d
  BY <1>1, <1>2
<1> HIDE DEF x
<1>4. Base(v, c) = DataStart(v) + x /\ Base(v, c + 1) = DataStart(v) + (x + d)
  BY <1>3 DEF Base, x
<1> QED
  BY <1>1, <1>2, <1>3, <1>4

(* No sector is in two clusters.                                           *)
LEMMA ClustersApart ==
  ASSUME NEW v, NEW w, Geometry(v, w), NEW a, SoundCluster(v, w, a), NEW b, SoundCluster(v, w, b),
         NEW i \in 0 .. (v.spc - 1), NEW j \in 0 .. (v.spc - 1),
         Base(v, a) + i = Base(v, b) + j
  PROVE  a = b /\ i = j
<1>1. a \in Nat /\ b \in Nat /\ a - 2 \in Int /\ b - 2 \in Int
  BY DEF SoundCluster
<1>2. v.spc \in Nat \ {0} /\ DataStart(v) \in Nat
  BY GeometryFacts
<1>3. (a - 2) * v.spc \in Int /\ (b - 2) * v.spc \in Int
  BY <1>1, <1>2
<1>4. (a - 2) * v.spc + i = (b - 2) * v.spc + j
  BY <1>2, <1>3 DEF Base
<1>5. ((a - 2) * v.spc + i) \div v.spc = a - 2 /\ ((a - 2) * v.spc + i) % v.spc = i
  BY <1>1, <1>2, DivMod
<1>6. ((b - 2) * v.spc + j) \div v.spc = b - 2 /\ ((b - 2) * v.spc + j) % v.spc = j
  BY <1>1, <1>2, DivMod
<1>7. a - 2 = b - 2 /\ i = j
  BY <1>4, <1>5, <1>6
<1> QED
  BY <1>1, <1>7

(* The sectors of a chain, cluster by cluster.                             *)
LEMMA SectorPlace ==
  ASSUME NEW v, NEW w, NEW c, Geometry(v, w), SoundChain(v, w, c)
  PROVE  /\ Len(SectorsOf(v, c)) = Len(Chain(v, c)) * v.spc
         /\ Len(SectorsOf(v, c)) \in Nat \ {0}
         /\ DOMAIN SectorsOf(v, c) = 1 .. Len(SectorsOf(v, c))
         /\ \A j \in 1 .. Len(Chain(v, c)), m \in 0 .. (v.spc - 1) :
              /\ (j - 1) * v.spc + m + 1 \in 1 .. Len(SectorsOf(v, c))
              /\ SectorsOf(v, c)[(j - 1) * v.spc + m + 1] = Base(v, Chain(v, c)[j]) + m
<1> DEFINE L == Len(Chain(v, c))
           d == v.spc
           N == L * d
<1>0. IsFiniteSet(DOMAIN v.chain)
  BY DEF Geometry
<1>1. L \in Nat \ {0} /\ d \in Nat \ {0}
  BY <1>0, ChainFacts, GeometryFacts
<1>2. N \in Nat /\ N # 0
  BY <1>1
<1>3. SectorsOf(v, c) = [k \in 1 .. N |->
          DataStart(v) + (Chain(v, c)[((k - 1) \div d) + 1] - 2) * d + ((k - 1) % d)]
  BY DEF SectorsOf
<1>4. DOMAIN SectorsOf(v, c) = 1 .. N
  BY <1>3
<1>5. Len(SectorsOf(v, c)) = N
  <2> HIDE DEF N
  <2> QED
    BY <1>2, <1>3
<1>6. ASSUME NEW j \in 1 .. L, NEW m \in 0 .. (d - 1)
      PROVE  /\ (j - 1) * d + m + 1 \in 1 .. N
             /\ SectorsOf(v, c)[(j - 1) * d + m + 1] = Base(v, Chain(v, c)[j]) + m
  <2> DEFINE k == (j - 1) * d + m + 1
  <2>1. j - 1 \in 0 .. (L - 1) /\ (j - 1) + 1 = j /\ L \in Nat
    BY <1>1
  <2>2. k \in 1 .. N /\ (k - 1) \div d = j - 1 /\ (k - 1) % d = m
    <3> HIDE DEF L, d
    <3>1. \A q \in 0 .. (L - 1), r \in 0 .. (d - 1) :
             /\ q * d + r + 1 \in 1 .. (L * d)
             /\ ((q * d + r + 1) - 1) \div d = q /\ ((q * d + r + 1) - 1) % d = r
      BY <1>1, <2>1, InGroup
    <3> QED
      BY <2>1, <3>1
  <2> HIDE DEF k
  <2>3. SectorsOf(v, c)[k] = DataStart(v) + (Chain(v, c)[((k - 1) \div d) + 1] - 2) * d + ((k - 1) % d)
    BY <1>3, <2>2
  <2>4. SectorsOf(v, c)[k] = DataStart(v) + (Chain(v, c)[j] - 2) * d + m
    BY <2>1, <2>2, <2>3
  <2>5. SectorsOf(v, c)[k] = Base(v, Chain(v, c)[j]) + m
    BY <2>4 DEF Base
  <2> QED
    BY <2>2, <2>5 DEF k
<1> QED
  BY <1>1, <1>2, <1>4, <1>5, <1>6

(* Each is on the card, and none comes twice.                              *)
LEMMA SectorOf ==
  ASSUME NEW v, NEW w, NEW c, Geometry(v, w), SoundChain(v, w, c), NEW k \in 1 .. Len(SectorsOf(v, c))
  PROVE  \E j \in 1 .. Len(Chain(v, c)), m \in 0 .. (v.spc - 1) :
           /\ k = (j - 1) * v.spc + m + 1
           /\ SectorsOf(v, c)[k] = Base(v, Chain(v, c)[j]) + m
<1>0. IsFiniteSet(DOMAIN v.chain)
  BY DEF Geometry
<1>1. Len(Chain(v, c)) \in Nat \ {0} /\ v.spc \in Nat \ {0}
  BY <1>0, ChainFacts, GeometryFacts
<1>2. k \in 1 .. (Len(Chain(v, c)) * v.spc)
  BY SectorPlace
<1>3. PICK q \in 0 .. (Len(Chain(v, c)) - 1), m \in 0 .. (v.spc - 1) : k = q * v.spc + m + 1
  BY <1>1, <1>2, OfGroup
<1>4. q + 1 \in 1 .. Len(Chain(v, c)) /\ (q + 1) - 1 = q
  BY <1>1
<1>5. k = ((q + 1) - 1) * v.spc + m + 1
  BY <1>3, <1>4
<1>6. SectorsOf(v, c)[k] = Base(v, Chain(v, c)[q + 1]) + m
  BY <1>4, <1>5, SectorPlace
<1> QED
  BY <1>4, <1>5, <1>6

LEMMA SectorsDiffer ==
  ASSUME NEW v, NEW w, NEW c, Geometry(v, w), SoundChain(v, w, c),
         NEW a \in 1 .. Len(SectorsOf(v, c)), NEW b \in 1 .. Len(SectorsOf(v, c)),
         SectorsOf(v, c)[a] = SectorsOf(v, c)[b]
  PROVE  a = b
<1>0. IsFiniteSet(DOMAIN v.chain)
  BY DEF Geometry
<1>1. PICK j \in 1 .. Len(Chain(v, c)), m \in 0 .. (v.spc - 1) :
        a = (j - 1) * v.spc + m + 1 /\ SectorsOf(v, c)[a] = Base(v, Chain(v, c)[j]) + m
  BY SectorOf
<1>2. PICK i \in 1 .. Len(Chain(v, c)), n \in 0 .. (v.spc - 1) :
        b = (i - 1) * v.spc + n + 1 /\ SectorsOf(v, c)[b] = Base(v, Chain(v, c)[i]) + n
  BY SectorOf
<1>3. SoundCluster(v, w, Chain(v, c)[j]) /\ SoundCluster(v, w, Chain(v, c)[i])
  BY <1>0, ChainFacts
<1>4. Base(v, Chain(v, c)[j]) + m = Base(v, Chain(v, c)[i]) + n
  BY <1>1, <1>2
<1>5. Chain(v, c)[j] = Chain(v, c)[i] /\ m = n
  BY <1>3, <1>4, ClustersApart
<1>6. j = i
  BY <1>0, <1>5, ChainFacts
<1> QED
  BY <1>1, <1>2, <1>5, <1>6

(* The sectors of a directory.                                             *)
LEMMA DirectoryPlace ==
  ASSUME NEW v, NEW w, NEW c, Geometry(v, w), SoundDirectory(v, w, c)
  PROVE  /\ Len(DirectorySectors(v, c)) \in Nat \ {0}
         /\ DOMAIN DirectorySectors(v, c) = 1 .. Len(DirectorySectors(v, c))
         /\ \A k \in 1 .. Len(DirectorySectors(v, c)) :
              DirectorySectors(v, c)[k] \in Nat /\ DirectorySectors(v, c)[k] < v.size
         /\ InRoot16(v, c) =>
              /\ Len(DirectorySectors(v, c)) = v.rootEntries \div DirEntries
              /\ \A k \in 1 .. Len(DirectorySectors(v, c)) :
                   DirectorySectors(v, c)[k] = FirstFat(v) + FatSectors(v) + k - 1
         /\ ~InRoot16(v, c) =>
              /\ SoundChain(v, w, c) /\ v.spc = DirSectors
              /\ DirectorySectors(v, c) = SectorsOf(v, c)
<1>1. CASE InRoot16(v, c)
  <2> DEFINE R == v.rootEntries \div DirEntries
             D == DirectorySectors(v, c)
  <2>1. D = [k \in 1 .. R |-> FirstFat(v) + FatSectors(v) + k - 1]
    BY <1>1 DEF DirectorySectors, InRoot16
  <2>2. R \in 1 .. 255
    BY <1>1 DEF Geometry, InRoot16
  <2>3. /\ FirstFat(v) \in Nat /\ FatSectors(v) \in Nat /\ v.size \in Nat
        /\ FirstFat(v) + FatSectors(v) + R <= v.size
    BY <1>1, GeometryFacts DEF InRoot16
  <2> HIDE DEF R
  <2>4. Len(D) = R /\ DOMAIN D = 1 .. R
    BY <2>1, <2>2
  <2>5. \A k \in 1 .. R : D[k] = FirstFat(v) + FatSectors(v) + k - 1
    BY <2>1
  <2> HIDE DEF D
  <2>6. \A k \in 1 .. R : D[k] \in Nat /\ D[k] < v.size
    BY <2>2, <2>3, <2>5
  <2>7. /\ Len(D) \in Nat \ {0} /\ DOMAIN D = 1 .. Len(D)
        /\ \A k \in 1 .. Len(D) : D[k] \in Nat /\ D[k] < v.size
        /\ Len(D) = R /\ \A k \in 1 .. Len(D) : D[k] = FirstFat(v) + FatSectors(v) + k - 1
    BY <2>2, <2>4, <2>5, <2>6
  <2> QED
    BY <1>1, <2>7 DEF D, R
<1>2. CASE ~InRoot16(v, c)
  <2>1. DirectorySectors(v, c) = SectorsOf(v, c)
    BY <1>2 DEF DirectorySectors, InRoot16
  <2>2. SoundChain(v, w, c) /\ v.spc = DirSectors
    BY <1>2 DEF SoundDirectory
  <2>3. ASSUME NEW k \in 1 .. Len(SectorsOf(v, c))
        PROVE  SectorsOf(v, c)[k] \in Nat /\ SectorsOf(v, c)[k] < v.size
    <3>1. PICK j \in 1 .. Len(Chain(v, c)), m \in 0 .. (v.spc - 1) :
            SectorsOf(v, c)[k] = Base(v, Chain(v, c)[j]) + m
      BY <2>2, SectorOf
    <3>2. IsFiniteSet(DOMAIN v.chain)
      BY DEF Geometry
    <3>3. SoundCluster(v, w, Chain(v, c)[j])
      BY <2>2, <3>2, ChainFacts
    <3>4. Base(v, Chain(v, c)[j]) \in Nat /\ Base(v, Chain(v, c)[j]) + v.spc <= v.size
      BY <3>3, ClusterPlace
    <3>5. v.spc \in Nat /\ v.size \in Nat
      BY GeometryFacts
    <3> QED
      BY <3>1, <3>4, <3>5
  <2>4. Len(SectorsOf(v, c)) \in Nat \ {0} /\ DOMAIN SectorsOf(v, c) = 1 .. Len(SectorsOf(v, c))
    BY <2>2, SectorPlace
  <2> QED
    BY <1>2, <2>1, <2>2, <2>3, <2>4
<1> QED
  BY <1>1, <1>2

(* The entries of a directory, sector by sector.                           *)
LEMMA EntryPlace ==
  ASSUME NEW v, NEW c, Len(DirectorySectors(v, c)) \in Nat
  PROVE  /\ DOMAIN Entries(v, c) = 1 .. (Len(DirectorySectors(v, c)) * DirEntries)
         /\ Len(DirectorySectors(v, c)) * DirEntries \in Nat
         /\ \A n \in 0 .. (Len(DirectorySectors(v, c)) - 1), e \in 1 .. DirEntries :
              /\ n * DirEntries + e \in DOMAIN Entries(v, c)
              /\ Entries(v, c)[n * DirEntries + e] = EntriesAt(v, DirectorySectors(v, c)[n + 1])[e]
<1> DEFINE N == Len(DirectorySectors(v, c))
<1>0. DirEntries \in Nat \ {0}
  BY Constants
<1>1. Entries(v, c) = [k \in 1 .. (N * DirEntries) |->
          EntriesAt(v, DirectorySectors(v, c)[((k - 1) \div DirEntries) + 1])[((k - 1) % DirEntries) + 1]]
  BY DEF Entries
<1>2. N * DirEntries \in Nat
  BY <1>0
<1>3. ASSUME NEW n \in 0 .. (N - 1), NEW e \in 1 .. DirEntries
      PROVE  /\ n * DirEntries + e \in 1 .. (N * DirEntries)
             /\ Entries(v, c)[n * DirEntries + e] = EntriesAt(v, DirectorySectors(v, c)[n + 1])[e]
  <2> DEFINE k == n * DirEntries + (e - 1) + 1
  <2>1. e - 1 \in 0 .. (DirEntries - 1) /\ (e - 1) + 1 = e
    BY <1>0
  <2>2. k \in 1 .. (N * DirEntries) /\ (k - 1) \div DirEntries = n /\ (k - 1) % DirEntries = e - 1
    BY <1>0, <2>1, InGroup
  <2>3. k = n * DirEntries + e
    BY <1>0, <2>1
  <2> HIDE DEF k
  <2>4. Entries(v, c)[k] = EntriesAt(v, DirectorySectors(v, c)[((k - 1) \div DirEntries) + 1])[((k - 1) % DirEntries) + 1]
    BY <1>1, <2>2
  <2>5. Entries(v, c)[k] = EntriesAt(v, DirectorySectors(v, c)[n + 1])[e]
    BY <2>1, <2>2, <2>4
  <2> QED
    BY <2>2, <2>3, <2>5
<1>4. DOMAIN Entries(v, c) = 1 .. (N * DirEntries)
  BY <1>1
<1> QED
  BY <1>2, <1>3, <1>4

LEMMA ListingType ==
  ASSUME NEW v, NEW c, Len(DirectorySectors(v, c)) \in Nat
  PROVE  /\ Listing(v, c) \in SUBSET Nat /\ IsFiniteSet(Listing(v, c))
         /\ Cardinality(Listing(v, c)) \in Nat
         /\ \A k \in Listing(v, c) : k \in 1 .. (Len(DirectorySectors(v, c)) * DirEntries)
         /\ \A n : Upto(v, c, n) \in SUBSET Nat /\ IsFiniteSet(Upto(v, c, n))
                   /\ Cardinality(Upto(v, c, n)) \in Nat
                   /\ Cardinality(Upto(v, c, n)) <= Cardinality(Listing(v, c))
<1>1. /\ DOMAIN Entries(v, c) = 1 .. (Len(DirectorySectors(v, c)) * DirEntries)
      /\ Len(DirectorySectors(v, c)) * DirEntries \in Nat
  BY EntryPlace
<1> DEFINE M == Len(DirectorySectors(v, c)) * DirEntries
<1> HIDE DEF M
<1>2. M \in Nat /\ DOMAIN Entries(v, c) = 1 .. M
  BY <1>1 DEF M
<1>3. IsFiniteSet(1 .. M) /\ 1 .. M \in SUBSET Nat
  BY <1>2, FS_Interval
<1>4. Listing(v, c) \in SUBSET (1 .. M)
  BY <1>2 DEF Listing
<1>5. IsFiniteSet(Listing(v, c))
  BY <1>3, <1>4, FS_Subset
<1>6. ASSUME NEW n
      PROVE  /\ Upto(v, c, n) \in SUBSET Nat /\ IsFiniteSet(Upto(v, c, n))
             /\ Cardinality(Upto(v, c, n)) <= Cardinality(Listing(v, c))
  <2>1. Upto(v, c, n) \in SUBSET Listing(v, c)
    BY DEF Upto
  <2> QED
    BY <1>3, <1>4, <1>5, <2>1, FS_Subset
<1>7. \A n : Cardinality(Upto(v, c, n)) \in Nat
  BY <1>6, FS_CardinalityType
<1>8. Cardinality(Listing(v, c)) \in Nat
  BY <1>5, FS_CardinalityType
<1> QED
  BY <1>3, <1>4, <1>5, <1>6, <1>7, <1>8 DEF M

(* A sector behind sectors without the end mark adds what it has to the    *)
(* entries listed, and they keep their order.                              *)
LEMMA ListingStep ==
  ASSUME NEW v, NEW c, Len(DirectorySectors(v, c)) \in Nat,
         NEW n \in 0 .. (Len(DirectorySectors(v, c)) - 1),
         NEW G, G = EntriesAt(v, DirectorySectors(v, c)[n + 1]), DOMAIN G = 1 .. DirEntries,
         \A k \in 1 .. (n * DirEntries) : Entries(v, c)[k].kind # "end"
  PROVE  /\ Upto(v, c, (n + 1) * DirEntries)
              = Upto(v, c, n * DirEntries) \cup {n * DirEntries + e : e \in Taken(G)}
         /\ EndsHere(G) => Listing(v, c) = Upto(v, c, (n + 1) * DirEntries)
         /\ ~EndsHere(G) => \A k \in 1 .. ((n + 1) * DirEntries) : Entries(v, c)[k].kind # "end"
<1> DEFINE F == Entries(v, c)
           a == n * DirEntries
           M == Len(DirectorySectors(v, c)) * DirEntries
<1>0. DirEntries \in Nat \ {0} /\ n \in Nat
  BY Constants
<1>1. a \in Nat /\ (n + 1) * DirEntries = a + DirEntries
  BY <1>0
<1>2. DOMAIN F = 1 .. M /\ M \in Nat
  BY EntryPlace
<1>3. \A e \in 1 .. DirEntries : a + e \in 1 .. M /\ F[a + e] = G[e]
  BY <1>2, EntryPlace
<1>4. \A k \in 1 .. a : F[k].kind # "end"
  OBVIOUS
<1>5. Listing(v, c) = {k \in 1 .. M : /\ F[k].kind \in {"dir", "file"}
                                     /\ ~\E m \in 1 .. M : m < k /\ F[m].kind = "end"}
  BY <1>2 DEF Listing
<1>6. Taken(G) = {e \in 1 .. DirEntries : /\ G[e].kind \in {"dir", "file"}
                                         /\ \A m \in 1 .. e : G[m].kind # "end"}
  BY DEF Taken
<1>7. EndsHere(G) <=> \E e \in 1 .. DirEntries : G[e].kind = "end"
  BY DEF EndsHere
<1> HIDE DEF a, M, F
<1>8. ASSUME NEW e \in 1 .. DirEntries
      PROVE  a + e \in Listing(v, c) <=> e \in Taken(G)
  <2>1. a + e \in 1 .. M /\ F[a + e] = G[e]
    BY <1>3
  <2>2. ASSUME NEW m \in 1 .. M, m < a + e, F[m].kind = "end", \A i \in 1 .. e : G[i].kind # "end"
        PROVE  FALSE
    <3>1. CASE m <= a
      BY <1>1, <1>4, <2>2, <3>1
    <3>2. CASE m > a
      <4>1. m - a \in 1 .. e /\ m - a \in 1 .. DirEntries /\ a + (m - a) = m
        BY <1>0, <1>1, <1>2, <2>2, <3>2
      <4>2. F[m] = G[m - a]
        BY <1>3, <4>1
      <4> QED
        BY <2>2, <4>1, <4>2
    <3> QED
      BY <1>1, <1>2, <3>1, <3>2
  <2>3. ASSUME NEW i \in 1 .. e, G[i].kind = "end", ~\E m \in 1 .. M : m < a + e /\ F[m].kind = "end",
               G[e].kind \in {"dir", "file"}
        PROVE  FALSE
    <3>1. i \in 1 .. DirEntries /\ i # e
      BY <1>0, <2>3
    <3>2. F[a + i] = G[i] /\ a + i \in 1 .. M /\ a + i < a + e
      BY <1>0, <1>1, <1>3, <3>1
    <3> QED
      BY <2>3, <3>2
  <2>4. e \in Taken(G) <=> G[e].kind \in {"dir", "file"} /\ \A m \in 1 .. e : G[m].kind # "end"
    BY <1>6
  <2>5. a + e \in Listing(v, c) <=> /\ G[e].kind \in {"dir", "file"}
                                    /\ ~\E m \in 1 .. M : m < a + e /\ F[m].kind = "end"
    BY <1>5, <2>1
  <2> QED
    BY <2>2, <2>3, <2>4, <2>5
<1>9. Upto(v, c, a + DirEntries) = Upto(v, c, a) \cup {a + e : e \in Taken(G)}
  <2>1. ASSUME NEW k \in Listing(v, c), k <= a + DirEntries, ~(k <= a)
        PROVE  \E e \in Taken(G) : k = a + e
    <3>1. k \in 1 .. M
      BY <1>5
    <3>2. k - a \in 1 .. DirEntries /\ a + (k - a) = k
      BY <1>0, <1>1, <1>2, <2>1, <3>1
    <3>3. k - a \in Taken(G)
      BY <1>8, <3>2
    <3> QED
      BY <3>2, <3>3
  <2>2. ASSUME NEW e \in Taken(G)
        PROVE  a + e \in Listing(v, c) /\ a + e <= a + DirEntries
    <3>1. e \in 1 .. DirEntries
      BY <1>6
    <3> QED
      BY <1>0, <1>1, <1>8, <3>1
  <2>3. ASSUME NEW k \in Listing(v, c), k <= a
        PROVE  k <= a + DirEntries
    <3>1. k \in Int
      BY <1>2, <1>5
    <3> QED
      BY <1>0, <1>1, <2>3, <3>1
  <2> QED
    BY <2>1, <2>2, <2>3 DEF Upto
<1>10. ASSUME EndsHere(G) PROVE Listing(v, c) = Upto(v, c, a + DirEntries)
  <2>1. PICK e \in 1 .. DirEntries : G[e].kind = "end"
    BY <1>7, <1>10
  <2>2. a + e \in 1 .. M /\ F[a + e].kind = "end"
    BY <1>3, <2>1
  <2>3. ASSUME NEW k \in Listing(v, c) PROVE k <= a + DirEntries
    <3>1. k \in 1 .. M /\ ~(a + e < k)
      BY <1>5, <2>2
    <3> QED
      BY <1>0, <1>1, <1>2, <3>1
  <2> QED
    BY <2>3 DEF Upto
<1>11. ASSUME ~EndsHere(G), NEW k \in 1 .. (a + DirEntries) PROVE F[k].kind # "end"
  <2>1. CASE k <= a
    BY <1>1, <1>4, <2>1
  <2>2. CASE k > a
    <3>1. k - a \in 1 .. DirEntries /\ a + (k - a) = k
      BY <1>0, <1>1, <2>2
    <3>2. F[k] = G[k - a]
      BY <1>3, <3>1
    <3> QED
      BY <1>7, <1>11, <3>1, <3>2
  <2> QED
    BY <1>0, <1>1, <2>1, <2>2
<1> QED
  BY <1>1, <1>9, <1>10, <1>11 DEF a, F

(* So the place of an entry in the listing is that in its sector, behind   *)
(* the entries of the sectors before.                                      *)
LEMMA ListingPlace ==
  ASSUME NEW v, NEW c, Len(DirectorySectors(v, c)) \in Nat,
         NEW n \in 0 .. (Len(DirectorySectors(v, c)) - 1),
         NEW G, G = EntriesAt(v, DirectorySectors(v, c)[n + 1]), DOMAIN G = 1 .. DirEntries,
         \A k \in 1 .. (n * DirEntries) : Entries(v, c)[k].kind # "end"
  PROVE  /\ IsFiniteSet(Taken(G)) /\ Taken(G) \in SUBSET Int /\ Cardinality(Taken(G)) \in Nat
         /\ Cardinality(Upto(v, c, (n + 1) * DirEntries))
              = Cardinality(Upto(v, c, n * DirEntries)) + Cardinality(Taken(G))
         /\ \A e \in Taken(G) : Before(Listing(v, c), n * DirEntries + e)
              = Cardinality(Upto(v, c, n * DirEntries)) + Before(Taken(G), e)
<1> DEFINE a == n * DirEntries
           U == Upto(v, c, a)
           T == Taken(G)
           shift(S) == {a + e : e \in S}
<1>0. DirEntries \in Nat \ {0} /\ n \in Nat
  BY Constants
<1>1. a \in Nat /\ (n + 1) * DirEntries = a + DirEntries
  BY <1>0
<1>2. T \in SUBSET (1 .. DirEntries) /\ \A e \in T : e \in Int /\ e >= 1 /\ e <= DirEntries
  BY <1>0 DEF Taken
<1>3. IsFiniteSet(T)
  <2>1. 1 \in Int /\ DirEntries \in Int
    BY <1>0
  <2>2. IsFiniteSet(1 .. DirEntries)
    BY <2>1, FS_Interval
  <2> QED
    BY <1>2, <2>2, FS_Subset
<1>4. U \in SUBSET Nat /\ IsFiniteSet(U) /\ Cardinality(U) \in Nat /\ \A k \in U : k <= a
  BY ListingType DEF Upto
<1>5. Upto(v, c, (n + 1) * DirEntries) = U \cup shift(T)
  BY ListingStep
<1> HIDE DEF T, U, a
<1>6. ASSUME NEW S \in SUBSET T
      PROVE  /\ IsFiniteSet(S)
             /\ Cardinality(U \cup shift(S)) = Cardinality(U) + Cardinality(S)
  <2>1. IsFiniteSet(S) /\ S \in SUBSET Int
    BY <1>2, <1>3, FS_Subset
  <2>2. IsFiniteSet(shift(S)) /\ Cardinality(shift(S)) = Cardinality(S) /\ Cardinality(S) \in Nat
    <3>1. a \in Int
      BY <1>1
    <3>2. IsFiniteSet(shift(S)) /\ Cardinality(shift(S)) = Cardinality(S)
      BY <2>1, <3>1, Shifted
    <3> QED
      BY <2>1, <3>2, FS_CardinalityType
  <2>3. U \cap shift(S) = {}
    <3> SUFFICES ASSUME NEW e \in S, a + e \in U PROVE FALSE
      OBVIOUS
    <3>1. e \in Int /\ e >= 1
      BY <1>2
    <3>2. a + e <= a
      BY <1>4
    <3> QED
      BY <1>1, <3>1, <3>2
  <2> HIDE DEF shift
  <2>4. Cardinality(U \cup shift(S)) = Cardinality(U) + Cardinality(shift(S)) - Cardinality({})
    BY <1>4, <2>2, <2>3, FS_Union
  <2> QED
    BY <1>4, <2>1, <2>2, <2>4, FS_EmptySet
<1>7. Cardinality(U \cup shift(T)) = Cardinality(U) + Cardinality(T)
  BY <1>6
<1>8. ASSUME NEW e \in T
      PROVE  Before(Listing(v, c), a + e) = Cardinality(U) + Before(T, e)
  <2> DEFINE S == {i \in T : i < e}
  <2>1. e \in Int /\ e >= 1 /\ e <= DirEntries /\ a + e < a + DirEntries + 1
    BY <1>0, <1>1, <1>2
  <2>2. \A k \in Listing(v, c) : k \in Nat
    BY ListingType
  <2>3. {k \in Listing(v, c) : k < a + e} = {k \in Upto(v, c, a + DirEntries) : k < a + e}
    BY <1>0, <1>1, <2>1, <2>2 DEF Upto
  <2>4. {k \in U \cup shift(T) : k < a + e} = U \cup shift(S)
    <3>1. \A k \in U : k \in Nat /\ k < a + e
      BY <1>1, <1>4, <2>1
    <3>2. \A i \in T : a + i < a + e <=> i < e
      BY <1>1, <1>2, <2>1
    <3>3. \A i \in T : i \in S <=> i < e
      OBVIOUS
    <3>4. S \in SUBSET T
      OBVIOUS
    <3> HIDE DEF S
    <3> QED
      BY <3>1, <3>2, <3>3, <3>4
  <2>5. Before(Listing(v, c), a + e) = Cardinality(U \cup shift(S))
    BY <1>1, <1>5, <2>3, <2>4 DEF Before
  <2>6. Before(T, e) = Cardinality(S)
    BY DEF Before
  <2>7. S \in SUBSET T
    OBVIOUS
  <2> HIDE DEF S
  <2> QED
    BY <1>6, <2>5, <2>6, <2>7
<1>9. Cardinality(T) \in Nat /\ T \in SUBSET Int
  BY <1>2, <1>3, FS_CardinalityType
<1> QED
  BY <1>3, <1>5, <1>7, <1>8, <1>9 DEF T, U, a

(* Before the first sector nothing is listed; behind the last, all is.     *)
LEMMA ListingEnds ==
  ASSUME NEW v, NEW c, Len(DirectorySectors(v, c)) \in Nat
  PROVE  /\ Upto(v, c, 0 * DirEntries) = {} /\ Cardinality({}) = 0
         /\ Upto(v, c, Len(DirectorySectors(v, c)) * DirEntries) = Listing(v, c)
         /\ \A n \in Nat : \A k \in Upto(v, c, n * DirEntries) :
              Before(Listing(v, c), k) < Cardinality(Upto(v, c, n * DirEntries))
<1> DEFINE M == Len(DirectorySectors(v, c)) * DirEntries
<1>0. DirEntries \in Nat /\ 0 * DirEntries = 0
  BY Constants
<1>1. \A k \in Listing(v, c) : k \in 1 .. M
  BY ListingType
<1>2. M \in Nat
  BY <1>0
<1> HIDE DEF M
<1>3. Upto(v, c, M) = Listing(v, c)
  BY <1>1, <1>2 DEF Upto
<1>4. Upto(v, c, 0) = {}
  BY <1>1, <1>2 DEF Upto
<1>5. ASSUME NEW n \in Nat, NEW k \in Upto(v, c, n * DirEntries)
      PROVE  Before(Listing(v, c), k) < Cardinality(Upto(v, c, n * DirEntries))
  <2> DEFINE a == n * DirEntries
             U == Upto(v, c, a)
  <2>0. a \in Nat
    BY <1>0
  <2> HIDE DEF a
  <2>1. U \in SUBSET Nat /\ IsFiniteSet(U) /\ k \in U /\ k <= a /\ k \in Nat
    BY <1>5, ListingType DEF Upto, a
  <2>2. Listing(v, c) \in SUBSET Nat
    BY ListingType
  <2>3. {m \in Listing(v, c) : m < k} = {m \in U : m < k}
    BY <2>0, <2>1, <2>2 DEF Upto
  <2>4. Before(Listing(v, c), k) = Before(U, k)
    BY <2>3 DEF Before
  <2> HIDE DEF U
  <2>5. Before(U, k) < Cardinality(U)
    BY <2>1, BeforeType
  <2> QED
    BY <2>4, <2>5 DEF U, a
<1> QED
  BY <1>0, <1>3, <1>4, <1>5, FS_EmptySet DEF M

-----------------------------------------------------------------------------
(* The loader's view of the card, while the card is the one it began with. *)

CardInSlot == SoundCards /\ ~swapped /\ \E s \in Setups : vol = s[1] /\ width = s[2]

LEMMA Slot ==
  ASSUME CardInSlot
  PROVE  width \in {"full", "zero", "sign"} /\ SoundCard(card, width)
<1>1. PICK s \in Setups : vol = s[1] /\ width = s[2]
  BY DEF CardInSlot
<1>2. width \in {"full", "zero", "sign"}
  BY <1>1, FatAssumption DEF FatAssumption
<1>3. SoundCard(Cards[s[1]], s[2])
  BY DEF CardInSlot, SoundCards
<1> QED
  BY <1>1, <1>2, <1>3 DEF card

LEMMA SlotSame ==
  ASSUME CardInSlot, vol' = vol, width' = width, swapped' = swapped
  PROVE  CardInSlot' /\ card' = card
BY DEF CardInSlot, card

LEMMA MountedCard ==
  ASSUME CardInSlot, Mounted
  PROVE  /\ Geometry(card, width) /\ SoundDirectory(card, width, RootOf(card))
         /\ \A s \in DOMAIN card.dirs :
              /\ DOMAIN card.dirs[s] = 1 .. DirEntries
              /\ \A i \in 1 .. DirEntries : SoundEntry(card, width, card.dirs[s][i])
BY Slot DEF Mounted, SoundCard

(* load_dword and fat_next_cluster, for the build's width.                 *)
LEMMA LoadsDword ==
  ASSUME CardInSlot, NEW x
  PROVE  load_dword(x) = Read32(width, x)
BY Slot DEF load_dword, Read32

(* fat_t after a successful mount.                                         *)
LEMMA Mounts ==
  ASSUME CardInSlot, Shapes, fat_init(TRUE), vol' = vol, width' = width
  PROVE  Mounted'
<1> DEFINE start == load_dword(card.start)
           typed == [fat EXCEPT !.fat32 = (card.type = 11)]
           based == [typed EXCEPT !.spc = card.spc,
                                  !.firstFat = (start + load_word(card.reserved)) % Dword]
<1>1. PICK mbr \in BOOLEAN, boot \in BOOLEAN :
        /\ fat' = CASE mbr /\ (card.mbrsig /\ card.type \in {6, 11}) /\ boot
                       /\ (start = card.start /\ card.bootsig /\ card.bytes = 512) ->
                            IF typed.fat32 THEN fat_init32(based) ELSE fat_init16(based)
                    [] mbr /\ (card.mbrsig /\ card.type \in {6, 11})
                       /\ ~(boot /\ (start = card.start /\ card.bootsig /\ card.bytes = 512)) -> typed
                    [] OTHER -> fat
        /\ TRUE = (mbr /\ (card.mbrsig /\ card.type \in {6, 11}) /\ boot
                   /\ (start = card.start /\ card.bootsig /\ card.bytes = 512))
  BY DEF fat_init
<1>2. /\ mbr /\ boot /\ card.mbrsig /\ card.type \in {6, 11}
      /\ start = card.start /\ card.bootsig /\ card.bytes = 512
  BY <1>1, Zenon
<1>3. fat' = IF typed.fat32 THEN fat_init32(based) ELSE fat_init16(based)
  BY <1>1, <1>2
<1>4. Mountable(card, width)
  BY <1>2, LoadsDword DEF Mountable
<1>5. Geometry(card, width)
  BY <1>4, Slot DEF SoundCard
<1>6. DOMAIN fat = {"fat32", "spc", "firstFat", "firstData", "current", "root", "rootSize"}
  BY DEF Shapes
<1>7. /\ card.start \in Nat /\ card.reserved \in 0 .. (Word - 1) /\ card.nfats \in Nat
      /\ card.fatSize \in Nat /\ card.rootEntries \in 0 .. (Word - 1) /\ card.root \in Nat
      /\ card.fat32 = (card.type = 11)
      /\ IF card.fat32 THEN Read32(width, card.fatSize) = card.fatSize /\ Read32(width, card.root) = card.root
         ELSE card.fatSize \in 0 .. (Word - 1) /\ card.rootEntries \div DirEntries \in 1 .. 255
  BY <1>5, Constants DEF Geometry
<1>8. load_word(card.reserved) = card.reserved /\ load_word(card.rootEntries) = card.rootEntries
      /\ (~card.fat32 => load_word(card.fatSize) = card.fatSize)
  <2>1. \A x \in 0 .. (Word - 1) : load_word(x) = x
    BY Constants, Small DEF load_word
  <2> QED
    BY <1>7, <2>1
<1>9. /\ FirstFat(card) \in 0 .. (Dword - 1) /\ DataStart(card) \in 0 .. (Dword - 1)
      /\ FatSectors(card) \in Nat /\ FirstFat(card) + FatSectors(card) <= DataStart(card)
      /\ DataStart(card) = FirstFat(card) + FatSectors(card)
             + (IF card.fat32 THEN 0 ELSE card.rootEntries \div DirEntries)
  <2>1. /\ FirstFat(card) \in Nat /\ FatSectors(card) \in Nat /\ DataStart(card) \in Nat
        /\ FirstFat(card) + card.fatSize <= DataStart(card) /\ DataStart(card) <= card.size
        /\ card.size < Dword /\ card.size \in Nat /\ card.rootEntries \div DirEntries \in Nat
    BY <1>5, GeometryFacts
  <2>2. DataStart(card) = FirstFat(card) + FatSectors(card)
             + (IF card.fat32 THEN 0 ELSE card.rootEntries \div DirEntries)
    BY DEF DataStart
  <2> QED
    BY <1>7, <2>1, <2>2, Constants
<1>10. based.firstFat = FirstFat(card) /\ based.spc = card.spc /\ based.fat32 = card.fat32
       /\ DOMAIN based = DOMAIN fat
  <2>1. (start + load_word(card.reserved)) % Dword = FirstFat(card)
    BY <1>2, <1>8, <1>9, Constants, Small DEF FirstFat
  <2> QED
    BY <1>6, <1>7, <2>1
<1>11. typed.fat32 = card.fat32
  BY <1>6, <1>7
<1> HIDE DEF based, typed, start
<1>12. CASE card.fat32
  <2>1. load_dword(card.fatSize) = card.fatSize /\ load_dword(card.root) = card.root
    BY <1>7, <1>12, LoadsDword
  <2>2. fat' = [based EXCEPT !.firstData = (based.firstFat + card.nfats * card.fatSize) % Dword,
                             !.root = card.root]
    BY <1>3, <1>11, <1>12, <2>1 DEF fat_init32
  <2>3. (based.firstFat + card.nfats * card.fatSize) % Dword = DataStart(card)
    <3>1. DataStart(card) = FirstFat(card) + card.nfats * card.fatSize
      BY <1>9, <1>12 DEF FatSectors
    <3> QED
      BY <1>9, <1>10, <3>1, Constants, Small
  <2>4. fat'.firstData = DataStart(card) /\ fat'.root = card.root /\ fat'.spc = card.spc
        /\ fat'.fat32 = card.fat32 /\ fat'.firstFat = FirstFat(card)
    BY <1>6, <1>10, <2>2, <2>3
  <2> QED
    BY <1>4, <1>12, <2>4 DEF Mounted, card
<1>13. CASE ~card.fat32
  <2> DEFINE root == (based.firstFat + card.nfats * load_word(card.fatSize)) % Dword
             rsize == load_word(card.rootEntries) \div DirEntries
  <2>1. fat' = [based EXCEPT !.root = root, !.rootSize = rsize, !.firstData = (root + rsize) % Dword]
    BY <1>3, <1>11, <1>13 DEF fat_init16
  <2>2. root = FirstFat(card) + FatSectors(card)
    <3>1. card.nfats * load_word(card.fatSize) = FatSectors(card)
      BY <1>8, <1>13 DEF FatSectors
    <3>2. FirstFat(card) + FatSectors(card) \in 0 .. (Dword - 1)
      BY <1>9, Constants
    <3> QED
      BY <1>10, <3>1, <3>2, Constants, Small
  <2>3. rsize = card.rootEntries \div DirEntries
    BY <1>8
  <2>4. (root + rsize) % Dword = DataStart(card)
    BY <1>9, <1>13, <2>2, <2>3, Constants, Small
  <2> HIDE DEF root, rsize
  <2>5. fat'.firstData = DataStart(card) /\ fat'.root = root /\ fat'.rootSize = rsize
        /\ fat'.spc = card.spc /\ fat'.fat32 = card.fat32 /\ fat'.firstFat = FirstFat(card)
    BY <1>6, <1>10, <2>1, <2>4
  <2> QED
    BY <1>4, <1>13, <2>2, <2>3, <2>5 DEF Mounted, card
<1> QED
  BY <1>7, <1>12, <1>13

(* fat_t keeps what the mount has found.                                   *)
FatKept ==
  /\ DOMAIN fat' = DOMAIN fat
  /\ fat'.fat32 = fat.fat32 /\ fat'.spc = fat.spc /\ fat'.firstFat = fat.firstFat
  /\ fat'.firstData = fat.firstData /\ fat'.root = fat.root /\ fat'.rootSize = fat.rootSize

LEMMA LookupKeeps ==
  ASSUME Shapes, NEW s, NEW ok, load_fat_sector(s, ok) \/ UNCHANGED <<fat, fatBuf>>
  PROVE  FatKept
BY DEF Shapes, load_fat_sector, FatKept

LEMMA MountedKept ==
  ASSUME Mounted, FatKept, vol' = vol, width' = width
  PROVE  Mounted'
BY DEF Mounted, FatKept, card

(* The cell of a sound cluster is found, whatever the cache held.          *)
LEMMA Lookup ==
  ASSUME CardInSlot, Mounted, CacheInv, NEW c, SoundCluster(card, width, c),
         load_fat_sector(c \div FatEntries, TRUE)
  PROVE  fat_next_cluster(c, TRUE) = ReadCell(card, width, card.chain[c])
<1> DEFINE P == PerSector(card)
           q == c \div P
           r == c % P
           s == q + FirstFat(card)
<1>1. Geometry(card, width)
  BY MountedCard
<1>2. /\ P \in Nat \ {0} /\ card.fatSize \in Nat /\ card.size \in Nat /\ DataStart(card) \in Nat
      /\ FirstFat(card) \in Nat \ {0} /\ FirstFat(card) + card.fatSize <= DataStart(card)
      /\ DataStart(card) <= card.size /\ card.size <= SectorSpace /\ card.size < Dword
      /\ card.fat32 \in BOOLEAN
  BY <1>1, GeometryFacts
<1>3. c \in Nat /\ c < card.fatSize * P /\ c \in DOMAIN card.chain
  BY DEF SoundCluster
<1>4. FatEntries = P /\ fat.firstFat = FirstFat(card)
  BY DEF FatEntries, PerSector, Mounted
<1>5. q \in Nat /\ r \in 0 .. (P - 1) /\ c = q * P + r
  BY <1>2, <1>3, Division
<1>6. fat_next_cluster(c, TRUE) = (IF fat.fat32 THEN load_dword(CellInBuffer(fatBuf', r))
                                                ELSE load_word(CellInBuffer(fatBuf', r)))
  BY <1>4 DEF fat_next_cluster
<1>7. load_fat_sector(q, TRUE)
  BY <1>4
<1> HIDE DEF P, q, r
<1>8. q < card.fatSize
  <2> SUFFICES ASSUME card.fatSize <= q PROVE FALSE
    BY <1>2, <1>5
  <2>1. card.fatSize * P <= q * P
    BY <1>2, <1>5, TimesLeq
  <2>2. q * P \in Nat /\ card.fatSize * P \in Nat
    BY <1>2, <1>5
  <2> QED
    BY <1>3, <1>5, <2>1, <2>2
<1>9. s \in 0 .. (Dword - 1) /\ s \in 0 .. (SectorSpace - 1) /\ s # 0
      /\ s >= FirstFat(card) /\ s < FirstFat(card) + card.fatSize
  BY <1>2, <1>5, <1>8, Constants
<1>10. s % Dword = s /\ s % SectorSpace = s
  BY <1>9, Constants, Small
<1>11. fatBuf' = <<vol, s>>
  <2>1. (q + fat.firstFat) % Dword = s
    BY <1>4, <1>10
  <2>2. Place(s) = <<vol, s>>
    BY <1>10 DEF Place, Wrap
  <2>3. CASE fat.current = s
    <3>1. fatBuf' = fatBuf
      BY <1>7, <2>1, <2>3 DEF load_fat_sector
    <3>2. fatBuf = Place(s)
      BY <1>9, <2>3 DEF CacheInv, CacheTrue, CardInSlot
    <3> QED
      BY <2>2, <3>1, <3>2
  <2>4. CASE fat.current # s
    <3>1. fatBuf' = Place(s)
      BY <1>7, <2>1, <2>4 DEF load_fat_sector
    <3> QED
      BY <2>2, <3>1
  <2> QED
    BY <2>3, <2>4
<1>12. CellInBuffer(fatBuf', r) = Cell(card, s, r)
  <2>1. <<vol, s>> # <<>> /\ <<vol, s>>[1] = vol /\ <<vol, s>>[2] = s
    OBVIOUS
  <2> QED
    BY <1>11, <2>1 DEF CellInBuffer, Nowhere, card
<1>13. Cell(card, s, r) = card.chain[c]
  <2>1. (s - FirstFat(card)) * PerSector(card) + r = c
    <3>1. s - FirstFat(card) = q
      BY <1>2, <1>5
    <3> QED
      BY <1>5, <3>1 DEF P
  <2> QED
    BY <1>3, <1>9, <2>1 DEF Cell
<1>14. fat.fat32 = card.fat32
  BY DEF Mounted
<1> QED
  BY <1>6, <1>12, <1>13, <1>14, LoadsDword DEF ReadCell, load_word

(* A mark is taken for one, and nothing else is.                           *)
LEMMA LookupValue ==
  ASSUME CardInSlot, Mounted, NEW c, SoundCluster(card, width, c),
         NEW next, next = ReadCell(card, width, card.chain[c])
  PROVE  /\ Marks(card, card.chain[c]) => fat_is_last_cluster(next)
         /\ ~Marks(card, card.chain[c]) => next = card.chain[c] /\ ~fat_is_last_cluster(next)
<1>1. fat.fat32 = card.fat32 /\ card.fat32 \in BOOLEAN
  <2>1. Geometry(card, width)
    BY MountedCard
  <2> QED
    BY <2>1, GeometryFacts DEF Mounted
<1>2. fat_is_last_cluster(next) <=> TakenForLast(card, next)
  BY <1>1 DEF fat_is_last_cluster, TakenForLast
<1>3. CASE Marks(card, card.chain[c])
  BY <1>2, <1>3 DEF SoundCluster
<1>4. CASE ~Marks(card, card.chain[c])
  <2>1. next = card.chain[c] /\ card.chain[c] \in Nat
    BY <1>4 DEF SoundCluster
  <2>2. ~TakenForLast(card, card.chain[c])
    <3>1. CASE card.fat32
      <4>1. card.chain[c] < (Dword \div 16) - 8
        BY <1>4, <2>1, <3>1, Constants DEF Marks
      <4>2. Dword \div 16 \in Int /\ Dword \div 16 <= Dword
        BY Constants
      <4> QED
        BY <2>1, <3>1, <4>1, <4>2, Constants DEF TakenForLast
    <3>2. CASE ~card.fat32
      <4>1. card.chain[c] < Word - 8
        BY <1>4, <2>1, <3>2, Constants DEF Marks
      <4>2. card.chain[c] % Word = card.chain[c]
        BY <2>1, <4>1, Constants, Small
      <4> QED
        BY <2>1, <3>2, <4>1, <4>2, Constants DEF TakenForLast
    <3> QED
      BY <1>1, <3>1, <3>2
  <2> QED
    BY <1>2, <1>4, <2>1, <2>2
<1> QED
  BY <1>3, <1>4

(* first_sector_of_cluster of a cluster of the volume, and of the next.    *)
LEMMA FirstSector ==
  ASSUME CardInSlot, Mounted, NEW c, SoundCluster(card, width, c)
  PROVE  /\ first_sector_of_cluster(c) = Base(card, c)
         /\ first_sector_of_cluster((c + 1) % Dword) = Base(card, c) + card.spc
<1>1. Geometry(card, width)
  BY MountedCard
<1>2. /\ card.spc \in Nat \ {0} /\ card.size \in Nat /\ card.size < Dword
  BY <1>1, GeometryFacts
<1>3. /\ Base(card, c) \in Nat /\ Base(card, c) + card.spc <= card.size
      /\ Base(card, c + 1) = Base(card, c) + card.spc
  BY <1>1, ClusterPlace
<1>4. c \in Nat /\ c + 1 < Dword
  BY DEF SoundCluster
<1>5. (c + 1) % Dword = c + 1
  BY <1>4, Constants, Small
<1>6. \A x : first_sector_of_cluster(x) = Base(card, x) % Dword
  BY DEF first_sector_of_cluster, Base, Mounted
<1>7. Base(card, c) \in 0 .. (Dword - 1) /\ Base(card, c + 1) \in 0 .. (Dword - 1)
  BY <1>2, <1>3, Constants
<1>8. Base(card, c) % Dword = Base(card, c)
  BY <1>7, Constants, Small
<1>9. Base(card, c + 1) % Dword = Base(card, c + 1)
  BY <1>7, Constants, Small
<1> QED
  BY <1>3, <1>5, <1>6, <1>8, <1>9

-----------------------------------------------------------------------------
(* Directories                                                             *)

(* Opening a directory, the root directory of FAT16 included, leads to its *)
(* first sector.                                                           *)
LEMMA OpenDirectory ==
  ASSUME CardInSlot, Mounted, NEW c, SoundDirectory(card, width, c),
         fat_open_directory(c), opened' = c
  PROVE  Walking'
<1> DEFINE D == DirectorySectors(card, c)
           R == card.rootEntries \div DirEntries
<1>1. Geometry(card, width)
  BY MountedCard
<1>2. Len(D) \in Nat \ {0}
  BY <1>1, DirectoryPlace
<1>3. vol' = vol /\ width' = width
  BY DEF fat_open_directory, open_root16
<1>4. card' = card
  BY <1>3 DEF card
<1>5. walk'.ptr = 0
  BY DEF fat_open_directory, open_root16
<1>6. Listed(0)'
  <2>1. 0 * DirEntries = 0
    BY Constants
  <2>2. Upto(card, c, 0 * DirEntries) = {} /\ Cardinality({}) = 0
    BY <1>2, ListingEnds
  <2> QED
    BY <1>4, <1>5, <2>1, <2>2 DEF Listed
<1>7. fat.fat32 = card.fat32 /\ card.fat32 \in BOOLEAN
  BY <1>1, GeometryFacts DEF Mounted
<1>8. AtSector(0)'
  <2>1. CASE InRoot16(card, c)
    <3>1. walk' = [chain |-> FALSE, cluster |-> 0, sector |-> fat.root,
                   i |-> fat.rootSize % 256, ptr |-> 0]
      BY <1>7, <2>1 DEF fat_open_directory, open_root16, InRoot16
    <3>2. fat.root = FirstFat(card) + FatSectors(card) /\ fat.rootSize = R
      BY <1>7, <2>1 DEF Mounted, InRoot16
    <3>3. R \in 1 .. 255
      BY <1>1, <2>1 DEF Geometry, InRoot16
    <3>4. Len(D) = R /\ D[1] = FirstFat(card) + FatSectors(card) + 1 - 1
      BY <1>1, <1>2, <2>1, DirectoryPlace
    <3>5. FirstFat(card) \in Nat /\ FatSectors(card) \in Nat
      BY <1>1, GeometryFacts
    <3> HIDE DEF R
    <3>6. fat.rootSize % 256 = R - 0
      BY <3>2, <3>3
    <3>7. fat.root = D[0 + 1]
      BY <3>2, <3>4, <3>5
    <3> QED
      BY <1>2, <1>4, <2>1, <3>1, <3>6, <3>7 DEF AtSector, R
  <2>2. CASE ~InRoot16(card, c)
    <3>1. walk' = [chain |-> TRUE, cluster |-> c, sector |-> first_sector_of_cluster(c),
                   i |-> DirSectors, ptr |-> 0]
      BY <1>7, <2>2 DEF fat_open_directory, InRoot16
    <3>2. SoundChain(card, width, c) /\ card.spc = DirSectors /\ D = SectorsOf(card, c)
      BY <1>1, <2>2, DirectoryPlace
    <3>3. IsFiniteSet(DOMAIN card.chain)
      BY <1>1 DEF Geometry
    <3>4. Len(Chain(card, c)) \in Nat \ {0} /\ Chain(card, c)[1] = c
      BY <3>2, <3>3, ChainFacts
    <3>5. SoundCluster(card, width, c)
      BY <3>2, <3>3, <3>4, ChainFacts
    <3>6. first_sector_of_cluster(c) = Base(card, c) /\ Base(card, c) \in Nat
      BY <1>1, <3>5, FirstSector, ClusterPlace
    <3>7. 0 \in 0 .. (DirSectors - 1) /\ 1 \in 1 .. Len(Chain(card, c)) /\ 0 = (1 - 1) * DirSectors + 0
          /\ (1 - 1) * DirSectors + 0 + 1 = 1 /\ DirSectors - 0 = DirSectors
      BY <3>4, Constants
    <3>8. D[1] = Base(card, c) + 0
      BY <1>1, <3>2, <3>4, <3>7, SectorPlace
    <3>9. walk'.sector = D[0 + 1] /\ walk'.chain /\ walk'.cluster = Chain(card, c)[1]
          /\ walk'.i = DirSectors - 0
      BY <3>1, <3>4, <3>6, <3>7, <3>8
    <3> QED
      BY <1>2, <1>4, <2>2, <3>7, <3>9 DEF AtSector
  <2> QED
    BY <2>1, <2>2
<1>9. 0 \in 0 .. Len(D)
  BY <1>2
<1> QED
  BY <1>3, <1>4, <1>6, <1>8, <1>9 DEF Walking

(* What a sector of a directory can hold.                                  *)
LEMMA SectorEntries ==
  ASSUME CardInSlot, Mounted, NEW s
  PROVE  /\ DOMAIN EntriesAt(card, s) = 1 .. DirEntries
         /\ \A e \in Taken(EntriesAt(card, s)) :
              /\ EntriesAt(card, s)[e].kind \in {"dir", "file"}
              /\ SoundEntry(card, width, EntriesAt(card, s)[e])
<1>1. CASE s \in DOMAIN card.dirs
  <2>1. EntriesAt(card, s) = card.dirs[s]
    BY <1>1 DEF EntriesAt
  <2> QED
    BY <1>1, <2>1, MountedCard DEF Taken
<1>2. CASE s \notin DOMAIN card.dirs
  <2>1. EntriesAt(card, s) = [i \in 1 .. DirEntries |-> EndEntry]
    BY <1>2 DEF EntriesAt
  <2>2. \A i \in 1 .. DirEntries : EntriesAt(card, s)[i].kind = "end"
    BY <2>1 DEF EndEntry
  <2> QED
    BY <2>1, <2>2 DEF Taken
<1> QED
  BY <1>1, <1>2

(* What fat_process_directory_entry makes of an entry of the card.         *)
LEMMA Described ==
  ASSUME CardInSlot, Mounted, NEW e, e.kind \in {"dir", "file"}, SoundEntry(card, width, e)
  PROVE  Descr(e) = [type |-> IF e.kind = "dir" THEN 1 ELSE 17, cluster |-> e.cluster]
<1>1. fat.fat32 = card.fat32
  BY DEF Mounted
<1>2. e.cluster \in Nat /\ e.cluster < (IF card.fat32 THEN Dword ELSE Word)
  BY DEF SoundEntry
<1>3. CASE card.fat32
  <2>1. e.cluster % Dword = e.cluster
    BY <1>2, <1>3, Constants, Small
  <2> QED
    BY <1>1, <1>3, <2>1 DEF Descr
<1>4. CASE ~card.fat32
  <2>1. e.cluster % Word = e.cluster
    BY <1>2, <1>4, Constants, Small
  <2> QED
    BY <1>1, <1>4, <2>1 DEF Descr, load_word
<1> QED
  BY <1>3, <1>4

(* process_directory_sector keeps the entries of the sectors before and    *)
(* puts those of the sector behind them.                                   *)
LEMMA StoredStep ==
  ASSUME CardInSlot, Shapes, Mounted, SoundDirectory(card, width, opened),
         NEW n \in 0 .. (Len(DirectorySectors(card, opened)) - 1), Listed(n),
         NEW G, G = EntriesAt(card, DirectorySectors(card, opened)[n + 1])
  PROVE  /\ NextPtr(walk.ptr, G) = Cardinality(Upto(card, opened, (n + 1) * DirEntries))
         /\ DOMAIN Stored(dir, walk.ptr, G) = 0 .. (DirRoom - 1)
         /\ \A j \in 0 .. (DirRoom - 1) : DOMAIN Stored(dir, walk.ptr, G)[j] = {"type", "cluster"}
         /\ \A k \in Upto(card, opened, (n + 1) * DirEntries) :
              Stored(dir, walk.ptr, G)[Before(Listing(card, opened), k)] = Description(card, opened, k)
<1> DEFINE a == n * DirEntries
           S == Listing(card, opened)
           U == Upto(card, opened, a)
           T == Taken(G)
           d == Stored(dir, walk.ptr, G)
           here(j) == {e \in T : walk.ptr + Before(T, e) = j}
<1>0. Geometry(card, width)
  BY MountedCard
<1>1. Len(DirectorySectors(card, opened)) \in Nat
  BY <1>0, DirectoryPlace
<1>2. DOMAIN G = 1 .. DirEntries
      /\ \A e \in T : G[e].kind \in {"dir", "file"} /\ SoundEntry(card, width, G[e])
  BY SectorEntries
<1>3. walk.ptr = Cardinality(U) /\ Cardinality(U) \in Nat
  BY <1>1, ListingType DEF Listed
<1>4. \A k \in 1 .. a : Entries(card, opened)[k].kind # "end"
  BY DEF Listed
<1>5. /\ IsFiniteSet(T) /\ T \in SUBSET Int /\ Cardinality(T) \in Nat
      /\ Cardinality(Upto(card, opened, (n + 1) * DirEntries)) = Cardinality(U) + Cardinality(T)
      /\ \A e \in T : Before(S, a + e) = Cardinality(U) + Before(T, e)
  BY <1>1, <1>2, <1>4, ListingPlace
<1>6. NextPtr(walk.ptr, G) = Cardinality(Upto(card, opened, (n + 1) * DirEntries))
  BY <1>3, <1>5 DEF NextPtr
<1>7. \A j \in 0 .. (DirRoom - 1) : DOMAIN dir[j] = {"type", "cluster"}
  BY DEF Shapes
<1>8. d = [j \in 0 .. (DirRoom - 1) |->
             IF here(j) = {} THEN dir[j] ELSE Descr(G[CHOOSE e \in here(j) : TRUE])]
  BY DEF Stored, Shapes
<1>9. \A e : DOMAIN Descr(e) = {"type", "cluster"}
  BY DEF Descr
<1>10. DOMAIN d = 0 .. (DirRoom - 1) /\ \A j \in 0 .. (DirRoom - 1) : DOMAIN d[j] = {"type", "cluster"}
  <2> HIDE DEF here, d
  <2> QED
    BY <1>7, <1>8, <1>9
<1>11. \A k \in S : Before(S, k) \in 0 .. (DirRoom - 1)
  <2>1. S \in SUBSET Nat /\ IsFiniteSet(S) /\ Cardinality(S) \in Nat
    BY <1>1, ListingType
  <2>2. Cardinality(S) <= DirMax
    BY Constants DEF SoundDirectory
  <2>3. \A k \in S : Before(S, k) \in Nat /\ Before(S, k) < Cardinality(S)
    BY <2>1, BeforeType
  <2> QED
    BY <2>1, <2>2, <2>3, Constants
<1>12. ASSUME NEW k \in U PROVE d[Before(S, k)] = Description(card, opened, k)
  <2> DEFINE j == Before(S, k)
  <2>1. j < walk.ptr /\ j \in 0 .. (DirRoom - 1)
    BY <1>1, <1>3, <1>11, ListingEnds DEF Upto
  <2>2. \A e \in T : Before(T, e) \in Nat
    BY <1>5, BeforeType
  <2> HIDE DEF j, T
  <2>3. \A e \in T : walk.ptr + Before(T, e) # j
    BY <1>3, <2>1, <2>2
  <2>4. here(j) = {}
    BY <2>3
  <2>5. d[j] = dir[j]
    BY <1>8, <2>1, <2>4
  <2>6. dir[j] = Description(card, opened, k)
    BY <1>12 DEF Listed, j
  <2> QED
    BY <2>5, <2>6 DEF j
<1>13. ASSUME NEW e \in T PROVE d[Before(S, a + e)] = Description(card, opened, a + e)
  <2> DEFINE j == Before(S, a + e)
  <2>1. Upto(card, opened, (n + 1) * DirEntries) = U \cup {a + x : x \in T}
    BY <1>1, <1>2, <1>4, ListingStep
  <2>2. a + e \in S
    BY <2>1 DEF Upto
  <2>3. j = walk.ptr + Before(T, e) /\ j \in 0 .. (DirRoom - 1)
    BY <1>3, <1>5, <1>11, <2>2
  <2>4. \A x \in T : Before(T, x) \in Nat
    BY <1>5, BeforeType
  <2>5. \A x \in T : Before(T, x) = Before(T, e) => x = e
    BY <1>5, BeforeDiffers
  <2> HIDE DEF j, T
  <2>6. \A x \in T : walk.ptr + Before(T, x) = j => x = e
    BY <1>3, <2>3, <2>4, <2>5
  <2>7. here(j) = {e}
    BY <2>3, <2>6
  <2>8. (CHOOSE x \in here(j) : TRUE) = e
    BY <2>7
  <2>9. d[j] = Descr(G[e])
    <3> HIDE DEF here
    <3>1. here(j) # {}
      BY <2>7
    <3> QED
      BY <1>8, <2>3, <2>8, <3>1
  <2>10. Descr(G[e]) = [type |-> IF G[e].kind = "dir" THEN 1 ELSE 17, cluster |-> G[e].cluster]
    BY <1>2, Described
  <2>11. Entries(card, opened)[a + e] = G[e]
    <3>1. e \in 1 .. DirEntries
      BY <1>2 DEF T, Taken
    <3> QED
      BY <1>1, <3>1, EntryPlace
  <2> QED
    BY <2>9, <2>10, <2>11 DEF Description, j
<1>14. ASSUME NEW k \in Upto(card, opened, (n + 1) * DirEntries)
       PROVE  d[Before(S, k)] = Description(card, opened, k)
  <2>1. k \in U \/ \E e \in T : k = a + e
    BY <1>1, <1>2, <1>4, ListingStep
  <2> HIDE DEF d, S, U, T, a
  <2> QED
    BY <1>12, <1>13, <2>1
<1> QED
  BY <1>6, <1>10, <1>14

(* The mark behind the last entry touches none of them.                    *)
LEMMA MarkedEnd ==
  ASSUME CardInSlot, Mounted, SoundDirectory(card, width, opened),
         NEW d, DOMAIN d = 0 .. (DirRoom - 1),
         \A j \in 0 .. (DirRoom - 1) : DOMAIN d[j] = {"type", "cluster"},
         \A k \in Listing(card, opened) :
           d[Before(Listing(card, opened), k)] = Description(card, opened, k),
         NEW e, e = MarkEnd(d, Cardinality(Listing(card, opened)))
  PROVE  /\ DOMAIN e = 0 .. (DirRoom - 1)
         /\ \A j \in 0 .. (DirRoom - 1) : DOMAIN e[j] = {"type", "cluster"}
         /\ e[Cardinality(Listing(card, opened))].type = 0
         /\ \A k \in Listing(card, opened) :
              e[Before(Listing(card, opened), k)] = Description(card, opened, k)
<1> DEFINE S == Listing(card, opened)
           n == Cardinality(S)
<1>1. Geometry(card, width)
  BY MountedCard
<1>2. S \in SUBSET Nat /\ IsFiniteSet(S) /\ n \in Nat
  BY <1>1, DirectoryPlace, ListingType
<1>3. n <= DirMax
  BY Constants DEF SoundDirectory
<1>4. n \in 0 .. (DirRoom - 1)
  BY <1>2, <1>3, Constants
<1>5. e = [d EXCEPT ![n].type = 0]
  BY DEF MarkEnd
<1>6. \A k \in S : Before(S, k) \in Nat /\ Before(S, k) < n
  BY <1>2, BeforeType
<1>7. DOMAIN d[n] = {"type", "cluster"}
  BY <1>4
<1> HIDE DEF S, n
<1>8. DOMAIN e = 0 .. (DirRoom - 1)
  BY <1>5
<1>9. e[n] = [d[n] EXCEPT !.type = 0]
  BY <1>4, <1>5
<1>10. e[n].type = 0 /\ DOMAIN e[n] = {"type", "cluster"}
  BY <1>7, <1>9
<1>11. \A j \in 0 .. (DirRoom - 1) : j # n => e[j] = d[j]
  BY <1>5
<1>12. \A j \in 0 .. (DirRoom - 1) : DOMAIN e[j] = {"type", "cluster"}
  BY <1>10, <1>11
<1>13. ASSUME NEW k \in S PROVE e[Before(S, k)] = Description(card, opened, k)
  <2>1. Before(S, k) \in 0 .. (DirRoom - 1) /\ Before(S, k) # n
    BY <1>2, <1>4, <1>6, Constants
  <2>2. d[Before(S, k)] = Description(card, opened, k)
    BY DEF S
  <2> QED
    BY <1>11, <2>1, <2>2
<1> QED
  BY <1>8, <1>10, <1>12, <1>13 DEF S, n

(* The sector behind a sector that is not the last of its cluster, or of   *)
(* the root directory of FAT16.                                            *)
LEMMA NextInGroup ==
  ASSUME CardInSlot, Shapes, Mounted, SoundDirectory(card, width, opened),
         NEW n \in 0 .. (Len(DirectorySectors(card, opened)) - 1), AtSector(n), walk.i # 1,
         vol' = vol, width' = width, opened' = opened,
         NEW ptr, walk' = [walk EXCEPT !.sector = (@ + 1) % Dword, !.i = @ - 1, !.ptr = ptr]
  PROVE  AtSector(n + 1)'
<1> DEFINE D == DirectorySectors(card, opened)
           R == card.rootEntries \div DirEntries
<1>1. Geometry(card, width)
  BY MountedCard
<1>2. /\ Len(D) \in Nat \ {0} /\ DOMAIN D = 1 .. Len(D)
      /\ \A k \in 1 .. Len(D) : D[k] \in Nat /\ D[k] < card.size
  BY <1>1, DirectoryPlace
<1>3. card' = card
  BY DEF card
<1>4. n < Len(D) /\ walk.sector = D[n + 1] /\ n \in Nat
  BY DEF AtSector
<1>5. /\ walk'.chain = walk.chain /\ walk'.cluster = walk.cluster
      /\ walk'.sector = (walk.sector + 1) % Dword /\ walk'.i = walk.i - 1
  BY DEF Shapes
<1>6. walk'.sector = D[n + 1] + 1
  <2>1. card.size \in Nat /\ card.size < Dword
    BY <1>1, GeometryFacts
  <2>2. D[n + 1] \in Nat /\ D[n + 1] < card.size
    BY <1>2, <1>4
  <2> DEFINE q == D[n + 1]
  <2> HIDE DEF q
  <2>3. q + 1 \in 0 .. (Dword - 1)
    <3>1. q \in Nat /\ q < card.size
      BY <2>2 DEF q
    <3>2. Dword \in Nat
      BY Constants
    <3> QED
      BY <2>1, <3>1, <3>2
  <2>4. (q + 1) % Dword = q + 1
    BY <2>3, SmallDword
  <2> QED
    BY <1>4, <1>5, <2>4 DEF q
<1>7. CASE InRoot16(card, opened)
  <2>1. ~walk.chain /\ walk.i = R - n
    BY <1>7 DEF AtSector
  <2>2. Len(D) = R /\ \A k \in 1 .. Len(D) : D[k] = FirstFat(card) + FatSectors(card) + k - 1
    BY <1>1, <1>7, DirectoryPlace
  <2>3. FirstFat(card) \in Nat /\ FatSectors(card) \in Nat
    BY <1>1, GeometryFacts
  <2> HIDE DEF R
  <2>4. n + 1 < Len(D) /\ walk.i - 1 = R - (n + 1)
    BY <1>2, <1>4, <2>1, <2>2
  <2>5. D[(n + 1) + 1] = D[n + 1] + 1
    BY <1>2, <1>4, <2>2, <2>3, <2>4
  <2> QED
    BY <1>3, <1>5, <1>6, <1>7, <2>1, <2>4, <2>5 DEF AtSector, R
<1>8. CASE ~InRoot16(card, opened)
  <2>1. PICK j \in 1 .. Len(Chain(card, opened)), m \in 0 .. (DirSectors - 1) :
          /\ n = (j - 1) * DirSectors + m
          /\ walk.cluster = Chain(card, opened)[j] /\ walk.i = DirSectors - m
    BY <1>8 DEF AtSector
  <2>2. walk.chain
    BY <1>8 DEF AtSector
  <2>3. SoundChain(card, width, opened) /\ card.spc = DirSectors /\ D = SectorsOf(card, opened)
    BY <1>1, <1>8, DirectoryPlace
  <2>4. IsFiniteSet(DOMAIN card.chain)
    BY <1>1 DEF Geometry
  <2>5. Len(Chain(card, opened)) \in Nat \ {0}
    BY <2>3, <2>4, ChainFacts
  <2>6. m + 1 \in 0 .. (DirSectors - 1) /\ walk.i - 1 = DirSectors - (m + 1) /\ m \in Nat
    <3>1. walk.i = DirSectors - m /\ walk.i # 1
      BY <2>1
    <3>2. DirSectors \in Nat
      BY Constants
    <3> QED
      BY <3>1, <3>2
  <2> DEFINE x == (j - 1) * DirSectors
  <2>7. x \in Int
    <3>1. j \in Int
      BY <2>5
    <3>2. DirSectors \in Int
      BY Constants
    <3> QED
      BY <3>1, <3>2
  <2>8. n = x + m
    BY <2>1
  <2>9. /\ x + m + 1 \in 1 .. Len(D) /\ D[x + m + 1] = Base(card, Chain(card, opened)[j]) + m
    BY <1>1, <2>3, SectorPlace
  <2>10. /\ x + (m + 1) + 1 \in 1 .. Len(D)
         /\ D[x + (m + 1) + 1] = Base(card, Chain(card, opened)[j]) + (m + 1)
    BY <1>1, <2>3, <2>6, SectorPlace
  <2>11. Base(card, Chain(card, opened)[j]) \in Nat
    <3>1. SoundCluster(card, width, Chain(card, opened)[j])
      BY <2>3, <2>4, ChainFacts
    <3> QED
      BY <1>1, <3>1, ClusterPlace
  <2> HIDE DEF x, D
  <2>12. n + 1 = x + (m + 1) /\ n + 1 < Len(D) /\ (n + 1) + 1 = x + (m + 1) + 1 /\ n + 1 = x + m + 1
    BY <1>2, <2>6, <2>7, <2>8, <2>10
  <2>13. walk'.sector = D[(n + 1) + 1]
    BY <1>6, <2>6, <2>9, <2>10, <2>11, <2>12
  <2> QED
    BY <1>3, <1>5, <1>8, <2>1, <2>2, <2>6, <2>12, <2>13 DEF AtSector, D, x
<1> QED
  BY <1>7, <1>8

(* Looking up the cluster behind the j-th of a sound chain.                *)
LEMMA NextOfChain ==
  ASSUME CardInSlot, Mounted, CacheInv, NEW c, SoundChain(card, width, c),
         NEW j \in 1 .. Len(Chain(card, c)),
         load_fat_sector(Chain(card, c)[j] \div FatEntries, TRUE),
         NEW next, next = fat_next_cluster(Chain(card, c)[j], TRUE)
  PROVE  /\ j = Len(Chain(card, c)) => fat_is_last_cluster(next)
         /\ j # Len(Chain(card, c)) =>
              /\ next = Chain(card, c)[j + 1] /\ ~fat_is_last_cluster(next)
              /\ j + 1 \in 1 .. Len(Chain(card, c))
              /\ SoundCluster(card, width, Chain(card, c)[j + 1])
              /\ first_sector_of_cluster(next) = Base(card, Chain(card, c)[j + 1])
<1>1. Geometry(card, width)
  BY MountedCard
<1>2. IsFiniteSet(DOMAIN card.chain)
  BY <1>1 DEF Geometry
<1>3. /\ SoundCluster(card, width, Chain(card, c)[j])
      /\ j = Len(Chain(card, c)) <=> Marks(card, card.chain[Chain(card, c)[j]])
      /\ j # Len(Chain(card, c)) => Chain(card, c)[j + 1] = card.chain[Chain(card, c)[j]]
  BY <1>2, ChainFacts
<1>4. next = ReadCell(card, width, card.chain[Chain(card, c)[j]])
  BY <1>3, Lookup
<1>5. CASE j = Len(Chain(card, c))
  BY <1>3, <1>4, <1>5, LookupValue
<1>6. CASE j # Len(Chain(card, c))
  <2>1. next = Chain(card, c)[j + 1] /\ ~fat_is_last_cluster(next)
    BY <1>3, <1>4, <1>6, LookupValue
  <2>2. j + 1 \in 1 .. Len(Chain(card, c))
    <3>1. Len(Chain(card, c)) \in Nat
      BY <1>2, ChainFacts
    <3> QED
      BY <1>6, <3>1
  <2>3. SoundCluster(card, width, Chain(card, c)[j + 1])
    BY <1>2, <2>2, ChainFacts
  <2>4. first_sector_of_cluster(next) = Base(card, Chain(card, c)[j + 1])
    BY <2>1, <2>3, FirstSector
  <2> QED
    BY <1>6, <2>1, <2>2, <2>3, <2>4
<1> QED
  BY <1>5, <1>6

(* The last sector of a cluster of a directory: the directory ends there   *)
(* with its chain, or goes on with the next cluster.                       *)
LEMMA NextGroup ==
  ASSUME CardInSlot, Shapes, Mounted, CacheInv, SoundDirectory(card, width, opened),
         NEW n \in 0 .. (Len(DirectorySectors(card, opened)) - 1), AtSector(n), walk.i = 1, walk.chain,
         vol' = vol, width' = width, opened' = opened,
         load_fat_sector(walk.cluster \div FatEntries, TRUE),
         NEW next, next = fat_next_cluster(walk.cluster, TRUE)
  PROVE  /\ fat_is_last_cluster(next) => n + 1 = Len(DirectorySectors(card, opened))
         /\ ~fat_is_last_cluster(next) => \A ptr :
              walk' = [walk EXCEPT !.cluster = next, !.i = DirSectors, !.ptr = ptr,
                                   !.sector = first_sector_of_cluster(next)]
                => AtSector(n + 1)'
<1> DEFINE D == DirectorySectors(card, opened)
           L == Len(Chain(card, opened))
<1>1. Geometry(card, width)
  BY MountedCard
<1>2. Len(D) \in Nat \ {0}
  BY <1>1, DirectoryPlace
<1>3. card' = card
  BY DEF card
<1>4. ~InRoot16(card, opened) /\ n \in Nat
  BY DEF AtSector
<1>5. PICK j \in 1 .. L, m \in 0 .. (DirSectors - 1) :
        /\ n = (j - 1) * DirSectors + m
        /\ walk.cluster = Chain(card, opened)[j] /\ walk.i = DirSectors - m
  BY <1>4 DEF AtSector
<1>6. SoundChain(card, width, opened) /\ card.spc = DirSectors /\ D = SectorsOf(card, opened)
  BY <1>1, <1>4, DirectoryPlace
<1>7. IsFiniteSet(DOMAIN card.chain)
  BY <1>1 DEF Geometry
<1>8. L \in Nat \ {0}
  BY <1>6, <1>7, ChainFacts
<1>9. Len(D) = L * DirSectors
  BY <1>1, <1>6, SectorPlace
<1>10. n + 1 = j * DirSectors
  <2>1. m = DirSectors - 1
    <3>1. walk.i = DirSectors - m /\ walk.i = 1
      BY <1>5
    <3> QED
      BY <3>1, Constants
  <2>2. n = (j - 1) * DirSectors + (DirSectors - 1)
    BY <1>5, <2>1
  <2>3. (j - 1) * DirSectors + DirSectors = j * DirSectors /\ (j - 1) * DirSectors \in Int
    BY <1>8, Constants
  <2> QED
    BY <2>2, <2>3, Constants
<1>11. CASE j = L
  <2>1. fat_is_last_cluster(next)
    BY <1>5, <1>6, <1>11, NextOfChain
  <2> QED
    BY <1>9, <1>10, <1>11, <2>1
<1>12. CASE j # L
  <2>1. /\ next = Chain(card, opened)[j + 1] /\ ~fat_is_last_cluster(next) /\ j + 1 \in 1 .. L
        /\ first_sector_of_cluster(next) = Base(card, Chain(card, opened)[j + 1])
        /\ SoundCluster(card, width, Chain(card, opened)[j + 1])
    BY <1>5, <1>6, <1>12, NextOfChain
  <2> SUFFICES ASSUME NEW ptr,
                      walk' = [walk EXCEPT !.cluster = next, !.i = DirSectors, !.ptr = ptr,
                                           !.sector = first_sector_of_cluster(next)]
               PROVE  AtSector(n + 1)'
    BY <2>1
  <2>2. walk'.chain /\ walk'.cluster = next /\ walk'.i = DirSectors
        /\ walk'.sector = first_sector_of_cluster(next)
    BY DEF Shapes
  <2>3. 0 \in 0 .. (DirSectors - 1) /\ DirSectors - 0 = DirSectors /\ (j + 1) - 1 = j
        /\ DirSectors \in Nat
    <3>1. DirSectors \in Nat \ {0}
      BY Constants
    <3>2. j \in Int
      BY <1>8
    <3> QED
      BY <3>1, <3>2
  <2>4. /\ ((j + 1) - 1) * DirSectors + 0 + 1 \in 1 .. Len(D)
        /\ D[((j + 1) - 1) * DirSectors + 0 + 1] = Base(card, Chain(card, opened)[j + 1]) + 0
    <3>1. \A i \in 1 .. L, k \in 0 .. (DirSectors - 1) :
            /\ (i - 1) * DirSectors + k + 1 \in 1 .. Len(D)
            /\ D[(i - 1) * DirSectors + k + 1] = Base(card, Chain(card, opened)[i]) + k
      BY <1>1, <1>6, SectorPlace
    <3> HIDE DEF D, L
    <3> QED
      BY <2>1, <2>3, <3>1
  <2>5. n + 1 = ((j + 1) - 1) * DirSectors + 0
    BY <1>4, <1>10, <2>3
  <2>6. n + 1 < Len(D) /\ D[(n + 1) + 1] = Base(card, Chain(card, opened)[j + 1]) + 0
    BY <1>2, <1>4, <2>4, <2>5
  <2>7. Base(card, Chain(card, opened)[j + 1]) \in Nat
    BY <1>1, <2>1, ClusterPlace
  <2>8. walk'.sector = D[(n + 1) + 1]
    <3> DEFINE b == Base(card, Chain(card, opened)[j + 1])
    <3>1. walk'.sector = b
      BY <2>1, <2>2
    <3>2. b + 0 = b
      <4> HIDE DEF b
      <4> QED
        BY <2>7 DEF b
    <3> QED
      BY <2>6, <3>1, <3>2
  <2> QED
    BY <1>3, <1>4, <2>1, <2>2, <2>3, <2>5, <2>6, <2>8 DEF AtSector
<1> QED
  BY <1>11, <1>12

(* A turn of a directory's loop goes on to the next sector, or shows the   *)
(* whole directory, or gives up.                                           *)
LEMMA TurnOfDirectory ==
  ASSUME CardInSlot, Shapes, Mounted, CacheInv, Walking,
         NEW ok \in BOOLEAN, NEW fatOk \in BOOLEAN, NEW how, ReadDirSector(ok, fatOk, how),
         opened' = opened
  PROVE  /\ vol' = vol /\ width' = width /\ FatKept
         /\ DOMAIN walk' = {"chain", "cluster", "sector", "i", "ptr"}
         /\ DOMAIN dir' = 0 .. (DirRoom - 1)
         /\ \A j \in 0 .. (DirRoom - 1) : DOMAIN dir'[j] = {"type", "cluster"}
         /\ how = "on" => Walking'
         /\ how = "listed" /\ top' = 0 /\ cur' = 0 => Choosing'
<1> DEFINE D == DirectorySectors(card, opened)
           S == Listing(card, opened)
           U(n) == Upto(card, opened, n * DirEntries)
           G == EntriesAt(card, Wrap(walk.sector))
           ptr == NextPtr(walk.ptr, G)
           stored == Stored(dir, walk.ptr, G)
           next == fat_next_cluster(walk.cluster, fatOk)
           lookUp == ok /\ ~EndsHere(G) /\ walk.i = 1 /\ walk.chain
<1>1. Geometry(card, width) /\ SoundDirectory(card, width, opened)
  BY MountedCard DEF Walking
<1>2. /\ Len(D) \in Nat \ {0} /\ DOMAIN D = 1 .. Len(D)
      /\ \A k \in 1 .. Len(D) : D[k] \in Nat /\ D[k] < card.size
  BY <1>1, DirectoryPlace
<1>3. PICK n \in 0 .. Len(D) : Listed(n) /\ AtSector(n)
  BY DEF Walking
<1>4. n \in 0 .. (Len(D) - 1) /\ n \in Nat /\ n + 1 \in 0 .. Len(D) /\ walk.sector = D[n + 1]
      /\ n + 1 \in 1 .. Len(D)
  BY <1>2, <1>3 DEF AtSector
<1>5. G = EntriesAt(card, D[n + 1])
  <2>1. D[n + 1] \in Nat /\ D[n + 1] < card.size
    BY <1>2, <1>4
  <2>2. card.size \in Nat /\ card.size <= SectorSpace
    BY <1>1, GeometryFacts
  <2>3. walk.sector \in 0 .. (SectorSpace - 1)
    <3> HIDE DEF D
    <3> QED
      BY <1>4, <2>1, <2>2, Constants
  <2>4. walk.sector % SectorSpace = walk.sector
    BY <2>3, Constants, Small
  <2> QED
    BY <1>4, <2>4 DEF Wrap
<1>6. vol' = vol /\ width' = width /\ card' = card
  BY DEF ReadDirSector, card
<1>7. FatKept
  <2>1. \/ load_fat_sector(walk.cluster \div FatEntries, fatOk)
        \/ UNCHANGED <<fat, fatBuf>>
    BY DEF ReadDirSector
  <2> QED
    BY <2>1, LookupKeeps
<1>8. /\ how = CASE ~ok -> "error"
                 [] ok /\ EndsHere(G) -> "listed"
                 [] ok /\ ~EndsHere(G) /\ ~(walk.i = 1) -> "on"
                 [] lookUp -> IF next = 0 THEN "error"
                              ELSE IF fat_is_last_cluster(next) THEN "listed" ELSE "on"
                 [] OTHER -> "listed"
      /\ dir' = CASE ~ok -> dir
                  [] ok /\ how = "listed" -> MarkEnd(stored, ptr)
                  [] OTHER -> stored
      /\ walk' = IF how # "on" THEN NoWalk
                 ELSE IF ~(walk.i = 1)
                 THEN [walk EXCEPT !.sector = (@ + 1) % Dword, !.i = @ - 1, !.ptr = ptr]
                 ELSE [walk EXCEPT !.cluster = next, !.i = DirSectors, !.ptr = ptr,
                                   !.sector = first_sector_of_cluster(next)]
      /\ lookUp => load_fat_sector(walk.cluster \div FatEntries, fatOk)
  BY DEF ReadDirSector
<1>9. /\ ~ok => how = "error"
      /\ ok /\ EndsHere(G) => how = "listed"
      /\ ok /\ ~EndsHere(G) /\ walk.i # 1 => how = "on"
      /\ lookUp => how = IF next = 0 THEN "error"
                         ELSE IF fat_is_last_cluster(next) THEN "listed" ELSE "on"
      /\ ok /\ ~EndsHere(G) /\ walk.i = 1 /\ ~walk.chain => how = "listed"
  <2> HIDE DEF G, next
  <2>1. ~ok => how = "error"
    BY <1>8
  <2>2. ok /\ EndsHere(G) => how = "listed"
    BY <1>8
  <2>3. ok /\ ~EndsHere(G) /\ walk.i # 1 => how = "on"
    BY <1>8
  <2>4. lookUp => how = IF next = 0 THEN "error"
                       ELSE IF fat_is_last_cluster(next) THEN "listed" ELSE "on"
    BY <1>8
  <2>5. ok /\ ~EndsHere(G) /\ walk.i = 1 /\ ~walk.chain => how = "listed"
    BY <1>8
  <2> QED
    BY <2>1, <2>2, <2>3, <2>4, <2>5
<1>10. /\ ptr = Cardinality(U(n + 1))
       /\ DOMAIN stored = 0 .. (DirRoom - 1)
       /\ \A j \in 0 .. (DirRoom - 1) : DOMAIN stored[j] = {"type", "cluster"}
       /\ \A k \in U(n + 1) : stored[Before(S, k)] = Description(card, opened, k)
  BY <1>1, <1>3, <1>4, <1>5, StoredStep
<1>11. /\ EndsHere(G) => S = U(n + 1)
       /\ ~EndsHere(G) => \A k \in 1 .. ((n + 1) * DirEntries) : Entries(card, opened)[k].kind # "end"
  <2>1. DOMAIN G = 1 .. DirEntries
    BY SectorEntries
  <2>2. \A k \in 1 .. (n * DirEntries) : Entries(card, opened)[k].kind # "end"
    BY <1>3 DEF Listed
  <2> QED
    BY <1>2, <1>4, <1>5, <2>1, <2>2, ListingStep
<1>12. n + 1 = Len(D) => S = U(n + 1)
  <2>1. U(Len(D)) = S
    BY <1>2, ListingEnds
  <2> QED
    BY <2>1
<1>13. lookUp /\ ~fatOk => next = 0
  BY DEF fat_next_cluster
<1>14. DOMAIN NoWalk = {"chain", "cluster", "sector", "i", "ptr"}
       /\ DOMAIN walk = {"chain", "cluster", "sector", "i", "ptr"}
       /\ DOMAIN dir = 0 .. (DirRoom - 1)
       /\ \A j \in 0 .. (DirRoom - 1) : DOMAIN dir[j] = {"type", "cluster"}
  BY DEF NoWalk, Shapes
<1> HIDE DEF G, ptr, stored, next, lookUp, D, S, U
<1>15. how = "on" => Walking'
  <2> SUFFICES ASSUME how = "on" PROVE Walking'
    OBVIOUS
  <2>1. ok /\ ~EndsHere(G) /\ (walk.i # 1 \/ (lookUp /\ next # 0 /\ ~fat_is_last_cluster(next)))
    BY <1>9 DEF lookUp
  <2>2. dir' = stored
    BY <1>8, <2>1
  <2>3. walk'.ptr = ptr
    BY <1>8, <1>14
  <2>4. Listed(n + 1)'
    BY <1>6, <1>10, <1>11, <2>1, <2>2, <2>3 DEF Listed, S, U
  <2>5. AtSector(n + 1)'
    <3>1. CASE walk.i # 1
      <4>1. walk' = [walk EXCEPT !.sector = (@ + 1) % Dword, !.i = @ - 1, !.ptr = ptr]
        BY <1>8, <3>1
      <4> QED
        BY <1>1, <1>3, <1>4, <1>6, <3>1, <4>1, NextInGroup DEF D
    <3>2. CASE walk.i = 1
      <4>1. walk' = [walk EXCEPT !.cluster = next, !.i = DirSectors, !.ptr = ptr,
                                 !.sector = first_sector_of_cluster(next)]
        BY <1>8, <3>2
      <4>2. lookUp /\ next # 0 /\ ~fat_is_last_cluster(next)
        BY <2>1, <3>2
      <4>3. fatOk = TRUE
        BY <1>13, <4>2
      <4>4. walk.chain /\ load_fat_sector(walk.cluster \div FatEntries, TRUE)
            /\ next = fat_next_cluster(walk.cluster, TRUE)
        BY <1>8, <4>2, <4>3 DEF lookUp, next
      <4> HIDE DEF next
      <4>5. \A p : walk' = [walk EXCEPT !.cluster = next, !.i = DirSectors, !.ptr = p,
                                        !.sector = first_sector_of_cluster(next)]
                => AtSector(n + 1)'
        BY <1>1, <1>3, <1>4, <1>6, <3>2, <4>2, <4>4, NextGroup DEF D
      <4> QED
        BY <4>1, <4>5
    <3> QED
      BY <3>1, <3>2
  <2>6. SoundDirectory(card, width, opened)' /\ n + 1 \in 0 .. Len(DirectorySectors(card, opened))'
    BY <1>1, <1>4, <1>6 DEF D
  <2> QED
    BY <2>4, <2>5, <2>6 DEF Walking
<1>16. how = "listed" => dir' = MarkEnd(stored, ptr) /\ S = U(n + 1)
  <2> SUFFICES ASSUME how = "listed" PROVE dir' = MarkEnd(stored, ptr) /\ S = U(n + 1)
    OBVIOUS
  <2>1. ok
    BY <1>9
  <2>2. \/ EndsHere(G)
        \/ lookUp /\ next # 0 /\ fat_is_last_cluster(next)
        \/ walk.i = 1 /\ ~walk.chain
    BY <1>9, <2>1 DEF lookUp
  <2>3. CASE lookUp /\ next # 0 /\ fat_is_last_cluster(next)
    <3>1. fatOk = TRUE
      BY <1>13, <2>3
    <3>2. walk.i = 1 /\ walk.chain /\ load_fat_sector(walk.cluster \div FatEntries, TRUE)
          /\ next = fat_next_cluster(walk.cluster, TRUE)
      BY <1>8, <2>3, <3>1 DEF lookUp, next
    <3>3. n + 1 = Len(D)
      BY <1>1, <1>3, <1>4, <1>6, <2>3, <3>2, NextGroup DEF D
    <3> QED
      BY <1>8, <1>12, <2>1, <3>3
  <2>4. CASE walk.i = 1 /\ ~walk.chain
    <3>1. InRoot16(card, opened) /\ walk.i = (card.rootEntries \div DirEntries) - n
      BY <1>3, <2>4 DEF AtSector
    <3>2. Len(D) = card.rootEntries \div DirEntries
      BY <1>1, <3>1, DirectoryPlace DEF D
    <3>3. n + 1 = Len(D)
      BY <1>2, <1>4, <2>4, <3>1, <3>2
    <3> QED
      BY <1>8, <1>12, <2>1, <3>3
  <2> QED
    BY <1>8, <1>11, <2>1, <2>2, <2>3, <2>4
<1>17. how = "listed" =>
         /\ DOMAIN dir' = 0 .. (DirRoom - 1)
         /\ \A j \in 0 .. (DirRoom - 1) : DOMAIN dir'[j] = {"type", "cluster"}
         /\ dir'[Cardinality(S)].type = 0
         /\ \A k \in S : dir'[Before(S, k)] = Description(card, opened, k)
  <2> SUFFICES ASSUME how = "listed"
               PROVE  /\ DOMAIN dir' = 0 .. (DirRoom - 1)
                      /\ \A j \in 0 .. (DirRoom - 1) : DOMAIN dir'[j] = {"type", "cluster"}
                      /\ dir'[Cardinality(S)].type = 0
                      /\ \A k \in S : dir'[Before(S, k)] = Description(card, opened, k)
    OBVIOUS
  <2>1. dir' = MarkEnd(stored, Cardinality(S)) /\ \A k \in S : stored[Before(S, k)] = Description(card, opened, k)
    BY <1>10, <1>16
  <2> QED
    BY <1>1, <1>10, <2>1, MarkedEnd DEF S
<1>18. how = "listed" /\ top' = 0 /\ cur' = 0 => Choosing'
  <2> SUFFICES ASSUME how = "listed", top' = 0, cur' = 0 PROVE Choosing'
    OBVIOUS
  <2>1. WholeDirectory'
    BY <1>6, <1>17 DEF WholeDirectory, Description, S
  <2>2. Cardinality(S) \in Nat /\ Cardinality(S) # 0
    <3>1. Cardinality(S) \in 1 .. DirMax
      BY <1>1 DEF SoundDirectory, S
    <3> QED
      BY <3>1, Constants
  <2>3. SoundDirectory(card, width, opened)'
    BY <1>1, <1>6
  <2> QED
    BY <1>6, <2>1, <2>2, <2>3, Constants DEF Choosing, S
<1>19. DOMAIN dir' = 0 .. (DirRoom - 1) /\ \A j \in 0 .. (DirRoom - 1) : DOMAIN dir'[j] = {"type", "cluster"}
  <2>1. how = "listed" \/ dir' = dir \/ dir' = stored
    BY <1>8
  <2> QED
    BY <1>10, <1>14, <1>17, <2>1
<1>20. DOMAIN walk' = {"chain", "cluster", "sector", "i", "ptr"}
  BY <1>8, <1>14
<1> QED
  BY <1>6, <1>7, <1>15, <1>18, <1>19, <1>20

-----------------------------------------------------------------------------
(* The menu                                                                *)

(* The entries listed are what a sound card has.                           *)
LEMMA ListedEntry ==
  ASSUME CardInSlot, Mounted, SoundDirectory(card, width, opened),
         NEW k \in Listing(card, opened)
  PROVE  /\ Entries(card, opened)[k].kind \in {"dir", "file"}
         /\ SoundEntry(card, width, Entries(card, opened)[k])
<1> DEFINE D == DirectorySectors(card, opened)
           F == Entries(card, opened)
<1>1. Len(D) \in Nat
  BY MountedCard, DirectoryPlace
<1>2. F[k].kind \in {"dir", "file"}
  BY DEF Listing
<1>3. k \in 1 .. (Len(D) * DirEntries)
  BY <1>1, ListingType
<1>4. PICK q \in 0 .. (Len(D) - 1), r \in 0 .. (DirEntries - 1) : k = q * DirEntries + r + 1
  <2>1. DirEntries \in Nat \ {0}
    BY Constants
  <2> HIDE DEF D
  <2> QED
    BY <1>1, <1>3, <2>1, OfGroup
<1>5. r + 1 \in 1 .. DirEntries /\ q * DirEntries \in Nat
  BY Constants
<1>6. k = q * DirEntries + (r + 1)
  BY <1>4, <1>5
<1>7. F[k] = EntriesAt(card, D[q + 1])[r + 1]
  BY <1>1, <1>5, <1>6, EntryPlace
<1> DEFINE s == D[q + 1]
<1> HIDE DEF F, s
<1>8. s \in DOMAIN card.dirs
  <2> SUFFICES ASSUME s \notin DOMAIN card.dirs PROVE FALSE
    OBVIOUS
  <2>1. EntriesAt(card, s) = [i \in 1 .. DirEntries |-> EndEntry]
    BY DEF EntriesAt
  <2>2. EntriesAt(card, s)[r + 1].kind = "end"
    BY <1>5, <2>1 DEF EndEntry
  <2> QED
    BY <1>2, <1>7, <2>2 DEF s
<1>9. F[k] = card.dirs[s][r + 1]
  BY <1>7, <1>8 DEF EntriesAt, s
<1>10. SoundEntry(card, width, card.dirs[s][r + 1])
  BY <1>5, <1>8, MountedCard
<1> QED
  BY <1>2, <1>9, <1>10 DEF F

(* So are the lines of the menu, and the one behind them is the mark.      *)
LEMMA MenuLines ==
  ASSUME CardInSlot, Mounted, Choosing, pc = "menu"
  PROVE  /\ Cardinality(Listing(card, opened)) \in Nat
         /\ dir[Cardinality(Listing(card, opened))].type = 0
         /\ \A j \in 0 .. (Cardinality(Listing(card, opened)) - 1) :
              /\ dir[j].type \in {1, 17}
              /\ dir[j].type = 1 => SoundDirectory(card, width, dir[j].cluster)
              /\ dir[j].type = 17 /\ dir[j].cluster # 0 => SoundFile(card, width, dir[j].cluster)
<1> DEFINE S == Listing(card, opened)
<1>1. SoundDirectory(card, width, opened)
  BY DEF Choosing
<1>2. S \in SUBSET Nat /\ IsFiniteSet(S) /\ Cardinality(S) \in Nat
  <2>1. Len(DirectorySectors(card, opened)) \in Nat
    BY <1>1, MountedCard, DirectoryPlace
  <2> QED
    BY <2>1, ListingType
<1>3. /\ dir[Cardinality(S)].type = 0
      /\ \A k \in S : dir[Before(S, k)] = Description(card, opened, k)
  BY DEF Choosing, WholeDirectory, CardInSlot, Description
<1>4. ASSUME NEW j \in 0 .. (Cardinality(S) - 1)
      PROVE  /\ dir[j].type \in {1, 17}
             /\ dir[j].type = 1 => SoundDirectory(card, width, dir[j].cluster)
             /\ dir[j].type = 17 /\ dir[j].cluster # 0 => SoundFile(card, width, dir[j].cluster)
  <2>1. PICK k \in S : Before(S, k) = j
    BY <1>2, BeforeOnto
  <2> DEFINE e == Entries(card, opened)[k]
  <2>2. e.kind \in {"dir", "file"} /\ SoundEntry(card, width, e)
    BY <1>1, ListedEntry
  <2> HIDE DEF e
  <2>3. dir[j] = [type |-> IF e.kind = "dir" THEN 1 ELSE 17, cluster |-> e.cluster]
    BY <1>3, <2>1 DEF Description, e
  <2> QED
    BY <2>2, <2>3 DEF SoundEntry
<1> QED
  BY <1>2, <1>3, <1>4

(* The cursor moves among them, and the screen with it.                    *)
LEMMA CursorUp ==
  ASSUME CardInSlot, Mounted, Choosing, pc = "menu", Up
  PROVE  Choosing'
<1>1. UNCHANGED <<vol, width, dir, opened, swapped, pc>> /\ card' = card
  BY DEF Up, fatVars, card
<1>2. top \in Nat /\ cur \in Nat /\ top <= cur /\ cur < top + Screen
      /\ cur < Cardinality(Listing(card, opened))
  BY DEF Choosing
<1>3. Cardinality(Listing(card, opened)) \in Nat /\ Screen \in Nat \ {0}
  BY MenuLines, Constants
<1>4. /\ cur' = IF cur # 0 THEN cur - 1 ELSE cur
      /\ top' = IF cur' < top THEN cur' ELSE top
  BY DEF Up
<1>5. /\ top' \in Nat /\ cur' \in Nat /\ top' <= cur' /\ cur' < top' + Screen
      /\ cur' < Cardinality(Listing(card, opened))
  BY <1>2, <1>3, <1>4
<1>6. WholeDirectory'
  BY <1>1 DEF WholeDirectory, Choosing
<1> QED
  BY <1>1, <1>5, <1>6, Constants DEF Choosing

LEMMA CursorDown ==
  ASSUME CardInSlot, Mounted, Choosing, pc = "menu", Down
  PROVE  Choosing'
<1> DEFINE n == Cardinality(Listing(card, opened))
<1>1. UNCHANGED <<vol, width, dir, opened, swapped, pc>> /\ card' = card
  BY DEF Down, fatVars, card
<1>2. top \in Nat /\ cur \in Nat /\ top <= cur /\ cur < top + Screen /\ cur < n
  BY DEF Choosing
<1>3. n \in Nat /\ Screen \in Nat \ {0} /\ dir[n].type = 0
  BY MenuLines, Constants
<1>4. /\ cur' = IF dir[cur + 1].type # 0 THEN cur + 1 ELSE cur
      /\ top' = IF cur' - top > Screen - 1 THEN top + 1 ELSE top
  BY DEF Down
<1> HIDE DEF n
<1>5. /\ top' \in Nat /\ cur' \in Nat /\ top' <= cur' /\ cur' < top' + Screen /\ cur' < n
  <2>1. cur + 1 = n => cur' = cur
    BY <1>3, <1>4
  <2>2. cur' = cur \/ cur' = cur + 1
    BY <1>4
  <2> QED
    BY <1>2, <1>3, <1>4, <2>1, <2>2
<1>6. WholeDirectory'
  BY <1>1 DEF WholeDirectory, Choosing
<1> QED
  BY <1>1, <1>5, <1>6, Constants DEF Choosing, n

-----------------------------------------------------------------------------
(* The load of a file                                                      *)

(* load_rom begins in front of the first sector of the file.               *)
LEMMA OpenFile ==
  ASSUME CardInSlot, Mounted, NEW c, SoundFile(card, width, c), fat_open_file(c),
         vol' = vol, width' = width, chosen' = c, size' = 0, reported' = 0, pc' = "load"
  PROVE  Loading'
<1>1. Geometry(card, width) /\ card' = card
  BY MountedCard DEF card
<1>2. SoundChain(card, width, c) /\ IsFiniteSet(DOMAIN card.chain)
  BY <1>1 DEF SoundFile, Geometry
<1>3. Len(Chain(card, c)) \in Nat \ {0} /\ Chain(card, c)[1] = c
  BY <1>2, ChainFacts
<1>4. SoundCluster(card, width, c)
  BY <1>2, <1>3, ChainFacts
<1>5. file'.cluster = c /\ file'.sector = Base(card, c)
  BY <1>4, FirstSector DEF fat_open_file
<1>6. card.spc \in Nat \ {0} /\ Base(card, c) \in Nat
  BY <1>1, <1>4, GeometryFacts, ClusterPlace
<1>7. AtPlace(0)'
  <2>1. 1 \in 1 .. Len(Chain(card, c)) /\ 0 \in 0 .. card.spc
    BY <1>3, <1>6
  <2>2. 0 = (1 - 1) * card.spc + 0
    BY <1>6
  <2>3. file'.sector = DataStart(card) + (Chain(card, c)[1] - 2) * card.spc + 0
    <3>1. Base(card, c) + 0 = Base(card, c)
      BY <1>6
    <3> QED
      BY <1>3, <1>5, <3>1 DEF Base
  <2> QED
    BY <1>1, <1>3, <1>5, <2>1, <2>2, <2>3 DEF AtPlace
<1>8. Transferred(0)'
  BY DEF Transferred
<1>9. PageSelected'
  <2>1. 0 % PageSectors = 0
    BY Constants
  <2> QED
    BY <2>1 DEF PageSelected
<1>10. 0 \in 0 .. Len(SectorsOf(card, c))
  <2>1. Len(SectorsOf(card, c)) \in Nat
    BY <1>1, <1>2, SectorPlace
  <2> QED
    BY <2>1
<1> QED
  BY <1>1, <1>7, <1>8, <1>9, <1>10 DEF Loading, Mounted

(* fat_load_file_sector comes to the sectors of the file one after the     *)
(* other, to the end of its chain.                                         *)
LEMMA NextOfFile ==
  ASSUME CardInSlot, Mounted, CacheInv, SoundFile(card, width, chosen),
         vol' = vol, width' = width, chosen' = chosen,
         NEW p \in Nat, AtPlace(p), NEW ok \in BOOLEAN, NEW value, fat_load_file_sector(TRUE, ok, value)
  PROVE  /\ value = "eof" => p = Len(SectorsOf(card, chosen))
         /\ value # "eof" =>
              /\ p + 1 \in 1 .. Len(SectorsOf(card, chosen))
              /\ AtPlace(p + 1)' /\ value = IF ok THEN "loaded" ELSE "error"
              /\ (file'.sector - 1) % Dword = SectorsOf(card, chosen)[p + 1]
              /\ SectorsOf(card, chosen)[p + 1] \in Nat /\ SectorsOf(card, chosen)[p + 1] < card.size
<1> DEFINE W == SectorsOf(card, chosen)
           C == Chain(card, chosen)
           next == fat_next_cluster(file.cluster, TRUE)
           ended == AtClusterEnd /\ fat_is_last_cluster(next)
           sector == IF AtClusterEnd THEN first_sector_of_cluster(next) ELSE file.sector
<1>1. Geometry(card, width) /\ card' = card
  BY MountedCard DEF card
<1>2. SoundChain(card, width, chosen) /\ IsFiniteSet(DOMAIN card.chain)
  BY <1>1 DEF SoundFile, Geometry
<1>3. card.spc \in Nat \ {0} /\ card.size \in Nat /\ card.size < Dword
  BY <1>1, GeometryFacts
<1>4. Len(C) \in Nat \ {0} /\ \A j \in 1 .. Len(C) : SoundCluster(card, width, C[j])
  BY <1>2, ChainFacts
<1>5. PICK j \in 1 .. Len(C), m \in 0 .. card.spc :
        /\ p = (j - 1) * card.spc + m
        /\ file.cluster = C[j]
        /\ file.sector = DataStart(card) + (C[j] - 2) * card.spc + m
  BY DEF AtPlace
<1>6. \A i \in 1 .. Len(C) : Base(card, C[i]) \in Nat /\ Base(card, C[i]) + card.spc <= card.size
  BY <1>1, <1>4, ClusterPlace
<1>7. file.sector = Base(card, C[j]) + m
  BY <1>5 DEF Base
<1>8. \A i \in 1 .. Len(C), k \in 0 .. (card.spc - 1) :
        /\ (i - 1) * card.spc + k + 1 \in 1 .. Len(W)
        /\ W[(i - 1) * card.spc + k + 1] = Base(card, C[i]) + k
  BY <1>1, <1>2, SectorPlace
<1>9. AtClusterEnd <=> m = card.spc
  <2>1. first_sector_of_cluster((file.cluster + 1) % Dword) = Base(card, C[j]) + card.spc
    BY <1>4, <1>5, FirstSector
  <2>2. Base(card, C[j]) \in Nat
    BY <1>6
  <2> HIDE DEF C
  <2>3. file.sector = Base(card, C[j]) + card.spc <=> m = card.spc
    <3> DEFINE b == Base(card, C[j])
    <3>1. b \in Nat /\ file.sector = b + m
      BY <1>7, <2>2
    <3> HIDE DEF b
    <3> QED
      BY <1>3, <3>1 DEF b
  <2> QED
    BY <2>1, <2>3 DEF AtClusterEnd
<1>10. /\ AtClusterEnd => load_fat_sector(file.cluster \div FatEntries, TRUE)
       /\ file' = [cluster |-> IF AtClusterEnd THEN next ELSE file.cluster,
                   sector |-> IF ended THEN file.sector ELSE Counted(sector, ok)]
       /\ value = IF ended THEN "eof" ELSE IF ok THEN "loaded" ELSE "error"
  BY DEF fat_load_file_sector
<1> HIDE DEF W, C, next
(* What follows from the cluster and the place in it the load goes to.     *)
<1>11. ASSUME NEW i \in 1 .. Len(C), NEW k \in 0 .. (card.spc - 1), p = (i - 1) * card.spc + k,
              file'.cluster = C[i], sector = Base(card, C[i]) + k, ~ended
       PROVE  /\ value # "eof" /\ value = IF ok THEN "loaded" ELSE "error"
              /\ p + 1 \in 1 .. Len(W) /\ AtPlace(p + 1)'
              /\ (file'.sector - 1) % Dword = W[p + 1] /\ W[p + 1] \in Nat /\ W[p + 1] < card.size
  <2> DEFINE b == Base(card, C[i])
             x == (i - 1) * card.spc
  <2>1. b \in Nat /\ b + card.spc <= card.size
    BY <1>6
  <2>2. x \in Int /\ p = x + k
    BY <1>3, <1>4, <1>11
  <2>3. x + k + 1 \in 1 .. Len(W) /\ W[x + k + 1] = b + k
    BY <1>8
  <2>4. sector = b + k /\ ~ended
    BY <1>11
  <2>5. file'.sector = Counted(sector, ok) /\ value = IF ok THEN "loaded" ELSE "error"
    <3> HIDE DEF sector
    <3> QED
      BY <1>10, <2>4
  <2> HIDE DEF b, x, sector, ended
  <2>6. b + k \in 0 .. (Dword - 1) /\ b + k + 1 \in 0 .. (Dword - 1) /\ b + k < card.size
    BY <1>3, <2>1, Constants
  <2>7. (b + k) % Dword = b + k /\ (b + k + 1) % Dword = b + k + 1
    BY <2>6, SmallDword
  <2>8. file'.sector = b + k + 1
    BY <2>4, <2>5, <2>7 DEF Counted
  <2>9. (file'.sector - 1) % Dword = b + k
    <3>1. file'.sector - 1 = b + k
      BY <2>1, <2>8
    <3> QED
      BY <2>7, <3>1
  <2>10. p + 1 = x + k + 1 /\ p + 1 = x + (k + 1) /\ k + 1 \in 0 .. card.spc /\ b + k \in Nat
    BY <1>3, <2>1, <2>2
  <2>11. p + 1 = (i - 1) * card.spc + (k + 1)
    BY <2>10 DEF x
  <2>12. file'.sector = DataStart(card) + (C[i] - 2) * card.spc + (k + 1)
    <3>1. b + k + 1 = b + (k + 1)
      BY <2>1
    <3> QED
      BY <2>8, <3>1 DEF b, Base
  <2>13. AtPlace(p + 1)'
    BY <1>1, <1>11, <2>10, <2>11, <2>12 DEF AtPlace, C
  <2>14. W[p + 1] = b + k /\ p + 1 \in 1 .. Len(W)
    BY <2>3, <2>10
  <2>15. value # "eof"
    BY <2>5
  <2> QED
    BY <2>5, <2>6, <2>9, <2>10, <2>13, <2>14, <2>15
<1>12. CASE m # card.spc
  <2>1. m \in 0 .. (card.spc - 1)
    BY <1>3, <1>12
  <2>2. ~AtClusterEnd
    BY <1>9, <1>12
  <2>3. file'.cluster = C[j]
    BY <1>5, <1>10, <2>2
  <2>4. sector = Base(card, C[j]) + m /\ ~ended
    BY <1>7, <2>2
  <2> HIDE DEF sector, ended
  <2> QED
    BY <1>5, <1>11, <2>1, <2>3, <2>4 DEF W
<1>13. CASE m = card.spc
  <2>1. AtClusterEnd /\ load_fat_sector(file.cluster \div FatEntries, TRUE)
    BY <1>9, <1>10, <1>13
  <2>2. p = j * card.spc
    <3>1. j \in Int /\ (j - 1) * card.spc + card.spc = j * card.spc
      BY <1>3, <1>4
    <3> QED
      BY <1>5, <1>13, <3>1
  <2>3. CASE j = Len(C)
    <3>1. fat_is_last_cluster(next)
      BY <1>2, <1>5, <2>1, <2>3, NextOfChain DEF C, next
    <3>2. value = "eof"
      BY <1>10, <2>1, <3>1
    <3>3. Len(W) = Len(C) * card.spc
      BY <1>1, <1>2, SectorPlace DEF W, C
    <3> QED
      BY <2>2, <2>3, <3>2, <3>3 DEF W
  <2>4. CASE j # Len(C)
    <3>1. /\ next = C[j + 1] /\ ~fat_is_last_cluster(next) /\ j + 1 \in 1 .. Len(C)
          /\ first_sector_of_cluster(next) = Base(card, C[j + 1])
      BY <1>2, <1>5, <2>1, <2>4, NextOfChain DEF C, next
    <3>2. file'.cluster = C[j + 1] /\ ~ended
      BY <1>10, <2>1, <3>1
    <3>3. Base(card, C[j + 1]) \in Nat
      BY <1>6, <3>1
    <3>4. sector = Base(card, C[j + 1]) + 0
      <4> DEFINE b == Base(card, C[j + 1])
      <4>1. sector = b /\ b \in Nat
        BY <2>1, <3>1, <3>3
      <4> HIDE DEF b, sector
      <4>2. sector = b + 0
        BY <4>1
      <4> QED
        BY <4>2 DEF b
    <3>5. 0 \in 0 .. (card.spc - 1)
      BY <1>3
    <3>6. p = ((j + 1) - 1) * card.spc + 0
      <4>1. (j + 1) - 1 = j /\ j * card.spc \in Int
        BY <1>3, <1>4
      <4> QED
        BY <2>2, <4>1
    <3> HIDE DEF sector, ended
    <3> QED
      BY <1>11, <3>1, <3>2, <3>4, <3>5, <3>6 DEF W
  <2> QED
    BY <2>3, <2>4
<1> QED
  BY <1>12, <1>13

(* The page the data goes to and the place in it are those of the sector's *)
(* number.                                                                 *)
LEMMA RomPlace ==
  ASSUME NEW n \in Nat, n < Pages * PageSectors, NEW b,
         b = IF n % PageSectors = 0 THEN (n \div PageSectors) % Pages ELSE n \div PageSectors
  PROVE  /\ b = n \div PageSectors /\ b * PageSectors + (n % PageSectors) = n
         /\ n \in 0 .. (Pages * PageSectors - 1)
         /\ (n + 1) % PageSectors # 0 => (n + 1) \div PageSectors = b
<1> DEFINE q == n \div PageSectors
           r == n % PageSectors
<1>1. PageSectors \in Nat \ {0} /\ Pages \in Nat \ {0} /\ Pages * PageSectors \in Nat
  BY Constants
<1>2. q \in Nat /\ r \in 0 .. (PageSectors - 1) /\ n = q * PageSectors + r
  BY <1>1, Division
<1> HIDE DEF q, r
<1>3. q < Pages
  <2> SUFFICES ASSUME Pages <= q PROVE FALSE
    BY <1>1, <1>2
  <2>1. Pages * PageSectors <= q * PageSectors /\ q * PageSectors \in Nat
    BY <1>1, <1>2, TimesLeq
  <2> QED
    BY <1>1, <1>2, <2>1
<1>4. q % Pages = q
  <2>1. q \in 0 .. (Pages - 1)
    BY <1>1, <1>2, <1>3
  <2> QED
    BY <1>1, <2>1, Small
<1>5. b = q
  BY <1>4 DEF q
<1>6. ASSUME (n + 1) % PageSectors # 0 PROVE (n + 1) \div PageSectors = q
  <2>1. CASE r = PageSectors - 1
    <3>1. n + 1 = (q + 1) * PageSectors + 0
      BY <1>1, <1>2, <2>1
    <3>2. ((q + 1) * PageSectors + 0) % PageSectors = 0
      <4>1. 0 \in 0 .. (PageSectors - 1) /\ q + 1 \in Int
        BY <1>1, <1>2
      <4> QED
        BY <1>1, <4>1, DivMod
    <3> QED
      BY <1>6, <3>1, <3>2
  <2>2. CASE r # PageSectors - 1
    <3>1. r + 1 \in 0 .. (PageSectors - 1) /\ q \in Int
      BY <1>1, <1>2, <2>2
    <3>2. n + 1 = q * PageSectors + (r + 1)
      <4>1. q * PageSectors \in Nat
        BY <1>1, <1>2
      <4> QED
        BY <1>2, <4>1
    <3>3. (q * PageSectors + (r + 1)) \div PageSectors = q
      BY <1>1, <3>1, DivMod
    <3> QED
      BY <3>2, <3>3
  <2> QED
    BY <2>1, <2>2
<1>7. b * PageSectors + (n % PageSectors) = n
  BY <1>2, <1>5 DEF r
<1>8. n \in 0 .. (Pages * PageSectors - 1)
  <2> DEFINE z == Pages * PageSectors
  <2>1. z \in Nat /\ n < z
    BY <1>1
  <2> HIDE DEF z
  <2>2. n \in 0 .. (z - 1)
    BY <2>1
  <2> QED
    BY <2>2 DEF z
<1> QED
  BY <1>5, <1>6, <1>7, <1>8 DEF q

(* A sector that is loaded is put behind those that were; one that fails   *)
(* is reported, and nothing is put.                                        *)
LEMMA SectorPut ==
  ASSUME CardInSlot, Shapes, Mounted, Loading,
         vol' = vol, width' = width, chosen' = chosen,
         NEW p \in Nat, Transferred(p), p + 1 \in 1 .. Len(SectorsOf(card, chosen)),
         NEW s, s = SectorsOf(card, chosen)[p + 1], s \in Nat, s < card.size,
         rom' = [rom EXCEPT ![size] = Place(s)], size' = size + 1, reported' = reported,
         size \in 0 .. (Pages * PageSectors - 1)
  PROVE  Transferred(p + 1)'
<1> DEFINE W == SectorsOf(card, chosen)
           Held(k, n) == rom[k - 1] = <<vol, W[n]>>
           Holds(k, n) == rom'[k - 1] = <<vol, W[n]>>
<1>1. Geometry(card, width) /\ card' = card /\ SoundChain(card, width, chosen)
  BY MountedCard DEF card, Loading, SoundFile
<1>2. Place(s) = <<vol, W[p + 1]>>
  <2>1. card.size \in Nat /\ card.size <= SectorSpace
    BY <1>1, GeometryFacts
  <2>2. s \in 0 .. (SectorSpace - 1)
    BY <2>1, Constants
  <2>3. s % SectorSpace = s
    BY <2>2, Constants, Small
  <2> QED
    BY <2>3 DEF Place, Wrap
<1>3. Len(W) \in Nat /\ \A a, b \in 1 .. Len(W) : W[a] = W[b] => a = b
  BY <1>1, SectorPlace, SectorsDiffer
<1>4. size \in Nat /\ size <= p /\ DOMAIN rom = 0 .. (Pages * PageSectors - 1)
  BY DEF Loading, Transferred, Shapes
<1>5. \A k \in 1 .. size : \E n \in 1 .. p : Held(k, n)
  BY DEF Transferred, HoldsSector
<1>6. \A k \in 1 .. (size - 1) : \A a, b \in 1 .. Len(W) : Held(k, a) /\ Held(k + 1, b) => a < b
  BY DEF Transferred, HoldsSector
<1>7. reported = 0 => size = p /\ \A k \in 1 .. size : Held(k, k)
  BY DEF Transferred, HoldsSector
<1> HIDE DEF W
<1>8. \A k \in 1 .. size : rom'[k - 1] = rom[k - 1]
  <2> SUFFICES ASSUME NEW k \in 1 .. size PROVE rom'[k - 1] = rom[k - 1]
    OBVIOUS
  <2>1. k - 1 # size
    BY <1>4
  <2> QED
    BY <2>1
<1>9. rom'[size] = <<vol, W[p + 1]>>
  BY <1>2, <1>4
<1>10. \A k \in 1 .. size : \A n : Holds(k, n) <=> Held(k, n)
  BY <1>8
<1>11. \A n \in 1 .. Len(W) : Holds(size + 1, n) => n = p + 1
  <2> SUFFICES ASSUME NEW n \in 1 .. Len(W), Holds(size + 1, n) PROVE n = p + 1
    OBVIOUS
  <2>1. (size + 1) - 1 = size
    BY <1>4
  <2>2. <<vol, W[n]>> = <<vol, W[p + 1]>>
    BY <1>9, <2>1
  <2>3. W[n] = W[p + 1]
    BY <2>2
  <2>4. p + 1 \in 1 .. Len(W)
    BY DEF W
  <2> QED
    BY <1>3, <2>3, <2>4
<1>12. Holds(size + 1, p + 1)
  <2>1. (size + 1) - 1 = size
    BY <1>4
  <2> QED
    BY <1>9, <2>1
<1> HIDE DEF Held, Holds
<1>13. ASSUME NEW k \in 1 .. (size + 1) PROVE \E n \in 1 .. (p + 1) : Holds(k, n)
  <2>1. CASE k = size + 1
    BY <1>12, <2>1
  <2>2. CASE k # size + 1
    <3>1. k \in 1 .. size
      BY <1>4, <2>2
    <3> QED
      BY <1>5, <1>10, <3>1
  <2> QED
    BY <2>1, <2>2
<1>14. ASSUME NEW k \in 1 .. size, NEW a \in 1 .. Len(W), NEW b \in 1 .. Len(W),
              Holds(k, a), Holds(k + 1, b)
       PROVE  a < b
  <2>1. Held(k, a)
    BY <1>10, <1>14
  <2>2. CASE k = size
    <3>1. b = p + 1
      BY <1>11, <1>14, <2>2
    <3>2. PICK n \in 1 .. p : Held(k, n)
      BY <1>5
    <3>3. <<vol, W[n]>> = <<vol, W[a]>>
      BY <2>1, <3>2 DEF Held
    <3>4. n \in 1 .. Len(W)
      <4>1. p + 1 \in 1 .. Len(W)
        BY DEF W
      <4> QED
        BY <1>3, <4>1
    <3>5. n = a
      <4>1. W[n] = W[a]
        BY <3>3
      <4> QED
        BY <1>3, <3>4, <4>1
    <3> QED
      BY <3>1, <3>5
  <2>3. CASE k # size
    <3>1. k \in 1 .. (size - 1) /\ k + 1 \in 1 .. size
      BY <1>4, <2>3
    <3>2. Held(k + 1, b)
      BY <1>10, <1>14, <3>1
    <3> QED
      BY <1>6, <2>1, <3>1, <3>2
  <2> QED
    BY <2>2, <2>3
<1>15. ASSUME reported = 0, NEW k \in 1 .. (size + 1) PROVE size + 1 = p + 1 /\ Holds(k, k)
  <2>1. size = p
    BY <1>7, <1>15
  <2>2. CASE k = size + 1
    BY <1>12, <2>1, <2>2
  <2>3. CASE k # size + 1
    <3>1. k \in 1 .. size
      BY <1>4, <2>3
    <3> QED
      BY <1>7, <1>10, <1>15, <2>1, <3>1
  <2> QED
    BY <2>1, <2>2, <2>3
<1>16. size + 1 <= p + 1 /\ (size + 1) - 1 = size /\ 1 \in 1 .. (size + 1)
  BY <1>4
<1>17. \A k, n : HoldsSector(k, n)' <=> Holds(k, n)
  BY <1>1 DEF HoldsSector, Holds, W
<1>18. \A k \in 1 .. size' : \E n \in 1 .. (p + 1) : HoldsSector(k, n)'
  BY <1>13, <1>17
<1>19. \A k \in 1 .. (size' - 1) : \A a, b \in 1 .. Len(W) :
         HoldsSector(k, a)' /\ HoldsSector(k + 1, b)' => a < b
  BY <1>14, <1>16, <1>17
<1>20. reported' = 0 => size' = p + 1 /\ \A k \in 1 .. size' : HoldsSector(k, k)'
  BY <1>15, <1>16, <1>17
<1>21. W = SectorsOf(card, chosen)'
  BY <1>1 DEF W
<1> QED
  BY <1>16, <1>18, <1>19, <1>20, <1>21 DEF Transferred

LEMMA SectorMissed ==
  ASSUME Loading, vol' = vol, chosen' = chosen, NEW p \in Nat, Transferred(p),
         rom' = rom, size' = size, reported' = (reported % 2) + 1
  PROVE  Transferred(p + 1)' /\ reported' \in 1 .. 2
<1>1. reported' \in 1 .. 2
  BY DEF Loading
<1>2. card' = card
  BY DEF card
<1>3. size \in Nat /\ size <= p /\ size <= p + 1
  BY DEF Loading, Transferred
<1>4. \A k \in 1 .. size : \E n \in 1 .. (p + 1) : HoldsSector(k, n)
  <2>1. \A n \in 1 .. p : n \in 1 .. (p + 1)
    OBVIOUS
  <2> QED
    BY <2>1 DEF Transferred
<1> QED
  BY <1>1, <1>2, <1>3, <1>4 DEF Transferred, HoldsSector

(* A turn of load_rom's loop, while the FAT can be read.                   *)
LEMMA TurnOfLoad ==
  ASSUME CardInSlot, Shapes, Mounted, CacheInv, Loading, LoadSector, ~lost'
  PROVE  Loading'
<1> DEFINE W == SectorsOf(card, chosen)
<1>1. PICK fatOk \in BOOLEAN, ok \in BOOLEAN, value \in {"eof", "loaded", "error"} :
        /\ fat_load_file_sector(fatOk, ok, value)
        /\ value # "eof"
        /\ lost' = (lost \/ ~fatOk)
        /\ rom' = IF value = "loaded"
                  THEN [rom EXCEPT ![banks'[3] * PageSectors + (size % PageSectors)] =
                            Place((file'.sector - 1) % Dword)]
                  ELSE rom
        /\ size' = IF value = "loaded" THEN (size + 1) % SectorSpace ELSE size
        /\ reported' = IF value = "error" THEN (reported % 2) + 1 ELSE reported
  BY DEF LoadSector, LoadTurn
<1>2. /\ pc = "load" /\ pc' = pc /\ vol' = vol /\ width' = width /\ chosen' = chosen
      /\ banks' = IF size % PageSectors = 0
                  THEN [banks EXCEPT ![3] = (size \div PageSectors) % Pages] ELSE banks
  BY DEF LoadSector, LoadTurn
<1>3. fatOk = TRUE
  BY <1>1
<1>4. Geometry(card, width) /\ card' = card /\ SoundFile(card, width, chosen)
      /\ Mountable(card, width)
  BY <1>2, MountedCard DEF card, Loading
<1>5. Len(W) \in Nat \ {0} /\ Len(W) <= Pages * PageSectors
  BY <1>4, SectorPlace DEF SoundFile
<1>6. PICK p \in 0 .. Len(W) : Transferred(p) /\ AtPlace(p)
  BY <1>2 DEF Loading
<1>7. p \in Nat
  BY <1>5
<1>8. /\ p + 1 \in 1 .. Len(W)
      /\ AtPlace(p + 1)' /\ value = IF ok THEN "loaded" ELSE "error"
      /\ (file'.sector - 1) % Dword = W[p + 1]
      /\ W[p + 1] \in Nat /\ W[p + 1] < card.size
  BY <1>1, <1>2, <1>3, <1>4, <1>6, <1>7, NextOfFile
<1> DEFINE s == W[p + 1]
           N == Pages * PageSectors
<1>9. size \in Nat /\ size < N
  <2>1. size \in Nat /\ size <= p
    BY <1>6 DEF Loading, Transferred
  <2>2. N \in Nat
    BY Constants
  <2> HIDE DEF N, W
  <2>3. p < N
    BY <1>5, <1>7, <1>8, <2>2 DEF N, W
  <2> QED
    BY <1>7, <2>1, <2>2, <2>3
<1>10. banks'[3] = IF size % PageSectors = 0 THEN (size \div PageSectors) % Pages
                   ELSE size \div PageSectors
  <2>1. DOMAIN banks = 1 .. 3
    BY DEF Shapes
  <2>2. size % PageSectors # 0 => banks[3] = size \div PageSectors
    BY <1>2 DEF Loading, PageSelected
  <2> QED
    BY <1>2, <2>1, <2>2
<1>11. /\ banks'[3] = size \div PageSectors
       /\ banks'[3] * PageSectors + (size % PageSectors) = size
       /\ size \in 0 .. (N - 1)
       /\ (size + 1) % PageSectors # 0 => (size + 1) \div PageSectors = banks'[3]
  BY <1>9, <1>10, RomPlace
<1>12. (size + 1) % SectorSpace = size + 1
  <2>1. N \in Nat /\ N < SectorSpace
    BY Constants, BootAssumption DEF BootAssumption
  <2> HIDE DEF N
  <2>2. size + 1 \in 0 .. (SectorSpace - 1)
    BY <1>9, <2>1, Constants
  <2> QED
    BY <2>2, Constants, Small
<1>13. Transferred(p + 1)' /\ reported' \in 0 .. 2 /\ size' \in Nat /\ PageSelected'
  <2>1. CASE value = "loaded"
    <3>1. rom' = [rom EXCEPT ![size] = Place(s)] /\ size' = size + 1 /\ reported' = reported
      BY <1>1, <1>8, <1>11, <1>12, <2>1
    <3>2. Transferred(p + 1)'
      BY <1>2, <1>6, <1>7, <1>8, <1>11, <3>1, SectorPut
    <3>3. reported' \in 0 .. 2 /\ size' \in Nat
      BY <1>9, <3>1 DEF Loading
    <3>4. PageSelected'
      BY <1>11, <3>1 DEF PageSelected
    <3> QED
      BY <3>2, <3>3, <3>4
  <2>2. CASE value = "error"
    <3>1. rom' = rom /\ size' = size /\ reported' = (reported % 2) + 1
      BY <1>1, <2>2
    <3>2. Transferred(p + 1)' /\ reported' \in 1 .. 2
      BY <1>2, <1>6, <1>7, <3>1, SectorMissed
    <3>3. PageSelected'
      BY <1>11, <3>1 DEF PageSelected
    <3> QED
      BY <1>9, <3>1, <3>2, <3>3
  <2> QED
    BY <1>1, <2>1, <2>2
<1>14. p + 1 \in 0 .. Len(W)
  BY <1>7, <1>8
<1> QED
  BY <1>2, <1>4, <1>8, <1>13, <1>14 DEF Loading

(* The loop is left at the end of the file and nowhere else.               *)
LEMMA EndOfLoad ==
  ASSUME CardInSlot, Shapes, Mounted, CacheInv, Loading, FileEnds
  PROVE  Loading'
<1> DEFINE W == SectorsOf(card, chosen)
<1>1. PICK fatOk \in BOOLEAN : fat_load_file_sector(fatOk, TRUE, "eof")
  BY DEF FileEnds
<1>2. /\ pc = "load" /\ pc' = "booted" /\ vol' = vol /\ width' = width /\ chosen' = chosen
      /\ size' = size /\ rom' = rom /\ reported' = reported
  BY DEF FileEnds, start_rom
<1>3. fatOk = TRUE
  <2> SUFFICES ASSUME fatOk = FALSE PROVE FALSE
    OBVIOUS
  <2>1. fat_next_cluster(file.cluster, FALSE) = 0
    BY DEF fat_next_cluster
  <2>2. fat_is_last_cluster(0)
    BY <1>1, <2>1 DEF fat_load_file_sector
  <2>3. 0 % Word = 0
    BY Constants
  <2> QED
    BY <2>2, <2>3, Constants DEF fat_is_last_cluster
<1>4. Geometry(card, width) /\ card' = card /\ SoundFile(card, width, chosen)
      /\ Mountable(card, width)
  BY <1>2, MountedCard DEF card, Loading
<1>5. Len(W) \in Nat
  BY <1>4, SectorPlace DEF SoundFile
<1>6. PICK p \in 0 .. Len(W) : Transferred(p) /\ AtPlace(p)
  BY <1>2 DEF Loading
<1>7. p = Len(W)
  <2>1. fat_load_file_sector(TRUE, TRUE, "eof")
    BY <1>1, <1>3, Zenon
  <2>2. p \in Nat
    BY <1>5
  <2> QED
    BY <1>2, <1>4, <1>6, <2>1, <2>2, NextOfFile
<1>8. Transferred(p)'
  <2>1. \A k, n : HoldsSector(k, n)' <=> HoldsSector(k, n)
    BY <1>2, <1>4 DEF HoldsSector
  <2> QED
    BY <1>2, <1>4, <1>6, <2>1 DEF Transferred
<1>9. size' \in Nat /\ reported' \in 0 .. 2
  BY <1>2 DEF Loading
<1> QED
  BY <1>2, <1>4, <1>7, <1>8, <1>9 DEF Loading

-----------------------------------------------------------------------------
(* The invariant is one.                                                   *)

LEMMA BootInit == Init => BootInv
<1> SUFFICES ASSUME Init PROVE BootInv
  OBVIOUS
<1>1. \E s \in Setups : vol = s[1] /\ width = s[2]
  BY DEF Init
<1>2. pc = "start" /\ chosen = 0 /\ ~sdOk
  BY DEF Init
<1>3. Shapes
  BY DEF Init, Shapes, NoWalk, NoEntry, EmptyRom
<1> QED
  BY <1>1, <1>2, <1>3 DEF BootInv

(* What the invariant says of, as far as a step leaves it alone.           *)
LEMMA PartsKept ==
  ASSUME vol' = vol, width' = width
  PROVE  /\ UNCHANGED <<fat, walk, dir, rom, banks>> /\ Shapes => Shapes'
         /\ fat' = fat /\ Mounted => Mounted'
         /\ UNCHANGED <<walk, dir, opened>> /\ Walking => Walking'
         /\ UNCHANGED <<dir, opened, pc, top, cur, swapped>> /\ Choosing => Choosing'
         /\ UNCHANGED <<pc, file, size, rom, banks, reported, chosen>> /\ Loading => Loading'
<1>1. card' = card
  BY DEF card
<1>2. UNCHANGED <<fat, walk, dir, rom, banks>> /\ Shapes => Shapes'
  BY DEF Shapes
<1>3. fat' = fat /\ Mounted => Mounted'
  BY <1>1 DEF Mounted
<1>4. UNCHANGED <<walk, dir, opened>> /\ Walking => Walking'
  BY <1>1 DEF Walking, Listed, AtSector
<1>5. UNCHANGED <<dir, opened, pc, top, cur, swapped>> /\ Choosing => Choosing'
  BY <1>1 DEF Choosing, WholeDirectory
<1>6. UNCHANGED <<pc, file, size, rom, banks, reported, chosen>> /\ Loading => Loading'
  <2> SUFFICES ASSUME UNCHANGED <<pc, file, size, rom, banks, reported, chosen>>, Loading
               PROVE  Loading'
    OBVIOUS
  <2>1. \A k, n : HoldsSector(k, n)' <=> HoldsSector(k, n)
    BY <1>1 DEF HoldsSector
  <2>2. \A p : Transferred(p) => Transferred(p)'
    BY <1>1, <2>1 DEF Transferred
  <2>3. \A p : AtPlace(p) => AtPlace(p)'
    BY <1>1 DEF AtPlace
  <2>4. PageSelected => PageSelected'
    BY DEF PageSelected
  <2> QED
    BY <1>1, <2>2, <2>3, <2>4 DEF Loading
<1> QED
  BY <1>2, <1>3, <1>4, <1>5, <1>6

LEMMA BootNext == SoundCards /\ Debug /\ CacheInv /\ BootInv /\ [Next]_vars => BootInv'
<1> SUFFICES ASSUME SoundCards, Debug, CacheInv, BootInv, [Next]_vars, ~swapped'
             PROVE  BootInv'
  BY DEF BootInv
<1>1. ~swapped
  BY DEF Next, Program, Keys, Start, FirstLook, NoKey, Chord, ReadDirectory, LoadSector, LoadTurn,
         FileEnds, ChooseMode, BootSram, RetryCard, OpenRoot, Up, Down, EnterDirectory, PickFile, Button,
         Reset, Swap, Booted, vars
<1>2. /\ CardInSlot /\ Shapes /\ (\E s \in Setups : vol = s[1] /\ width = s[2])
      /\ pc \in {"start", "mode", "opendir", "menu", "load", "booted"}
      /\ pc \in {"opendir", "menu", "load"} \/ (pc = "mode" /\ sdOk) => Mounted
      /\ pc = "opendir" => Walking
      /\ pc = "menu" => Choosing
      /\ pc \in {"start", "mode", "opendir", "menu"} => chosen = 0
      /\ chosen # 0 /\ ~lost => Loading
  BY <1>1 DEF BootInv, CardInSlot
<1>3. CASE FirstLook \/ NoKey \/ Chord \/ ChooseMode \/ (\E b \in Buttons : Button(b)) \/ Booted
           \/ UNCHANGED vars
  <2>1. UNCHANGED <<vol, width, fat, walk, dir, file, pc, sdOk, top, cur, size, rom, banks,
                    reported, lost, opened, chosen, swapped>>
    BY <1>3 DEF FirstLook, NoKey, Chord, ChooseMode, Button, Booted, vars, fatVars, menuVars, loadVars
  <2> QED
    BY <1>2, <2>1, PartsKept DEF BootInv
<1>4. CASE Start
  <2>1. UNCHANGED <<vol, width, walk, dir, rom, banks, swapped>> /\ pc' = "mode" /\ chosen' = 0
    BY <1>4 DEF Start, loadVars
  <2>2. PICK ready \in BOOLEAN, mounted \in BOOLEAN :
          /\ IF ready THEN fat_init(mounted) ELSE ~mounted /\ UNCHANGED fat
          /\ sdOk' = (ready /\ mounted = Debug)
    BY <1>4 DEF Start
  <2>3. DOMAIN fat' = DOMAIN fat
    BY <2>2 DEF fat_init, fat_init16, fat_init32
  <2>4. Shapes'
    BY <1>2, <2>1, <2>3 DEF Shapes
  <2>5. ASSUME sdOk' PROVE Mounted'
    <3>1. ready /\ mounted = TRUE
      BY <2>2, <2>5
    <3>2. fat_init(TRUE)
      BY <2>2, <3>1
    <3> QED
      BY <1>2, <2>1, <3>2, Mounts
  <2> QED
    BY <1>2, <2>1, <2>4, <2>5 DEF BootInv
<1>5. CASE BootSram \/ RetryCard
  <2>1. /\ UNCHANGED <<vol, width, fat, walk, dir, rom, chosen, swapped>>
        /\ pc' \in {"booted", "start"} /\ pc = "mode" /\ (banks' = banks \/ banks' = <<0, 1, 2>>)
    BY <1>5 DEF BootSram, RetryCard, start_rom, fatVars, loadVars
  <2>2. DOMAIN <<0, 1, 2>> = 1 .. 3
    OBVIOUS
  <2>3. Shapes'
    BY <1>2, <2>1, <2>2 DEF Shapes
  <2> QED
    BY <1>2, <2>1, <2>3 DEF BootInv
<1>6. CASE OpenRoot
  <2>1. Mounted /\ chosen = 0 /\ pc' = "opendir" /\ chosen' = chosen /\ rom' = rom /\ banks' = banks
    BY <1>2, <1>6 DEF OpenRoot, loadVars
  <2>2. fat.fat32 = card.fat32 /\ (card.fat32 => fat.root = card.root)
    BY <2>1 DEF Mounted
  <2>3. fat_open_directory(RootOf(card)) /\ opened' = RootOf(card)
    BY <1>6, <2>2 DEF OpenRoot, fat_open_root_directory, fat_open_directory, RootOf
  <2>4. SoundDirectory(card, width, RootOf(card))
    BY <1>2, <2>1, MountedCard
  <2>5. Walking'
    BY <1>2, <2>1, <2>3, <2>4, OpenDirectory
  <2>6. UNCHANGED <<vol, width, fat>> /\ dir' = clear_directory_buffer
        /\ DOMAIN walk' = {"chain", "cluster", "sector", "i", "ptr"}
    BY <2>3 DEF fat_open_directory, open_root16
  <2>7. Shapes' /\ Mounted'
    BY <1>2, <2>1, <2>6, PartsKept DEF Shapes, clear_directory_buffer
  <2> QED
    BY <1>2, <2>1, <2>5, <2>6, <2>7 DEF BootInv
<1>7. CASE ReadDirectory
  <2>1. PICK ok \in BOOLEAN, fatOk \in BOOLEAN, how \in {"on", "listed", "error"} :
          /\ ReadDirSector(ok, fatOk, how)
          /\ pc' = CASE how = "on" -> "opendir" [] how = "listed" -> "menu"
                     [] how = "error" -> "start"
          /\ how = "listed" => top' = 0 /\ cur' = 0
    BY <1>7 DEF ReadDirectory
  <2>2. /\ pc = "opendir" /\ opened' = opened /\ chosen' = chosen /\ rom' = rom /\ banks' = banks
        /\ Mounted /\ Walking /\ chosen = 0
    BY <1>2, <1>7 DEF ReadDirectory, loadVars
  <2>3. /\ vol' = vol /\ width' = width /\ FatKept
        /\ DOMAIN walk' = {"chain", "cluster", "sector", "i", "ptr"}
        /\ DOMAIN dir' = 0 .. (DirRoom - 1)
        /\ \A j \in 0 .. (DirRoom - 1) : DOMAIN dir'[j] = {"type", "cluster"}
        /\ how = "on" => Walking'
        /\ how = "listed" /\ top' = 0 /\ cur' = 0 => Choosing'
    BY <1>2, <2>1, <2>2, TurnOfDirectory
  <2>4. Shapes'
    BY <1>2, <2>2, <2>3 DEF Shapes, FatKept
  <2>5. Mounted'
    BY <2>2, <2>3, MountedKept
  <2>6. \/ how = "on" /\ pc' = "opendir"
        \/ how = "listed" /\ pc' = "menu" /\ top' = 0 /\ cur' = 0
        \/ pc' = "start"
    BY <2>1
  <2> QED
    BY <1>2, <2>2, <2>3, <2>4, <2>5, <2>6 DEF BootInv
<1>8. CASE Up \/ Down
  <2>1. /\ UNCHANGED <<vol, width, fat, walk, dir, file, rom, banks, opened, chosen, swapped, pc>>
        /\ pc = "menu"
    BY <1>8 DEF Up, Down, fatVars, loadVars
  <2>2. Mounted /\ Choosing /\ chosen = 0
    BY <1>2, <2>1
  <2>3. Choosing'
    BY <1>2, <1>8, <2>1, <2>2, CursorUp, CursorDown
  <2>4. Shapes' /\ Mounted'
    BY <1>2, <2>1, <2>2, PartsKept
  <2> QED
    BY <1>2, <2>1, <2>2, <2>3, <2>4 DEF BootInv
<1>9. CASE EnterDirectory
  <2>1. /\ pc = "menu" /\ dir[cur].type \in {0, 1} /\ fat_open_directory(dir[cur].cluster)
        /\ opened' = dir[cur].cluster /\ pc' = "opendir" /\ chosen' = chosen
        /\ rom' = rom /\ banks' = banks
    BY <1>9 DEF EnterDirectory, loadVars
  <2>2. Mounted /\ Choosing /\ chosen = 0
    BY <1>2, <2>1
  <2>3. SoundDirectory(card, width, dir[cur].cluster)
    <3>1. cur \in 0 .. (Cardinality(Listing(card, opened)) - 1)
      BY <1>2, <2>1, <2>2, MenuLines DEF Choosing
    <3>2. /\ dir[cur].type \in {1, 17}
          /\ dir[cur].type = 1 => SoundDirectory(card, width, dir[cur].cluster)
      BY <1>2, <2>1, <2>2, <3>1, MenuLines
    <3> QED
      BY <2>1, <3>2
  <2>4. Walking'
    BY <1>2, <2>1, <2>2, <2>3, OpenDirectory
  <2>5. UNCHANGED <<vol, width, fat>> /\ dir' = clear_directory_buffer
        /\ DOMAIN walk' = {"chain", "cluster", "sector", "i", "ptr"}
    BY <2>1 DEF fat_open_directory, open_root16
  <2>6. Shapes' /\ Mounted'
    BY <1>2, <2>1, <2>2, <2>5, PartsKept DEF Shapes, clear_directory_buffer
  <2> QED
    BY <1>2, <2>1, <2>2, <2>4, <2>5, <2>6 DEF BootInv
<1>10. CASE PickFile
  <2>1. /\ pc = "menu" /\ dir[cur].type = 17 /\ fat_open_file(dir[cur].cluster)
        /\ chosen' = dir[cur].cluster /\ size' = 0 /\ reported' = 0 /\ pc' = "load"
        /\ UNCHANGED <<vol, width, fat, dir, walk, rom, banks>>
    BY <1>10 DEF PickFile
  <2>2. Mounted /\ Choosing
    BY <1>2, <2>1
  <2>3. ASSUME chosen' # 0 PROVE SoundFile(card, width, dir[cur].cluster)
    <3>1. cur \in 0 .. (Cardinality(Listing(card, opened)) - 1)
      BY <1>2, <2>1, <2>2, MenuLines DEF Choosing
    <3> QED
      BY <1>2, <2>1, <2>2, <2>3, <3>1, MenuLines
  <2>4. chosen' # 0 => Loading'
    BY <1>2, <2>1, <2>2, <2>3, OpenFile
  <2>5. Shapes' /\ Mounted'
    BY <1>2, <2>1, <2>2, PartsKept
  <2> QED
    BY <1>2, <2>1, <2>4, <2>5 DEF BootInv
<1>11. CASE LoadSector
  <2>1. /\ pc = "load" /\ pc' = pc /\ chosen' = chosen
        /\ UNCHANGED <<vol, width, dir, walk>> /\ Mounted
    BY <1>2, <1>11 DEF LoadSector, LoadTurn
  <2>2. /\ DOMAIN rom' = DOMAIN rom /\ DOMAIN banks' = DOMAIN banks
    BY <1>11 DEF LoadSector, LoadTurn
  <2>3. (lost => lost') /\ FatKept
    <3>1. PICK fatOk \in BOOLEAN, ok \in BOOLEAN, value \in {"eof", "loaded", "error"} :
            fat_load_file_sector(fatOk, ok, value) /\ lost' = (lost \/ ~fatOk)
      BY <1>11 DEF LoadSector, LoadTurn
    <3>2. load_fat_sector(file.cluster \div FatEntries, fatOk) \/ UNCHANGED <<fat, fatBuf>>
      BY <3>1 DEF fat_load_file_sector
    <3> QED
      BY <1>2, <3>1, <3>2, LookupKeeps
  <2>4. chosen' # 0 /\ ~lost' => Loading'
    BY <1>2, <1>11, <2>1, <2>3, TurnOfLoad
  <2>5. Shapes'
    BY <1>2, <2>1, <2>2, <2>3 DEF Shapes, FatKept
  <2>6. Mounted'
    BY <2>1, <2>3, MountedKept
  <2> QED
    BY <1>2, <2>1, <2>4, <2>5, <2>6 DEF BootInv
<1>12. CASE FileEnds
  <2>1. /\ pc = "load" /\ pc' = "booted" /\ chosen' = chosen /\ lost' = lost
        /\ UNCHANGED <<vol, width, dir, walk, rom>> /\ banks' = <<0, 1, 2>> /\ Mounted
    BY <1>2, <1>12 DEF FileEnds, start_rom
  <2>2. FatKept
    <3>1. PICK fatOk \in BOOLEAN : fat_load_file_sector(fatOk, TRUE, "eof")
      BY <1>12 DEF FileEnds
    <3>2. load_fat_sector(file.cluster \div FatEntries, fatOk) \/ UNCHANGED <<fat, fatBuf>>
      BY <3>1 DEF fat_load_file_sector
    <3> QED
      BY <1>2, <3>2, LookupKeeps
  <2>3. chosen' # 0 /\ ~lost' => Loading'
    BY <1>2, <1>12, <2>1, EndOfLoad
  <2>4. DOMAIN <<0, 1, 2>> = 1 .. 3
    OBVIOUS
  <2>5. Shapes'
    BY <1>2, <2>1, <2>2, <2>4 DEF Shapes, FatKept
  <2> QED
    BY <1>2, <2>1, <2>3, <2>5 DEF BootInv
<1>13. CASE Reset
  <2>1. /\ UNCHANGED <<vol, width, fat, dir>> /\ pc' = "start" /\ chosen' = 0
        /\ rom' = EmptyRom /\ banks' = <<0, 1, 2>> /\ walk' = NoWalk
    BY <1>13 DEF Reset
  <2>2. DOMAIN <<0, 1, 2>> = 1 .. 3
    OBVIOUS
  <2>3. Shapes'
    BY <1>2, <2>1, <2>2 DEF Shapes, EmptyRom, NoWalk
  <2> QED
    BY <1>2, <2>1, <2>3 DEF BootInv
<1>14. ~Swap
  BY DEF Swap
<1> QED
  BY <1>3, <1>4, <1>5, <1>6, <1>7, <1>8, <1>9, <1>10, <1>11, <1>12, <1>13, <1>14
     DEF Next, Program, Keys

-----------------------------------------------------------------------------
(* What it means for the user.                                             *)

LEMMA BootAlways ==
  ASSUME SoundCards, Debug
  PROVE  Spec => [](CacheInv /\ BootInv)
<1>1. Init => CacheInv /\ BootInv
  BY CacheInit, BootInit
<1>2. (CacheInv /\ BootInv) /\ [Next]_vars => (CacheInv /\ BootInv)'
  BY CacheNext, BootNext
<1> QED
  BY <1>1, <1>2, PTL DEF Spec

(* With sound cards, whatever sectors fail and however often the button is *)
(* pressed: the menu shows the directory that was opened, all of it, in    *)
(* its order and marked at its end (fat.c:253, 367).                       *)
THEOREM ListingIsWhole ==
  ASSUME SoundCards, Debug
  PROVE  Spec => []WholeDirectory
<1>1. CacheInv /\ BootInv => WholeDirectory
  BY DEF BootInv, Choosing, WholeDirectory
<1> QED
  BY <1>1, BootAlways, PTL

(* With sound cards, until the card is exchanged: the cursor is on a line  *)
(* that is shown and has an entry (main.c:138).                            *)
THEOREM CursorStaysListed ==
  ASSUME SoundCards, Debug
  PROVE  Spec => [](~swapped => CursorListed)
<1>1. CacheInv /\ BootInv => (~swapped => CursorListed)
  <2> SUFFICES ASSUME BootInv, ~swapped, pc = "menu"
               PROVE  top <= cur /\ cur < top + Screen /\ dir[cur].type # 0
    BY DEF CursorListed
  <2>1. CardInSlot /\ Mounted /\ Choosing
    BY DEF BootInv, CardInSlot
  <2>2. Cardinality(Listing(card, opened)) \in Nat
        /\ \A j \in 0 .. (Cardinality(Listing(card, opened)) - 1) : dir[j].type \in {1, 17}
    BY <2>1, MenuLines
  <2>3. cur \in 0 .. (Cardinality(Listing(card, opened)) - 1)
    BY <2>1, <2>2 DEF Choosing
  <2>4. dir[cur].type # 0
    BY <2>2, <2>3
  <2> QED
    BY <2>1, <2>4 DEF Choosing
<1> QED
  BY <1>1, BootAlways, PTL

(* With sound cards, as long as the FAT can be read: what is behind the    *)
(* mapper is the file that was picked, sector by sector, without those     *)
(* that were reported, and it is all there when the program is started and *)
(* none was (main.c:193).                                                  *)
THEOREM RomIsTheFile ==
  ASSUME SoundCards, Debug
  PROVE  Spec => []RomIsFile
<1>1. CacheInv /\ BootInv => RomIsFile
  <2> DEFINE W == SectorsOf(card, chosen)
             loaded == [k \in 1 .. size |-> rom[k - 1]]
             at(k) == CHOOSE n \in DOMAIN W : loaded[k] = <<vol, W[n]>>
  <2> SUFFICES ASSUME BootInv, chosen # 0, ~swapped, ~lost
               PROVE  /\ \A k \in 1 .. size : \E n \in DOMAIN W : loaded[k] = <<vol, W[n]>>
                      /\ \A k \in 1 .. (size - 1) : at(k) < at(k + 1)
                      /\ reported = 0 => /\ \A k \in 1 .. size : at(k) = k
                                         /\ pc = "booted" => size = Len(W)
    BY DEF RomIsFile
  <2>1. CardInSlot /\ Loading /\ pc \in {"load", "booted"}
    BY DEF BootInv, CardInSlot
  <2>2. Mountable(card, width)
    BY <2>1 DEF Loading
  <2>3. Geometry(card, width) /\ SoundChain(card, width, chosen)
    BY <2>1, <2>2, Slot DEF SoundCard, Loading, SoundFile
  <2>4. /\ Len(W) \in Nat /\ DOMAIN W = 1 .. Len(W)
        /\ \A a, b \in 1 .. Len(W) : W[a] = W[b] => a = b
    BY <2>3, SectorPlace, SectorsDiffer
  <2>5. PICK p \in 0 .. Len(W) : Transferred(p) /\ (pc = "booted" => p = Len(W))
    BY <2>1 DEF Loading
  <2>6. size \in Nat /\ size <= p /\ p \in Nat /\ p <= Len(W) /\ Len(W) \in Nat
    <3>1. size \in Nat /\ size <= p
      BY <2>1, <2>5 DEF Loading, Transferred
    <3>2. Len(W) \in Nat
      BY <2>4
    <3>3. p \in 0 .. Len(W)
      OBVIOUS
    <3> HIDE DEF W
    <3> QED
      BY <3>1, <3>2, <3>3
  <2>7. \A k \in 1 .. size : \A n : loaded[k] = <<vol, W[n]>> <=> HoldsSector(k, n)
    BY DEF HoldsSector
  <2> HIDE DEF W, loaded
  <2>8. /\ \A k \in 1 .. size : \E n \in 1 .. p : HoldsSector(k, n)
        /\ \A k \in 1 .. (size - 1) : \A a, b \in 1 .. Len(W) :
             HoldsSector(k, a) /\ HoldsSector(k + 1, b) => a < b
        /\ reported = 0 => size = p /\ \A k \in 1 .. size : HoldsSector(k, k)
    BY <2>5 DEF Transferred, W
  <2>9. \A k \in 1 .. size : \E n \in DOMAIN W : loaded[k] = <<vol, W[n]>>
    <3>1. \A n \in 1 .. p : n \in DOMAIN W
      BY <2>4, <2>6
    <3> QED
      BY <2>7, <2>8, <3>1
  <2>10. \A k \in 1 .. size : at(k) \in 1 .. Len(W) /\ HoldsSector(k, at(k))
    BY <2>4, <2>7, <2>9
  <2> HIDE DEF at
  <2>11. \A k \in 1 .. (size - 1) : at(k) < at(k + 1)
    <3> SUFFICES ASSUME NEW k \in 1 .. (size - 1) PROVE at(k) < at(k + 1)
      OBVIOUS
    <3>1. k \in 1 .. size /\ k + 1 \in 1 .. size
      BY <2>6
    <3>2. at(k) \in 1 .. Len(W) /\ HoldsSector(k, at(k))
      BY <2>10, <3>1
    <3>3. at(k + 1) \in 1 .. Len(W) /\ HoldsSector(k + 1, at(k + 1))
      BY <2>10, <3>1
    <3> QED
      BY <2>8, <3>2, <3>3
  <2>12. ASSUME reported = 0 PROVE (\A k \in 1 .. size : at(k) = k) /\ (pc = "booted" => size = Len(W))
    <3>1. ASSUME NEW k \in 1 .. size PROVE at(k) = k
      <4>1. HoldsSector(k, k) /\ HoldsSector(k, at(k)) /\ at(k) \in 1 .. Len(W)
        BY <2>8, <2>10, <2>12
      <4>2. <<vol, W[k]>> = <<vol, W[at(k)]>>
        BY <4>1 DEF HoldsSector, W
      <4>3. W[k] = W[at(k)]
        BY <4>2
      <4>4. k \in 1 .. Len(W)
        BY <2>6
      <4> QED
        BY <2>4, <4>1, <4>3, <4>4
    <3> QED
      BY <2>5, <2>8, <2>12, <3>1
  <2> QED
    BY <2>9, <2>11, <2>12
<1> QED
  BY <1>1, BootAlways, PTL

(* A program that is started is whole, or an error was shown, in every run *)
(* in which each load of a FAT sector succeeds: that fat_next_cluster      *)
(* answers 0 (fat.c:193) is the only way past the report of main.c:203.    *)
THEOREM WholeUnlessLost ==
  ASSUME SoundCards, Debug
  PROVE  Spec => [](~lost => WholeOrReported)
<1>1. CacheInv /\ BootInv => (~lost => WholeOrReported)
  <2> DEFINE W == SectorsOf(card, chosen)
  <2> SUFFICES ASSUME BootInv, pc = "booted", chosen # 0, ~swapped, ~lost, reported = 0
               PROVE  size = Len(W) /\ \A k \in DOMAIN W : rom[k - 1] = <<vol, W[k]>>
    BY DEF WholeOrReported
  <2>1. CardInSlot /\ Loading
    BY DEF BootInv, CardInSlot
  <2>2. Mountable(card, width)
    BY <2>1 DEF Loading
  <2>3. Geometry(card, width) /\ SoundChain(card, width, chosen)
    BY <2>1, <2>2, Slot DEF SoundCard, Loading, SoundFile
  <2>4. DOMAIN W = 1 .. Len(W)
    BY <2>3, SectorPlace
  <2>5. size = Len(W) /\ \A k \in 1 .. size : rom[k - 1] = <<vol, W[k]>>
    BY <2>1 DEF Loading, Transferred, HoldsSector
  <2> HIDE DEF W
  <2> QED
    BY <2>4, <2>5
<1> QED
  BY <1>1, BootAlways, PTL

-----------------------------------------------------------------------------
(* Types                                                                   *)

(* What holds of any card.                                                 *)
PlainInv ==
  /\ pc \in {"start", "mode", "opendir", "menu", "load", "booted"}
  /\ sdOk \in BOOLEAN /\ lost \in BOOLEAN /\ swapped \in BOOLEAN
  /\ choice \in 0 .. 1 /\ reported \in 0 .. 2 /\ size \in 0 .. (SectorSpace - 1)
  /\ pc \in {"start", "mode", "opendir", "menu"} => size = 0
  /\ banks \in [1 .. 3 -> 0 .. (Pages - 1)]
  /\ joy \subseteq Buttons /\ seen \subseteq Buttons

LEMMA FirstBanks == <<0, 1, 2>> \in [1 .. 3 -> 0 .. (Pages - 1)]
BY BootAssumption DEF BootAssumption

LEMMA NoSize == 0 \in 0 .. (SectorSpace - 1)
BY Constants

LEMMA SizeType == PlainInv => size \in Nat
BY Constants DEF PlainInv

LEMMA PlainInit == Init => PlainInv
<1> SUFFICES ASSUME Init PROVE PlainInv
  OBVIOUS
<1>1. /\ pc = "start" /\ choice = 0 /\ size = 0 /\ banks = <<0, 1, 2>>
      /\ reported = 0 /\ joy = {} /\ seen = {}
  BY DEF Init
<1>2. sdOk \in BOOLEAN /\ lost \in BOOLEAN /\ swapped \in BOOLEAN
  BY Zenon DEF Init
<1> QED
  BY <1>1, <1>2, FirstBanks, NoSize DEF PlainInv

LEMMA PlainNext == PlainInv /\ [Next]_vars => PlainInv'
<1> SUFFICES ASSUME PlainInv, [Next]_vars PROVE PlainInv'
  OBVIOUS
<1>1. CASE FirstLook \/ NoKey \/ Chord \/ (\E b \in Buttons : Button(b))
  <2>1. UNCHANGED <<pc, menuVars, loadVars, swapped>>
    BY <1>1 DEF FirstLook, NoKey, Chord, Button
  <2>2. joy' \subseteq Buttons /\ seen' \subseteq Buttons
    BY <1>1 DEF FirstLook, NoKey, Chord, Button, AwaitKey, PlainInv
  <2> QED
    BY <2>1, <2>2 DEF PlainInv, menuVars, loadVars
<1>2. CASE ChooseMode \/ RetryCard \/ OpenRoot \/ Up \/ Down \/ EnterDirectory
  <2>1. UNCHANGED <<joy, loadVars, swapped, sdOk>> /\ seen' = {} /\ choice' \in 0 .. 1
    BY <1>2 DEF ChooseMode, RetryCard, OpenRoot, Up, Down, EnterDirectory, Key, menuVars, PlainInv
  <2>2. /\ pc \in {"mode", "menu"}
        /\ pc' \in {"start", "mode", "opendir", "menu"}
    BY <1>2 DEF ChooseMode, RetryCard, OpenRoot, Up, Down, EnterDirectory
  <2> QED
    BY <2>1, <2>2 DEF PlainInv, loadVars
<1>3. CASE Start
  <2>1. UNCHANGED <<joy, loadVars, swapped>> /\ seen' = {} /\ choice' = 0 /\ sdOk' \in BOOLEAN
    BY <1>3 DEF Start, AwaitKey
  <2> QED
    BY <1>3, <2>1 DEF PlainInv, loadVars, Start
<1>4. CASE BootSram
  <2>1. UNCHANGED <<joy, sdOk, choice, lost, swapped, reported, size>> /\ seen' = {}
        /\ banks' = <<0, 1, 2>> /\ pc' = "booted"
    BY <1>4 DEF BootSram, start_rom, Key, menuVars
  <2> QED
    BY <2>1, FirstBanks DEF PlainInv
<1>5. CASE ReadDirectory
  <2>1. /\ UNCHANGED <<joy, sdOk, choice, loadVars, swapped>> /\ seen' \subseteq Buttons
        /\ pc = "opendir" /\ pc' \in {"opendir", "menu", "start"}
    BY <1>5 DEF ReadDirectory, AwaitKey, keyVars, PlainInv
  <2> QED
    BY <2>1 DEF PlainInv, loadVars
<1>6. CASE PickFile
  <2>1. /\ UNCHANGED <<joy, sdOk, choice, banks, swapped>> /\ seen' = {} /\ pc' = "load"
        /\ size' = 0 /\ reported' = 0
    BY <1>6 DEF PickFile, Key, menuVars
  <2>2. lost' \in BOOLEAN
    BY <1>6, Zenon DEF PickFile
  <2> QED
    BY <2>1, <2>2, NoSize DEF PlainInv
<1>7. CASE LoadSector
  <2>1. /\ UNCHANGED <<joy, seen, sdOk, choice, swapped, pc>> /\ pc = "load"
    BY <1>7 DEF LoadSector, LoadTurn, keyVars, menuVars
  <2>2. lost' \in BOOLEAN
    BY <1>7, Zenon DEF LoadSector, LoadTurn, PlainInv
  <2>3. size' = size \/ size' = (size + 1) % SectorSpace
    BY <1>7 DEF LoadSector, LoadTurn
  <2>4. size' \in 0 .. (SectorSpace - 1)
    <3>1. size \in Nat
      BY SizeType
    <3>2. (size + 1) % SectorSpace \in 0 .. (SectorSpace - 1)
      BY <3>1, Constants
    <3> QED
      BY <2>3, <3>2 DEF PlainInv
  <2>5. lost' \in BOOLEAN /\ size' \in 0 .. (SectorSpace - 1) /\ reported' \in 0 .. 2
    <3>1. reported' \in 0 .. 2
      BY <1>7 DEF LoadSector, LoadTurn, PlainInv
    <3> QED
      BY <2>2, <2>4, <3>1
  <2>6. (size \div PageSectors) % Pages \in 0 .. (Pages - 1)
    <3>1. size \div PageSectors \in Nat
      BY Constants, Division, SizeType DEF PlainInv
    <3> HIDE DEF PlainInv
    <3> QED
      BY <3>1, Constants
  <2>7. banks' \in [1 .. 3 -> 0 .. (Pages - 1)]
    BY <1>7, <2>6 DEF LoadSector, LoadTurn, PlainInv
  <2> QED
    BY <2>1, <2>5, <2>7 DEF PlainInv
<1>8. CASE FileEnds
  <2>1. /\ UNCHANGED <<joy, seen, sdOk, choice, swapped, size, reported, lost>>
        /\ banks' = <<0, 1, 2>> /\ pc' = "booted"
    BY <1>8 DEF FileEnds, start_rom, keyVars, menuVars
  <2> QED
    BY <2>1, FirstBanks DEF PlainInv
<1>9. CASE Reset
  <2>1. /\ UNCHANGED <<joy, swapped>> /\ seen' = {} /\ choice' = 0
        /\ size' = 0 /\ reported' = 0 /\ banks' = <<0, 1, 2>> /\ pc' = "start"
    BY <1>9 DEF Reset, AwaitKey
  <2>2. sdOk' \in BOOLEAN /\ lost' \in BOOLEAN
    BY <1>9, Zenon DEF Reset
  <2> QED
    BY <2>1, <2>2, FirstBanks, NoSize DEF PlainInv
<1>10. CASE Swap
  <2>1. UNCHANGED <<pc, menuVars, loadVars, keyVars>> /\ swapped' = TRUE
    BY <1>10 DEF Swap
  <2> QED
    BY <2>1 DEF PlainInv, menuVars, loadVars, keyVars
<1>11. CASE Booted \/ UNCHANGED vars
  BY <1>11 DEF Booted, vars, PlainInv, menuVars, loadVars, keyVars
<1> QED
  BY <1>1, <1>2, <1>3, <1>4, <1>5, <1>6, <1>7, <1>8, <1>9, <1>10, <1>11 DEF Next, Program, Keys

(* A DWORD.                                                                *)
Dwords == 0 .. (Dword - 1)

LEMMA DwordType ==
  /\ 0 \in Dwords
  /\ \A x \in Int : x % Dword \in Dwords /\ x % Word \in Dwords
BY Constants DEF Dwords

(* fat_buffer holds a sector of one of the cards, or nothing yet.          *)
OfCard(buf) == buf = Nowhere \/ \E s \in Setups : buf[1] = s[1]

LEMMA CellIsNumber ==
  ASSUME NumberedCards, NEW buf, OfCard(buf), NEW i
  PROVE  CellInBuffer(buf, i) \in Nat
<1>1. CASE buf = Nowhere
  BY <1>1 DEF CellInBuffer
<1>2. CASE buf # Nowhere
  <2>1. PICK s \in Setups : buf[1] = s[1]
    BY <1>2 DEF OfCard
  <2>2. \A c \in DOMAIN Cards[s[1]].chain : Cards[s[1]].chain[c] \in Nat
    BY DEF NumberedCards
  <2>3. CellInBuffer(buf, i) = Cell(Cards[s[1]], buf[2], i)
    BY <1>2, <2>1 DEF CellInBuffer
  <2> QED
    BY <2>2, <2>3 DEF Cell
<1> QED
  BY <1>1, <1>2

LEMMA DwordLoaded ==
  ASSUME CardInSlot, NEW x \in Nat
  PROVE  load_dword(x) \in Dwords
<1>1. x % Word \in 0 .. (Word - 1)
  BY Constants
<1>2. (IF x % Word >= Word \div 2 THEN Dword - Word + (x % Word) ELSE x % Word) \in Dwords
  BY <1>1, Constants DEF Dwords
<1>3. width \in {"full", "zero", "sign"}
  BY Slot
<1> QED
  BY <1>2, <1>3, DwordType DEF load_dword

LEMMA NextIsNumber ==
  ASSUME CardInSlot, NumberedCards, OfCard(fatBuf'), NEW c, NEW ok
  PROVE  fat_next_cluster(c, ok) \in Dwords
<1>1. CellInBuffer(fatBuf', c % FatEntries) \in Nat
  BY CellIsNumber
<1>2. \A x \in Nat : load_dword(x) \in Dwords /\ load_word(x) \in Dwords
  BY DwordLoaded, DwordType DEF load_word
<1> QED
  BY <1>1, <1>2, DwordType DEF fat_next_cluster

LEMMA SectorOfCluster ==
  ASSUME CardInSlot, Mounted, NEW c \in Int
  PROVE  first_sector_of_cluster(c) \in Dwords
<1>1. fat.firstData \in Int /\ fat.spc \in Int
  BY MountedCard, GeometryFacts DEF Mounted
<1>2. fat.firstData + (c - 2) * fat.spc \in Int
  BY <1>1
<1> QED
  BY <1>2, DwordType DEF first_sector_of_cluster

(* A look at the FAT.                                                      *)
LEMMA LookupNumbers ==
  ASSUME CardInSlot, Shapes, Mounted, OfCard(fatBuf), fat.current \in Dwords,
         NEW c \in Dwords, NEW ok,
         load_fat_sector(c \div FatEntries, ok) \/ UNCHANGED <<fat, fatBuf>>
  PROVE  fat'.current \in Dwords /\ OfCard(fatBuf')
<1>1. CASE UNCHANGED <<fat, fatBuf>>
  BY <1>1
<1>2. CASE load_fat_sector(c \div FatEntries, ok)
  <2>1. FatEntries \in Nat \ {0} /\ fat.firstFat \in Int
    <3>1. fat.fat32 = card.fat32 /\ fat.firstFat = FirstFat(card)
      BY DEF Mounted
    <3>2. PerSector(card) \in Nat \ {0} /\ FirstFat(card) \in Nat
      BY MountedCard, GeometryFacts
    <3> QED
      BY <3>1, <3>2 DEF FatEntries, PerSector
  <2>2. c \div FatEntries \in Int
    BY <2>1, Constants DEF Dwords
  <2> DEFINE q == c \div FatEntries
             sector == (q + fat.firstFat) % Dword
  <2>3. sector \in Dwords
    <3>1. q \in Int
      BY <2>2
    <3> HIDE DEF q
    <3>2. q + fat.firstFat \in Int
      BY <2>1, <3>1
    <3> QED
      BY <3>2, DwordType
  <2>4. \/ UNCHANGED <<fat, fatBuf>>
        \/ fatBuf' = Place(sector) /\ fat' = [fat EXCEPT !.current = sector]
    BY <1>2 DEF load_fat_sector
  <2> HIDE DEF sector
  <2>5. OfCard(Place(sector))
    BY DEF OfCard, Place, CardInSlot
  <2>6. "current" \in DOMAIN fat
    BY DEF Shapes
  <2> QED
    BY <2>3, <2>4, <2>5, <2>6
<1> QED
  BY <1>1, <1>2

(* What is in directory_buffer, and in the memory behind it.               *)
Filled(d) == \A j \in DOMAIN d : d[j].type \in {0, 1, 17} /\ d[j].cluster \in Dwords

LEMMA ClearedBuffer ==
  ASSUME Shapes, Filled(dir)
  PROVE  Filled(clear_directory_buffer)
<1> SUFFICES ASSUME NEW j \in DOMAIN dir
             PROVE  LET e == IF j < DirMax THEN [dir[j] EXCEPT !.type = 0] ELSE dir[j]
                    IN  e.type \in {0, 1, 17} /\ e.cluster \in Dwords
  BY Zenon DEF Filled, clear_directory_buffer
<1>1. DOMAIN dir[j] = {"type", "cluster"}
  BY DEF Shapes
<1>2. dir[j].type \in {0, 1, 17} /\ dir[j].cluster \in Dwords
  BY DEF Filled
<1> QED
  BY <1>1, <1>2

LEMMA StoredEntries ==
  ASSUME CardInSlot, Mounted, Filled(dir), NEW s, NEW ptr
  PROVE  Filled(Stored(dir, ptr, EntriesAt(card, s)))
<1> DEFINE E == EntriesAt(card, s)
           T == Taken(E)
           here(j) == {k \in T : ptr + Before(T, k) = j}
<1>1. \A k \in T : Descr(E[k]).type \in {0, 1, 17} /\ Descr(E[k]).cluster \in Dwords
  <2> SUFFICES ASSUME NEW k \in T
               PROVE  Descr(E[k]).type \in {0, 1, 17} /\ Descr(E[k]).cluster \in Dwords
    OBVIOUS
  <2>1. E[k].kind \in {"dir", "file"} /\ SoundEntry(card, width, E[k])
    BY SectorEntries
  <2> HIDE DEF E
  <2>2. E[k].cluster \in Nat
    BY <2>1 DEF SoundEntry
  <2> QED
    BY <2>2, DwordType DEF Descr, load_word
<1> SUFFICES ASSUME NEW j \in DOMAIN dir
             PROVE  LET e == IF here(j) = {} THEN dir[j] ELSE Descr(E[CHOOSE k \in here(j) : TRUE])
                    IN  e.type \in {0, 1, 17} /\ e.cluster \in Dwords
  BY Zenon DEF Filled, Stored
<1>2. CASE here(j) = {}
  BY <1>2 DEF Filled
<1>3. CASE here(j) # {}
  <2>1. (CHOOSE k \in here(j) : TRUE) \in T
    <3>1. (CHOOSE k \in here(j) : TRUE) \in here(j)
      BY <1>3
    <3> QED
      BY <3>1
  <2> HIDE DEF here, T, E
  <2> QED
    BY <1>1, <1>3, <2>1
<1> QED
  BY <1>2, <1>3

LEMMA EndMarked ==
  ASSUME NEW d, Filled(d), \A j \in DOMAIN d : DOMAIN d[j] = {"type", "cluster"}, NEW p
  PROVE  Filled(MarkEnd(d, p))
<1> SUFFICES ASSUME NEW j \in DOMAIN d
             PROVE  MarkEnd(d, p)[j].type \in {0, 1, 17} /\ MarkEnd(d, p)[j].cluster \in Dwords
  BY DEF Filled, MarkEnd
<1>1. d[j].type \in {0, 1, 17} /\ d[j].cluster \in Dwords
  BY DEF Filled
<1>2. MarkEnd(d, p)[j] = IF j = p THEN [d[j] EXCEPT !.type = 0] ELSE d[j]
  BY DEF MarkEnd
<1> QED
  BY <1>1, <1>2

(* What holds until the card is exchanged.                                 *)
Places == {Nowhere} \cup ((DOMAIN Cards) \X (0 .. (SectorSpace - 1)))
Memory == [0 .. (Pages * PageSectors - 1) -> Places]

Numbers ==
  /\ fat.current \in Dwords /\ OfCard(fatBuf)
  /\ walk.sector \in Dwords /\ walk.cluster \in Dwords
  /\ file.sector \in Dwords /\ file.cluster \in Dwords
  /\ Filled(dir) /\ rom \in Memory

NumberInv == ~swapped => Numbers

LEMMA DirectoryOpened ==
  ASSUME CardInSlot, Shapes, Mounted, Numbers, NEW c \in Dwords, fat_open_directory(c)
  PROVE  walk'.sector \in Dwords /\ walk'.cluster \in Dwords /\ Filled(dir')
         /\ UNCHANGED <<vol, width, fat, fatBuf, file>>
<1>1. Filled(clear_directory_buffer)
  BY ClearedBuffer DEF Numbers
<1>2. first_sector_of_cluster(c) \in Dwords
  BY SectorOfCluster DEF Dwords
<1>3. fat.root \in Dwords \/ fat.fat32
  <2>1. CASE card.fat32
    BY <2>1 DEF Mounted
  <2>2. CASE ~card.fat32
    <3>1. fat.root = FirstFat(card) + FatSectors(card)
      BY <2>2 DEF Mounted
    <3>2. /\ FirstFat(card) \in Nat /\ FatSectors(card) \in Nat /\ card.rootEntries \div DirEntries \in Nat
          /\ DataStart(card) = FirstFat(card) + FatSectors(card) + (card.rootEntries \div DirEntries)
          /\ DataStart(card) <= card.size /\ card.size < Dword /\ card.size \in Nat
      BY <2>2, MountedCard, GeometryFacts
    <3> DEFINE r == card.rootEntries \div DirEntries
    <3> HIDE DEF r
    <3>3. r \in Nat /\ DataStart(card) = FirstFat(card) + FatSectors(card) + r
      BY <3>2 DEF r
    <3> QED
      BY <3>1, <3>2, <3>3, Constants DEF Dwords
  <2> QED
    BY <2>1, <2>2
<1>4. CASE ~fat.fat32 /\ c = 0
  <2>1. open_root16
    BY <1>4 DEF fat_open_directory
  <2> QED
    BY <1>1, <1>3, <1>4, <2>1, DwordType DEF open_root16
<1>5. CASE ~(~fat.fat32 /\ c = 0)
  BY <1>1, <1>2, <1>5 DEF fat_open_directory
<1> QED
  BY <1>4, <1>5

LEMMA DirectoryRead ==
  ASSUME CardInSlot, NumberedCards, Shapes, Mounted, Numbers, NEW ok, NEW fatOk, NEW how,
         ReadDirSector(ok, fatOk, how)
  PROVE  /\ walk'.sector \in Dwords /\ walk'.cluster \in Dwords /\ Filled(dir')
         /\ fat'.current \in Dwords /\ OfCard(fatBuf')
         /\ UNCHANGED <<vol, width, file>>
<1> DEFINE E == EntriesAt(card, Wrap(walk.sector))
           ptr == NextPtr(walk.ptr, E)
           stored == Stored(dir, walk.ptr, E)
           next == fat_next_cluster(walk.cluster, fatOk)
<1>1. /\ load_fat_sector(walk.cluster \div FatEntries, fatOk) \/ UNCHANGED <<fat, fatBuf>>
      /\ dir' = dir \/ dir' = MarkEnd(stored, ptr) \/ dir' = stored
      /\ UNCHANGED <<vol, width, file>>
  BY DEF ReadDirSector
<1>2. \/ walk' = NoWalk
      \/ walk' = [walk EXCEPT !.sector = (@ + 1) % Dword, !.i = @ - 1, !.ptr = ptr]
      \/ walk' = [walk EXCEPT !.cluster = next, !.i = DirSectors, !.ptr = ptr,
                              !.sector = first_sector_of_cluster(next)]
  BY DEF ReadDirSector
<1>3. fat'.current \in Dwords /\ OfCard(fatBuf')
  BY <1>1, LookupNumbers DEF Numbers
<1>4. next \in Dwords /\ first_sector_of_cluster(next) \in Dwords
  <2>1. next \in Dwords
    BY <1>3, NextIsNumber
  <2>2. next \in Int
    BY <2>1 DEF Dwords
  <2> HIDE DEF next
  <2> QED
    BY <2>1, <2>2, SectorOfCluster
<1>5. Filled(stored)
  BY StoredEntries DEF Numbers
<1>6. \A j \in DOMAIN stored : DOMAIN stored[j] = {"type", "cluster"}
  BY DEF Stored, Shapes, Descr
<1> HIDE DEF next, stored, ptr
<1>7. Filled(dir')
  BY <1>1, <1>5, <1>6, EndMarked DEF Numbers
<1>8. walk'.sector \in Dwords /\ walk'.cluster \in Dwords
  <2>1. (walk.sector + 1) % Dword \in Dwords
    BY DwordType DEF Numbers, Dwords
  <2>2. DOMAIN walk = {"chain", "cluster", "sector", "i", "ptr"}
    BY DEF Shapes
  <2>3. walk.sector \in Dwords /\ walk.cluster \in Dwords
    BY DEF Numbers
  <2>4. CASE walk' = NoWalk
    BY <2>4, DwordType DEF NoWalk
  <2>5. CASE walk' = [walk EXCEPT !.sector = (@ + 1) % Dword, !.i = @ - 1, !.ptr = ptr]
    <3>1. walk'.sector = (walk.sector + 1) % Dword /\ walk'.cluster = walk.cluster
      BY <2>2, <2>5
    <3> QED
      BY <2>1, <2>3, <3>1
  <2>6. CASE walk' = [walk EXCEPT !.cluster = next, !.i = DirSectors, !.ptr = ptr,
                                  !.sector = first_sector_of_cluster(next)]
    <3>1. walk'.sector = first_sector_of_cluster(next) /\ walk'.cluster = next
      BY <2>2, <2>6
    <3> QED
      BY <1>4, <3>1
  <2> QED
    BY <1>2, <2>4, <2>5, <2>6
<1> QED
  BY <1>1, <1>3, <1>7, <1>8

LEMMA FileRead ==
  ASSUME CardInSlot, NumberedCards, Shapes, Mounted, Numbers, NEW fatOk, NEW ok, NEW value,
         fat_load_file_sector(fatOk, ok, value)
  PROVE  /\ file'.sector \in Dwords /\ file'.cluster \in Dwords
         /\ fat'.current \in Dwords /\ OfCard(fatBuf')
<1> DEFINE next == fat_next_cluster(file.cluster, fatOk)
           sector == IF AtClusterEnd THEN first_sector_of_cluster(next) ELSE file.sector
<1>1. load_fat_sector(file.cluster \div FatEntries, fatOk) \/ UNCHANGED <<fat, fatBuf>>
  BY DEF fat_load_file_sector
<1>2. /\ file'.cluster = IF AtClusterEnd THEN next ELSE file.cluster
      /\ file'.sector = file.sector \/ file'.sector = Counted(sector, ok)
  BY DEF fat_load_file_sector
<1>3. fat'.current \in Dwords /\ OfCard(fatBuf')
  BY <1>1, LookupNumbers DEF Numbers
<1>4. next \in Dwords
  BY <1>3, NextIsNumber
<1> HIDE DEF next
<1>5. sector \in Int
  <2>1. first_sector_of_cluster(next) \in Dwords
    BY <1>4, SectorOfCluster DEF Dwords
  <2> QED
    BY <2>1 DEF Numbers, Dwords
<1> HIDE DEF sector
<1>6. Counted(sector, ok) \in Dwords
  BY <1>5, DwordType DEF Counted
<1> QED
  BY <1>2, <1>3, <1>4, <1>6 DEF Numbers

LEMMA NumberInit == Init => NumberInv
<1> SUFFICES ASSUME Init PROVE Numbers
  BY DEF NumberInv
<1>1. /\ fat.current = 0 /\ fatBuf = Nowhere /\ walk = NoWalk /\ file = NoFile
      /\ dir = [j \in 0 .. (DirRoom - 1) |-> NoEntry] /\ rom = EmptyRom
  BY DEF Init
<1> QED
  BY <1>1, DwordType DEF Numbers, NoWalk, NoFile, NoEntry, EmptyRom, Memory, Places, Filled, OfCard

LEMMA NumberNext ==
  SoundCards /\ NumberedCards /\ CacheInv /\ BootInv /\ NumberInv /\ [Next]_vars => NumberInv'
<1> SUFFICES ASSUME SoundCards, NumberedCards, CacheInv, BootInv, NumberInv, [Next]_vars, ~swapped'
             PROVE  Numbers'
  BY DEF NumberInv
<1>1. ~swapped
  BY DEF Next, Program, Keys, Start, FirstLook, NoKey, Chord, ReadDirectory, LoadSector, LoadTurn,
         FileEnds, ChooseMode, BootSram, RetryCard, OpenRoot, Up, Down, EnterDirectory, PickFile, Button,
         Reset, Swap, Booted, vars
<1>2. /\ CardInSlot /\ Shapes /\ Numbers
      /\ pc \in {"opendir", "menu", "load"} \/ (pc = "mode" /\ sdOk) => Mounted
      /\ pc = "menu" => Choosing
  BY <1>1 DEF BootInv, CardInSlot, NumberInv
<1>3. CASE FirstLook \/ NoKey \/ Chord \/ ChooseMode \/ BootSram \/ RetryCard \/ Up \/ Down
           \/ (\E b \in Buttons : Button(b)) \/ Booted \/ UNCHANGED vars
  <2>1. UNCHANGED <<fat, fatBuf, walk, file, dir, rom>>
    BY <1>3 DEF FirstLook, NoKey, Chord, ChooseMode, BootSram, RetryCard, Up, Down, Button, Booted,
                vars, fatVars, loadVars
  <2> QED
    BY <1>2, <2>1 DEF Numbers
<1>4. CASE Start
  <2>1. UNCHANGED <<fatBuf, walk, file, dir, rom>>
    BY <1>4 DEF Start, loadVars
  <2>2. PICK ready \in BOOLEAN, mounted \in BOOLEAN :
          IF ready THEN fat_init(mounted) ELSE UNCHANGED fat
    BY <1>4 DEF Start
  <2>3. fat'.current = fat.current
    <3>1. CASE ready
      <4>1. fat_init(mounted) /\ vol' = vol /\ fatBuf' = fatBuf
        BY <1>4, <2>2, <3>1 DEF Start
      <4> QED
        BY <4>1, MountStep DEF CacheKept
    <3>2. CASE ~ready
      BY <2>2, <3>2
    <3> QED
      BY <3>1, <3>2
  <2> QED
    BY <1>2, <2>1, <2>3 DEF Numbers
<1>5. CASE OpenRoot
  <2>1. rom' = rom /\ fat_open_root_directory /\ Mounted
    BY <1>2, <1>5 DEF OpenRoot, loadVars
  <2>2. fat_open_directory(RootOf(card))
    BY <2>1 DEF Mounted, fat_open_root_directory, fat_open_directory, RootOf
  <2>3. RootOf(card) \in Dwords
    <3>1. CASE card.fat32
      <4>1. Read32(width, card.root) = card.root /\ card.root \in Nat
        BY <1>2, <2>1, <3>1, MountedCard DEF Geometry
      <4>2. load_dword(card.root) \in Dwords
        BY <1>2, <4>1, DwordLoaded
      <4> QED
        BY <1>2, <3>1, <4>1, <4>2, LoadsDword DEF RootOf
    <3>2. CASE ~card.fat32
      BY <3>2, DwordType DEF RootOf
    <3> QED
      BY <3>1, <3>2
  <2>4. /\ walk'.sector \in Dwords /\ walk'.cluster \in Dwords /\ Filled(dir')
        /\ UNCHANGED <<fat, fatBuf, file>>
    BY <1>2, <2>1, <2>2, <2>3, DirectoryOpened
  <2> QED
    BY <1>2, <2>1, <2>4 DEF Numbers
<1>6. CASE EnterDirectory \/ PickFile
  <2>1. /\ rom' = rom /\ pc = "menu"
        /\ \/ fat_open_directory(dir[cur].cluster)
           \/ fat_open_file(dir[cur].cluster) /\ UNCHANGED <<fat, fatBuf, dir, walk>>
    BY <1>6 DEF EnterDirectory, PickFile, loadVars
  <2>2. cur \in DOMAIN dir
    <3>1. /\ SoundDirectory(card, width, opened) /\ cur \in Nat
          /\ cur < Cardinality(Listing(card, opened))
      BY <1>2, <2>1 DEF Choosing
    <3>2. Cardinality(Listing(card, opened)) \in 1 .. DirMax
      BY <3>1 DEF SoundDirectory
    <3>3. DOMAIN dir = 0 .. (DirRoom - 1)
      BY <1>2 DEF Shapes
    <3> QED
      BY <3>1, <3>2, <3>3, Constants
  <2>3. Mounted /\ dir[cur].cluster \in Dwords
    BY <1>2, <2>1, <2>2 DEF Numbers, Filled
  <2>4. CASE fat_open_directory(dir[cur].cluster)
    <3>1. /\ walk'.sector \in Dwords /\ walk'.cluster \in Dwords /\ Filled(dir')
          /\ UNCHANGED <<fat, fatBuf, file>>
      BY <1>2, <2>3, <2>4, DirectoryOpened
    <3> QED
      BY <1>2, <2>1, <3>1 DEF Numbers
  <2>5. CASE fat_open_file(dir[cur].cluster) /\ UNCHANGED <<fat, fatBuf, dir, walk>>
    <3>1. first_sector_of_cluster(dir[cur].cluster) \in Dwords
      BY <1>2, <2>3, SectorOfCluster DEF Dwords
    <3>2. file'.sector \in Dwords /\ file'.cluster \in Dwords
      BY <2>3, <2>5, <3>1 DEF fat_open_file
    <3> QED
      BY <1>2, <2>1, <2>5, <3>2 DEF Numbers
  <2> QED
    BY <2>1, <2>4, <2>5
<1>7. CASE ReadDirectory
  <2>1. rom' = rom /\ Mounted
    BY <1>2, <1>7 DEF ReadDirectory, loadVars
  <2>2. PICK ok \in BOOLEAN, fatOk \in BOOLEAN, how \in {"on", "listed", "error"} :
          ReadDirSector(ok, fatOk, how)
    BY <1>7 DEF ReadDirectory
  <2>3. /\ walk'.sector \in Dwords /\ walk'.cluster \in Dwords /\ Filled(dir')
        /\ fat'.current \in Dwords /\ OfCard(fatBuf') /\ file' = file
    BY <1>2, <2>1, <2>2, DirectoryRead
  <2> QED
    BY <1>2, <2>1, <2>3 DEF Numbers
<1>8. CASE LoadSector \/ FileEnds
  <2>1. Mounted /\ UNCHANGED <<vol, dir, walk>>
    BY <1>2, <1>8 DEF LoadSector, LoadTurn, FileEnds
  <2>2. PICK fatOk \in BOOLEAN, ok \in BOOLEAN, value \in {"eof", "loaded", "error"} :
          /\ fat_load_file_sector(fatOk, ok, value)
          /\ \/ rom' = rom
             \/ rom' = [rom EXCEPT ![banks'[3] * PageSectors + (size % PageSectors)] =
                            Place((file'.sector - 1) % Dword)]
    BY <1>8 DEF LoadSector, LoadTurn, FileEnds
  <2>3. /\ file'.sector \in Dwords /\ file'.cluster \in Dwords
        /\ fat'.current \in Dwords /\ OfCard(fatBuf')
    BY <1>2, <2>1, <2>2, FileRead
  <2>4. Place((file'.sector - 1) % Dword) \in Places
    <3>1. (file'.sector - 1) % Dword \in Int
      BY <2>3, DwordType DEF Dwords
    <3>2. vol \in DOMAIN Cards
      BY <1>2, FatAssumption DEF CardInSlot, FatAssumption
    <3>3. \A x \in Int : x % SectorSpace \in 0 .. (SectorSpace - 1)
      BY Constants
    <3> QED
      BY <3>1, <3>2, <3>3 DEF Place, Wrap, Places
  <2>5. rom' \in Memory
    BY <1>2, <2>2, <2>4 DEF Memory, Numbers
  <2> QED
    BY <1>2, <2>1, <2>3, <2>5 DEF Numbers
<1>9. CASE Reset
  <2>1. UNCHANGED <<fat, fatBuf, dir>> /\ rom' = EmptyRom /\ walk' = NoWalk /\ file' = NoFile
    BY <1>9 DEF Reset
  <2>2. EmptyRom \in Memory
    BY DEF EmptyRom, Memory, Places
  <2> QED
    BY <1>2, <2>1, <2>2, DwordType DEF Numbers, NoWalk, NoFile
<1>10. ~Swap
  BY DEF Swap
<1> QED
  BY <1>3, <1>4, <1>5, <1>6, <1>7, <1>8, <1>9, <1>10 DEF Next, Program, Keys

(* The cursor is in the buffer, in the menu and after it.                  *)
CursorInv == ~swapped => top \in 0 .. (DirRoom - 1) /\ cur \in 0 .. (DirRoom - 1)

LEMMA CursorInit == Init => CursorInv
BY Constants DEF Init, CursorInv

LEMMA CursorNext == BootInv' /\ CursorInv /\ [Next]_vars => CursorInv'
<1> SUFFICES ASSUME BootInv', CursorInv, [Next]_vars, ~swapped'
             PROVE  top' \in 0 .. (DirRoom - 1) /\ cur' \in 0 .. (DirRoom - 1)
  BY DEF CursorInv
<1>1. CASE pc' = "menu"
  <2>1. Choosing'
    BY <1>1 DEF BootInv
  <2>2. top' \in Nat /\ cur' \in Nat /\ top' <= cur' /\ cur' < Cardinality(Listing(card, opened)')
        /\ SoundDirectory(card, width, opened)'
    BY <2>1 DEF Choosing
  <2>3. Cardinality(Listing(card, opened)') \in 1 .. DirMax
    BY <2>2 DEF SoundDirectory
  <2> QED
    BY <2>2, <2>3, Constants
<1>2. CASE pc' # "menu"
  <2>1. ~swapped
    BY DEF Next, Program, Keys, Start, FirstLook, NoKey, Chord, ReadDirectory, LoadSector, LoadTurn,
         FileEnds, ChooseMode, BootSram, RetryCard, OpenRoot, Up, Down, EnterDirectory, PickFile, Button,
         Reset, Swap, Booted, vars
  <2>2. UNCHANGED <<top, cur>> \/ (top' = 0 /\ cur' = 0)
    <3>1. ~Up /\ ~Down
      BY <1>2 DEF Up, Down
    <3> QED
      BY <3>1 DEF Next, Program, Keys, Start, FirstLook, NoKey, Chord, ReadDirectory, LoadSector, LoadTurn,
         FileEnds, ChooseMode, BootSram, RetryCard, OpenRoot, EnterDirectory, PickFile, Button,
         Reset, Swap, Booted, vars, menuVars
  <2> QED
    BY <2>1, <2>2, Constants DEF CursorInv
<1> QED
  BY <1>1, <1>2

(* With sound cards whose FATs hold numbers, until the card is exchanged:  *)
(* all that the loader keeps is within the types of fat.c and main.c and   *)
(* within its memory, also when FAT sectors cannot be loaded and load_rom  *)
(* goes astray; the cursor stays in directory_buffer (main.c:193,          *)
(* fat.c:287).                                                             *)
THEOREM BootTypesAreKept ==
  ASSUME SoundCards, NumberedCards, Debug
  PROVE  Spec => [](~swapped => TypeOK)
<1> DEFINE Inv == CacheInv /\ BootInv /\ KeyInv /\ PlainInv /\ NumberInv /\ CursorInv
<1>1. Init => Inv
  BY CacheInit, BootInit, KeyInit, PlainInit, NumberInit, CursorInit
<1>2. Inv /\ [Next]_vars => Inv'
  BY CacheNext, BootNext, KeyNext, PlainNext, NumberNext, CursorNext
<1>3. Inv => (~swapped => TypeOK)
  <2> SUFFICES ASSUME Inv, ~swapped PROVE TypeOK
    OBVIOUS
  <2>1. Numbers /\ top \in 0 .. (DirRoom - 1) /\ cur \in 0 .. (DirRoom - 1)
    BY DEF NumberInv, CursorInv
  <2>2. size \in 0 .. (SectorSpace - 1)
    BY DEF PlainInv
  <2>3. {sdOk, looking, lost, swapped} \subseteq BOOLEAN
    BY Zenon DEF PlainInv, KeyInv
  <2>4. acts \in [Buttons -> Nat]
    BY DEF KeyInv
  <2>5. {walk.sector, walk.cluster, file.sector, file.cluster, fat.current} \subseteq 0 .. (Dword - 1)
    BY <2>1 DEF Numbers, Dwords
  <2>6. \A j \in DOMAIN dir : dir[j].type \in {0, 1, 17} /\ dir[j].cluster \in 0 .. (Dword - 1)
    BY <2>1 DEF Numbers, Filled, Dwords
  <2>7. rom \in Memory
    BY <2>1 DEF Numbers
  <2> QED
    BY <2>1, <2>2, <2>3, <2>4, <2>5, <2>6, <2>7 DEF TypeOK, PlainInv, Memory, Places
<1> QED
  BY <1>1, <1>2, <1>3, PTL DEF Spec
=============================================================================
