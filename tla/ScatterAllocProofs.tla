------------------------- MODULE ScatterAllocProofs -------------------------
(***************************************************************************)
(* Proofs about ScatterAlloc, for every number of threads and pages and    *)
(* every size of pages, masks and requests: the page table is exact, and   *)
(* the allocator implements Heap.                                          *)
(***************************************************************************)
EXTENDS ScatterAlloc, FiniteSetTheorems, WellFoundedInduction, TLAPS

(* A set of naturals that is not empty has a least element: what Min and    *)
(* the searches of the code for the first free place return exists.         *)
LEMMA LeastNatural ==
  ASSUME NEW S \in SUBSET Nat, S # {}
  PROVE  \E m \in S : \A k \in S : m <= k
<1> DEFINE R == {p \in Nat \X Nat : p[1] < p[2]}
<1>1. IsWellFoundedOn(R, Nat)
  BY NatLessThanWellFounded DEF OpToRel
<1> HIDE DEF R
<1>2. PICK m \in S : \A k \in S : <<k, m>> \notin R
  BY <1>1, WFMin
<1>3. \A k \in S : ~(k < m)
  BY <1>2 DEF R
<1> QED
  BY <1>3

(* Multiplication with a natural keeps an order.                            *)
LEMMA MulMono ==
  ASSUME NEW a \in Int, NEW b \in Int, NEW c \in Nat, a <= b
  PROVE  a * c <= b * c /\ c * a <= c * b
OBVIOUS

(* Quotient and remainder are determined by their bounds.                   *)
LEMMA DivUnique ==
  ASSUME NEW q \in Int, NEW r \in Int, NEW b \in Nat \ {0}, 0 <= r, r < b
  PROVE  (q * b + r) \div b = q /\ (q * b + r) % b = r
OBVIOUS

(* Division with remainder.                                                 *)
LEMMA DivMod ==
  ASSUME NEW a \in Int, NEW b \in Nat \ {0}
  PROVE  /\ a \div b \in Int
         /\ (a \div b) * b <= a
         /\ a < (a \div b) * b + b
         /\ a % b \in 0 .. b - 1
         /\ a = (a \div b) * b + (a % b)
<1>1. a \div b \in Int /\ (a \div b) * b <= a /\ a < (a \div b) * b + b
  OBVIOUS
<1>2. a % b \in 0 .. b - 1
  OBVIOUS
<1>3. PICK q \in Int, r \in Int : q = a \div b /\ r = a - q * b
  BY <1>1
<1>4. 0 <= r /\ r < b /\ a = q * b + r
  BY <1>1, <1>3
<1>5. a % b = r
  BY <1>4, DivUnique
<1> QED
  BY <1>1, <1>2, <1>3, <1>4, <1>5

(* A quotient of naturals is a natural.                                     *)
LEMMA DivNat ==
  ASSUME NEW a \in Nat, NEW b \in Nat \ {0}
  PROVE  a \div b \in Nat
OBVIOUS

(* An integer below a multiple has a smaller quotient.                      *)
LEMMA DivLess ==
  ASSUME NEW a \in Int, NEW b \in Nat \ {0}, NEW q \in Int, a < q * b
  PROVE  a \div b < q
<1>1. a \div b \in Int /\ (a \div b) * b <= a
  BY DivMod
<1>2. ~(q <= a \div b)
  <2> SUFFICES ASSUME q <= a \div b PROVE FALSE
    OBVIOUS
  <2>1. q * b <= (a \div b) * b
    BY <1>1, MulMono
  <2>2. q * b \in Int /\ (a \div b) * b \in Int
    BY <1>1
  <2> QED
    BY <1>1, <2>1, <2>2
<1> QED
  BY <1>1, <1>2

(* An integer from a multiple on has a quotient as large.                   *)
LEMMA DivAtLeast ==
  ASSUME NEW a \in Int, NEW b \in Nat \ {0}, NEW q \in Int, q * b <= a
  PROVE  q <= a \div b
<1>1. a \div b \in Int /\ a < (a \div b) * b + b
  BY DivMod
<1>2. ~(a \div b + 1 <= q)
  <2> SUFFICES ASSUME a \div b + 1 <= q PROVE FALSE
    OBVIOUS
  <2>1. (a \div b + 1) * b <= q * b
    BY <1>1, MulMono
  <2>2. (a \div b + 1) * b = (a \div b) * b + b
    BY <1>1
  <2>3. q * b \in Int /\ (a \div b) * b \in Int
    BY <1>1
  <2> QED
    BY <1>1, <2>1, <2>2, <2>3
<1> QED
  BY <1>1, <1>2

(* The smaller and the larger of two integers.                              *)
LEMMA MinMaxPair ==
  ASSUME NEW a \in Int, NEW b \in Int
  PROVE  /\ Min({a, b}) = IF a <= b THEN a ELSE b
         /\ Max({a, b}) = IF a <= b THEN b ELSE a
<1>1. Min({a, b}) \in {a, b} /\ \A y \in {a, b} : Min({a, b}) <= y
  <2>1. \E x \in {a, b} : \A y \in {a, b} : x <= y
    OBVIOUS
  <2> QED
    BY <2>1 DEF Min
<1>2. Max({a, b}) \in {a, b} /\ \A y \in {a, b} : Max({a, b}) >= y
  <2>1. \E x \in {a, b} : \A y \in {a, b} : x >= y
    OBVIOUS
  <2> QED
    BY <2>1 DEF Max
<1> QED
  BY <1>1, <1>2

-----------------------------------------------------------------------------
(***************************************************************************)
(* Layout of a page.                                                       *)
(***************************************************************************)

\* Bit b of segment s stands for a chunk of a page formatted with c.
Valid(c, s, b) ==
    IF Hierarchical(c) THEN s \in 0 .. Segments(c) - 1 /\ b \in 0 .. SpotsIn(c, s) - 1
    ELSE s = 0 /\ b \in 0 .. ChunksInPage(c) - 1

(* The constants are positive.                                              *)
LEMMA Positive ==
  /\ NumPages \in Nat \ {0} /\ AccessBlocks \in Nat \ {0} /\ RegionSize \in Nat \ {0}
  /\ PageSize \in Nat \ {0} /\ MaskBits \in Nat \ {0} /\ MaskBytes \in Nat \ {0}
  /\ MinChunkSize \in Nat \ {0} /\ WasteFactor \in Nat \ {0}
BY ScatterAssumption

(* PAGE::init clears a word for each segment that begins on the page.       *)
LEMMA OnPageRoom ==
  ASSUME NEW c \in Nat \ {0}, Hierarchical(c), c >= MinChunkSize,
         NEW g \in 1 .. MaskBits, (g - 1) * (c * MaskBits + MaskBytes) < PageSize
  PROVE  g <= MaxOnPageMasks /\ MaxOnPageMasks \in Nat
<1> USE Positive
<1>1. PICK m \in Nat \ {0} : m = MaskBits * MinChunkSize + MaskBytes
  <2>1. MaskBits * MinChunkSize \in Nat
    OBVIOUS
  <2> QED
    BY <2>1
<1>2. g * m <= PageSize + m - 1
  <2>1. MinChunkSize * MaskBits <= c * MaskBits
    BY MulMono
  <2>2. m <= c * MaskBits + MaskBytes /\ c * MaskBits + MaskBytes \in Nat
    BY <1>1, <2>1
  <2>3. (g - 1) * m <= (g - 1) * (c * MaskBits + MaskBytes)
    BY <2>2, MulMono
  <2>4. g * m = (g - 1) * m + m /\ (g - 1) * m \in Int /\ (g - 1) * (c * MaskBits + MaskBytes) \in Int
    BY <2>2
  <2> QED
    BY <2>3, <2>4
<1>3. PICK most \in Nat : most = (PageSize + m - 1) \div m
  BY DivNat
<1>4. g <= most
  BY <1>2, <1>3, DivAtLeast
<1>5. HierarchyThreshold \in Int /\ ~(MinChunkSize > HierarchyThreshold)
  <2>1. HierarchyThreshold \in Int
    BY DivMod DEF HierarchyThreshold
  <2> QED
    BY <2>1 DEF Hierarchical
<1>6. MaxOnPageMasks = Min({MaskBits, most})
  BY <1>1, <1>3, <1>5 DEF MaxOnPageMasks
<1> QED
  BY <1>3, <1>4, <1>6, MinMaxPair

(* The number of masks a page can hold.                                     *)
LEMMA MaxOnPageMasksType == MaxOnPageMasks \in Nat
<1> USE Positive
<1>1. PICK m \in Nat \ {0} : m = MaskBits * MinChunkSize + MaskBytes
  <2>1. MaskBits * MinChunkSize \in Nat
    OBVIOUS
  <2> QED
    BY <2>1
<1>2. PICK most \in Nat : most = (PageSize + m - 1) \div m
  BY DivNat
<1>3. MaxOnPageMasks \in {0, Min({MaskBits, most})}
  BY <1>1, <1>2 DEF MaxOnPageMasks
<1> QED
  BY <1>2, <1>3, MinMaxPair

(* The chunks and the masks of a hierarchical page have room on the page,   *)
(* there is a whole segment, and the one after the whole ones is shorter.   *)
LEMMA HierarchicalLayout ==
  ASSUME NEW c \in Nat \ {0}, Hierarchical(c)
  PROVE  /\ FullSegments(c) \in 1 .. MaskBits
         /\ calcAdditionalChunks(c) \in 0 .. MaskBits
         /\ Segments(c) \in 1 .. MaskBits
         /\ Segments(c) = FullSegments(c) \/ (Segments(c) = FullSegments(c) + 1 /\ calcAdditionalChunks(c) > 0)
         /\ (FullSegments(c) * MaskBits + calcAdditionalChunks(c)) * c + Segments(c) * MaskBytes <= PageSize
         /\ c >= MinChunkSize => Segments(c) <= MaxOnPageMasks
<1> USE Positive
<1>1. PICK S \in Nat \ {0} : S = SegmentSize(c) /\ S = c * MaskBits + MaskBytes
  <2>1. c * MaskBits \in Nat
    OBVIOUS
  <2> QED
    BY <2>1 DEF SegmentSize
<1>2. S <= PageSize
  <2>1. c * (MaskBits + 1) <= PageSize - 2 * MaskBytes
    <3>0. PICK n \in Int : n = PageSize - 2 * MaskBytes
      OBVIOUS
    <3>1. PICK h \in Int : h = HierarchyThreshold /\ h * (MaskBits + 1) <= PageSize - 2 * MaskBytes
      <4>1. PICK k \in Nat \ {0} : k = MaskBits + 1
        OBVIOUS
      <4>2. n \div k \in Int /\ (n \div k) * k <= n
        BY DivMod
      <4> QED
        BY <3>0, <4>1, <4>2 DEF HierarchyThreshold
    <3>2. c * (MaskBits + 1) <= h * (MaskBits + 1)
      BY <3>1, MulMono DEF Hierarchical
    <3>3. c * (MaskBits + 1) \in Int /\ h * (MaskBits + 1) \in Int
      BY <3>1
    <3> QED
      BY <3>1, <3>2, <3>3
  <2>2. c * (MaskBits + 1) = c * MaskBits + c /\ c * MaskBits \in Nat
    OBVIOUS
  <2> QED
    BY <1>1, <2>1, <2>2
<1>3. PICK d \in Nat : d = PageSize \div S /\ d >= 1 /\ d * S <= PageSize /\ PageSize < d * S + S
  <2>1. 1 <= PageSize \div S
    BY <1>2, DivAtLeast
  <2>2. (PageSize \div S) * S <= PageSize /\ PageSize < (PageSize \div S) * S + S
    BY DivMod
  <2>3. PageSize \div S \in Nat
    BY DivNat
  <2> QED
    BY <2>1, <2>2, <2>3
<1>4. PICK F \in 1 .. MaskBits : F = FullSegments(c) /\ F = (IF MaskBits <= d THEN MaskBits ELSE d)
  BY <1>1, <1>3, MinMaxPair DEF FullSegments
<1>5. F * S <= PageSize /\ F * S \in Nat /\ F * S = F * MaskBits * c + F * MaskBytes
  <2>1. F * S <= d * S
    BY <1>3, <1>4, MulMono
  <2>2. F * S = F * (c * MaskBits) + F * MaskBytes
    BY <1>1, <1>4
  <2>3. F * (c * MaskBits) = F * MaskBits * c
    BY <1>4
  <2> QED
    BY <1>3, <1>4, <2>1, <2>2, <2>3
<1>6. PICK A : A = calcAdditionalChunks(c)
  OBVIOUS
<1>7. CASE F = MaskBits
  <2>1. A = 0 /\ Segments(c) = F
    <3>1. calcAdditionalChunks(c) = 0
      BY <1>4, <1>7 DEF calcAdditionalChunks
    <3> QED
      BY <1>4, <1>6, <3>1 DEF Segments
  <2>2. (F * MaskBits + A) * c = F * MaskBits * c
    BY <2>1
  <2>3. Segments(c) * MaskBytes = F * MaskBytes
    BY <2>1
  <2>4. (F - 1) * S < PageSize
    <3>1. (F - 1) * S = F * S - S
      BY <1>4
    <3> QED
      BY <1>5, <3>1
  <2>5. c >= MinChunkSize => Segments(c) <= MaxOnPageMasks
    BY <1>1, <2>1, <2>4, OnPageRoom
  <2> QED
    BY <1>4, <1>5, <1>6, <2>1, <2>2, <2>3, <2>5
<1>8. CASE F # MaskBits
  <2>1. F = d /\ d < MaskBits
    BY <1>4, <1>8
  <2>2. PICK r \in Int : r = PageSize - F * S - MaskBytes /\ r < MaskBits * c
    <3>1. PageSize - F * S - MaskBytes < MaskBits * c
      <4>1. PageSize < F * S + S
        BY <1>3, <2>1
      <4>2. c * MaskBits = MaskBits * c /\ MaskBits * c \in Nat
        OBVIOUS
      <4> QED
        BY <1>1, <1>5, <4>1, <4>2
    <3> QED
      BY <1>5, <3>1
  <2>3. PICK m \in Nat : m = Max({0, r}) /\ m < MaskBits * c /\ (m = r \/ m = 0)
    <3>1. Max({0, r}) = IF 0 <= r THEN r ELSE 0
      BY MinMaxPair
    <3>2. 0 < MaskBits * c
      OBVIOUS
    <3> QED
      BY <2>2, <3>1, <3>2
  <2>4. A = m \div c
    BY <1>1, <1>4, <1>6, <1>8, <2>2, <2>3 DEF calcAdditionalChunks
  <2>5. A \in Nat /\ A < MaskBits /\ A * c <= m
    <3>1. m \div c < MaskBits
      BY <2>3, DivLess
    <3>2. m \div c \in Nat
      BY DivNat
    <3>3. (m \div c) * c <= m
      BY DivMod
    <3> QED
      BY <2>4, <3>1, <3>2, <3>3
  <2>6. (F * MaskBits + A) * c = F * MaskBits * c + A * c /\ A * c \in Nat /\ F * MaskBits * c \in Nat
    <3>1. F * MaskBits \in Nat
      BY <1>4
    <3> QED
      BY <1>4, <2>5, <3>1
  <2>7. CASE A = 0
    <3>1. Segments(c) = F
      BY <1>4, <1>6, <2>7 DEF Segments
    <3>2. A * c = 0
      BY <2>7
    <3>3. (F - 1) * S < PageSize
      <4>1. (F - 1) * S = F * S - S
        BY <1>4
      <4> QED
        BY <1>5, <4>1
    <3>4. c >= MinChunkSize => Segments(c) <= MaxOnPageMasks
      BY <1>1, <1>4, <3>1, <3>3, OnPageRoom
    <3>5. Segments(c) * MaskBytes = F * MaskBytes /\ F * MaskBytes \in Nat
      BY <1>4, <3>1
    <3>6. (F * MaskBits + A) * c + Segments(c) * MaskBytes <= PageSize
      BY <1>5, <2>6, <3>2, <3>5
    <3> QED
      BY <1>4, <1>6, <2>5, <3>1, <3>4, <3>6
  <2>8. CASE A > 0
    <3>1. Segments(c) = F + 1
      BY <1>4, <1>6, <2>8 DEF Segments
    <3>2. m = r /\ m > 0
      <4>1. A * c > 0
        BY <2>5, <2>8
      <4> QED
        BY <2>3, <2>5, <2>6, <4>1
    <3>3. (F + 1) * MaskBytes = F * MaskBytes + MaskBytes /\ F * MaskBytes \in Nat
      BY <1>4
    <3>4. A * c <= PageSize - F * S - MaskBytes
      BY <2>2, <2>5, <3>2
    <3>5. (F * MaskBits + A) * c + Segments(c) * MaskBytes <= PageSize
      BY <1>5, <2>6, <3>1, <3>3, <3>4
    <3>6. (F + 1 - 1) * S < PageSize
      BY <1>4, <1>5, <2>2, <3>2
    <3>7. c >= MinChunkSize => Segments(c) <= MaxOnPageMasks
      <4>1. F + 1 \in 1 .. MaskBits
        BY <1>4, <1>8
      <4> QED
        BY <1>1, <3>1, <3>6, <4>1, OnPageRoom
    <3> QED
      BY <1>4, <1>6, <1>8, <2>5, <2>8, <3>1, <3>5, <3>7
  <2> QED
    BY <2>5, <2>7, <2>8
<1> QED
  BY <1>7, <1>8

(* Without masks on the page there are as many chunks as the mask of the    *)
(* entry has bits, or as fit.                                               *)
LEMMA FlatLayout ==
  ASSUME NEW c \in Nat \ {0}, ~Hierarchical(c)
  PROVE  /\ ChunksInPage(c) \in 0 .. MaskBits
         /\ ChunksInPage(c) * c <= PageSize
         /\ ChunksInPage(c) <= PageSize
<1> USE Positive
<1>1. PICK d \in Nat : d = PageSize \div c /\ d * c <= PageSize
  <2>1. PageSize \div c \in Nat
    BY DivNat
  <2>2. (PageSize \div c) * c <= PageSize
    BY DivMod
  <2> QED
    BY <2>1, <2>2
<1>2. PICK n \in 0 .. MaskBits : n = ChunksInPage(c) /\ n <= d
  BY <1>1, MinMaxPair DEF ChunksInPage
<1>3. n * c <= d * c /\ n * 1 <= n * c
  BY <1>1, <1>2, MulMono
<1>4. n * c \in Nat /\ d * c \in Nat
  BY <1>1, <1>2
<1> QED
  BY <1>1, <1>2, <1>3, <1>4

(* A page has at most as many chunks as bytes: a thread that finds the page *)
(* locked finds it full.                                                    *)
LEMMA ChunksBound ==
  ASSUME NEW c \in Nat \ {0}
  PROVE  ChunksInPage(c) \in 0 .. PageSize
<1> USE Positive
<1>1. CASE ~Hierarchical(c)
  BY <1>1, FlatLayout
<1>2. CASE Hierarchical(c)
  <2>1. PICK n \in Nat : n = ChunksInPage(c) /\ n = FullSegments(c) * MaskBits + calcAdditionalChunks(c)
    <3>1. FullSegments(c) * MaskBits \in Nat /\ calcAdditionalChunks(c) \in Nat
      BY <1>2, HierarchicalLayout
    <3> QED
      BY <1>2, <3>1 DEF ChunksInPage
  <2>2. n * c + Segments(c) * MaskBytes <= PageSize
    BY <1>2, <2>1, HierarchicalLayout
  <2>3. n * c \in Nat /\ Segments(c) * MaskBytes \in Nat
    BY <1>2, HierarchicalLayout
  <2>4. n * 1 <= n * c
    BY MulMono
  <2> QED
    BY <2>1, <2>2, <2>3, <2>4
<1> QED
  BY <1>1, <1>2

(* A chunk lies on its page, before the masks, and its number tells segment *)
(* and bit.                                                                 *)
LEMMA ChunkLayout ==
  ASSUME NEW c \in Nat \ {0}, NEW s, NEW b, Valid(c, s, b)
  PROVE  /\ s \in 0 .. MaskBits - 1 /\ b \in 0 .. MaskBits - 1
         /\ MaskBits * s + b \in Nat
         /\ (MaskBits * s + b) * c \in Nat
         /\ (MaskBits * s + b) * c + c <= PageSize
         /\ Hierarchical(c) => (MaskBits * s + b) * c + c <= PageSize - Segments(c) * MaskBytes
<1> USE Positive
<1>1. CASE ~Hierarchical(c)
  <2>1. s = 0 /\ b \in 0 .. ChunksInPage(c) - 1 /\ ChunksInPage(c) \in 0 .. MaskBits
    BY <1>1, FlatLayout DEF Valid
  <2>2. MaskBits * s + b = b
    BY <2>1
  <2>3. (b + 1) * c <= ChunksInPage(c) * c
    BY <2>1, MulMono
  <2>4. (b + 1) * c = b * c + c /\ b * c \in Nat /\ ChunksInPage(c) * c \in Nat
    BY <2>1
  <2>5. ChunksInPage(c) * c <= PageSize
    BY <1>1, FlatLayout
  <2> QED
    BY <1>1, <2>1, <2>2, <2>3, <2>4, <2>5
<1>2. CASE Hierarchical(c)
  <2>1. PICK F \in 1 .. MaskBits, A \in 0 .. MaskBits, G \in 1 .. MaskBits :
          /\ F = FullSegments(c) /\ A = calcAdditionalChunks(c) /\ G = Segments(c)
          /\ G = F \/ (G = F + 1 /\ A > 0)
          /\ (F * MaskBits + A) * c + G * MaskBytes <= PageSize
    BY <1>2, HierarchicalLayout
  <2>2. s \in 0 .. G - 1 /\ b \in 0 .. (IF s < F THEN MaskBits ELSE A) - 1
    BY <1>2, <2>1 DEF Valid, SpotsIn
  <2>3. PICK n \in Nat : n = MaskBits * s + b
    <3>1. MaskBits * s \in Nat
      BY <2>1, <2>2
    <3> QED
      BY <2>1, <2>2, <3>1
  <2>4. n + 1 <= F * MaskBits + A
    <3>1. CASE s < F
      <4>1. (s + 1) * MaskBits <= F * MaskBits
        BY <2>1, <2>2, <3>1, MulMono
      <4>2. (s + 1) * MaskBits = MaskBits * s + MaskBits /\ MaskBits * s \in Nat /\ F * MaskBits \in Nat
        BY <2>1, <2>2
      <4> QED
        BY <2>1, <2>2, <2>3, <3>1, <4>1, <4>2
    <3>2. CASE ~(s < F)
      <4>1. s = F
        BY <2>1, <2>2, <3>2
      <4>2. MaskBits * s = F * MaskBits /\ F * MaskBits \in Nat
        BY <2>1, <4>1
      <4> QED
        BY <2>1, <2>2, <2>3, <3>2, <4>2
    <3> QED
      BY <3>1, <3>2
  <2>5. PICK N \in Nat : N = F * MaskBits + A
    <3>1. F * MaskBits \in Nat
      BY <2>1
    <3> QED
      BY <2>1, <3>1
  <2>6. (n + 1) * c <= N * c
    BY <2>4, <2>5, MulMono
  <2>7. (n + 1) * c = n * c + c /\ n * c \in Nat /\ N * c \in Nat /\ G * MaskBytes \in Nat
    BY <2>1, <2>5
  <2>8. n * c + c <= PageSize - G * MaskBytes
    BY <2>1, <2>5, <2>6, <2>7
  <2> QED
    BY <2>1, <2>2, <2>3, <2>7, <2>8
<1> QED
  BY <1>1, <1>2

(* The number of a chunk tells its segment and its bit.                     *)
LEMMA SegmentAndBit ==
  ASSUME NEW s \in Nat, NEW b \in 0 .. MaskBits - 1
  PROVE  (s * MaskBits + b) \div MaskBits = s /\ (s * MaskBits + b) % MaskBits = b
<1>1. b \in Int /\ 0 <= b /\ b < MaskBits /\ MaskBits \in Nat \ {0} /\ s \in Int
  BY Positive
<1> QED
  BY <1>1, DivUnique

(* Different places of a page are different chunks, and they share no byte. *)
LEMMA PlacesApart ==
  ASSUME NEW c \in Nat \ {0}, NEW s, NEW b, NEW r, NEW a, Valid(c, s, b), Valid(c, r, a), s # r \/ b # a
  PROVE  /\ (MaskBits * s + b) * c # (MaskBits * r + a) * c
         /\ \/ (MaskBits * s + b) * c >= (MaskBits * r + a) * c + c
            \/ (MaskBits * r + a) * c >= (MaskBits * s + b) * c + c
<1> USE Positive
<1>1. /\ s \in 0 .. MaskBits - 1 /\ b \in 0 .. MaskBits - 1
      /\ r \in 0 .. MaskBits - 1 /\ a \in 0 .. MaskBits - 1
  BY ChunkLayout
<1>2. PICK m \in Nat, n \in Nat : m = MaskBits * s + b /\ n = MaskBits * r + a
  BY ChunkLayout
<1>3. m # n
  <2>1. m = s * MaskBits + b /\ n = r * MaskBits + a
    BY <1>1, <1>2
  <2>2. (s * MaskBits + b) \div MaskBits = s /\ (s * MaskBits + b) % MaskBits = b
    BY <1>1, SegmentAndBit
  <2>3. (r * MaskBits + a) \div MaskBits = r /\ (r * MaskBits + a) % MaskBits = a
    BY <1>1, SegmentAndBit
  <2> QED
    BY <2>1, <2>2, <2>3
<1>4. CASE m > n
  <2>1. (n + 1) * c <= m * c
    BY <1>4, MulMono
  <2>2. (n + 1) * c = n * c + c /\ n * c \in Nat /\ m * c \in Nat
    OBVIOUS
  <2> QED
    BY <1>2, <2>1, <2>2
<1>5. CASE n > m
  <2>1. (m + 1) * c <= n * c
    BY <1>5, MulMono
  <2>2. (m + 1) * c = m * c + c /\ n * c \in Nat /\ m * c \in Nat
    OBVIOUS
  <2> QED
    BY <1>2, <2>1, <2>2
<1> QED
  BY <1>3, <1>4, <1>5

(* deallocChunked finds segment and bit of a chunk from its address.        *)
LEMMA PlaceOf ==
  ASSUME NEW c \in Nat \ {0}, NEW s, NEW b, Valid(c, s, b),
         NEW nr, nr = ((MaskBits * s + b) * c) \div c
  PROVE  /\ s = IF Hierarchical(c) THEN nr \div MaskBits ELSE 0
         /\ b = IF Hierarchical(c) THEN nr % MaskBits ELSE nr
<1> USE Positive
<1>1. s \in 0 .. MaskBits - 1 /\ b \in 0 .. MaskBits - 1
  BY ChunkLayout
<1>2. PICK n \in Nat : n = MaskBits * s + b /\ n = s * MaskBits + b
  BY <1>1, ChunkLayout
<1>3. nr = n
  <2>1. (n * c + 0) \div c = n
    BY DivUnique
  <2>2. n * c + 0 = n * c
    OBVIOUS
  <2> QED
    BY <1>2, <2>1, <2>2
<1>4. n \div MaskBits = s /\ n % MaskBits = b
  <2>1. (s * MaskBits + b) \div MaskBits = s /\ (s * MaskBits + b) % MaskBits = b
    BY <1>1, SegmentAndBit
  <2> QED
    BY <1>2, <2>1
<1>5. ~Hierarchical(c) => s = 0 /\ n = b
  BY <1>1, <1>2 DEF Valid
<1> QED
  BY <1>3, <1>4, <1>5

(* nextspot stays in the field.                                             *)
LEMMA NextSpotType ==
  ASSUME NEW field, NEW spot \in Nat, NEW spots \in Nat \ {0}
  PROVE  nextspot(field, spot, spots) \in 0 .. spots - 1
<1> DEFINE P(k) == /\ k = spots + 1 \/ (spot + k) % spots \notin field
                   /\ \A j \in 1 .. k - 1 : (spot + j) % spots \in field
           T == {k \in 1 .. spots + 1 : k = spots + 1 \/ (spot + k) % spots \notin field}
<1>1. \E m \in T : \A k \in T : m <= k
  <2>1. T \in SUBSET Nat /\ spots + 1 \in T
    OBVIOUS
  <2> QED
    BY <2>1, LeastNatural
<1>2. PICK m \in T : \A k \in T : m <= k
  BY <1>1
<1>3. m \in 1 .. spots + 1 /\ P(m)
  <2>1. ASSUME NEW j \in 1 .. m - 1 PROVE (spot + j) % spots \in field
    <3>1. j \in 1 .. spots + 1 /\ j < m
      OBVIOUS
    <3>2. CASE (spot + j) % spots \notin field
      <4>1. j \in T
        BY <3>1, <3>2
      <4>2. m <= j
        BY <1>2, <4>1
      <4> QED
        BY <3>1, <4>2
    <3> QED
      BY <3>2
  <2> QED
    BY <2>1
<1>4. PICK step \in 1 .. spots + 1 : step = CHOOSE k \in 1 .. spots + 1 : P(k)
  BY <1>3
<1>5. nextspot(field, spot, spots) = (spot + step) % spots
  BY <1>4 DEF nextspot
<1>6. (spot + step) % spots \in 0 .. spots - 1
  BY DivMod
<1> QED
  BY <1>5, <1>6

-----------------------------------------------------------------------------
(***************************************************************************)
(* The inductive invariant.                                                *)
(***************************************************************************)

\* Labels at which a thread is counted in on its page, and at which it holds the lock.
Inside   == {"recheck", "segment", "spot", "full", "countout", "clear", "notfull", "countdown"}
Locking  == {"clean", "unformat", "unlock"}
\* Labels at which the thread works on the page in the format it believes in.
Working  == {"segment", "spot", "full", "clear", "notfull"}
\* Labels of a call of malloc.
Asking   == {"search", "page", "open", "use", "recheck", "segment", "spot", "full", "countout"}
Labels   == {"idle", "search", "page", "open", "use", "lock", "meta", "block"} \cup Inside \cup Locking

Local == [pc : Labels, bytes : Nat, finder : {0, 1}, start : Nat, block : 0 .. AccessBlocks - 1,
          page : Nat, region : Nat, level : Nat, c : Nat, fill : Nat, mask : SUBSET Nat, spot : Nat,
          bit : Nat, tries : Int]

TypeOK ==
    /\ chunksize \in [Pages -> Nat]
    /\ count \in [Pages -> Int]
    /\ bitmask \in [Pages -> SUBSET Bits]
    /\ onpage \in [Pages -> [1 .. MaxOnPageMasks -> SUBSET Bits]]
    /\ regions \in [0 .. RegionOf(NumPages - 1) -> Nat]
    /\ firstfreeblock \in 0 .. AccessBlocks - 1
    /\ th \in [Threads -> Local]
    /\ IsFiniteSet(live)
    /\ outstanding \in Int
    /\ requests \in Nat

\* What a thread may rely on by its own local variables l.
LocalOK(l) ==
    /\ l.pc \in Labels \ {"idle", "search", "page"} => l.page \in Pages
    /\ l.pc \in Asking \ {"search"} => (l.region + 1) * RegionSize <= NumPages
    /\ l.pc \in Asking => l.bytes \in Sizes
    /\ l.pc \in {"use", "recheck"} \cup Working => l.c >= MinChunkSize
    /\ l.pc \in {"use", "recheck", "segment", "spot", "full"} => l.c >= l.bytes
    /\ l.pc \in {"segment", "full", "notfull"} => Hierarchical(l.c)
    /\ l.pc \in {"search", "page", "open", "use", "recheck"} => l.spot = 0
    /\ l.pc \in {"spot", "clear"} => Valid(l.c, l.spot, l.bit)
    /\ l.pc = "full" => l.spot \in 0 .. Segments(l.c) - 1

\* What a thread may rely on of the page table: while it works on a page nobody
\* can lock or reformat it, and one that counted in on a locked page knows.
TableOK(l) ==
    /\ l.pc \in Working => chunksize[l.page] = l.c /\ Locks(l.page) = {}
    /\ l.pc = "recheck" /\ Locks(l.page) # {} => l.fill >= PageSize
    /\ l.pc \in {"unformat", "unlock"} => \A w \in 1 .. MaxOnPageMasks : onpage[l.page][w] = {}

Threading == \A t \in Threads : LocalOK(th[t]) /\ TableOK(th[t])

\* A page without format has clear masks, whoever formats it next.
Formats ==
    \A p \in Pages :
        /\ chunksize[p] = 0 \/ chunksize[p] >= MinChunkSize
        /\ chunksize[p] = 0 /\ Locks(p) = {} => \A w \in 1 .. MaxOnPageMasks : onpage[p][w] = {}

\* The chunk of bit b of segment s of page p formatted with c.
Chunk(p, c, s, b) == [page |-> p, offset |-> (MaskBits * s + b) * c, size |-> c]

\* Chunks in use stand at a place of their page in its format.
LiveOK ==
    \A x \in live :
        /\ x.page \in Pages /\ Locks(x.page) = {}
        /\ chunksize[x.page] # 0
        /\ \E s, b \in Nat : /\ Valid(chunksize[x.page], s, b)
                             /\ x = Chunk(x.page, chunksize[x.page], s, b)

\* No two threads give back the same chunk, and nobody uses it any more.
ClearingOK ==
    \A t \in Threads : At(t, "clear") =>
        /\ ChunkAt(th[t]) \notin live
        /\ \A u \in Threads : At(u, "clear") /\ ChunkAt(th[u]) = ChunkAt(th[t]) => u = t

\* A chunk whose bit must be set: in use, or given back and not yet cleared.
Taken(p, c, s, b) ==
    \/ Chunk(p, c, s, b) \in live
    \/ \E t \in Threads : At(t, "clear") /\ th[t].page = p /\ th[t].c = c /\ th[t].spot = s /\ th[t].bit = b

\* The bits of page p formatted with c, one by one.
BitsOf(p, c) ==
    /\ Hierarchical(c) =>
         \A s \in 0 .. Segments(c) - 1 : \A b \in Nat :
             b \in onpage[p][MaskWord(c, s)] <=> (Valid(c, s, b) /\ Taken(p, c, s, b))
    /\ ~ Hierarchical(c) => \A b \in Nat : Valid(c, 0, b) /\ Taken(p, c, 0, b) => b \in bitmask[p]

BitsExact ==
    \A p \in Pages : \A c \in Nat \ {0} : chunksize[p] = c /\ Locks(p) = {} => BitsOf(p, c)

IInv == TypeOK /\ Threading /\ Formats /\ LiveOK /\ ClearingOK /\ BitsExact /\ CountExact

-----------------------------------------------------------------------------
(***************************************************************************)
(* What a step of a thread does to the sets the count stands for.          *)
(***************************************************************************)

(* The sets of threads and chunks of a page are finite.                     *)
LEMMA FiniteSets ==
  ASSUME TypeOK, NEW p
  PROVE  /\ IsFiniteSet(OnPage(p)) /\ IsFiniteSet(CountedIn(p)) /\ IsFiniteSet(Locks(p))
         /\ Cardinality(OnPage(p)) \in Nat /\ Cardinality(CountedIn(p)) \in Nat
         /\ Cardinality(Locks(p)) \in Nat
<1>1. OnPage(p) \in SUBSET live /\ CountedIn(p) \in SUBSET Threads /\ Locks(p) \in SUBSET Threads
  BY DEF OnPage, CountedIn, Locks
<1>2. IsFiniteSet(OnPage(p)) /\ IsFiniteSet(CountedIn(p)) /\ IsFiniteSet(Locks(p))
  BY <1>1, FS_Subset, ScatterAssumption DEF TypeOK
<1> QED
  BY <1>2, FS_CardinalityType

(* What the count of a page says.                                           *)
LEMMA CountFacts ==
  ASSUME TypeOK, CountExact, NEW p \in Pages
  PROVE  /\ count[p] \in Nat
         /\ count[p] = 0 => OnPage(p) = {} /\ CountedIn(p) = {} /\ Locks(p) = {}
         /\ Locks(p) # {} => Cardinality(Locks(p)) = 1 /\ count[p] >= PageSize /\ OnPage(p) = {}
         /\ Locks(p) = {} => count[p] = Cardinality(OnPage(p)) + Cardinality(CountedIn(p))
<1>1. PICK a \in Nat, i \in Nat, k \in Nat :
        a = Cardinality(OnPage(p)) /\ i = Cardinality(CountedIn(p)) /\ k = Cardinality(Locks(p))
  BY FiniteSets
<1>2. count[p] = a + i + PageSize * k /\ k <= 1 /\ PageSize \in Nat \ {0}
  BY <1>1, Positive DEF CountExact
<1>3. k = 0 \/ k = 1
  BY <1>2
<1>4. /\ a = 0 <=> OnPage(p) = {}
      /\ i = 0 <=> CountedIn(p) = {}
      /\ k = 0 <=> Locks(p) = {}
  BY <1>1, FiniteSets, FS_EmptySet
<1>5. CASE k = 0
  <2>1. count[p] = a + i
    BY <1>2, <1>5
  <2>2. count[p] \in Nat /\ (count[p] = 0 => a = 0 /\ i = 0)
    BY <2>1
  <2>3. Locks(p) = {}
    BY <1>4, <1>5
  <2> QED
    BY <1>1, <1>4, <2>1, <2>2, <2>3
<1>6. CASE k = 1
  <2>1. count[p] = a + i + PageSize
    BY <1>2, <1>6
  <2>2. Locks(p) # {} /\ OnPage(p) = {}
    BY <1>4, <1>6 DEF CountExact
  <2>3. count[p] \in Nat /\ count[p] >= PageSize /\ count[p] # 0
    BY <1>2, <2>1
  <2> QED
    BY <1>1, <1>6, <2>2, <2>3
<1> QED
  BY <1>3, <1>5, <1>6

(* A step of t changes the local variables of t alone.                      *)
LEMMA ThreadSets ==
  ASSUME TypeOK, NEW t \in Threads, NEW l, Becomes(t, l)
  PROVE  /\ \A u \in Threads : th'[u] = IF u = t THEN l ELSE th[u]
         /\ \A p : CountedIn(p)' = IF l.page = p /\ l.pc \in Inside THEN CountedIn(p) \cup {t}
                                  ELSE CountedIn(p) \ {t}
         /\ \A p : Locks(p)' = IF l.page = p /\ l.pc \in Locking THEN Locks(p) \cup {t}
                              ELSE Locks(p) \ {t}
<1>1. \A u \in Threads : th'[u] = IF u = t THEN l ELSE th[u]
  BY DEF Becomes, TypeOK
<1>2. \A p : CountedIn(p)' = IF l.page = p /\ l.pc \in Inside THEN CountedIn(p) \cup {t}
                            ELSE CountedIn(p) \ {t}
  BY <1>1 DEF CountedIn, Inside
<1>3. \A p : Locks(p)' = IF l.page = p /\ l.pc \in Locking THEN Locks(p) \cup {t}
                       ELSE Locks(p) \ {t}
  BY <1>1 DEF Locks, Locking
<1> QED
  BY <1>1, <1>2, <1>3

(* The locals of a thread keep their type when it becomes a typed record.   *)
LEMMA ThreadType ==
  ASSUME TypeOK, NEW t \in Threads, NEW l \in Local, Becomes(t, l)
  PROVE  th' \in [Threads -> Local]
BY DEF Becomes, TypeOK

(* The count is exact after a step that changes none of its sets.           *)
LEMMA CountSame ==
  ASSUME CountExact, count' = count, live' = live,
         \A p \in Pages : CountedIn(p)' = CountedIn(p) /\ Locks(p)' = Locks(p)
  PROVE  CountExact'
BY DEF CountExact, OnPage

(* A thread outside of the pages before and after its step, which leaves    *)
(* the pages alone.                                                         *)
LEMMA OutsideStep ==
  ASSUME IInv, NEW t \in Threads, NEW l \in Local, Becomes(t, l), LocalOK(l),
         th[t].pc \notin Inside \cup Locking, l.pc \notin Inside \cup Locking,
         UNCHANGED <<chunksize, count, bitmask, onpage, live, outstanding>>,
         regions' \in [0 .. RegionOf(NumPages - 1) -> Nat],
         firstfreeblock' \in 0 .. AccessBlocks - 1, requests' \in Nat
  PROVE  IInv'
<1> USE DEF IInv
<1>1. TypeOK'
  BY ThreadType DEF TypeOK
<1>2. \A u \in Threads : th'[u] = IF u = t THEN l ELSE th[u]
  BY ThreadSets
<1>3. \A p : CountedIn(p)' = CountedIn(p) /\ Locks(p)' = Locks(p)
  <2>1. \A p : t \notin CountedIn(p) /\ t \notin Locks(p)
    BY DEF CountedIn, Locks, Inside, Locking
  <2>2. \A p : CountedIn(p)' = CountedIn(p) \ {t} /\ Locks(p)' = Locks(p) \ {t}
    <3>1. l.pc \notin Inside /\ l.pc \notin Locking
      OBVIOUS
    <3> QED
      BY <3>1, ThreadSets
  <2> QED
    BY <2>1, <2>2
<1>4. Threading'
  <2> SUFFICES ASSUME NEW u \in Threads PROVE LocalOK(th'[u]) /\ TableOK(th[u])'
    BY DEF Threading, LocalOK
  <2>1. CASE u = t
    BY <1>2, <2>1 DEF TableOK, Inside, Locking, Working
  <2>2. CASE u # t
    BY <1>2, <1>3, <2>2 DEF Threading, TableOK
  <2> QED
    BY <2>1, <2>2
<1>5. Formats' /\ LiveOK'
  BY <1>3 DEF Formats, LiveOK
<1>6. \A u \in Threads : At(u, "clear")' = At(u, "clear") /\ (At(u, "clear") => th'[u] = th[u])
  BY <1>2 DEF At, Inside
<1>7. ClearingOK'
  BY <1>6 DEF ClearingOK, ChunkAt
<1>8. BitsExact'
  <2>1. \A p, c, s, b : Taken(p, c, s, b)' = Taken(p, c, s, b)
    BY <1>6 DEF Taken
  <2> QED
    BY <1>3, <2>1 DEF BitsExact, BitsOf
<1>9. CountExact'
  BY <1>3, CountSame
<1> QED
  BY <1>1, <1>4, <1>5, <1>7, <1>8, <1>9

(* A thread that stays counted in on its page and changes no chunk; it may  *)
(* set bits of entries, and clear those of hierarchical pages, where they   *)
(* only say which segments to try.                                          *)
LEMMA InsideStep ==
  ASSUME IInv, NEW t \in Threads, NEW l \in Local, Becomes(t, l), LocalOK(l),
         th[t].pc \in Inside \ {"clear"}, l.pc \in Inside \ {"recheck", "clear"}, l.page = th[t].page,
         l.pc \in Working => chunksize[l.page] = l.c /\ Locks(l.page) = {},
         UNCHANGED <<chunksize, count, onpage, regions, firstfreeblock, live, outstanding, requests>>,
         bitmask' \in [Pages -> SUBSET Bits],
         \A p \in Pages : chunksize[p] # 0 /\ Locks(p) = {} /\ ~Hierarchical(chunksize[p])
                          => bitmask[p] \subseteq bitmask'[p]
  PROVE  IInv'
<1> USE DEF IInv
<1>1. TypeOK'
  BY ThreadType DEF TypeOK
<1>2. \A u \in Threads : th'[u] = IF u = t THEN l ELSE th[u]
  BY ThreadSets
<1>3. \A p : CountedIn(p)' = CountedIn(p) /\ Locks(p)' = Locks(p)
  <2>1. \A p : t \notin Locks(p) /\ (t \in CountedIn(p) <=> p = l.page)
    BY DEF CountedIn, Locks, Inside, Locking
  <2>2. l.pc \in Inside /\ l.pc \notin Locking
    BY DEF Inside, Locking
  <2>3. \A p : Locks(p)' = Locks(p) \ {t}
    BY <2>2, ThreadSets
  <2>4. \A p : CountedIn(p)' = IF l.page = p THEN CountedIn(p) \cup {t} ELSE CountedIn(p) \ {t}
    BY <2>2, ThreadSets
  <2> QED
    BY <2>1, <2>3, <2>4
<1>4. Threading'
  <2> SUFFICES ASSUME NEW u \in Threads PROVE LocalOK(th'[u]) /\ TableOK(th[u])'
    BY DEF Threading, LocalOK
  <2>1. CASE u = t
    BY <1>2, <1>3, <2>1 DEF TableOK, Inside
  <2>2. CASE u # t
    BY <1>2, <1>3, <2>2 DEF Threading, TableOK
  <2> QED
    BY <2>1, <2>2
<1>5. Formats' /\ LiveOK'
  BY <1>3 DEF Formats, LiveOK
<1>6. \A u \in Threads : At(u, "clear")' = At(u, "clear") /\ (At(u, "clear") => th'[u] = th[u])
  BY <1>2 DEF At, Inside
<1>7. ClearingOK'
  BY <1>6 DEF ClearingOK, ChunkAt
<1>8. BitsExact'
  <2>1. \A p, c, s, b : Taken(p, c, s, b)' = Taken(p, c, s, b)
    BY <1>6 DEF Taken
  <2> QED
    BY <1>3, <2>1 DEF BitsExact, BitsOf
<1>9. CountExact'
  BY <1>3, CountSame
<1> QED
  BY <1>1, <1>4, <1>5, <1>7, <1>8, <1>9

-----------------------------------------------------------------------------
(***************************************************************************)
(* The search for a page.                                                  *)
(***************************************************************************)

(* The blocks and the regions cover the pages and nothing else.             *)
LEMMA PageBounds ==
  /\ PagesPerBlock \in Nat
  /\ \A b \in 0 .. AccessBlocks - 1 : (b + 1) * PagesPerBlock <= NumPages
  /\ \A p \in Pages : /\ RegionOf(p) \in 0 .. RegionOf(NumPages - 1)
                      /\ (RegionOf(p) + 1) * RegionSize <= NumPages
  /\ \A r \in Nat : (r + 1) * RegionSize <= NumPages => r \in 0 .. RegionOf(NumPages - 1)
<1> USE Positive
<1>1. PICK n \in Nat : n = PagesPerBlock /\ NumPages = n * AccessBlocks
  <2>1. NumPages \div AccessBlocks \in Nat
    BY DivNat
  <2>2. NumPages = (NumPages \div AccessBlocks) * AccessBlocks + (NumPages % AccessBlocks)
    BY DivMod
  <2>3. NumPages % AccessBlocks = 0
    BY ScatterAssumption
  <2>4. (NumPages \div AccessBlocks) * AccessBlocks \in Nat
    BY <2>1
  <2> QED
    BY <2>1, <2>2, <2>3, <2>4 DEF PagesPerBlock
<1>2. ASSUME NEW b \in 0 .. AccessBlocks - 1 PROVE (b + 1) * PagesPerBlock <= NumPages
  <2>1. (b + 1) * n <= AccessBlocks * n
    BY MulMono
  <2>2. AccessBlocks * n = n * AccessBlocks
    OBVIOUS
  <2> QED
    BY <1>1, <2>1, <2>2
<1>3. PICK k \in Nat : NumPages = k * RegionSize
  <2>1. NumPages \div RegionSize \in Nat
    BY DivNat
  <2>2. NumPages = (NumPages \div RegionSize) * RegionSize + (NumPages % RegionSize)
    BY DivMod
  <2>3. NumPages % RegionSize = 0
    BY ScatterAssumption
  <2>4. PICK q \in Nat : q = NumPages \div RegionSize
    BY <2>1
  <2>5. q * RegionSize \in Nat /\ NumPages = q * RegionSize + 0
    BY <2>2, <2>3, <2>4
  <2> QED
    BY <2>5
<1>4. PICK top \in Nat : top = RegionOf(NumPages - 1)
  BY DivNat DEF RegionOf
<1>5. ASSUME NEW r \in Nat, (r + 1) * RegionSize <= NumPages PROVE r \in 0 .. top
  <2>1. (r + 1) * RegionSize = r * RegionSize + RegionSize /\ r * RegionSize \in Nat
    OBVIOUS
  <2>2. r * RegionSize <= NumPages - 1
    BY <1>5, <2>1
  <2>3. r <= (NumPages - 1) \div RegionSize
    BY <2>2, DivAtLeast
  <2> QED
    BY <1>4, <2>3 DEF RegionOf
<1>6. ASSUME NEW p \in Pages
      PROVE  RegionOf(p) \in 0 .. top /\ (RegionOf(p) + 1) * RegionSize <= NumPages
  <2>1. p \in Nat /\ p < k * RegionSize
    BY <1>3 DEF Pages
  <2>2. PICK r \in Nat : r = RegionOf(p)
    BY <2>1, DivNat DEF RegionOf
  <2>3. r < k
    BY <2>1, <2>2, DivLess DEF RegionOf
  <2>4. (r + 1) * RegionSize <= k * RegionSize
    BY <2>3, MulMono
  <2> QED
    BY <1>3, <1>5, <2>2, <2>4
<1> QED
  BY <1>1, <1>2, <1>4, <1>5, <1>6

(* The record of a thread that does nothing.                                *)
LEMMA IdleType == Idle \in Local /\ LocalOK(Idle)
BY Positive DEF Idle, Local, LocalOK, Labels, Asking, Working, Inside, Locking

(* malloc is called.                                                        *)
LEMMA CreateStep ==
  ASSUME IInv, NEW t \in Threads, NEW bytes \in Sizes, NEW startpage \in 0 .. PagesPerBlock - 1,
         create(t, bytes, startpage)
  PROVE  IInv'
<1>1. PICK n \in Nat : n = startpage + firstfreeblock * PagesPerBlock
  <2>1. PagesPerBlock \in Nat /\ firstfreeblock \in Nat
    BY PageBounds DEF IInv, TypeOK
  <2>2. firstfreeblock * PagesPerBlock \in Nat
    BY <2>1
  <2> QED
    BY <2>1, <2>2
<1>2. PICK l : l = [Idle EXCEPT !.pc = "search", !.bytes = bytes, !.start = firstfreeblock,
                               !.block = firstfreeblock, !.page = n]
  OBVIOUS
<1>3. l \in Local /\ LocalOK(l) /\ l.pc = "search"
  <2>1. bytes \in Nat /\ firstfreeblock \in Nat /\ firstfreeblock \in 0 .. AccessBlocks - 1
    BY ScatterAssumption, Positive DEF IInv, TypeOK
  <2>2. l \in Local
    <3>1. "search" \in Labels /\ n \in Nat
      BY <1>1 DEF Labels
    <3> QED
      BY <1>2, <2>1, <3>1, IdleType DEF Local
  <2>3. l.pc = "search" /\ l.bytes = bytes /\ l.spot = 0
    BY <1>2 DEF Idle
  <2> QED
    BY <2>2, <2>3 DEF LocalOK, Working
<1>4. /\ Becomes(t, l) /\ th[t].pc = "idle" /\ requests' = requests + 1
      /\ UNCHANGED <<chunksize, count, bitmask, onpage, regions, firstfreeblock, live, outstanding>>
  BY <1>1, <1>2 DEF create, At, heap
<1>5. regions' \in [0 .. RegionOf(NumPages - 1) -> Nat] /\ firstfreeblock' \in 0 .. AccessBlocks - 1
      /\ requests' \in Nat
  BY <1>4 DEF IInv, TypeOK
<1>6. th[t].pc \notin Inside \cup Locking /\ l.pc \notin Inside \cup Locking
  BY <1>3, <1>4 DEF Inside, Locking
<1> QED
  BY <1>3, <1>4, <1>5, <1>6, OutsideStep

(* The types of a thread's local variables.                                 *)
LEMMA LocalType ==
  ASSUME TypeOK, NEW t \in Threads
  PROVE  /\ th[t] \in Local
         /\ th[t].block \in 0 .. AccessBlocks - 1
         /\ \A n \in {th[t].bytes, th[t].start, th[t].page, th[t].region, th[t].level, th[t].c,
                       th[t].fill, th[t].spot, th[t].bit} : n \in Nat
BY DEF TypeOK, Local

(* A region is searched or skipped.                                         *)
LEMMA ReadRegionStep == ASSUME IInv, NEW t \in Threads, ReadRegion(t) PROVE IInv'
<1>1. PICK l : l = th[t]
  OBVIOUS
<1>2. l \in Local /\ LocalOK(l) /\ l.pc = "search" /\ l.page \in Nat /\ InBlock(l)
      /\ l.block \in 0 .. AccessBlocks - 1
  BY <1>1, LocalType DEF IInv, ReadRegion, At, Threading
<1>3. l.page \in Pages
  <2>1. l.page < (l.block + 1) * PagesPerBlock
    BY <1>2 DEF InBlock
  <2>2. (l.block + 1) * PagesPerBlock <= NumPages /\ PagesPerBlock \in Nat
    BY <1>2, PageBounds
  <2>3. (l.block + 1) * PagesPerBlock \in Nat
    BY <1>2, <2>2
  <2> QED
    BY <1>2, <2>1, <2>2, <2>3, Positive DEF Pages
<1>4. PICK r \in 0 .. RegionOf(NumPages - 1), level \in Nat :
        r = RegionOf(l.page) /\ level = regions[r] /\ (r + 1) * RegionSize <= NumPages
  BY <1>3, PageBounds DEF IInv, TypeOK
<1>5. PICK m : /\ Becomes(t, m)
               /\ \/ m = [l EXCEPT !.pc = "page", !.region = r, !.level = level]
                  \/ m = [l EXCEPT !.page = l.page + RegionSize]
  BY <1>1, <1>4 DEF ReadRegion
<1>6. m \in Local /\ LocalOK(m) /\ m.pc \in {"search", "page"}
  <2>1. "page" \in Labels /\ r \in Nat /\ l.page + RegionSize \in Nat
    BY <1>2, <1>4, Positive DEF Labels
  <2>2. m \in Local
    <3>1. [l EXCEPT !.pc = "page", !.region = r, !.level = level] \in Local
      BY <1>2, <1>4, <2>1 DEF Local
    <3>2. [l EXCEPT !.page = l.page + RegionSize] \in Local
      BY <1>2, <2>1 DEF Local
    <3> QED
      BY <1>5, <3>1, <3>2
  <2>3. m.pc \in {"search", "page"} /\ m.bytes = l.bytes /\ (m.pc = "page" => m.region = r) /\ m.spot = l.spot
    BY <1>2, <1>5 DEF Local
  <2>4. l.bytes \in Sizes /\ l.spot = 0
    BY <1>2 DEF LocalOK, Asking
  <2> QED
    BY <1>4, <2>2, <2>3, <2>4 DEF LocalOK, Working, Asking
<1>7. UNCHANGED <<chunksize, count, bitmask, onpage, regions, firstfreeblock, live, outstanding, requests>>
  BY DEF ReadRegion, heap, kernels
<1>8. regions' \in [0 .. RegionOf(NumPages - 1) -> Nat] /\ firstfreeblock' \in 0 .. AccessBlocks - 1
      /\ requests' \in Nat
  BY <1>7 DEF IInv, TypeOK
<1>9. th[t].pc \notin Inside \cup Locking /\ m.pc \notin Inside \cup Locking
  BY <1>1, <1>2, <1>6 DEF Inside, Locking
<1> QED
  BY <1>5, <1>6, <1>7, <1>8, <1>9, OutsideStep

(* The next block, the second pass, or NULL.                                *)
LEMMA NextBlockStep == ASSUME IInv, NEW t \in Threads, NextBlock(t) PROVE IInv'
<1>1. PICK l : l = th[t]
  OBVIOUS
<1>2. l \in Local /\ LocalOK(l) /\ l.pc = "search" /\ l.page \in Nat
      /\ l.block \in 0 .. AccessBlocks - 1 /\ l.bytes \in Sizes /\ l.spot = 0
  BY <1>1, LocalType DEF IInv, NextBlock, At, Threading, LocalOK, Asking
<1>3. PICK m : /\ Becomes(t, m)
               /\ \/ m = [l EXCEPT !.block = l.block + 1] /\ l.block # AccessBlocks - 1
                  \/ m = [Idle EXCEPT !.pc = "search", !.bytes = l.bytes, !.finder = 1]
                  \/ m = Idle
  BY <1>1 DEF NextBlock
<1>4. m \in Local /\ LocalOK(m) /\ m.pc \in {"search", "idle"}
  <2>1. CASE m = Idle
    BY <2>1, IdleType DEF Idle
  <2>2. CASE m = [l EXCEPT !.block = l.block + 1] /\ l.block # AccessBlocks - 1
    <3>1. l.block + 1 \in 0 .. AccessBlocks - 1
      BY <1>2, <2>2, Positive
    <3>2. m \in Local
      BY <1>2, <2>2, <3>1 DEF Local
    <3>3. m.pc = "search" /\ m.bytes = l.bytes /\ m.spot = l.spot
      BY <1>2, <2>2 DEF Local
    <3> QED
      BY <1>2, <3>2, <3>3 DEF LocalOK, Working
  <2>3. CASE m = [Idle EXCEPT !.pc = "search", !.bytes = l.bytes, !.finder = 1]
    <3>1. "search" \in Labels /\ l.bytes \in Nat
      BY <1>2 DEF Labels, Local
    <3>2. m \in Local
      BY <2>3, <3>1, IdleType DEF Local
    <3>3. m.pc = "search" /\ m.bytes = l.bytes /\ m.spot = 0
      BY <2>3 DEF Idle
    <3> QED
      BY <1>2, <3>2, <3>3 DEF LocalOK, Working
  <2> QED
    BY <1>3, <2>1, <2>2, <2>3
<1>5. UNCHANGED <<chunksize, count, bitmask, onpage, regions, live, outstanding, requests>>
      /\ firstfreeblock' \in {firstfreeblock, l.block}
  BY <1>1 DEF NextBlock, kernels
<1>6. regions' \in [0 .. RegionOf(NumPages - 1) -> Nat] /\ firstfreeblock' \in 0 .. AccessBlocks - 1
      /\ requests' \in Nat
  BY <1>2, <1>5 DEF IInv, TypeOK
<1>7. th[t].pc \notin Inside \cup Locking /\ m.pc \notin Inside \cup Locking
  BY <1>1, <1>2, <1>4 DEF Inside, Locking
<1> QED
  BY <1>3, <1>4, <1>5, <1>6, <1>7, OutsideStep

(* The locals with which the search goes on.                                *)
LEMMA NextPageType ==
  ASSUME NEW l \in Local, l.bytes \in Sizes, (l.region + 1) * RegionSize <= NumPages
  PROVE  /\ NextPage(l) \in Local /\ LocalOK(NextPage(l))
         /\ NextPage(l).pc = "page" /\ NextPage(l).page = l.page + 1
<1>1. "page" \in Labels /\ l.page + 1 \in Nat /\ {} \in SUBSET Nat
  BY DEF Labels, Local
<1>2. NextPage(l) \in Local
  <2>1. PICK a : a = [l EXCEPT !.pc = "page", !.page = l.page + 1, !.c = 0, !.fill = 0]
    OBVIOUS
  <2>2. a \in Local
    BY <1>1, <2>1 DEF Local
  <2>0. PICK e \in SUBSET Nat : e = {}
    OBVIOUS
  <2>4. PICK b : b = [a EXCEPT !.mask = e]
    OBVIOUS
  <2>5. b \in Local
    BY <2>2, <2>4 DEF Local
  <2>6. PICK d : d = [b EXCEPT !.spot = 0, !.bit = 0]
    OBVIOUS
  <2>7. d \in Local
    BY <2>5, <2>6 DEF Local
  <2>3. [d EXCEPT !.tries = 0] \in Local
    BY <2>7 DEF Local
  <2> QED
    BY <2>0, <2>1, <2>3, <2>4, <2>6 DEF NextPage
<1>3. /\ NextPage(l).pc = "page" /\ NextPage(l).page = l.page + 1
      /\ NextPage(l).region = l.region /\ NextPage(l).bytes = l.bytes /\ NextPage(l).spot = 0
  BY DEF NextPage, Local
<1> QED
  BY <1>2, <1>3 DEF LocalOK, Working

(* A page of the region that is searched is a page of the heap.             *)
LEMMA InRegionPage ==
  ASSUME NEW l \in Local, (l.region + 1) * RegionSize <= NumPages, InRegion(l)
  PROVE  l.page \in Pages
<1>1. l.page \in Nat /\ l.region \in Nat
  BY DEF Local
<1>2. (l.region + 1) * RegionSize \in Nat /\ NumPages \in Nat
  BY <1>1, Positive
<1> QED
  BY <1>1, <1>2 DEF InRegion, Pages

(* A page is used, opened or passed by.                                     *)
LEMMA ReadPageStep == ASSUME IInv, NEW t \in Threads, ReadPage(t) PROVE IInv'
<1>1. PICK l, c : l = th[t] /\ c = chunksize[l.page]
  OBVIOUS
<1>2. l \in Local /\ LocalOK(l) /\ l.pc = "page" /\ InRegion(l)
  BY <1>1, LocalType DEF IInv, ReadPage, At, Threading
<1>3. l.page \in Pages /\ l.bytes \in Sizes /\ l.bytes \in 1 .. PageSize - 1
      /\ (l.region + 1) * RegionSize <= NumPages /\ l.spot = 0
  BY <1>2, InRegionPage, ScatterAssumption DEF LocalOK, Asking
<1>4. c \in Nat /\ (c = 0 \/ c >= MinChunkSize)
  BY <1>1, <1>3 DEF IInv, TypeOK, Formats
<1>5. PICK m : /\ Becomes(t, m)
               /\ \/ m = [l EXCEPT !.pc = "use", !.c = c] /\ Suits(c, l.bytes)
                  \/ m = [l EXCEPT !.pc = "open"]
                  \/ m = NextPage(l)
  BY <1>1 DEF ReadPage
<1>6. m \in Local /\ LocalOK(m) /\ m.pc \in {"use", "open", "page"}
  <2>1. CASE m = [l EXCEPT !.pc = "use", !.c = c] /\ Suits(c, l.bytes)
    <3>1. c >= l.bytes
      BY <2>1 DEF Suits
    <3>2. "use" \in Labels
      BY DEF Labels
    <3>3. m \in Local
      BY <1>2, <1>4, <2>1, <3>2 DEF Local
    <3>4. m.pc = "use" /\ m.c = c /\ m.page = l.page /\ m.bytes = l.bytes /\ m.region = l.region /\ m.spot = l.spot
      BY <1>2, <2>1 DEF Local
    <3>5. c >= MinChunkSize
      BY <1>3, <1>4, <3>1, Positive
    <3> QED
      BY <1>3, <3>1, <3>3, <3>4, <3>5 DEF LocalOK
  <2>2. CASE m = [l EXCEPT !.pc = "open"]
    <3>1. "open" \in Labels
      BY DEF Labels
    <3>2. m \in Local
      BY <1>2, <2>2, <3>1 DEF Local
    <3>3. m.pc = "open" /\ m.page = l.page /\ m.bytes = l.bytes /\ m.region = l.region /\ m.spot = l.spot
      BY <1>2, <2>2 DEF Local
    <3> QED
      BY <1>3, <3>2, <3>3 DEF LocalOK, Working
  <2>3. CASE m = NextPage(l)
    BY <1>2, <1>3, <2>3, NextPageType
  <2> QED
    BY <1>5, <2>1, <2>2, <2>3
<1>7. UNCHANGED <<chunksize, count, bitmask, onpage, regions, firstfreeblock, live, outstanding, requests>>
  BY DEF ReadPage, heap, kernels
<1>8. regions' \in [0 .. RegionOf(NumPages - 1) -> Nat] /\ firstfreeblock' \in 0 .. AccessBlocks - 1
      /\ requests' \in Nat
  BY <1>7 DEF IInv, TypeOK
<1>9. th[t].pc \notin Inside \cup Locking /\ m.pc \notin Inside \cup Locking
  BY <1>1, <1>2, <1>6 DEF Inside, Locking
<1> QED
  BY <1>5, <1>6, <1>7, <1>8, <1>9, OutsideStep

(* A region is searched in vain.                                            *)
LEMMA NextRegionStep == ASSUME IInv, NEW t \in Threads, NextRegion(t) PROVE IInv'
<1>1. PICK l, m : l = th[t] /\ m = [l EXCEPT !.pc = "search", !.region = 0, !.level = 0]
  OBVIOUS
<1>2. l \in Local /\ LocalOK(l) /\ l.pc = "page" /\ Becomes(t, m)
  BY <1>1, LocalType DEF IInv, NextRegion, At, Threading
<1>3. l.bytes \in Sizes /\ l.region \in Nat /\ l.level \in Nat /\ (l.region + 1) * RegionSize <= NumPages /\ l.spot = 0
  BY <1>2 DEF LocalOK, Asking, Local
<1>4. m \in Local /\ LocalOK(m) /\ m.pc = "search"
  <2>1. "search" \in Labels
    BY DEF Labels
  <2>2. m \in Local
    BY <1>1, <1>2, <2>1 DEF Local
  <2>3. m.pc = "search" /\ m.bytes = l.bytes /\ m.spot = l.spot
    BY <1>1, <1>2 DEF Local
  <2> QED
    BY <1>3, <2>2, <2>3 DEF LocalOK, Working
<1>5. l.region \in 0 .. RegionOf(NumPages - 1)
  BY <1>3, PageBounds
<1>6. PICK r \in Nat : r = Max({regions[l.region], l.level + 1})
  <2>1. regions[l.region] \in Nat
    BY <1>5 DEF IInv, TypeOK
  <2>2. PICK a \in Nat, b \in Nat : a = regions[l.region] /\ b = l.level + 1
    BY <1>3, <2>1
  <2>3. Max({a, b}) = IF a <= b THEN b ELSE a
    BY MinMaxPair
  <2> QED
    BY <2>2, <2>3
<1>7. /\ regions' = [regions EXCEPT ![l.region] = r] \/ regions' = regions
      /\ UNCHANGED <<chunksize, count, bitmask, onpage, firstfreeblock, live, outstanding, requests>>
  BY <1>1, <1>6 DEF NextRegion, kernels
<1>8. regions' \in [0 .. RegionOf(NumPages - 1) -> Nat] /\ firstfreeblock' \in 0 .. AccessBlocks - 1
      /\ requests' \in Nat
  BY <1>5, <1>6, <1>7 DEF IInv, TypeOK
<1>9. th[t].pc \notin Inside \cup Locking /\ m.pc \notin Inside \cup Locking
  BY <1>1, <1>2, <1>4 DEF Inside, Locking
<1> QED
  BY <1>2, <1>4, <1>7, <1>8, <1>9, OutsideStep

(* The end of a free: fill level of the region, first free block.           *)
LEMMA ForgetLevelStep == ASSUME IInv, NEW t \in Threads, ForgetLevel(t) PROVE IInv'
<1>1. PICK l, m : l = th[t] /\ Becomes(t, m) /\ (m = Idle \/ m = [Idle EXCEPT !.pc = "block", !.page = l.page])
  BY DEF ForgetLevel
<1>2. l \in Local /\ LocalOK(l) /\ l.pc = "meta"
  BY <1>1, LocalType DEF IInv, ForgetLevel, At, Threading
<1>3. l.page \in Pages /\ l.page \in Nat
  BY <1>2 DEF LocalOK, Labels, Local
<1>4. m \in Local /\ LocalOK(m) /\ m.pc \in {"idle", "block"}
  <2>1. CASE m = Idle
    BY <2>1, IdleType DEF Idle
  <2>2. CASE m = [Idle EXCEPT !.pc = "block", !.page = l.page]
    <3>1. "block" \in Labels
      BY DEF Labels
    <3>2. m \in Local
      BY <1>3, <2>2, <3>1, IdleType DEF Local
    <3>3. m.pc = "block" /\ m.page = l.page
      BY <2>2 DEF Idle
    <3> QED
      BY <1>3, <3>2, <3>3 DEF LocalOK, Working, Asking
  <2> QED
    BY <1>1, <2>1, <2>2
<1>5. /\ \E r : regions' = [regions EXCEPT ![r] = 0] \/ regions' = regions
      /\ UNCHANGED <<chunksize, count, bitmask, onpage, firstfreeblock, live, outstanding, requests>>
  BY DEF ForgetLevel, kernels
<1>6. regions' \in [0 .. RegionOf(NumPages - 1) -> Nat] /\ firstfreeblock' \in 0 .. AccessBlocks - 1
      /\ requests' \in Nat
  BY <1>5 DEF IInv, TypeOK
<1>7. th[t].pc \notin Inside \cup Locking /\ m.pc \notin Inside \cup Locking
  BY <1>1, <1>2, <1>4 DEF Inside, Locking
<1> QED
  BY <1>1, <1>4, <1>5, <1>6, <1>7, OutsideStep

(* The first block with free memory goes down.                              *)
LEMMA LowerFirstBlockStep == ASSUME IInv, NEW t \in Threads, LowerFirstBlock(t) PROVE IInv'
<1>1. th[t].pc = "block" /\ Becomes(t, Idle) /\ th[t].page \in Pages
  BY DEF LowerFirstBlock, At, IInv, Threading, LocalOK, Labels
<1>2. PICK b \in Nat : b = (RegionOf(th[t].page) * RegionSize * AccessBlocks) \div NumPages
  <2>1. RegionOf(th[t].page) \in Nat
    BY <1>1, PageBounds
  <2>2. RegionOf(th[t].page) * RegionSize \in Nat
    BY <2>1, Positive
  <2>3. RegionOf(th[t].page) * RegionSize * AccessBlocks \in Nat
    BY <2>2, Positive
  <2> QED
    BY <2>3, DivNat, Positive
<1>3. firstfreeblock' = Min({firstfreeblock, b})
      /\ UNCHANGED <<chunksize, count, bitmask, onpage, regions, live, outstanding, requests>>
  BY <1>2 DEF LowerFirstBlock, kernels
<1>4. regions' \in [0 .. RegionOf(NumPages - 1) -> Nat] /\ requests' \in Nat
  BY <1>3 DEF IInv, TypeOK
<1>5. firstfreeblock' \in 0 .. AccessBlocks - 1
  <2>1. firstfreeblock \in 0 .. AccessBlocks - 1
    BY DEF IInv, TypeOK
  <2>2. Min({firstfreeblock, b}) = IF firstfreeblock <= b THEN firstfreeblock ELSE b
    BY <2>1, MinMaxPair
  <2> QED
    BY <1>3, <2>1, <2>2, Positive
<1>6. th[t].pc \notin Inside \cup Locking /\ Idle.pc \notin Inside \cup Locking
  BY <1>1 DEF Inside, Locking, Idle
<1> QED
  BY <1>1, <1>3, <1>4, <1>5, <1>6, IdleType, OutsideStep

(* On a page without format nothing is in use or being given back.          *)
LEMMA NothingTaken ==
  ASSUME IInv, NEW p \in Pages, chunksize[p] = 0 \/ Locks(p) # {}
  PROVE  /\ \A c, s, b : ~Taken(p, c, s, b)
         /\ \A u \in Threads : th[u].pc \in Working => th[u].page # p
         /\ \A x \in live : x.page # p
<1>1. \A x \in live : x.page # p
  BY DEF IInv, LiveOK
<1>2. \A u \in Threads : th[u].pc \in Working => th[u].page # p
  <2> SUFFICES ASSUME NEW u \in Threads, th[u].pc \in Working, th[u].page = p PROVE FALSE
    OBVIOUS
  <2>1. chunksize[p] = th[u].c /\ Locks(p) = {} /\ th[u].c >= MinChunkSize
    BY DEF IInv, Threading, LocalOK, TableOK
  <2> QED
    BY <2>1, Positive
<1>3. \A c, s, b : Chunk(p, c, s, b).page = p
  BY DEF Chunk
<1> QED
  BY <1>1, <1>2, <1>3 DEF Taken, At, Working

(* The words of the masks of a formatted page are among those that          *)
(* PAGE::init clears, a word for each segment.                              *)
LEMMA MaskWords ==
  ASSUME NEW c \in Nat, c >= MinChunkSize, Hierarchical(c)
  PROVE  /\ Segments(c) \in Nat /\ c \in Nat \ {0}
         /\ \A s \in 0 .. Segments(c) - 1 : MaskWord(c, s) \in 1 .. MaxOnPageMasks
                                          /\ MaskWord(c, s) <= Segments(c)
         /\ \A s, r \in 0 .. Segments(c) - 1 : MaskWord(c, s) = MaskWord(c, r) => s = r
<1>1. c \in Nat \ {0}
  BY Positive
<1>2. Segments(c) \in 1 .. MaskBits /\ Segments(c) <= MaxOnPageMasks
  BY <1>1, HierarchicalLayout
<1>3. MaxOnPageMasks \in Nat /\ Segments(c) \in Nat
  BY <1>2, MaxOnPageMasksType, Positive
<1> QED
  BY <1>1, <1>2, <1>3 DEF MaskWord

(* The atomic exchange of the chunk size formats a page, even one that is   *)
(* locked, or finds it formatted.                                           *)
LEMMA OpenPageStep == ASSUME IInv, NEW t \in Threads, OpenPage(t) PROVE IInv'
<1>1. PICK l, q, c, n : l = th[t] /\ q = l.page /\ c = chunksize[q] /\ n = Max({l.bytes, MinChunkSize})
  OBVIOUS
<1>2. l \in Local /\ LocalOK(l) /\ l.pc = "open"
  BY <1>1, LocalType DEF IInv, OpenPage, At, Threading
<1>3. q \in Pages /\ l.bytes \in Sizes /\ (l.region + 1) * RegionSize <= NumPages /\ l.spot = 0
  BY <1>1, <1>2 DEF LocalOK, Asking, Labels
<1>4. c \in Nat /\ (c = 0 \/ c >= MinChunkSize)
  BY <1>1, <1>3 DEF IInv, TypeOK, Formats
<1>5. n \in Nat \ {0} /\ n >= MinChunkSize /\ n >= l.bytes
  <2>1. PICK a \in Int, k \in Int : a = l.bytes /\ k = MinChunkSize /\ a \in Nat /\ k \in Nat \ {0}
    BY <1>2, Positive DEF Local
  <2>2. Max({a, k}) = IF a <= k THEN k ELSE a
    BY MinMaxPair
  <2>3. n = IF a <= k THEN k ELSE a
    BY <1>1, <2>1, <2>2
  <2> QED
    BY <2>1, <2>3
<1>6. \A d \in Nat : d >= MinChunkSize /\ d >= l.bytes =>
         LET m == [l EXCEPT !.pc = "use", !.c = d] IN m \in Local /\ LocalOK(m) /\ m.pc = "use"
  <2> SUFFICES ASSUME NEW d \in Nat, d >= MinChunkSize, d >= l.bytes, NEW m, m = [l EXCEPT !.pc = "use", !.c = d]
               PROVE  m \in Local /\ LocalOK(m) /\ m.pc = "use"
    OBVIOUS
  <2>1. "use" \in Labels
    BY DEF Labels
  <2>2. m \in Local
    BY <1>2, <2>1 DEF Local
  <2>3. m.pc = "use" /\ m.c = d /\ m.page = q /\ m.bytes = l.bytes /\ m.region = l.region /\ m.spot = l.spot
    BY <1>1, <1>2 DEF Local
  <2> QED
    BY <1>3, <2>2, <2>3 DEF LocalOK
<1>7. UNCHANGED <<count, bitmask, onpage, regions, firstfreeblock, live, outstanding, requests>>
  BY DEF OpenPage, kernels
<1>8. regions' \in [0 .. RegionOf(NumPages - 1) -> Nat] /\ firstfreeblock' \in 0 .. AccessBlocks - 1
      /\ requests' \in Nat
  BY <1>7 DEF IInv, TypeOK
<1>9. th[t].pc \notin Inside \cup Locking
  BY <1>1, <1>2 DEF Inside, Locking
<1>10. CASE c # 0
  <2>1. PICK m : /\ Becomes(t, m)
                 /\ \/ m = [l EXCEPT !.pc = "use", !.c = c] /\ Suits(c, l.bytes)
                    \/ m = NextPage(l)
    BY <1>1, <1>10 DEF OpenPage
  <2>2. chunksize' = chunksize
    BY <1>1, <1>10 DEF OpenPage
  <2>3. m \in Local /\ LocalOK(m) /\ m.pc \in {"use", "page"}
    <3>1. CASE m = [l EXCEPT !.pc = "use", !.c = c] /\ Suits(c, l.bytes)
      BY <1>4, <1>6, <1>10, <3>1 DEF Suits
    <3>2. CASE m = NextPage(l)
      BY <1>2, <1>3, <3>2, NextPageType
    <3> QED
      BY <2>1, <3>1, <3>2
  <2>4. m.pc \notin Inside \cup Locking
    BY <2>3 DEF Inside, Locking
  <2> QED
    BY <1>7, <1>8, <1>9, <2>1, <2>2, <2>3, <2>4, OutsideStep
<1>11. CASE c = 0
  <2>0. ~Suits(c, l.bytes)
    <3>1. l.bytes \in 1 .. PageSize - 1
      BY <1>3, ScatterAssumption
    <3> QED
      BY <1>11, <3>1, Positive DEF Suits
  <2>1. PICK m : Becomes(t, m) /\ m = [l EXCEPT !.pc = "use", !.c = n]
    BY <1>1, <1>11, <2>0 DEF OpenPage
  <2>2. Becomes(t, m) /\ chunksize' = [chunksize EXCEPT ![q] = n]
    <3>2. chunksize' = [chunksize EXCEPT ![q] = n]
      BY <1>1, <1>11 DEF OpenPage
    <3> QED
      BY <2>1, <3>2
  <2>3. m \in Local /\ LocalOK(m) /\ m.pc = "use"
    BY <1>5, <1>6, <1>11, <2>1
  <2>4. TypeOK'
    BY <1>5, <1>7, <2>2, <2>3, ThreadType DEF IInv, TypeOK
  <2>5. \A u \in Threads : th'[u] = IF u = t THEN m ELSE th[u]
    BY <2>2, ThreadSets DEF IInv
  <2>6. \A p : CountedIn(p)' = CountedIn(p) /\ Locks(p)' = Locks(p)
    <3>1. \A p : t \notin CountedIn(p) /\ t \notin Locks(p)
      BY <1>1, <1>2 DEF CountedIn, Locks
    <3>2. m.pc \notin Inside /\ m.pc \notin Locking
      BY <2>3 DEF Inside, Locking
    <3>3. \A p : CountedIn(p)' = CountedIn(p) \ {t} /\ Locks(p)' = Locks(p) \ {t}
      BY <2>2, <3>2, ThreadSets DEF IInv
    <3> QED
      BY <3>1, <3>3
  <2>7. chunksize'[q] = n /\ \A p \in Pages : p # q => chunksize'[p] = chunksize[p]
    BY <1>3, <2>2 DEF IInv, TypeOK
  <2>8. /\ \A d, s, b : ~Taken(q, d, s, b)
        /\ \A u \in Threads : th[u].pc \in Working => th[u].page # q
        /\ \A x \in live : x.page # q
    BY <1>1, <1>3, <1>11, NothingTaken
  <2>9. Threading'
    <3> SUFFICES ASSUME NEW u \in Threads PROVE LocalOK(th'[u]) /\ TableOK(th[u])'
      BY DEF Threading, LocalOK
    <3>1. CASE u = t
      BY <2>3, <2>5, <3>1 DEF TableOK, Working
    <3>2. CASE u # t
      <4>1. th'[u] = th[u] /\ LocalOK(th[u]) /\ TableOK(th[u])
        BY <2>5, <3>2 DEF IInv, Threading
      <4>2. th[u].pc \in Working => th[u].page \in Pages /\ th[u].page # q
        BY <2>8, <4>1 DEF LocalOK, Working, Labels, Inside
      <4> QED
        BY <1>7, <2>6, <2>7, <4>1, <4>2 DEF TableOK
    <3> QED
      BY <3>1, <3>2
  <2>10. Formats'
    BY <1>5, <1>7, <2>6, <2>7 DEF IInv, Formats
  <2>11. LiveOK'
    BY <1>7, <2>6, <2>7, <2>8 DEF IInv, LiveOK
  <2>12. \A u \in Threads : At(u, "clear")' = At(u, "clear") /\ (At(u, "clear") => th'[u] = th[u])
    BY <1>1, <1>2, <2>3, <2>5 DEF At
  <2>13. ClearingOK'
    BY <1>7, <2>12 DEF IInv, ClearingOK, ChunkAt
  <2>14. \A p, d, s, b : Taken(p, d, s, b)' = Taken(p, d, s, b)
    BY <1>7, <2>12 DEF Taken
  <2>15. BitsExact'
    <3> SUFFICES ASSUME NEW p \in Pages, NEW d \in Nat \ {0}, chunksize'[p] = d, Locks(p)' = {}
                 PROVE  BitsOf(p, d)'
      BY DEF BitsExact
    <3>1. CASE p # q
      <4>1. BitsOf(p, d)
        BY <2>6, <2>7, <3>1 DEF IInv, BitsExact
      <4> QED
        BY <1>7, <2>14, <4>1 DEF BitsOf
    <3>2. CASE p = q
      <4>1. \A w \in 1 .. MaxOnPageMasks : onpage'[p][w] = {}
        BY <1>1, <1>3, <1>7, <1>11, <2>6, <3>2 DEF IInv, Formats
      <4>2. Hierarchical(n) => \A s \in 0 .. Segments(n) - 1 : MaskWord(n, s) \in 1 .. MaxOnPageMasks
        BY <1>5, MaskWords
      <4>3. d = n /\ \A s, b : ~Taken(p, d, s, b)'
        BY <2>7, <2>8, <2>14, <3>2
      <4> QED
        BY <4>1, <4>2, <4>3 DEF BitsOf
    <3> QED
      BY <3>1, <3>2
  <2>16. CountExact'
    BY <1>7, <2>6, CountSame DEF IInv
  <2> QED
    BY <2>4, <2>9, <2>10, <2>11, <2>13, <2>15, <2>16 DEF IInv
<1> QED
  BY <1>10, <1>11

-----------------------------------------------------------------------------
(***************************************************************************)
(* Steps of a thread that stays counted in and touches no chunk.           *)
(***************************************************************************)

(* A thread goes on with the same local variables.                          *)
LEMMA SetPc ==
  ASSUME NEW l \in Local, NEW k \in Labels, NEW m, m = [l EXCEPT !.pc = k]
  PROVE  /\ m \in Local /\ m.pc = k /\ m.page = l.page /\ m.region = l.region /\ m.bytes = l.bytes
         /\ m.c = l.c /\ m.spot = l.spot /\ m.bit = l.bit /\ m.fill = l.fill
BY DEF Local

(* What a call of malloc knows while it is counted in.                      *)
LEMMA AskingFacts ==
  ASSUME NEW l \in Local, LocalOK(l), l.pc \in Asking \cap Inside
  PROVE  /\ l.page \in Pages /\ (l.region + 1) * RegionSize <= NumPages /\ l.bytes \in Sizes
         /\ l.pc # "countout" => l.c >= MinChunkSize /\ l.c >= l.bytes /\ l.c \in Nat \ {0}
<1>1. /\ l.page \in Pages /\ (l.region + 1) * RegionSize <= NumPages /\ l.bytes \in Sizes
      /\ l.pc # "countout" => l.c >= MinChunkSize /\ l.c >= l.bytes
  BY DEF LocalOK, Asking, Inside, Labels, Working
<1>2. l.c \in Nat
  BY DEF Local
<1> QED
  BY <1>1, <1>2, Positive

(* A call of malloc gives the page up.                                      *)
LEMMA GiveUp ==
  ASSUME NEW l \in Local, LocalOK(l), l.pc \in Asking \cap Inside, NEW m, m = [l EXCEPT !.pc = "countout"]
  PROVE  m \in Local /\ LocalOK(m) /\ m.pc = "countout" /\ m.page = l.page
<1>1. "countout" \in Labels
  BY DEF Labels, Inside
<1> QED
  BY <1>1, SetPc, AskingFacts DEF LocalOK, Working

(* The format is looked at again after counting in.                         *)
LEMMA RecheckStep == ASSUME IInv, NEW t \in Threads, Recheck(t) PROVE IInv'
<1>1. PICK l, n : l = th[t] /\ n = ChunksInPage(l.c)
  OBVIOUS
<1>2. l \in Local /\ LocalOK(l) /\ TableOK(l) /\ l.pc = "recheck"
  BY <1>1, LocalType DEF IInv, Recheck, At, Threading
<1>3. l.pc \in Asking \cap Inside
  BY <1>2 DEF Asking, Inside
<1>4. /\ l.page \in Pages /\ (l.region + 1) * RegionSize <= NumPages /\ l.bytes \in Sizes
      /\ l.c >= MinChunkSize /\ l.c >= l.bytes /\ l.c \in Nat \ {0} /\ l.spot = 0
  BY <1>2, <1>3, AskingFacts DEF LocalOK
<1>5. n \in 0 .. PageSize /\ l.fill \in Nat /\ PageSize \in Nat
  BY <1>1, <1>2, <1>4, ChunksBound, Positive DEF Local
<1>6. PICK m : /\ Becomes(t, m)
               /\ \/ m = [l EXCEPT !.pc = "countout"]
                  \/ /\ StillFormatted(l) /\ ~(l.fill >= n)
                     /\ \/ m = [l EXCEPT !.pc = "segment"] /\ Hierarchical(l.c)
                        \/ m = [l EXCEPT !.pc = "spot", !.bit = Lane[t] % n] /\ ~Hierarchical(l.c)
  BY <1>1 DEF Recheck
<1>7. m \in Local /\ LocalOK(m) /\ m.page = l.page /\ m.pc \in {"countout", "segment", "spot"}
      /\ (m.pc \in Working => chunksize[m.page] = m.c /\ Locks(m.page) = {})
  <2>1. CASE m = [l EXCEPT !.pc = "countout"]
    BY <1>2, <1>3, <2>1, GiveUp DEF Working
  <2>2. CASE StillFormatted(l) /\ ~(l.fill >= n)
    <3>1. chunksize[l.page] = l.c /\ l.fill < n
      BY <1>5, <2>2 DEF StillFormatted
    <3>2. Locks(l.page) = {}
      BY <1>2, <1>5, <3>1 DEF TableOK
    <3>3. CASE m = [l EXCEPT !.pc = "segment"] /\ Hierarchical(l.c)
      <4>1. "segment" \in Labels
        BY DEF Labels, Inside
      <4>2. /\ m \in Local /\ m.pc = "segment" /\ m.page = l.page /\ m.region = l.region
            /\ m.bytes = l.bytes /\ m.c = l.c
        BY <1>2, <3>3, <4>1, SetPc
      <4>3. LocalOK(m)
        BY <1>4, <3>3, <4>2 DEF LocalOK
      <4> QED
        BY <3>1, <3>2, <4>2, <4>3
    <3>4. CASE m = [l EXCEPT !.pc = "spot", !.bit = Lane[t] % n] /\ ~Hierarchical(l.c)
      <4>1. PICK b \in 0 .. n - 1 : b = Lane[t] % n
        <5>1. Lane[t] \in Int /\ n \in Nat \ {0}
          BY <1>5, <3>1, ScatterAssumption, Positive
        <5> QED
          BY <5>1, DivMod
      <4>2. b \in Nat /\ "spot" \in Labels
        BY <4>1, <1>5 DEF Labels, Inside
      <4>3. m = [l EXCEPT !.pc = "spot", !.bit = b]
        BY <3>4, <4>1
      <4>4. m \in Local
        BY <1>2, <4>2, <4>3 DEF Local
      <4>5. /\ m.pc = "spot" /\ m.page = l.page /\ m.region = l.region /\ m.bytes = l.bytes
            /\ m.c = l.c /\ m.spot = l.spot /\ m.bit = b
        BY <1>2, <4>3 DEF Local
      <4>6. Valid(m.c, m.spot, m.bit)
        BY <1>1, <1>4, <3>4, <4>1, <4>5 DEF Valid
      <4>7. LocalOK(m)
        BY <1>4, <4>5, <4>6 DEF LocalOK
      <4> QED
        BY <3>1, <3>2, <4>4, <4>5, <4>7
    <3> QED
      BY <1>6, <2>1, <2>2, <3>3, <3>4
  <2> QED
    BY <1>6, <2>1, <2>2
<1>8. UNCHANGED <<chunksize, count, bitmask, onpage, regions, firstfreeblock, live, outstanding, requests>>
  BY DEF Recheck, heap, kernels
<1>9. th[t].pc \in Inside \ {"clear"} /\ m.pc \in Inside \ {"recheck", "clear"}
  BY <1>1, <1>2, <1>7 DEF Inside
<1>10. bitmask' \in [Pages -> SUBSET Bits] /\ \A p \in Pages : bitmask[p] \subseteq bitmask'[p]
  BY <1>8 DEF IInv, TypeOK
<1> QED
  BY <1>1, <1>6, <1>7, <1>8, <1>9, <1>10, InsideStep

(* A segment of a hierarchical page has a bit, and a thread begins at one.  *)
LEMMA StartBit ==
  ASSUME NEW c \in Nat \ {0}, Hierarchical(c), NEW s \in 0 .. Segments(c) - 1, NEW t \in Threads,
         NEW b, b = Lane[t] % SpotsIn(c, s)
  PROVE  SpotsIn(c, s) \in 1 .. MaskBits /\ b \in Nat /\ Valid(c, s, b)
<1>1. SpotsIn(c, s) \in 1 .. MaskBits
  BY HierarchicalLayout, Positive DEF SpotsIn
<1>2. Lane[t] \in Int /\ SpotsIn(c, s) \in Nat \ {0}
  BY <1>1, ScatterAssumption, Positive
<1>3. b \in 0 .. SpotsIn(c, s) - 1
  BY <1>2, DivMod
<1> QED
  BY <1>1, <1>3 DEF Valid

\* The locals of thread t at its first bit of segment s.
GoTo(l, t, s, e, k) ==
    [l EXCEPT !.pc = "spot", !.mask = e, !.spot = s, !.tries = k, !.bit = Lane[t] % SpotsIn(l.c, s)]

(* A thread goes on at a bit of a segment.                                  *)
LEMMA GoToSegment ==
  ASSUME NEW l \in Local, LocalOK(l), l.pc \in {"segment", "full"}, NEW s \in 0 .. Segments(l.c) - 1,
         NEW k \in Int, NEW e \in SUBSET Nat, NEW t \in Threads
  PROVE  /\ GoTo(l, t, s, e, k) \in Local /\ LocalOK(GoTo(l, t, s, e, k))
         /\ GoTo(l, t, s, e, k).pc = "spot" /\ GoTo(l, t, s, e, k).page = l.page
         /\ GoTo(l, t, s, e, k).c = l.c
<1>0. PICK m : m = GoTo(l, t, s, e, k)
  OBVIOUS
<1>1. l.pc \in Asking \cap Inside
  BY DEF Asking, Inside
<1>2. /\ l.page \in Pages /\ (l.region + 1) * RegionSize <= NumPages /\ l.bytes \in Sizes
      /\ l.c >= MinChunkSize /\ l.c >= l.bytes /\ l.c \in Nat \ {0} /\ Hierarchical(l.c)
  BY <1>1, AskingFacts DEF LocalOK
<1>3. PICK b \in Nat : b = Lane[t] % SpotsIn(l.c, s) /\ Valid(l.c, s, b)
  BY <1>2, StartBit
<1>4. s \in Nat /\ "spot" \in Labels
  BY <1>2, HierarchicalLayout, Positive DEF Labels, Inside
<1>5. PICK a : a = [l EXCEPT !.pc = "spot", !.spot = s, !.bit = b]
  OBVIOUS
<1>6. a \in Local
  BY <1>3, <1>4, <1>5 DEF Local
<1>7. PICK d : d = [a EXCEPT !.mask = e]
  OBVIOUS
<1>8. d \in Local
  BY <1>6, <1>7 DEF Local
<1>9. m = [d EXCEPT !.tries = k]
  BY <1>0, <1>3, <1>5, <1>7 DEF Local, GoTo
<1>10. m \in Local
  BY <1>8, <1>9 DEF Local
<1>11. /\ m.pc = "spot" /\ m.page = l.page /\ m.region = l.region /\ m.bytes = l.bytes
       /\ m.c = l.c /\ m.spot = s /\ m.bit = b
  BY <1>0, <1>3 DEF Local, GoTo
<1>12. LocalOK(m)
  BY <1>2, <1>3, <1>11 DEF LocalOK
<1> QED
  BY <1>0, <1>10, <1>11, <1>12

(* The mask of the entry is a finite set of bits.                           *)
LEMMA EntryMask ==
  ASSUME TypeOK, NEW p \in Pages
  PROVE  bitmask[p] \in SUBSET Bits /\ bitmask[p] \in SUBSET Nat /\ Cardinality(bitmask[p]) \in Nat
<1>1. bitmask[p] \in SUBSET Bits /\ Bits \in SUBSET Nat
  BY Positive DEF TypeOK, Bits
<1>2. IsFiniteSet(Bits)
  BY FS_Interval, Positive DEF Bits
<1> QED
  BY <1>1, <1>2, FS_Subset, FS_CardinalityType

(* A segment is chosen.                                                     *)
LEMMA ReadSegmentsStep == ASSUME IInv, NEW t \in Threads, ReadSegments(t) PROVE IInv'
<1>1. PICK l, n, e : l = th[t] /\ n = Segments(l.c) /\ e = bitmask[l.page]
  OBVIOUS
<1>2. l \in Local /\ LocalOK(l) /\ TableOK(l) /\ l.pc = "segment"
  BY <1>1, LocalType DEF IInv, ReadSegments, At, Threading
<1>3. l.pc \in Asking \cap Inside
  BY <1>2 DEF Asking, Inside
<1>4. l.page \in Pages /\ l.c \in Nat \ {0} /\ Hierarchical(l.c)
  BY <1>2, <1>3, AskingFacts DEF LocalOK
<1>5. n \in 1 .. MaskBits /\ n \in Nat \ {0}
  BY <1>1, <1>4, HierarchicalLayout, Positive
<1>6. e \in SUBSET Nat /\ n - Cardinality(e) \in Int
  BY <1>1, <1>4, <1>5, EntryMask DEF IInv
<1>7. PICK first \in 0 .. n - 1 : first = Lane[t] % n
  <2>1. Lane[t] \in Int
    BY ScatterAssumption, Positive
  <2> QED
    BY <1>5, <2>1, DivMod
<1>8. PICK s \in 0 .. n - 1 : s = IF first \in e THEN nextspot(e, first, n) ELSE first
  BY <1>5, <1>7, NextSpotType
<1>9. PICK m : /\ Becomes(t, m)
               /\ \/ m = [l EXCEPT !.pc = "countout"]
                  \/ m = [l EXCEPT !.pc = "spot", !.mask = e, !.spot = s, !.tries = n - Cardinality(e),
                                   !.bit = Lane[t] % SpotsIn(l.c, s)]
  BY <1>1, <1>7, <1>8 DEF ReadSegments
<1>10. m \in Local /\ LocalOK(m) /\ m.page = l.page /\ m.pc \in {"countout", "spot"}
      /\ (m.pc \in Working => chunksize[m.page] = m.c /\ Locks(m.page) = {})
  <2>1. CASE m = [l EXCEPT !.pc = "countout"]
    BY <1>2, <1>3, <2>1, GiveUp DEF Working
  <2>2. CASE m = [l EXCEPT !.pc = "spot", !.mask = e, !.spot = s, !.tries = n - Cardinality(e),
                          !.bit = Lane[t] % SpotsIn(l.c, s)]
    <3>0. PICK k \in Int, f \in SUBSET Nat : k = n - Cardinality(e) /\ f = e
      BY <1>6
    <3>1. m \in Local /\ LocalOK(m) /\ m.pc = "spot" /\ m.page = l.page /\ m.c = l.c
      <4>1. m = GoTo(l, t, s, f, k)
        BY <2>2, <3>0 DEF GoTo
      <4>2. s \in 0 .. Segments(l.c) - 1 /\ l.pc \in {"segment", "full"}
        BY <1>1, <1>2
      <4> QED
        BY <1>2, <4>1, <4>2, GoToSegment
    <3>2. chunksize[l.page] = l.c /\ Locks(l.page) = {}
      BY <1>2 DEF TableOK, Working
    <3> QED
      BY <3>1, <3>2
  <2> QED
    BY <1>9, <2>1, <2>2
<1>11. UNCHANGED <<chunksize, count, bitmask, onpage, regions, firstfreeblock, live, outstanding, requests>>
  BY DEF ReadSegments, heap, kernels
<1>12. th[t].pc \in Inside \ {"clear"} /\ m.pc \in Inside \ {"recheck", "clear"}
  BY <1>1, <1>2, <1>10 DEF Inside
<1>13. bitmask' \in [Pages -> SUBSET Bits] /\ \A p \in Pages : bitmask[p] \subseteq bitmask'[p]
  BY <1>11 DEF IInv, TypeOK
<1> QED
  BY <1>1, <1>9, <1>10, <1>11, <1>12, <1>13, InsideStep

(* A full segment is marked, and the next one is tried.                     *)
LEMMA MarkFullStep == ASSUME IInv, NEW t \in Threads, MarkFull(t) PROVE IInv'
<1>1. PICK l, n, next : l = th[t] /\ n = Segments(l.c) /\ next = nextspot(l.mask, l.spot, n)
  OBVIOUS
<1>2. l \in Local /\ LocalOK(l) /\ TableOK(l) /\ l.pc = "full"
  BY <1>1, LocalType DEF IInv, MarkFull, At, Threading
<1>3. l.pc \in Asking \cap Inside
  BY <1>2 DEF Asking, Inside
<1>4. l.page \in Pages /\ l.c \in Nat \ {0} /\ Hierarchical(l.c) /\ l.spot \in 0 .. n - 1
  BY <1>1, <1>2, <1>3, AskingFacts DEF LocalOK
<1>5. n \in 1 .. MaskBits /\ n \in Nat \ {0} /\ l.spot \in Nat /\ l.spot \in Bits
  BY <1>1, <1>4, HierarchicalLayout, Positive DEF Bits
<1>6. next \in 0 .. n - 1 /\ l.mask \in SUBSET Nat /\ l.tries - 1 \in Int
  BY <1>1, <1>2, <1>5, NextSpotType DEF Local
<1>7. PICK m : /\ Becomes(t, m)
               /\ \/ m = [l EXCEPT !.pc = "countout"]
                  \/ m = [l EXCEPT !.pc = "spot", !.spot = next, !.tries = @ - 1,
                                   !.bit = Lane[t] % SpotsIn(l.c, next)]
  BY <1>1 DEF MarkFull
<1>8. m \in Local /\ LocalOK(m) /\ m.page = l.page /\ m.pc \in {"countout", "spot"}
      /\ (m.pc \in Working => chunksize[m.page] = m.c /\ Locks(m.page) = {})
  <2>1. CASE m = [l EXCEPT !.pc = "countout"]
    BY <1>2, <1>3, <2>1, GiveUp DEF Working
  <2>2. CASE m = [l EXCEPT !.pc = "spot", !.spot = next, !.tries = @ - 1,
                          !.bit = Lane[t] % SpotsIn(l.c, next)]
    <3>0. PICK k \in Int, e \in SUBSET Nat : k = l.tries - 1 /\ e = l.mask
      BY <1>6
    <3>1. m \in Local /\ LocalOK(m) /\ m.pc = "spot" /\ m.page = l.page /\ m.c = l.c
      <4>1. m = GoTo(l, t, next, e, k)
        BY <1>2, <2>2, <3>0 DEF Local, GoTo
      <4>2. next \in 0 .. Segments(l.c) - 1 /\ l.pc \in {"segment", "full"}
        BY <1>1, <1>2, <1>6
      <4> QED
        BY <1>2, <4>1, <4>2, GoToSegment
    <3>2. chunksize[l.page] = l.c /\ Locks(l.page) = {}
      BY <1>2 DEF TableOK, Working
    <3> QED
      BY <3>1, <3>2
  <2> QED
    BY <1>7, <2>1, <2>2
<1>9. /\ UNCHANGED <<chunksize, count, onpage, regions, firstfreeblock, live, outstanding, requests>>
      /\ bitmask' = [bitmask EXCEPT ![l.page] = @ \cup {l.spot}]
  BY <1>1 DEF MarkFull, kernels
<1>10. th[t].pc \in Inside \ {"clear"} /\ m.pc \in Inside \ {"recheck", "clear"}
  BY <1>1, <1>2, <1>8 DEF Inside
<1>11. bitmask' \in [Pages -> SUBSET Bits] /\ \A p \in Pages : bitmask[p] \subseteq bitmask'[p]
  BY <1>4, <1>5, <1>9 DEF IInv, TypeOK
<1> QED
  BY <1>1, <1>7, <1>8, <1>9, <1>10, <1>11, InsideStep

(* The segment of a chunk that was given back is not full any more.         *)
LEMMA ClearFullStep == ASSUME IInv, NEW t \in Threads, ClearFull(t) PROVE IInv'
<1>1. PICK l, m : l = th[t] /\ m = [l EXCEPT !.pc = "countdown"]
  OBVIOUS
<1>2. l \in Local /\ LocalOK(l) /\ TableOK(l) /\ l.pc = "notfull" /\ Becomes(t, m)
  BY <1>1, LocalType DEF IInv, ClearFull, At, Threading
<1>3. l.page \in Pages /\ Hierarchical(l.c) /\ chunksize[l.page] = l.c
  BY <1>2 DEF LocalOK, TableOK, Labels, Inside, Working
<1>4. "countdown" \in Labels
  BY DEF Labels, Inside
<1>5. m \in Local /\ LocalOK(m) /\ m.pc = "countdown" /\ m.page = l.page
  BY <1>1, <1>2, <1>3, <1>4, SetPc DEF LocalOK, Working, Asking
<1>6. /\ UNCHANGED <<chunksize, count, onpage, regions, firstfreeblock, live, outstanding, requests>>
      /\ bitmask' = [bitmask EXCEPT ![l.page] = @ \ {l.spot}]
  BY <1>1 DEF ClearFull, kernels
<1>7. th[t].pc \in Inside \ {"clear"} /\ m.pc \in Inside \ {"recheck", "clear"} /\ m.pc \notin Working
  BY <1>1, <1>2, <1>5 DEF Inside, Working
<1>8. /\ bitmask' \in [Pages -> SUBSET Bits]
      /\ \A p \in Pages : ~Hierarchical(chunksize[p]) => bitmask[p] \subseteq bitmask'[p]
  BY <1>3, <1>6 DEF IInv, TypeOK
<1> QED
  BY <1>1, <1>2, <1>5, <1>6, <1>7, <1>8, InsideStep

-----------------------------------------------------------------------------
(***************************************************************************)
(* Steps of a thread that is counted in or out.                            *)
(***************************************************************************)

(* A thread is counted in on page q, or out of it, and touches nothing      *)
(* else.  One that counts in on a locked page must have seen so.            *)
LEMMA CountStep ==
  ASSUME IInv, NEW t \in Threads, NEW l \in Local, Becomes(t, l), LocalOK(l), NEW q \in Pages,
         th[t].page = q, th[t].pc \notin Locking \cup {"clear"},
         l.pc \notin Working \cup Locking,
         \/ /\ count' = [count EXCEPT ![q] = @ + 1] /\ th[t].pc \notin Inside
            /\ l.page = q /\ l.pc \in Inside /\ (Locks(q) # {} => l.fill >= PageSize)
         \/ /\ count' = [count EXCEPT ![q] = @ - 1] /\ th[t].pc \in Inside /\ l.pc \notin Inside,
         UNCHANGED <<chunksize, bitmask, onpage, regions, firstfreeblock, live, outstanding, requests>>
  PROVE  IInv'
<1> USE DEF IInv
<1>1. TypeOK'
  BY ThreadType DEF TypeOK
<1>2. \A u \in Threads : th'[u] = IF u = t THEN l ELSE th[u]
  BY ThreadSets
<1>3. \A p : Locks(p)' = Locks(p)
  <2>1. \A p : t \notin Locks(p)
    BY DEF Locks, Locking
  <2>2. l.pc \notin Locking
    OBVIOUS
  <2>3. \A p : Locks(p)' = Locks(p) \ {t}
    BY <2>2, ThreadSets
  <2> QED
    BY <2>1, <2>3
<1>4. Threading'
  <2> SUFFICES ASSUME NEW u \in Threads PROVE LocalOK(th'[u]) /\ TableOK(th[u])'
    BY DEF Threading, LocalOK
  <2>1. CASE u = t
    <3>1. l.pc = "recheck" => l.page = q /\ (Locks(q) # {} => l.fill >= PageSize)
      BY DEF Inside
    <3> QED
      BY <1>2, <1>3, <2>1, <3>1 DEF TableOK, Locking
  <2>2. CASE u # t
    BY <1>2, <1>3, <2>2 DEF Threading, TableOK
  <2> QED
    BY <2>1, <2>2
<1>5. Formats' /\ LiveOK'
  BY <1>3 DEF Formats, LiveOK
<1>6. \A u \in Threads : At(u, "clear")' = At(u, "clear") /\ (At(u, "clear") => th'[u] = th[u])
  BY <1>2 DEF At, Working
<1>7. ClearingOK'
  BY <1>6 DEF ClearingOK, ChunkAt
<1>8. BitsExact'
  <2>1. \A p, c, s, b : Taken(p, c, s, b)' = Taken(p, c, s, b)
    BY <1>6 DEF Taken
  <2> QED
    BY <1>3, <2>1 DEF BitsExact, BitsOf
<1>9. CountExact'
  <2> SUFFICES ASSUME NEW p \in Pages
               PROVE  count'[p] = Cardinality(OnPage(p)) + Cardinality(CountedIn(p)')
                                  + PageSize * Cardinality(Locks(p))
    BY <1>3 DEF CountExact, OnPage
  <2>1. PICK a \in Nat, i \in Nat, j \in Int : a = Cardinality(OnPage(p)) /\ i = Cardinality(CountedIn(p))
                                  /\ j = PageSize * Cardinality(Locks(p)) /\ count[p] = a + i + j
    <3>1. PageSize * Cardinality(Locks(p)) \in Int
      BY FiniteSets, Positive
    <3> QED
      BY <3>1, FiniteSets DEF CountExact
  <2>2. CountedIn(p)' = IF l.page = p /\ l.pc \in Inside THEN CountedIn(p) \cup {t}
                        ELSE CountedIn(p) \ {t}
    BY ThreadSets
  <2>3. t \in CountedIn(p) <=> p = q /\ th[t].pc \in Inside
    BY DEF CountedIn, Inside
  <2>4. count \in [Pages -> Int] /\ IsFiniteSet(CountedIn(p))
    BY FiniteSets DEF TypeOK
  <2>5. CASE p # q
    <3>1. CountedIn(p)' = CountedIn(p) /\ count'[p] = count[p]
      BY <2>2, <2>3, <2>4, <2>5
    <3> QED
      BY <2>1, <3>1
  <2>6. CASE p = q /\ l.pc \in Inside
    <3>1. CountedIn(p)' = CountedIn(p) \cup {t} /\ t \notin CountedIn(p) /\ count'[p] = count[p] + 1
      BY <2>2, <2>3, <2>4, <2>6
    <3>2. Cardinality(CountedIn(p)') = i + 1
      BY <2>1, <2>4, <3>1, FS_AddElement
    <3> QED
      BY <2>1, <3>1, <3>2
  <2>7. CASE p = q /\ l.pc \notin Inside
    <3>1. CountedIn(p)' = CountedIn(p) \ {t} /\ t \in CountedIn(p) /\ count'[p] = count[p] - 1
      BY <2>2, <2>3, <2>4, <2>7
    <3>2. Cardinality(CountedIn(p)') = i - 1
      BY <2>1, <2>4, <3>1, FS_RemoveElement
    <3> QED
      BY <2>1, <3>1, <3>2
  <2> QED
    BY <2>5, <2>6, <2>7
<1> QED
  BY <1>1, <1>4, <1>5, <1>7, <1>8, <1>9

(* tryUsePage counts the thread in.                                         *)
LEMMA CountInStep == ASSUME IInv, NEW t \in Threads, CountIn(t) PROVE IInv'
<1>1. PICK l, q, f, m : l = th[t] /\ q = l.page /\ f = count[q] /\ m = [l EXCEPT !.pc = "recheck", !.fill = f]
  OBVIOUS
<1>2. l \in Local /\ LocalOK(l) /\ l.pc = "use" /\ Becomes(t, m)
  BY <1>1, LocalType DEF IInv, CountIn, At, Threading
<1>3. /\ q \in Pages /\ (l.region + 1) * RegionSize <= NumPages /\ l.bytes \in Sizes
      /\ l.c >= MinChunkSize /\ l.c >= l.bytes /\ l.spot = 0
  BY <1>1, <1>2 DEF LocalOK, Asking, Labels
<1>4. f \in Nat /\ (Locks(q) # {} => f >= PageSize)
  BY <1>1, <1>3, CountFacts DEF IInv
<1>5. m \in Local
  <2>1. "recheck" \in Labels
    BY DEF Labels, Inside
  <2> QED
    BY <1>1, <1>2, <1>4, <2>1 DEF Local
<1>6. /\ m.pc = "recheck" /\ m.page = q /\ m.region = l.region /\ m.bytes = l.bytes
      /\ m.c = l.c /\ m.spot = l.spot /\ m.fill = f
  BY <1>1, <1>2 DEF Local
<1>7. LocalOK(m)
  BY <1>3, <1>6 DEF LocalOK
<1>8. /\ count' = [count EXCEPT ![q] = @ + 1]
      /\ UNCHANGED <<chunksize, bitmask, onpage, regions, firstfreeblock, live, outstanding, requests>>
  BY <1>1 DEF CountIn, kernels
<1>9. /\ th[t].pc \notin Locking \cup {"clear"} /\ th[t].pc \notin Inside
      /\ m.pc \notin Working \cup Locking /\ m.pc \in Inside
  BY <1>1, <1>2, <1>6 DEF Inside, Working, Locking
<1> QED
  BY <1>1, <1>2, <1>3, <1>4, <1>5, <1>6, <1>7, <1>8, <1>9, CountStep

(* tryUsePage counts the thread out when the page has no chunk for it.      *)
LEMMA CountOutStep == ASSUME IInv, NEW t \in Threads, CountOut(t) PROVE IInv'
<1>1. PICK l, q, m : l = th[t] /\ q = l.page /\ m = NextPage(l)
  OBVIOUS
<1>2. l \in Local /\ LocalOK(l) /\ l.pc = "countout" /\ Becomes(t, m)
  BY <1>1, LocalType DEF IInv, CountOut, At, Threading
<1>3. q \in Pages /\ (l.region + 1) * RegionSize <= NumPages /\ l.bytes \in Sizes
  BY <1>1, <1>2 DEF LocalOK, Asking, Labels, Inside
<1>4. m \in Local /\ LocalOK(m) /\ m.pc = "page"
  BY <1>1, <1>2, <1>3, NextPageType
<1>5. /\ count' = [count EXCEPT ![q] = @ - 1]
      /\ UNCHANGED <<chunksize, bitmask, onpage, regions, firstfreeblock, live, outstanding, requests>>
  BY <1>1 DEF CountOut, kernels
<1>6. /\ th[t].pc \notin Locking \cup {"clear"} /\ th[t].pc \in Inside
      /\ m.pc \notin Working \cup Locking /\ m.pc \notin Inside
  BY <1>1, <1>2, <1>4 DEF Inside, Working, Locking
<1> QED
  BY <1>1, <1>2, <1>3, <1>4, <1>5, <1>6, CountStep

(* deallocChunked counts the thread and its chunk out.                      *)
LEMMA CountDownStep == ASSUME IInv, NEW t \in Threads, CountDown(t) PROVE IInv'
<1>1. PICK l, q, f, k : l = th[t] /\ q = l.page /\ f = count[q] /\ k = IF f = 1 THEN "lock" ELSE "meta"
  OBVIOUS
<1>2. PICK m : Becomes(t, m) /\ m = [l EXCEPT !.pc = k, !.fill = f, !.spot = 0, !.bit = 0]
  BY <1>1 DEF CountDown
<1>3. l \in Local /\ LocalOK(l) /\ l.pc = "countdown"
  BY <1>1, LocalType DEF IInv, CountDown, At, Threading
<1>4. q \in Pages /\ k \in {"lock", "meta"} /\ k \in Labels
  BY <1>1, <1>3 DEF LocalOK, Labels, Inside
<1>5. f \in Nat
  BY <1>1, <1>4, CountFacts DEF IInv
<1>6. m \in Local
  BY <1>2, <1>3, <1>4, <1>5 DEF Local
<1>7. m.pc = k /\ m.page = q
  BY <1>1, <1>2, <1>3 DEF Local
<1>8. LocalOK(m)
  BY <1>4, <1>7 DEF LocalOK, Working, Asking
<1>9. /\ count' = [count EXCEPT ![q] = @ - 1]
      /\ UNCHANGED <<chunksize, bitmask, onpage, regions, firstfreeblock, live, outstanding, requests>>
  BY <1>1 DEF CountDown, kernels
<1>10. /\ th[t].pc \notin Locking \cup {"clear"} /\ th[t].pc \in Inside
      /\ m.pc \notin Working \cup Locking /\ m.pc \notin Inside
  BY <1>1, <1>3, <1>4, <1>7 DEF Inside, Working, Locking
<1> QED
  BY <1>1, <1>2, <1>4, <1>6, <1>8, <1>9, <1>10, CountStep

-----------------------------------------------------------------------------
(***************************************************************************)
(* Steps of the thread that unformats a page.                              *)
(***************************************************************************)

(* A step of a thread that gives nothing back at that moment, and uses no   *)
(* chunk, leaves alone what must have a bit.                                *)
LEMMA ClearersSame ==
  ASSUME TypeOK, NEW t \in Threads, NEW l, Becomes(t, l), th[t].pc # "clear", l.pc # "clear", live' = live
  PROVE  /\ \A p, c, s, b : Taken(p, c, s, b)' = Taken(p, c, s, b)
         /\ ClearingOK => ClearingOK'
<1>1. \A u \in Threads : th'[u] = IF u = t THEN l ELSE th[u]
  BY ThreadSets
<1>2. \A u \in Threads : At(u, "clear")' = At(u, "clear") /\ (At(u, "clear") => th'[u] = th[u])
  BY <1>1 DEF At
<1>3. \A p, c, s, b : Taken(p, c, s, b)' = Taken(p, c, s, b)
  BY <1>2 DEF Taken
<1>4. ClearingOK => ClearingOK'
  BY <1>2 DEF ClearingOK, ChunkAt
<1> QED
  BY <1>3, <1>4

(* Thread t locks, changes or unlocks page q, on which nothing is in use.   *)
LEMMA LockerStep ==
  ASSUME IInv, NEW t \in Threads, NEW l \in Local, Becomes(t, l), LocalOK(l), NEW q \in Pages,
         th[t].page = q, l.page = q,
         th[t].pc \in Locking \cup {"lock"}, l.pc \in Locking \cup {"meta"},
         chunksize[q] = 0 \/ Locks(q) # {} \/ (OnPage(q) = {} /\ CountedIn(q) = {}),
         Locks(q) \subseteq {t}, Locks(q) # {} \/ CountedIn(q) = {},
         UNCHANGED <<bitmask, regions, firstfreeblock, live, outstanding, requests>>,
         count' \in [Pages -> Int], chunksize' \in [Pages -> Nat],
         onpage' \in [Pages -> [1 .. MaxOnPageMasks -> SUBSET Bits]],
         \A p \in Pages : p # q => count'[p] = count[p] /\ chunksize'[p] = chunksize[p]
                                   /\ onpage'[p] = onpage[p],
         chunksize'[q] = 0 \/ chunksize'[q] = chunksize[q],
         l.pc # "clean" => \A w \in 1 .. MaxOnPageMasks : onpage'[q][w] = {},
         count'[q] = Cardinality(CountedIn(q)) + (IF l.pc \in Locking THEN PageSize ELSE 0)
  PROVE  IInv'
<1> USE DEF IInv
<1>1. TypeOK'
  BY ThreadType DEF TypeOK
<1>2. \A u \in Threads : th'[u] = IF u = t THEN l ELSE th[u]
  BY ThreadSets
<1>3. th[t].pc \notin Inside /\ l.pc \notin Inside /\ "clear" \in Inside /\ l.pc \notin Working
      /\ th[t].pc \notin Working
  BY DEF Inside, Locking, Working
<1>4. /\ \A p : CountedIn(p)' = CountedIn(p)
      /\ \A p \in Pages : p # q => Locks(p)' = Locks(p)
      /\ Locks(q)' = IF l.pc \in Locking THEN {t} ELSE {}
  <2>1. \A p : t \notin CountedIn(p) /\ (t \in Locks(p) => p = q)
    BY <1>3 DEF CountedIn, Locks, Inside
  <2>2. \A p : CountedIn(p)' = CountedIn(p) \ {t}
    BY <1>3, ThreadSets
  <2>3. \A p : Locks(p)' = IF l.page = p /\ l.pc \in Locking THEN Locks(p) \cup {t} ELSE Locks(p) \ {t}
    BY ThreadSets
  <2>4. \A p : CountedIn(p)' = CountedIn(p)
    BY <2>1, <2>2
  <2>5. \A p \in Pages : p # q => Locks(p)' = Locks(p)
    BY <2>1, <2>3, ZenonT(60)
  <2>6. Locks(q)' = IF l.pc \in Locking THEN Locks(q) \cup {t} ELSE Locks(q) \ {t}
    BY <2>3
  <2>7. Locks(q)' = IF l.pc \in Locking THEN {t} ELSE {}
    BY <2>6
  <2> QED
    BY <2>4, <2>5, <2>7
<1>5. /\ \A c, s, b : ~Taken(q, c, s, b)
      /\ \A u \in Threads : th[u].pc \in Working => th[u].page # q
      /\ \A x \in live : x.page # q
  <2>1. CASE chunksize[q] = 0 \/ Locks(q) # {}
    BY <2>1, NothingTaken
  <2>2. CASE OnPage(q) = {} /\ CountedIn(q) = {}
    <3>1. \A x \in live : x.page # q
      BY <2>2 DEF OnPage
    <3>2. \A u \in Threads : th[u].pc \in Working => th[u].page # q
      BY <2>2 DEF CountedIn, Working
    <3>3. \A c, s, b : Chunk(q, c, s, b).page = q
      BY DEF Chunk
    <3> QED
      BY <3>1, <3>2, <3>3 DEF Taken, At, Working
  <2> QED
    BY <2>1, <2>2
<1>6. Threading'
  <2> SUFFICES ASSUME NEW u \in Threads PROVE LocalOK(th'[u]) /\ TableOK(th[u])'
    BY DEF Threading, LocalOK
  <2>1. CASE u = t
    <3>1. l.pc # "recheck"
      BY <1>3 DEF Inside
    <3> QED
      BY <1>2, <1>3, <2>1, <3>1 DEF TableOK
  <2>2. CASE u # t
    <3>1. th'[u] = th[u] /\ LocalOK(th[u]) /\ TableOK(th[u])
      BY <1>2, <2>2 DEF Threading
    <3>2. th[u].pc \in Working \cup Locking \cup {"recheck"} => th[u].page \in Pages
      BY <3>1 DEF LocalOK, Working, Labels, Inside, Locking
    <3>3. th[u].pc \in Working => chunksize'[th[u].page] = th[u].c /\ Locks(th[u].page)' = {}
      BY <1>4, <1>5, <3>1, <3>2 DEF TableOK
    <3>4. th[u].pc = "recheck" /\ Locks(th[u].page)' # {} => th[u].fill >= PageSize
      <4>1. th[u].pc = "recheck" => u \in CountedIn(th[u].page)
        BY DEF CountedIn
      <4> QED
        BY <1>4, <3>1, <3>2, <4>1 DEF TableOK
    <3>5. th[u].pc \in Locking => th[u].page # q
      BY <2>2 DEF Locks, Locking
    <3>6. th[u].pc \in {"unformat", "unlock"} => \A w \in 1 .. MaxOnPageMasks : onpage'[th[u].page][w] = {}
      <4>1. {"unformat", "unlock"} \subseteq Locking
        BY DEF Locking
      <4> QED
        BY <3>1, <3>2, <3>5, <4>1 DEF TableOK
    <3>7. TableOK(th[u])'
      BY <3>1, <3>3, <3>4, <3>6 DEF TableOK
    <3> QED
      BY <3>1, <3>7
  <2> QED
    BY <2>1, <2>2
<1>7. Formats'
  <2>1. l.pc \notin Locking => l.pc # "clean"
    BY DEF Locking
  <2> QED
    BY <1>4, <2>1, ZenonT(60) DEF Formats
<1>8. LiveOK'
  <2> SUFFICES ASSUME NEW x \in live
               PROVE  /\ x.page \in Pages /\ Locks(x.page)' = {} /\ chunksize'[x.page] # 0
                      /\ \E s, b \in Nat : /\ Valid(chunksize'[x.page], s, b)
                                           /\ x = Chunk(x.page, chunksize'[x.page], s, b)
    BY DEF LiveOK, Valid, Chunk
  <2>1. x.page \in Pages /\ x.page # q
    BY <1>5 DEF LiveOK
  <2>2. chunksize'[x.page] = chunksize[x.page] /\ Locks(x.page)' = Locks(x.page)
    BY <1>4, <2>1
  <2>3. /\ Locks(x.page) = {} /\ chunksize[x.page] # 0
        /\ \E s, b \in Nat : Valid(chunksize[x.page], s, b) /\ x = Chunk(x.page, chunksize[x.page], s, b)
    BY DEF LiveOK
  <2> QED
    BY <2>1, <2>2, <2>3
<1>9. th[t].pc # "clear" /\ l.pc # "clear" /\ live' = live
  BY <1>3
<1>10. ClearingOK'
  BY <1>9, ClearersSame
<1>11. \A p, c, s, b : Taken(p, c, s, b)' = Taken(p, c, s, b)
  BY <1>9, ClearersSame
<1>12. BitsExact'
  <2> SUFFICES ASSUME NEW p \in Pages, NEW c \in Nat \ {0}, chunksize'[p] = c, Locks(p)' = {}
               PROVE  BitsOf(p, c)'
    BY DEF BitsExact
  <2>1. CASE p # q
    <3>1. BitsOf(p, c)
      BY <1>4, <2>1 DEF BitsExact
    <3>2. onpage'[p] = onpage[p] /\ bitmask' = bitmask
      BY <2>1
    <3> QED
      BY <1>11, <3>1, <3>2 DEF BitsOf
  <2>2. CASE p = q
    <3>1. \A w \in 1 .. MaxOnPageMasks : onpage'[p][w] = {}
      BY <1>4, <2>2 DEF Locking
    <3>2. c >= MinChunkSize
      BY <2>2 DEF Formats
    <3>3. Hierarchical(c) => \A s \in 0 .. Segments(c) - 1 : MaskWord(c, s) \in 1 .. MaxOnPageMasks
      BY <3>2, MaskWords
    <3>4. \A s, b : ~Taken(p, c, s, b)'
      BY <1>5, <1>11, <2>2
    <3> QED
      BY <3>1, <3>3, <3>4 DEF BitsOf
  <2> QED
    BY <2>1, <2>2
<1>13. CountExact'
  <2> SUFFICES ASSUME NEW p \in Pages
               PROVE  /\ count'[p] = Cardinality(OnPage(p)) + Cardinality(CountedIn(p))
                                     + PageSize * Cardinality(Locks(p)')
                      /\ Cardinality(Locks(p)') <= 1
                      /\ Locks(p)' # {} => OnPage(p) = {}
    BY <1>4 DEF CountExact, OnPage
  <2>1. CASE p # q
    BY <1>4, <2>1 DEF CountExact
  <2>2. CASE p = q
    <3>1. OnPage(p) = {}
      BY <1>5, <2>2 DEF OnPage
    <3>2. Cardinality(OnPage(p)) = 0 /\ Cardinality(CountedIn(p)) \in Nat
      BY <3>1, FS_EmptySet, FiniteSets
    <3>3. Cardinality(Locks(p)') = IF l.pc \in Locking THEN 1 ELSE 0
      <4>1. Cardinality({t}) = 1 /\ Cardinality({}) = 0
        BY FS_EmptySet, FS_Singleton
      <4> QED
        BY <1>4, <2>2, <4>1
    <3>4. PageSize * 1 = PageSize /\ PageSize * 0 = 0 /\ PageSize \in Nat
      BY Positive
    <3> QED
      BY <2>2, <3>1, <3>2, <3>3, <3>4
  <2> QED
    BY <2>1, <2>2
<1> QED
  BY <1>1, <1>6, <1>7, <1>8, <1>10, <1>12, <1>13

(* The fact that makes locking safe: a page whose count is 0 is nobody's.   *)
LEMMA LockPageStep == ASSUME IInv, NEW t \in Threads, LockPage(t) PROVE IInv'
<1>1. PICK l, q, k : l = th[t] /\ q = l.page /\ k = IF count[q] = 0 THEN "clean" ELSE "meta"
  OBVIOUS
<1>2. PICK m : Becomes(t, m) /\ m = [l EXCEPT !.pc = k]
  BY <1>1 DEF LockPage
<1>3. l \in Local /\ LocalOK(l) /\ l.pc = "lock"
  BY <1>1, LocalType DEF IInv, LockPage, At, Threading
<1>4. q \in Pages /\ k \in {"clean", "meta"} /\ k \in Labels
  BY <1>1, <1>3 DEF LocalOK, Labels, Locking
<1>5. m \in Local /\ m.pc = k /\ m.page = q
  BY <1>1, <1>2, <1>3, <1>4, SetPc
<1>6. LocalOK(m)
  BY <1>4, <1>5 DEF LocalOK, Working, Asking
<1>7. UNCHANGED <<chunksize, bitmask, onpage, regions, firstfreeblock, live, outstanding, requests>>
  BY DEF LockPage, kernels
<1>8. CASE count[q] # 0
  <2>1. count' = count /\ k = "meta"
    BY <1>1, <1>8 DEF LockPage
  <2>2. regions' \in [0 .. RegionOf(NumPages - 1) -> Nat] /\ firstfreeblock' \in 0 .. AccessBlocks - 1
        /\ requests' \in Nat
    BY <1>7 DEF IInv, TypeOK
  <2>3. th[t].pc \notin Inside \cup Locking /\ m.pc \notin Inside \cup Locking
    BY <1>1, <1>3, <1>5, <2>1 DEF Inside, Locking
  <2> QED
    BY <1>2, <1>5, <1>6, <1>7, <2>1, <2>2, <2>3, OutsideStep
<1>9. CASE count[q] = 0
  <2>1. count' = [count EXCEPT ![q] = PageSize] /\ k = "clean"
    BY <1>1, <1>9 DEF LockPage
  <2>2. OnPage(q) = {} /\ CountedIn(q) = {} /\ Locks(q) = {}
    BY <1>4, <1>9, CountFacts DEF IInv
  <2>3. Cardinality(CountedIn(q)) = 0
    BY <2>2, FS_EmptySet
  <2>4. /\ count' \in [Pages -> Int] /\ chunksize' \in [Pages -> Nat]
        /\ onpage' \in [Pages -> [1 .. MaxOnPageMasks -> SUBSET Bits]]
    <3>1. count \in [Pages -> Int] /\ PageSize \in Int
      BY Positive DEF IInv, TypeOK
    <3>2. count' \in [Pages -> Int]
      BY <2>1, <3>1
    <3> QED
      BY <1>7, <3>2 DEF IInv, TypeOK
  <2>5. \A p \in Pages : p # q => count'[p] = count[p]
    BY <2>1 DEF IInv, TypeOK
  <2>6. count'[q] = PageSize
    BY <1>4, <2>1 DEF IInv, TypeOK
  <2>7. count'[q] = Cardinality(CountedIn(q)) + PageSize
    BY <2>3, <2>6, Positive
  <2>8. m.pc \in Locking /\ m.pc = "clean" /\ th[t].pc \in Locking \cup {"lock"}
    BY <1>1, <1>3, <1>5, <2>1 DEF Locking
  <2> QED
    BY <1>1, <1>2, <1>4, <1>5, <1>6, <1>7, <2>2, <2>4, <2>5, <2>7, <2>8, LockerStep, ZenonT(60)
<1> QED
  BY <1>8, <1>9

(* What the thread knows that has locked a page.                            *)
LEMMA LockerFacts ==
  ASSUME IInv, NEW t \in Threads, th[t].pc \in Locking, NEW q, q = th[t].page
  PROVE  /\ q \in Pages /\ Locks(q) = {t}
         /\ count[q] = Cardinality(CountedIn(q)) + PageSize
         /\ Cardinality(CountedIn(q)) \in Nat /\ PageSize \in Nat \ {0}
<1>1. q \in Pages
  BY DEF IInv, Threading, LocalOK, Labels, Locking
<1>2. t \in Locks(q)
  BY DEF Locks, Locking
<1>3. Cardinality(Locks(q)) = 1 /\ OnPage(q) = {} /\ IsFiniteSet(Locks(q))
  BY <1>1, <1>2, CountFacts, FiniteSets DEF IInv
<1>4. PICK u : Locks(q) = {u}
  BY <1>3, FS_Singleton
<1>5. Locks(q) = {t}
  BY <1>2, <1>4
<1>6. Cardinality(OnPage(q)) = 0 /\ Cardinality(CountedIn(q)) \in Nat /\ PageSize * 1 = PageSize
      /\ PageSize \in Nat \ {0}
  BY <1>3, FS_EmptySet, FiniteSets, Positive DEF IInv
<1>7. count[q] = Cardinality(CountedIn(q)) + PageSize
  <2>1. count[q] = Cardinality(OnPage(q)) + Cardinality(CountedIn(q)) + PageSize * Cardinality(Locks(q))
    BY <1>1 DEF IInv, CountExact
  <2>2. PICK i, k : i \in Nat /\ i = Cardinality(CountedIn(q)) /\ k = PageSize
    BY <1>6
  <2>3. count[q] = 0 + i + k * 1
    BY <1>3, <1>6, <2>1, <2>2
  <2> QED
    BY <1>6, <2>2, <2>3
<1> QED
  BY <1>1, <1>5, <1>6, <1>7

(* PAGE::init clears the masks.                                             *)
LEMMA CleanPageStep == ASSUME IInv, NEW t \in Threads, CleanPage(t) PROVE IInv'
<1>1. PICK l, q, m : l = th[t] /\ q = l.page /\ m = [l EXCEPT !.pc = "unformat"]
  OBVIOUS
<1>2. l \in Local /\ LocalOK(l) /\ l.pc = "clean" /\ Becomes(t, m)
  BY <1>1, LocalType DEF IInv, CleanPage, At, Threading
<1>3. th[t].pc \in Locking /\ "unformat" \in Labels /\ "unformat" \in Locking
  BY <1>1, <1>2 DEF Locking, Labels
<1>4. /\ q \in Pages /\ Locks(q) = {t}
      /\ count[q] = Cardinality(CountedIn(q)) + PageSize
  BY <1>1, <1>3, LockerFacts
<1>5. m \in Local /\ m.pc = "unformat" /\ m.page = q
  BY <1>1, <1>2, <1>3, SetPc
<1>6. LocalOK(m)
  BY <1>4, <1>5 DEF LocalOK, Working, Asking
<1>7. /\ UNCHANGED <<chunksize, count, bitmask, regions, firstfreeblock, live, outstanding, requests>>
      /\ onpage' = [onpage EXCEPT ![q] = [w \in DOMAIN @ |-> {}]]
  BY <1>1 DEF CleanPage, kernels
<1>8. onpage' = [onpage EXCEPT ![q] = [w \in 1 .. MaxOnPageMasks |-> {}]]
  BY <1>4, <1>7 DEF IInv, TypeOK
<1>9. /\ onpage' \in [Pages -> [1 .. MaxOnPageMasks -> SUBSET Bits]]
      /\ \A p \in Pages : p # q => onpage'[p] = onpage[p]
      /\ \A w \in 1 .. MaxOnPageMasks : onpage'[q][w] = {}
  <2>1. PICK e \in [1 .. MaxOnPageMasks -> SUBSET Bits] : e = [w \in 1 .. MaxOnPageMasks |-> {}]
    OBVIOUS
  <2>2. onpage' = [onpage EXCEPT ![q] = e]
    BY <1>8, <2>1
  <2>3. onpage \in [Pages -> [1 .. MaxOnPageMasks -> SUBSET Bits]]
    BY DEF IInv, TypeOK
  <2>4. onpage' \in [Pages -> [1 .. MaxOnPageMasks -> SUBSET Bits]]
    BY <2>2, <2>3
  <2>5. onpage'[q] = e /\ \A p \in Pages : p # q => onpage'[p] = onpage[p]
    BY <1>4, <2>2, <2>3
  <2> QED
    BY <2>1, <2>4, <2>5
<1>10. count' \in [Pages -> Int] /\ chunksize' \in [Pages -> Nat]
  BY <1>7 DEF IInv, TypeOK
<1>11. /\ th[t].page = q /\ m.page = q
       /\ th[t].pc \in Locking \cup {"lock"} /\ m.pc \in Locking \cup {"meta"}
       /\ chunksize[q] = 0 \/ Locks(q) # {} \/ (OnPage(q) = {} /\ CountedIn(q) = {})
       /\ Locks(q) \subseteq {t} /\ (Locks(q) # {} \/ CountedIn(q) = {})
  BY <1>1, <1>3, <1>4, <1>5
<1>12. \A p \in Pages : p # q => count'[p] = count[p] /\ chunksize'[p] = chunksize[p] /\ onpage'[p] = onpage[p]
  BY <1>7, <1>9
<1>13. /\ chunksize'[q] = 0 \/ chunksize'[q] = chunksize[q]
       /\ m.pc # "clean" => \A w \in 1 .. MaxOnPageMasks : onpage'[q][w] = {}
       /\ count'[q] = Cardinality(CountedIn(q)) + (IF m.pc \in Locking THEN PageSize ELSE 0)
  BY <1>3, <1>4, <1>5, <1>7, <1>9
<1> QED
  BY <1>2, <1>4, <1>5, <1>6, <1>7, <1>9, <1>10, <1>11, <1>12, <1>13, LockerStep

(* The page loses its format.                                               *)
LEMMA UnformatStep == ASSUME IInv, NEW t \in Threads, Unformat(t) PROVE IInv'
<1>1. PICK l, q, m : l = th[t] /\ q = l.page /\ m = [l EXCEPT !.pc = "unlock"]
  OBVIOUS
<1>2. l \in Local /\ LocalOK(l) /\ TableOK(l) /\ l.pc = "unformat" /\ Becomes(t, m)
  BY <1>1, LocalType DEF IInv, Unformat, At, Threading
<1>3. th[t].pc \in Locking /\ "unlock" \in Labels /\ "unlock" \in Locking
  BY <1>1, <1>2 DEF Locking, Labels
<1>4. /\ q \in Pages /\ Locks(q) = {t}
      /\ count[q] = Cardinality(CountedIn(q)) + PageSize
  BY <1>1, <1>3, LockerFacts
<1>5. m \in Local /\ m.pc = "unlock" /\ m.page = q
  BY <1>1, <1>2, <1>3, SetPc
<1>6. LocalOK(m)
  BY <1>4, <1>5 DEF LocalOK, Working, Asking
<1>7. /\ UNCHANGED <<count, bitmask, onpage, regions, firstfreeblock, live, outstanding, requests>>
      /\ chunksize' = [chunksize EXCEPT ![q] = 0]
  BY <1>1 DEF Unformat, kernels
<1>8. chunksize' \in [Pages -> Nat] /\ chunksize'[q] = 0 /\ \A p \in Pages : p # q => chunksize'[p] = chunksize[p]
  BY <1>4, <1>7 DEF IInv, TypeOK
<1>9. \A w \in 1 .. MaxOnPageMasks : onpage'[q][w] = {}
  BY <1>1, <1>2, <1>7 DEF TableOK
<1>10. /\ count' \in [Pages -> Int]
       /\ onpage' \in [Pages -> [1 .. MaxOnPageMasks -> SUBSET Bits]]
  BY <1>7 DEF IInv, TypeOK
<1>11. /\ th[t].page = q /\ m.page = q
       /\ th[t].pc \in Locking \cup {"lock"} /\ m.pc \in Locking \cup {"meta"}
       /\ chunksize[q] = 0 \/ Locks(q) # {} \/ (OnPage(q) = {} /\ CountedIn(q) = {})
       /\ Locks(q) \subseteq {t} /\ (Locks(q) # {} \/ CountedIn(q) = {})
  BY <1>1, <1>3, <1>4, <1>5
<1>12. \A p \in Pages : p # q => count'[p] = count[p] /\ chunksize'[p] = chunksize[p] /\ onpage'[p] = onpage[p]
  BY <1>7, <1>8
<1>13. /\ chunksize'[q] = 0 \/ chunksize'[q] = chunksize[q]
       /\ m.pc # "clean" => \A w \in 1 .. MaxOnPageMasks : onpage'[q][w] = {}
       /\ count'[q] = Cardinality(CountedIn(q)) + (IF m.pc \in Locking THEN PageSize ELSE 0)
  BY <1>3, <1>4, <1>5, <1>7, <1>8, <1>9
<1> QED
  BY <1>2, <1>4, <1>5, <1>6, <1>7, <1>8, <1>10, <1>11, <1>12, <1>13, LockerStep

(* The page is given free, whether or not it has a new format by now.       *)
LEMMA UnlockPageStep == ASSUME IInv, NEW t \in Threads, UnlockPage(t) PROVE IInv'
<1>1. PICK l, q, m : l = th[t] /\ q = l.page /\ m = [l EXCEPT !.pc = "meta"]
  OBVIOUS
<1>2. l \in Local /\ LocalOK(l) /\ TableOK(l) /\ l.pc = "unlock" /\ Becomes(t, m)
  BY <1>1, LocalType DEF IInv, UnlockPage, At, Threading
<1>3. th[t].pc \in Locking /\ "meta" \in Labels /\ "meta" \notin Locking
  BY <1>1, <1>2 DEF Locking, Labels
<1>4. /\ q \in Pages /\ Locks(q) = {t}
      /\ count[q] = Cardinality(CountedIn(q)) + PageSize
      /\ Cardinality(CountedIn(q)) \in Nat /\ PageSize \in Nat
  BY <1>1, <1>3, LockerFacts
<1>5. m \in Local /\ m.pc = "meta" /\ m.page = q
  BY <1>1, <1>2, <1>3, SetPc
<1>6. LocalOK(m)
  BY <1>4, <1>5 DEF LocalOK, Working, Asking
<1>7. /\ UNCHANGED <<chunksize, bitmask, onpage, regions, firstfreeblock, live, outstanding, requests>>
      /\ count' = [count EXCEPT ![q] = @ - PageSize]
  BY <1>1 DEF UnlockPage, kernels
<1>8. count' \in [Pages -> Int] /\ \A p \in Pages : p # q => count'[p] = count[p]
  BY <1>4, <1>7 DEF IInv, TypeOK
<1>9. count'[q] = Cardinality(CountedIn(q)) + 0
  BY <1>4, <1>7 DEF IInv, TypeOK
<1>10. \A w \in 1 .. MaxOnPageMasks : onpage'[q][w] = {}
  BY <1>1, <1>2, <1>7 DEF TableOK
<1>11. /\ chunksize' \in [Pages -> Nat]
       /\ onpage' \in [Pages -> [1 .. MaxOnPageMasks -> SUBSET Bits]]
  BY <1>7 DEF IInv, TypeOK
<1>12. /\ th[t].page = q /\ m.page = q
       /\ th[t].pc \in Locking \cup {"lock"} /\ m.pc \in Locking \cup {"meta"}
       /\ chunksize[q] = 0 \/ Locks(q) # {} \/ (OnPage(q) = {} /\ CountedIn(q) = {})
       /\ Locks(q) \subseteq {t} /\ (Locks(q) # {} \/ CountedIn(q) = {})
  BY <1>1, <1>3, <1>4, <1>5
<1>13. \A p \in Pages : p # q => count'[p] = count[p] /\ chunksize'[p] = chunksize[p] /\ onpage'[p] = onpage[p]
  BY <1>7, <1>8
<1>14. /\ chunksize'[q] = 0 \/ chunksize'[q] = chunksize[q]
       /\ m.pc # "clean" => \A w \in 1 .. MaxOnPageMasks : onpage'[q][w] = {}
       /\ count'[q] = Cardinality(CountedIn(q)) + (IF m.pc \in Locking THEN PageSize ELSE 0)
  BY <1>3, <1>4, <1>5, <1>7, <1>9, <1>10
<1> QED
  BY <1>2, <1>4, <1>5, <1>6, <1>7, <1>8, <1>11, <1>12, <1>13, <1>14, LockerStep

-----------------------------------------------------------------------------
(***************************************************************************)
(* Steps that take a chunk or give it back.                                *)
(***************************************************************************)

(* The record of a chunk tells its place.                                   *)
LEMMA SameChunk ==
  ASSUME NEW c \in Nat \ {0}, NEW d, NEW p, NEW q, NEW s, NEW b, NEW r, NEW a, Valid(c, s, b),
         Chunk(p, c, s, b) = Chunk(q, d, r, a), Valid(d, r, a)
  PROVE  p = q /\ c = d /\ s = r /\ b = a
<1>1. /\ Chunk(p, c, s, b).page = p /\ Chunk(p, c, s, b).size = c
      /\ Chunk(p, c, s, b).offset = (MaskBits * s + b) * c
      /\ Chunk(q, d, r, a).page = q /\ Chunk(q, d, r, a).size = d
      /\ Chunk(q, d, r, a).offset = (MaskBits * r + a) * d
  BY DEF Chunk
<1>2. p = q /\ c = d
  BY <1>1
<1>3. (MaskBits * s + b) * c = (MaskBits * r + a) * c /\ Valid(c, r, a)
  BY <1>1, <1>2
<1>4. s = r /\ b = a
  BY <1>3, PlacesApart
<1> QED
  BY <1>2, <1>4

(* A thread works at its place of page q, formatted with c.                 *)
LEMMA PlaceStep ==
  ASSUME IInv, NEW t \in Threads, NEW l \in Local, Becomes(t, l), LocalOK(l),
         NEW q \in Pages, NEW c \in Nat \ {0}, chunksize[q] = c, Locks(q) = {},
         th[t].pc \notin Locking, l.pc \notin Locking \cup {"recheck"},
         l.pc \in Working => l.page = q /\ l.c = c,
         UNCHANGED <<chunksize, count, regions, firstfreeblock>>,
         requests' \in Nat, outstanding' \in Int, IsFiniteSet(live'),
         bitmask' \in [Pages -> SUBSET Bits],
         onpage' \in [Pages -> [1 .. MaxOnPageMasks -> SUBSET Bits]],
         \A p \in Pages : p # q => bitmask'[p] = bitmask[p] /\ onpage'[p] = onpage[p],
         \A y \in live' : y \in live \/ \E s, b \in Nat : Valid(c, s, b) /\ y = Chunk(q, c, s, b),
         \A p : p # q => OnPage(p)' = OnPage(p) /\ CountedIn(p)' = CountedIn(p),
         \A p, d, s, b : p # q => (Taken(p, d, s, b)' <=> Taken(p, d, s, b)),
         ClearingOK', BitsOf(q, c)',
         Cardinality(OnPage(q)') + Cardinality(CountedIn(q)')
            = Cardinality(OnPage(q)) + Cardinality(CountedIn(q))
  PROVE  IInv'
<1> USE DEF IInv
<1>1. TypeOK'
  BY ThreadType DEF TypeOK
<1>2. \A u \in Threads : th'[u] = IF u = t THEN l ELSE th[u]
  BY ThreadSets
<1>3. \A p : Locks(p)' = Locks(p)
  <2>1. \A p : t \notin Locks(p)
    BY DEF Locks, Locking
  <2>2. l.pc \notin Locking
    OBVIOUS
  <2>3. \A p : Locks(p)' = Locks(p) \ {t}
    BY <2>2, ThreadSets
  <2> QED
    BY <2>1, <2>3
<1>4. Threading'
  <2> SUFFICES ASSUME NEW u \in Threads PROVE LocalOK(th'[u]) /\ TableOK(th[u])'
    BY DEF Threading, LocalOK
  <2>1. CASE u = t
    <3>1. l.pc \notin {"unformat", "unlock", "recheck"}
      BY DEF Locking
    <3>2. l.pc \in Working => chunksize'[l.page] = l.c /\ Locks(l.page)' = {}
      BY <1>3
    <3> QED
      BY <1>2, <2>1, <3>1, <3>2 DEF TableOK
  <2>2. CASE u # t
    <3>1. th'[u] = th[u] /\ LocalOK(th[u]) /\ TableOK(th[u])
      BY <1>2, <2>2 DEF Threading
    <3>2. th[u].pc \in {"unformat", "unlock"} => th[u].page \in Pages /\ th[u].page # q
      <4>1. th[u].pc \in {"unformat", "unlock"} => u \in Locks(th[u].page)
        BY DEF Locks
      <4>2. th[u].pc \in {"unformat", "unlock"} => th[u].page \in Pages
        BY <3>1 DEF LocalOK, Labels, Locking
      <4> QED
        BY <4>1, <4>2
    <3>3. TableOK(th[u])'
      BY <1>3, <3>1, <3>2 DEF TableOK
    <3> QED
      BY <3>1, <3>3
  <2> QED
    BY <2>1, <2>2
<1>5. Formats'
  BY <1>3 DEF Formats
<1>6. LiveOK'
  <2>0. SUFFICES ASSUME NEW x \in live'
                 PROVE  /\ x.page \in Pages /\ Locks(x.page)' = {} /\ chunksize'[x.page] # 0
                        /\ \E s, b \in Nat : /\ Valid(chunksize'[x.page], s, b)
                                             /\ x = Chunk(x.page, chunksize'[x.page], s, b)
    BY DEF LiveOK, Valid, Chunk
  <2> SUFFICES /\ x.page \in Pages /\ Locks(x.page) = {} /\ chunksize[x.page] # 0
               /\ \E s, b \in Nat : /\ Valid(chunksize[x.page], s, b)
                                    /\ x = Chunk(x.page, chunksize[x.page], s, b)
    BY <1>3
  <2>1. CASE x \in live
    BY <2>1 DEF LiveOK
  <2>2. CASE \E s, b \in Nat : Valid(c, s, b) /\ x = Chunk(q, c, s, b)
    <3>1. x.page = q
      BY <2>2 DEF Chunk
    <3> QED
      BY <2>2, <3>1
  <2> QED
    BY <2>1, <2>2
<1>7. BitsExact'
  <2> SUFFICES ASSUME NEW p \in Pages, NEW d \in Nat \ {0}, chunksize'[p] = d, Locks(p)' = {}
               PROVE  BitsOf(p, d)'
    BY DEF BitsExact
  <2>1. CASE p = q
    BY <2>1
  <2>2. CASE p # q
    <3>1. BitsOf(p, d)
      BY <1>3 DEF BitsExact
    <3>2. \A s, b : Taken(p, d, s, b)' <=> Taken(p, d, s, b)
      BY <2>2
    <3>3. bitmask'[p] = bitmask[p] /\ onpage'[p] = onpage[p]
      BY <2>2
    <3> QED
      BY <3>1, <3>2, <3>3 DEF BitsOf
  <2> QED
    BY <2>1, <2>2
<1>8. CountExact'
  <2> SUFFICES ASSUME NEW p \in Pages
               PROVE  /\ count[p] = Cardinality(OnPage(p)') + Cardinality(CountedIn(p)')
                                    + PageSize * Cardinality(Locks(p))
                      /\ Cardinality(Locks(p)) <= 1
                      /\ Locks(p) # {} => OnPage(p)' = {}
    BY <1>3 DEF CountExact
  <2>1. /\ count[p] = Cardinality(OnPage(p)) + Cardinality(CountedIn(p)) + PageSize * Cardinality(Locks(p))
        /\ Cardinality(Locks(p)) <= 1
        /\ Locks(p) # {} => OnPage(p) = {}
    BY DEF CountExact
  <2>2. CASE p # q
    BY <2>1, <2>2
  <2>3. CASE p = q
    BY <2>1, <2>3
  <2> QED
    BY <2>2, <2>3
<1> QED
  BY <1>1, <1>4, <1>5, <1>6, <1>7, <1>8

(* A chunk is given back: it must keep its bit until that is cleared.       *)
LEMMA DestroyStep == ASSUME IInv, NEW t \in Threads, NEW x \in live, destroy(t, x) PROVE IInv'
<1>1. PICK q, c : q = x.page /\ c = chunksize[q] /\ q \in Pages /\ Locks(q) = {} /\ c # 0
                  /\ \E s, b \in Nat : Valid(c, s, b) /\ x = Chunk(q, c, s, b)
  BY DEF IInv, LiveOK
<1>2. PICK s \in Nat, b \in Nat : Valid(c, s, b) /\ x = Chunk(q, c, s, b)
  BY <1>1
<1>3. c \in Nat \ {0} /\ c >= MinChunkSize
  BY <1>1 DEF IInv, TypeOK, Formats
<1>4. PICK nr : nr = x.offset \div c /\ nr = ((MaskBits * s + b) * c) \div c
  BY <1>2 DEF Chunk
<1>5. /\ s = IF Hierarchical(c) THEN nr \div MaskBits ELSE 0
      /\ b = IF Hierarchical(c) THEN nr % MaskBits ELSE nr
  BY <1>2, <1>3, <1>4, PlaceOf
<1>6. PICK l : l = [Idle EXCEPT !.pc = "clear", !.page = q, !.c = c, !.spot = s, !.bit = b]
  OBVIOUS
<1>7. Becomes(t, l)
  <2>1. Becomes(t, [Idle EXCEPT !.pc = "clear", !.page = q, !.c = c,
                       !.spot = IF Hierarchical(c) THEN nr \div MaskBits ELSE 0,
                       !.bit = IF Hierarchical(c) THEN nr % MaskBits ELSE nr])
    BY <1>1, <1>4 DEF destroy
  <2> QED
    BY <1>5, <1>6, <2>1
<1>8. l \in Local
  <2>1. "clear" \in Labels /\ q \in Nat
    BY <1>1, Positive DEF Labels, Inside, Pages
  <2> QED
    BY <1>3, <1>6, <2>1, IdleType DEF Local
<1>9. l.pc = "clear" /\ l.page = q /\ l.c = c /\ l.spot = s /\ l.bit = b
  BY <1>6 DEF Idle
<1>10. LocalOK(l)
  BY <1>1, <1>2, <1>3, <1>9 DEF LocalOK, Asking
<1>11. /\ th[t].pc = "idle" /\ live' = live \ {x} /\ outstanding' = outstanding - 1
       /\ UNCHANGED <<chunksize, count, bitmask, onpage, regions, firstfreeblock, requests>>
  BY DEF destroy, At, heap
<1>12. \A u \in Threads : th'[u] = IF u = t THEN l ELSE th[u]
  BY <1>7, ThreadSets DEF IInv
<1>13. ChunkAt(l) = x
  BY <1>2, <1>9 DEF ChunkAt, Chunk
<1>14. \A p, d, r, a : Chunk(p, d, r, a) = x /\ Valid(d, r, a) => p = q /\ d = c /\ r = s /\ a = b
  BY <1>2, <1>3, SameChunk
<1>15. ClearingOK'
  <2> SUFFICES ASSUME NEW u \in Threads, th'[u].pc = "clear"
               PROVE  /\ ChunkAt(th'[u]) \notin live'
                      /\ \A v \in Threads : th'[v].pc = "clear" /\ ChunkAt(th'[v]) = ChunkAt(th'[u]) => v = u
    BY DEF ClearingOK, At, ChunkAt
  <2>1. \A v \in Threads : v # t /\ th[v].pc = "clear" => ChunkAt(th[v]) \notin live
    BY DEF IInv, ClearingOK, At
  <2>2. \A v \in Threads : v # t /\ th[v].pc = "clear" => ChunkAt(th[v]) # x
    BY <2>1
  <2>3. CASE u = t
    BY <1>11, <1>12, <1>13, <2>2, <2>3
  <2>4. CASE u # t
    <3>1. th'[u] = th[u] /\ th[u].pc = "clear"
      BY <1>12, <2>4
    <3>2. ChunkAt(th[u]) # x /\ ChunkAt(th[u]) \notin live
      BY <2>1, <2>2, <2>4, <3>1
    <3>3. \A v \in Threads : th[v].pc = "clear" /\ ChunkAt(th[v]) = ChunkAt(th[u]) => v = u
      BY <3>1 DEF IInv, ClearingOK, At
    <3> QED
      BY <1>11, <1>12, <1>13, <3>1, <3>2, <3>3
  <2> QED
    BY <2>3, <2>4
<1>16. \A p, d, r, a : p # q \/ Valid(d, r, a) => (Taken(p, d, r, a)' <=> Taken(p, d, r, a))
  <2> SUFFICES ASSUME NEW p, NEW d, NEW r, NEW a, p # q \/ Valid(d, r, a)
               PROVE  Taken(p, d, r, a)' <=> Taken(p, d, r, a)
    OBVIOUS
  <2>0. Chunk(p, d, r, a).page = p
    BY DEF Chunk
  <2>1. PICK y : y = Chunk(p, d, r, a) /\ y.page = p
    BY <2>0
  <2>2. Taken(p, d, r, a) <=> \/ y \in live
                              \/ \E u \in Threads : th[u].pc = "clear" /\ th[u].page = p /\ th[u].c = d
                                                    /\ th[u].spot = r /\ th[u].bit = a
    BY <2>1 DEF Taken, At
  <2>3. Taken(p, d, r, a)' <=> \/ y \in live'
                               \/ \E u \in Threads : th'[u].pc = "clear" /\ th'[u].page = p /\ th'[u].c = d
                                                     /\ th'[u].spot = r /\ th'[u].bit = a
    BY <2>1 DEF Taken, At, Chunk
  <2>4. Taken(p, d, r, a) => Taken(p, d, r, a)'
    <3>1. CASE y = x /\ y \in live
      <4>0. p = q
        BY <1>1, <2>1, <3>1
      <4>1. p = q /\ d = c /\ r = s /\ a = b
        <5>1. Chunk(p, d, r, a) = x /\ Valid(d, r, a)
          BY <2>1, <3>1, <4>0
        <5> QED
          BY <1>14, <5>1, Zenon
      <4> QED
        BY <1>9, <1>12, <2>3, <4>1
    <3>2. CASE y # x /\ y \in live
      BY <1>11, <2>3, <3>2
    <3>3. ASSUME NEW u \in Threads, th[u].pc = "clear" /\ th[u].page = p /\ th[u].c = d
                                                    /\ th[u].spot = r /\ th[u].bit = a
          PROVE  Taken(p, d, r, a)'
      <4>1. u # t /\ th'[u] = th[u]
        BY <1>11, <1>12, <3>3
      <4> QED
        BY <2>3, <3>3, <4>1
    <3> QED
      BY <2>2, <3>1, <3>2, <3>3
  <2>5. Taken(p, d, r, a)' => Taken(p, d, r, a)
    <3>1. CASE y \in live'
      BY <1>11, <2>2, <3>1
    <3>2. ASSUME NEW u \in Threads, th'[u].pc = "clear" /\ th'[u].page = p /\ th'[u].c = d
                                                     /\ th'[u].spot = r /\ th'[u].bit = a
          PROVE  Taken(p, d, r, a)
      <4>1. CASE u = t
        BY <1>2, <1>9, <1>12, <2>1, <2>2, <3>2, <4>1
      <4>2. CASE u # t
        BY <1>12, <2>2, <3>2, <4>2
      <4> QED
        BY <4>1, <4>2
    <3> QED
      BY <2>3, <3>1, <3>2
  <2> QED
    BY <2>4, <2>5
<1>17. BitsOf(q, c)'
  <2>1. BitsOf(q, c)
    BY <1>1, <1>3 DEF IInv, BitsExact
  <2> QED
    BY <1>11, <1>16, <2>1 DEF BitsOf
<1>18. /\ \A p : p # q => OnPage(p)' = OnPage(p)
       /\ OnPage(q)' = OnPage(q) \ {x} /\ x \in OnPage(q)
  BY <1>1, <1>11 DEF OnPage
<1>19. /\ \A p : p # q => CountedIn(p)' = CountedIn(p)
       /\ CountedIn(q)' = CountedIn(q) \cup {t} /\ t \notin CountedIn(q)
  <2>1. \A p : t \notin CountedIn(p)
    BY <1>11 DEF CountedIn
  <2>2. \A p : CountedIn(p)' = IF l.page = p /\ l.pc \in Inside THEN CountedIn(p) \cup {t} ELSE CountedIn(p) \ {t}
    BY <1>7, ThreadSets DEF IInv
  <2>3. l.pc \in Inside
    BY <1>9 DEF Inside
  <2>4. \A p : p # q => CountedIn(p)' = CountedIn(p)
    BY <1>9, <2>1, <2>2
  <2> QED
    BY <1>9, <2>1, <2>2, <2>3, <2>4
<1>20. Cardinality(OnPage(q)') + Cardinality(CountedIn(q)') = Cardinality(OnPage(q)) + Cardinality(CountedIn(q))
  <2>1. Cardinality(OnPage(q)') = Cardinality(OnPage(q)) - 1
    BY <1>18, FS_RemoveElement, FiniteSets, ZenonT(60) DEF IInv
  <2>2. Cardinality(CountedIn(q)') = Cardinality(CountedIn(q)) + 1
    BY <1>19, FS_AddElement, FiniteSets, ZenonT(60) DEF IInv
  <2>3. Cardinality(OnPage(q)) \in Nat /\ Cardinality(CountedIn(q)) \in Nat
    BY FiniteSets DEF IInv
  <2> QED
    BY <2>1, <2>2, <2>3
<1>21. /\ requests' \in Nat /\ outstanding' \in Int /\ IsFiniteSet(live')
       /\ bitmask' \in [Pages -> SUBSET Bits] /\ onpage' \in [Pages -> [1 .. MaxOnPageMasks -> SUBSET Bits]]
  BY <1>11, FS_RemoveElement DEF IInv, TypeOK
<1>22. th[t].pc \notin Locking /\ l.pc \notin Locking \cup {"recheck"}
  BY <1>9, <1>11 DEF Locking
<1>23. \A y \in live' : y \in live \/ \E r, a \in Nat : Valid(c, r, a) /\ y = Chunk(q, c, r, a)
  BY <1>11
<1>24. \A p \in Pages : p # q => bitmask'[p] = bitmask[p] /\ onpage'[p] = onpage[p]
  BY <1>11
<1>25. \A p : p # q => OnPage(p)' = OnPage(p) /\ CountedIn(p)' = CountedIn(p)
  BY <1>18, <1>19
<1>26. \A p, d, r, a : p # q => (Taken(p, d, r, a)' <=> Taken(p, d, r, a))
  BY <1>16
<1>27. l.pc \in Working => l.page = q /\ l.c = c
  BY <1>9
<1> QED
  BY <1>1, <1>3, <1>7, <1>8, <1>10, <1>11, <1>15, <1>17, <1>20, <1>21, <1>22, <1>23, <1>24, <1>25,
     <1>26, <1>27, PlaceStep

(* The bit of a chunk that was given back is cleared, and no other one.     *)
LEMMA ClearBitStep == ASSUME IInv, NEW t \in Threads, ClearBit(t) PROVE IInv'
<1>1. PICK l, q, c, s, b : l = th[t] /\ q = l.page /\ c = l.c /\ s = l.spot /\ b = l.bit
  OBVIOUS
<1>2. l \in Local /\ LocalOK(l) /\ TableOK(l) /\ l.pc = "clear"
  BY <1>1, LocalType DEF IInv, ClearBit, At, Threading
<1>3. /\ q \in Pages /\ c >= MinChunkSize /\ Valid(c, s, b) /\ s \in Nat /\ b \in Nat
      /\ chunksize[q] = c /\ Locks(q) = {}
  BY <1>1, <1>2 DEF LocalOK, TableOK, Labels, Inside, Working, Local
<1>4. c \in Nat \ {0}
  BY <1>1, <1>2, <1>3, Positive DEF Local
<1>5. PICK x : x = ChunkAt(l) /\ x = Chunk(q, c, s, b)
  BY <1>1 DEF ChunkAt, Chunk
<1>6. /\ x \notin live
      /\ \A u \in Threads : th[u].pc = "clear" /\ ChunkAt(th[u]) = x => u = t
  BY <1>1, <1>2, <1>5 DEF IInv, ClearingOK, At
<1>7. PICK k, m : k = (IF Hierarchical(c) THEN "notfull" ELSE "countdown") /\ m = [l EXCEPT !.pc = k]
  OBVIOUS
<1>8. Becomes(t, m)
  BY <1>1, <1>7 DEF ClearBit
<1>9. k \in Labels /\ k \in {"notfull", "countdown"}
  BY <1>7 DEF Labels, Inside
<1>10. m \in Local /\ m.pc = k /\ m.page = q /\ m.c = c
  BY <1>1, <1>2, <1>7, <1>9, SetPc
<1>11. LocalOK(m)
  BY <1>3, <1>7, <1>9, <1>10 DEF LocalOK, Asking, Working
<1>12. /\ UNCHANGED <<chunksize, count, regions, firstfreeblock, live, outstanding, requests>>
       /\ onpage' = IF Hierarchical(c) THEN [onpage EXCEPT ![q][MaskWord(c, s)] = @ \ {b}] ELSE onpage
       /\ bitmask' = IF Hierarchical(c) THEN bitmask ELSE [bitmask EXCEPT ![q] = @ \ {b}]
  BY <1>1 DEF ClearBit, kernels
<1>13. \A u \in Threads : th'[u] = IF u = t THEN m ELSE th[u]
  BY <1>8, ThreadSets DEF IInv
<1>14. m.pc # "clear" /\ \A u \in Threads : th'[u].pc = "clear" <=> (th[u].pc = "clear" /\ u # t)
  BY <1>9, <1>10, <1>13
<1>15. ClearingOK'
  <2> SUFFICES ASSUME NEW u \in Threads, th'[u].pc = "clear"
               PROVE  /\ ChunkAt(th'[u]) \notin live
                      /\ \A v \in Threads : th'[v].pc = "clear" /\ ChunkAt(th'[v]) = ChunkAt(th'[u]) => v = u
    BY <1>12 DEF ClearingOK, At, ChunkAt
  <2>1. th'[u] = th[u] /\ th[u].pc = "clear"
    BY <1>13, <1>14
  <2>2. /\ ChunkAt(th[u]) \notin live
        /\ \A v \in Threads : th[v].pc = "clear" /\ ChunkAt(th[v]) = ChunkAt(th[u]) => v = u
    BY <2>1 DEF IInv, ClearingOK, At
  <2> QED
    BY <1>13, <1>14, <2>1, <2>2
<1>16. \A p, d, r, a : Taken(p, d, r, a)' <=> (Taken(p, d, r, a) /\ ~(p = q /\ d = c /\ r = s /\ a = b))
  <2> SUFFICES ASSUME NEW p, NEW d, NEW r, NEW a
               PROVE  Taken(p, d, r, a)' <=> (Taken(p, d, r, a) /\ ~(p = q /\ d = c /\ r = s /\ a = b))
    OBVIOUS
  <2>1. PICK y : y = Chunk(p, d, r, a)
    OBVIOUS
  <2>2. Taken(p, d, r, a) <=> \/ y \in live
                              \/ \E u \in Threads : th[u].pc = "clear" /\ th[u].page = p /\ th[u].c = d
                                                    /\ th[u].spot = r /\ th[u].bit = a
    BY <2>1 DEF Taken, At
  <2>3. Taken(p, d, r, a)' <=> \/ y \in live
                               \/ \E u \in Threads : th'[u].pc = "clear" /\ th'[u].page = p /\ th'[u].c = d
                                                     /\ th'[u].spot = r /\ th'[u].bit = a
    BY <1>12, <2>1 DEF Taken, At, Chunk
  <2>4. Taken(p, d, r, a)' <=> \/ y \in live
                               \/ \E u \in Threads : u # t /\ th[u].pc = "clear" /\ th[u].page = p
                                                     /\ th[u].c = d /\ th[u].spot = r /\ th[u].bit = a
    BY <1>13, <1>14, <2>3
  <2>5. CASE p = q /\ d = c /\ r = s /\ a = b
    <3>1. y = x /\ y \notin live
      BY <1>5, <1>6, <2>1, <2>5
    <3>2. ASSUME NEW u \in Threads, u # t, th[u].pc = "clear" /\ th[u].page = p
                                    /\ th[u].c = d /\ th[u].spot = r /\ th[u].bit = a
          PROVE  FALSE
      <4>1. ChunkAt(th[u]) = Chunk(p, d, r, a)
        BY <3>2 DEF ChunkAt, Chunk
      <4> QED
        BY <1>6, <2>1, <3>1, <3>2, <4>1
    <3> QED
      BY <2>4, <2>5, <3>1, <3>2
  <2>6. CASE ~(p = q /\ d = c /\ r = s /\ a = b)
    BY <1>1, <2>2, <2>4, <2>6
  <2> QED
    BY <2>5, <2>6
<1>17. Hierarchical(c) => /\ s \in 0 .. Segments(c) - 1
                          /\ \A r \in 0 .. Segments(c) - 1 : MaskWord(c, r) \in 1 .. MaxOnPageMasks
                          /\ \A r \in 0 .. Segments(c) - 1 : r # s => MaskWord(c, r) # MaskWord(c, s)
  BY <1>3, <1>4, MaskWords DEF Valid
<1>18. ~Hierarchical(c) => s = 0
  BY <1>3 DEF Valid
<1>19. /\ bitmask' \in [Pages -> SUBSET Bits] /\ onpage' \in [Pages -> [1 .. MaxOnPageMasks -> SUBSET Bits]]
       /\ \A p \in Pages : p # q => bitmask'[p] = bitmask[p] /\ onpage'[p] = onpage[p]
  <2>1. bitmask \in [Pages -> SUBSET Bits] /\ onpage \in [Pages -> [1 .. MaxOnPageMasks -> SUBSET Bits]]
    BY DEF IInv, TypeOK
  <2>2. CASE Hierarchical(c)
    BY <1>3, <1>12, <1>17, <2>1, <2>2
  <2>3. CASE ~Hierarchical(c)
    BY <1>3, <1>12, <2>1, <2>3
  <2> QED
    BY <2>2, <2>3
<1>20. BitsOf(q, c)'
  <2>1. BitsOf(q, c) /\ onpage \in [Pages -> [1 .. MaxOnPageMasks -> SUBSET Bits]]
        /\ bitmask \in [Pages -> SUBSET Bits]
    BY <1>3, <1>4 DEF IInv, BitsExact, TypeOK
  <2>2. ASSUME Hierarchical(c), NEW r \in 0 .. Segments(c) - 1, NEW a \in Nat
        PROVE  a \in onpage'[q][MaskWord(c, r)] <=> (Valid(c, r, a) /\ Taken(q, c, r, a)')
    <3>1. a \in onpage[q][MaskWord(c, r)] <=> (Valid(c, r, a) /\ Taken(q, c, r, a))
      BY <2>1, <2>2 DEF BitsOf
    <3>2. onpage' = [onpage EXCEPT ![q][MaskWord(c, s)] = @ \ {b}]
      BY <1>12, <2>2
    <3>3. CASE r = s
      <4>1. onpage'[q][MaskWord(c, s)] = onpage[q][MaskWord(c, s)] \ {b}
        BY <1>3, <1>17, <2>1, <2>2, <3>2
      <4> QED
        BY <1>16, <3>1, <3>3, <4>1
    <3>4. CASE r # s
      <4>1. onpage'[q][MaskWord(c, r)] = onpage[q][MaskWord(c, r)]
        BY <1>3, <1>17, <2>1, <2>2, <3>2, <3>4
      <4> QED
        BY <1>16, <3>1, <3>4, <4>1
    <3> QED
      BY <3>3, <3>4
  <2>3. ASSUME ~Hierarchical(c), NEW a \in Nat, Valid(c, 0, a), Taken(q, c, 0, a)'
        PROVE  a \in bitmask'[q]
    <3>1. a \in bitmask[q] /\ a # b
      BY <1>16, <1>18, <2>1, <2>3 DEF BitsOf
    <3>2. bitmask'[q] = bitmask[q] \ {b}
      BY <1>3, <1>12, <2>1, <2>3
    <3> QED
      BY <3>1, <3>2
  <2> QED
    BY <2>2, <2>3 DEF BitsOf
<1>21. \A p : OnPage(p)' = OnPage(p)
  BY <1>12 DEF OnPage
<1>22. \A p : CountedIn(p)' = CountedIn(p)
  <2>1. \A p : t \in CountedIn(p) <=> p = q
    BY <1>1, <1>2 DEF CountedIn
  <2>2. m.pc \in Inside
    BY <1>9, <1>10 DEF Inside
  <2>3. \A p : CountedIn(p)' = IF m.page = p /\ m.pc \in Inside THEN CountedIn(p) \cup {t} ELSE CountedIn(p) \ {t}
    BY <1>8, ThreadSets DEF IInv
  <2> QED
    BY <1>10, <2>1, <2>2, <2>3
<1>23. requests' \in Nat /\ outstanding' \in Int /\ IsFiniteSet(live')
  BY <1>12 DEF IInv, TypeOK
<1>24. th[t].pc \notin Locking /\ m.pc \notin Locking \cup {"recheck"} /\ (m.pc \in Working => m.page = q /\ m.c = c)
  BY <1>1, <1>2, <1>9, <1>10 DEF Locking
<1>25. \A y \in live' : y \in live \/ \E r, a \in Nat : Valid(c, r, a) /\ y = Chunk(q, c, r, a)
  BY <1>12
<1>26. \A p : p # q => OnPage(p)' = OnPage(p) /\ CountedIn(p)' = CountedIn(p)
  BY <1>21, <1>22
<1>27. \A p, d, r, a : p # q => (Taken(p, d, r, a)' <=> Taken(p, d, r, a))
  BY <1>16
<1>28. Cardinality(OnPage(q)') + Cardinality(CountedIn(q)') = Cardinality(OnPage(q)) + Cardinality(CountedIn(q))
  BY <1>21, <1>22
<1> QED
  BY <1>3, <1>4, <1>8, <1>10, <1>11, <1>12, <1>15, <1>19, <1>20, <1>23, <1>24, <1>25, <1>26, <1>27,
     <1>28, PlaceStep

(* What a thread knows that is about to try a bit.                          *)
LEMMA SpotFacts ==
  ASSUME IInv, NEW t \in Threads, th[t].pc = "spot", NEW l, l = th[t]
  PROVE  /\ l \in Local /\ LocalOK(l) /\ l.page \in Pages /\ l.c \in Nat \ {0} /\ l.c >= MinChunkSize
         /\ Valid(l.c, l.spot, l.bit) /\ l.spot \in Nat /\ l.bit \in Nat
         /\ l.bit \in Bits /\ chunksize[l.page] = l.c /\ Locks(l.page) = {}
         /\ (l.region + 1) * RegionSize <= NumPages /\ l.bytes \in Sizes /\ l.c >= l.bytes
<1>1. l \in Local /\ LocalOK(l) /\ TableOK(l)
  BY LocalType DEF IInv, Threading
<1>2. l.pc \in Asking \cap Inside /\ l.pc \in Working /\ l.pc # "countout"
  BY DEF Asking, Inside, Working
<1>3. /\ l.page \in Pages /\ l.c \in Nat \ {0} /\ l.c >= MinChunkSize
      /\ (l.region + 1) * RegionSize <= NumPages /\ l.bytes \in Sizes /\ l.c >= l.bytes
  BY <1>1, <1>2, AskingFacts
<1>4. Valid(l.c, l.spot, l.bit) /\ l.spot \in Nat /\ l.bit \in Nat
  BY <1>1 DEF LocalOK, Local
<1>5. l.bit \in Bits
  BY <1>3, <1>4, ChunkLayout DEF Bits
<1>6. chunksize[l.page] = l.c /\ Locks(l.page) = {}
  BY <1>1, <1>2 DEF TableOK
<1> QED
  BY <1>1, <1>3, <1>4, <1>5, <1>6

(* The bit was set: the thread tries the next one, or gives up the mask.    *)
LEMMA SpotLost ==
  ASSUME IInv, NEW t \in Threads, usespot(t), th[t].bit \in Field(th[t])
  PROVE  IInv' /\ UNCHANGED <<live, outstanding>>
<1>1. PICK l, q, c, old : l = th[t] /\ q = l.page /\ c = l.c /\ old = Field(l)
  OBVIOUS
<1>2. th[t].pc = "spot"
  BY DEF usespot, At
<1>3. /\ l \in Local /\ LocalOK(l) /\ q \in Pages /\ c \in Nat \ {0} /\ c >= MinChunkSize
      /\ Valid(c, l.spot, l.bit) /\ l.spot \in Nat /\ l.bit \in Nat
      /\ l.bit \in Bits /\ chunksize[q] = c /\ Locks(q) = {}
      /\ (l.region + 1) * RegionSize <= NumPages /\ l.bytes \in Sizes /\ c >= l.bytes
  BY <1>1, <1>2, SpotFacts
<1>4. l.bit \in old
  BY <1>1
<1>5. PICK n : n = Spots(l)
  OBVIOUS
<1>6. n \in Nat \ {0} /\ (Hierarchical(c) => l.spot \in 0 .. Segments(c) - 1 /\ n = SpotsIn(c, l.spot))
      /\ (~Hierarchical(c) => l.spot = 0 /\ n = ChunksInPage(c))
  <2>1. CASE Hierarchical(c)
    <3>1. l.spot \in 0 .. Segments(c) - 1 /\ l.bit \in 0 .. SpotsIn(c, l.spot) - 1 /\ n = SpotsIn(c, l.spot)
      BY <1>1, <1>3, <1>5, <2>1 DEF Valid, Spots
    <3>2. SpotsIn(c, l.spot) \in 1 .. MaskBits
      BY <1>3, <2>1, <3>1, StartBit
    <3> QED
      BY <2>1, <3>1, <3>2, Positive
  <2>2. CASE ~Hierarchical(c)
    <3>1. l.spot = 0 /\ l.bit \in 0 .. ChunksInPage(c) - 1 /\ n = ChunksInPage(c)
      BY <1>1, <1>3, <1>5, <2>2 DEF Valid, Spots
    <3>2. ChunksInPage(c) \in 0 .. PageSize
      BY <1>3, ChunksBound
    <3> QED
      BY <1>3, <2>2, <3>1, <3>2, Positive
  <2> QED
    BY <2>1, <2>2
<1>7. PICK a \in 0 .. n - 1 : a = nextspot(old, l.bit, n)
  BY <1>3, <1>6, NextSpotType
<1>8. PICK k, m : /\ k = IF Hierarchical(c) THEN "full" ELSE "countout"
                  /\ Becomes(t, m)
                  /\ m = [l EXCEPT !.pc = k] \/ m = [l EXCEPT !.bit = a]
  BY <1>1, <1>4, <1>5, <1>7 DEF usespot
<1>9. m \in Local /\ LocalOK(m) /\ m.page = q /\ m.c = c /\ m.pc \in {"full", "countout", "spot"}
  <2>1. CASE m = [l EXCEPT !.pc = k]
    <3>1. k \in Labels /\ k \in {"full", "countout"}
      BY <1>8 DEF Labels, Inside
    <3>2. /\ m \in Local /\ m.pc = k /\ m.page = q /\ m.region = l.region /\ m.bytes = l.bytes
          /\ m.c = c /\ m.spot = l.spot
      BY <1>1, <1>3, <2>1, <3>1, SetPc
    <3>3. LocalOK(m)
      BY <1>3, <1>6, <1>8, <3>1, <3>2 DEF LocalOK, Working
    <3> QED
      BY <3>1, <3>2, <3>3
  <2>2. CASE m = [l EXCEPT !.bit = a]
    <3>1. a \in Nat
      BY <1>6, <1>7
    <3>2. m \in Local
      BY <1>3, <2>2, <3>1 DEF Local
    <3>3. /\ m.pc = "spot" /\ m.page = q /\ m.region = l.region /\ m.bytes = l.bytes
          /\ m.c = c /\ m.spot = l.spot /\ m.bit = a
      BY <1>1, <1>2, <1>3, <2>2 DEF Local
    <3>4. Valid(c, l.spot, a)
      BY <1>6, <1>7 DEF Valid
    <3>5. LocalOK(m)
      BY <1>3, <3>3, <3>4 DEF LocalOK
    <3> QED
      BY <3>2, <3>3, <3>5
  <2> QED
    BY <1>8, <2>1, <2>2
<1>10. /\ UNCHANGED <<chunksize, count, regions, firstfreeblock, live, outstanding, requests>>
       /\ bitmask' = IF Hierarchical(c) THEN bitmask ELSE [bitmask EXCEPT ![q] = @ \cup {l.bit}]
  BY <1>1, <1>4 DEF usespot
<1>11. onpage' = onpage
  <2>1. PICK tk : /\ tk = IF Hierarchical(c) THEN [onpage EXCEPT ![q][MaskWord(c, l.spot)] = @ \cup {l.bit}]
                          ELSE onpage
                  /\ onpage' = [tk EXCEPT ![q] = [w \in DOMAIN @ |-> @[w]]]
    BY <1>1, <1>4, ZenonT(60) DEF usespot
  <2>2. onpage \in [Pages -> [1 .. MaxOnPageMasks -> SUBSET Bits]]
    BY DEF IInv, TypeOK
  <2>3. tk = onpage
    <3>1. CASE Hierarchical(c)
      <4>1. onpage[q][MaskWord(c, l.spot)] \cup {l.bit} = onpage[q][MaskWord(c, l.spot)]
        BY <1>1, <1>4, <3>1 DEF Field
      <4> QED
        BY <1>3, <2>1, <2>2, <3>1, <4>1
    <3> QED
      BY <2>1, <3>1
  <2>4. [w \in DOMAIN onpage[q] |-> onpage[q][w]] = onpage[q]
    BY <1>3, <2>2
  <2> QED
    BY <1>3, <2>1, <2>2, <2>3, <2>4
<1>12. th[t].pc \in Inside \ {"clear"} /\ m.pc \in Inside \ {"recheck", "clear"}
  BY <1>1, <1>2, <1>9 DEF Inside
<1>13. bitmask' \in [Pages -> SUBSET Bits] /\ \A p \in Pages : bitmask[p] \subseteq bitmask'[p]
  <2>1. bitmask \in [Pages -> SUBSET Bits]
    BY DEF IInv, TypeOK
  <2> QED
    BY <1>3, <1>10, <2>1
<1>14. IInv'
  BY <1>1, <1>3, <1>8, <1>9, <1>10, <1>11, <1>12, <1>13, InsideStep
<1> QED
  BY <1>10, <1>14

(* A bit that is 0 stands for a chunk that nobody has or gives back.        *)
LEMMA ClearBitFree ==
  ASSUME IInv, NEW t \in Threads, th[t].pc = "spot", th[t].bit \notin Field(th[t]), NEW l, l = th[t]
  PROVE  /\ ~Taken(l.page, l.c, l.spot, l.bit)
         /\ ChunkAt(l) = Chunk(l.page, l.c, l.spot, l.bit) /\ ChunkAt(l) \notin live
<1>1. /\ l.page \in Pages /\ l.c \in Nat \ {0} /\ Valid(l.c, l.spot, l.bit) /\ l.bit \in Nat
      /\ chunksize[l.page] = l.c /\ Locks(l.page) = {}
  BY SpotFacts
<1>2. BitsOf(l.page, l.c)
  BY <1>1 DEF IInv, BitsExact
<1>3. CASE Hierarchical(l.c)
  <2>1. l.spot \in 0 .. Segments(l.c) - 1
    BY <1>1, <1>3 DEF Valid
  <2>2. l.bit \notin onpage[l.page][MaskWord(l.c, l.spot)]
    BY <1>3 DEF Field
  <2>3. ~Taken(l.page, l.c, l.spot, l.bit)
    BY <1>1, <1>2, <1>3, <2>1, <2>2 DEF BitsOf
  <2> QED
    BY <2>3 DEF ChunkAt, Chunk, Taken
<1>4. CASE ~Hierarchical(l.c)
  <2>1. l.spot = 0
    BY <1>1, <1>4 DEF Valid
  <2>2. l.bit \notin bitmask[l.page]
    BY <1>4 DEF Field
  <2>3. ~Taken(l.page, l.c, l.spot, l.bit)
    BY <1>1, <1>2, <1>4, <2>1, <2>2 DEF BitsOf
  <2> QED
    BY <2>3 DEF ChunkAt, Chunk, Taken
<1> QED
  BY <1>3, <1>4

(* The kernel that writes to its chunk writes to no mask of its page.       *)
LEMMA MasksNotWritten ==
  ASSUME NEW p, NEW c \in Nat \ {0}, NEW s, NEW b, Valid(c, s, b), Hierarchical(c),
         NEW w \in Nat, w <= Segments(c)
  PROVE  w \notin WordsUnder(Chunk(p, c, s, b))
<1>1. PICK o \in Nat : o = (MaskBits * s + b) * c /\ o + c <= PageSize - Segments(c) * MaskBytes
  BY ChunkLayout
<1>2. Segments(c) \in Nat
  BY HierarchicalLayout, Positive
<1>3. w * MaskBytes <= Segments(c) * MaskBytes
  BY <1>2, MulMono, Positive
<1>4. w * MaskBytes \in Nat /\ Segments(c) * MaskBytes \in Nat /\ PageSize \in Nat
  BY <1>2, Positive
<1>5. ~(o + c > PageSize - w * MaskBytes)
  BY <1>1, <1>3, <1>4
<1>6. Chunk(p, c, s, b).offset = o /\ Chunk(p, c, s, b).size = c
  BY <1>1 DEF Chunk
<1> QED
  BY <1>5, <1>6 DEF WordsUnder

(* The bit was 0: the thread has a chunk, and writes to it.                 *)
LEMMA SpotWon ==
  ASSUME IInv, NEW t \in Threads, usespot(t), th[t].bit \notin Field(th[t])
  PROVE  IInv'
<1>1. PICK l, q, c, s, b, x : /\ l = th[t] /\ q = l.page /\ c = l.c /\ s = l.spot /\ b = l.bit
                              /\ x = ChunkAt(l)
  OBVIOUS
<1>2. th[t].pc = "spot"
  BY DEF usespot, At
<1>3. /\ l \in Local /\ q \in Pages /\ c \in Nat \ {0} /\ c >= MinChunkSize
      /\ Valid(c, s, b) /\ s \in Nat /\ b \in Nat
      /\ b \in Bits /\ chunksize[q] = c /\ Locks(q) = {}
  BY <1>1, <1>2, SpotFacts
<1>4. ~Taken(q, c, s, b) /\ x = Chunk(q, c, s, b) /\ x \notin live
  BY <1>1, <1>2, ClearBitFree
<1>5. /\ UNCHANGED <<chunksize, count, regions, firstfreeblock, requests>>
      /\ live' = live \cup {x} /\ outstanding' = outstanding + 1
      /\ bitmask' = IF Hierarchical(c) THEN bitmask ELSE [bitmask EXCEPT ![q] = @ \cup {b}]
      /\ Becomes(t, Idle)
  BY <1>1 DEF usespot
<1>6. Idle \in Local /\ LocalOK(Idle) /\ Idle.pc = "idle"
  BY IdleType DEF Idle
<1>7. \A u \in Threads : th'[u] = IF u = t THEN Idle ELSE th[u]
  BY <1>5, ThreadSets DEF IInv
<1>8. \A u \in Threads : th'[u].pc = "clear" <=> th[u].pc = "clear"
  BY <1>2, <1>6, <1>7
<1>9. \A u \in Threads : th[u].pc = "clear" => u # t /\ th'[u] = th[u]
  BY <1>2, <1>7
<1>10. \A u \in Threads : th[u].pc = "clear" => ChunkAt(th[u]) # x
  <2> SUFFICES ASSUME NEW u \in Threads, th[u].pc = "clear", ChunkAt(th[u]) = x PROVE FALSE
    OBVIOUS
  <2>1. Valid(th[u].c, th[u].spot, th[u].bit)
    BY DEF IInv, Threading, LocalOK
  <2>2. ChunkAt(th[u]) = Chunk(th[u].page, th[u].c, th[u].spot, th[u].bit)
    BY DEF ChunkAt, Chunk
  <2>3. Chunk(q, c, s, b) = Chunk(th[u].page, th[u].c, th[u].spot, th[u].bit)
    BY <1>4, <2>2
  <2>4. q = th[u].page /\ c = th[u].c /\ s = th[u].spot /\ b = th[u].bit
    BY <1>3, <2>1, <2>3, SameChunk
  <2>5. Taken(q, c, s, b)
    BY <2>4 DEF Taken, At
  <2> QED
    BY <1>4, <2>5
<1>11. ClearingOK'
  <2> SUFFICES ASSUME NEW u \in Threads, th'[u].pc = "clear"
               PROVE  /\ ChunkAt(th'[u]) \notin live'
                      /\ \A v \in Threads : th'[v].pc = "clear" /\ ChunkAt(th'[v]) = ChunkAt(th'[u]) => v = u
    BY DEF ClearingOK, At, ChunkAt
  <2>1. th'[u] = th[u] /\ th[u].pc = "clear" /\ ChunkAt(th[u]) # x
    BY <1>8, <1>9, <1>10
  <2>2. /\ ChunkAt(th[u]) \notin live
        /\ \A v \in Threads : th[v].pc = "clear" /\ ChunkAt(th[v]) = ChunkAt(th[u]) => v = u
    BY <2>1 DEF IInv, ClearingOK, At
  <2> QED
    BY <1>5, <1>8, <1>9, <2>1, <2>2
<1>12. \A p, d, r, a : Taken(p, d, r, a)' <=> (Taken(p, d, r, a) \/ Chunk(p, d, r, a) = x)
  <2> SUFFICES ASSUME NEW p, NEW d, NEW r, NEW a
               PROVE  Taken(p, d, r, a)' <=> (Taken(p, d, r, a) \/ Chunk(p, d, r, a) = x)
    OBVIOUS
  <2>1. PICK y : y = Chunk(p, d, r, a)
    OBVIOUS
  <2>2. Taken(p, d, r, a) <=> \/ y \in live
                              \/ \E u \in Threads : th[u].pc = "clear" /\ th[u].page = p /\ th[u].c = d
                                                    /\ th[u].spot = r /\ th[u].bit = a
    BY <2>1 DEF Taken, At
  <2>3. Taken(p, d, r, a)' <=> \/ y \in live'
                               \/ \E u \in Threads : th'[u].pc = "clear" /\ th'[u].page = p /\ th'[u].c = d
                                                     /\ th'[u].spot = r /\ th'[u].bit = a
    BY <2>1 DEF Taken, At, Chunk
  <2>4. (\E u \in Threads : th'[u].pc = "clear" /\ th'[u].page = p /\ th'[u].c = d
                            /\ th'[u].spot = r /\ th'[u].bit = a)
        <=> (\E u \in Threads : th[u].pc = "clear" /\ th[u].page = p /\ th[u].c = d
                            /\ th[u].spot = r /\ th[u].bit = a)
    BY <1>8, <1>9
  <2>5. y \in live' <=> (y \in live \/ y = x)
    BY <1>5
  <2> QED
    BY <2>1, <2>2, <2>3, <2>4, <2>5
<1>13. \A r, a : Valid(c, r, a) => (Taken(q, c, r, a)' <=> (Taken(q, c, r, a) \/ (r = s /\ a = b)))
  <2>1. \A r, a : Valid(c, r, a) /\ Chunk(q, c, r, a) = x => r = s /\ a = b
    BY <1>3, <1>4, SameChunk
  <2> QED
    BY <1>4, <1>12, <2>1
<1>14. \A p, d, r, a : p # q => (Taken(p, d, r, a)' <=> Taken(p, d, r, a))
  <2>1. \A p, d, r, a : Chunk(p, d, r, a).page = p
    BY DEF Chunk
  <2>2. \A p, d, r, a : p # q => Chunk(p, d, r, a) # x
    BY <1>4, <2>1
  <2> QED
    BY <1>12, <2>2
<1>15a. PICK W, tk :
          /\ W = WordsUnder(ChunkAt(th[t]))
          /\ tk = IF Hierarchical(th[t].c)
                  THEN [onpage EXCEPT ![th[t].page][MaskWord(th[t].c, th[t].spot)] = @ \cup {th[t].bit}]
                  ELSE onpage
  OBVIOUS
<1>15. /\ W = WordsUnder(x)
       /\ tk = IF Hierarchical(c) THEN [onpage EXCEPT ![q][MaskWord(c, s)] = @ \cup {b}] ELSE onpage
       /\ onpage' = [tk EXCEPT ![q] = [w \in DOMAIN @ |-> IF w \in W THEN Bits ELSE @[w]]]
  <2>1. onpage' = [tk EXCEPT ![th[t].page] =
                     [w \in DOMAIN @ |-> IF th[t].bit \notin Field(th[t]) /\ w \in W THEN Bits ELSE @[w]]]
    BY <1>15a, Zenon DEF usespot
  <2>2. [w \in DOMAIN tk[q] |-> IF th[t].bit \notin Field(th[t]) /\ w \in W THEN Bits ELSE tk[q][w]]
          = [w \in DOMAIN tk[q] |-> IF w \in W THEN Bits ELSE tk[q][w]]
    OBVIOUS
  <2>3. onpage' = [tk EXCEPT ![q] = [w \in DOMAIN @ |-> IF w \in W THEN Bits ELSE @[w]]]
    BY <1>1, <2>1, <2>2
  <2>4. /\ W = WordsUnder(x)
        /\ tk = IF Hierarchical(c) THEN [onpage EXCEPT ![q][MaskWord(c, s)] = @ \cup {b}] ELSE onpage
    BY <1>1, <1>15a
  <2> QED
    BY <2>3, <2>4
<1>16. onpage \in [Pages -> [1 .. MaxOnPageMasks -> SUBSET Bits]] /\ bitmask \in [Pages -> SUBSET Bits]
  BY DEF IInv, TypeOK
<1>17. Hierarchical(c) => /\ s \in 0 .. Segments(c) - 1
                          /\ \A r \in 0 .. Segments(c) - 1 : MaskWord(c, r) \in 1 .. MaxOnPageMasks
                                                             /\ MaskWord(c, r) <= Segments(c)
                          /\ \A r \in 0 .. Segments(c) - 1 : r # s => MaskWord(c, r) # MaskWord(c, s)
  BY <1>3, MaskWords DEF Valid
<1>18. /\ tk \in [Pages -> [1 .. MaxOnPageMasks -> SUBSET Bits]]
       /\ \A p \in Pages : p # q => tk[p] = onpage[p]
       /\ Hierarchical(c) => /\ tk[q][MaskWord(c, s)] = onpage[q][MaskWord(c, s)] \cup {b}
                             /\ \A r \in 0 .. Segments(c) - 1 :
                                   r # s => tk[q][MaskWord(c, r)] = onpage[q][MaskWord(c, r)]
  <2>1. CASE Hierarchical(c)
    <3>1. PICK e : e = [onpage[q] EXCEPT ![MaskWord(c, s)] = @ \cup {b}]
      OBVIOUS
    <3>2. MaskWord(c, s) \in 1 .. MaxOnPageMasks /\ onpage[q] \in [1 .. MaxOnPageMasks -> SUBSET Bits]
      BY <1>3, <1>16, <1>17, <2>1
    <3>3. e \in [1 .. MaxOnPageMasks -> SUBSET Bits]
      BY <1>3, <3>1, <3>2
    <3>4. tk = [onpage EXCEPT ![q] = e]
      BY <1>15, <2>1, <3>1
    <3>5. tk \in [Pages -> [1 .. MaxOnPageMasks -> SUBSET Bits]] /\ tk[q] = e
          /\ \A p \in Pages : p # q => tk[p] = onpage[p]
      BY <1>3, <1>16, <3>3, <3>4
    <3>6. e[MaskWord(c, s)] = onpage[q][MaskWord(c, s)] \cup {b}
      BY <3>1, <3>2
    <3>7. \A r \in 0 .. Segments(c) - 1 : r # s => e[MaskWord(c, r)] = onpage[q][MaskWord(c, r)]
      BY <1>17, <2>1, <3>1, <3>2
    <3> QED
      BY <3>5, <3>6, <3>7
  <2>2. CASE ~Hierarchical(c)
    BY <1>15, <1>16, <2>2
  <2> QED
    BY <2>1, <2>2
<1>19. /\ onpage' \in [Pages -> [1 .. MaxOnPageMasks -> SUBSET Bits]]
       /\ \A p \in Pages : p # q => onpage'[p] = onpage[p]
       /\ \A w \in 1 .. MaxOnPageMasks : w \notin W => onpage'[q][w] = tk[q][w]
  <2>1. PICK e : e = [w \in 1 .. MaxOnPageMasks |-> IF w \in W THEN Bits ELSE tk[q][w]]
    OBVIOUS
  <2>2. tk[q] \in [1 .. MaxOnPageMasks -> SUBSET Bits]
    BY <1>3, <1>18
  <2>3. e \in [1 .. MaxOnPageMasks -> SUBSET Bits]
    BY <2>1, <2>2
  <2>4. onpage' = [tk EXCEPT ![q] = e]
    BY <1>3, <1>15, <1>18, <2>1, <2>2
  <2>5. onpage' \in [Pages -> [1 .. MaxOnPageMasks -> SUBSET Bits]] /\ onpage'[q] = e
        /\ \A p \in Pages : p # q => onpage'[p] = tk[p]
    BY <1>3, <1>18, <2>3, <2>4
  <2> QED
    BY <1>18, <2>1, <2>5
<1>20. bitmask' \in [Pages -> SUBSET Bits] /\ \A p \in Pages : p # q => bitmask'[p] = bitmask[p]
  BY <1>3, <1>5, <1>16
<1>21. BitsOf(q, c)'
  <2>1. BitsOf(q, c)
    BY <1>3 DEF IInv, BitsExact
  <2>2. ASSUME Hierarchical(c), NEW r \in 0 .. Segments(c) - 1, NEW a \in Nat
        PROVE  a \in onpage'[q][MaskWord(c, r)] <=> (Valid(c, r, a) /\ Taken(q, c, r, a)')
    <3>1. a \in onpage[q][MaskWord(c, r)] <=> (Valid(c, r, a) /\ Taken(q, c, r, a))
      BY <2>1, <2>2 DEF BitsOf
    <3>2. PICK w : w = MaskWord(c, r)
      OBVIOUS
    <3>3. w \in 1 .. MaxOnPageMasks /\ w \in Nat /\ w <= Segments(c)
      BY <1>17, <2>2, <3>2, MaxOnPageMasksType
    <3>4. w \notin W
      BY <1>3, <1>4, <1>15, <2>2, <3>3, MasksNotWritten
    <3>5. onpage'[q][w] = tk[q][w]
      BY <1>19, <3>3, <3>4
    <3>6. CASE r = s
      <4>1. onpage'[q][MaskWord(c, r)] = onpage[q][MaskWord(c, r)] \cup {b}
        BY <1>18, <2>2, <3>2, <3>5, <3>6
      <4> QED
        BY <1>3, <1>13, <3>1, <3>6, <4>1
    <3>7. CASE r # s
      <4>1. onpage'[q][MaskWord(c, r)] = onpage[q][MaskWord(c, r)]
        BY <1>18, <2>2, <3>2, <3>5, <3>7
      <4> QED
        BY <1>13, <3>1, <3>7, <4>1
    <3> QED
      BY <3>6, <3>7
  <2>3. ASSUME ~Hierarchical(c), NEW a \in Nat, Valid(c, 0, a), Taken(q, c, 0, a)'
        PROVE  a \in bitmask'[q]
    <3>1. a \in bitmask[q] \/ a = b
      BY <1>13, <2>1, <2>3 DEF BitsOf
    <3>2. bitmask'[q] = bitmask[q] \cup {b}
      BY <1>3, <1>5, <1>16, <2>3
    <3> QED
      BY <3>1, <3>2
  <2> QED
    BY <2>2, <2>3 DEF BitsOf
<1>22. /\ \A p : p # q => OnPage(p)' = OnPage(p)
       /\ OnPage(q)' = OnPage(q) \cup {x} /\ x \notin OnPage(q)
  <2>1. x.page = q
    BY <1>4 DEF Chunk
  <2> QED
    BY <1>4, <1>5, <2>1 DEF OnPage
<1>23. /\ \A p : p # q => CountedIn(p)' = CountedIn(p)
       /\ CountedIn(q)' = CountedIn(q) \ {t} /\ t \in CountedIn(q)
  <2>1. \A p : t \in CountedIn(p) <=> p = q
    BY <1>1, <1>2 DEF CountedIn
  <2>2. Idle.pc \notin Inside
    BY <1>6 DEF Inside
  <2>3. \A p : CountedIn(p)' = CountedIn(p) \ {t}
    BY <1>5, <2>2, ThreadSets DEF IInv
  <2> QED
    BY <2>1, <2>3
<1>24. Cardinality(OnPage(q)') + Cardinality(CountedIn(q)') = Cardinality(OnPage(q)) + Cardinality(CountedIn(q))
  <2>1. Cardinality(OnPage(q)') = Cardinality(OnPage(q)) + 1
    BY <1>22, FS_AddElement, FiniteSets, ZenonT(60) DEF IInv
  <2>2. Cardinality(CountedIn(q)') = Cardinality(CountedIn(q)) - 1
    BY <1>23, FS_RemoveElement, FiniteSets DEF IInv
  <2>3. Cardinality(OnPage(q)) \in Nat /\ Cardinality(CountedIn(q)) \in Nat
    BY FiniteSets DEF IInv
  <2> QED
    BY <2>1, <2>2, <2>3
<1>25. requests' \in Nat /\ outstanding' \in Int /\ IsFiniteSet(live')
  <2>1. requests \in Nat /\ outstanding \in Int /\ IsFiniteSet(live)
    BY DEF IInv, TypeOK
  <2>2. IsFiniteSet(live \cup {x})
    BY <2>1, FS_AddElement
  <2> QED
    BY <1>5, <2>1, <2>2
<1>26. th[t].pc \notin Locking /\ Idle.pc \notin Locking \cup {"recheck"}
       /\ (Idle.pc \in Working => Idle.page = q /\ Idle.c = c)
  BY <1>2, <1>6 DEF Locking, Working
<1>27. \A y \in live' : y \in live \/ \E r, a \in Nat : Valid(c, r, a) /\ y = Chunk(q, c, r, a)
  BY <1>3, <1>4, <1>5
<1>28. \A p : p # q => OnPage(p)' = OnPage(p) /\ CountedIn(p)' = CountedIn(p)
  BY <1>22, <1>23
<1>29. \A p \in Pages : p # q => bitmask'[p] = bitmask[p] /\ onpage'[p] = onpage[p]
  BY <1>19, <1>20
<1>30. PICK m \in Local : m = Idle
  BY <1>6
<1>31. Becomes(t, m) /\ LocalOK(m) /\ m.pc \notin Locking \cup {"recheck"} /\ (m.pc \in Working => m.page = q /\ m.c = c)
  BY <1>5, <1>6, <1>26, <1>30
<1>32. UNCHANGED <<chunksize, count, regions, firstfreeblock>> /\ th[t].pc \notin Locking
  BY <1>5, <1>26
<1>33. bitmask' \in [Pages -> SUBSET Bits] /\ onpage' \in [Pages -> [1 .. MaxOnPageMasks -> SUBSET Bits]]
  BY <1>19, <1>20
<1> QED
  BY <1>3, <1>11, <1>14, <1>21, <1>24, <1>25, <1>27, <1>28, <1>29, <1>31, <1>32, <1>33, PlaceStep

-----------------------------------------------------------------------------
(***************************************************************************)
(* Theorems.                                                               *)
(***************************************************************************)

(* The heap after initDeviceFunction.                                       *)
LEMMA InitIInv == Init => IInv
<1> SUFFICES ASSUME Init PROVE IInv
  OBVIOUS
<1>1. \A t \in Threads : th[t] = Idle /\ th[t].pc = "idle"
  BY DEF Init, Idle
<1>2. \A p : Locks(p) = {} /\ CountedIn(p) = {} /\ OnPage(p) = {}
  BY <1>1 DEF Locks, CountedIn, OnPage, Init
<1>3. TypeOK
  <2>1. 0 \in 0 .. AccessBlocks - 1 /\ Idle \in Local /\ IsFiniteSet({})
    BY Positive, IdleType, FS_EmptySet
  <2>2. th \in [Threads -> Local]
    BY <2>1 DEF Init
  <2>3. /\ chunksize \in [Pages -> Nat] /\ count \in [Pages -> Int] /\ bitmask \in [Pages -> SUBSET Bits]
        /\ regions \in [0 .. RegionOf(NumPages - 1) -> Nat]
    BY DEF Init
  <2>4. onpage \in [Pages -> [1 .. MaxOnPageMasks -> SUBSET Bits]]
    BY DEF Init
  <2> QED
    BY <2>1, <2>2, <2>3, <2>4 DEF Init, TypeOK
<1>4. Threading
  <2> SUFFICES ASSUME NEW t \in Threads PROVE LocalOK(th[t]) /\ TableOK(th[t])
    BY DEF Threading
  <2>1. LocalOK(th[t])
    BY <1>1, IdleType
  <2> QED
    BY <1>1, <2>1 DEF TableOK, Working
<1>5. Formats /\ LiveOK /\ BitsExact
  BY DEF Init, Formats, LiveOK, BitsExact
<1>6. ClearingOK
  BY <1>1 DEF ClearingOK, At
<1>7. CountExact
  <2>1. Cardinality({}) = 0 /\ PageSize * 0 = 0
    BY FS_EmptySet, Positive
  <2>2. \A p \in Pages : count[p] = 0
    BY DEF Init
  <2> QED
    BY <1>2, <2>1, <2>2 DEF CountExact
<1> QED
  BY <1>3, <1>4, <1>5, <1>6, <1>7 DEF IInv

(* Every step of every thread preserves the invariant.                      *)
LEMMA NextIInv == IInv /\ [Next]_vars => IInv'
<1> SUFFICES ASSUME IInv, [Next]_vars PROVE IInv'
  OBVIOUS
<1>1. ASSUME NEW t \in Threads, Step(t) PROVE IInv'
  <2>1. CASE ReadRegion(t) \/ NextBlock(t) \/ ReadPage(t) \/ NextRegion(t) \/ OpenPage(t)
    BY <2>1, ReadRegionStep, NextBlockStep, ReadPageStep, NextRegionStep, OpenPageStep
  <2>2. CASE CountIn(t) \/ Recheck(t) \/ ReadSegments(t) \/ MarkFull(t) \/ CountOut(t)
    BY <2>2, CountInStep, RecheckStep, ReadSegmentsStep, MarkFullStep, CountOutStep
  <2>3. CASE usespot(t)
    BY <2>3, SpotLost, SpotWon
  <2>4. CASE ClearBit(t) \/ ClearFull(t) \/ CountDown(t)
    BY <2>4, ClearBitStep, ClearFullStep, CountDownStep
  <2>5. CASE LockPage(t) \/ CleanPage(t) \/ Unformat(t) \/ UnlockPage(t)
    BY <2>5, LockPageStep, CleanPageStep, UnformatStep, UnlockPageStep
  <2>6. CASE ForgetLevel(t) \/ LowerFirstBlock(t)
    BY <2>6, ForgetLevelStep, LowerFirstBlockStep
  <2> QED
    BY <1>1, <2>1, <2>2, <2>3, <2>4, <2>5, <2>6 DEF Step
<1>2. CASE Next
  BY <1>1, <1>2, CreateStep, DestroyStep DEF Next
<1>3. CASE UNCHANGED vars
  <2>1. UNCHANGED <<chunksize, count, bitmask, onpage, regions, firstfreeblock, th, live, outstanding, requests>>
    BY <1>3 DEF vars, heap, kernels
  <2>2. \A p : Locks(p)' = Locks(p) /\ CountedIn(p)' = CountedIn(p) /\ OnPage(p)' = OnPage(p)
    BY <2>1 DEF Locks, CountedIn, OnPage
  <2>3. TypeOK' /\ Formats' /\ CountExact'
    BY <2>1, <2>2 DEF IInv, TypeOK, Formats, CountExact
  <2>4. LiveOK' /\ ClearingOK'
    BY <2>1, <2>2 DEF IInv, LiveOK, ClearingOK, At, ChunkAt
  <2>5. Threading'
    <3>1. \A l : TableOK(l)' <=> TableOK(l)
      BY <2>1, <2>2 DEF TableOK
    <3> SUFFICES ASSUME NEW u \in Threads PROVE LocalOK(th'[u]) /\ TableOK(th[u])'
      BY DEF Threading, LocalOK
    <3>2. LocalOK(th[u]) /\ TableOK(th[u])
      BY DEF IInv, Threading
    <3> QED
      BY <2>1, <2>2, <3>2 DEF TableOK
  <2>6. \A p, c, s, b : Taken(p, c, s, b)' <=> Taken(p, c, s, b)
    BY <2>1 DEF Taken, At
  <2>7. BitsExact'
    <3> SUFFICES ASSUME NEW p \in Pages, NEW d \in Nat \ {0}, chunksize'[p] = d, Locks(p)' = {}
                 PROVE  BitsOf(p, d)'
      BY DEF BitsExact
    <3>1. BitsOf(p, d)
      BY <2>1, <2>2 DEF IInv, BitsExact
    <3> QED
      BY <2>1, <2>6, <3>1 DEF BitsOf
  <2> QED
    BY <2>3, <2>4, <2>5, <2>7 DEF IInv
<1> QED
  BY <1>2, <1>3

(* The invariant holds in every state of every execution.                   *)
THEOREM HeapInductive == Spec => []IInv
BY InitIInv, NextIInv, PTL DEF Spec

(* The count of a page is exact: the decisions that rest on it, to give a   *)
(* page up, to lock it and to unformat it, are never wrong.                 *)
THEOREM CountsExact == Spec => []CountExact
<1>1. IInv => CountExact
  BY DEF IInv
<1> QED
  BY <1>1, HeapInductive, PTL

(* A chunk in use has a place of its page, and is as long as its format.    *)
LEMMA LivePlace ==
  ASSUME IInv, NEW x \in live
  PROVE  /\ x.page \in Pages /\ chunksize[x.page] \in Nat \ {0}
         /\ \E s, b \in Nat : /\ Valid(chunksize[x.page], s, b)
                              /\ x = Chunk(x.page, chunksize[x.page], s, b)
BY DEF IInv, LiveOK, TypeOK

(* The bits of the masks say which chunks are in use.                       *)
LEMMA MasksFromBits == IInv => MasksExact
<1> SUFFICES ASSUME IInv,
                    NEW p \in {q \in Pages : chunksize[q] # 0 /\ Locks(q) = {}}
             PROVE  LET c == chunksize[p]
                        used == {chunk \in live \cup Clearing : chunk.page = p}
                        Numbers(s, field) == {(MaskBits * s + b) * c : b \in field}
                    IN  /\ \A chunk \in used : chunk.size = c
                        /\ IF Hierarchical(c)
                           THEN {chunk.offset : chunk \in used} =
                                UNION {Numbers(s, onpage[p][MaskWord(c, s)]) : s \in 0 .. Segments(c) - 1}
                           ELSE {chunk.offset : chunk \in used} \subseteq Numbers(0, bitmask[p])
  BY DEF MasksExact
<1> DEFINE c == chunksize[p]
           used == {chunk \in live \cup Clearing : chunk.page = p}
<1>0. p \in Pages /\ c # 0 /\ Locks(p) = {}
  OBVIOUS
<1>1. c \in Nat \ {0}
  BY <1>0 DEF IInv, TypeOK
<1>2. BitsOf(p, c)
  BY <1>0, <1>1 DEF IInv, BitsExact
<1>3. \A x \in used : \E s, b \in Nat : Valid(c, s, b) /\ x = Chunk(p, c, s, b) /\ Taken(p, c, s, b)
  <2> SUFFICES ASSUME NEW x \in used
               PROVE  \E s, b \in Nat : Valid(c, s, b) /\ x = Chunk(p, c, s, b) /\ Taken(p, c, s, b)
    OBVIOUS
  <2>1. CASE x \in live
    <3>1. PICK s \in Nat, b \in Nat : Valid(c, s, b) /\ x = Chunk(p, c, s, b)
      BY <1>0, <2>1, LivePlace
    <3> QED
      BY <2>1, <3>1 DEF Taken
  <2>2. CASE x \in Clearing
    <3>1. PICK u \in Threads : th[u].pc = "clear" /\ x = ChunkAt(th[u])
      BY <2>2 DEF Clearing, At
    <3>2. th[u].page = p
      BY <1>0, <3>1 DEF ChunkAt
    <3>3. th[u].c = c /\ Valid(th[u].c, th[u].spot, th[u].bit)
      BY <1>0, <3>1, <3>2 DEF IInv, Threading, LocalOK, TableOK, Working
    <3>4. th[u].spot \in Nat /\ th[u].bit \in Nat
      BY LocalType DEF IInv
    <3>5. x = Chunk(p, c, th[u].spot, th[u].bit)
      BY <3>1, <3>2, <3>3 DEF ChunkAt, Chunk
    <3>6. Taken(p, c, th[u].spot, th[u].bit)
      BY <3>1, <3>2, <3>3 DEF Taken, At
    <3> QED
      BY <3>3, <3>4, <3>5, <3>6
  <2> QED
    BY <1>0, <2>1, <2>2
<1>4. \A s, b : Taken(p, c, s, b) => Chunk(p, c, s, b) \in used
  <2> SUFFICES ASSUME NEW s, NEW b, Taken(p, c, s, b) PROVE Chunk(p, c, s, b) \in used
    OBVIOUS
  <2>1. Chunk(p, c, s, b).page = p
    BY DEF Chunk
  <2>2. CASE Chunk(p, c, s, b) \in live
    BY <1>0, <2>1, <2>2
  <2>3. ASSUME NEW u \in Threads, At(u, "clear") /\ th[u].page = p /\ th[u].c = c /\ th[u].spot = s /\ th[u].bit = b
        PROVE  Chunk(p, c, s, b) \in used
    <3>1. Chunk(p, c, s, b) = ChunkAt(th[u])
      BY <2>3 DEF Chunk, ChunkAt
    <3>2. Chunk(p, c, s, b) \in Clearing
      BY <2>3, <3>1 DEF Clearing
    <3> QED
      BY <1>0, <2>1, <3>2
  <2> QED
    BY <2>2, <2>3 DEF Taken
<1>5. \A s, b : Chunk(p, c, s, b).size = c /\ Chunk(p, c, s, b).offset = (MaskBits * s + b) * c
  BY DEF Chunk
<1>6. \A x \in used : x.size = c
  BY <1>3, <1>5
<1>7. ASSUME Hierarchical(c)
      PROVE  {x.offset : x \in used} =
             UNION {{(MaskBits * s + b) * c : b \in onpage[p][MaskWord(c, s)]} : s \in 0 .. Segments(c) - 1}
  <2>1. ASSUME NEW x \in used
        PROVE  \E s \in 0 .. Segments(c) - 1 : \E b \in onpage[p][MaskWord(c, s)] : x.offset = (MaskBits * s + b) * c
    <3>1. PICK s \in Nat, b \in Nat : Valid(c, s, b) /\ x = Chunk(p, c, s, b) /\ Taken(p, c, s, b)
      BY <1>3
    <3>2. s \in 0 .. Segments(c) - 1
      BY <1>7, <3>1 DEF Valid
    <3>3. b \in onpage[p][MaskWord(c, s)]
      BY <1>2, <1>7, <3>1, <3>2 DEF BitsOf
    <3>4. x.offset = (MaskBits * s + b) * c
      BY <1>5, <3>1
    <3> QED
      BY <3>2, <3>3, <3>4
  <2>2. ASSUME NEW s \in 0 .. Segments(c) - 1, NEW b \in onpage[p][MaskWord(c, s)]
        PROVE  \E x \in used : x.offset = (MaskBits * s + b) * c
    <3>1. MaskWord(c, s) \in 1 .. MaxOnPageMasks
      <4>1. c >= MinChunkSize
        BY <1>0 DEF IInv, Formats
      <4> QED
        BY <1>1, <1>7, <4>1, MaskWords
    <3>2. onpage[p][MaskWord(c, s)] \in SUBSET Bits
      BY <1>0, <3>1, ZenonT(60) DEF IInv, TypeOK
    <3>3. b \in Nat
      BY <3>2, Positive DEF Bits
    <3>4. Taken(p, c, s, b)
      BY <1>2, <1>7, <3>3 DEF BitsOf
    <3>5. Chunk(p, c, s, b) \in used /\ Chunk(p, c, s, b).offset = (MaskBits * s + b) * c
      BY <1>4, <1>5, <3>4
    <3> QED
      BY <3>5
  <2> QED
    BY <2>1, <2>2
<1>8. ASSUME ~Hierarchical(c)
      PROVE  {x.offset : x \in used} \subseteq {(MaskBits * 0 + b) * c : b \in bitmask[p]}
  <2>1. ASSUME NEW x \in used PROVE \E b \in bitmask[p] : x.offset = (MaskBits * 0 + b) * c
    <3>1. PICK s \in Nat, b \in Nat : Valid(c, s, b) /\ x = Chunk(p, c, s, b) /\ Taken(p, c, s, b)
      BY <1>3
    <3>2. s = 0
      BY <1>8, <3>1 DEF Valid
    <3>3. b \in bitmask[p]
      BY <1>2, <1>8, <3>1, <3>2 DEF BitsOf
    <3>4. x.offset = (MaskBits * s + b) * c
      BY <1>5, <3>1
    <3> QED
      BY <3>2, <3>3, <3>4
  <2> QED
    BY <2>1
<1> QED
  BY <1>6, <1>7, <1>8, Zenon

(* No kernel data and no mask of an earlier format is ever read as a mask.  *)
THEOREM MasksAreExact == Spec => []MasksExact
BY MasksFromBits, HeapInductive, PTL

-----------------------------------------------------------------------------
(***************************************************************************)
(* The allocator implements Heap.                                          *)
(***************************************************************************)

(* A place of a page is a block of the heap.                                *)
LEMMA PlaceIsBlock ==
  ASSUME NEW p \in Pages, NEW c \in Nat \ {0}, NEW s, NEW b, Valid(c, s, b), NEW x, x = Chunk(p, c, s, b)
  PROVE  x \in H!Block /\ x.offset + x.size <= PageSize
<1>1. PICK o \in Nat : o = (MaskBits * s + b) * c /\ o + c <= PageSize
  BY ChunkLayout
<1>2. o \in 0 .. PageSize - 1 /\ c \in 1 .. PageSize
  BY <1>1, Positive
<1>3. x = [page |-> p, offset |-> o, size |-> c]
  BY <1>1 DEF Chunk
<1> QED
  BY <1>1, <1>2, <1>3 DEF H!Block

(* A thread that wins a bit gets a block that shares no byte with another.  *)
LEMMA SpotAllocates ==
  ASSUME IInv, NEW t \in Threads, usespot(t), th[t].bit \notin Field(th[t])
  PROVE  H!Next
<1>1. PICK l, q, c, s, b, x : /\ l = th[t] /\ q = l.page /\ c = l.c /\ s = l.spot /\ b = l.bit
                              /\ x = ChunkAt(l)
  OBVIOUS
<1>2. th[t].pc = "spot"
  BY DEF usespot, At
<1>3. /\ q \in Pages /\ c \in Nat \ {0} /\ Valid(c, s, b) /\ chunksize[q] = c
      /\ l.bytes \in Sizes /\ c >= l.bytes
  BY <1>1, <1>2, SpotFacts
<1>4. x = Chunk(q, c, s, b) /\ x \notin live
  BY <1>1, <1>2, ClearBitFree
<1>5. x \in H!Block /\ x.offset + x.size <= PageSize
  BY <1>3, <1>4, PlaceIsBlock
<1>6. x.page = q /\ x.size = c /\ x.offset = (MaskBits * s + b) * c
  BY <1>4 DEF Chunk
<1>7. ASSUME NEW d \in live PROVE ~H!Overlap(x, d)
  <2> SUFFICES ASSUME d.page = q PROVE ~H!Overlap(x, d)
    BY <1>6 DEF H!Overlap
  <2>1. PICK r \in Nat, a \in Nat : Valid(c, r, a) /\ d = Chunk(q, c, r, a)
    BY <1>3, LivePlace
  <2>2. s # r \/ b # a
    BY <1>4, <2>1
  <2>3. PICK m \in Nat, n \in Nat : m = (MaskBits * s + b) * c /\ n = (MaskBits * r + a) * c
    BY <1>3, <2>1, ChunkLayout
  <2>4. m >= n + c \/ n >= m + c
    BY <1>3, <2>1, <2>2, <2>3, PlacesApart
  <2>5. d.size = c /\ d.offset = n
    BY <2>1, <2>3 DEF Chunk
  <2> QED
    BY <1>3, <1>6, <2>3, <2>4, <2>5 DEF H!Overlap
<1>8. live' = live \cup {x} /\ outstanding' = outstanding + 1
  BY <1>1 DEF usespot
<1>9. \E bytes \in Sizes : bytes <= x.size
  <2>1. l.bytes \in Nat
    BY <1>1, LocalType DEF IInv
  <2> QED
    BY <1>3, <1>6, <2>1
<1>10. H!Allocate(x)
  BY <1>5, <1>7, <1>8, <1>9 DEF H!Allocate
<1> QED
  BY <1>5, <1>10 DEF H!Next

(* A step is malloc or free of Heap, or none.                               *)
LEMMA StepOfHeap == IInv /\ [Next]_vars => [H!Next]_<<live, outstanding>>
<1> SUFFICES ASSUME IInv, [Next]_vars PROVE H!Next \/ UNCHANGED <<live, outstanding>>
  OBVIOUS
<1>1. ASSUME NEW t \in Threads, Step(t) PROVE H!Next \/ UNCHANGED <<live, outstanding>>
  <2>1. CASE ReadRegion(t) \/ NextBlock(t) \/ ReadPage(t) \/ NextRegion(t) \/ OpenPage(t)
    BY <2>1 DEF ReadRegion, NextBlock, ReadPage, NextRegion, OpenPage, kernels
  <2>2. CASE CountIn(t) \/ Recheck(t) \/ ReadSegments(t) \/ MarkFull(t) \/ CountOut(t)
    BY <2>2 DEF CountIn, Recheck, ReadSegments, MarkFull, CountOut, kernels
  <2>3. CASE usespot(t)
    BY <2>3, SpotLost, SpotAllocates
  <2>4. CASE ClearBit(t) \/ ClearFull(t) \/ CountDown(t)
    BY <2>4 DEF ClearBit, ClearFull, CountDown, kernels
  <2>5. CASE LockPage(t) \/ CleanPage(t) \/ Unformat(t) \/ UnlockPage(t)
    BY <2>5 DEF LockPage, CleanPage, Unformat, UnlockPage, kernels
  <2>6. CASE ForgetLevel(t) \/ LowerFirstBlock(t)
    BY <2>6 DEF ForgetLevel, LowerFirstBlock, kernels
  <2> QED
    BY <1>1, <2>1, <2>2, <2>3, <2>4, <2>5, <2>6 DEF Step
<1>2. ASSUME NEW t \in Threads, NEW x \in live, destroy(t, x) PROVE H!Next
  <2>1. x \in H!Block
    BY LivePlace, PlaceIsBlock
  <2>2. H!Release(x)
    BY <1>2 DEF destroy, H!Release
  <2> QED
    BY <2>1, <2>2 DEF H!Next
<1>3. ASSUME NEW t \in Threads, NEW bytes, NEW startpage, create(t, bytes, startpage)
      PROVE  UNCHANGED <<live, outstanding>>
  BY <1>3 DEF create
<1>4. CASE UNCHANGED vars
  BY <1>4 DEF vars, kernels
<1> QED
  BY <1>1, <1>2, <1>3, <1>4 DEF Next

(* Whatever threads allocate, free, format and unformat at the same time, a *)
(* chunk is only handed out when no byte of it belongs to a chunk in use.   *)
THEOREM ScatterImplementsHeap == Spec => Implements
<1>1. Init => H!Init
  BY DEF Init, H!Init
<1> QED
  BY <1>1, StepOfHeap, HeapInductive, PTL DEF Spec, Implements, H!Spec
=============================================================================
