------------------------- MODULE ExchangeStackProofs -------------------------
(***************************************************************************)
(* Proofs about ExchangeStack, for every number of blocks, every size of   *)
(* the buffer and every capacity of a frame.                               *)
(*                                                                         *)
(* What an action does to the claims of the blocks and to the recorded     *)
(* ranges is stated once per action; each part of the inductive invariant  *)
(* then follows from that fact.                                            *)
(***************************************************************************)
EXTENDS ExchangeStack, FiniteSetTheorems, SequenceTheorems, TLAPS

(* Front and Last of a non-empty list of frames are a list and a count.     *)
LEMMA FrontLast ==
  ASSUME NEW s \in Seq(0 .. TileSize), s # <<>>
  PROVE  Front(s) \in Seq(0 .. TileSize) /\ Last(s) \in 0 .. TileSize /\ Len(s) \in DOMAIN s
BY TileSizeAssumption DEF Front, Last

(* The initial state satisfies the invariant: nothing is claimed.           *)
LEMMA InitIInv == Init => IInv
<1> SUFFICES ASSUME Init PROVE IInv
  OBVIOUS
<1> USE MaxSizeAssumption, TileSizeAssumption, MaxFramesAssumption
<1>1. TypeOK
  <2>1. GuardLists \subseteq Seq(0 .. TileSize)
    BY DEF GuardLists
  <2>2. index \in [Slots -> Entry]
    BY DEF Init, Entry
  <2> QED
    BY <2>1, <2>2 DEF Init, TypeOK
<1>2. (\A b \in Blocks : Claim(b) = {}) /\ Recorded = {}
  BY DEF Init, Claim, Recorded, Slots
<1>3. QED
  BY <1>1, <1>2 DEF Init, IInv, Sizes, Grants, GrantsDisjoint, LeftOver, Covered, IndexInBounds, Slots

(* An action that leaves claims, recorded ranges and the size alone, or     *)
(* only lowers a size that exceeds the buffer, keeps the grants disjoint    *)
(* and covered.                                                             *)
LEMMA SameGrants ==
  ASSUME IInv, TypeOK',
         \A c \in Blocks : Claim(c)' = Claim(c),
         Recorded' = Recorded,
         \A i \in Recorded : EntryRange(i)' = EntryRange(i),
         size' = size \/ (size' = MaxSize /\ size >= MaxSize)
  PROVE  /\ GrantsDisjoint'
         /\ Covered'
         /\ (\A b \in Blocks : \A x \in Claim(b) : x < size)'
         /\ (\A i \in Recorded : \A x \in EntryRange(i) : x < size)'
<1> USE MaxSizeAssumption
<1>1. GrantsDisjoint'
  BY DEF IInv, GrantsDisjoint
<1>2. Covered'
  <2> SUFFICES ASSUME NEW x \in Slots, x < size'
               PROVE  (\E b \in Blocks : x \in Claim(b)') \/ (\E i \in Recorded' : x \in EntryRange(i)')
    BY DEF Covered
  <2>1. x < size
    BY DEF IInv, TypeOK, Slots
  <2> QED
    BY <2>1 DEF IInv, Covered
<1>3. (\A b \in Blocks : \A x \in Claim(b) : x < size)'
  BY DEF IInv, GrantsDisjoint, Sizes, Slots, TypeOK
<1>4. (\A i \in Recorded : \A x \in EntryRange(i) : x < size)'
  BY DEF IInv, GrantsDisjoint, Sizes, Slots, TypeOK
<1> QED
  BY <1>1, <1>2, <1>3, <1>4

(* Every step keeps the types.                                              *)
LEMMA TypeStep == IInv /\ [Next]_vars => TypeOK'
<1> SUFFICES ASSUME IInv, [Next]_vars PROVE TypeOK'
  OBVIOUS
<1> USE MaxSizeAssumption, TileSizeAssumption DEF TypeOK
<1>1. CASE NextRound
  BY <1>1 DEF NextRound, IInv
<1>2. ASSUME NEW b \in Blocks, NoMoreFrames(b) PROVE TypeOK'
  BY <1>2 DEF NoMoreFrames, IInv
<1>3. ASSUME NEW b \in Blocks, RemoveEmptyFrame(b) PROVE TypeOK'
  <2>1. Front(frames[b]) \in Seq(0 .. TileSize)
    BY <1>3, FrontLast DEF RemoveEmptyFrame, IInv
  <2> QED
    BY <1>3, <2>1 DEF RemoveEmptyFrame, IInv
<1>4. ASSUME NEW b \in Blocks, PushAdd(b) PROVE TypeOK'
  <2>1. Last(frames[b]) \in Nat
    BY <1>4, FrontLast DEF PushAdd, IInv
  <2> QED
    BY <1>4, <2>1 DEF PushAdd, IInv
<1>5. ASSUME NEW b \in Blocks, PushReset(b) PROVE TypeOK'
  <2>1. CASE oldSize[b] >= MaxSize
    BY <1>5, <2>1 DEF PushReset, IInv
  <2>2. CASE ~(oldSize[b] >= MaxSize)
    <3>1. MaxSize - oldSize[b] \in Nat
      BY <2>2 DEF IInv
    <3> QED
      BY <1>5, <2>2, <3>1 DEF PushReset, IInv
  <2> QED
    BY <2>1, <2>2
<1>6. ASSUME NEW b \in Blocks, PushIndex(b) PROVE TypeOK'
  BY <1>6 DEF PushIndex, IInv
<1>7. ASSUME NEW b \in Blocks, CopyParticles(b) PROVE TypeOK'
  <2>1. /\ frames[b] # <<>>
        /\ count[b] <= Last(frames[b])
        /\ Front(frames[b]) \in Seq(0 .. TileSize)
        /\ Last(frames[b]) \in 0 .. TileSize
    BY <1>7, FrontLast DEF CopyParticles, IInv, LeftOver
  <2>2. frames' \in [Blocks -> Seq(0 .. TileSize)]
    <3>1. CASE count[b] < Last(frames[b])
      <4>1. Last(frames[b]) - count[b] \in 0 .. TileSize
        BY <2>1, <3>1 DEF IInv
      <4>2. [frames[b] EXCEPT ![Len(frames[b])] = @ - count[b]] \in Seq(0 .. TileSize)
        <5> DEFINE s == frames[b]
        <5>1. s \in Seq(0 .. TileSize) /\ Len(s) \in 1 .. Len(s) /\ s[Len(s)] - count[b] \in 0 .. TileSize
          BY <2>1, <4>1 DEF Last, IInv
        <5> HIDE DEF s
        <5>2. [s EXCEPT ![Len(s)] = s[Len(s)] - count[b]] \in Seq(0 .. TileSize)
          BY <5>1, ExceptSeq
        <5> QED
          BY <5>2 DEF s
      <4> QED
        BY <1>7, <3>1, <4>2 DEF CopyParticles, IInv
    <3>2. CASE ~(count[b] < Last(frames[b]))
      BY <1>7, <2>1, <3>2 DEF CopyParticles, IInv
    <3> QED
      BY <3>1, <3>2
  <2>3. index' \in [Slots -> Entry]
    BY <1>7 DEF CopyParticles, IInv, Entry
  <2> QED
    BY <1>7, <2>2, <2>3 DEF CopyParticles, IInv
<1>8. CASE UNCHANGED vars
  BY <1>8 DEF vars, IInv
<1> QED
  BY <1>1, <1>2, <1>3, <1>4, <1>5, <1>6, <1>7, <1>8 DEF Next, BlockStep

(* NextRound drops all claims and entries.                                  *)
LEMMA NextRoundStep == ASSUME IInv, NextRound, TypeOK' PROVE IInv'
<1> USE MaxSizeAssumption
<1>1. (\A c \in Blocks : Claim(c)' = {}) /\ Recorded' = {}
  BY DEF NextRound, Claim, Recorded, Slots, TypeOK
<1>2. Sizes' /\ GrantsDisjoint' /\ Covered' /\ IndexInBounds'
  BY <1>1 DEF NextRound, Sizes, GrantsDisjoint, Covered, IndexInBounds, Slots
<1>3. Grants' /\ LeftOver'
  BY <1>1 DEF NextRound, Grants, LeftOver, IInv, TypeOK
<1> QED
  BY <1>2, <1>3 DEF IInv

(* A block that finds no frame, or an empty one, disturbs nothing shared.   *)
LEMMA NoMoreFramesStep ==
  ASSUME IInv, NEW b \in Blocks, NoMoreFrames(b), TypeOK' PROVE IInv'
<1> USE MaxSizeAssumption
<1>1. /\ \A c \in Blocks : Claim(c)' = Claim(c)
      /\ Recorded' = Recorded
      /\ \A i \in Recorded : EntryRange(i)' = EntryRange(i)
  BY DEF NoMoreFrames, Claim, Recorded, EntryRange, IInv, TypeOK
<1>2. GrantsDisjoint' /\ Covered' /\ Sizes'
  BY <1>1, SameGrants DEF NoMoreFrames, IInv, TypeOK, Sizes
<1>3. Grants' /\ IndexInBounds'
  BY <1>1 DEF NoMoreFrames, Grants, IndexInBounds, IInv, TypeOK
<1>4. LeftOver'
  BY DEF NoMoreFrames, LeftOver, IInv, TypeOK
<1> QED
  BY <1>2, <1>3, <1>4 DEF IInv

(* RemoveEmptyFrame: only a frame without particles is taken away.          *)
LEMMA RemoveEmptyFrameStep ==
  ASSUME IInv, NEW b \in Blocks, RemoveEmptyFrame(b), TypeOK' PROVE IInv'
<1> USE MaxSizeAssumption
<1>1. /\ \A c \in Blocks : Claim(c)' = Claim(c)
      /\ Recorded' = Recorded
      /\ \A i \in Recorded : EntryRange(i)' = EntryRange(i)
  BY DEF RemoveEmptyFrame, Claim, Recorded, EntryRange, IInv, TypeOK
<1>2. GrantsDisjoint' /\ Covered' /\ Sizes'
  BY <1>1, SameGrants DEF RemoveEmptyFrame, IInv, TypeOK, Sizes
<1>3. Grants' /\ IndexInBounds'
  BY <1>1 DEF RemoveEmptyFrame, Grants, IndexInBounds, IInv, TypeOK
<1>4. LeftOver'
  BY DEF RemoveEmptyFrame, LeftOver, IInv, TypeOK
<1> QED
  BY <1>2, <1>3, <1>4 DEF IInv

(* A reservation starts at the size, which is above every earlier grant.    *)
LEMMA PushAddStep ==
  ASSUME IInv, NEW b \in Blocks, PushAdd(b), TypeOK' PROVE IInv'
<1> USE MaxSizeAssumption
<1> DEFINE n == Last(frames[b])
<1>0. n \in Nat /\ n > 0 /\ size \in Nat /\ size' = size + n
      /\ oldSize'[b] = size /\ count'[b] = n /\ frames' = frames
      /\ pc'[b] = (IF size + n > MaxSize THEN "Exch" ELSE "Index")
      /\ \A c \in Blocks : c # b =>
           pc'[c] = pc[c] /\ oldSize'[c] = oldSize[c] /\ count'[c] = count[c]
  <2>1. n \in Nat
    BY FrontLast DEF PushAdd, IInv, TypeOK
  <2> QED
    BY <2>1 DEF PushAdd, IInv, TypeOK
<1>1. \A c \in Blocks : c # b => Claim(c)' = Claim(c)
  BY <1>0 DEF Claim
<1>2. Claim(b) = {}
  BY DEF PushAdd, Claim
<1>3. Claim(b)' = {x \in Slots : size <= x /\ x < size'}
  BY <1>0 DEF Claim, Slots
<1>4. Recorded' = Recorded /\ \A i \in Recorded : EntryRange(i)' = EntryRange(i)
  BY <1>0 DEF PushAdd, Recorded, EntryRange, IInv, TypeOK
<1>5. /\ \A c \in Blocks : \A x \in Claim(c) : x \in Nat /\ x < size
      /\ \A i \in Recorded : \A x \in EntryRange(i) : x \in Nat /\ x < size
      /\ Slots \subseteq Nat
  BY DEF IInv, GrantsDisjoint, Sizes, Slots
<1> HIDE DEF n
<1>6. Sizes'
  <2>1. (\A c \in Blocks : \A x \in Claim(c) : x < size)'
    <3> SUFFICES ASSUME NEW c \in Blocks, NEW x \in Claim(c)' PROVE x < size'
      OBVIOUS
    <3>1. CASE c = b
      BY <1>3, <3>1
    <3>2. CASE c # b
      BY <1>0, <1>1, <1>5, <3>2
    <3> QED
      BY <3>1, <3>2
  <2>2. (\A i \in Recorded : \A x \in EntryRange(i) : x < size)'
    BY <1>0, <1>4, <1>5
  <2>3. (\A c \in Blocks : pc[c] = "Exch" => size >= MaxSize)'
    BY <1>0 DEF IInv, Sizes
  <2>4. (size > MaxSize => \E c \in Blocks : pc[c] = "Exch")'
    BY <1>0
  <2> QED
    BY <2>1, <2>2, <2>3, <2>4 DEF Sizes
<1>7. Grants'
  <2>1. /\ pc'[b] = "Index" => count'[b] > 0 /\ oldSize'[b] + count'[b] <= MaxSize
        /\ pc'[b] = "Exch" => oldSize'[b] + count'[b] > MaxSize
    BY <1>0
  <2>2. \A c \in Blocks : pc'[c] = "Copy" => c # b
    BY <1>0
  <2> QED
    BY <1>0, <1>4, <2>1, <2>2 DEF PushAdd, Grants, IInv
<1>8. GrantsDisjoint'
  <2>0. \A x \in Claim(b)' : x \in Nat /\ size <= x
    BY <1>3, <1>5
  <2>1. \A c \in Blocks : Claim(b)' \cap Claim(c) = {}
    BY <2>0, <1>5, <1>0
  <2>2. \A i \in Recorded : Claim(b)' \cap EntryRange(i) = {}
    BY <2>0, <1>5, <1>0
  <2>3. Claim(b)' \subseteq Slots
    BY <1>3
  <2> QED
    BY <1>1, <1>4, <2>1, <2>2, <2>3 DEF IInv, GrantsDisjoint
<1>9. LeftOver'
  <2>1. frames[b] # <<>> /\ count'[b] = Last(frames[b])
    BY <1>0 DEF PushAdd, n
  <2> QED
    BY <1>0, <2>1 DEF LeftOver, IInv, n
<1>10. Covered'
  <2> SUFFICES ASSUME NEW x \in Slots, x < size'
               PROVE  (\E c \in Blocks : x \in Claim(c)') \/ (\E i \in Recorded' : x \in EntryRange(i)')
    BY DEF Covered
  <2>1. CASE x < size
    BY <1>1, <1>2, <1>4, <2>1 DEF IInv, Covered
  <2>2. CASE size <= x
    BY <1>3, <2>2
  <2> QED
    BY <1>0, <1>5, <2>1, <2>2
<1>11. IndexInBounds'
  BY DEF PushAdd, IndexInBounds, IInv
<1> QED
  BY <1>6, <1>7, <1>8, <1>9, <1>10, <1>11 DEF IInv

(* The exchange changes no claim: the block gets the end of the buffer,     *)
(* which is what it claimed, or nothing.                                    *)
LEMMA PushResetStep ==
  ASSUME IInv, NEW b \in Blocks, PushReset(b), TypeOK' PROVE IInv'
<1> USE MaxSizeAssumption
<1>0. /\ size >= MaxSize /\ size' = MaxSize /\ frames' = frames /\ oldSize' = oldSize
      /\ pc[b] = "Exch"
      /\ \/ oldSize[b] >= MaxSize /\ pc'[b] = "Done" /\ count'[b] = count[b]
         \/ oldSize[b] < MaxSize /\ pc'[b] = "Index" /\ count'[b] = MaxSize - oldSize[b]
      /\ \A c \in Blocks : c # b => pc'[c] = pc[c] /\ count'[c] = count[c]
      /\ oldSize[b] \in Nat /\ count[b] \in Nat /\ size \in Nat
  BY DEF PushReset, IInv, TypeOK, Sizes
<1>1. \A c \in Blocks : Claim(c)' = Claim(c)
  <2> SUFFICES ASSUME NEW c \in Blocks PROVE Claim(c)' = Claim(c)
    OBVIOUS
  <2>1. CASE c = b
    <3>1. Claim(b) = oldSize[b] .. (MaxSize - 1)
      BY <1>0 DEF Claim
    <3>2. CASE oldSize[b] >= MaxSize
      BY <1>0, <2>1, <3>1, <3>2 DEF Claim
    <3>3. CASE oldSize[b] < MaxSize
      <4>1. oldSize[b] + (MaxSize - oldSize[b]) - 1 = MaxSize - 1
        BY <1>0
      <4>2. Claim(b)' = oldSize[b] .. (oldSize[b] + (MaxSize - oldSize[b]) - 1)
        BY <1>0, <3>3 DEF Claim
      <4> QED
        BY <2>1, <3>1, <4>1, <4>2
    <3> QED
      BY <1>0, <3>2, <3>3
  <2>2. CASE c # b
    BY <1>0, <2>2 DEF Claim
  <2> QED
    BY <2>1, <2>2
<1>2. Recorded' = Recorded /\ \A i \in Recorded : EntryRange(i)' = EntryRange(i)
  BY <1>0 DEF PushReset, Recorded, EntryRange, IInv, TypeOK
<1>3. GrantsDisjoint' /\ Covered' /\ Sizes'
  BY <1>0, <1>1, <1>2, SameGrants DEF Sizes
<1>4. Grants'
  <2>1. /\ pc'[b] = "Index" => count'[b] > 0 /\ oldSize'[b] + count'[b] <= MaxSize
        /\ pc'[b] = "Exch" => oldSize'[b] + count'[b] > MaxSize
    BY <1>0
  <2>2. \A c \in Blocks : pc'[c] = "Copy" => c # b
    BY <1>0
  <2> QED
    BY <1>0, <1>2, <2>1, <2>2 DEF PushReset, Grants, IInv
<1>5. LeftOver'
  <2>1. \A c \in Blocks : size' >= MaxSize
    BY <1>0
  <2>2. frames[b] # <<>> /\ count[b] <= Last(frames[b]) /\ Last(frames[b]) \in Nat
    BY <1>0, FrontLast DEF LeftOver, IInv, TypeOK
  <2>3. pc'[b] = "Index" => count'[b] <= Last(frames[b])
    <3>1. oldSize[b] + count[b] >= MaxSize
      BY <1>0 DEF IInv, Grants
    <3> QED
      BY <1>0, <2>2, <3>1
  <2> QED
    BY <1>0, <2>1, <2>2, <2>3 DEF LeftOver, IInv
<1>6. IndexInBounds'
  BY DEF PushReset, IndexInBounds, IInv
<1> QED
  BY <1>3, <1>4, <1>5, <1>6 DEF IInv

(* The owners of the entries hold disjoint, non-empty parts of the buffer,  *)
(* and so does a block about to reserve an entry: there is room for it.     *)
LEMMA RoomForEntry ==
  ASSUME IInv, NEW b \in Blocks, pc[b] = "Index" PROVE indexSize < MaxSize
<1> USE MaxSizeAssumption
<1> DEFINE D == 0 .. indexSize
           Holder(i) == CHOOSE c \in Blocks : pc[c] = "Copy" /\ slot[c] = i
           Held(i) == IF i = indexSize THEN Claim(b)
                      ELSE IF i \in Recorded THEN EntryRange(i) ELSE Claim(Holder(i))
           f == [i \in D |-> IF i = indexSize THEN oldSize[b]
                             ELSE IF i \in Recorded THEN index[i].start ELSE oldSize[Holder(i)]]
<1>0. /\ indexSize \in Nat /\ indexSize <= MaxSize
      /\ index \in [Slots -> Entry]
      /\ oldSize \in [Blocks -> Nat] /\ count \in [Blocks -> Nat] /\ slot \in [Blocks -> Nat]
  BY DEF IInv, TypeOK, IndexInBounds
<1>1. \A i \in D : i # indexSize /\ i \notin Recorded =>
        Holder(i) \in Blocks /\ pc[Holder(i)] = "Copy" /\ slot[Holder(i)] = i
  BY <1>0 DEF Recorded, Slots
<1>2. \A c \in Blocks : pc[c] \in {"Index", "Copy"} => oldSize[c] \in Claim(c) /\ Claim(c) \subseteq Slots
  BY <1>0 DEF IInv, Grants, Claim, GrantsDisjoint
<1>3. \A i \in Recorded : index[i].start \in EntryRange(i) /\ EntryRange(i) \subseteq Slots
  BY <1>0 DEF IInv, Grants, EntryRange, GrantsDisjoint, Recorded, Entry
<1>4. \A i \in D : f[i] \in Held(i) /\ f[i] \in Slots
  <2> SUFFICES ASSUME NEW i \in D PROVE f[i] \in Held(i) /\ f[i] \in Slots
    OBVIOUS
  <2>1. CASE i = indexSize
    BY <1>2, <2>1
  <2>2. CASE i # indexSize /\ i \in Recorded
    BY <1>3, <2>2
  <2>3. CASE i # indexSize /\ i \notin Recorded
    BY <1>1, <1>2, <2>3
  <2> QED
    BY <2>1, <2>2, <2>3
<1>5. \A i, j \in D : i # j => Held(i) \cap Held(j) = {}
  <2>1. /\ \A c, d \in Blocks : c # d => Claim(c) \cap Claim(d) = {}
        /\ \A c \in Blocks, i \in Recorded : Claim(c) \cap EntryRange(i) = {}
        /\ \A i, j \in Recorded : i # j => EntryRange(i) \cap EntryRange(j) = {}
    BY DEF IInv, GrantsDisjoint
  <2> HIDE DEF f, Holder
  <2> SUFFICES ASSUME NEW i \in D, NEW j \in D, i # j PROVE Held(i) \cap Held(j) = {}
    OBVIOUS
  <2>2. \A k \in D : k # indexSize /\ k \notin Recorded => Holder(k) \in Blocks /\ Holder(k) # b
    BY <1>1
  <2>3. i # indexSize /\ i \notin Recorded /\ j # indexSize /\ j \notin Recorded => Holder(i) # Holder(j)
    BY <1>1
  <2> HIDE DEF D
  <2>4. CASE i = indexSize
    BY <2>1, <2>2, <2>4
  <2>5. CASE j = indexSize
    BY <2>1, <2>2, <2>5
  <2>6. CASE i # indexSize /\ j # indexSize
    <3>1. CASE i \in Recorded /\ j \in Recorded
      BY <2>1, <2>6, <3>1
    <3>2. CASE i \in Recorded /\ j \notin Recorded
      BY <2>1, <2>2, <2>6, <3>2
    <3>3. CASE i \notin Recorded /\ j \in Recorded
      BY <2>1, <2>2, <2>6, <3>3
    <3>4. CASE i \notin Recorded /\ j \notin Recorded
      BY <2>1, <2>2, <2>3, <2>6, <3>4
    <3> QED
      BY <3>1, <3>2, <3>3, <3>4
  <2> QED
    BY <2>4, <2>5, <2>6
<1>6. f \in Injection(D, Slots)
  <2>1. f \in [D -> Slots]
    BY <1>4
  <2>2. \A i, j \in D : f[i] = f[j] => i = j
    <3> HIDE DEF f, Held
    <3> QED BY <1>4, <1>5
  <2> QED
    BY <2>1, <2>2 DEF Injection, IsInjective
<1>7. IsFiniteSet(Slots) /\ Cardinality(Slots) = MaxSize /\ Cardinality(D) = indexSize + 1
  <2>1. /\ IsFiniteSet(0 .. MaxSize - 1)
        /\ Cardinality(0 .. MaxSize - 1) = IF 0 > MaxSize - 1 THEN 0 ELSE (MaxSize - 1) - 0 + 1
    BY FS_Interval
  <2>2. Cardinality(0 .. indexSize) = IF 0 > indexSize THEN 0 ELSE indexSize - 0 + 1
    BY <1>0, FS_Interval
  <2> QED
    BY <1>0, <2>1, <2>2 DEF Slots
<1>8. Cardinality(D) <= Cardinality(Slots)
  <2> HIDE DEF f, D
  <2> QED BY <1>6, <1>7, FS_Injection
<1> QED
  BY <1>0, <1>7, <1>8

(* PushIndex: the entry takes over the range of its block, and fits.        *)
LEMMA PushIndexStep ==
  ASSUME IInv, NEW b \in Blocks, PushIndex(b), TypeOK' PROVE IInv'
<1> USE MaxSizeAssumption
<1>0. /\ pc[b] = "Index" /\ pc'[b] = "Copy" /\ slot'[b] = indexSize /\ indexSize' = indexSize + 1
      /\ frames' = frames /\ oldSize' = oldSize /\ count' = count /\ size' = size /\ index' = index
      /\ \A c \in Blocks : c # b => pc'[c] = pc[c] /\ slot'[c] = slot[c]
      /\ indexSize \in Nat
      /\ \A c \in Blocks : pc[c] = "Copy" => slot[c] \in Nat /\ slot[c] < indexSize
  BY DEF PushIndex, IInv, TypeOK, Grants
<1>1. \A c \in Blocks : Claim(c)' = Claim(c)
  BY <1>0 DEF Claim
<1>2. Recorded' = Recorded
  <2>1. ASSUME NEW i \in Slots PROVE i \in Recorded' <=> i \in Recorded
    <3>1. i \in Nat
      BY DEF Slots
    <3>2. CASE i = indexSize
      BY <1>0, <3>1, <3>2 DEF Recorded
    <3>3. CASE i # indexSize
      BY <1>0, <3>1, <3>3 DEF Recorded
    <3> QED
      BY <3>2, <3>3
  <2> QED
    BY <2>1 DEF Recorded
<1>3. \A i \in Recorded : EntryRange(i)' = EntryRange(i)
  BY <1>0 DEF EntryRange
<1>4. GrantsDisjoint' /\ Covered' /\ Sizes'
  BY <1>0, <1>1, <1>2, <1>3, SameGrants DEF IInv, TypeOK, Sizes
<1>5. Grants'
  <2>1. \A c, d \in Blocks : pc'[c] = "Copy" /\ pc'[d] = "Copy" /\ slot'[c] = slot'[d] => c = d
    BY <1>0 DEF IInv, Grants
  <2>2. \A c \in Blocks : pc'[c] = "Copy" => slot'[c] < indexSize'
    BY <1>0
  <2> QED
    BY <1>0, <1>2, <2>1, <2>2 DEF Grants, IInv
<1>6. LeftOver'
  BY <1>0 DEF LeftOver, IInv
<1>7. IndexInBounds'
  BY <1>0, RoomForEntry DEF IndexInBounds
<1> QED
  BY <1>4, <1>5, <1>6, <1>7 DEF IInv

(* Filling in an entry turns the block's claim into a recorded range.       *)
LEMMA CopyParticlesStep ==
  ASSUME IInv, NEW b \in Blocks, CopyParticles(b), TypeOK' PROVE IInv'
<1> USE MaxSizeAssumption
<1>k. PICK k \in Nat : k = slot[b]
  BY DEF IInv, TypeOK
<1>0. /\ pc[b] = "Copy" /\ pc'[b] \in {"Done", "Loop"}
      /\ oldSize' = oldSize /\ count' = count /\ slot' = slot /\ size' = size /\ indexSize' = indexSize
      /\ \A c \in Blocks : c # b => pc'[c] = pc[c] /\ frames'[c] = frames[c]
      /\ oldSize[b] \in Nat /\ count[b] \in Nat /\ indexSize \in Nat /\ size \in Nat
      /\ count[b] > 0
  BY DEF CopyParticles, IInv, TypeOK, Grants
<1>1. k \in Slots /\ k < indexSize /\ k \notin Recorded
  BY <1>k, <1>0 DEF IInv, Grants, IndexInBounds, TypeOK, Slots, Recorded
<1>2. /\ index'[k] = [cell |-> b, start |-> oldSize[b], count |-> count[b]]
      /\ \A i \in Slots : i # k => index'[i] = index[i]
  BY <1>k, <1>1 DEF CopyParticles, IInv, TypeOK
<1>3. Claim(b)' = {} /\ \A c \in Blocks : c # b => Claim(c)' = Claim(c)
  BY <1>0 DEF Claim
<1>4. Recorded' = Recorded \cup {k}
  <2>1. ASSUME NEW i \in Slots PROVE i \in Recorded' <=> i \in Recorded \/ i = k
    <3>1. CASE i = k
      BY <1>k, <1>0, <1>1, <3>1 DEF IInv, Grants, Recorded
    <3>2. CASE i # k
      BY <1>k, <1>0, <3>2 DEF Recorded
    <3> QED
      BY <3>1, <3>2
  <2> QED
    BY <1>1, <2>1 DEF Recorded
<1>5. EntryRange(k)' = Claim(b)
  BY <1>0, <1>2 DEF EntryRange, Claim
<1>6. \A i \in Recorded : EntryRange(i)' = EntryRange(i)
  BY <1>1, <1>2 DEF EntryRange, Recorded
<1>7. GrantsDisjoint'
  <2>1. (\A c \in Blocks : Claim(c) \subseteq Slots)' /\ (\A i \in Recorded : EntryRange(i) \subseteq Slots)'
    BY <1>3, <1>4, <1>5, <1>6 DEF IInv, GrantsDisjoint
  <2>2. (\A c, d \in Blocks : c # d => Claim(c) \cap Claim(d) = {})'
    BY <1>3 DEF IInv, GrantsDisjoint
  <2>3. (\A c \in Blocks, i \in Recorded : Claim(c) \cap EntryRange(i) = {})'
    <3> SUFFICES ASSUME NEW c \in Blocks, NEW i \in Recorded'
                 PROVE  Claim(c)' \cap EntryRange(i)' = {}
      OBVIOUS
    <3>1. CASE c = b
      BY <1>3, <3>1
    <3>2. CASE c # b /\ i = k
      BY <1>3, <1>5, <3>2 DEF IInv, GrantsDisjoint
    <3>3. CASE c # b /\ i # k
      BY <1>3, <1>4, <1>6, <3>3 DEF IInv, GrantsDisjoint
    <3> QED
      BY <3>1, <3>2, <3>3
  <2>4. (\A i, j \in Recorded : i # j => EntryRange(i) \cap EntryRange(j) = {})'
    BY <1>4, <1>5, <1>6 DEF IInv, GrantsDisjoint
  <2> QED
    BY <2>1, <2>2, <2>3, <2>4 DEF GrantsDisjoint
<1>8. Sizes'
  <2>1. (\A c \in Blocks : \A x \in Claim(c) : x < size)'
    BY <1>0, <1>3 DEF IInv, Sizes
  <2>2. (\A i \in Recorded : \A x \in EntryRange(i) : x < size)'
    BY <1>0, <1>4, <1>5, <1>6 DEF IInv, Sizes
  <2>3. (\A c \in Blocks : pc[c] = "Exch" => size >= MaxSize)' /\ (size > MaxSize => \E c \in Blocks : pc[c] = "Exch")'
    BY <1>0 DEF IInv, Sizes
  <2> QED
    BY <2>1, <2>2, <2>3 DEF Sizes
<1>9. Grants'
  <2>1. \A i \in Recorded' : index'[i].count > 0
    BY <1>0, <1>2, <1>4 DEF IInv, Grants, Recorded
  <2> QED
    BY <1>0, <2>1 DEF IInv, Grants
<1>10. Covered'
  <2> SUFFICES ASSUME NEW x \in Slots, x < size
               PROVE  (\E c \in Blocks : x \in Claim(c)') \/ (\E i \in Recorded' : x \in EntryRange(i)')
    BY <1>0 DEF Covered
  <2>1. CASE \E i \in Recorded : x \in EntryRange(i)
    BY <1>4, <1>6, <2>1
  <2>2. CASE \E c \in Blocks : x \in Claim(c)
    BY <1>3, <1>4, <1>5, <2>2
  <2> QED
    BY <2>1, <2>2 DEF IInv, Covered
<1>11. LeftOver'
  <2>1. pc'[b] = "Done" => size >= MaxSize
    BY <1>0 DEF CopyParticles, IInv, LeftOver, TypeOK
  <2> QED
    BY <1>0, <2>1 DEF IInv, LeftOver
<1>12. IndexInBounds'
  BY <1>0 DEF IInv, IndexInBounds
<1> QED
  BY <1>7, <1>8, <1>9, <1>10, <1>11, <1>12 DEF IInv

(* The invariant is inductive.                                              *)
THEOREM Inductive == Spec => []IInv
<1>1. IInv /\ [Next]_vars => IInv'
  <2> SUFFICES ASSUME IInv, [Next]_vars PROVE IInv'
    OBVIOUS
  <2>0. TypeOK'
    BY TypeStep
  <2>1. CASE NextRound
    BY <2>0, <2>1, NextRoundStep
  <2>2. ASSUME NEW b \in Blocks, BlockStep(b) PROVE IInv'
    BY <2>0, <2>2, NoMoreFramesStep, RemoveEmptyFrameStep, PushAddStep,
       PushResetStep, PushIndexStep, CopyParticlesStep DEF BlockStep
  <2>3. CASE UNCHANGED vars
    <3>1. /\ \A c \in Blocks : Claim(c)' = Claim(c)
          /\ Recorded' = Recorded
          /\ \A i \in Recorded : EntryRange(i)' = EntryRange(i)
      BY <2>3 DEF vars, Claim, Recorded, EntryRange
    <3>2. GrantsDisjoint' /\ Covered' /\ Sizes'
      BY <2>0, <2>3, <3>1, SameGrants DEF vars, IInv, Sizes
    <3>3. Grants' /\ LeftOver' /\ IndexInBounds'
      BY <2>3, <3>1 DEF vars, IInv, Grants, LeftOver, IndexInBounds
    <3> QED
      BY <2>0, <3>2, <3>3 DEF IInv
  <2> QED
    BY <2>1, <2>2, <2>3 DEF Next
<1> QED
  BY <1>1, InitIInv, PTL DEF Spec

(* Types are kept.                                                          *)
THEOREM TypeCorrect == Spec => []TypeOK
<1>1. IInv => TypeOK
  BY DEF IInv
<1> QED
  BY <1>1, Inductive, PTL

(* pushN never grants one place of the buffer twice, nor one outside it.    *)
THEOREM DisjointGrants == Spec => []GrantsDisjoint
<1>1. IInv => GrantsDisjoint
  BY DEF IInv
<1> QED
  BY <1>1, Inductive, PTL

(* The unchecked index of pushN never outgrows its buffer.                  *)
THEOREM BoundedIndex == Spec => []IndexInBounds
<1>1. IInv => IndexInBounds
  BY DEF IInv
<1> QED
  BY <1>1, Inductive, PTL

(* After the kernel, the size is that of the buffer at most and everything  *)
(* below it was written.                                                    *)
THEOREM KernelResult == Spec => [](FinalSizeBounded /\ NoHoles)
<1>1. IInv => FinalSizeBounded /\ NoHoles
  <2> SUFFICES ASSUME IInv, AllDone PROVE size <= MaxSize /\ \A x \in Slots : x < size => \E i \in Recorded : x \in EntryRange(i)
    BY DEF FinalSizeBounded, NoHoles
  <2>1. \A b \in Blocks : Claim(b) = {}
    BY DEF AllDone, Claim
  <2>2. size <= MaxSize
    BY MaxSizeAssumption DEF IInv, TypeOK, Sizes, AllDone
  <2> QED
    BY <2>1, <2>2 DEF IInv, Covered
<1> QED
  BY <1>1, Inductive, PTL

(* A round that leaves room in the buffer has emptied the guard, which is   *)
(* the reason both ranks may stop after it.                                 *)
THEOREM LastRound == Spec => []RoundComplete
<1>1. IInv => RoundComplete
  BY MaxSizeAssumption DEF IInv, TypeOK, LeftOver, RoundComplete, AllDone
<1> QED
  BY <1>1, Inductive, PTL
=============================================================================
