------------------------ MODULE InsertParticlesProofs ------------------------
(***************************************************************************)
(* Proofs about InsertParticles, for every number of entries and           *)
(* supercells, every assignment of entries to supercells and every size of *)
(* the heap.                                                               *)
(***************************************************************************)
EXTENDS InsertParticles, FiniteSetTheorems, FunctionTheorems, SequenceTheorems, WellFoundedInduction,
        TLAPS

(* A set of naturals that is not empty has a least element: what Min and    *)
(* the searches of the code for the first free place return exists.         *)
LEMMA LeastNatural ==
  ASSUME NEW S \in SUBSET Nat, S # {}
  PROVE  \E m \in S : \A k \in S : m <= k
<1> DEFINE R == {p \in Nat \X Nat : p[1] < p[2]}
<1>1. IsWellFoundedOn(R, Nat)
  BY NatLessThanWellFounded DEF OpToRel
<1> HIDE DEF R
<1>2. PICK m \in S : \A k \in S : <<k, m>> \notin R
  BY <1>1, WFMin
<1>3. \A k \in S : ~(k < m)
  BY <1>2 DEF R
<1> QED
  BY <1>3

(* Blocks that have still to pop.                                           *)
Popping == {b \in Blocks : pc[b] = "pop"}

(* Blocks that own the frame getEmptyFrame has returned to them.            *)
Holding(b) == pc[b] \in {"copy", "exchange", "setPrevious", "setNext", "done"}

(* Blocks that have hung their frame into the list of the supercell.        *)
Hung(b) == pc[b] \in {"setPrevious", "setNext", "done"}

(* The blocks that have popped hold the entries above currentSize, each of  *)
(* them once, and there is an entry left for every other block.             *)
EntriesTaken ==
  /\ \A b \in Blocks : pc[b] = "pop" <=> entry[b] = Null
  /\ \A b \in Blocks : entry[b] # Null => entry[b] > currentSize
  /\ \A a, b \in Blocks : entry[a] = entry[b] /\ entry[a] # Null => a = b
  /\ \A e \in Entries : e > currentSize => \E b \in Blocks : entry[b] = e
  /\ Cardinality(Popping) = currentSize

(* A frame is free, or in one place of one list, or with a block that has   *)
(* not hung it in yet.                                                      *)
FramesOwned ==
  /\ \A b \in Blocks : Holding(b) => tmp[b] \in Frames \ heap
  /\ \A a, b \in Blocks : Holding(a) /\ Holding(b) /\ tmp[a] = tmp[b] => a = b
  /\ \A c \in Cells : \A i \in 1 .. Len(chain[c]) : chain[c][i] \notin heap
  /\ \A c, d \in Cells : \A i \in 1 .. Len(chain[c]), j \in 1 .. Len(chain[d]) :
       chain[c][i] = chain[d][j] => c = d /\ i = j
  /\ \A b \in Blocks : Holding(b) /\ ~Hung(b) =>
       \A c \in Cells : \A i \in 1 .. Len(chain[c]) : chain[c][i] # tmp[b]

(* The frame before place i of the list of c.                               *)
Before(c, i) == IF i = 1 THEN Null ELSE chain[c][i - 1]

(* A block that has hung its frame in finds it in the list of its           *)
(* supercell, after the frame it has replaced.                              *)
HungInPlace ==
  \A b \in Blocks : Hung(b) =>
    \E i \in 1 .. Len(chain[Cell(b)]) :
      chain[Cell(b)][i] = tmp[b] /\ old[b] = Before(Cell(b), i)

(* The particles of an entry are in the frame of the block that has popped  *)
(* it, and frames that no block of this kernel has hung in have none.       *)
ContentOfEntry ==
  /\ \A b \in Blocks : Hung(b) \/ pc[b] = "exchange" => content[tmp[b]] = entry[b]
  /\ \A c \in Cells : \A i \in 1 .. Len(chain[c]) :
       content[chain[c][i]] # Null => \E b \in Blocks : Hung(b) /\ tmp[b] = chain[c][i]

(* A block has still to link place i of the list of c to the one before.    *)
Linking(c, i, l) == \E b \in Blocks : pc[b] \in l /\ tmp[b] = chain[c][i]

(* The pointers of a list are right but for those that a block on its way   *)
(* has still to set.                                                        *)
Links ==
  /\ \A b \in Blocks : pc[b] = "exchange" => next[tmp[b]] = Null
  /\ \A c \in Cells :
       /\ Len(chain[c]) = 0 => first[c] = Null /\ last[c] = Null
       /\ Len(chain[c]) > 0 => /\ last[c] = chain[c][Len(chain[c])]
                               /\ next[chain[c][Len(chain[c])]] = Null
       /\ \A i \in 1 .. Len(chain[c]) :
            /\ prev[chain[c][i]] = Before(c, i) \/ Linking(c, i, {"setPrevious"})
            /\ \/ IF i = 1 THEN first[c] = chain[c][1] ELSE next[chain[c][i - 1]] = chain[c][i]
               \/ Linking(c, i, {"setPrevious", "setNext"})

(* A block allocates at most MaxTries times.                                *)
TriesLeft == \A b \in Blocks : pc[b] \in {"pop", "malloc"} => tries[b] < MaxTries

(* The inductive invariant.                                                 *)
IInv == TypeOK /\ TriesLeft /\ EntriesTaken /\ FramesOwned /\ HungInPlace /\ ContentOfEntry /\ Links

-----------------------------------------------------------------------------
(* What the type of a list says of its length and its frames.               *)
LEMMA ChainFacts ==
  ASSUME TypeOK, NEW c \in Cells
  PROVE  /\ Len(chain[c]) \in Nat
         /\ DOMAIN chain[c] = 1 .. Len(chain[c])
         /\ \A i \in 1 .. Len(chain[c]) : chain[c][i] \in Frames
BY LenProperties, ElementOfSeq DEF TypeOK

(* The supercell of a block that has popped an entry.                       *)
LEMMA CellType ==
  ASSUME TypeOK, NEW b \in Blocks, entry[b] # Null
  PROVE  Cell(b) \in Cells /\ entry[b] \in Entries
BY InsertAssumption DEF TypeOK, Cell, Entries, Null

(* All blocks have still to pop, and the lists have one frame at most.      *)
LEMMA InitIInv == Init => IInv
<1> SUFFICES ASSUME Init PROVE IInv
  OBVIOUS
<1> USE InsertAssumption
<1>1. PICK start \in [Cells -> 0 .. Cardinality(Cells)] :
        /\ \A c, d \in Cells : start[c] = start[d] /\ start[c] # Null => c = d
        /\ heap = Frames \ {start[c] : c \in Cells}
        /\ first = start
        /\ last = start
        /\ chain = [c \in Cells |-> IF start[c] = Null THEN <<>> ELSE <<start[c]>>]
  BY DEF Init
<1>2. Cardinality(Cells) \in Nat
  BY FS_CardinalityType
<1>3. \A c \in Cells : start[c] \in 0 .. HeapSize /\ (start[c] # Null => start[c] \in Frames)
  BY <1>1, <1>2 DEF Null, Frames
<1>4. \A c \in Cells :
        /\ start[c] = Null => chain[c] = <<>> /\ Len(chain[c]) = 0
        /\ start[c] # Null => chain[c] = <<start[c]>> /\ Len(chain[c]) = 1 /\ chain[c][1] = start[c]
        /\ chain[c] \in Seq(Frames)
  BY <1>1, <1>3
<1>5. TypeOK
  <2>1. chain \in [Cells -> Seq(Frames)]
    BY <1>1, <1>4
  <2>2. first \in [Cells -> 0 .. HeapSize] /\ last \in [Cells -> 0 .. HeapSize]
    BY <1>1, <1>3
  <2> QED
    BY <2>1, <2>2, <1>1 DEF Init, TypeOK, Frames, Blocks, Null
<1>6. EntriesTaken
  <2>1. Popping = 1 .. NumEntries
    BY DEF Init, Popping, Blocks
  <2>2. Cardinality(Popping) = NumEntries
    BY <2>1, FS_Interval
  <2> QED
    BY <2>2 DEF Init, EntriesTaken, Blocks, Entries
<1>7. \A b \in Blocks : pc[b] = "pop"
  BY DEF Init
<1>8. FramesOwned
  BY <1>1, <1>3, <1>4, <1>7 DEF FramesOwned, Holding
<1>9. HungInPlace /\ ContentOfEntry
  BY <1>3, <1>4, <1>7 DEF Init, HungInPlace, ContentOfEntry, Hung
<1>10. Links
  BY <1>1, <1>3, <1>4, <1>7 DEF Init, Links, Before
<1>11. TriesLeft
  BY DEF Init, TriesLeft
<1> QED
  BY <1>5, <1>6, <1>8, <1>9, <1>10, <1>11 DEF IInv

(* A pop takes the top entry for a block that had none; the stack is never  *)
(* found empty, because there is a block for every entry.                   *)
LEMMA PopEntryStep == ASSUME IInv, NEW b \in Blocks, PopEntry(b) PROVE IInv'
<1> USE InsertAssumption
<1> USE DEF IInv
<1>1. IsFiniteSet(Popping) /\ b \in Popping
  <2>1. IsFiniteSet(Blocks) /\ Popping \in SUBSET Blocks
    BY FS_Interval DEF Blocks, Popping
  <2> QED
    BY <2>1, FS_Subset DEF PopEntry, Popping
<1>2. currentSize > 0 /\ currentSize \in Entries /\ ~(currentSize <= 0)
  <2>1. Cardinality(Popping) # 0
    BY <1>1, FS_EmptySet
  <2> QED
    BY <2>1 DEF EntriesTaken, TypeOK, Entries
<1>3. /\ currentSize' = currentSize - 1
      /\ entry' = [entry EXCEPT ![b] = currentSize]
      /\ pc' = [pc EXCEPT ![b] = "malloc"]
      /\ UNCHANGED <<tries, tmp, old, heap, content, next, prev, first, last, chain>>
      /\ pc[b] = "pop" /\ entry[b] = Null
  BY <1>2 DEF PopEntry, Goto, lists, EntriesTaken
<1>4. TypeOK'
  <2>1. currentSize' \in 0 .. NumEntries /\ currentSize \in 0 .. NumEntries
    BY <1>2, <1>3 DEF Entries
  <2> QED
    BY <1>3, <2>1 DEF TypeOK
<1>5. EntriesTaken'
  <2>1. Popping' = Popping \ {b}
    BY <1>3 DEF Popping, TypeOK
  <2>2. Cardinality(Popping)' = currentSize'
    BY <1>1, <1>3, <2>1, FS_RemoveElement DEF EntriesTaken
  <2>3. \A a \in Blocks : entry'[a] = IF a = b THEN currentSize ELSE entry[a]
    BY <1>3 DEF TypeOK
  <2>4. \A a \in Blocks : pc'[a] = IF a = b THEN "malloc" ELSE pc[a]
    BY <1>3 DEF TypeOK
  <2>5. \A e \in Entries : e > currentSize' => e > currentSize \/ e = currentSize
    BY <1>2, <1>3 DEF Entries
  <2>6. \A e \in Entries : e > currentSize' => \E a \in Blocks : entry'[a] = e
    <3> SUFFICES ASSUME NEW e \in Entries, e > currentSize' PROVE \E a \in Blocks : entry'[a] = e
      OBVIOUS
    <3>1. CASE e = currentSize
      BY <2>3, <3>1
    <3>2. CASE e > currentSize
      <4>1. PICK a \in Blocks : entry[a] = e
        BY <3>2 DEF EntriesTaken
      <4>2. a # b
        BY <4>1, <1>3 DEF Entries, Null
      <4> QED
        BY <4>1, <4>2, <2>3
    <3> QED
      BY <2>5, <3>1, <3>2
  <2>10. \A a \in Blocks : entry[a] \in Nat /\ (entry[a] # Null => entry[a] > currentSize)
    BY DEF EntriesTaken, TypeOK
  <2>11. currentSize \in Nat
    BY DEF TypeOK
  <2>7. \A a \in Blocks : entry'[a] # Null => entry'[a] > currentSize'
    BY <1>2, <1>3, <2>3, <2>10, <2>11
  <2>8. \A a, d \in Blocks : entry'[a] = entry'[d] /\ entry'[a] # Null => a = d
    <3> SUFFICES ASSUME NEW a \in Blocks, NEW d \in Blocks, entry'[a] = entry'[d], entry'[a] # Null
                 PROVE  a = d
      OBVIOUS
    <3>1. CASE a # b /\ d # b
      BY <2>3, <3>1 DEF EntriesTaken
    <3>2. CASE a = b \/ d = b
      BY <2>3, <2>10, <2>11, <3>2
    <3> QED
      BY <3>1, <3>2
  <2>9. \A a \in Blocks : pc'[a] = "pop" <=> entry'[a] = Null
    BY <1>2, <2>3, <2>4 DEF EntriesTaken, Entries, Null
  <2> QED
    BY <2>2, <2>6, <2>7, <2>8, <2>9 DEF EntriesTaken
<1>6. \A a \in Blocks : /\ pc'[a] = IF a = b THEN "malloc" ELSE pc[a]
                        /\ Holding(a)' = Holding(a) /\ Hung(a)' = Hung(a)
                        /\ Hung(a) => Cell(a)' = Cell(a) /\ entry'[a] = entry[a]
                        /\ pc[a] = "exchange" => entry'[a] = entry[a]
  BY <1>3 DEF TypeOK, Holding, Hung, Cell
<1>7. FramesOwned'
  <2>1. \A a \in Blocks : Holding(a)' => Holding(a)
    BY <1>6
  <2>2. \A a \in Blocks : Holding(a)' /\ ~Hung(a)' => Holding(a) /\ ~Hung(a)
    BY <1>6
  <2> QED
    BY <1>3, <2>1, <2>2 DEF FramesOwned
<1>8. HungInPlace'
  <2> SUFFICES ASSUME NEW a \in Blocks, Hung(a)'
               PROVE  \E i \in 1 .. Len(chain'[Cell(a)']) :
                        chain'[Cell(a)'][i] = tmp'[a] /\ old'[a] = Before(Cell(a), i)'
    BY DEF HungInPlace
  <2>1. Hung(a) /\ Cell(a)' = Cell(a)
    BY <1>6
  <2> QED
    BY <1>3, <2>1 DEF HungInPlace, Before
<1>9. ContentOfEntry'
  BY <1>3, <1>6 DEF ContentOfEntry
<1>10. Links'
  <2>1. \A c \in Cells : \A i \in 1 .. Len(chain[c]) : \A l \in {{"setPrevious"}, {"setPrevious", "setNext"}} :
          Linking(c, i, l)' = Linking(c, i, l)
    BY <1>3, <1>6 DEF Linking
  <2> QED
    BY <1>3, <1>6, <2>1 DEF Links, Before
<1>11. TriesLeft'
  BY <1>3, <1>6 DEF TriesLeft
<1> QED
  BY <1>4, <1>5, <1>7, <1>8, <1>9, <1>10, <1>11

(* What getEmptyFrame returns is a free frame, or null when there is none.  *)
LEMMA LeastFrame ==
  ASSUME TypeOK, heap # {}
  PROVE  (CHOOSE g \in heap : \A h \in heap : g <= h) \in heap
<1>1. heap \in SUBSET Nat
  BY InsertAssumption DEF TypeOK, Frames
<1>2. \E g \in heap : \A h \in heap : g <= h
  BY <1>1, LeastNatural
<1> QED
  BY <1>2

(* An allocation takes a frame off the heap, which is in no list and with   *)
(* no other block.                                                          *)
LEMMA MallocStep == ASSUME IInv, NEW b \in Blocks, Malloc(b) PROVE IInv'
<1> USE InsertAssumption DEF IInv
<1> DEFINE f == IF heap = {} THEN Null ELSE CHOOSE g \in heap : \A h \in heap : g <= h
           l == IF tries[b] + 1 < MaxTries THEN "malloc" ELSE IF f = Null THEN "fault" ELSE "copy"
<1>1. f \in 0 .. HeapSize /\ (f # Null => f \in heap /\ f \in Frames)
  <2>1. CASE heap = {}
    BY <2>1 DEF Null
  <2>2. CASE heap # {}
    <3>1. f \in heap
      BY <2>2, LeastFrame
    <3> HIDE DEF f
    <3> QED
      BY <3>1 DEF TypeOK, Frames
  <2> QED
    BY <2>1, <2>2
<1>2. /\ heap' = heap \ {f}
      /\ tmp' = [tmp EXCEPT ![b] = f]
      /\ tries' = [tries EXCEPT ![b] = tries[b] + 1]
      /\ pc' = [pc EXCEPT ![b] = l]
      /\ pc[b] = "malloc"
      /\ UNCHANGED <<currentSize, entry, old, content, next, prev, first, last, chain>>
  BY DEF Malloc, Goto, lists
<1>3. l \in {"malloc", "fault", "copy"} /\ (l = "copy" => f # Null)
  OBVIOUS
<1>11. TriesLeft'
  BY <1>2, <1>3 DEF TriesLeft, TypeOK
<1> HIDE DEF f, l
<1>4. TypeOK'
  <2>1. tries[b] + 1 \in 0 .. MaxTries
    BY <1>2 DEF TriesLeft, TypeOK
  <2> QED
    BY <1>1, <1>2, <1>3, <2>1 DEF TypeOK
<1>5. /\ \A a \in Blocks : pc'[a] = IF a = b THEN l ELSE pc[a]
      /\ \A a \in Blocks : tmp'[a] = IF a = b THEN f ELSE tmp[a]
      /\ \A a \in Blocks : Hung(a)' = Hung(a) /\ Cell(a)' = Cell(a)
      /\ ~Hung(b) /\ ~Holding(b)
      /\ \A a \in Blocks : a # b => Holding(a)' = Holding(a)
      /\ Holding(b)' => f # Null
  BY <1>2, <1>3 DEF TypeOK, Holding, Hung, Cell
<1>6. EntriesTaken'
  <2>1. Popping' = Popping
    BY <1>2, <1>3, <1>5 DEF Popping
  <2> QED
    BY <1>2, <1>3, <1>5, <2>1 DEF EntriesTaken
<1>7. FramesOwned'
  BY <1>1, <1>2, <1>5 DEF FramesOwned
<1>8. HungInPlace'
  <2> SUFFICES ASSUME NEW a \in Blocks, Hung(a)'
               PROVE  \E i \in 1 .. Len(chain'[Cell(a)']) :
                        chain'[Cell(a)'][i] = tmp'[a] /\ old'[a] = Before(Cell(a), i)'
    BY DEF HungInPlace
  <2>1. Hung(a) /\ Cell(a)' = Cell(a) /\ tmp'[a] = tmp[a]
    BY <1>5
  <2> QED
    BY <1>2, <2>1 DEF HungInPlace, Before
<1>9. ContentOfEntry'
  BY <1>2, <1>3, <1>5 DEF ContentOfEntry
<1>10. Links'
  <2>1. \A c \in Cells : \A i \in 1 .. Len(chain[c]) : \A m \in {{"setPrevious"}, {"setPrevious", "setNext"}} :
          Linking(c, i, m)' = Linking(c, i, m)
    BY <1>2, <1>3, <1>5 DEF Linking
  <2> QED
    BY <1>2, <1>3, <1>5, <2>1 DEF Links, Before
<1> QED
  BY <1>4, <1>6, <1>7, <1>8, <1>9, <1>10, <1>11

(* The copy fills and prepares a frame that is in no list yet.              *)
LEMMA CopyParticlesStep == ASSUME IInv, NEW b \in Blocks, CopyParticles(b) PROVE IInv'
<1> USE InsertAssumption DEF IInv
<1>1. /\ pc[b] = "copy" /\ Holding(b) /\ ~Hung(b)
      /\ content' = [content EXCEPT ![tmp[b]] = entry[b]]
      /\ next' = [next EXCEPT ![tmp[b]] = Null]
      /\ prev' = [prev EXCEPT ![tmp[b]] = last[Cell(b)]]
      /\ pc' = [pc EXCEPT ![b] = "exchange"]
      /\ UNCHANGED <<currentSize, entry, tries, tmp, old, heap, first, last, chain>>
  BY DEF CopyParticles, Goto, block, Holding, Hung
<1>2. Cell(b) \in Cells /\ tmp[b] \in Frames /\ entry[b] \in Entries
  BY <1>1, CellType DEF EntriesTaken, FramesOwned
<1>3. TypeOK'
  <2>1. last[Cell(b)] \in 0 .. HeapSize /\ Null \in 0 .. HeapSize /\ entry[b] \in 0 .. NumEntries
    BY <1>2 DEF TypeOK, Null
  <2> QED
    BY <1>1, <1>2, <2>1 DEF TypeOK
<1>4. /\ \A a \in Blocks : pc'[a] = IF a = b THEN "exchange" ELSE pc[a]
      /\ \A a \in Blocks : Hung(a)' = Hung(a) /\ Holding(a)' = Holding(a) /\ Cell(a)' = Cell(a)
  BY <1>1 DEF TypeOK, Holding, Hung, Cell
<1>5. /\ \A c \in Cells : \A i \in 1 .. Len(chain[c]) :
           /\ chain[c][i] \in Frames
           /\ content'[chain[c][i]] = content[chain[c][i]]
           /\ next'[chain[c][i]] = next[chain[c][i]]
           /\ prev'[chain[c][i]] = prev[chain[c][i]]
      /\ \A a \in Blocks : Holding(a) /\ a # b =>
           content'[tmp[a]] = content[tmp[a]] /\ next'[tmp[a]] = next[tmp[a]]
      /\ content'[tmp[b]] = entry[b] /\ next'[tmp[b]] = Null
  <2>1. \A c \in Cells : \A i \in 1 .. Len(chain[c]) : chain[c][i] # tmp[b]
    BY <1>1 DEF FramesOwned
  <2>2. \A a \in Blocks : Holding(a) /\ a # b => tmp[a] # tmp[b] /\ tmp[a] \in Frames
    BY <1>1 DEF FramesOwned
  <2> QED
    BY <1>1, <1>2, <2>1, <2>2, ChainFacts DEF TypeOK
<1>6. EntriesTaken'
  <2>1. Popping' = Popping
    BY <1>1, <1>4 DEF Popping
  <2> QED
    BY <1>1, <1>4, <2>1 DEF EntriesTaken
<1>7. FramesOwned'
  BY <1>1, <1>4 DEF FramesOwned
<1>8. HungInPlace'
  BY <1>1, <1>4, SMTT(30) DEF HungInPlace, Before
<1>9. ContentOfEntry'
  <2>1. \A a \in Blocks : Hung(a)' \/ pc'[a] = "exchange" =>
          a = b \/ (Holding(a) /\ (Hung(a) \/ pc[a] = "exchange"))
    BY <1>4 DEF Holding, Hung
  <2> QED
    BY <1>1, <1>4, <1>5, <2>1 DEF ContentOfEntry
<1>10. Links'
  <2>1. \A c \in Cells : \A i \in 1 .. Len(chain[c]) : \A m \in {{"setPrevious"}, {"setPrevious", "setNext"}} :
          Linking(c, i, m)' = Linking(c, i, m)
    BY <1>1, <1>4 DEF Linking
  <2>2. \A a \in Blocks : pc'[a] = "exchange" => next'[tmp'[a]] = Null
    BY <1>1, <1>4, <1>5 DEF Links, Holding
  <2>3. ASSUME NEW c \in Cells, NEW i \in 1 .. Len(chain[c])
        PROVE  /\ prev'[chain[c][i]] = Before(c, i) \/ Linking(c, i, {"setPrevious"})
               /\ \/ IF i = 1 THEN first'[c] = chain[c][1] ELSE next'[chain[c][i - 1]] = chain[c][i]
                  \/ Linking(c, i, {"setPrevious", "setNext"})
    <3>1. i # 1 => i - 1 \in 1 .. Len(chain[c])
      BY ChainFacts
    <3> QED
      BY <1>1, <1>5, <3>1 DEF Links
  <2>4. ASSUME NEW c \in Cells
        PROVE  /\ Len(chain[c]) = 0 => first'[c] = Null /\ last'[c] = Null
               /\ Len(chain[c]) > 0 => /\ last'[c] = chain[c][Len(chain[c])]
                                       /\ next'[chain[c][Len(chain[c])]] = Null
    <3>1. Len(chain[c]) > 0 => Len(chain[c]) \in 1 .. Len(chain[c])
      BY ChainFacts
    <3> QED
      BY <1>1, <1>5, <3>1 DEF Links
  <2>5. \A c \in Cells : \A i \in 1 .. Len(chain[c]) : Before(c, i)' = Before(c, i)
    BY <1>1 DEF Before
  <2> QED
    BY <1>1, <2>1, <2>2, <2>3, <2>4, <2>5, SMTT(30) DEF Links
<1>11. TriesLeft'
  BY <1>1, <1>4 DEF TriesLeft
<1> QED
  BY <1>3, <1>6, <1>7, <1>8, <1>9, <1>10, <1>11

(* The exchange appends the frame to the list; until the block has set them *)
(* the pointers between it and the frame it has replaced are open.          *)
LEMMA ExchangeLastStep == ASSUME IInv, NEW b \in Blocks, ExchangeLast(b) PROVE IInv'
<1> USE InsertAssumption DEF IInv
<1>0. PICK k, n : k = Cell(b) /\ n = Len(chain[k])
  OBVIOUS
<1>1. /\ pc[b] = "exchange" /\ Holding(b) /\ ~Hung(b)
      /\ old' = [old EXCEPT ![b] = last[k]]
      /\ last' = [last EXCEPT ![k] = tmp[b]]
      /\ chain' = [chain EXCEPT ![k] = Append(chain[k], tmp[b])]
      /\ pc' = [pc EXCEPT ![b] = "setPrevious"]
      /\ UNCHANGED <<currentSize, entry, tries, tmp, heap, content, next, prev, first>>
  BY <1>0 DEF ExchangeLast, Goto, Holding, Hung
<1>2. k \in Cells /\ tmp[b] \in Frames /\ entry[b] \in Entries /\ n \in Nat
  BY <1>0, <1>1, CellType, ChainFacts DEF EntriesTaken, FramesOwned
<1>3. /\ Append(chain[k], tmp[b]) \in Seq(Frames)
      /\ Len(Append(chain[k], tmp[b])) = n + 1
      /\ \A i \in 1 .. n : Append(chain[k], tmp[b])[i] = chain[k][i]
      /\ Append(chain[k], tmp[b])[n + 1] = tmp[b]
  BY <1>0, <1>2, AppendProperties DEF TypeOK
<1>4. /\ \A c \in Cells : c # k => chain'[c] = chain[c] /\ last'[c] = last[c]
      /\ chain'[k] = Append(chain[k], tmp[b]) /\ last'[k] = tmp[b]
      /\ chain' \in [Cells -> Seq(Frames)]
  BY <1>1, <1>2, <1>3 DEF TypeOK
<1>5. /\ Len(chain'[k]) = n + 1 /\ chain'[k][n + 1] = tmp[b]
      /\ \A i \in 1 .. n : chain'[k][i] = chain[k][i]
  BY <1>3, <1>4
<1>6. TypeOK'
  BY <1>1, <1>2, <1>4 DEF TypeOK, Frames
<1>7. /\ \A a \in Blocks : pc'[a] = IF a = b THEN "setPrevious" ELSE pc[a]
      /\ \A a \in Blocks : old'[a] = IF a = b THEN last[k] ELSE old[a]
      /\ \A a \in Blocks : Holding(a)' = Holding(a) /\ Cell(a)' = Cell(a)
      /\ \A a \in Blocks : Hung(a)' <=> Hung(a) \/ a = b
  BY <1>1 DEF TypeOK, Holding, Hung, Cell
\* a place of the new lists is one of the old lists or the new one
<1>8. \A c \in Cells : \A i \in 1 .. Len(chain'[c]) :
        \/ i \in 1 .. Len(chain[c]) /\ chain'[c][i] = chain[c][i]
        \/ c = k /\ i = n + 1 /\ chain'[c][i] = tmp[b]
  BY <1>0, <1>2, <1>4, <1>5
<1>9. \A c \in Cells : Len(chain[c]) \in Nat /\ Len(chain[c]) <= Len(chain'[c])
        /\ \A i \in 1 .. Len(chain[c]) : i \in 1 .. Len(chain'[c]) /\ chain'[c][i] = chain[c][i]
  <2>1. \A c \in Cells : Len(chain[c]) \in Nat
    BY ChainFacts
  <2> SUFFICES ASSUME NEW c \in Cells
               PROVE  Len(chain[c]) <= Len(chain'[c])
                      /\ \A i \in 1 .. Len(chain[c]) : i \in 1 .. Len(chain'[c]) /\ chain'[c][i] = chain[c][i]
    BY <2>1
  <2>2. CASE c = k
    BY <1>0, <1>2, <1>5, <2>2
  <2>3. CASE c # k
    BY <1>4, <2>1, <2>3
  <2> QED
    BY <2>2, <2>3
<1>10. EntriesTaken'
  <2>1. Popping' = Popping
    BY <1>1, <1>7 DEF Popping
  <2> QED
    BY <1>1, <1>7, <2>1 DEF EntriesTaken
<1>11. FramesOwned'
  <2>1. \A c \in Cells : \A i \in 1 .. Len(chain[c]) : chain[c][i] # tmp[b]
    BY <1>1 DEF FramesOwned
  <2>2. \A c, d \in Cells : \A i \in 1 .. Len(chain'[c]), j \in 1 .. Len(chain'[d]) :
          chain'[c][i] = chain'[d][j] => c = d /\ i = j
    BY <1>8, <2>1 DEF FramesOwned
  <2>3. \A c \in Cells : \A i \in 1 .. Len(chain'[c]) : chain'[c][i] \notin heap'
    BY <1>1, <1>8 DEF FramesOwned
  <2>4. \A a \in Blocks : Holding(a)' /\ ~Hung(a)' =>
          \A c \in Cells : \A i \in 1 .. Len(chain'[c]) : chain'[c][i] # tmp'[a]
    BY <1>1, <1>7, <1>8 DEF FramesOwned
  <2> QED
    BY <1>1, <1>7, <2>2, <2>3, <2>4 DEF FramesOwned
<1>12. last[k] = IF n = 0 THEN Null ELSE chain[k][n]
  BY <1>0, <1>2 DEF Links
<1>13. \A c \in Cells : \A i \in 1 .. Len(chain[c]) : Before(c, i)' = Before(c, i)
  <2> SUFFICES ASSUME NEW c \in Cells, NEW i \in 1 .. Len(chain[c]) PROVE Before(c, i)' = Before(c, i)
    OBVIOUS
  <2>1. i # 1 => i - 1 \in 1 .. Len(chain[c])
    BY <1>9
  <2> QED
    BY <1>9, <2>1 DEF Before
<1>14. Before(k, n + 1)' = last[k]
  <2>1. CASE n = 0
    BY <1>12, <2>1 DEF Before
  <2>2. CASE n # 0
    <3>1. n \in 1 .. n /\ n + 1 # 1 /\ (n + 1) - 1 = n
      BY <1>2, <2>2
    <3> QED
      BY <1>5, <1>12, <2>2, <3>1 DEF Before
  <2> QED
    BY <2>1, <2>2
<1>15. HungInPlace'
  <2> SUFFICES ASSUME NEW a \in Blocks, Hung(a)'
               PROVE  \E i \in 1 .. Len(chain'[Cell(a)']) :
                        chain'[Cell(a)'][i] = tmp'[a] /\ old'[a] = Before(Cell(a), i)'
    BY DEF HungInPlace, Before
  <2>1. CASE a = b
    <3>1. Cell(a)' = k
      BY <1>0, <1>7, <2>1
    <3>2. n + 1 \in 1 .. Len(chain'[k])
      BY <1>2, <1>5
    <3> QED
      BY <1>1, <1>5, <1>7, <1>14, <2>1, <3>1, <3>2 DEF Before
  <2>2. CASE a # b
    <3>1. Hung(a) /\ Cell(a)' = Cell(a) /\ Cell(a) \in Cells
      BY <1>7, <2>2, CellType DEF EntriesTaken, Hung
    <3>2. PICK i \in 1 .. Len(chain[Cell(a)]) : chain[Cell(a)][i] = tmp[a] /\ old[a] = Before(Cell(a), i)
      BY <3>1 DEF HungInPlace
    <3>3. i \in 1 .. Len(chain'[Cell(a)]) /\ chain'[Cell(a)][i] = tmp[a]
      BY <1>9, <3>1, <3>2
    <3>4. Before(Cell(a), i)' = old[a]
      <4>1. PICK c \in Cells : c = Cell(a)
        BY <3>1
      <4>2. Before(c, i)' = old[a]
        BY <1>13, <3>2, <4>1
      <4> QED
        BY <3>1, <4>1, <4>2 DEF Before
    <3> QED
      BY <1>1, <1>7, <2>2, <3>1, <3>3, <3>4
  <2> QED
    BY <2>1, <2>2
<1>16. ContentOfEntry'
  <2>1. \A a \in Blocks : Hung(a)' \/ pc'[a] = "exchange" => content'[tmp'[a]] = entry'[a]
    BY <1>1, <1>7 DEF ContentOfEntry
  <2>2. \A c \in Cells : \A i \in 1 .. Len(chain'[c]) :
          content'[chain'[c][i]] # Null => \E a \in Blocks : Hung(a)' /\ tmp'[a] = chain'[c][i]
    <3> SUFFICES ASSUME NEW c \in Cells, NEW i \in 1 .. Len(chain'[c]), content'[chain'[c][i]] # Null
                 PROVE  \E a \in Blocks : Hung(a)' /\ tmp'[a] = chain'[c][i]
      OBVIOUS
    <3>1. CASE i \in 1 .. Len(chain[c]) /\ chain'[c][i] = chain[c][i]
      BY <1>1, <1>7, <3>1 DEF ContentOfEntry
    <3>2. CASE chain'[c][i] = tmp[b]
      BY <1>1, <1>7, <3>2
    <3> QED
      BY <1>8, <3>1, <3>2
  <2> QED
    BY <2>1, <2>2 DEF ContentOfEntry
<1>17. Links'
  <2>1. \A a \in Blocks : pc'[a] = "exchange" => next'[tmp'[a]] = Null
    BY <1>1, <1>7 DEF Links
  <2>2. \A c \in Cells : \A i \in 1 .. Len(chain[c]) : \A m \in {{"setPrevious"}, {"setPrevious", "setNext"}} :
          Linking(c, i, m) => Linking(c, i, m)'
    BY <1>1, <1>7, <1>9 DEF Linking
  <2>3. \A m \in {{"setPrevious"}, {"setPrevious", "setNext"}} : Linking(k, n + 1, m)'
    BY <1>1, <1>5, <1>7 DEF Linking
  <2>4. ASSUME NEW c \in Cells, NEW i \in 1 .. Len(chain'[c])
        PROVE  /\ prev'[chain'[c][i]] = Before(c, i)' \/ Linking(c, i, {"setPrevious"})'
               /\ \/ IF i = 1 THEN first'[c] = chain'[c][1] ELSE next'[chain'[c][i - 1]] = chain'[c][i]
                  \/ Linking(c, i, {"setPrevious", "setNext"})'
    <3>1. CASE c = k /\ i = n + 1
      BY <2>3, <3>1
    <3>2. CASE i \in 1 .. Len(chain[c])
      <4>1. /\ prev[chain[c][i]] = Before(c, i) \/ Linking(c, i, {"setPrevious"})
            /\ \/ IF i = 1 THEN first[c] = chain[c][1] ELSE next[chain[c][i - 1]] = chain[c][i]
               \/ Linking(c, i, {"setPrevious", "setNext"})
        BY <3>2 DEF Links
      <4>2. i # 1 => i - 1 \in 1 .. Len(chain[c])
        BY <1>9, <3>2
      <4>3. 1 \in 1 .. Len(chain[c])
        BY <3>2, <1>9
      <4> QED
        BY <1>1, <1>9, <1>13, <2>2, <3>2, <4>1, <4>2, <4>3
    <3> QED
      BY <1>8, <3>1, <3>2
  <2>5. ASSUME NEW c \in Cells
        PROVE  /\ Len(chain'[c]) = 0 => first'[c] = Null /\ last'[c] = Null
               /\ Len(chain'[c]) > 0 => /\ last'[c] = chain'[c][Len(chain'[c])]
                                        /\ next'[chain'[c][Len(chain'[c])]] = Null
    <3>1. CASE c = k
      <4>1. next[tmp[b]] = Null
        BY <1>1 DEF Links
      <4> QED
        BY <1>1, <1>2, <1>4, <1>5, <3>1, <4>1
    <3>2. CASE c # k
      BY <1>1, <1>4, <3>2 DEF Links
    <3> QED
      BY <3>1, <3>2
  <2> QED
    BY <2>1, <2>4, <2>5 DEF Links
<1>18. TriesLeft'
  BY <1>1, <1>7 DEF TriesLeft
<1> QED
  BY <1>6, <1>10, <1>11, <1>15, <1>16, <1>17, <1>18

(* The block writes its own previous pointer, which nobody else writes.     *)
LEMMA SetPreviousStep == ASSUME IInv, NEW b \in Blocks, SetPrevious(b) PROVE IInv'
<1> USE InsertAssumption DEF IInv
<1>1. /\ pc[b] = "setPrevious" /\ Holding(b) /\ Hung(b)
      /\ prev' = [prev EXCEPT ![tmp[b]] = old[b]]
      /\ pc' = [pc EXCEPT ![b] = "setNext"]
      /\ UNCHANGED <<currentSize, entry, tries, tmp, old, heap, content, next, first, last, chain>>
  BY DEF SetPrevious, Goto, block, Holding, Hung
<1>2. tmp[b] \in Frames /\ Cell(b) \in Cells
  BY <1>1, CellType DEF FramesOwned, EntriesTaken
<1>3. TypeOK'
  <2>1. old[b] \in 0 .. HeapSize
    BY DEF TypeOK
  <2> QED
    BY <1>1, <1>2, <2>1 DEF TypeOK
<1>4. /\ \A a \in Blocks : pc'[a] = IF a = b THEN "setNext" ELSE pc[a]
      /\ \A a \in Blocks : Hung(a)' = Hung(a) /\ Holding(a)' = Holding(a) /\ Cell(a)' = Cell(a)
  BY <1>1 DEF TypeOK, Holding, Hung, Cell
<1>5. EntriesTaken'
  <2>1. Popping' = Popping
    BY <1>1, <1>4 DEF Popping
  <2> QED
    BY <1>1, <1>4, <2>1 DEF EntriesTaken
<1>6. FramesOwned'
  BY <1>1, <1>4 DEF FramesOwned
<1>7. HungInPlace'
  BY <1>1, <1>4, SMTT(30) DEF HungInPlace, Before
<1>8. ContentOfEntry'
  BY <1>1, <1>4 DEF ContentOfEntry
<1>9. Links'
  <2>1. PICK k \in Cells, n \in Nat :
          n \in 1 .. Len(chain[k]) /\ k = Cell(b) /\ chain[k][n] = tmp[b] /\ old[b] = Before(k, n)
    BY <1>1, <1>2 DEF HungInPlace
  <2>2. ASSUME NEW c \in Cells, NEW i \in 1 .. Len(chain[c])
        PROVE  prev'[chain[c][i]] = Before(c, i) \/ Linking(c, i, {"setPrevious"})'
    <3>1. CASE chain[c][i] = tmp[b]
      <4>1. c = k /\ i = n
        BY <2>1, <3>1 DEF FramesOwned
      <4> QED
        BY <1>1, <1>2, <2>1, <3>1, <4>1 DEF TypeOK
    <3>2. CASE chain[c][i] # tmp[b]
      <4>1. chain[c][i] \in Frames
        BY ChainFacts
      <4>2. prev'[chain[c][i]] = prev[chain[c][i]]
        BY <1>1, <1>2, <3>2, <4>1 DEF TypeOK
      <4>3. Linking(c, i, {"setPrevious"}) => Linking(c, i, {"setPrevious"})'
        BY <1>1, <1>4, <3>2 DEF Linking
      <4> QED
        BY <4>2, <4>3 DEF Links
    <3> QED
      BY <3>1, <3>2
  <2>3. \A c \in Cells : \A i \in 1 .. Len(chain[c]) :
          Linking(c, i, {"setPrevious", "setNext"}) => Linking(c, i, {"setPrevious", "setNext"})'
    BY <1>1, <1>4 DEF Linking
  <2>4. \A c \in Cells : \A i \in 1 .. Len(chain[c]) : Before(c, i)' = Before(c, i)
    BY <1>1 DEF Before
  <2>5. \A a \in Blocks : pc'[a] = "exchange" => next'[tmp'[a]] = Null
    BY <1>1, <1>4 DEF Links
  <2> QED
    BY <1>1, <2>2, <2>3, <2>4, <2>5 DEF Links
<1>10. TriesLeft'
  BY <1>1, <1>4 DEF TriesLeft
<1> QED
  BY <1>3, <1>5, <1>6, <1>7, <1>8, <1>9, <1>10

(* The block writes the next pointer of the frame it has replaced, or the   *)
(* first pointer when there was none; it links exactly its own place.       *)
LEMMA SetNextStep == ASSUME IInv, NEW b \in Blocks, SetNext(b) PROVE IInv'
<1> USE InsertAssumption DEF IInv
<1>1. /\ pc[b] = "setNext" /\ Holding(b) /\ Hung(b)
      /\ pc' = [pc EXCEPT ![b] = "done"]
      /\ old[b] # Null => next' = [next EXCEPT ![old[b]] = tmp[b]] /\ first' = first
      /\ old[b] = Null => first' = [first EXCEPT ![Cell(b)] = tmp[b]] /\ next' = next
      /\ UNCHANGED <<currentSize, entry, tries, tmp, old, heap, content, prev, last, chain>>
  BY DEF SetNext, Goto, block, Holding, Hung
<1>2. tmp[b] \in Frames /\ Cell(b) \in Cells
  BY <1>1, CellType DEF FramesOwned, EntriesTaken
<1>3. PICK k \in Cells, n \in Nat :
        n \in 1 .. Len(chain[k]) /\ k = Cell(b) /\ chain[k][n] = tmp[b] /\ old[b] = Before(k, n)
  BY <1>1, <1>2 DEF HungInPlace
<1>4. \A c \in Cells : /\ Len(chain[c]) \in Nat
                       /\ \A i \in 1 .. Len(chain[c]) : chain[c][i] \in Frames /\ chain[c][i] # Null
  BY ChainFacts DEF Frames, Null
<1>5. /\ old[b] = Null <=> n = 1
      /\ n # 1 => n - 1 \in 1 .. Len(chain[k]) /\ old[b] = chain[k][n - 1] /\ old[b] \in Frames
  BY <1>3, <1>4 DEF Before
<1>6. TypeOK'
  <2>1. tmp[b] \in 0 .. HeapSize
    BY DEF TypeOK
  <2> QED
    BY <1>1, <1>2, <1>5, <2>1 DEF TypeOK
<1>7. /\ \A a \in Blocks : pc'[a] = IF a = b THEN "done" ELSE pc[a]
      /\ \A a \in Blocks : Hung(a)' = Hung(a) /\ Holding(a)' = Holding(a) /\ Cell(a)' = Cell(a)
  BY <1>1, SMTT(30) DEF TypeOK, Holding, Hung, Cell
<1>8. EntriesTaken'
  <2>1. Popping' = Popping
    BY <1>1, <1>7 DEF Popping
  <2> QED
    BY <1>1, <1>7, <2>1 DEF EntriesTaken
<1>9. FramesOwned'
  BY <1>1, <1>7 DEF FramesOwned
<1>10. HungInPlace'
  BY <1>1, <1>7, SMTT(30) DEF HungInPlace, Before
<1>11. ContentOfEntry'
  BY <1>1, <1>7 DEF ContentOfEntry
<1>12. /\ \A f \in Frames : f # old[b] => next'[f] = next[f]
       /\ \A c \in Cells : c # k \/ n # 1 => first'[c] = first[c]
       /\ n = 1 => first'[k] = tmp[b]
       /\ n # 1 => next'[old[b]] = tmp[b]
  BY <1>1, <1>2, <1>3, <1>5 DEF TypeOK
<1>13. Links'
  <2>1. ASSUME NEW a \in Blocks, pc'[a] = "exchange" PROVE next'[tmp'[a]] = Null
    <3>1. pc[a] = "exchange" /\ Holding(a) /\ ~Hung(a) /\ tmp[a] \in Frames
      BY <1>7, <2>1 DEF Holding, Hung, FramesOwned
    <3>2. tmp[a] # old[b]
      <4>1. CASE n = 1
        BY <1>5, <3>1, <4>1 DEF Frames, Null
      <4>2. CASE n # 1
        BY <1>5, <3>1, <4>2 DEF FramesOwned
      <4> QED
        BY <4>1, <4>2
    <3> QED
      BY <1>1, <1>12, <3>1, <3>2 DEF Links
  <2>2. ASSUME NEW c \in Cells, NEW i \in 1 .. Len(chain[c]), c # k \/ i # n
        PROVE  /\ \A m \in {{"setPrevious"}, {"setPrevious", "setNext"}} :
                    Linking(c, i, m) => Linking(c, i, m)'
               /\ IF i = 1 THEN first[c] = chain[c][1] => first'[c] = chain[c][1]
                  ELSE next'[chain[c][i - 1]] = next[chain[c][i - 1]]
    <3>1. chain[c][i] # tmp[b]
      BY <1>3, <2>2 DEF FramesOwned
    <3>2. \A m \in {{"setPrevious"}, {"setPrevious", "setNext"}} : Linking(c, i, m) => Linking(c, i, m)'
      BY <1>1, <1>7, <3>1 DEF Linking
    <3>3. CASE i = 1
      <4>1. c # k \/ n # 1
        BY <2>2, <3>3
      <4> QED
        BY <1>12, <3>2, <3>3, <4>1
    <3>4. CASE i # 1
      <4>1. i - 1 \in 1 .. Len(chain[c])
        BY <1>4, <3>4
      <4>2. chain[c][i - 1] # old[b]
        <5> SUFFICES ASSUME chain[c][i - 1] = old[b] PROVE FALSE
          OBVIOUS
        <5>1. old[b] # Null /\ n # 1
          BY <1>4, <1>5, <4>1
        <5>2. c = k /\ i - 1 = n - 1
          BY <1>5, <4>1, <5>1, SMTT(30) DEF FramesOwned
        <5> QED
          BY <2>2, <5>2, <1>4
      <4> QED
        BY <1>4, <1>12, <3>2, <3>4, <4>1, <4>2
    <3> QED
      BY <3>3, <3>4
  <2>3. ASSUME NEW c \in Cells, NEW i \in 1 .. Len(chain[c])
        PROVE  /\ prev'[chain[c][i]] = Before(c, i) \/ Linking(c, i, {"setPrevious"})'
               /\ \/ IF i = 1 THEN first'[c] = chain[c][1] ELSE next'[chain[c][i - 1]] = chain[c][i]
                  \/ Linking(c, i, {"setPrevious", "setNext"})'
    <3>1. /\ prev[chain[c][i]] = Before(c, i) \/ Linking(c, i, {"setPrevious"})
          /\ \/ IF i = 1 THEN first[c] = chain[c][1] ELSE next[chain[c][i - 1]] = chain[c][i]
             \/ Linking(c, i, {"setPrevious", "setNext"})
      BY DEF Links
    <3>2. CASE c # k \/ i # n
      BY <1>1, <2>2, <3>1, <3>2
    <3>3. CASE c = k /\ i = n
      <4>1. ~Linking(c, i, {"setPrevious"})
        BY <1>1, <1>3, <3>3 DEF Linking, Holding, FramesOwned
      <4> QED
        BY <1>1, <1>3, <1>5, <1>12, <3>1, <3>3, <4>1
    <3> QED
      BY <3>2, <3>3
  <2>4. ASSUME NEW c \in Cells
        PROVE  /\ Len(chain[c]) = 0 => first'[c] = Null /\ last'[c] = Null
               /\ Len(chain[c]) > 0 => /\ last'[c] = chain[c][Len(chain[c])]
                                       /\ next'[chain[c][Len(chain[c])]] = Null
    <3>1. ASSUME Len(chain[c]) = 0 PROVE first'[c] = Null /\ last'[c] = Null
      BY <1>1, <1>3, <1>4, <1>12, <3>1 DEF Links
    <3>2. ASSUME Len(chain[c]) > 0
          PROVE  last'[c] = chain[c][Len(chain[c])] /\ next'[chain[c][Len(chain[c])]] = Null
      <4>1. Len(chain[c]) \in 1 .. Len(chain[c])
        BY <1>4, <3>2
      <4>2. chain[c][Len(chain[c])] # old[b]
        <5> SUFFICES ASSUME chain[c][Len(chain[c])] = old[b] PROVE FALSE
          OBVIOUS
        <5>1. old[b] # Null /\ n # 1
          BY <1>4, <1>5, <4>1
        <5>2. c = k /\ Len(chain[c]) = n - 1
          BY <1>5, <4>1, <5>1 DEF FramesOwned
        <5> QED
          BY <1>3, <1>4, <5>2
      <4> QED
        BY <1>1, <1>4, <1>12, <3>2, <4>1, <4>2 DEF Links
    <3> QED
      BY <3>1, <3>2
  <2>5. \A c \in Cells : \A i \in 1 .. Len(chain[c]) : Before(c, i)' = Before(c, i)
    BY <1>1 DEF Before
  <2> QED
    BY <1>1, <2>1, <2>3, <2>4, <2>5 DEF Links
<1>14. TriesLeft'
  BY <1>1, <1>7 DEF TriesLeft
<1> QED
  BY <1>6, <1>8, <1>9, <1>10, <1>11, <1>13, <1>14

(* A step that changes nothing.                                             *)
LEMMA StutterStep == ASSUME IInv, UNCHANGED vars PROVE IInv'
BY DEF vars, IInv, TypeOK, TriesLeft, EntriesTaken, Popping, FramesOwned, Holding, Hung, HungInPlace, Before, Cell,
       ContentOfEntry, Links, Linking

(* IInv holds in every state of every behaviour.                            *)
THEOREM Inductive == Spec => []IInv
<1>1. IInv /\ [Next]_vars => IInv'
  BY PopEntryStep, MallocStep, CopyParticlesStep, ExchangeLastStep, SetPreviousStep, SetNextStep, StutterStep
     DEF Next, Terminated
<1> QED
  BY <1>1, InitIInv, PTL DEF Spec

(* Type correctness, of every instance.                                     *)
THEOREM TypeCorrect == Spec => []TypeOK
BY Inductive, PTL DEF IInv

(* KernelInsertParticles never leaves a supercell with a broken list: when  *)
(* no block is between its exchange of the last pointer and its last write, *)
(* the list is doubly linked through all frames, for every number of blocks *)
(* in every order.                                                          *)
THEOREM ListsLinked == Spec => []ListLinked
<1>1. IInv => ListLinked
  <2> SUFFICES ASSUME IInv, NEW c \in Cells,
                      \A b \in Blocks : pc[b] \in {"setPrevious", "setNext"} => Cell(b) # c
               PROVE  IF Len(chain[c]) = 0
                      THEN first[c] = Null /\ last[c] = Null
                      ELSE /\ first[c] = chain[c][1]
                           /\ last[c] = chain[c][Len(chain[c])]
                           /\ \A i \in 1 .. Len(chain[c]) :
                                prev[chain[c][i]] = IF i = 1 THEN Null ELSE chain[c][i - 1]
                           /\ \A i \in 1 .. Len(chain[c]) :
                                next[chain[c][i]] = IF i = Len(chain[c]) THEN Null ELSE chain[c][i + 1]
    BY DEF ListLinked
  <2>1. Len(chain[c]) \in Nat
    BY ChainFacts DEF IInv
  <2>2. \A i \in 1 .. Len(chain[c]) : ~Linking(c, i, {"setPrevious", "setNext"})
                                     /\ ~Linking(c, i, {"setPrevious"})
    <3> SUFFICES ASSUME NEW i \in 1 .. Len(chain[c]), NEW b \in Blocks,
                        pc[b] \in {"setPrevious", "setNext"}, tmp[b] = chain[c][i]
                 PROVE  FALSE
      BY DEF Linking
    <3>1. Hung(b) /\ Cell(b) \in Cells
      BY CellType DEF Hung, IInv, EntriesTaken
    <3>2. PICK j \in 1 .. Len(chain[Cell(b)]) : chain[Cell(b)][j] = tmp[b]
      BY <3>1 DEF IInv, HungInPlace
    <3>3. Cell(b) = c
      BY <3>1, <3>2 DEF IInv, FramesOwned
    <3> QED
      BY <3>3
  <2>3. CASE Len(chain[c]) = 0
    BY <2>3 DEF IInv, Links
  <2>4. CASE Len(chain[c]) # 0
    <3>1. last[c] = chain[c][Len(chain[c])] /\ next[chain[c][Len(chain[c])]] = Null
      BY <2>1, <2>4 DEF IInv, Links
    <3>2. \A i \in 1 .. Len(chain[c]) : prev[chain[c][i]] = IF i = 1 THEN Null ELSE chain[c][i - 1]
      BY <2>2 DEF IInv, Links, Before
    <3>3. \A i \in 1 .. Len(chain[c]) :
            IF i = 1 THEN first[c] = chain[c][1] ELSE next[chain[c][i - 1]] = chain[c][i]
      BY <2>2 DEF IInv, Links
    <3>4. first[c] = chain[c][1]
      <4>1. 1 \in 1 .. Len(chain[c])
        BY <2>1, <2>4
      <4> QED
        BY <3>3, <4>1
    <3>5. ASSUME NEW i \in 1 .. Len(chain[c])
          PROVE  next[chain[c][i]] = IF i = Len(chain[c]) THEN Null ELSE chain[c][i + 1]
      <4>1. CASE i = Len(chain[c])
        BY <3>1, <4>1
      <4>2. CASE i # Len(chain[c])
        <5>1. i + 1 \in 1 .. Len(chain[c]) /\ i + 1 # 1 /\ (i + 1) - 1 = i
          BY <2>1, <4>2
        <5> QED
          BY <3>3, <4>2, <5>1
      <4> QED
        BY <4>1, <4>2
    <3> QED
      BY <2>4, <3>1, <3>2, <3>4, <3>5
  <2> QED
    BY <2>3, <2>4
<1> QED
  BY <1>1, Inductive, PTL

(* A list has at most as many frames as the heap had.                       *)
LEMMA ChainBound ==
  ASSUME IInv, NEW c \in Cells
  PROVE  Len(chain[c]) <= HeapSize
<1>1. Len(chain[c]) \in Nat /\ chain[c] \in [1 .. Len(chain[c]) -> Frames]
  BY LenProperties DEF IInv, TypeOK
<1>2. chain[c] \in Injection(1 .. Len(chain[c]), Frames)
  BY <1>1 DEF Injection, IsInjective, IInv, FramesOwned
<1>3. IsFiniteSet(Frames) /\ Cardinality(Frames) = HeapSize
  BY FS_Interval, InsertAssumption DEF Frames
<1>4. Cardinality(1 .. Len(chain[c])) = Len(chain[c])
  BY <1>1, FS_Interval
<1>5. Cardinality(1 .. Len(chain[c])) <= Cardinality(Frames)
  BY <1>2, <1>3, FS_Injection
<1> QED
  BY <1>3, <1>4, <1>5

(* The blocks insert every received entry exactly once into the list of its *)
(* supercell, whatever the order in which they pop, allocate and append.    *)
THEOREM EntriesInsertedOnce == Spec => []InsertedOnce
<1>1. IInv => InsertedOnce
  <2> SUFFICES ASSUME IInv, NEW e \in Entries
               PROVE  LET places == {x \in Cells \X Frames :
                            x[2] \in DOMAIN chain[x[1]] /\ content[chain[x[1]][x[2]]] = e}
                      IN /\ Cardinality(places) <= 1
                         /\ \A x \in places : x[1] = CellOf[e]
                         /\ (\A b \in Blocks : pc[b] = "done") => places # {}
    BY DEF InsertedOnce
  <2> DEFINE places == {x \in Cells \X Frames :
                          x[2] \in DOMAIN chain[x[1]] /\ content[chain[x[1]][x[2]]] = e}
  <2>1. e # Null
    BY DEF Entries, Null
  \* where the particles of e are there is a block that has popped e
  <2>2. \A c \in Cells : \A i \in 1 .. Len(chain[c]) : content[chain[c][i]] = e =>
          \E b \in Blocks : Hung(b) /\ tmp[b] = chain[c][i] /\ entry[b] = e
    BY <2>1 DEF IInv, ContentOfEntry
  <2>3. \A x \in places : /\ x[1] \in Cells /\ x[2] \in 1 .. Len(chain[x[1]])
                          /\ content[chain[x[1]][x[2]]] = e
                          /\ x = <<x[1], x[2]>>
    BY ChainFacts DEF IInv
  <2>4. ASSUME NEW b \in Blocks, Hung(b), entry[b] = e
        PROVE  \E i \in 1 .. Len(chain[CellOf[e]]) : chain[CellOf[e]][i] = tmp[b] /\ content[tmp[b]] = e
    BY <2>4 DEF IInv, HungInPlace, ContentOfEntry, Cell
  <2>5. CellOf[e] \in Cells
    BY InsertAssumption DEF Entries
  <2> HIDE DEF places
  <2>6. \A x \in places : x[1] = CellOf[e]
    <3> SUFFICES ASSUME NEW x \in places PROVE x[1] = CellOf[e]
      OBVIOUS
    <3>1. PICK b \in Blocks : Hung(b) /\ tmp[b] = chain[x[1]][x[2]] /\ entry[b] = e
      BY <2>2, <2>3
    <3>2. PICK i \in 1 .. Len(chain[CellOf[e]]) : chain[CellOf[e]][i] = tmp[b]
      BY <2>4, <3>1
    <3> QED
      BY <2>3, <2>5, <3>1, <3>2 DEF IInv, FramesOwned
  <2>7. \A x, y \in places : x = y
    <3> SUFFICES ASSUME NEW x \in places, NEW y \in places PROVE x = y
      OBVIOUS
    <3>1. PICK a \in Blocks : Hung(a) /\ tmp[a] = chain[x[1]][x[2]] /\ entry[a] = e
      BY <2>2, <2>3
    <3>2. PICK b \in Blocks : Hung(b) /\ tmp[b] = chain[y[1]][y[2]] /\ entry[b] = e
      BY <2>2, <2>3
    <3>3. a = b
      BY <2>1, <3>1, <3>2 DEF IInv, EntriesTaken
    <3>4. x[1] = y[1] /\ x[2] = y[2]
      BY <2>3, <3>1, <3>2, <3>3 DEF IInv, FramesOwned
    <3> QED
      BY <2>3, <3>4
  <2>8. Cardinality(places) <= 1
    <3>1. CASE places = {}
      BY <3>1, FS_EmptySet
    <3>2. CASE places # {}
      <4>1. PICK x : places = {x}
        BY <2>7, <3>2
      <4> QED
        BY <4>1, FS_Singleton
    <3> QED
      BY <3>1, <3>2
  <2>9. ASSUME \A b \in Blocks : pc[b] = "done" PROVE places # {}
    <3>1. Popping = {}
      BY <2>9 DEF Popping
    <3>2. currentSize = 0
      BY <3>1, FS_EmptySet DEF IInv, EntriesTaken
    <3>3. PICK b \in Blocks : entry[b] = e
      BY <3>2 DEF IInv, EntriesTaken, Entries
    <3>4. PICK i \in 1 .. Len(chain[CellOf[e]]) :
            chain[CellOf[e]][i] = tmp[b] /\ content[tmp[b]] = e
      BY <2>4, <2>9, <3>3 DEF Hung
    <3>5. i \in Frames /\ i \in DOMAIN chain[CellOf[e]]
      <4>1. Len(chain[CellOf[e]]) <= HeapSize /\ Len(chain[CellOf[e]]) \in Nat
        BY <2>5, ChainBound, ChainFacts DEF IInv
      <4> QED
        BY <2>5, <4>1, ChainFacts, InsertAssumption DEF IInv, Frames
    <3>6. <<CellOf[e], i>> \in places
      BY <2>5, <3>4, <3>5 DEF places
    <3> QED
      BY <3>6
  <2> QED
    BY <2>6, <2>8, <2>9 DEF places
<1> QED
  BY <1>1, Inductive, PTL
=============================================================================
