-------------------------- MODULE SimulationProofs --------------------------
(***************************************************************************)
(* Proofs about Simulation, for any number of ranks, steps and crashes,    *)
(* any timing of the slides and the checkpoints, with and without          *)
(* background fields, and for restarts from any line of the master file.   *)
(*                                                                         *)
(* What a restart brings back is settled by what a file holds: a checkpoint *)
(* of step s has the slide counter and the background fields that a rank   *)
(* has after movingWindowCheck(s).  A restart calls it again.  The traces  *)
(* this leaves depend on the step the rank has restarted from alone, and,  *)
(* in the data, on the steps of all restarts they have been through.       *)
(***************************************************************************)
EXTENDS Simulation, FiniteSetTheorems, TLAPS


(* Quotient and remainder are determined by their bounds.                   *)
LEMMA DivUnique ==
  ASSUME NEW q \in Int, NEW r \in Int, NEW b \in Nat \ {0}, 0 <= r, r < b
  PROVE  (q * b + r) \div b = q /\ (q * b + r) % b = r
OBVIOUS

(* Division with remainder.                                                 *)
LEMMA DivMod ==
  ASSUME NEW a \in Int, NEW b \in Nat \ {0}
  PROVE  /\ a \div b \in Int
         /\ (a \div b) * b <= a
         /\ a < (a \div b) * b + b
         /\ a % b \in 0 .. b - 1
         /\ a = (a \div b) * b + (a % b)
<1>1. a \div b \in Int /\ (a \div b) * b <= a /\ a < (a \div b) * b + b
  OBVIOUS
<1>2. a % b \in 0 .. b - 1
  OBVIOUS
<1>3. PICK q \in Int, r \in Int : q = a \div b /\ r = a - q * b
  BY <1>1
<1>4. 0 <= r /\ r < b /\ a = q * b + r
  BY <1>1, <1>3
<1>5. a % b = r
  BY <1>4, DivUnique
<1> QED
  BY <1>1, <1>2, <1>3, <1>4, <1>5
CheckpointStep(s) == CheckpointPeriod # 0 /\ s % CheckpointPeriod = 0

BgSteps == 0 .. RunSteps + 1

Places == {"down", "init", "check", "recheck", "dump", "barrier", "create", "write", "written",
           "master", "run", "done"}

AtCheckpoint == {"barrier", "create", "write", "written", "master"}

SettledPlaces == {"dump", "run", "done"} \cup AtCheckpoint

WindowType == [counter : Nat, last : Nat, yoffset : Int]

RankData == [slab : Int, time : Int, bg : [BgSteps -> Int], past : [Steps -> Nat], again : Nat]

FileType == [slides : Steps, at : [Slabs -> RankData]]

Types ==
  /\ pc \in [Ranks -> Places]
  /\ cur \in [Ranks -> Steps]
  /\ window \in [Ranks -> WindowType]
  /\ data \in [Ranks -> RankData]
  /\ files \in [Steps -> FileType]
  /\ master \in Seq(Steps)
  /\ crashes \in Nat
  /\ from \in [Ranks -> Steps \cup {Fresh}]
  /\ rewound \subseteq Steps

(* Where a rank that has restarted from g can be in step s.                 *)
PlaceAt(p, s, g) ==
  /\ p = "run" => s < RunSteps
  /\ p \in AtCheckpoint \cup {"recheck"} => CheckpointStep(s)
  /\ p \in {"down", "init"} => g = Fresh
  /\ p = "recheck" => g = s
  /\ p \in {"check", "dump"} \cup AtCheckpoint => g < s
  /\ p \in {"run", "done"} => g <= s

(* The lines of the master file and the restart step of the job.            *)
Lines ==
  /\ \A i \in 1 .. Len(master) : CheckpointStep(master[i])
  /\ launch \in {Fresh, Last} \/ \E i \in 1 .. Len(master) : launch = master[i]
  /\ launch = Last => master # <<>>

Base == Types /\ Lines /\ \A r \in Ranks : PlaceAt(pc[r], cur[r], from[r])

-----------------------------------------------------------------------------
(* Slides in a step.                                                        *)
SlideOf(s) == IF SlideInCurrentStep(s) THEN 1 ELSE 0

(* What is counted early in step s after a restart from g.                  *)
Ahead(s, g) == IF Background /\ s = g /\ SlideInCurrentStep(s + 1) THEN 1 ELSE 0

(* The window of a rank that has counted n slides and made m.               *)
Slid(w, n, m) == w.counter = n /\ w.yoffset = -(m % Devices)

(* The window is settled for step s, and what is counted has been noted.    *)
Noted(s, w, g) ==
  /\ Ahead(s, g) = 1 => w.last = s + 1
  /\ Ahead(s, g) = 0 => w.last <= s /\ (SlideInCurrentStep(s) => w.last = s)

WindowAt(p, s, w, g) ==
  /\ p = "check" =>
       /\ Slid(w, SlidesUpTo(s - 1) + Ahead(s - 1, g), SlidesUpTo(s - 1) + SlideOf(g))
       /\ Ahead(s - 1, g) = 1 => w.last = s
       /\ Ahead(s - 1, g) = 0 => w.last <= s /\ (w.last = s => ~SlideInCurrentStep(s))
  /\ p = "recheck" => Slid(w, SlidesUpTo(s) + Ahead(s, g), SlidesUpTo(s)) /\ Noted(s, w, g)
  /\ p \in SettledPlaces =>
       Slid(w, SlidesUpTo(s) + Ahead(s, g), SlidesUpTo(s) + SlideOf(g)) /\ Noted(s, w, g)

(* The data of a rank: a restart has counted its slide step as one they     *)
(* have been through again before it slides.                                *)
DataAt(p, s, w, d, r, g) ==
  /\ p \notin {"down", "init"} => d.slab \in Slabs /\ d.time = s
  /\ p = "check" => d.slab = Slab(r, w) - Ahead(s - 1, g) + d.again
  /\ p = "recheck" => d.slab = Slab(r, w) - Ahead(s, g) + d.again - SlideOf(g)
  /\ p \in SettledPlaces => d.slab = Slab(r, w) - Ahead(s, g) + d.again

(* What there is in the file of step s.                                     *)
FileAt(f, s) ==
  \A k \in Slabs : f.at[k] # Missing =>
    /\ f.slides = SlidesUpTo(s)
    /\ f.at[k].slab \in Slabs /\ f.at[k].slab = k + f.at[k].again /\ f.at[k].time = s

RankInv(r) ==
  /\ WindowAt(pc[r], cur[r], window[r], from[r])
  /\ DataAt(pc[r], cur[r], window[r], data[r], r, from[r])

WindowInv ==
  /\ Base
  /\ \A r \in Ranks : RankInv(r)
  /\ \A s \in Steps : FileAt(files[s], s)

-----------------------------------------------------------------------------
(* Where the ranks have left to start from: the step before the first if    *)
(* they start fresh.                                                        *)
Start == IF launch = Fresh THEN -1 ELSE RestartStep

(* Rank r has not passed the barrier of checkpoint s yet.                   *)
Behind(r, s) ==
  IF pc[r] = "down" THEN FALSE
  ELSE IF pc[r] = "init" THEN s > Start
  ELSE cur[r] < s \/ (cur[r] = s /\ pc[r] \in {"check", "dump", "barrier"})

(* No rank has passed a barrier that another one has still before it.       *)
Together ==
  \A q, r \in Ranks, s \in Steps : CheckpointStep(s) /\ Behind(q, s) => Behind(r, s)

(* The ranks of a job have restarted from the same step, and the ranks that *)
(* have not been initialised yet will.                                      *)
SameStart ==
  \A r \in Ranks : pc[r] \notin {"down", "init"} =>
    \A q \in Ranks :
      /\ pc[q] \notin {"down", "init"} => from[q] = from[r]
      /\ pc[q] = "init" => from[r] = Start

InFile == {"create", "write", "written", "master"}

(* The ranks go through a checkpoint together.                              *)
Phases ==
  \A q, r \in Ranks :
    /\ pc[q] = "down" => pc[r] = "down"
    /\ pc[q] = "create" => pc[r] = "create"
    /\ pc[q] \in {"write", "written"} => pc[r] \in {"write", "written"}
    /\ pc[q] \in {"create", "write", "written"} => cur[q] = cur[r]
    /\ pc[q] \in InFile => pc[r] # "init"
    /\ pc[q] = "master" => q = 0

(* What the master file names has been passed, and is not written again,    *)
(* but where a --restart-step has gone back.                                *)
Unwritten ==
  \A r \in Ranks, i \in 1 .. Len(master) : master[i] \notin rewound =>
    /\ ~Behind(r, master[i])
    /\ pc[r] \in InFile => master[i] # cur[r]

(* The last line of the master file is the latest checkpoint otherwise.     *)
Increasing ==
  \A i \in 1 .. Len(master) : master[i] \notin rewound => master[i] <= master[Len(master)]

Full(f, s) == \A k \in SlidesUpTo(s) .. SlidesUpTo(s) + Devices - 1 : f.at[k] # Missing

FilesFull ==
  /\ \A i \in 1 .. Len(master) : master[i] \notin rewound => Full(files[master[i]], master[i])
  /\ pc[0] = "master" => Full(files[cur[0]], cur[0])
  /\ \A r \in Ranks : pc[r] = "written" => files[cur[r]].at[Slab(r, window[r])] # Missing

FileInv == WindowInv /\ Together /\ SameStart /\ Phases /\ Unwritten /\ Increasing /\ FilesFull

-----------------------------------------------------------------------------
(* The background fields in data: those of its past restarts, and that of   *)
(* step s n times.                                                          *)
BgIs(d, s, n) ==
  \A k \in BgSteps : d.bg[k] = (IF k = s THEN n ELSE 0) + Residue(d.past, k)

BgRank(p, s, d) ==
  IF Background
  THEN /\ p \in {"check", "recheck"} => BgIs(d, s, 0)
       /\ p \in SettledPlaces => BgIs(d, s, 1)
  ELSE d.bg = NoBackground

BgFiles(f, s) ==
  \A k \in Slabs : f.at[k] # Missing =>
    IF Background THEN BgIs(f.at[k], s, 1) ELSE f.at[k].bg = NoBackground

BackgroundInv ==
  /\ WindowInv
  /\ \A r \in Ranks : BgRank(pc[r], cur[r], data[r])
  /\ \A s \in Steps : BgFiles(files[s], s)

-----------------------------------------------------------------------------
(* The constants.                                                           *)
LEMMA Consts ==
  /\ Devices \in Nat /\ Devices >= 1 /\ RunSteps \in Nat
  /\ 0 \in Ranks /\ 0 \in Steps
  /\ Steps \subseteq Nat /\ Ranks \subseteq Nat
BY WindowAssumption, SimulationAssumption DEF Ranks, Steps

(* The window does not slide before the first step.                         *)
LEMMA NoSlideAtStart == ~SlideInCurrentStep(0)
<1>1. StepsPerGPU * Devices = StepsPerGPU * (Devices - 1) + StepsPerGPU
  BY WindowAssumption
<1>2. StepsPerGPU * (Devices - 1) \in Int
  BY WindowAssumption
<1>3. FirstSlideStep >= 1 /\ FirstSlideStep \in Int
  BY <1>1, <1>2, WindowAssumption DEF FirstSlideStep
<1> QED
  BY <1>3 DEF SlideInCurrentStep

(* The number of slides up to a step.                                       *)
LEMMA SlidesType ==
  ASSUME NEW s \in Int, s >= -1
  PROVE  SlidesUpTo(s) \in Nat /\ IsFiniteSet({k \in 0 .. s : SlideInCurrentStep(k)})
         /\ (s >= 0 => SlidesUpTo(s) <= s) /\ (s = -1 => SlidesUpTo(s) = 0)
<1> DEFINE S == {k \in 0 .. s : SlideInCurrentStep(k)}
<1>1. S \in SUBSET (1 .. s)
  <2> SUFFICES ASSUME NEW k \in S PROVE k \in 1 .. s
    OBVIOUS
  <2>1. k # 0 /\ k \in 0 .. s
    BY NoSlideAtStart
  <2> QED
    BY <2>1
<1>2. IsFiniteSet(1 .. s) /\ Cardinality(1 .. s) = IF 1 > s THEN 0 ELSE s - 1 + 1
  BY FS_Interval
<1>3. IsFiniteSet(S) /\ Cardinality(S) <= Cardinality(1 .. s)
  BY <1>1, <1>2, FS_Subset
<1>4. Cardinality(S) \in Nat
  BY <1>3, FS_CardinalityType
<1> HIDE DEF S
<1>5. /\ s >= 0 => Cardinality(S) <= s
      /\ s = -1 => Cardinality(S) = 0
  BY <1>2, <1>3, <1>4
<1> QED
  BY <1>3, <1>4, <1>5 DEF SlidesUpTo, S

(* A step adds one slide, if it is one.                                     *)
LEMMA SlidesNext ==
  ASSUME NEW s \in Nat
  PROVE  SlidesUpTo(s) = SlidesUpTo(s - 1) + IF SlideInCurrentStep(s) THEN 1 ELSE 0
<1> DEFINE S == {k \in 0 .. s - 1 : SlideInCurrentStep(k)}
           T == {k \in 0 .. s : SlideInCurrentStep(k)}
<1>1. IsFiniteSet(S) /\ Cardinality(S) \in Nat
  BY SlidesType, FS_CardinalityType
<1>2. CASE SlideInCurrentStep(s)
  <2>1. T = S \cup {s} /\ s \notin S
    BY <1>2
  <2>2. Cardinality(S \cup {s}) = IF s \in S THEN Cardinality(S) ELSE Cardinality(S) + 1
    BY <1>1, FS_AddElement
  <2>3. Cardinality(T) = Cardinality(S) + 1
    BY <2>1, <2>2, Zenon
  <2> QED
    BY <1>2, <2>3 DEF SlidesUpTo
<1>3. CASE ~SlideInCurrentStep(s)
  <2>1. T = S
    BY <1>3
  <2> QED
    BY <1>1, <1>3, <2>1 DEF SlidesUpTo
<1> QED
  BY <1>2, <1>3

-----------------------------------------------------------------------------

(* The window does not slide in two steps in a row, and a rank that has not *)
(* restarted has not done so from a slide step.                             *)
LEMMA SlidesApart ==
  /\ \A s \in Nat : SlideInCurrentStep(s) => ~SlideInCurrentStep(s + 1)
  /\ ~SlideInCurrentStep(Fresh)
<1>1. ASSUME NEW s \in Nat, SlideInCurrentStep(s), SlideInCurrentStep(s + 1)
      PROVE  FALSE
  <2>1. PICK q \in Int : s + StepsInFuture = q * StepsPerGPU
    <3>1. (s + StepsInFuture) % StepsPerGPU = 0 /\ s + StepsInFuture \in Int
      BY <1>1, WindowAssumption DEF SlideInCurrentStep
    <3>2. StepsPerGPU \in Nat \ {0}
      BY WindowAssumption
    <3>3. PICK a \in Int : a = s + StepsInFuture
      BY <3>1
    <3>4. a % StepsPerGPU = 0
      BY <3>1, <3>3
    <3>5. a \div StepsPerGPU \in Int /\ a = (a \div StepsPerGPU) * StepsPerGPU + (a % StepsPerGPU)
      BY <3>2, DivMod
    <3>6. PICK q \in Int : q = a \div StepsPerGPU
      BY <3>5
    <3>7. q * StepsPerGPU \in Int
      BY <3>2
    <3> QED
      BY <3>3, <3>4, <3>5, <3>6, <3>7
  <2>2. (q * StepsPerGPU + 1) % StepsPerGPU = 1
    BY WindowAssumption, DivUnique
  <2>3. (s + 1) + StepsInFuture = q * StepsPerGPU + 1
    BY <2>1, WindowAssumption
  <2>4. ((s + 1) + StepsInFuture) % StepsPerGPU = 0
    BY <1>1 DEF SlideInCurrentStep
  <2> QED
    BY <2>2, <2>3, <2>4
<1>2. ~SlideInCurrentStep(Fresh)
  <2>1. StepsPerGPU * Devices = StepsPerGPU * (Devices - 1) + StepsPerGPU
    BY WindowAssumption
  <2>2. StepsPerGPU * (Devices - 1) \in Int
    BY WindowAssumption
  <2>3. FirstSlideStep >= 1 /\ FirstSlideStep \in Int
    BY <2>1, <2>2, WindowAssumption DEF FirstSlideStep
  <2> QED
    BY <2>3 DEF SlideInCurrentStep, Fresh
<1> QED
  BY <1>1, <1>2

(* The slides of a step and those counted early.                            *)
LEMMA OneOrNone ==
  ASSUME NEW s, NEW g
  PROVE  /\ SlideOf(s) \in {0, 1} /\ (SlideOf(s) = 1 <=> SlideInCurrentStep(s))
         /\ Ahead(s, g) \in {0, 1}
         /\ Ahead(s, g) = 1 <=> Background /\ s = g /\ SlideInCurrentStep(s + 1)
BY DEF SlideOf, Ahead

(* Remainders of small integers.                                            *)
LEMMA ModSmall ==
  ASSUME NEW x \in -(Devices - 1) .. Devices - 1
  PROVE  x % Devices = IF x >= 0 THEN x ELSE x + Devices
<1>1. Devices \in Nat \ {0}
  BY WindowAssumption
<1>2. CASE x >= 0
  <2>1. x \in Int /\ 0 <= x /\ x < Devices
    BY <1>1, <1>2
  <2>2. (0 * Devices + x) % Devices = x
    BY <1>1, <2>1, DivUnique
  <2>3. 0 * Devices + x = x
    BY <1>1, <2>1
  <2> QED
    BY <1>2, <2>2, <2>3
<1>3. CASE x < 0
  <2>1. x + Devices \in Int /\ 0 <= x + Devices /\ x + Devices < Devices
    BY <1>1, <1>3
  <2>2. ((-1) * Devices + (x + Devices)) % Devices = x + Devices
    BY <1>1, <2>1, DivUnique
  <2>3. (-1) * Devices + (x + Devices) = x
    BY <1>1
  <2> QED
    BY <1>3, <2>2, <2>3
<1> QED
  BY <1>1, <1>2, <1>3

(* The remainder of the number of slides, and that after one more.          *)
LEMMA SlidesMod ==
  ASSUME NEW n \in Nat
  PROVE  /\ n % Devices \in 0 .. Devices - 1
         /\ (n + 1) % Devices = IF n % Devices = Devices - 1 THEN 0 ELSE (n % Devices) + 1
<1>1. Devices \in Nat \ {0}
  BY WindowAssumption
<1> DEFINE q == n \div Devices
           m == n % Devices
<1>2. q \in Int /\ m \in 0 .. Devices - 1 /\ n = q * Devices + m
  BY <1>1, DivMod
<1> HIDE DEF q, m
<1>3. CASE m = Devices - 1
  <2>1. ((q + 1) * Devices + 0) % Devices = 0
    BY <1>1, <1>2, DivUnique
  <2>2. (q + 1) * Devices + 0 = n + 1
    BY <1>1, <1>2, <1>3
  <2> QED
    BY <1>2, <1>3, <2>1, <2>2 DEF m
<1>4. CASE m # Devices - 1
  <2>1. m + 1 \in Int /\ 0 <= m + 1 /\ m + 1 < Devices
    BY <1>1, <1>2, <1>4
  <2>2. (q * Devices + (m + 1)) % Devices = m + 1
    BY <1>1, <1>2, <2>1, DivUnique
  <2>3. q * Devices + (m + 1) = n + 1
    BY <1>1, <1>2
  <2> QED
    BY <1>2, <1>4, <2>2, <2>3 DEF m
<1> QED
  BY <1>3, <1>4

(* Where a rank is after n slides.                                          *)
Place(r, n) ==
  LET m == n % Devices IN IF r >= m THEN r - m ELSE (r - m) + Devices

(* A place is one of the positions.                                         *)
LEMMA PlaceType ==
  ASSUME NEW r \in Ranks, NEW n \in Nat
  PROVE  Place(r, n) \in 0 .. Devices - 1
<1>1. n % Devices \in 0 .. Devices - 1
  BY SlidesMod
<1> QED
  BY <1>1, Consts DEF Place, Ranks

(* The position of a rank that has slid n times.                            *)
LEMMA PositionAfter ==
  ASSUME NEW r \in Ranks, NEW c \in Nat, NEW n \in Nat, NEW w \in WindowType, Slid(w, c, n)
  PROVE  /\ Position(r, w) = Place(r, n)
         /\ Slab(r, w) = Place(r, n) + c
         /\ Place(r, n) = (r - n) % Devices
<1> DEFINE q == n \div Devices
           m == n % Devices
<1>1. Devices \in Nat \ {0}
  BY WindowAssumption
<1>2. q \in Int /\ m \in 0 .. Devices - 1 /\ n = q * Devices + m
  BY <1>1, DivMod
<1>3. r \in 0 .. Devices - 1
  BY DEF Ranks
<1> HIDE DEF q, m
<1>4. r + (-m) \in -(Devices - 1) .. Devices - 1 /\ r + (-m) = r - m
  BY <1>1, <1>2, <1>3
<1>5. (r + (-m)) % Devices = IF r + (-m) >= 0 THEN r + (-m) ELSE r + (-m) + Devices
  BY <1>4, ModSmall
<1>6. Place(r, n) = IF r >= m THEN r - m ELSE r - m + Devices
  BY DEF Place, m
<1>7. (r + (-m)) % Devices = Place(r, n)
  BY <1>1, <1>2, <1>3, <1>5, <1>6
<1>8. Position(r, w) = Place(r, n)
  <2>1. w.yoffset = -m
    BY DEF Slid, m
  <2> QED
    BY <1>7, <2>1 DEF Position
<1>9. Place(r, n) = (r - n) % Devices
  <2>1. PICK p \in 0 .. Devices - 1, j \in {0, 1} : p = Place(r, n) /\ p = r - m + j * Devices
    <3>1. Place(r, n) \in 0 .. Devices - 1
      BY PlaceType
    <3>2. Place(r, n) = r - m + 0 * Devices \/ Place(r, n) = r - m + 1 * Devices
      BY <1>1, <1>2, <1>3, <1>6
    <3> QED
      BY <3>1, <3>2
  <2>2. (((-q) - j) * Devices + p) % Devices = p
    <3>1. (-q) - j \in Int /\ p \in Int /\ 0 <= p /\ p < Devices
      BY <1>1, <1>2, <2>1
    <3> QED
      BY <1>1, <3>1, DivUnique
  <2>3. ((-q) - j) * Devices + p = r - n
    <3>1. ((-q) - j) * Devices = (-(q * Devices)) - j * Devices
      BY <1>1, <1>2
    <3> QED
      BY <1>1, <1>2, <1>3, <2>1, <3>1
  <2> QED
    BY <2>1, <2>2, <2>3
<1>10. Slab(r, w) = Place(r, n) + c
  BY <1>8 DEF Slab, Slid
<1> QED
  BY <1>8, <1>9, <1>10

(* One more slide moves a rank up, and the topmost one to the bottom.       *)
LEMMA PlaceNext ==
  ASSUME NEW r \in Ranks, NEW n \in Nat
  PROVE  Place(r, n + 1) = IF Place(r, n) = 0 THEN Devices - 1 ELSE Place(r, n) - 1
<1>1. /\ n % Devices \in 0 .. Devices - 1
      /\ (n + 1) % Devices = IF n % Devices = Devices - 1 THEN 0 ELSE (n % Devices) + 1
  BY SlidesMod
<1>2. r \in 0 .. Devices - 1 /\ Devices \in Nat
  BY Consts DEF Ranks
<1>3. PICK m, k : m \in 0 .. Devices - 1 /\ m = n % Devices /\ k = (n + 1) % Devices
  BY <1>1
<1>4. k = IF m = Devices - 1 THEN 0 ELSE m + 1
  BY <1>1, <1>3
<1>5. /\ Place(r, n) = IF r >= m THEN r - m ELSE r - m + Devices
      /\ Place(r, n + 1) = IF r >= k THEN r - k ELSE r - k + Devices
  BY <1>3 DEF Place
<1> QED
  BY <1>2, <1>3, <1>4, <1>5

(* Every place is that of a rank.                                           *)
LEMMA PlaceTaken ==
  ASSUME NEW p \in 0 .. Devices - 1, NEW n \in Nat
  PROVE  \E r \in Ranks : Place(r, n) = p
<1>1. n % Devices \in 0 .. Devices - 1 /\ Devices \in Nat
  BY SlidesMod, Consts
<1>2. PICK m \in 0 .. Devices - 1 : m = n % Devices
  BY <1>1
<1>3. PICK r : r = IF p + m < Devices THEN p + m ELSE p + m - Devices
  OBVIOUS
<1>4. r \in Ranks /\ p = IF r >= m THEN r - m ELSE r - m + Devices
  BY <1>1, <1>2, <1>3 DEF Ranks
<1> QED
  BY <1>2, <1>4 DEF Place

-----------------------------------------------------------------------------
(* The types of what the actions compute.                                   *)
LEMMA WindowTypes ==
  ASSUME NEW w \in WindowType, NEW s \in Nat
  PROVE  /\ GetSlideInfo(w, s) \in WindowType
         /\ PushBGWindow(w, s) \in WindowType
         /\ CommSlide(w) \in WindowType
<1>1. w.counter + 1 \in Nat /\ w.last \in Nat /\ w.yoffset - 1 \in Int
  BY DEF WindowType
<1>2. GetSlideInfo(w, s) \in WindowType
  BY <1>1 DEF GetSlideInfo, WindowType
<1>3. CommSlide(w) \in WindowType
  BY <1>1 DEF CommSlide, WindowType
<1> QED
  BY <1>2, <1>3 DEF PushBGWindow

(* The window after a restart, and that of a new rank.                      *)
LEMMA RestoredType ==
  ASSUME NEW n \in Nat, NEW s \in Nat
  PROVE  RestoreWindow(n, s) \in WindowType /\ NewWindow \in WindowType
<1>1. n % Devices \in 0 .. Devices - 1
  BY SlidesMod
<1>2. -(n % Devices) \in Int
  BY <1>1, Consts
<1> QED
  BY <1>2 DEF RestoreWindow, NewWindow, WindowType

(* The position and the slab of a rank.                                     *)
LEMMA PositionType ==
  ASSUME NEW r \in Ranks, NEW w \in WindowType
  PROVE  Position(r, w) \in 0 .. Devices - 1 /\ Slab(r, w) \in Nat
<1>1. r + w.yoffset \in Int /\ w.counter \in Nat
  BY Consts DEF WindowType
<1>2. Devices \in Nat \ {0}
  BY WindowAssumption
<1>3. Position(r, w) \in 0 .. Devices - 1
  BY <1>1, <1>2, DivMod DEF Position
<1> QED
  BY <1>1, <1>3 DEF Slab
(* pushBGField changes the field of one step.                               *)
LEMMA PushedType ==
  ASSUME NEW d \in RankData, NEW s \in BgSteps, NEW n \in Int
  PROVE  /\ PushBGField(d, s, n) \in RankData
         /\ PushBGField(d, s, n).slab = d.slab
         /\ PushBGField(d, s, n).time = d.time
         /\ PushBGField(d, s, n).past = d.past
         /\ PushBGField(d, s, n).again = d.again
         /\ PushBGField(d, s, n).bg =
              IF Background THEN [d.bg EXCEPT ![s] = @ + n] ELSE d.bg
<1>1. d.bg \in [BgSteps -> Int]
  BY DEF RankData
<1>2. [d.bg EXCEPT ![s] = @ + n] \in [BgSteps -> Int]
  BY <1>1
<1>3. CASE Background
  <2>1. PushBGField(d, s, n) = [d EXCEPT !.bg[s] = @ + n]
    BY <1>3 DEF PushBGField
  <2>2. /\ [d EXCEPT !.bg[s] = @ + n].slab = d.slab
        /\ [d EXCEPT !.bg[s] = @ + n].time = d.time
        /\ [d EXCEPT !.bg[s] = @ + n].past = d.past
        /\ [d EXCEPT !.bg[s] = @ + n].again = d.again
        /\ [d EXCEPT !.bg[s] = @ + n].bg = [d.bg EXCEPT ![s] = @ + n]
    BY DEF RankData
  <2>3. [d EXCEPT !.bg[s] = @ + n] \in RankData
    BY <1>1, <1>2 DEF RankData
  <2> QED
    BY <1>3, <2>1, <2>2, <2>3
<1>4. CASE ~Background
  BY <1>4 DEF PushBGField
<1> QED
  BY <1>3, <1>4

(* The same, for the value by itself.                                       *)
LEMMA PushedParts ==
  ASSUME NEW d \in RankData, NEW s \in BgSteps, NEW n \in Int, NEW e, e = PushBGField(d, s, n)
  PROVE  /\ e \in RankData /\ e.slab = d.slab /\ e.time = d.time
         /\ e.past = d.past /\ e.again = d.again
         /\ e.bg = IF Background THEN [d.bg EXCEPT ![s] = @ + n] ELSE d.bg
BY PushedType, Zenon

(* The same for a field that is subtracted.                                 *)
LEMMA SubtractedParts ==
  ASSUME NEW d \in RankData, NEW s \in BgSteps, NEW e, e = PushBGField(d, s, -1)
  PROVE  /\ e \in RankData /\ e.slab = d.slab /\ e.time = d.time
         /\ e.past = d.past /\ e.again = d.again
         /\ e.bg = IF Background THEN [d.bg EXCEPT ![s] = @ - 1] ELSE d.bg
<1>1. PICK n \in Int : n = -1
  OBVIOUS
<1>2. /\ e \in RankData /\ e.slab = d.slab /\ e.time = d.time
      /\ e.past = d.past /\ e.again = d.again
      /\ e.bg = IF Background THEN [d.bg EXCEPT ![s] = @ + n] ELSE d.bg
  BY <1>1, PushedType
<1>3. d.bg[s] \in Int
  BY DEF RankData
<1>4. d.bg[s] + n = d.bg[s] - 1
  BY <1>1, <1>3
<1> QED
  BY <1>2, <1>4, Zenon

(* What is loaded keeps all but the record of the restart.                  *)
LEMMA LoadedParts ==
  ASSUME NEW d \in RankData, NEW s \in Steps
  PROVE  /\ Loaded(d, s) \in RankData
         /\ Loaded(d, s).slab = d.slab /\ Loaded(d, s).time = d.time /\ Loaded(d, s).bg = d.bg
         /\ Loaded(d, s).past = [d.past EXCEPT ![s] = @ + 1]
         /\ Loaded(d, s).again = d.again + SlideOf(s)
<1>1. d.past \in [Steps -> Nat] /\ d.again \in Nat
  BY DEF RankData
<1>2. [d.past EXCEPT ![s] = @ + 1] \in [Steps -> Nat] /\ d.again + SlideOf(s) \in Nat
  BY <1>1 DEF SlideOf
<1>3. Loaded(d, s) = [d EXCEPT !.past = [d.past EXCEPT ![s] = @ + 1], !.again = d.again + SlideOf(s)]
  BY DEF Loaded, SlideOf, RankData
<1> QED
  BY <1>2, <1>3 DEF RankData

(* New data and new files.                                                  *)
LEMMA NewTypes ==
  /\ NoBackground \in [BgSteps -> Int]
  /\ \A k \in Int, s \in Int :
       /\ NewData(k, s) \in RankData
       /\ NewData(k, s).slab = k /\ NewData(k, s).time = s /\ NewData(k, s).bg = NoBackground
       /\ NewData(k, s).past = NoPast /\ NewData(k, s).again = 0
  /\ Missing \in RankData /\ Missing.slab = -1 /\ Missing.bg = NoBackground
  /\ NoFile \in FileType /\ \A k \in Slabs : NoFile.at[k] = Missing
<1>1. NoBackground \in [BgSteps -> Int]
  BY DEF NoBackground, BgSteps
<1>2. ASSUME NEW k \in Int, NEW s \in Int
      PROVE  /\ NewData(k, s) \in RankData
             /\ NewData(k, s).slab = k /\ NewData(k, s).time = s /\ NewData(k, s).bg = NoBackground
             /\ NewData(k, s).past = NoPast /\ NewData(k, s).again = 0
  BY <1>1 DEF NewData, RankData, NoPast
<1>3. Missing = [slab |-> -1, time |-> 0, bg |-> NoBackground, past |-> NoPast, again |-> 0]
  BY DEF Missing, NewData
<1>4. Missing \in RankData /\ Missing.slab = -1 /\ Missing.bg = NoBackground
  BY <1>1, <1>3 DEF RankData, NoPast
<1>5. NoFile \in FileType /\ \A k \in Slabs : NoFile.at[k] = Missing
  BY <1>4, Consts DEF NoFile, FileType
<1> QED
  BY <1>1, <1>2, <1>4, <1>5

(* The steps of the loop have background fields.                            *)
LEMMA StepTypes ==
  ASSUME NEW s \in Steps
  PROVE  s \in Nat /\ s \in BgSteps /\ s + 1 \in BgSteps /\ s + 1 \in Nat /\ s <= RunSteps
BY Consts DEF Steps, BgSteps

(* The step a job restarts with is one of the lines of the master file.     *)
LEMMA RestartLine ==
  ASSUME Base, launch # Fresh
  PROVE  \E i \in 1 .. Len(master) : RestartStep = master[i]
                                     /\ RestartStep \in Steps /\ CheckpointStep(RestartStep)
<1>1. master \in Seq(Steps)
  BY DEF Base, Types
<1>2. CASE launch = Last
  <2>1. master # <<>>
    BY <1>2 DEF Base, Lines
  <2>2. Len(master) \in 1 .. Len(master)
    BY <1>1, <2>1
  <2>3. RestartStep = master[Len(master)] /\ master[Len(master)] \in Steps
    BY <1>1, <1>2, <2>2 DEF RestartStep
  <2> QED
    BY <2>2, <2>3 DEF Base, Lines
<1>3. CASE launch # Last
  <2>1. PICK i \in 1 .. Len(master) : launch = master[i]
    BY <1>3 DEF Base, Lines
  <2> QED
    BY <1>1, <1>3, <2>1 DEF RestartStep, Base, Lines
<1> QED
  BY <1>2, <1>3

-----------------------------------------------------------------------------
(* Nothing but rank r moves.                                                *)
OneRank(r) ==
  /\ \A q \in Ranks \ {r} :
       pc'[q] = pc[q] /\ cur'[q] = cur[q] /\ window'[q] = window[q] /\ data'[q] = data[q]
       /\ from'[q] = from[q]
  /\ UNCHANGED <<launch, master, crashes, rewound>>

(* What the actions of a rank do.                                           *)
LEMMA InitFreshAt ==
  ASSUME Base, NEW r \in Ranks, InitFresh(r)
  PROVE  /\ Types' /\ OneRank(r) /\ UNCHANGED files
         /\ pc[r] = "init" /\ launch = Fresh
         /\ pc'[r] = "check" /\ cur'[r] = 0 /\ window'[r] = NewWindow /\ data'[r] = NewData(r, 0)
         /\ from'[r] = from[r]
<1>1. Types
  BY DEF Base
<1>2. NewWindow \in WindowType /\ NewData(r, 0) \in RankData /\ 0 \in Steps
  <2>1. r \in Int /\ 0 \in Nat
    BY Consts
  <2> QED
    BY <2>1, RestoredType, NewTypes, Consts
<1> QED
  BY <1>1, <1>2 DEF InitFresh, Types, OneRank, Places

(* The restart of a rank in step s, loading from the slab of window w.      *)
Restarts(r, s, w) ==
  /\ OneRank(r) /\ UNCHANGED files
  /\ pc[r] = "init" /\ launch # Fresh
  /\ s = RestartStep /\ CheckpointStep(s) /\ (\E i \in 1 .. Len(master) : s = master[i])
  /\ w = RestoreWindow(files[s].slides, s) /\ w \in WindowType
  /\ Slab(r, w) \in Slabs
  /\ files[s].at[Slab(r, w)] # Missing
  /\ pc'[r] = "recheck" /\ cur'[r] = s
  /\ window'[r] = PushBGWindow(w, s + 1)
  /\ from'[r] = s
  /\ data'[r] = PushBGField(Loaded(files[s].at[Slab(r, w)], s), s + 1, -1)

(* What a rank loads at a restart.                                          *)
LEMMA InitRestartAt ==
  ASSUME Base, NEW r \in Ranks, InitRestart(r)
  PROVE  Types' /\ \E s \in Steps, w \in WindowType : Restarts(r, s, w)
<1>1. Types
  BY DEF Base
<1>2. pc[r] = "init" /\ launch # Fresh
  BY DEF InitRestart
<1>3. PICK s \in Steps :
        s = RestartStep /\ CheckpointStep(s) /\ (\E i \in 1 .. Len(master) : s = master[i])
  BY <1>2, RestartLine
<1>4. PICK w : w = RestoreWindow(files[s].slides, s)
  OBVIOUS
<1>5. files[s].slides \in Steps /\ files[s].at \in [Slabs -> RankData]
  BY <1>1 DEF Types, FileType
<1>6. w \in WindowType
  BY <1>4, <1>5, StepTypes, RestoredType
<1>7. Slab(r, w) \in Slabs
  <2>1. Position(r, w) \in 0 .. Devices - 1 /\ w.counter = files[s].slides
    BY <1>4, <1>6, PositionType DEF RestoreWindow
  <2> QED
    BY <1>5, <2>1, Consts DEF Slab, Slabs, Steps
<1>8. /\ files[s].at[Slab(r, w)] # Missing
      /\ pc' = [pc EXCEPT ![r] = "recheck"]
      /\ cur' = [cur EXCEPT ![r] = s]
      /\ window' = [window EXCEPT ![r] = PushBGWindow(w, s + 1)]
      /\ data' = [data EXCEPT ![r] = PushBGField(Loaded(files[s].at[Slab(r, w)], s), s + 1, -1)]
      /\ from' = [from EXCEPT ![r] = s]
      /\ UNCHANGED <<launch, files, master, crashes, rewound>>
  BY <1>3, <1>4 DEF InitRestart
<1>9. PushBGWindow(w, s + 1) \in WindowType
  BY <1>6, StepTypes, WindowTypes
<1>10. PushBGField(Loaded(files[s].at[Slab(r, w)], s), s + 1, -1) \in RankData
  <2>0. files[s].at[Slab(r, w)] \in RankData
    BY <1>5, <1>7
  <2>1. Loaded(files[s].at[Slab(r, w)], s) \in RankData
    BY <2>0, LoadedParts
  <2>2. s + 1 \in BgSteps /\ -1 \in Int
    BY StepTypes
  <2> QED
    BY <2>1, <2>2, PushedType
<1>11. Types'
  BY <1>1, <1>8, <1>9, <1>10 DEF Types, Places
<1>12. Restarts(r, s, w)
  BY <1>1, <1>2, <1>3, <1>4, <1>6, <1>7, <1>8 DEF Restarts, OneRank, Types
<1> QED
  BY <1>6, <1>11, <1>12

(* movingWindowCheck in step s, with the window and the data before the     *)
(* background field is added.                                               *)
Checks(r, s, w, d) ==
  /\ OneRank(r) /\ UNCHANGED files
  /\ s = cur[r] /\ pc[r] \in {"check", "recheck"}
  /\ w = IF SlideInCurrentStep(s) THEN CommSlide(GetSlideInfo(window[r], s))
         ELSE GetSlideInfo(window[r], s)
  /\ d = IF SlideInCurrentStep(s) /\ Position(r, w) = Devices - 1
         THEN NewData(Slab(r, w), s) ELSE data[r]
  /\ pc'[r] = IF pc[r] = "check" THEN "dump" ELSE LoopHead(r)
  /\ cur'[r] = s /\ from'[r] = from[r]
  /\ window'[r] = PushBGWindow(w, s)
  /\ data'[r] = PushBGField(d, s, 1)

(* What movingWindowCheck does.                                             *)
LEMMA MovingWindowCheckAt ==
  ASSUME Base, NEW r \in Ranks, MovingWindowCheck(r)
  PROVE  Types' /\ \E s \in Steps, w \in WindowType, d \in RankData : Checks(r, s, w, d)
<1>1. Types
  BY DEF Base
<1>2. PICK s \in Steps : s = cur[r]
  BY <1>1 DEF Types
<1>3. PICK w : w = IF SlideInCurrentStep(s) THEN CommSlide(GetSlideInfo(window[r], s))
                   ELSE GetSlideInfo(window[r], s)
  OBVIOUS
<1>4. PICK d : d = IF SlideInCurrentStep(s) /\ Position(r, w) = Devices - 1
                   THEN NewData(Slab(r, w), s) ELSE data[r]
  OBVIOUS
<1>5. /\ pc[r] \in {"check", "recheck"}
      /\ window' = [window EXCEPT ![r] = PushBGWindow(w, s)]
      /\ data' = [data EXCEPT ![r] = PushBGField(d, s, 1)]
      /\ pc' = [pc EXCEPT ![r] = IF pc[r] = "check" THEN "dump" ELSE LoopHead(r)]
      /\ UNCHANGED <<cur, launch, files, master, crashes, from, rewound>>
  BY <1>2, <1>3, <1>4 DEF MovingWindowCheck
<1>6. w \in WindowType
  <2>1. window[r] \in WindowType /\ s \in Nat
    BY <1>1, StepTypes DEF Types
  <2>2. GetSlideInfo(window[r], s) \in WindowType
    BY <2>1, WindowTypes
  <2>3. CommSlide(GetSlideInfo(window[r], s)) \in WindowType
    BY <2>1, <2>2, WindowTypes
  <2> QED
    BY <1>3, <2>2, <2>3
<1>7. d \in RankData
  <2>1. data[r] \in RankData /\ Slab(r, w) \in Int /\ s \in Int
    BY <1>1, <1>6, PositionType, StepTypes DEF Types
  <2> QED
    BY <1>4, <2>1, NewTypes
<1>8. PushBGWindow(w, s) \in WindowType /\ PushBGField(d, s, 1) \in RankData
  <2>1. s \in Nat /\ s \in BgSteps /\ 1 \in Int
    BY StepTypes
  <2>2. PushBGWindow(w, s) \in WindowType
    BY <1>6, <2>1, WindowTypes
  <2>3. PushBGField(d, s, 1) \in RankData
    BY <1>7, <2>1, PushedType
  <2> QED
    BY <2>2, <2>3
<1>9. Types'
  BY <1>1, <1>5, <1>8 DEF Types, Places, LoopHead
<1>10. Checks(r, s, w, d)
  BY <1>1, <1>2, <1>3, <1>4, <1>5 DEF Checks, OneRank, Types
<1> QED
  BY <1>6, <1>7, <1>9, <1>10


(* What dumpOneStep does.                                                   *)
LEMMA DumpOneStepAt ==
  ASSUME Base, NEW r \in Ranks, DumpOneStep(r)
  PROVE  /\ Types' /\ OneRank(r) /\ UNCHANGED files
         /\ pc[r] = "dump"
         /\ pc'[r] = IF CheckpointStep(cur[r]) THEN "barrier" ELSE LoopHead(r)
         /\ cur'[r] = cur[r] /\ window'[r] = window[r] /\ data'[r] = data[r] /\ from'[r] = from[r]
<1>1. Types
  BY DEF Base
<1>2. LoopHead(r) \in Places
  BY DEF LoopHead, Places
<1>3. /\ pc[r] = "dump"
      /\ pc' = [pc EXCEPT ![r] = IF CheckpointStep(cur[r]) THEN "barrier" ELSE LoopHead(r)]
      /\ UNCHANGED <<cur, window, data, launch, files, master, crashes, from, rewound>>
  BY DEF DumpOneStep, CheckpointStep
<1>4. pc' \in [Ranks -> Places]
  BY <1>1, <1>2, <1>3 DEF Types, Places
<1> QED
  BY <1>1, <1>3, <1>4 DEF Types, OneRank

(* What runOneStep does.                                                    *)
LEMMA RunOneStepAt ==
  ASSUME Base, NEW r \in Ranks, RunOneStep(r)
  PROVE  /\ Types' /\ OneRank(r) /\ UNCHANGED files
         /\ pc[r] = "run" /\ cur[r] < RunSteps
         /\ pc'[r] = "check" /\ cur'[r] = cur[r] + 1 /\ window'[r] = window[r] /\ from'[r] = from[r]
         /\ [data[r] EXCEPT !.time = @ + 1] \in RankData
         /\ data'[r] = PushBGField([data[r] EXCEPT !.time = @ + 1], cur[r], -1)
<1>1. Types
  BY DEF Base
<1>2. /\ pc[r] = "run"
      /\ data' = [data EXCEPT ![r] = PushBGField([data[r] EXCEPT !.time = @ + 1], cur[r], -1)]
      /\ cur' = [cur EXCEPT ![r] = @ + 1]
      /\ pc' = [pc EXCEPT ![r] = "check"]
      /\ UNCHANGED <<window, launch, files, master, crashes, from, rewound>>
  BY DEF RunOneStep
<1>3. cur[r] \in Steps /\ cur[r] < RunSteps
  BY <1>1, <1>2 DEF Base, Types, PlaceAt
<1>4. cur[r] + 1 \in Steps
  BY <1>3, Consts DEF Steps
<1>5. [data[r] EXCEPT !.time = @ + 1] \in RankData
  <2>1. PICK d \in RankData : d = data[r]
    BY <1>1 DEF Types
  <2>2. [d EXCEPT !.time = @ + 1] \in RankData
    BY DEF RankData
  <2> QED
    BY <2>1, <2>2
<1>6. PushBGField([data[r] EXCEPT !.time = @ + 1], cur[r], -1) \in RankData
  <2>1. cur[r] \in BgSteps /\ -1 \in Int
    BY <1>3, StepTypes
  <2> QED
    BY <1>5, <2>1, PushedType
<1> QED
  BY <1>1, <1>2, <1>3, <1>4, <1>5, <1>6 DEF Types, OneRank, Places


-----------------------------------------------------------------------------
(* A query that counts the slide.                                           *)
LEMMA CountOnce ==
  ASSUME NEW r \in Ranks, NEW s \in Nat, NEW c \in Nat, NEW n \in Nat, NEW w \in WindowType,
         SlideInCurrentStep(s), Slid(w, c, n), w.last # s,
         NEW v, v = GetSlideInfo(w, s)
  PROVE  v \in WindowType /\ Slid(v, c + 1, n) /\ v.last = s /\ Slab(r, v) = Slab(r, w) + 1
<1>1. v = [w EXCEPT !.counter = @ + 1, !.last = s]
  BY DEF GetSlideInfo
<1>2. w.counter + 1 \in Nat
  BY DEF WindowType
<1>3. v.counter = w.counter + 1 /\ v.last = s /\ v.yoffset = w.yoffset
  BY <1>1 DEF WindowType
<1>4. v \in WindowType
  BY <1>1, <1>2 DEF WindowType
<1>5. w.counter = c /\ w.yoffset = -(n % Devices)
  BY DEF Slid
<1>6. Slid(v, c + 1, n)
  BY <1>3, <1>5 DEF Slid
<1>7. Slab(r, v) = Place(r, n) + (c + 1) /\ Slab(r, w) = Place(r, n) + c
  BY <1>4, <1>6, PositionAfter
<1>8. Place(r, n) \in Int
  BY PlaceType
<1> QED
  BY <1>3, <1>4, <1>6, <1>7, <1>8

(* A slide of the communicator.                                             *)
LEMMA SlideMoves ==
  ASSUME NEW r \in Ranks, NEW c \in Nat, NEW n \in Nat, NEW v \in WindowType, Slid(v, c, n),
         NEW w \in WindowType, w = CommSlide(v)
  PROVE  /\ Slid(w, c, n + 1) /\ w.last = v.last
         /\ Position(r, w) # Devices - 1 => Slab(r, w) = Slab(r, v) - 1
<1>1. v.counter = c /\ v.yoffset = -(n % Devices)
  BY DEF Slid
<1>2. /\ w.counter = c /\ w.last = v.last
      /\ w.yoffset = IF v.yoffset - 1 = -Devices THEN 0 ELSE v.yoffset - 1
  BY <1>1 DEF CommSlide, WindowType
<1>3. w.yoffset = -((n + 1) % Devices)
  <2>1. /\ n % Devices \in 0 .. Devices - 1 /\ Devices \in Nat
        /\ (n + 1) % Devices = IF n % Devices = Devices - 1 THEN 0 ELSE (n % Devices) + 1
    BY SlidesMod, Consts
  <2>2. PICK m, k : m \in 0 .. Devices - 1 /\ m = n % Devices /\ k = (n + 1) % Devices
    BY <2>1
  <2>3. m \in 0 .. Devices - 1 /\ k = IF m = Devices - 1 THEN 0 ELSE m + 1
    BY <2>1, <2>2
  <2>4. w.yoffset = IF (-m) - 1 = -Devices THEN 0 ELSE (-m) - 1
    BY <1>1, <1>2, <2>2
  <2>5. w.yoffset = -k
    BY <2>1, <2>3, <2>4
  <2> QED
    BY <2>2, <2>5
<1>4. Slid(w, c, n + 1)
  BY <1>2, <1>3 DEF Slid
<1>5. n + 1 \in Nat
  OBVIOUS
<1>6. /\ Position(r, w) = Place(r, n + 1) /\ Slab(r, w) = Place(r, n + 1) + c
      /\ Slab(r, v) = Place(r, n) + c
  BY <1>4, <1>5, PositionAfter
<1>7. Place(r, n + 1) = IF Place(r, n) = 0 THEN Devices - 1 ELSE Place(r, n) - 1
  BY PlaceNext
<1>8. Place(r, n) \in Int
  BY PlaceType
<1> QED
  BY <1>2, <1>4, <1>6, <1>7, <1>8

(* movingWindowCheck of step s leaves window w2 and data d2 if it finds w   *)
(* and d.                                                                   *)
Slides(r, s, w, d, w2, d2) ==
  /\ w2 = IF SlideInCurrentStep(s) THEN CommSlide(GetSlideInfo(w, s)) ELSE GetSlideInfo(w, s)
  /\ d2 = IF SlideInCurrentStep(s) /\ Position(r, w2) = Devices - 1
          THEN NewData(Slab(r, w2), s) ELSE d

(* New data are in place.                                                   *)
LEMMA NewInPlace ==
  ASSUME NEW r \in Ranks, NEW s \in Steps, NEW w \in WindowType, w.counter \in 0 .. RunSteps + 1,
         NEW d, d = NewData(Slab(r, w), s)
  PROVE  d.slab = Slab(r, w) /\ d.slab \in Slabs /\ d.time = s /\ d.again = 0
<1>1. Slab(r, w) \in Nat /\ s \in Int /\ Position(r, w) \in 0 .. Devices - 1
  BY PositionType, StepTypes
<1>2. Slab(r, w) \in Slabs
  BY <1>1, Consts DEF Slab, Slabs
<1> QED
  BY <1>1, <1>2, NewTypes

(* The slides up to a step and those up to the step before.                 *)
LEMMA SlidesStep ==
  ASSUME NEW s \in Steps
  PROVE  /\ SlidesUpTo(s - 1) \in Nat /\ SlidesUpTo(s) \in Nat
         /\ SlidesUpTo(s) = SlidesUpTo(s - 1) + SlideOf(s)
         /\ SlidesUpTo(s) \in 0 .. RunSteps /\ SlidesUpTo(s) \in Steps
         /\ SlidesUpTo(s - 1) \in 0 .. RunSteps
<1>1. s \in Nat /\ s <= RunSteps /\ RunSteps \in Nat
  BY StepTypes, Consts
<1>2. s - 1 \in Int /\ s - 1 >= -1 /\ s \in Int /\ s >= -1 /\ s >= 0
  BY <1>1
<1>3. SlidesUpTo(s - 1) \in Nat /\ SlidesUpTo(s) \in Nat /\ SlidesUpTo(s) <= s
  BY <1>2, SlidesType
<1>4. SlidesUpTo(s) = SlidesUpTo(s - 1) + SlideOf(s)
  BY <1>1, SlidesNext DEF SlideOf
<1>5. SlideOf(s) \in {0, 1}
  BY OneOrNone
<1> QED
  BY <1>1, <1>3, <1>4, <1>5 DEF Steps

(* What is settled in step s, for a rank that has restarted from g.         *)
SettledAt(r, s, w, d, g) ==
  /\ Slid(w, SlidesUpTo(s) + Ahead(s, g), SlidesUpTo(s) + SlideOf(g)) /\ Noted(s, w, g)
  /\ d.slab \in Slabs /\ d.slab = Slab(r, w) - Ahead(s, g) + d.again /\ d.time = s

(* movingWindowCheck after a step: the window and the data are settled.     *)
LEMMA CheckSettles ==
  ASSUME NEW r \in Ranks, NEW s \in Steps, NEW w \in WindowType, NEW d \in RankData, NEW g, g < s,
         WindowAt("check", s, w, g), DataAt("check", s, w, d, r, g),
         NEW w2 \in WindowType, NEW d2, Slides(r, s, w, d, w2, d2)
  PROVE  SettledAt(r, s, w2, d2, g)
<1>1. PICK n \in Nat : n = SlidesUpTo(s - 1) /\ SlidesUpTo(s) = n + SlideOf(s)
                       /\ n \in 0 .. RunSteps /\ n + SlideOf(s) \in 0 .. RunSteps
  BY SlidesStep
<1>2. PICK a \in {0, 1} : a = Ahead(s - 1, g) /\ (a = 1 => SlideInCurrentStep(s))
  <2>1. (s - 1) + 1 = s
    BY StepTypes
  <2> QED
    BY <2>1, OneOrNone
<1>3. PICK e \in {0, 1} : e = SlideOf(g)
  BY OneOrNone
<1>4. Ahead(s, g) = 0
  <2>1. s # g
    BY StepTypes
  <2> QED
    BY <2>1 DEF Ahead
<1>5. /\ Slid(w, n + a, n + e)
      /\ a = 1 => w.last = s
      /\ a = 0 => w.last <= s /\ (w.last = s => ~SlideInCurrentStep(s))
  BY <1>1, <1>2, <1>3 DEF WindowAt
<1>6. d.slab \in Slabs /\ d.time = s /\ d.slab = Slab(r, w) - a + d.again
  BY <1>2 DEF DataAt
<1>7. /\ w2 = IF SlideInCurrentStep(s) THEN CommSlide(GetSlideInfo(w, s)) ELSE GetSlideInfo(w, s)
      /\ d2 = IF SlideInCurrentStep(s) /\ Position(r, w2) = Devices - 1
              THEN NewData(Slab(r, w2), s) ELSE d
  BY DEF Slides
<1>8. d.again \in Nat /\ Slab(r, w) \in Int /\ Slab(r, w2) \in Int /\ RunSteps \in Nat
      /\ n + a \in Nat /\ n + e \in Nat
  BY PositionType, Consts DEF RankData
<1>9. CASE SlideInCurrentStep(s)
  <2>1. SlideOf(s) = 1
    BY <1>9 DEF SlideOf
  <2>2. \E v \in WindowType :
          /\ w2 = CommSlide(v) /\ Slid(v, n + 1, n + e) /\ v.last = s
          /\ Slab(r, v) = Slab(r, w) + 1 - a
    <3>1. CASE a = 1
      <4>1. GetSlideInfo(w, s) = w
        BY <1>5, <3>1 DEF GetSlideInfo
      <4>2. Slab(r, w) = Slab(r, w) + 1 - a
        BY <1>8, <3>1
      <4> QED
        BY <1>5, <1>7, <1>9, <3>1, <4>1, <4>2
    <3>2. CASE a = 0
      <4>1. w.last # s /\ n + a = n /\ Slid(w, n, n + e) /\ s \in Nat
        BY <1>5, <1>9, <3>2, StepTypes
      <4>2. PICK v : v = GetSlideInfo(w, s)
        OBVIOUS
      <4>3. v \in WindowType /\ Slid(v, n + 1, n + e) /\ v.last = s /\ Slab(r, v) = Slab(r, w) + 1
        BY <1>8, <1>9, <4>1, <4>2, CountOnce
      <4>4. Slab(r, v) = Slab(r, w) + 1 - a
        BY <1>8, <3>2, <4>3
      <4> QED
        BY <1>7, <1>9, <4>2, <4>3, <4>4
    <3> QED
      BY <3>1, <3>2
  <2>3. PICK v \in WindowType :
          /\ w2 = CommSlide(v) /\ Slid(v, n + 1, n + e) /\ v.last = s
          /\ Slab(r, v) = Slab(r, w) + 1 - a
    BY <2>2
  <2>4. n + 1 \in Nat
    BY <1>1
  <2>5. /\ Slid(w2, n + 1, (n + e) + 1) /\ w2.last = s
        /\ Position(r, w2) # Devices - 1 => Slab(r, w2) = Slab(r, v) - 1
    BY <1>8, <2>3, <2>4, SlideMoves
  <2>6. Slid(w2, SlidesUpTo(s) + Ahead(s, g), SlidesUpTo(s) + SlideOf(g))
    <3>1. SlidesUpTo(s) + Ahead(s, g) = n + 1 /\ SlidesUpTo(s) + SlideOf(g) = (n + e) + 1
      BY <1>1, <1>3, <1>4, <2>1
    <3> QED
      BY <2>5, <3>1
  <2>7. Noted(s, w2, g)
    BY <1>4, <2>5, StepTypes DEF Noted
  <2>8. d2.slab \in Slabs /\ d2.slab = Slab(r, w2) - Ahead(s, g) + d2.again /\ d2.time = s
    <3>1. CASE Position(r, w2) = Devices - 1
      <4>1. d2 = NewData(Slab(r, w2), s)
        BY <1>7, <1>9, <3>1
      <4>2. w2.counter \in 0 .. RunSteps + 1
        BY <1>1, <1>8, <2>1, <2>5 DEF Slid
      <4>3. d2.slab = Slab(r, w2) /\ d2.slab \in Slabs /\ d2.time = s /\ d2.again = 0
        BY <4>1, <4>2, NewInPlace
      <4> QED
        BY <1>4, <1>8, <4>3
    <3>2. CASE Position(r, w2) # Devices - 1
      <4>1. d2 = d /\ Slab(r, w2) = Slab(r, v) - 1 /\ Slab(r, v) \in Int
        BY <1>7, <2>5, <3>2, PositionType
      <4> QED
        BY <1>4, <1>6, <1>8, <2>3, <4>1
    <3> QED
      BY <3>1, <3>2
  <2> QED
    BY <2>6, <2>7, <2>8 DEF SettledAt
<1>10. CASE ~SlideInCurrentStep(s)
  <2>1. w2 = w /\ d2 = d /\ a = 0 /\ SlideOf(s) = 0
    BY <1>2, <1>7, <1>10 DEF GetSlideInfo, SlideOf
  <2>2. SlidesUpTo(s) + Ahead(s, g) = n + a /\ SlidesUpTo(s) + SlideOf(g) = n + e
    BY <1>1, <1>3, <1>4, <2>1
  <2>3. Slid(w2, SlidesUpTo(s) + Ahead(s, g), SlidesUpTo(s) + SlideOf(g))
    BY <1>5, <2>1, <2>2
  <2>4. Noted(s, w2, g)
    BY <1>4, <1>5, <1>10, <2>1 DEF Noted
  <2> QED
    BY <1>4, <1>6, <2>1, <2>3, <2>4 DEF SettledAt
<1> QED
  BY <1>9, <1>10

(* movingWindowCheck after a restart: a slide step is slid in again.        *)
LEMMA RecheckSettles ==
  ASSUME NEW r \in Ranks, NEW s \in Steps, NEW w \in WindowType, NEW d \in RankData,
         WindowAt("recheck", s, w, s), DataAt("recheck", s, w, d, r, s),
         NEW w2 \in WindowType, NEW d2, Slides(r, s, w, d, w2, d2)
  PROVE  SettledAt(r, s, w2, d2, s)
<1>1. PICK n \in Nat : n = SlidesUpTo(s) /\ n \in 0 .. RunSteps
  BY SlidesStep
<1>2. PICK a \in {0, 1} : a = Ahead(s, s) /\ (a = 1 => SlideInCurrentStep(s + 1))
  BY OneOrNone
<1>3. PICK e \in {0, 1} : e = SlideOf(s)
  BY OneOrNone
<1>4. Slid(w, n + a, n) /\ Noted(s, w, s)
  BY <1>1, <1>2 DEF WindowAt
<1>5. d.slab \in Slabs /\ d.time = s /\ d.slab = Slab(r, w) - a + d.again - e
  BY <1>2, <1>3 DEF DataAt
<1>6. /\ w2 = IF SlideInCurrentStep(s) THEN CommSlide(GetSlideInfo(w, s)) ELSE GetSlideInfo(w, s)
      /\ d2 = IF SlideInCurrentStep(s) /\ Position(r, w2) = Devices - 1
              THEN NewData(Slab(r, w2), s) ELSE d
  BY DEF Slides
<1>7. d.again \in Nat /\ Slab(r, w) \in Int /\ Slab(r, w2) \in Int /\ RunSteps \in Nat
      /\ n + a \in Nat /\ n + e \in Nat
  BY PositionType, Consts DEF RankData
<1>8. CASE SlideInCurrentStep(s)
  <2>1. e = 1 /\ a = 0
    BY <1>2, <1>3, <1>8, SlidesApart, StepTypes DEF SlideOf
  <2>2. w.last = s /\ n + a = n
    BY <1>1, <1>2, <1>4, <1>8, <2>1 DEF Noted
  <2>3. GetSlideInfo(w, s) = w
    BY <2>2 DEF GetSlideInfo
  <2>4. w2 = CommSlide(w) /\ Slid(w, n, n)
    BY <1>4, <1>6, <1>8, <2>2, <2>3
  <2>5. /\ Slid(w2, n, n + 1) /\ w2.last = w.last
        /\ Position(r, w2) # Devices - 1 => Slab(r, w2) = Slab(r, w) - 1
    BY <2>4, SlideMoves
  <2>6. Slid(w2, SlidesUpTo(s) + Ahead(s, s), SlidesUpTo(s) + SlideOf(s))
    BY <1>1, <1>2, <1>3, <2>1, <2>2, <2>5
  <2>7. Noted(s, w2, s)
    BY <1>4, <2>5 DEF Noted
  <2>8. d2.slab \in Slabs /\ d2.slab = Slab(r, w2) - a + d2.again /\ d2.time = s
    <3>1. CASE Position(r, w2) = Devices - 1
      <4>1. d2 = NewData(Slab(r, w2), s)
        BY <1>6, <1>8, <3>1
      <4>2. w2.counter \in 0 .. RunSteps + 1
        BY <1>1, <1>7, <2>5 DEF Slid
      <4>3. d2.slab = Slab(r, w2) /\ d2.slab \in Slabs /\ d2.time = s /\ d2.again = 0
        BY <4>1, <4>2, NewInPlace
      <4> QED
        BY <1>7, <2>1, <4>3
    <3>2. CASE Position(r, w2) # Devices - 1
      <4>1. d2 = d /\ Slab(r, w2) = Slab(r, w) - 1
        BY <1>6, <2>5, <3>2
      <4> QED
        BY <1>5, <1>7, <2>1, <4>1
    <3> QED
      BY <3>1, <3>2
  <2> QED
    BY <1>2, <2>6, <2>7, <2>8 DEF SettledAt
<1>9. CASE ~SlideInCurrentStep(s)
  <2>1. w2 = w /\ d2 = d /\ e = 0
    BY <1>3, <1>6, <1>9 DEF GetSlideInfo, SlideOf
  <2>2. SlidesUpTo(s) + Ahead(s, s) = n + a /\ SlidesUpTo(s) + SlideOf(s) = n
    BY <1>1, <1>2, <1>3, <2>1
  <2>3. Slid(w2, SlidesUpTo(s) + Ahead(s, s), SlidesUpTo(s) + SlideOf(s))
    BY <1>4, <2>1, <2>2
  <2>4. d.slab = Slab(r, w) - a + d.again
    BY <1>5, <1>7, <2>1
  <2> QED
    BY <1>2, <1>4, <1>5, <2>1, <2>3, <2>4 DEF SettledAt
<1> QED
  BY <1>8, <1>9


-----------------------------------------------------------------------------
(* A rank moves and the files stay: the invariant is kept.                  *)
LEMMA OneRankKeeps ==
  ASSUME WindowInv, NEW r \in Ranks, Types', OneRank(r), UNCHANGED files,
         PlaceAt(pc'[r], cur'[r], from'[r]),
         WindowAt(pc'[r], cur'[r], window'[r], from'[r]),
         DataAt(pc'[r], cur'[r], window'[r], data'[r], r, from'[r])
  PROVE  WindowInv'
<1>1. Lines'
  BY DEF WindowInv, Base, Lines, OneRank
<1>2. ASSUME NEW q \in Ranks
      PROVE  /\ PlaceAt(pc'[q], cur'[q], from'[q])
             /\ WindowAt(pc'[q], cur'[q], window'[q], from'[q])
             /\ DataAt(pc'[q], cur'[q], window'[q], data'[q], q, from'[q])
  <2>1. CASE q = r
    BY <2>1
  <2>2. CASE q # r
    BY <2>2 DEF WindowInv, Base, OneRank, RankInv
  <2> QED
    BY <2>1, <2>2
<1> QED
  BY <1>1, <1>2 DEF WindowInv, Base, RankInv

(* The parts of the invariant at a rank.                                    *)
LEMMA RankFacts ==
  ASSUME WindowInv, NEW r \in Ranks
  PROVE  /\ Base /\ Types
         /\ PlaceAt(pc[r], cur[r], from[r])
         /\ WindowAt(pc[r], cur[r], window[r], from[r])
         /\ DataAt(pc[r], cur[r], window[r], data[r], r, from[r])
         /\ cur[r] \in Steps /\ cur[r] \in Nat /\ from[r] \in Int
         /\ window[r] \in WindowType /\ data[r] \in RankData /\ pc[r] \in Places
<1>1. Base /\ Types /\ RankInv(r) /\ PlaceAt(pc[r], cur[r], from[r])
  BY DEF WindowInv, Base
<1>2. from[r] \in Int
  <2>1. from[r] \in Steps \cup {Fresh}
    BY <1>1 DEF Types
  <2>2. Fresh \in Int
    BY DEF Fresh
  <2> QED
    BY <2>1, <2>2, StepTypes
<1> QED
  BY <1>1, <1>2, StepTypes DEF Types, RankInv

(* A settled window does not count another slide.                           *)
LEMMA NotedQuery ==
  ASSUME NEW s \in Nat, NEW w \in WindowType, NEW g, Noted(s, w, g)
  PROVE  GetSlideInfo(w, s) = w /\ PushBGWindow(w, s) = w
<1>1. SlideInCurrentStep(s) => Ahead(s, g) = 0
  BY SlidesApart, OneOrNone
<1>2. SlideInCurrentStep(s) => w.last = s
  BY <1>1 DEF Noted
<1> QED
  BY <1>2 DEF GetSlideInfo, PushBGWindow

(* A settled rank.                                                          *)
LEMMA SettledFacts ==
  ASSUME WindowInv, NEW r \in Ranks, pc[r] \in SettledPlaces
  PROVE  /\ SettledAt(r, cur[r], window[r], data[r], from[r])
         /\ SlidesUpTo(cur[r]) \in Steps /\ SlidesUpTo(cur[r]) \in Nat
         /\ SlideOf(from[r]) \in {0, 1} /\ Ahead(cur[r], from[r]) \in {0, 1}
         /\ Position(r, window[r]) = Place(r, SlidesUpTo(cur[r]) + SlideOf(from[r]))
         /\ Position(r, window[r]) = (r - (SlidesUpTo(cur[r]) + SlideOf(from[r]))) % Devices
         /\ Slab(r, window[r]) = Position(r, window[r]) + window[r].counter
         /\ window[r].counter = SlidesUpTo(cur[r]) + Ahead(cur[r], from[r])
         /\ GetSlideInfo(window[r], cur[r]) = window[r]
<1>1. /\ WindowAt(pc[r], cur[r], window[r], from[r])
      /\ DataAt(pc[r], cur[r], window[r], data[r], r, from[r])
      /\ cur[r] \in Steps /\ cur[r] \in Nat /\ window[r] \in WindowType
  BY RankFacts
<1>2. SettledAt(r, cur[r], window[r], data[r], from[r])
  <2>1. pc[r] \notin {"down", "init"}
    BY DEF SettledPlaces, AtCheckpoint
  <2> QED
    BY <1>1, <2>1 DEF SettledAt, WindowAt, DataAt
<1>3. SlidesUpTo(cur[r]) \in Steps /\ SlidesUpTo(cur[r]) \in Nat
  BY <1>1, SlidesStep
<1>4. SlideOf(from[r]) \in {0, 1} /\ Ahead(cur[r], from[r]) \in {0, 1}
  BY OneOrNone
<1>5. PICK n \in Nat, a \in {0, 1}, e \in {0, 1} :
        n = SlidesUpTo(cur[r]) /\ a = Ahead(cur[r], from[r]) /\ e = SlideOf(from[r])
  BY <1>3, <1>4
<1>6. Slid(window[r], n + a, n + e) /\ n + a \in Nat /\ n + e \in Nat
  BY <1>2, <1>5 DEF SettledAt
<1>7. Position(r, window[r]) = Place(r, n + e) /\ Place(r, n + e) = (r - (n + e)) % Devices
  BY <1>1, <1>6, PositionAfter
<1>8. window[r].counter = n + a
  BY <1>6 DEF Slid
<1>9. GetSlideInfo(window[r], cur[r]) = window[r]
  BY <1>1, <1>2, NotedQuery DEF SettledAt
<1> QED
  BY <1>2, <1>3, <1>4, <1>5, <1>7, <1>8, <1>9 DEF Slab

(* A settled rank that is in the invariant.                                 *)
LEMMA SettledKept ==
  ASSUME NEW p \in SettledPlaces, NEW r, NEW s, NEW w, NEW d, NEW g, SettledAt(r, s, w, d, g)
  PROVE  WindowAt(p, s, w, g) /\ DataAt(p, s, w, d, r, g)
<1>1. p \notin {"down", "init", "check", "recheck"}
  BY DEF SettledPlaces, AtCheckpoint
<1> QED
  BY <1>1 DEF SettledAt, WindowAt, DataAt

-----------------------------------------------------------------------------
(* Without a moving window there are no slides.                             *)
LEMMA NeverSlides ==
  ASSUME NEW s \in Int, ~SlidingWindowActive
  PROVE  SlidesUpTo(s) = 0
<1>1. {k \in 0 .. s : SlideInCurrentStep(k)} = {}
  BY DEF SlideInCurrentStep
<1> QED
  BY <1>1, FS_EmptySet DEF SlidesUpTo

(* InitFresh keeps the invariant.                                           *)
LEMMA InitFreshKeeps ==
  ASSUME WindowInv, NEW r \in Ranks, InitFresh(r)
  PROVE  WindowInv'
<1>1. /\ Types' /\ OneRank(r) /\ UNCHANGED files /\ pc[r] = "init"
      /\ pc'[r] = "check" /\ cur'[r] = 0 /\ window'[r] = NewWindow /\ data'[r] = NewData(r, 0)
      /\ from'[r] = from[r]
  BY InitFreshAt DEF WindowInv
<1>2. from[r] = Fresh
  BY <1>1, RankFacts DEF PlaceAt
<1>3. /\ SlideOf(Fresh) = 0 /\ Ahead(0 - 1, Fresh) = 0
      /\ SlidesUpTo(0 - 1) + 0 = 0 /\ SlidesUpTo(0 - 1) = 0
  <2>0. 0 - 1 \in Int /\ 0 - 1 >= -1 /\ 0 - 1 = -1 /\ (0 - 1) + 1 = 0
    OBVIOUS
  <2>1. SlidesUpTo(0 - 1) = 0
    BY <2>0, SlidesType
  <2>2. ~SlideInCurrentStep((0 - 1) + 1)
    BY <2>0, NoSlideAtStart
  <2> QED
    BY <2>1, <2>2, SlidesApart DEF SlideOf, Ahead
<1>4. Slid(NewWindow, SlidesUpTo(0 - 1) + Ahead(0 - 1, Fresh), SlidesUpTo(0 - 1) + SlideOf(Fresh))
  <2>1. 0 % Devices = 0
    BY Consts, ModSmall
  <2>2. Slid(NewWindow, 0, 0)
    BY <2>1 DEF Slid, NewWindow
  <2> QED
    BY <1>3, <2>2
<1>5. WindowAt("check", 0, NewWindow, Fresh)
  <2>1. NewWindow.last = 0
    BY DEF NewWindow
  <2> QED
    BY <1>3, <1>4, <2>1, NoSlideAtStart DEF WindowAt, SettledPlaces, AtCheckpoint
<1>6. DataAt("check", 0, NewWindow, NewData(r, 0), r, Fresh)
  <2>1. r \in Int /\ r \in 0 .. Devices - 1
    BY Consts DEF Ranks
  <2>2. r \in -(Devices - 1) .. Devices - 1
    BY <2>1, Consts
  <2>3. (r + 0) % Devices = r
    BY <2>1, <2>2, ModSmall
  <2>4. Slab(r, NewWindow) = r
    BY <2>1, <2>3 DEF Slab, Position, NewWindow
  <2>5. PICK d : d = NewData(r, 0) /\ d.slab = r /\ d.time = 0 /\ d.again = 0
    BY <2>1, NewTypes
  <2>6. r \in Slabs /\ r = r - 0 + 0
    BY <2>1, Consts DEF Slabs
  <2>7. DataAt("check", 0, NewWindow, d, r, Fresh)
    BY <1>3, <2>4, <2>5, <2>6 DEF DataAt, SettledPlaces, AtCheckpoint
  <2> QED
    BY <2>5, <2>7
<1>7. PlaceAt("check", 0, Fresh)
  BY DEF PlaceAt, AtCheckpoint, Fresh
<1> QED
  BY <1>1, <1>2, <1>5, <1>6, <1>7, OneRankKeeps

(* What a restart finds in the file, and the window it restores.            *)
LEMMA RestartFinds ==
  ASSUME WindowInv, NEW r \in Ranks, NEW s \in Steps, NEW w \in WindowType,
         Restarts(r, s, w)
  PROVE  /\ Slid(w, SlidesUpTo(s), SlidesUpTo(s)) /\ w.last = s
         /\ files[s].at[Slab(r, w)] \in RankData
         /\ files[s].at[Slab(r, w)].slab \in Slabs
         /\ files[s].at[Slab(r, w)].slab = Slab(r, w) + files[s].at[Slab(r, w)].again
         /\ files[s].at[Slab(r, w)].time = s
<1>1. /\ Slab(r, w) \in Slabs /\ files[s].at[Slab(r, w)] # Missing
      /\ w = RestoreWindow(files[s].slides, s)
  BY DEF Restarts
<1>2. /\ files[s].slides = SlidesUpTo(s)
      /\ files[s].at[Slab(r, w)].slab \in Slabs
      /\ files[s].at[Slab(r, w)].slab = Slab(r, w) + files[s].at[Slab(r, w)].again
      /\ files[s].at[Slab(r, w)].time = s
  BY <1>1 DEF WindowInv, FileAt
<1>3. files[s].at[Slab(r, w)] \in RankData
  BY <1>1 DEF WindowInv, Base, Types, FileType
<1>6. w.counter = SlidesUpTo(s) /\ w.last = s
  BY <1>1, <1>2 DEF RestoreWindow
<1>7. w.yoffset = -(SlidesUpTo(s) % Devices)
  <2>1. CASE SlidingWindowActive
    BY <1>1, <1>2, <2>1 DEF RestoreWindow
  <2>2. CASE ~SlidingWindowActive
    <3>1. SlidesUpTo(s) = 0
      BY <2>2, NeverSlides, StepTypes
    <3>2. 0 % Devices = 0
      BY Consts, ModSmall
    <3>3. w.yoffset = 0
      BY <1>1, <2>2 DEF RestoreWindow
    <3> QED
      BY <3>1, <3>2, <3>3
  <2> QED
    BY <2>1, <2>2
<1> QED
  BY <1>2, <1>3, <1>6, <1>7 DEF Slid

(* The window of a restart once the background field has been removed.      *)
LEMMA RestartCounts ==
  ASSUME NEW r \in Ranks, NEW s \in Steps, NEW w \in WindowType,
         Slid(w, SlidesUpTo(s), SlidesUpTo(s)), w.last = s, NEW v, v = PushBGWindow(w, s + 1)
  PROVE  /\ Slid(v, SlidesUpTo(s) + Ahead(s, s), SlidesUpTo(s)) /\ Noted(s, v, s)
         /\ Slab(r, v) = Slab(r, w) + Ahead(s, s)
<1>1. PICK n \in Nat : n = SlidesUpTo(s)
  BY SlidesStep
<1>2. s \in Nat /\ s + 1 \in Nat /\ w.last # s + 1 /\ Slab(r, w) \in Nat
  BY StepTypes, PositionType
<1>3. CASE Background /\ SlideInCurrentStep(s + 1)
  <2>1. Ahead(s, s) = 1 /\ v = GetSlideInfo(w, s + 1)
    BY <1>3 DEF Ahead, PushBGWindow
  <2>2. Slid(w, n, n)
    BY <1>1
  <2>3. v \in WindowType /\ Slid(v, n + 1, n) /\ v.last = s + 1 /\ Slab(r, v) = Slab(r, w) + 1
    BY <1>2, <1>3, <2>1, <2>2, CountOnce
  <2> QED
    BY <1>1, <2>1, <2>3 DEF Noted
<1>4. CASE ~(Background /\ SlideInCurrentStep(s + 1))
  <2>1. Ahead(s, s) = 0 /\ v = w
    BY <1>4 DEF Ahead, PushBGWindow, GetSlideInfo
  <2>2. n + 0 = n /\ Slab(r, w) + 0 = Slab(r, w) /\ w.last <= s
    BY <1>2
  <2> QED
    BY <1>1, <2>1, <2>2 DEF Noted
<1> QED
  BY <1>3, <1>4

(* InitRestart keeps the invariant.                                         *)
LEMMA InitRestartKeeps ==
  ASSUME WindowInv, NEW r \in Ranks, InitRestart(r)
  PROVE  WindowInv'
<1>0. Types'
  BY InitRestartAt DEF WindowInv
<1>1. PICK s \in Steps, w \in WindowType : Restarts(r, s, w)
  BY InitRestartAt DEF WindowInv
<1>2. /\ Slid(w, SlidesUpTo(s), SlidesUpTo(s)) /\ w.last = s
      /\ files[s].at[Slab(r, w)] \in RankData
      /\ files[s].at[Slab(r, w)].slab \in Slabs
      /\ files[s].at[Slab(r, w)].slab = Slab(r, w) + files[s].at[Slab(r, w)].again
      /\ files[s].at[Slab(r, w)].time = s
  BY <1>1, RestartFinds
<1>3. /\ OneRank(r) /\ UNCHANGED files /\ CheckpointStep(s)
      /\ pc'[r] = "recheck" /\ cur'[r] = s /\ from'[r] = s
      /\ window'[r] = PushBGWindow(w, s + 1)
      /\ data'[r] = PushBGField(Loaded(files[s].at[Slab(r, w)], s), s + 1, -1)
  BY <1>1 DEF Restarts
<1>4. PICK v : v = window'[r]
  OBVIOUS
<1>5. /\ Slid(v, SlidesUpTo(s) + Ahead(s, s), SlidesUpTo(s)) /\ Noted(s, v, s)
      /\ Slab(r, v) = Slab(r, w) + Ahead(s, s)
  BY <1>2, <1>3, <1>4, RestartCounts
<1>6. PICK e : e = data'[r]
  OBVIOUS
<1>7. e.slab \in Slabs /\ e.slab = Slab(r, v) - Ahead(s, s) + e.again - SlideOf(s) /\ e.time = s
  <2>1. PICK k \in BgSteps : k = s + 1
    BY StepTypes
  <2>2. PICK d \in RankData : d = files[s].at[Slab(r, w)]
    BY <1>2
  <2>3. PICK l : l = Loaded(d, s)
    OBVIOUS
  <2>4. /\ l \in RankData /\ l.slab = d.slab /\ l.time = d.time
        /\ l.again = d.again + SlideOf(s)
    BY <2>3, LoadedParts
  <2>5. e = PushBGField(l, k, -1)
    BY <1>3, <1>6, <2>1, <2>2, <2>3
  <2>6. e.slab = l.slab /\ e.time = l.time /\ e.again = l.again
    BY <2>4, <2>5, SubtractedParts, ZenonT(60)
  <2>7. d.slab \in Slabs /\ d.slab = Slab(r, w) + d.again /\ d.time = s
    BY <1>2, <2>2
  <2>8. PICK a \in {0, 1}, x \in {0, 1} : a = Ahead(s, s) /\ x = SlideOf(s)
    BY OneOrNone
  <2>9. Slab(r, w) \in Int /\ d.again \in Int
    BY PositionType DEF RankData
  <2>10. e.slab = Slab(r, v) - a + e.again - x
    BY <1>5, <2>4, <2>6, <2>7, <2>8, <2>9
  <2> QED
    BY <2>4, <2>6, <2>7, <2>8, <2>10
<1>8. WindowAt("recheck", s, v, s)
  BY <1>5 DEF WindowAt, SettledPlaces, AtCheckpoint
<1>9. DataAt("recheck", s, v, e, r, s)
  BY <1>7 DEF DataAt, SettledPlaces, AtCheckpoint
<1>10. PlaceAt("recheck", s, s)
  BY <1>3 DEF PlaceAt, AtCheckpoint
<1> QED
  BY <1>0, <1>3, <1>4, <1>6, <1>8, <1>9, <1>10, OneRankKeeps

(* Both ways out of movingWindowCheck and dumpOneStep.                      *)
LEMMA LoopHeadAt ==
  ASSUME NEW r \in Ranks
  PROVE  /\ LoopHead(r) \in {"run", "done"}
         /\ from[r] <= cur[r] => PlaceAt(LoopHead(r), cur[r], from[r])
         /\ from[r] < cur[r] => PlaceAt("dump", cur[r], from[r])
         /\ LoopHead(r) \in SettledPlaces /\ "dump" \in SettledPlaces
         /\ AtCheckpoint \subseteq SettledPlaces
BY DEF LoopHead, PlaceAt, SettledPlaces, AtCheckpoint

(* MovingWindowCheck, after a step and after a restart.                     *)
LEMMA ChecksFinds ==
  ASSUME WindowInv, NEW r \in Ranks,
         NEW s \in Steps, NEW w \in WindowType, NEW d \in RankData, Checks(r, s, w, d)
  PROVE  SettledAt(r, s, w, d, from[r]) /\ window'[r] = w
<1>1. /\ s = cur[r] /\ pc[r] \in {"check", "recheck"}
      /\ Slides(r, s, window[r], data[r], w, d)
      /\ window'[r] = PushBGWindow(w, s)
  BY DEF Checks, Slides
<1>2. /\ PlaceAt(pc[r], s, from[r]) /\ WindowAt(pc[r], s, window[r], from[r])
      /\ DataAt(pc[r], s, window[r], data[r], r, from[r])
      /\ window[r] \in WindowType /\ data[r] \in RankData /\ s \in Nat
  BY <1>1, RankFacts
<1>3. SettledAt(r, s, w, d, from[r])
  <2>1. CASE pc[r] = "check"
    <3>1. from[r] < s /\ WindowAt("check", s, window[r], from[r])
          /\ DataAt("check", s, window[r], data[r], r, from[r])
      BY <1>2, <2>1 DEF PlaceAt
    <3> QED
      BY <1>1, <1>2, <3>1, CheckSettles
  <2>2. CASE pc[r] = "recheck"
    <3>1. from[r] = s /\ WindowAt("recheck", s, window[r], s)
          /\ DataAt("recheck", s, window[r], data[r], r, s)
      BY <1>2, <2>2 DEF PlaceAt
    <3>2. SettledAt(r, s, w, d, s)
      BY <1>1, <1>2, <3>1, RecheckSettles
    <3> QED
      BY <3>1, <3>2
  <2> QED
    BY <1>1, <2>1, <2>2
<1>4. PushBGWindow(w, s) = w
  BY <1>2, <1>3, NotedQuery DEF SettledAt
<1> QED
  BY <1>1, <1>3, <1>4

(* movingWindowCheck keeps the invariant.                                   *)
LEMMA MovingWindowCheckKeeps ==
  ASSUME WindowInv, NEW r \in Ranks, MovingWindowCheck(r)
  PROVE  WindowInv'
<1>0. Types'
  BY MovingWindowCheckAt DEF WindowInv
<1>1. PICK s \in Steps, w \in WindowType, d \in RankData : Checks(r, s, w, d)
  BY MovingWindowCheckAt DEF WindowInv
<1>2. SettledAt(r, s, w, d, from[r]) /\ window'[r] = w
  BY <1>1, ChecksFinds
<1>3. /\ OneRank(r) /\ UNCHANGED files /\ s = cur[r] /\ pc[r] \in {"check", "recheck"}
      /\ pc'[r] = IF pc[r] = "check" THEN "dump" ELSE LoopHead(r)
      /\ cur'[r] = s /\ from'[r] = from[r]
      /\ data'[r] = PushBGField(d, s, 1)
  BY <1>1 DEF Checks
<1>4. PICK e : e = data'[r]
  OBVIOUS
<1>5. e.slab = d.slab /\ e.time = d.time /\ e.again = d.again
  <2>1. s \in BgSteps /\ 1 \in Int
    BY StepTypes
  <2>2. e = PushBGField(d, s, 1)
    BY <1>3, <1>4
  <2> QED
    BY <2>1, <2>2, PushedParts, ZenonT(60)
<1>6. SettledAt(r, s, w, e, from[r])
  BY <1>2, <1>5 DEF SettledAt
<1>7. pc'[r] \in SettledPlaces /\ PlaceAt(pc'[r], s, from[r])
  <2>1. PlaceAt(pc[r], s, from[r]) /\ s \in Nat /\ from[r] \in Int
    BY <1>3, RankFacts
  <2>2. CASE pc[r] = "check"
    <3>1. from[r] < cur[r] /\ pc'[r] = "dump"
      BY <1>3, <2>1, <2>2 DEF PlaceAt
    <3> QED
      BY <1>3, <3>1, LoopHeadAt
  <2>3. CASE pc[r] = "recheck"
    <3>1. from[r] = s /\ pc'[r] = LoopHead(r)
      BY <1>3, <2>1, <2>3 DEF PlaceAt
    <3>2. from[r] <= cur[r]
      BY <1>3, <2>1, <3>1
    <3> QED
      BY <1>3, <3>1, <3>2, LoopHeadAt
  <2> QED
    BY <1>3, <2>2, <2>3
<1>8. WindowAt(pc'[r], s, w, from[r]) /\ DataAt(pc'[r], s, w, e, r, from[r])
  BY <1>6, <1>7, SettledKept
<1> QED
  BY <1>0, <1>2, <1>3, <1>4, <1>7, <1>8, OneRankKeeps

(* DumpOneStep keeps the invariant.                                         *)
LEMMA DumpOneStepKeeps ==
  ASSUME WindowInv, NEW r \in Ranks, DumpOneStep(r)
  PROVE  WindowInv'
<1>1. /\ Types' /\ OneRank(r) /\ UNCHANGED files
      /\ pc[r] = "dump"
      /\ pc'[r] = IF CheckpointStep(cur[r]) THEN "barrier" ELSE LoopHead(r)
      /\ cur'[r] = cur[r] /\ window'[r] = window[r] /\ data'[r] = data[r] /\ from'[r] = from[r]
  BY DumpOneStepAt DEF WindowInv
<1>2. SettledAt(r, cur[r], window[r], data[r], from[r])
  BY <1>1, SettledFacts, LoopHeadAt
<1>3. from[r] < cur[r] /\ from[r] <= cur[r]
  BY <1>1, RankFacts DEF PlaceAt
<1>4. pc'[r] \in {"barrier", "run", "done"} /\ PlaceAt(pc'[r], cur[r], from[r])
  BY <1>1, <1>3, LoopHeadAt DEF PlaceAt, AtCheckpoint
<1>5. WindowAt(pc'[r], cur[r], window[r], from[r])
      /\ DataAt(pc'[r], cur[r], window[r], data[r], r, from[r])
  <2>1. pc'[r] \in SettledPlaces
    BY <1>4 DEF SettledPlaces, AtCheckpoint
  <2> QED
    BY <1>2, <2>1, SettledKept
<1> QED
  BY <1>1, <1>4, <1>5, OneRankKeeps

(* RunOneStep keeps the invariant.                                          *)
LEMMA RunOneStepKeeps ==
  ASSUME WindowInv, NEW r \in Ranks, RunOneStep(r)
  PROVE  WindowInv'
<1> DEFINE s == cur[r]
           g == from[r]
<1>1. /\ Types' /\ OneRank(r) /\ UNCHANGED files
      /\ pc[r] = "run"
      /\ pc'[r] = "check" /\ cur'[r] = s + 1 /\ window'[r] = window[r] /\ from'[r] = g
      /\ [data[r] EXCEPT !.time = @ + 1] \in RankData
      /\ data'[r] = PushBGField([data[r] EXCEPT !.time = @ + 1], s, -1)
  BY RunOneStepAt DEF WindowInv
<1>2. /\ s \in Steps /\ s \in Nat /\ data[r] \in RankData /\ window[r] \in WindowType
      /\ g \in Int /\ g <= s
  BY <1>1, RankFacts DEF PlaceAt
<1>3. SettledAt(r, s, window[r], data[r], g)
  <2>1. pc[r] \in SettledPlaces
    BY <1>1 DEF SettledPlaces
  <2> QED
    BY <2>1, SettledFacts
<1> HIDE DEF s, g
<1>4. PICK e : e = data'[r]
  OBVIOUS
<1>5. e.slab = data[r].slab /\ e.again = data[r].again /\ e.time = s + 1
  <2>1. PICK d \in RankData : d = [data[r] EXCEPT !.time = @ + 1]
    BY <1>1
  <2>2. d.slab = data[r].slab /\ d.time = data[r].time + 1 /\ d.again = data[r].again
    BY <1>2, <2>1 DEF RankData
  <2>3. PICK k \in BgSteps : k = s
    BY <1>2, StepTypes
  <2>5. e = PushBGField(d, k, -1)
    BY <1>1, <1>4, <2>1, <2>3
  <2>6. e.slab = d.slab /\ e.time = d.time /\ e.again = d.again
    BY <2>5, SubtractedParts
  <2>7. data[r].time = s
    BY <1>3 DEF SettledAt
  <2> QED
    BY <2>2, <2>6, <2>7
<1>6. (s + 1) - 1 = s /\ g < s + 1
  BY <1>2
<1>7. WindowAt("check", s + 1, window[r], g)
  <2>1. Slid(window[r], SlidesUpTo(s) + Ahead(s, g), SlidesUpTo(s) + SlideOf(g))
        /\ Noted(s, window[r], g)
    BY <1>3 DEF SettledAt
  <2>2. window[r].last \in Nat
    BY <1>2 DEF WindowType
  <2>3. /\ Ahead(s, g) = 1 => window[r].last = s + 1
        /\ Ahead(s, g) = 0 => window[r].last <= s + 1 /\ window[r].last # s + 1
    BY <1>2, <2>1, <2>2 DEF Noted
  <2> QED
    BY <1>6, <2>1, <2>3 DEF WindowAt, SettledPlaces, AtCheckpoint
<1>8. DataAt("check", s + 1, window[r], e, r, g)
  BY <1>3, <1>5, <1>6 DEF DataAt, SettledAt, SettledPlaces, AtCheckpoint
<1>9. PlaceAt("check", s + 1, g)
  BY <1>6 DEF PlaceAt, AtCheckpoint
<1> QED
  BY <1>1, <1>4, <1>7, <1>8, <1>9, OneRankKeeps

-----------------------------------------------------------------------------
(* A rank writes its part of the checkpoint of step s.                      *)
Writes(r, s) ==
  /\ OneRank(r)
  /\ pc[r] = "write" /\ pc'[r] = "written"
  /\ s = cur[r] /\ cur'[r] = s /\ window'[r] = window[r] /\ data'[r] = data[r]
  /\ from'[r] = from[r]
  /\ \A t \in Steps \ {s} : files'[t] = files[t]
  /\ files'[s].slides = SlidesUpTo(s)
  /\ files'[s].at[Slab(r, window[r])] = data[r]
  /\ \A k \in Slabs \ {Slab(r, window[r])} : files'[s].at[k] = files[s].at[k]

(* At a checkpoint a rank is past the step it has restarted from, and       *)
(* nothing is counted early.                                                *)
LEMMA CheckpointFacts ==
  ASSUME WindowInv, NEW r \in Ranks, pc[r] \in AtCheckpoint
  PROVE  /\ window[r].counter = SlidesUpTo(cur[r]) /\ SlidesUpTo(cur[r]) \in Steps
         /\ GetSlideInfo(window[r], cur[r]) = window[r]
         /\ Slab(r, window[r]) =
              Place(r, SlidesUpTo(cur[r]) + SlideOf(from[r])) + SlidesUpTo(cur[r])
         /\ Slab(r, window[r]) \in Slabs
         /\ data[r].slab \in Slabs /\ data[r].slab = Slab(r, window[r]) + data[r].again
         /\ data[r].time = cur[r]
<1>1. pc[r] \in SettledPlaces
  BY DEF SettledPlaces
<1>2. /\ cur[r] \in Nat /\ from[r] \in Int /\ from[r] < cur[r]
      /\ window[r] \in WindowType /\ data[r] \in RankData
  BY RankFacts DEF PlaceAt
<1>3. Ahead(cur[r], from[r]) = 0
  BY <1>2 DEF Ahead
<1>4. PICK n, p : /\ n \in Steps /\ n = SlidesUpTo(cur[r]) /\ n \in Nat
                  /\ p = Position(r, window[r])
  BY <1>1, SettledFacts
<1>5. /\ SettledAt(r, cur[r], window[r], data[r], from[r])
      /\ p = Place(r, n + SlideOf(from[r]))
      /\ Slab(r, window[r]) = p + window[r].counter
      /\ window[r].counter = n + Ahead(cur[r], from[r])
      /\ GetSlideInfo(window[r], cur[r]) = window[r]
  BY <1>1, <1>4, SettledFacts
<1>6. p \in 0 .. Devices - 1 /\ Slab(r, window[r]) \in Nat
  BY <1>2, <1>4, PositionType
<1>7. window[r].counter = n /\ Slab(r, window[r]) = p + n
  BY <1>3, <1>4, <1>5
<1>8. p + n \in Slabs
  BY <1>4, <1>6, Consts DEF Slabs, Steps
<1>9. /\ data[r].slab \in Slabs /\ data[r].time = cur[r]
      /\ data[r].slab = Slab(r, window[r]) - 0 + data[r].again
  BY <1>3, <1>5 DEF SettledAt
<1>10. Slab(r, window[r]) - 0 = Slab(r, window[r])
  BY <1>6
<1> QED
  BY <1>4, <1>5, <1>7, <1>8, <1>9, <1>10

(* What checkpointPlugins does.                                             *)
LEMMA CheckpointAt ==
  ASSUME WindowInv, NEW r \in Ranks, Checkpoint(r)
  PROVE  Types' /\ \E s \in Steps : Writes(r, s)
<1>1. Types
  BY DEF WindowInv, Base
<1>2. pc[r] = "write" /\ pc[r] \in AtCheckpoint
  BY DEF Checkpoint, AtCheckpoint
<1>3. PICK s \in Steps : s = cur[r]
  BY <1>1 DEF Types
<1>4. /\ GetSlideInfo(window[r], s) = window[r] /\ window[r].counter = SlidesUpTo(s)
      /\ SlidesUpTo(s) \in Steps /\ Slab(r, window[r]) \in Slabs
  BY <1>2, <1>3, CheckpointFacts
<1>5. /\ window' = [window EXCEPT ![r] = window[r]]
      /\ files' = [files EXCEPT ![s].slides = window[r].counter,
                                ![s].at[Slab(r, window[r])] = data[r]]
      /\ pc' = [pc EXCEPT ![r] = "written"]
      /\ UNCHANGED <<cur, data, launch, master, crashes, from, rewound>>
  BY <1>3, <1>4 DEF Checkpoint
<1>6. PICK n, k \in Slabs : n = window[r].counter /\ k = Slab(r, window[r])
  BY <1>3, <1>4, Consts DEF Slabs, Steps
<1>7. PICK f \in FileType : f = files[s]
  BY <1>1 DEF Types
<1>8. PICK g : g = [f EXCEPT !.slides = n, !.at[k] = data[r]]
  OBVIOUS
<1>9. /\ g \in FileType /\ g.slides = SlidesUpTo(s)
      /\ g.at = [f.at EXCEPT ![k] = data[r]]
  <2>1. f.at \in [Slabs -> RankData] /\ data[r] \in RankData /\ n \in Steps /\ n = SlidesUpTo(s)
    BY <1>1, <1>4, <1>6 DEF Types, FileType
  <2>2. [f.at EXCEPT ![k] = data[r]] \in [Slabs -> RankData]
    BY <2>1
  <2>3. g.slides = n /\ g.at = [f.at EXCEPT ![k] = data[r]]
    BY <1>8 DEF FileType
  <2>4. g = [slides |-> n, at |-> [f.at EXCEPT ![k] = data[r]]]
    BY <1>8 DEF FileType
  <2>5. g \in FileType
    BY <2>1, <2>2, <2>4 DEF FileType
  <2> QED
    BY <2>1, <2>3, <2>5
<1>10. files' = [files EXCEPT ![s] = g]
  BY <1>5, <1>6, <1>7, <1>8
<1>11. Types'
  <2>1. pc' \in [Ranks -> Places]
    BY <1>1, <1>5 DEF Types, Places
  <2>2. window' \in [Ranks -> WindowType]
    BY <1>1, <1>5 DEF Types
  <2>3. files' \in [Steps -> FileType]
    BY <1>1, <1>9, <1>10 DEF Types
  <2> QED
    BY <1>1, <1>5, <2>1, <2>2, <2>3 DEF Types
<1>12. files'[s] = g /\ \A t \in Steps \ {s} : files'[t] = files[t]
  BY <1>1, <1>10 DEF Types
<1>13. g.at[k] = data[r] /\ \A j \in Slabs \ {k} : g.at[j] = files[s].at[j]
  BY <1>7, <1>9 DEF FileType
<1>14. OneRank(r) /\ pc'[r] = "written" /\ cur'[r] = s /\ window'[r] = window[r]
       /\ data'[r] = data[r] /\ from'[r] = from[r]
  BY <1>1, <1>3, <1>5 DEF OneRank, Types
<1>15. Writes(r, s)
  BY <1>2, <1>3, <1>6, <1>9, <1>12, <1>13, <1>14, ZenonT(60) DEF Writes
<1> QED
  BY <1>11, <1>15

(* Checkpoint keeps the invariant.                                          *)
LEMMA CheckpointKeeps ==
  ASSUME WindowInv, NEW r \in Ranks, Checkpoint(r)
  PROVE  WindowInv'
<1>0. Types'
  BY CheckpointAt
<1>1. PICK s \in Steps : Writes(r, s)
  BY CheckpointAt
<1>2. /\ OneRank(r)
      /\ pc[r] = "write" /\ pc'[r] = "written"
      /\ s = cur[r] /\ cur'[r] = s /\ window'[r] = window[r] /\ data'[r] = data[r]
      /\ from'[r] = from[r]
  BY <1>1 DEF Writes
<1>3. /\ PlaceAt("write", s, from[r]) /\ WindowAt("write", s, window[r], from[r])
      /\ DataAt("write", s, window[r], data[r], r, from[r])
  BY <1>2, RankFacts
<1>4. ASSUME NEW q \in Ranks
      PROVE  PlaceAt(pc'[q], cur'[q], from'[q]) /\ RankInv(q)'
  <2>1. CASE q = r
    <3>1. PlaceAt("written", s, from[r]) /\ WindowAt("written", s, window[r], from[r])
          /\ DataAt("written", s, window[r], data[r], r, from[r])
      BY <1>3 DEF PlaceAt, WindowAt, DataAt, SettledPlaces, AtCheckpoint
    <3> QED
      BY <1>2, <2>1, <3>1 DEF RankInv
  <2>2. CASE q # r
    BY <1>2, <2>2 DEF WindowInv, Base, OneRank, RankInv
  <2> QED
    BY <2>1, <2>2
<1>5. ASSUME NEW t \in Steps PROVE FileAt(files'[t], t)
  <2>0. FileAt(files[t], t)
    BY DEF WindowInv
  <2>1. CASE t = s
    <3>1. /\ data[r].slab \in Slabs /\ data[r].slab = Slab(r, window[r]) + data[r].again
          /\ data[r].time = s
      BY <1>2, CheckpointFacts DEF AtCheckpoint
    <3>2. ASSUME NEW k \in Slabs, files'[s].at[k] # Missing
          PROVE  /\ files'[s].slides = SlidesUpTo(s)
                 /\ files'[s].at[k].slab \in Slabs
                 /\ files'[s].at[k].slab = k + files'[s].at[k].again /\ files'[s].at[k].time = s
      <4>1. CASE k = Slab(r, window[r])
        BY <1>1, <3>1, <4>1 DEF Writes
      <4>2. CASE k # Slab(r, window[r])
        BY <1>1, <2>0, <2>1, <3>2, <4>2 DEF Writes, FileAt
      <4> QED
        BY <4>1, <4>2
    <3> QED
      BY <2>1, <3>2 DEF FileAt
  <2>2. CASE t # s
    BY <1>1, <2>0, <2>2 DEF Writes
  <2> QED
    BY <2>1, <2>2
<1>6. Lines'
  BY <1>2 DEF WindowInv, Base, Lines, OneRank
<1> QED
  BY <1>0, <1>4, <1>5, <1>6 DEF WindowInv, Base

-----------------------------------------------------------------------------
(* The ranks of the job at one place.                                       *)
LEMMA JobAt ==
  ASSUME NEW p, Job = {p}
  PROVE  \A r \in Ranks : pc[r] = p
BY DEF Job

(* A step that changes the places of the ranks only, between settled ones.  *)
LEMMA PlacesKeep ==
  ASSUME WindowInv, UNCHANGED <<cur, window, data, launch, files, master, crashes, from, rewound>>,
         pc' \in [Ranks -> Places],
         \A r \in Ranks :
           \/ pc'[r] = pc[r]
           \/ /\ pc[r] \in SettledPlaces /\ pc'[r] \in SettledPlaces
              /\ PlaceAt(pc'[r], cur[r], from[r])
  PROVE  WindowInv'
<1>1. Types' /\ Lines'
  BY DEF WindowInv, Base, Types, Lines
<1>2. ASSUME NEW q \in Ranks
      PROVE  PlaceAt(pc'[q], cur'[q], from'[q]) /\ RankInv(q)'
  <2>1. PlaceAt(pc[q], cur[q], from[q]) /\ WindowAt(pc[q], cur[q], window[q], from[q])
        /\ DataAt(pc[q], cur[q], window[q], data[q], q, from[q])
    BY RankFacts
  <2>2. CASE pc'[q] = pc[q]
    BY <2>1, <2>2 DEF RankInv
  <2>3. CASE pc[q] \in SettledPlaces /\ pc'[q] \in SettledPlaces
             /\ PlaceAt(pc'[q], cur[q], from[q])
    <3>1. SettledAt(q, cur[q], window[q], data[q], from[q])
      BY <2>3, SettledFacts
    <3>2. PICK p \in SettledPlaces : p = pc'[q]
      BY <2>3
    <3>3. WindowAt(p, cur[q], window[q], from[q]) /\ DataAt(p, cur[q], window[q], data[q], q, from[q])
      BY <3>1, SettledKept
    <3> QED
      BY <2>3, <3>2, <3>3 DEF RankInv
  <2> QED
    BY <2>2, <2>3
<1> QED
  BY <1>1, <1>2 DEF WindowInv, Base

(* The barrier before a checkpoint keeps the invariant.                     *)
LEMMA BarrierKeeps ==
  ASSUME WindowInv, Barrier
  PROVE  WindowInv'
<1>1. /\ \A r \in Ranks : pc[r] = "barrier"
      /\ pc' = [r \in Ranks |-> "create"]
      /\ UNCHANGED <<cur, window, data, launch, files, master, crashes, from, rewound>>
  BY JobAt DEF Barrier
<1>2. \A r \in Ranks : PlaceAt("create", cur[r], from[r])
  BY <1>1, RankFacts DEF PlaceAt, AtCheckpoint
<1>3. \A r \in Ranks :
        pc[r] \in SettledPlaces /\ pc'[r] \in SettledPlaces /\ PlaceAt(pc'[r], cur[r], from[r])
  BY <1>1, <1>2 DEF SettledPlaces, AtCheckpoint
<1>4. pc' \in [Ranks -> Places]
  BY <1>1 DEF Places
<1> QED
  BY <1>1, <1>3, <1>4, PlacesKeep

(* The barrier after a checkpoint keeps the invariant.                      *)
LEMMA WrittenKeeps ==
  ASSUME WindowInv, Written
  PROVE  WindowInv'
<1>1. /\ \A r \in Ranks : pc[r] = "written"
      /\ pc' = [r \in Ranks |-> IF r = 0 THEN "master" ELSE LoopHead(r)]
      /\ UNCHANGED <<cur, window, data, launch, files, master, crashes, from, rewound>>
  BY JobAt DEF Written
<1>2. \A r \in Ranks : PlaceAt("master", cur[r], from[r]) /\ from[r] <= cur[r]
  BY <1>1, RankFacts DEF PlaceAt, AtCheckpoint
<1>3. \A r \in Ranks :
        pc[r] \in SettledPlaces /\ pc'[r] \in SettledPlaces /\ PlaceAt(pc'[r], cur[r], from[r])
  BY <1>1, <1>2, LoopHeadAt DEF SettledPlaces, AtCheckpoint
<1>4. pc' \in [Ranks -> Places]
  BY <1>1 DEF Places, LoopHead
<1> QED
  BY <1>1, <1>3, <1>4, PlacesKeep

(* A rank of a job that is not initialised.                                 *)
LEMMA IdleKept ==
  ASSUME NEW p \in {"down", "init"}, NEW s, NEW w, NEW d, NEW r
  PROVE  PlaceAt(p, s, Fresh) /\ WindowAt(p, s, w, Fresh) /\ DataAt(p, s, w, d, r, Fresh)
BY DEF PlaceAt, WindowAt, DataAt, SettledPlaces, AtCheckpoint

(* The start of a job keeps the invariant.                                  *)
LEMMA LaunchKeeps ==
  ASSUME WindowInv, Launch
  PROVE  WindowInv'
<1>1. /\ pc' = [r \in Ranks |-> "init"]
      /\ launch' \in IF master = <<>> THEN {Fresh}
                     ELSE {Last} \cup
                          (IF AllowRestartStep THEN {master[i] : i \in DOMAIN master} ELSE {})
      /\ rewound' = rewound \cup {s \in Steps : launch' \notin {Fresh, Last} /\ s > launch'}
      /\ \A r \in Ranks : pc[r] = "down"
      /\ UNCHANGED <<cur, window, data, files, master, crashes, from>>
  BY JobAt DEF Launch
<1>2. Types'
  <2>1. rewound' \subseteq Steps
    BY <1>1 DEF WindowInv, Base, Types
  <2> QED
    BY <1>1, <2>1 DEF WindowInv, Base, Types, Places
<1>3. Lines'
  <2>1. DOMAIN master = 1 .. Len(master)
    BY DEF WindowInv, Base, Types
  <2>2. launch' \in {Fresh, Last} \/ \E i \in 1 .. Len(master) : launch' = master[i]
    BY <1>1, <2>1
  <2>3. master = <<>> => launch' = Fresh
    BY <1>1
  <2>4. Fresh # Last
    BY DEF Fresh, Last
  <2> QED
    BY <1>1, <2>2, <2>3, <2>4 DEF WindowInv, Base, Lines
<1>4. \A q \in Ranks : pc'[q] = "init" /\ from'[q] = Fresh
  BY <1>1, RankFacts DEF PlaceAt
<1>5. ASSUME NEW q \in Ranks
      PROVE  PlaceAt(pc'[q], cur'[q], from'[q]) /\ RankInv(q)'
  BY <1>4, IdleKept DEF RankInv
<1> QED
  BY <1>1, <1>2, <1>3, <1>5 DEF WindowInv, Base

(* The death of a job keeps the invariant.                                  *)
LEMMA CrashKeeps ==
  ASSUME WindowInv, Crash
  PROVE  WindowInv'
<1>1. /\ crashes' = crashes + 1
      /\ pc' = [r \in Ranks |-> "down"]
      /\ cur' = [r \in Ranks |-> 0]
      /\ window' = [r \in Ranks |-> NewWindow]
      /\ data' = [r \in Ranks |-> NewData(r, 0)]
      /\ launch' = Fresh
      /\ from' = [r \in Ranks |-> Fresh]
      /\ UNCHANGED <<files, master, rewound>>
  BY DEF Crash
<1>2. Types'
  <2>1. NewWindow \in WindowType /\ \A r \in Ranks : NewData(r, 0) \in RankData
    <3>1. 0 \in Nat /\ \A r \in Ranks : r \in Int
      BY Consts
    <3> QED
      BY <3>1, RestoredType, NewTypes
  <2> QED
    BY <1>1, <2>1, Consts DEF WindowInv, Base, Types, Places
<1>3. Lines'
  BY <1>1 DEF WindowInv, Base, Lines, Fresh, Last
<1>4. \A q \in Ranks : pc'[q] = "down" /\ from'[q] = Fresh
  BY <1>1
<1>5. ASSUME NEW q \in Ranks
      PROVE  PlaceAt(pc'[q], cur'[q], from'[q]) /\ RankInv(q)'
  BY <1>4, IdleKept DEF RankInv
<1> QED
  BY <1>1, <1>2, <1>3, <1>5 DEF WindowInv, Base

(* What the creation of a file does.                                        *)
LEMMA CreateFileAt ==
  ASSUME Base, CreateFile
  PROVE  /\ \A r \in Ranks : pc[r] = "create" /\ pc'[r] = "write"
         /\ files'[cur[0]] = NoFile /\ \A t \in Steps \ {cur[0]} : files'[t] = files[t]
         /\ UNCHANGED <<cur, window, data, launch, master, crashes, from, rewound>>
         /\ Types' /\ cur[0] \in Steps
<1>1. /\ \A r \in Ranks : pc[r] = "create"
      /\ files' = [files EXCEPT ![cur[0]] = NoFile]
      /\ pc' = [r \in Ranks |-> "write"]
      /\ UNCHANGED <<cur, window, data, launch, master, crashes, from, rewound>>
  BY JobAt DEF CreateFile
<1>2. cur[0] \in Steps
  BY Consts DEF Base, Types
<1> QED
  BY <1>1, <1>2, NewTypes DEF Base, Types, Places

(* The creation of a file keeps the invariant.                              *)
LEMMA CreateFileKeeps ==
  ASSUME WindowInv, CreateFile
  PROVE  WindowInv'
<1>1. /\ \A r \in Ranks : pc[r] = "create" /\ pc'[r] = "write"
      /\ files'[cur[0]] = NoFile /\ \A t \in Steps \ {cur[0]} : files'[t] = files[t]
      /\ UNCHANGED <<cur, window, data, launch, master, crashes, from, rewound>>
      /\ Types' /\ cur[0] \in Steps
  BY CreateFileAt DEF WindowInv
<1>2. Lines'
  BY <1>1 DEF WindowInv, Base, Lines
<1>3. ASSUME NEW q \in Ranks
      PROVE  PlaceAt(pc'[q], cur'[q], from'[q]) /\ RankInv(q)'
  <2>1. PlaceAt("create", cur[q], from[q]) /\ WindowAt("create", cur[q], window[q], from[q])
        /\ DataAt("create", cur[q], window[q], data[q], q, from[q])
    BY <1>1, RankFacts
  <2>2. PlaceAt("write", cur[q], from[q]) /\ WindowAt("write", cur[q], window[q], from[q])
        /\ DataAt("write", cur[q], window[q], data[q], q, from[q])
    BY <2>1 DEF PlaceAt, WindowAt, DataAt, SettledPlaces, AtCheckpoint
  <2> QED
    BY <1>1, <2>2 DEF RankInv
<1>4. ASSUME NEW t \in Steps PROVE FileAt(files'[t], t)
  <2>1. CASE t = cur[0]
    BY <1>1, <2>1, NewTypes DEF FileAt
  <2>2. CASE t # cur[0]
    BY <1>1, <2>2 DEF WindowInv
  <2> QED
    BY <2>1, <2>2
<1> QED
  BY <1>1, <1>2, <1>3, <1>4 DEF WindowInv, Base

(* What writeCheckpointStep does.                                           *)
LEMMA WriteCheckpointStepAt ==
  ASSUME Base, WriteCheckpointStep
  PROVE  /\ pc[0] = "master" /\ pc'[0] = LoopHead(0) /\ CheckpointStep(cur[0]) /\ cur[0] \in Steps
         /\ \A q \in Ranks \ {0} : pc'[q] = pc[q]
         /\ pc' \in [Ranks -> Places]
         /\ master' \in Seq(Steps) /\ Len(master') = Len(master) + 1 /\ Len(master) \in Nat
         /\ master'[Len(master) + 1] = cur[0]
         /\ \A i \in 1 .. Len(master) : master'[i] = master[i]
         /\ rewound' = rewound \ {cur[0]}
         /\ UNCHANGED <<cur, window, data, launch, files, crashes, from>>
<1>1. /\ pc[0] = "master"
      /\ master' = Append(master, cur[0])
      /\ rewound' = rewound \ {cur[0]}
      /\ pc' = [pc EXCEPT ![0] = LoopHead(0)]
      /\ UNCHANGED <<cur, window, data, launch, files, crashes, from>>
  BY DEF WriteCheckpointStep
<1>2. cur[0] \in Steps /\ CheckpointStep(cur[0]) /\ master \in Seq(Steps)
  BY <1>1, Consts DEF Base, Types, PlaceAt, AtCheckpoint
<1>3. LoopHead(0) \in Places /\ pc \in [Ranks -> Places] /\ 0 \in Ranks
  BY Consts DEF LoopHead, Places, Base, Types
<1>4. /\ master' \in Seq(Steps) /\ Len(master') = Len(master) + 1 /\ Len(master) \in Nat
      /\ master'[Len(master) + 1] = cur[0]
      /\ \A i \in 1 .. Len(master) : master'[i] = master[i]
  BY <1>1, <1>2
<1> QED
  BY <1>1, <1>2, <1>3, <1>4

(* writeCheckpointStep keeps the invariant.                                 *)
LEMMA WriteCheckpointStepKeeps ==
  ASSUME WindowInv, WriteCheckpointStep
  PROVE  WindowInv'
<1>1. /\ pc[0] = "master" /\ pc'[0] = LoopHead(0) /\ CheckpointStep(cur[0])
      /\ \A q \in Ranks \ {0} : pc'[q] = pc[q]
      /\ pc' \in [Ranks -> Places]
      /\ master' \in Seq(Steps) /\ Len(master') = Len(master) + 1 /\ Len(master) \in Nat
      /\ master'[Len(master) + 1] = cur[0]
      /\ \A i \in 1 .. Len(master) : master'[i] = master[i]
      /\ rewound' = rewound \ {cur[0]}
      /\ UNCHANGED <<cur, window, data, launch, files, crashes, from>>
  BY WriteCheckpointStepAt DEF WindowInv
<1>2. Types'
  BY <1>1 DEF WindowInv, Base, Types
<1>3. Lines'
  <2>1. 1 .. Len(master') = 1 .. Len(master) \cup {Len(master) + 1}
    BY <1>1
  <2>2. Len(master') # 0
    BY <1>1
  <2>3. master' # <<>>
    BY <2>2
  <2>4. \A i \in 1 .. Len(master') : CheckpointStep(master'[i])
    BY <1>1, <2>1 DEF WindowInv, Base, Lines
  <2>5. launch' \in {Fresh, Last} \/ \E i \in 1 .. Len(master') : launch' = master'[i]
    BY <1>1, <2>1 DEF WindowInv, Base, Lines
  <2> QED
    BY <2>3, <2>4, <2>5 DEF Lines
<1>4. ASSUME NEW q \in Ranks
      PROVE  PlaceAt(pc'[q], cur'[q], from'[q]) /\ RankInv(q)'
  <2>1. PlaceAt(pc[q], cur[q], from[q]) /\ WindowAt(pc[q], cur[q], window[q], from[q])
        /\ DataAt(pc[q], cur[q], window[q], data[q], q, from[q])
    BY RankFacts
  <2>2. CASE q = 0
    <3>0. from[q] <= cur[q] /\ pc[q] \in SettledPlaces
      BY <1>1, <2>2, RankFacts DEF PlaceAt, AtCheckpoint, SettledPlaces
    <3>1. LoopHead(q) \in SettledPlaces /\ PlaceAt(LoopHead(q), cur[q], from[q])
      BY <3>0, LoopHeadAt
    <3>2. SettledAt(q, cur[q], window[q], data[q], from[q])
      BY <3>0, SettledFacts
    <3>3. WindowAt(LoopHead(q), cur[q], window[q], from[q])
          /\ DataAt(LoopHead(q), cur[q], window[q], data[q], q, from[q])
      BY <3>1, <3>2, SettledKept
    <3> QED
      BY <1>1, <2>2, <3>1, <3>3 DEF RankInv
  <2>3. CASE q # 0
    BY <1>1, <2>1, <2>3 DEF RankInv
  <2> QED
    BY <2>2, <2>3
<1> QED
  BY <1>1, <1>2, <1>3, <1>4 DEF WindowInv, Base

-----------------------------------------------------------------------------
(* The invariant holds of the state before the first job.                   *)
LEMMA InitWindow ==
  ASSUME Init
  PROVE  WindowInv
<1>1. /\ pc = [r \in Ranks |-> "down"]
      /\ cur = [r \in Ranks |-> 0]
      /\ window = [r \in Ranks |-> NewWindow]
      /\ data = [r \in Ranks |-> NewData(r, 0)]
      /\ launch = Fresh
      /\ files = [s \in Steps |-> NoFile]
      /\ master = <<>>
      /\ crashes = 0
      /\ from = [r \in Ranks |-> Fresh]
      /\ rewound = {}
  BY DEF Init
<1>2. Types
  <2>1. NewWindow \in WindowType /\ \A r \in Ranks : NewData(r, 0) \in RankData
    <3>1. 0 \in Nat /\ \A r \in Ranks : r \in Int
      BY Consts
    <3> QED
      BY <3>1, RestoredType, NewTypes
  <2> QED
    BY <1>1, <2>1, NewTypes, Consts DEF Types, Places
<1>3. Lines
  BY <1>1 DEF Lines, Fresh, Last
<1>4. \A q \in Ranks : pc[q] = "down" /\ from[q] = Fresh
  BY <1>1
<1>5. \A s \in Steps : FileAt(files[s], s)
  BY <1>1, NewTypes DEF FileAt
<1>6. ASSUME NEW q \in Ranks
      PROVE  PlaceAt(pc[q], cur[q], from[q]) /\ RankInv(q)
  BY <1>4, IdleKept DEF RankInv
<1> QED
  BY <1>2, <1>3, <1>5, <1>6 DEF WindowInv, Base

(* Every step keeps it.                                                     *)
LEMMA NextWindow ==
  ASSUME WindowInv, [Next]_vars
  PROVE  WindowInv'
<1>1. CASE Launch
  BY <1>1, LaunchKeeps
<1>2. ASSUME NEW r \in Ranks, InitFresh(r) PROVE WindowInv'
  BY <1>2, InitFreshKeeps
<1>3. ASSUME NEW r \in Ranks, InitRestart(r) PROVE WindowInv'
  BY <1>3, InitRestartKeeps
<1>4. ASSUME NEW r \in Ranks, MovingWindowCheck(r) PROVE WindowInv'
  BY <1>4, MovingWindowCheckKeeps
<1>5. ASSUME NEW r \in Ranks, DumpOneStep(r) PROVE WindowInv'
  BY <1>5, DumpOneStepKeeps
<1>6. ASSUME NEW r \in Ranks, Checkpoint(r) PROVE WindowInv'
  BY <1>6, CheckpointKeeps
<1>7. ASSUME NEW r \in Ranks, RunOneStep(r) PROVE WindowInv'
  BY <1>7, RunOneStepKeeps
<1>8. CASE Barrier
  BY <1>8, BarrierKeeps
<1>9. CASE CreateFile
  BY <1>9, CreateFileKeeps
<1>10. CASE Written
  BY <1>10, WrittenKeeps
<1>11. CASE WriteCheckpointStep
  BY <1>11, WriteCheckpointStepKeeps
<1>12. CASE Crash
  BY <1>12, CrashKeeps
<1>13. CASE UNCHANGED vars
  BY <1>13 DEF vars, WindowInv, Base, Types, Lines, RankInv
<1> QED
  BY <1>1, <1>2, <1>3, <1>4, <1>5, <1>6, <1>7, <1>8, <1>9, <1>10, <1>11, <1>12, <1>13
     DEF Next, Progress, Terminated

(* The slides that a rank has made and counted, the slab and the time of    *)
(* its data and of what the files hold are determined by its step, the step *)
(* it has restarted from and the restarts its data have been through, in    *)
(* every state of every job.                                                *)
THEOREM WindowInductive == Spec => []WindowInv
<1>1. Init => WindowInv
  BY InitWindow
<1>2. WindowInv /\ [Next]_vars => WindowInv'
  BY NextWindow
<1> QED
  BY <1>1, <1>2, PTL DEF Spec

(* However often the job has died and wherever it has restarted, slide has  *)
(* been effective once in each slide step and in no other, but once more in *)
(* the step of a restart that is one, and getCurrentSlideInfo has counted   *)
(* each slide once, if one step early after a restart with background       *)
(* fields.                                                                  *)
THEOREM SlidesOncePerStep == Spec => []OneSlidePerStep
<1>1. WindowInv => OneSlidePerStep
  <2> SUFFICES ASSUME WindowInv, NEW r \in Ranks, Settled(r)
               PROVE  /\ Position(r, window[r]) = (r - SlidesUpTo(cur[r]) - Surplus(r)) % Devices
                      /\ window[r].counter = SlidesUpTo(cur[r]) + Early(r)
    BY DEF OneSlidePerStep
  <2>1. pc[r] \in SettledPlaces
    BY DEF Settled, SettledPlaces, AtCheckpoint
  <2>2. Surplus(r) = SlideOf(from[r]) /\ Early(r) = Ahead(cur[r], from[r])
    BY DEF Surplus, SlideOf, Early, Ahead
  <2>3. PICK n \in Nat, e \in {0, 1} : n = SlidesUpTo(cur[r]) /\ e = SlideOf(from[r])
    BY <2>1, SettledFacts
  <2>4. Position(r, window[r]) = (r - (n + e)) % Devices
        /\ window[r].counter = n + Ahead(cur[r], from[r])
    BY <2>1, <2>3, SettledFacts
  <2>5. r - (n + e) = r - n - e
    BY Consts
  <2> QED
    BY <2>2, <2>3, <2>4, <2>5
<1> QED
  BY <1>1, WindowInductive, PTL

(* The fields and particles of a rank are advanced to its current step, and *)
(* are those of the slab of space it is at after slides and restarts, but   *)
(* for one slab for every restart from a slide step they have been through. *)
THEOREM DataStaysInPlace == Spec => []DataInPlace
<1>1. WindowInv => DataInPlace
  <2> SUFFICES ASSUME WindowInv, NEW r \in Ranks, Settled(r)
               PROVE  /\ data[r].slab = Slab(r, window[r]) - Early(r) + data[r].again
                      /\ data[r].time = cur[r]
    BY DEF DataInPlace
  <2>1. pc[r] \in SettledPlaces
    BY DEF Settled, SettledPlaces, AtCheckpoint
  <2>2. Early(r) = Ahead(cur[r], from[r])
    BY DEF Early, Ahead
  <2> QED
    BY <2>1, <2>2, SettledFacts DEF SettledAt
<1> QED
  BY <1>1, WindowInductive, PTL
-----------------------------------------------------------------------------
(* Rank r has the same checkpoints before it as before.                     *)
SameBehind(r) == \A s \in Steps : CheckpointStep(s) => (Behind(r, s)' <=> Behind(r, s))

(* The other ranks have, if one moves.                                      *)
LEMMA OthersBehind ==
  ASSUME NEW r \in Ranks, OneRank(r), NEW q \in Ranks, q # r
  PROVE  SameBehind(q)
<1>1. Start' = Start
  BY DEF OneRank, Start, RestartStep
<1>2. pc'[q] = pc[q] /\ cur'[q] = cur[q]
  BY DEF OneRank
<1> QED
  BY <1>1, <1>2 DEF SameBehind, Behind

(* The order of the ranks is kept, if none passes a barrier.                *)
LEMMA TogetherKeeps ==
  ASSUME Together, \A r \in Ranks : SameBehind(r)
  PROVE  Together'
<1> SUFFICES ASSUME NEW q \in Ranks, NEW r \in Ranks, NEW s \in Steps,
                    CheckpointStep(s), Behind(q, s)'
             PROVE  Behind(r, s)'
  BY DEF Together
<1>1. Behind(q, s)
  BY DEF SameBehind
<1>2. Behind(r, s)
  BY <1>1 DEF Together
<1> QED
  BY <1>2 DEF SameBehind

(* And so is what the master file names.                                    *)
LEMMA PassedKeeps ==
  ASSUME WindowInv, Unwritten, UNCHANGED <<master, rewound>>, NEW r \in Ranks, SameBehind(r),
         NEW i \in 1 .. Len(master), master[i] \notin rewound
  PROVE  ~Behind(r, master[i])'
<1>1. PICK s \in Steps : s = master[i]
  BY DEF WindowInv, Base, Types
<1>2. CheckpointStep(s) /\ ~Behind(r, s)
  BY <1>1 DEF WindowInv, Base, Lines, Unwritten
<1>3. ~Behind(r, s)'
  BY <1>2 DEF SameBehind
<1>4. s = master'[i]
  BY <1>1
<1> QED
  BY <1>3, <1>4 DEF Behind

(* The ranks keep what they have restarted from, or restart from the same.  *)
LEMMA SameStartKeeps ==
  ASSUME SameStart, Start' = Start,
         \A q \in Ranks :
           /\ pc'[q] = "init" => pc[q] = "init"
           /\ pc'[q] \notin {"down", "init"} =>
                \/ pc[q] \notin {"down", "init"} /\ from'[q] = from[q]
                \/ pc[q] = "init" /\ from'[q] = Start
  PROVE  SameStart'
<1> SUFFICES ASSUME NEW r \in Ranks, NEW q \in Ranks, pc'[r] \notin {"down", "init"}
             PROVE  /\ pc'[q] \notin {"down", "init"} => from'[q] = from'[r]
                    /\ pc'[q] = "init" => from'[r] = Start'
  BY DEF SameStart
<1>1. /\ pc[r] \notin {"down", "init"} /\ pc[q] \notin {"down", "init"} => from[q] = from[r]
      /\ pc[r] \notin {"down", "init"} /\ pc[q] = "init" => from[r] = Start
      /\ pc[q] \notin {"down", "init"} /\ pc[r] = "init" => from[q] = Start
  BY DEF SameStart
<1> QED
  BY <1>1

(* The step of a rank outside of a checkpoint.                              *)
LEMMA RankKeepsFiles ==
  ASSUME FileInv, WindowInv', NEW r \in Ranks, OneRank(r), UNCHANGED files, SameBehind(r),
         from'[r] = IF pc[r] = "init" THEN Start ELSE from[r],
         pc[r] \notin InFile \cup {"down"}, pc'[r] \notin InFile \cup {"down", "init"}
  PROVE  FileInv'
<1>0. UNCHANGED <<launch, master, rewound>>
  BY DEF OneRank
<1>1. \A q \in Ranks : SameBehind(q)
  BY OthersBehind
<1>2. Together'
  BY <1>1, TogetherKeeps DEF FileInv
<1>3. \A q \in Ranks \ {r} : pc'[q] = pc[q] /\ cur'[q] = cur[q] /\ window'[q] = window[q]
                             /\ from'[q] = from[q]
  BY DEF OneRank
<1>9. SameStart'
  <2>1. Start' = Start
    BY <1>0 DEF Start, RestartStep
  <2>2. ASSUME NEW q \in Ranks
        PROVE  /\ pc'[q] = "init" => pc[q] = "init"
               /\ pc'[q] \notin {"down", "init"} =>
                    \/ pc[q] \notin {"down", "init"} /\ from'[q] = from[q]
                    \/ pc[q] = "init" /\ from'[q] = Start
    BY <1>3
  <2> QED
    BY <2>1, <2>2, SameStartKeeps DEF FileInv
<1>4. \A q \in Ranks : pc[q] \notin {"down", "create", "write", "written"}
  BY DEF FileInv, Phases, InFile
<1>5. Phases'
  BY <1>3, <1>4 DEF FileInv, Phases, InFile
<1>6. Unwritten'
  <2> SUFFICES ASSUME NEW q \in Ranks, NEW i \in 1 .. Len(master), master[i] \notin rewound
               PROVE  ~Behind(q, master[i])' /\ (pc'[q] \in InFile => master'[i] # cur'[q])
    BY <1>0 DEF Unwritten
  <2>1. ~Behind(q, master[i])'
    BY <1>0, <1>1, PassedKeeps DEF FileInv
  <2>2. pc'[q] \in InFile => master'[i] # cur'[q]
    BY <1>0, <1>3 DEF FileInv, Unwritten
  <2> QED
    BY <2>1, <2>2
<1>7. Increasing'
  BY <1>0 DEF FileInv, Increasing
<1>8. FilesFull'
  <2>1. \A q \in Ranks : pc'[q] = "written" => files'[cur'[q]].at[Slab(q, window'[q])] # Missing
    BY <1>3 DEF FileInv, FilesFull, InFile
  <2>2. pc'[0] = "master" => Full(files'[cur'[0]], cur'[0])
    BY <1>3, Consts DEF FileInv, FilesFull, InFile
  <2> QED
    BY <1>0, <2>1, <2>2 DEF FileInv, FilesFull
<1> QED
  BY <1>2, <1>5, <1>6, <1>7, <1>8, <1>9 DEF FileInv

(* init does not pass a barrier: it starts where the restart step says.     *)
LEMMA InitFreshFiles ==
  ASSUME FileInv, WindowInv', NEW r \in Ranks, InitFresh(r)
  PROVE  FileInv'
<1>1. /\ OneRank(r) /\ UNCHANGED files
      /\ pc[r] = "init" /\ launch = Fresh /\ pc'[r] = "check" /\ cur'[r] = 0
      /\ from'[r] = from[r]
  BY InitFreshAt DEF FileInv, WindowInv
<1>3. from'[r] = Start
  <2>1. from[r] = Fresh
    BY <1>1, RankFacts DEF FileInv, PlaceAt
  <2> QED
    BY <1>1, <2>1 DEF Start, Fresh
<1>2. SameBehind(r)
  <2> SUFFICES ASSUME NEW s \in Steps PROVE Behind(r, s) /\ Behind(r, s)'
    BY DEF SameBehind
  <2>1. Start = -1
    BY <1>1 DEF Start
  <2>2. s \in Int /\ s >= 0
    BY Consts
  <2>3. Behind(r, s)
    BY <1>1, <2>1, <2>2 DEF Behind
  <2>4. Behind(r, s)'
    BY <1>1, <2>2 DEF Behind
  <2> QED
    BY <2>3, <2>4
<1> QED
  BY <1>1, <1>2, <1>3, RankKeepsFiles DEF InFile

(* A restart does not pass a barrier: it begins after its checkpoint.       *)
LEMMA InitRestartFiles ==
  ASSUME FileInv, WindowInv', NEW r \in Ranks, InitRestart(r)
  PROVE  FileInv'
<1>1. PICK t \in Steps, w \in WindowType : Restarts(r, t, w)
  BY InitRestartAt DEF FileInv, WindowInv
<1>2. /\ OneRank(r) /\ UNCHANGED files
      /\ pc[r] = "init" /\ launch # Fresh /\ t = RestartStep
      /\ pc'[r] = "recheck" /\ cur'[r] = t /\ from'[r] = t
  BY <1>1 DEF Restarts
<1>4. from'[r] = Start
  BY <1>2 DEF Start
<1>3. SameBehind(r)
  <2> SUFFICES ASSUME NEW s \in Steps PROVE Behind(r, s) <=> Behind(r, s)'
    BY DEF SameBehind
  <2>1. Start = t
    BY <1>2 DEF Start
  <2>2. s \in Int /\ t \in Int
    BY Consts
  <2>3. Behind(r, s) <=> s > t
    BY <1>2, <2>1, <2>2 DEF Behind
  <2>4. Behind(r, s)' <=> t < s
    BY <1>2, <2>2 DEF Behind
  <2> QED
    BY <2>2, <2>3, <2>4
<1> QED
  BY <1>2, <1>3, <1>4, RankKeepsFiles DEF InFile

(* movingWindowCheck does not pass a barrier.                               *)
LEMMA MovingWindowCheckFiles ==
  ASSUME FileInv, WindowInv', NEW r \in Ranks, MovingWindowCheck(r)
  PROVE  FileInv'
<1>1. PICK t \in Steps, w \in WindowType, d \in RankData : Checks(r, t, w, d)
  BY MovingWindowCheckAt DEF FileInv, WindowInv
<1>2. /\ OneRank(r) /\ UNCHANGED files
      /\ t = cur[r] /\ pc[r] \in {"check", "recheck"} /\ cur'[r] = t /\ from'[r] = from[r]
      /\ pc'[r] = IF pc[r] = "check" THEN "dump" ELSE LoopHead(r)
  BY <1>1 DEF Checks
<1>3. LoopHead(r) \in {"run", "done"}
  BY LoopHeadAt
<1>4. SameBehind(r)
  BY <1>2, <1>3 DEF SameBehind, Behind
<1> QED
  BY <1>2, <1>3, <1>4, RankKeepsFiles DEF InFile

(* dumpOneStep passes a step without a checkpoint only.                     *)
LEMMA DumpOneStepFiles ==
  ASSUME FileInv, WindowInv', NEW r \in Ranks, DumpOneStep(r)
  PROVE  FileInv'
<1>1. /\ OneRank(r) /\ UNCHANGED files
      /\ pc[r] = "dump" /\ cur'[r] = cur[r] /\ from'[r] = from[r]
      /\ pc'[r] = IF CheckpointStep(cur[r]) THEN "barrier" ELSE LoopHead(r)
  BY DumpOneStepAt DEF FileInv, WindowInv
<1>2. LoopHead(r) \in {"run", "done"}
  BY LoopHeadAt
<1>3. SameBehind(r)
  BY <1>1, <1>2 DEF SameBehind, Behind
<1> QED
  BY <1>1, <1>2, <1>3, RankKeepsFiles DEF InFile

(* runOneStep goes to the step in front of the next barrier at most.        *)
LEMMA RunOneStepFiles ==
  ASSUME FileInv, WindowInv', NEW r \in Ranks, RunOneStep(r)
  PROVE  FileInv'
<1>1. /\ OneRank(r) /\ UNCHANGED files
      /\ pc[r] = "run" /\ pc'[r] = "check" /\ cur'[r] = cur[r] + 1 /\ from'[r] = from[r]
  BY RunOneStepAt DEF FileInv, WindowInv
<1>2. PICK c \in Nat : c = cur[r] /\ cur'[r] = c + 1
  BY <1>1, RankFacts DEF FileInv
<1>3. SameBehind(r)
  <2> SUFFICES ASSUME NEW s \in Steps PROVE Behind(r, s)' <=> Behind(r, s)
    BY DEF SameBehind
  <2>1. Behind(r, s) <=> c < s
    BY <1>1, <1>2 DEF Behind
  <2>2. Behind(r, s)' <=> (c + 1 < s \/ c + 1 = s)
    BY <1>1, <1>2 DEF Behind
  <2>3. s \in Int
    BY Consts
  <2> QED
    BY <2>1, <2>2, <2>3
<1> QED
  BY <1>1, <1>3, RankKeepsFiles DEF InFile

-----------------------------------------------------------------------------
(* There is at most one slide per step.                                     *)
LEMMA SlidesBound ==
  ASSUME NEW s \in Steps
  PROVE  SlidesUpTo(s) \in Nat /\ SlidesUpTo(s) <= RunSteps
<1>1. s \in Int /\ s >= -1 /\ s >= 0 /\ s <= RunSteps /\ RunSteps \in Nat
  BY StepTypes, Consts
<1>2. SlidesUpTo(s) \in Nat /\ SlidesUpTo(s) <= s
  BY <1>1, SlidesType
<1> QED
  BY <1>1, <1>2

(* checkpointPlugins of a rank: what the files have stays, and its slab is  *)
(* added.                                                                   *)
LEMMA CheckpointFiles ==
  ASSUME FileInv, WindowInv', NEW r \in Ranks, Checkpoint(r)
  PROVE  FileInv'
<1>1. PICK c \in Steps : Writes(r, c)
  BY CheckpointAt DEF FileInv
<1>2. /\ OneRank(r)
      /\ pc[r] = "write" /\ pc'[r] = "written"
      /\ c = cur[r] /\ cur'[r] = c /\ window'[r] = window[r] /\ from'[r] = from[r]
  BY <1>1 DEF Writes
<1>0. UNCHANGED <<launch, master, rewound>>
  BY <1>2 DEF OneRank
<1>3. \A q \in Ranks : cur'[q] = cur[q] /\ window'[q] = window[q] /\ from'[q] = from[q]
  BY <1>2 DEF OneRank
<1>4. \A q \in Ranks : pc'[q] = IF q = r THEN "written" ELSE pc[q]
  BY <1>2 DEF OneRank
<1>5. \A q \in Ranks : SameBehind(q)
  <2>1. SameBehind(r)
    BY <1>2 DEF SameBehind, Behind
  <2> QED
    BY <1>2, <2>1, OthersBehind
<1>6. Together'
  BY <1>5, TogetherKeeps DEF FileInv
<1>7. \A q \in Ranks : pc[q] \in {"write", "written"} /\ cur[q] = c
  BY <1>2 DEF FileInv, Phases
<1>8. \A q \in Ranks : pc'[q] \in {"write", "written"} /\ cur'[q] = c
  BY <1>3, <1>4, <1>7
<1>9. Phases'
  BY <1>8 DEF Phases, InFile
<1>15. SameStart'
  <2>1. Start' = Start
    BY <1>0 DEF Start, RestartStep
  <2>2. \A q \in Ranks : pc[q] \notin {"down", "init"} /\ pc'[q] \notin {"down", "init"}
    BY <1>7, <1>8
  <2> QED
    BY <1>3, <2>1, <2>2, SameStartKeeps DEF FileInv
<1>10. Unwritten'
  <2> SUFFICES ASSUME NEW q \in Ranks, NEW i \in 1 .. Len(master), master[i] \notin rewound
               PROVE  ~Behind(q, master[i])' /\ master'[i] # cur'[q]
    BY <1>0 DEF Unwritten
  <2>1. ~Behind(q, master[i])'
    BY <1>0, <1>5, PassedKeeps DEF FileInv
  <2>2. master[i] # cur[q]
    BY <1>7 DEF FileInv, Unwritten, InFile
  <2> QED
    BY <1>0, <1>3, <2>1, <2>2
<1>11. Increasing'
  BY <1>0 DEF FileInv, Increasing
<1>12. Slab(r, window[r]) \in Slabs /\ data[r] # Missing
  <2>1. Slab(r, window[r]) \in Slabs /\ data[r].slab \in Slabs
    BY <1>2, CheckpointFacts DEF FileInv, AtCheckpoint
  <2>2. Missing.slab = -1 /\ -1 \notin Slabs
    BY NewTypes DEF Slabs
  <2> QED
    BY <2>1, <2>2
<1>13. ASSUME NEW t \in Steps, NEW k \in Slabs, files[t].at[k] # Missing
       PROVE  files'[t].at[k] # Missing
  <2>1. CASE t # c
    BY <1>1, <1>13, <2>1 DEF Writes
  <2>2. CASE t = c /\ k # Slab(r, window[r])
    BY <1>1, <1>13, <2>2 DEF Writes
  <2>3. CASE t = c /\ k = Slab(r, window[r])
    BY <1>1, <1>12, <2>3 DEF Writes
  <2> QED
    BY <2>1, <2>2, <2>3
<1>14. FilesFull'
  <2>1. \A i \in 1 .. Len(master) :
          master[i] \notin rewound => Full(files'[master[i]], master[i])
    <3> SUFFICES ASSUME NEW i \in 1 .. Len(master), master[i] \notin rewound,
                        NEW k \in SlidesUpTo(master[i]) .. SlidesUpTo(master[i]) + Devices - 1
                 PROVE  files'[master[i]].at[k] # Missing
      BY DEF Full
    <3>1. PICK t \in Steps : t = master[i]
      BY DEF FileInv, WindowInv, Base, Types
    <3>2. SlidesUpTo(t) \in Nat /\ SlidesUpTo(t) <= RunSteps
      BY SlidesBound
    <3>3. k \in Slabs
      BY <3>1, <3>2, Consts DEF Slabs
    <3>4. files[t].at[k] # Missing
      BY <3>1 DEF FileInv, FilesFull, Full
    <3> QED
      BY <1>13, <3>1, <3>3, <3>4
  <2>2. ASSUME NEW q \in Ranks, pc'[q] = "written"
        PROVE  files'[cur'[q]].at[Slab(q, window'[q])] # Missing
    <3>1. CASE q = r
      BY <1>1, <1>2, <1>12, <3>1 DEF Writes
    <3>2. CASE q # r
      <4>1. pc[q] = "written" /\ cur'[q] = c /\ cur[q] = c /\ window'[q] = window[q]
        BY <1>3, <1>4, <1>7, <2>2, <3>2
      <4>2. Slab(q, window[q]) \in Slabs /\ files[c].at[Slab(q, window[q])] # Missing
        BY <4>1, CheckpointFacts DEF FileInv, FilesFull, AtCheckpoint
      <4> QED
        BY <1>13, <4>1, <4>2
    <3> QED
      BY <3>1, <3>2
  <2>3. pc'[0] # "master"
    BY <1>8, Consts
  <2> QED
    BY <1>0, <2>1, <2>2, <2>3 DEF FilesFull
<1> QED
  BY <1>6, <1>9, <1>10, <1>11, <1>14, <1>15 DEF FileInv

(* The barrier before a checkpoint: all ranks are in the same step, which   *)
(* the master file does not name.                                           *)
LEMMA BarrierFiles ==
  ASSUME FileInv, WindowInv', Barrier
  PROVE  FileInv'
<1>1. /\ \A r \in Ranks : pc[r] = "barrier" /\ pc'[r] = "create"
      /\ UNCHANGED <<cur, window, data, launch, files, master, crashes, from, rewound>>
  BY JobAt DEF Barrier
<1>2. \A r \in Ranks : cur[r] \in Steps /\ CheckpointStep(cur[r]) /\ Behind(r, cur[r])
  <2> TAKE r \in Ranks
  <2>1. cur[r] \in Steps /\ PlaceAt(pc[r], cur[r], from[r])
    BY RankFacts DEF FileInv
  <2> QED
    BY <1>1, <2>1 DEF PlaceAt, AtCheckpoint, Behind
<1>3. \A q, r \in Ranks : cur[q] = cur[r]
  <2>1. \A q, r \in Ranks : cur[r] <= cur[q]
    <3> TAKE q, r \in Ranks
    <3>1. PICK s \in Steps : s = cur[q]
      BY <1>2
    <3>2. Behind(r, s)
      BY <1>2, <3>1 DEF FileInv, Together
    <3>3. PICK t \in Steps : t = cur[r]
      BY <1>2
    <3>4. t < s \/ t = s
      BY <1>1, <3>2, <3>3 DEF Behind
    <3>5. t <= s
      BY <3>4, Consts
    <3> QED
      BY <3>1, <3>3, <3>5
  <2> TAKE q, r \in Ranks
  <2>2. PICK s \in Steps, t \in Steps : s = cur[q] /\ t = cur[r] /\ s <= t /\ t <= s
    BY <1>2, <2>1
  <2>3. s = t
    BY <2>2, Consts
  <2> QED
    BY <2>2, <2>3
<1>4. \A r \in Ranks, s \in Steps : Behind(r, s)' <=> cur[r] < s
  BY <1>1 DEF Behind
<1>5. Together'
  BY <1>3, <1>4 DEF Together
<1>6. Phases'
  BY <1>1, <1>3 DEF Phases, InFile
<1>9. SameStart'
  <2>1. Start' = Start
    BY <1>1 DEF Start, RestartStep
  <2> QED
    BY <1>1, <2>1, SameStartKeeps DEF FileInv
<1>7. Unwritten'
  <2> SUFFICES ASSUME NEW r \in Ranks, NEW i \in 1 .. Len(master), master[i] \notin rewound
               PROVE  ~Behind(r, master[i])' /\ master'[i] # cur'[r]
    BY <1>1 DEF Unwritten
  <2>1. PICK s \in Steps : s = master[i] /\ s = master'[i]
    BY <1>1 DEF FileInv, WindowInv, Base, Types
  <2>2. ~Behind(r, s)
    BY <2>1 DEF FileInv, Unwritten
  <2>3. ~(cur[r] < s) /\ cur[r] # s
    BY <1>1, <2>2 DEF Behind
  <2>4. ~Behind(r, s)'
    BY <1>4, <2>3
  <2>5. ~Behind(r, master[i])'
    BY <2>1, <2>4 DEF Behind
  <2> QED
    BY <1>1, <2>1, <2>3, <2>5
<1>8. Increasing' /\ FilesFull'
  BY <1>1, Consts DEF FileInv, Increasing, FilesFull
<1> QED
  BY <1>5, <1>6, <1>7, <1>8, <1>9 DEF FileInv

(* The file that is created is one that the master file does not name.      *)
LEMMA CreateFileFiles ==
  ASSUME FileInv, WindowInv', CreateFile
  PROVE  FileInv'
<1>1. /\ \A r \in Ranks : pc[r] = "create" /\ pc'[r] = "write"
      /\ \A t \in Steps \ {cur[0]} : files'[t] = files[t]
      /\ UNCHANGED <<cur, window, data, launch, master, crashes, from, rewound>>
  BY CreateFileAt DEF FileInv, WindowInv
<1>2. \A r \in Ranks : SameBehind(r)
  BY <1>1 DEF SameBehind, Behind
<1>3. Together'
  BY <1>2, TogetherKeeps DEF FileInv
<1>4. Phases'
  BY <1>1 DEF FileInv, Phases, InFile
<1>5. \A r \in Ranks, i \in 1 .. Len(master) : master[i] \notin rewound => master[i] # cur[r]
  BY <1>1 DEF FileInv, Unwritten, InFile
<1>9. SameStart'
  <2>1. Start' = Start
    BY <1>1 DEF Start, RestartStep
  <2> QED
    BY <1>1, <2>1, SameStartKeeps DEF FileInv
<1>6. Unwritten'
  <2> SUFFICES ASSUME NEW r \in Ranks, NEW i \in 1 .. Len(master), master[i] \notin rewound
               PROVE  ~Behind(r, master[i])' /\ master'[i] # cur'[r]
    BY <1>1 DEF Unwritten
  <2>1. ~Behind(r, master[i])'
    BY <1>1, <1>2, PassedKeeps DEF FileInv
  <2> QED
    BY <1>1, <1>5, <2>1
<1>7. FilesFull'
  <2>1. \A i \in 1 .. Len(master) : master[i] \notin rewound => master[i] \in Steps \ {cur[0]}
    BY <1>5, Consts DEF FileInv, WindowInv, Base, Types
  <2> QED
    BY <1>1, <2>1, Consts DEF FileInv, FilesFull
<1>8. Increasing'
  BY <1>1 DEF FileInv, Increasing
<1> QED
  BY <1>3, <1>4, <1>6, <1>7, <1>8, <1>9 DEF FileInv

(* The barrier after a checkpoint: each slab has been written.              *)
LEMMA WrittenFiles ==
  ASSUME FileInv, WindowInv', Written
  PROVE  FileInv'
<1>1. /\ \A r \in Ranks : pc[r] = "written"
      /\ \A r \in Ranks : pc'[r] = IF r = 0 THEN "master" ELSE LoopHead(r)
      /\ UNCHANGED <<cur, window, data, launch, files, master, crashes, from, rewound>>
  BY JobAt DEF Written
<1>2. \A r \in Ranks : LoopHead(r) \in {"run", "done"}
  BY LoopHeadAt
<1>3. \A r \in Ranks : SameBehind(r)
  <2> TAKE r \in Ranks
  <2>1. pc[r] = "written" /\ pc'[r] \in {"master", "run", "done"} /\ cur'[r] = cur[r]
    BY <1>1, <1>2
  <2> QED
    BY <2>1 DEF SameBehind, Behind
<1>4. Together'
  BY <1>3, TogetherKeeps DEF FileInv
<1>5. Phases'
  BY <1>1, <1>2 DEF Phases, InFile
<1>10. SameStart'
  <2>1. Start' = Start
    BY <1>1 DEF Start, RestartStep
  <2> QED
    BY <1>1, <1>2, <2>1, SameStartKeeps DEF FileInv
<1>6. Unwritten'
  <2> SUFFICES ASSUME NEW r \in Ranks, NEW i \in 1 .. Len(master), master[i] \notin rewound
               PROVE  ~Behind(r, master[i])' /\ master'[i] # cur'[r]
    BY <1>1 DEF Unwritten
  <2>1. ~Behind(r, master[i])'
    BY <1>1, <1>3, PassedKeeps DEF FileInv
  <2>2. master[i] # cur[r]
    BY <1>1 DEF FileInv, Unwritten, InFile
  <2> QED
    BY <1>1, <2>1, <2>2
<1>7. Full(files[cur[0]], cur[0])
  <2>1. PICK c \in Steps : c = cur[0] /\ \A r \in Ranks : cur[r] = c
    BY <1>1, Consts DEF FileInv, Phases, WindowInv, Base, Types
  <2>2. PICK n \in Nat : n = SlidesUpTo(c)
    BY SlidesBound
  <2>4. PICK e \in {0, 1} : e = SlideOf(from[0])
    BY OneOrNone
  <2>5. \A r \in Ranks : SlideOf(from[r]) = e
    BY <1>1, <2>4, Consts DEF FileInv, SameStart
  <2>6. n + e \in Nat
    OBVIOUS
  <2>3. ASSUME NEW k \in n .. n + Devices - 1 PROVE files[c].at[k] # Missing
    <3>1. k - n \in 0 .. Devices - 1
      BY Consts
    <3>2. PICK r \in Ranks : Place(r, n + e) = k - n
      BY <2>6, <3>1, PlaceTaken
    <3>3. Slab(r, window[r]) = Place(r, n + e) + n
      BY <1>1, <2>1, <2>2, <2>5, CheckpointFacts DEF FileInv, AtCheckpoint
    <3>4. Slab(r, window[r]) = k
      BY <3>1, <3>2, <3>3
    <3>5. files[cur[r]].at[Slab(r, window[r])] # Missing
      BY <1>1 DEF FileInv, FilesFull
    <3> QED
      BY <2>1, <3>4, <3>5
  <2> QED
    BY <2>1, <2>2, <2>3 DEF Full
<1>8. FilesFull'
  <2>1. \A r \in Ranks : pc'[r] # "written"
    BY <1>1, <1>2
  <2> QED
    BY <1>1, <1>7, <2>1 DEF FileInv, FilesFull
<1>9. Increasing'
  BY <1>1 DEF FileInv, Increasing
<1> QED
  BY <1>4, <1>5, <1>6, <1>8, <1>9, <1>10 DEF FileInv

(* The line that rank 0 adds is the latest of all, and of a full file.      *)
LEMMA WriteCheckpointStepFiles ==
  ASSUME FileInv, WindowInv', WriteCheckpointStep
  PROVE  FileInv'
<1> DEFINE L == Len(master)
<1>1. /\ pc[0] = "master" /\ pc'[0] = LoopHead(0) /\ CheckpointStep(cur[0]) /\ cur[0] \in Steps
      /\ \A q \in Ranks \ {0} : pc'[q] = pc[q]
      /\ Len(master') = L + 1 /\ L \in Nat
      /\ master'[L + 1] = cur[0]
      /\ \A i \in 1 .. L : master'[i] = master[i]
      /\ rewound' = rewound \ {cur[0]}
      /\ UNCHANGED <<cur, window, data, launch, files, crashes, from>>
  BY WriteCheckpointStepAt DEF FileInv, WindowInv
<1>2. LoopHead(0) \in {"run", "done"} /\ 0 \in Ranks
  BY LoopHeadAt, Consts
<1>3. \A q \in Ranks : pc[q] \notin {"down", "init", "create", "write", "written"}
                       /\ (pc[q] = "master" => q = 0)
  BY <1>1, <1>2 DEF FileInv, Phases, InFile
<1>4. \A q \in Ranks : pc'[q] \notin InFile \cup {"down", "init"}
  BY <1>1, <1>2, <1>3 DEF InFile
<1>5. \A q \in Ranks : SameBehind(q)
  <2> TAKE q \in Ranks
  <2>1. CASE q = 0
    BY <1>1, <1>2, <2>1 DEF SameBehind, Behind
  <2>2. CASE q # 0
    <3>1. pc'[q] = pc[q] /\ cur'[q] = cur[q] /\ pc[q] # "init"
      BY <1>1, <1>3, <2>2
    <3> QED
      BY <3>1 DEF SameBehind, Behind
  <2> QED
    BY <2>1, <2>2
<1>6. Together'
  BY <1>5, TogetherKeeps DEF FileInv
<1>7. Phases'
  BY <1>4 DEF Phases, InFile
<1>15. SameStart'
  <2>1. \A q \in Ranks : from'[q] = from[q]
    BY <1>1
  <2>2. \A q, r \in Ranks : from[q] = from[r]
    BY <1>3 DEF FileInv, SameStart
  <2> QED
    BY <1>4, <2>1, <2>2 DEF SameStart
<1>8. PICK c \in Steps : c = cur[0] /\ rewound' = rewound \ {c}
  BY <1>1
<1>9. \A q \in Ranks : ~Behind(q, c)
  <2>1. ~Behind(0, c)
    BY <1>1, <1>8, Consts DEF Behind
  <2> QED
    BY <1>1, <1>2, <1>8, <2>1 DEF FileInv, Together
<1>10. \A i \in 1 .. L : master[i] \notin rewound' => master[i] <= c
  <2> SUFFICES ASSUME NEW i \in 1 .. L, master[i] \notin rewound', master[i] # c
               PROVE  master[i] <= c
    BY <1>8, Consts
  <2>1. PICK s \in Steps : s = master[i]
    BY DEF FileInv, WindowInv, Base, Types
  <2>2. ~Behind(0, s)
    BY <1>2, <1>8, <2>1 DEF FileInv, Unwritten
  <2>3. ~(c < s)
    BY <1>1, <1>8, <2>2 DEF Behind
  <2> QED
    BY <2>1, <2>3, Consts
<1>11. \A i \in 1 .. L + 1 : i \in 1 .. L \/ i = L + 1
  BY <1>1
<1>12. Unwritten'
  <2> SUFFICES ASSUME NEW q \in Ranks, NEW i \in 1 .. L + 1, master'[i] \notin rewound'
               PROVE  ~Behind(q, master[i])'
    BY <1>1, <1>4 DEF Unwritten
  <2>1. PICK s \in Steps : s = master'[i] /\ CheckpointStep(s) /\ ~Behind(q, s)
    <3>1. CASE i = L + 1
      BY <1>1, <1>8, <1>9, <3>1
    <3>2. CASE i \in 1 .. L
      <4>0. master[i] = c \/ master[i] \notin rewound
        BY <1>1, <1>8, <3>2
      <4>1. master[i] \in Steps /\ CheckpointStep(master[i]) /\ ~Behind(q, master[i])
        BY <1>9, <3>2, <4>0 DEF FileInv, WindowInv, Base, Types, Lines, Unwritten
      <4> QED
        BY <1>1, <3>2, <4>1
    <3> QED
      BY <1>11, <3>1, <3>2
  <2>2. ~Behind(q, s)'
    BY <1>5, <2>1 DEF SameBehind
  <2> QED
    BY <2>1, <2>2 DEF Behind
<1>13. Increasing'
  <2>1. \A i \in 1 .. L + 1 : master'[i] \notin rewound' => master'[i] <= c
    BY <1>1, <1>8, <1>10, <1>11, Consts
  <2> QED
    BY <1>1, <1>8, <2>1 DEF Increasing
<1>14. FilesFull'
  <2>1. Full(files[c], c)
    BY <1>1, <1>8 DEF FileInv, FilesFull
  <2>2. \A i \in 1 .. L + 1 : master'[i] \notin rewound' => Full(files'[master'[i]], master'[i])
    BY <1>1, <1>8, <1>11, <2>1 DEF FileInv, FilesFull
  <2>3. \A q \in Ranks : pc'[q] # "written" /\ pc'[q] # "master"
    BY <1>4 DEF InFile
  <2> QED
    BY <1>1, <1>2, <2>2, <2>3 DEF FilesFull
<1> QED
  BY <1>6, <1>7, <1>12, <1>13, <1>14, <1>15 DEF FileInv

(* A job is started: all ranks begin after the last line, or after one     *)
(* with all that are later gone back behind.                                *)
LEMMA LaunchFiles ==
  ASSUME FileInv, WindowInv', Launch
  PROVE  FileInv'
<1>1. /\ \A r \in Ranks : pc'[r] = "init"
      /\ launch' \in IF master = <<>> THEN {Fresh}
                     ELSE {Last} \cup
                          (IF AllowRestartStep THEN {master[i] : i \in DOMAIN master} ELSE {})
      /\ rewound' = rewound \cup {s \in Steps : launch' \notin {Fresh, Last} /\ s > launch'}
      /\ UNCHANGED <<cur, window, data, files, master, crashes>>
  BY DEF Launch
<1>2. \A r \in Ranks, s \in Steps : Behind(r, s)' <=> s > Start'
  BY <1>1 DEF Behind
<1>3. Together'
  BY <1>2 DEF Together
<1>4. Phases' /\ SameStart'
  BY <1>1 DEF Phases, InFile, SameStart
<1>5. Unwritten'
  <2> SUFFICES ASSUME NEW r \in Ranks, NEW i \in 1 .. Len(master), master[i] \notin rewound'
               PROVE  ~Behind(r, master[i])'
    BY <1>1 DEF Unwritten, InFile
  <2>0. master \in Seq(Steps)
    BY DEF FileInv, WindowInv, Base, Types
  <2>1. Len(master) \in 1 .. Len(master) /\ master # <<>>
    BY <2>0
  <2>2. PICK s \in Steps, t \in Steps : s = master[i] /\ t = master[Len(master)]
    BY <2>0, <2>1
  <2>7. \A x \in Steps : x # Fresh /\ x # Last
    BY Consts DEF Fresh, Last
  <2>3. ~(s > Start')
    <3>1. CASE launch' = Last
      <4>1. s <= t
        BY <1>1, <2>2 DEF FileInv, Increasing
      <4>2. Start' = t
        BY <1>1, <2>2, <3>1 DEF Start, RestartStep, Fresh, Last
      <4> QED
        BY <4>1, <4>2, Consts
    <3>2. CASE launch' # Last
      <4>1. PICK x \in Steps : x = launch'
        BY <1>1, <2>0, <2>1, <3>2
      <4>2. ~(s > x)
        BY <1>1, <2>2, <2>7, <4>1
      <4>3. Start' = x
        BY <2>7, <3>2, <4>1 DEF Start, RestartStep
      <4> QED
        BY <4>2, <4>3
    <3> QED
      BY <3>1, <3>2
  <2>5. ~Behind(r, s)'
    BY <1>2, <2>3
  <2>6. s = master'[i]
    BY <1>1, <2>2
  <2> QED
    BY <2>5, <2>6 DEF Behind
<1>6. Increasing' /\ FilesFull'
  <2>1. \A x : x \notin rewound' => x \notin rewound
    BY <1>1
  <2> QED
    BY <1>1, <2>1, Consts DEF FileInv, Increasing, FilesFull
<1> QED
  BY <1>3, <1>4, <1>5, <1>6 DEF FileInv

(* The death of a job leaves the files as they are.                         *)
LEMMA CrashFiles ==
  ASSUME FileInv, WindowInv', Crash
  PROVE  FileInv'
<1>1. /\ \A r \in Ranks : pc'[r] = "down"
      /\ UNCHANGED <<files, master, rewound>>
  BY DEF Crash
<1> QED
  BY <1>1, Consts
     DEF FileInv, Together, SameStart, Behind, Phases, InFile, Unwritten, Increasing, FilesFull

(* The invariant of the files holds of the state before the first job.      *)
LEMMA InitFiles ==
  ASSUME Init
  PROVE  FileInv
<1>1. (\A r \in Ranks : pc[r] = "down") /\ master = <<>>
  BY DEF Init
<1>2. Len(master) = 0 /\ 1 .. Len(master) = {}
  BY <1>1
<1> QED
  BY <1>1, <1>2, InitWindow, Consts
     DEF FileInv, Together, SameStart, Behind, Phases, InFile, Unwritten, Increasing, FilesFull

(* Every step keeps it.                                                     *)
LEMMA NextFiles ==
  ASSUME FileInv, [Next]_vars
  PROVE  FileInv'
<1>0. WindowInv'
  BY NextWindow DEF FileInv
<1>1. CASE Launch
  BY <1>0, <1>1, LaunchFiles
<1>2. ASSUME NEW r \in Ranks, InitFresh(r) PROVE FileInv'
  BY <1>0, <1>2, InitFreshFiles
<1>3. ASSUME NEW r \in Ranks, InitRestart(r) PROVE FileInv'
  BY <1>0, <1>3, InitRestartFiles
<1>4. ASSUME NEW r \in Ranks, MovingWindowCheck(r) PROVE FileInv'
  BY <1>0, <1>4, MovingWindowCheckFiles
<1>5. ASSUME NEW r \in Ranks, DumpOneStep(r) PROVE FileInv'
  BY <1>0, <1>5, DumpOneStepFiles
<1>6. ASSUME NEW r \in Ranks, Checkpoint(r) PROVE FileInv'
  BY <1>0, <1>6, CheckpointFiles
<1>7. ASSUME NEW r \in Ranks, RunOneStep(r) PROVE FileInv'
  BY <1>0, <1>7, RunOneStepFiles
<1>8. CASE Barrier
  BY <1>0, <1>8, BarrierFiles
<1>9. CASE CreateFile
  BY <1>0, <1>9, CreateFileFiles
<1>10. CASE Written
  BY <1>0, <1>10, WrittenFiles
<1>11. CASE WriteCheckpointStep
  BY <1>0, <1>11, WriteCheckpointStepFiles
<1>12. CASE Crash
  BY <1>0, <1>12, CrashFiles
<1>13. CASE UNCHANGED vars
  <2>1. UNCHANGED <<pc, cur, window, data, launch, files, master, crashes, from, rewound>>
    BY <1>13 DEF vars
  <2>2. Start' = Start
    BY <2>1 DEF Start, RestartStep
  <2>3. Together' /\ Unwritten'
    BY <2>1, <2>2 DEF FileInv, Together, Unwritten, Behind
  <2>4. Phases' /\ Increasing' /\ FilesFull' /\ SameStart'
    BY <2>1, <2>2 DEF FileInv, Phases, Increasing, FilesFull, SameStart
  <2> QED
    BY <1>0, <2>3, <2>4 DEF FileInv
<1> QED
  BY <1>1, <1>2, <1>3, <1>4, <1>5, <1>6, <1>7, <1>8, <1>9, <1>10, <1>11, <1>12, <1>13
     DEF Next, Progress, Terminated

(* The ranks pass the barriers of a checkpoint together, and the file of a  *)
(* step is not opened again once the master file names the step, unless a   *)
(* --restart-step goes back behind it.                                      *)
THEOREM FilesInductive == Spec => []FileInv
<1>1. Init => FileInv
  BY InitFiles
<1>2. FileInv /\ [Next]_vars => FileInv'
  BY NextFiles
<1> QED
  BY <1>1, <1>2, PTL DEF Spec

(* Wherever the job dies, every step that writeCheckpointStep has put into  *)
(* the master file is that of a complete checkpoint, until a --restart-step *)
(* goes back behind it, and again once it has been written again.           *)
THEOREM LinesAreUsable == Spec => []CheckpointUsable
<1>1. FileInv => CheckpointUsable
  <2> SUFFICES ASSUME FileInv, NEW i \in DOMAIN master, NEW f, f = files[master[i]],
                      master[i] \notin rewound,
                      NEW k \in f.slides .. f.slides + Devices - 1
               PROVE  /\ f.at[k] # Missing /\ f.at[k].time = master[i]
                      /\ f.at[k].slab = k + f.at[k].again
    BY DEF CheckpointUsable
  <2>1. i \in 1 .. Len(master) /\ master[i] \in Steps
    BY DEF FileInv, WindowInv, Base, Types
  <2>2. PICK s \in Steps : s = master[i]
    BY <2>1
  <2>3. PICK n \in Nat : n = SlidesUpTo(s) /\ n <= RunSteps
    BY SlidesBound
  <2>4. \A j \in n .. n + Devices - 1 : f.at[j] # Missing /\ j \in Slabs
    <3>1. Full(f, s)
      BY <2>1, <2>2 DEF FileInv, FilesFull
    <3>2. \A j \in n .. n + Devices - 1 : j \in Slabs
      BY <2>3, Consts DEF Slabs
    <3> QED
      BY <2>3, <3>1, <3>2 DEF Full
  <2>5. FileAt(f, s)
    BY <2>2 DEF FileInv, WindowInv
  <2>6. n \in n .. n + Devices - 1
    BY Consts
  <2>7. f.slides = n
    BY <2>3, <2>4, <2>5, <2>6 DEF FileAt
  <2> QED
    BY <2>2, <2>4, <2>5, <2>7 DEF FileAt
<1> QED
  BY <1>1, FilesInductive, PTL

-----------------------------------------------------------------------------
(* What restarts leave, and what one more from step t adds.                 *)
LEMMA ResidueChanges ==
  ASSUME NEW past \in [Steps -> Nat], NEW t \in Steps, NEW k \in BgSteps
  PROVE  /\ Residue(past, k) \in Int
         /\ Residue([past EXCEPT ![t] = @ + 1], k) =
              Residue(past, k) + (IF k = t THEN 1 ELSE 0) - (IF k = t + 1 THEN 1 ELSE 0)
<1>0. k \in Int /\ t \in Int /\ RunSteps \in Nat /\ Steps = 0 .. RunSteps
  BY Consts DEF BgSteps, Steps
<1> DEFINE more == [past EXCEPT ![t] = @ + 1]
<1>1. more \in [Steps -> Nat] /\ DOMAIN past = Steps /\ DOMAIN more = Steps
  OBVIOUS
<1>2. \A j \in Steps : past[j] \in Nat /\ more[j] = IF j = t THEN past[j] + 1 ELSE past[j]
  OBVIOUS
<1> HIDE DEF more
<1> DEFINE a == IF k \in Steps THEN past[k] ELSE 0
           b == IF k - 1 \in Steps THEN past[k - 1] ELSE 0
           a2 == IF k \in Steps THEN more[k] ELSE 0
           b2 == IF k - 1 \in Steps THEN more[k - 1] ELSE 0
<1>3. a \in Nat /\ b \in Nat
  BY <1>2
<1>4. a2 = a + (IF k = t THEN 1 ELSE 0)
  BY <1>2
<1>5. b2 = b + (IF k = t + 1 THEN 1 ELSE 0)
  <2>1. k - 1 = t <=> k = t + 1
    BY <1>0
  <2> QED
    BY <1>2, <2>1
<1>6. Residue(past, k) = a - b /\ Residue(more, k) = a2 - b2
  BY <1>1, Zenon DEF Residue
<1> HIDE DEF a, b, a2, b2
<1>7. Residue(past, k) \in Int
  BY <1>3, <1>6
<1>8. Residue(more, k) = Residue(past, k) + (IF k = t THEN 1 ELSE 0) - (IF k = t + 1 THEN 1 ELSE 0)
  BY <1>3, <1>4, <1>5, <1>6
<1> QED
  BY <1>7, <1>8 DEF more

(* New data have no past.                                                   *)
LEMMA ResidueNone ==
  ASSUME NEW k \in BgSteps
  PROVE  Residue(NoPast, k) = 0 /\ NoBackground[k] = 0
<1>1. DOMAIN NoPast = Steps /\ \A j \in Steps : NoPast[j] = 0
  BY DEF NoPast
<1>2. Residue(NoPast, k) = 0 - 0
  BY <1>1 DEF Residue
<1>3. NoBackground[k] = 0
  BY DEF NoBackground, BgSteps
<1> QED
  BY <1>2, <1>3

(* The background fields of new data.                                       *)
LEMMA BgNew ==
  ASSUME NEW s, NEW k \in Int, NEW t \in Int, NEW d, d = NewData(k, t)
  PROVE  BgIs(d, s, 0) /\ d.bg = NoBackground
<1>1. d.bg = NoBackground /\ d.past = NoPast
  BY NewTypes
<1>2. ASSUME NEW j \in BgSteps PROVE d.bg[j] = (IF j = s THEN 0 ELSE 0) + Residue(d.past, j)
  BY <1>1, ResidueNone
<1> QED
  BY <1>1, <1>2 DEF BgIs

(* No background field of whichever step.                                   *)
LEMMA BgNoneOf ==
  ASSUME NEW s, NEW t, NEW d, BgIs(d, s, 0)
  PROVE  BgIs(d, t, 0)
BY DEF BgIs

(* A restart subtracts the field of the step after the checkpoint in place  *)
(* of that of the checkpoint.                                               *)
LEMMA BgRestarted ==
  ASSUME NEW s \in Steps, NEW d \in RankData,
         IF Background THEN BgIs(d, s, 1) ELSE d.bg = NoBackground,
         NEW e, e = PushBGField(Loaded(d, s), s + 1, -1)
  PROVE  BgRank("recheck", s, e)
<1>1. PICK n \in BgSteps : n = s + 1
  BY StepTypes
<1>2. PICK l \in RankData : /\ l = Loaded(d, s) /\ l.bg = d.bg
                            /\ l.past = [d.past EXCEPT ![s] = @ + 1]
  BY LoadedParts
<1>3. e = PushBGField(l, n, -1)
  BY <1>1, <1>2
<1>4. e.bg = (IF Background THEN [l.bg EXCEPT ![n] = @ - 1] ELSE l.bg) /\ e.past = l.past
  BY <1>3, SubtractedParts, ZenonT(60)
<1>5. CASE Background
  <2>1. e.bg = [d.bg EXCEPT ![n] = @ - 1] /\ e.past = [d.past EXCEPT ![s] = @ + 1]
    BY <1>2, <1>4, <1>5
  <2>2. d.bg \in [BgSteps -> Int] /\ d.past \in [Steps -> Nat]
    BY DEF RankData
  <2>3. ASSUME NEW k \in BgSteps
        PROVE  e.bg[k] = (IF k = s THEN 0 ELSE 0) + Residue(e.past, k)
    <3>1. PICK x \in Int : x = Residue(d.past, k)
      BY <2>2, ResidueChanges
    <3>2. PICK y : y = Residue(e.past, k)
      OBVIOUS
    <3>3. y = x + (IF k = s THEN 1 ELSE 0) - (IF k = n THEN 1 ELSE 0)
      BY <1>1, <2>1, <2>2, <3>1, <3>2, ResidueChanges
    <3>4. d.bg[k] = (IF k = s THEN 1 ELSE 0) + x
      BY <1>5, <3>1 DEF BgIs
    <3>5. e.bg[k] = IF k = n THEN d.bg[k] - 1 ELSE d.bg[k]
      BY <2>1, <2>2
    <3>6. e.bg[k] = y
      BY <3>3, <3>4, <3>5
    <3>7. y \in Int
      BY <3>3
    <3> QED
      BY <3>2, <3>6, <3>7
  <2>4. BgIs(e, s, 0)
    BY <2>3 DEF BgIs
  <2> QED
    BY <1>5, <2>4 DEF BgRank, SettledPlaces, AtCheckpoint
<1>6. CASE ~Background
  BY <1>2, <1>4, <1>6 DEF BgRank
<1> QED
  BY <1>5, <1>6

(* movingWindowCheck adds the field of the step.                            *)
LEMMA BgChecked ==
  ASSUME NEW s \in Steps, NEW d \in RankData,
         IF Background THEN BgIs(d, s, 0) ELSE d.bg = NoBackground,
         NEW e, e = PushBGField(d, s, 1), NEW p \in SettledPlaces
  PROVE  BgRank(p, s, e)
<1>1. s \in BgSteps /\ 1 \in Int
  BY StepTypes
<1>2. e.bg = (IF Background THEN [d.bg EXCEPT ![s] = @ + 1] ELSE d.bg) /\ e.past = d.past
  BY <1>1, PushedParts, ZenonT(60)
<1>3. CASE Background
  <2>1. d.bg \in [BgSteps -> Int] /\ d.past \in [Steps -> Nat]
    BY DEF RankData
  <2>2. ASSUME NEW k \in BgSteps
        PROVE  e.bg[k] = (IF k = s THEN 1 ELSE 0) + Residue(e.past, k)
    <3>1. PICK x \in Int : x = Residue(d.past, k)
      BY <2>1, ResidueChanges
    <3>2. d.bg[k] = (IF k = s THEN 0 ELSE 0) + x
      BY <1>3, <3>1 DEF BgIs
    <3>3. e.bg[k] = IF k = s THEN d.bg[k] + 1 ELSE d.bg[k]
      BY <1>2, <1>3, <2>1
    <3>4. e.bg[k] = (IF k = s THEN 1 ELSE 0) + x
      BY <3>2, <3>3
    <3> QED
      BY <1>2, <3>1, <3>4
  <2>3. BgIs(e, s, 1)
    BY <2>2 DEF BgIs
  <2>4. p \notin {"check", "recheck"}
    BY DEF SettledPlaces, AtCheckpoint
  <2> QED
    BY <1>3, <2>3, <2>4 DEF BgRank
<1>4. CASE ~Background
  BY <1>2, <1>4 DEF BgRank
<1> QED
  BY <1>3, <1>4

(* runOneStep subtracts it.                                                 *)
LEMMA BgRun ==
  ASSUME NEW s \in Steps, NEW d \in RankData,
         IF Background THEN BgIs(d, s, 1) ELSE d.bg = NoBackground,
         NEW e, e = PushBGField(d, s, -1)
  PROVE  BgRank("check", s + 1, e)
<1>1. s \in BgSteps
  BY StepTypes
<1>2. e.bg = (IF Background THEN [d.bg EXCEPT ![s] = @ - 1] ELSE d.bg) /\ e.past = d.past
  BY <1>1, SubtractedParts, ZenonT(60)
<1>3. CASE Background
  <2>1. d.bg \in [BgSteps -> Int] /\ d.past \in [Steps -> Nat]
    BY DEF RankData
  <2>2. ASSUME NEW k \in BgSteps
        PROVE  e.bg[k] = (IF k = s THEN 0 ELSE 0) + Residue(e.past, k)
    <3>1. PICK x \in Int : x = Residue(d.past, k)
      BY <2>1, ResidueChanges
    <3>2. d.bg[k] = (IF k = s THEN 1 ELSE 0) + x
      BY <1>3, <3>1 DEF BgIs
    <3>3. e.bg[k] = IF k = s THEN d.bg[k] - 1 ELSE d.bg[k]
      BY <1>2, <1>3, <2>1
    <3>4. e.bg[k] = (IF k = s THEN 0 ELSE 0) + x
      BY <3>2, <3>3
    <3> QED
      BY <1>2, <3>1, <3>4
  <2>3. BgIs(e, s + 1, 0)
    BY <2>2, BgNoneOf DEF BgIs
  <2> QED
    BY <1>3, <2>3 DEF BgRank, SettledPlaces, AtCheckpoint
<1>4. CASE ~Background
  BY <1>2, <1>4 DEF BgRank
<1> QED
  BY <1>3, <1>4

-----------------------------------------------------------------------------
(* The parts of the invariant of the background fields at a rank.           *)
LEMMA BgFacts ==
  ASSUME BackgroundInv, NEW r \in Ranks
  PROVE  /\ WindowInv /\ Base /\ Types /\ BgRank(pc[r], cur[r], data[r])
         /\ cur[r] \in Steps /\ data[r] \in RankData
BY RankFacts DEF BackgroundInv

(* A rank moves and the files stay.                                         *)
LEMMA RankKeepsBg ==
  ASSUME BackgroundInv, WindowInv', NEW r \in Ranks, OneRank(r), UNCHANGED files,
         BgRank(pc'[r], cur'[r], data'[r])
  PROVE  BackgroundInv'
<1>1. \A q \in Ranks \ {r} : pc'[q] = pc[q] /\ cur'[q] = cur[q] /\ data'[q] = data[q]
  BY DEF OneRank
<1>2. ASSUME NEW q \in Ranks PROVE BgRank(pc'[q], cur'[q], data'[q])
  <2>1. CASE q = r
    BY <2>1
  <2>2. CASE q # r
    BY <1>1, <2>2 DEF BackgroundInv
  <2> QED
    BY <2>1, <2>2
<1> QED
  BY <1>2 DEF BackgroundInv

(* New data in a job that starts.                                           *)
LEMMA BgIdle ==
  ASSUME NEW r \in Ranks, NEW p \in {"down", "init", "check"}, NEW d, d = NewData(r, 0)
  PROVE  BgRank(p, 0, d)
<1>1. r \in Int /\ 0 \in Int
  BY Consts
<1>2. BgIs(d, 0, 0) /\ d.bg = NoBackground
  BY <1>1, BgNew
<1>3. p \notin SettledPlaces
  BY DEF SettledPlaces, AtCheckpoint
<1> QED
  BY <1>2, <1>3 DEF BgRank

(* Init of a rank without a restart.                                        *)
LEMMA InitFreshBg ==
  ASSUME BackgroundInv, WindowInv', NEW r \in Ranks, InitFresh(r)
  PROVE  BackgroundInv'
<1>1. /\ OneRank(r) /\ UNCHANGED files
      /\ pc'[r] = "check" /\ cur'[r] = 0 /\ data'[r] = NewData(r, 0)
  BY InitFreshAt, BgFacts
<1>2. PICK d : d = data'[r] /\ d = NewData(r, 0)
  BY <1>1
<1>3. BgRank("check", 0, d)
  BY <1>2, BgIdle
<1> QED
  BY <1>1, <1>2, <1>3, RankKeepsBg

(* A rank loads its data from a file.                                       *)
LEMMA InitRestartBg ==
  ASSUME BackgroundInv, WindowInv', NEW r \in Ranks, InitRestart(r)
  PROVE  BackgroundInv'
<1>0. WindowInv /\ Base
  BY BgFacts
<1>1. PICK s \in Steps, w \in WindowType : Restarts(r, s, w)
  BY <1>0, InitRestartAt
<1>2. /\ OneRank(r) /\ UNCHANGED files
      /\ Slab(r, w) \in Slabs /\ files[s].at[Slab(r, w)] # Missing
      /\ pc'[r] = "recheck" /\ cur'[r] = s
      /\ data'[r] = PushBGField(Loaded(files[s].at[Slab(r, w)], s), s + 1, -1)
  BY <1>1 DEF Restarts
<1>3. PICK d \in RankData : d = files[s].at[Slab(r, w)]
  BY <1>0, <1>1, RestartFinds
<1>4. PICK e : e = data'[r] /\ e = PushBGField(Loaded(d, s), s + 1, -1)
  BY <1>2, <1>3
<1>5. IF Background THEN BgIs(d, s, 1) ELSE d.bg = NoBackground
  <2>1. BgFiles(files[s], s)
    BY DEF BackgroundInv
  <2> QED
    BY <1>2, <1>3, <2>1 DEF BgFiles
<1>6. BgRank("recheck", s, e)
  BY <1>4, <1>5, BgRestarted
<1> QED
  BY <1>2, <1>4, <1>6, RankKeepsBg

(* movingWindowCheck, which may replace the data by new ones.               *)
LEMMA MovingWindowCheckBg ==
  ASSUME BackgroundInv, WindowInv', NEW r \in Ranks, MovingWindowCheck(r)
  PROVE  BackgroundInv'
<1>0. WindowInv /\ Base /\ BgRank(pc[r], cur[r], data[r]) /\ data[r] \in RankData
  BY BgFacts
<1>1. PICK s \in Steps, w \in WindowType, d \in RankData : Checks(r, s, w, d)
  BY <1>0, MovingWindowCheckAt
<1>2. /\ OneRank(r) /\ UNCHANGED files
      /\ s = cur[r] /\ pc[r] \in {"check", "recheck"} /\ cur'[r] = s
      /\ pc'[r] = IF pc[r] = "check" THEN "dump" ELSE LoopHead(r)
      /\ data'[r] = PushBGField(d, s, 1)
      /\ d = data[r] \/ d = NewData(Slab(r, w), s)
  BY <1>1 DEF Checks
<1>3. PICK e : e = data'[r] /\ e = PushBGField(d, s, 1)
  BY <1>2
<1>4. IF Background THEN BgIs(d, s, 0) ELSE d.bg = NoBackground
  <2>1. CASE d = data[r]
    BY <1>0, <1>2, <2>1 DEF BgRank
  <2>2. CASE d = NewData(Slab(r, w), s)
    <3>1. Slab(r, w) \in Int /\ s \in Int
      BY PositionType, StepTypes
    <3> QED
      BY <2>2, <3>1, BgNew
  <2> QED
    BY <1>2, <2>1, <2>2
<1>5. PICK p \in SettledPlaces : p = pc'[r]
  BY <1>2, LoopHeadAt
<1>6. BgRank(p, s, e)
  BY <1>3, <1>4, BgChecked
<1> QED
  BY <1>2, <1>3, <1>5, <1>6, RankKeepsBg

(* Settled data stay as they are from place to place.                       *)
LEMMA BgGoesOn ==
  ASSUME NEW s, NEW d, NEW p \in SettledPlaces, NEW p2 \in SettledPlaces, BgRank(p, s, d)
  PROVE  /\ BgRank(p2, s, d)
         /\ IF Background THEN BgIs(d, s, 1) ELSE d.bg = NoBackground
<1>1. p2 \notin {"check", "recheck"}
  BY DEF SettledPlaces, AtCheckpoint
<1> QED
  BY <1>1 DEF BgRank

(* The plugins change nothing.                                              *)
LEMMA DumpOneStepBg ==
  ASSUME BackgroundInv, WindowInv', NEW r \in Ranks, DumpOneStep(r)
  PROVE  BackgroundInv'
<1>0. BgRank(pc[r], cur[r], data[r])
  BY BgFacts
<1>1. /\ OneRank(r) /\ UNCHANGED files
      /\ pc[r] = "dump" /\ cur'[r] = cur[r] /\ data'[r] = data[r]
      /\ pc'[r] = IF CheckpointStep(cur[r]) THEN "barrier" ELSE LoopHead(r)
  BY DumpOneStepAt, BgFacts
<1>2. pc[r] \in SettledPlaces /\ pc'[r] \in SettledPlaces
  BY <1>1, LoopHeadAt DEF AtCheckpoint
<1>3. PICK p2 \in SettledPlaces : p2 = pc'[r]
  BY <1>2
<1>4. BgRank(p2, cur[r], data[r])
  BY <1>0, <1>2, BgGoesOn
<1> QED
  BY <1>1, <1>3, <1>4, RankKeepsBg

(* runOneStep.                                                              *)
LEMMA RunOneStepBg ==
  ASSUME BackgroundInv, WindowInv', NEW r \in Ranks, RunOneStep(r)
  PROVE  BackgroundInv'
<1>0. BgRank(pc[r], cur[r], data[r]) /\ data[r] \in RankData /\ cur[r] \in Steps
  BY BgFacts
<1>1. /\ OneRank(r) /\ UNCHANGED files
      /\ pc[r] = "run" /\ pc'[r] = "check" /\ cur'[r] = cur[r] + 1
      /\ [data[r] EXCEPT !.time = @ + 1] \in RankData
      /\ data'[r] = PushBGField([data[r] EXCEPT !.time = @ + 1], cur[r], -1)
  BY RunOneStepAt, BgFacts
<1>2. PICK s \in Steps, d0 \in RankData : s = cur[r] /\ d0 = data[r]
  BY <1>0
<1>3. PICK d \in RankData : d = [d0 EXCEPT !.time = @ + 1]
  BY <1>1, <1>2
<1>4. d.bg = d0.bg /\ d.past = d0.past
  BY <1>3 DEF RankData
<1>5. PICK e : e = data'[r] /\ e = PushBGField(d, s, -1)
  BY <1>1, <1>2, <1>3
<1>6. IF Background THEN BgIs(d0, s, 1) ELSE d0.bg = NoBackground
  BY <1>0, <1>1, <1>2 DEF BgRank, SettledPlaces
<1>7. IF Background THEN BgIs(d, s, 1) ELSE d.bg = NoBackground
  BY <1>4, <1>6 DEF BgIs
<1>8. BgRank("check", s + 1, e)
  BY <1>5, <1>7, BgRun
<1> QED
  BY <1>1, <1>2, <1>5, <1>8, RankKeepsBg

(* The ranks go through a checkpoint.                                       *)
LEMMA CheckpointingBg ==
  ASSUME BackgroundInv, WindowInv', UNCHANGED <<cur, data>>,
         \A r \in Ranks :
           \/ pc'[r] = pc[r]
           \/ pc[r] \in AtCheckpoint /\ pc'[r] \in AtCheckpoint \cup {"run", "done"},
         \A t \in Steps : BgFiles(files'[t], t)
  PROVE  BackgroundInv'
<1>1. ASSUME NEW r \in Ranks PROVE BgRank(pc'[r], cur'[r], data'[r])
  <2>0. BgRank(pc[r], cur[r], data[r])
    BY BgFacts
  <2>1. CASE pc'[r] = pc[r]
    BY <2>0, <2>1
  <2>2. CASE pc[r] \in AtCheckpoint /\ pc'[r] \in AtCheckpoint \cup {"run", "done"}
    <3>1. PICK p \in SettledPlaces, p2 \in SettledPlaces : p = pc[r] /\ p2 = pc'[r]
      BY <2>2 DEF SettledPlaces
    <3>2. BgRank(p2, cur[r], data[r])
      BY <2>0, <3>1, BgGoesOn
    <3> QED
      BY <3>1, <3>2
  <2> QED
    BY <2>1, <2>2
<1> QED
  BY <1>1 DEF BackgroundInv

(* What a rank writes into a file.                                          *)
LEMMA CheckpointBg ==
  ASSUME BackgroundInv, WindowInv', NEW r \in Ranks, Checkpoint(r)
  PROVE  BackgroundInv'
<1>1. PICK c \in Steps : Writes(r, c)
  BY CheckpointAt, BgFacts
<1>2. /\ OneRank(r)
      /\ pc[r] = "write" /\ pc'[r] = "written" /\ c = cur[r] /\ cur'[r] = c /\ data'[r] = data[r]
  BY <1>1 DEF Writes
<1>3. Types /\ Types' /\ BgRank(pc[r], c, data[r])
  BY <1>2, BgFacts DEF WindowInv, Base
<1>4. cur' = cur /\ data' = data
  <2>1. \A q \in Ranks : cur'[q] = cur[q] /\ data'[q] = data[q]
    BY <1>2 DEF OneRank
  <2> QED
    BY <1>3, <2>1 DEF Types
<1>5. IF Background THEN BgIs(data[r], c, 1) ELSE data[r].bg = NoBackground
  <2>1. pc[r] \in SettledPlaces
    BY <1>2 DEF SettledPlaces, AtCheckpoint
  <2> QED
    BY <1>3, <2>1, BgGoesOn
<1>6. ASSUME NEW t \in Steps PROVE BgFiles(files'[t], t)
  <2>0. BgFiles(files[t], t)
    BY DEF BackgroundInv
  <2>1. CASE t # c
    BY <1>1, <2>0, <2>1 DEF Writes
  <2>2. CASE t = c
    <3>1. \A k \in Slabs : files'[t].at[k] = data[r] \/ files'[t].at[k] = files[t].at[k]
      BY <1>1, <2>2 DEF Writes
    <3> SUFFICES ASSUME NEW k \in Slabs, files'[t].at[k] # Missing
                 PROVE  IF Background THEN BgIs(files'[t].at[k], t, 1)
                        ELSE files'[t].at[k].bg = NoBackground
      BY DEF BgFiles
    <3>2. CASE files'[t].at[k] = data[r]
      BY <1>5, <2>2, <3>2
    <3>3. CASE files'[t].at[k] = files[t].at[k]
      BY <2>0, <3>3 DEF BgFiles
    <3> QED
      BY <3>1, <3>2, <3>3
  <2> QED
    BY <2>1, <2>2
<1>7. \A q \in Ranks : \/ pc'[q] = pc[q]
                       \/ pc[q] \in AtCheckpoint /\ pc'[q] \in AtCheckpoint \cup {"run", "done"}
  BY <1>2 DEF OneRank, AtCheckpoint
<1> QED
  BY <1>4, <1>6, <1>7, CheckpointingBg

(* The collective steps of a checkpoint.                                    *)
LEMMA CollectiveBg ==
  ASSUME BackgroundInv, WindowInv', Barrier \/ CreateFile \/ Written \/ WriteCheckpointStep
  PROVE  BackgroundInv'
<1>0. Base /\ 0 \in Ranks /\ \A t \in Steps : BgFiles(files[t], t)
  BY Consts DEF BackgroundInv, WindowInv
<1>1. CASE Barrier
  <2>1. /\ \A r \in Ranks : pc[r] = "barrier" /\ pc'[r] = "create"
        /\ UNCHANGED <<cur, data, files>>
    BY <1>1, JobAt DEF Barrier
  <2> QED
    BY <1>0, <2>1, CheckpointingBg DEF AtCheckpoint
<1>2. CASE CreateFile
  <2>1. /\ \A r \in Ranks : pc[r] = "create" /\ pc'[r] = "write"
        /\ files'[cur[0]] = NoFile /\ \A t \in Steps \ {cur[0]} : files'[t] = files[t]
        /\ UNCHANGED <<cur, data>>
    BY <1>0, <1>2, CreateFileAt
  <2>2. \A t \in Steps : BgFiles(NoFile, t)
    BY NewTypes DEF BgFiles
  <2>3. \A t \in Steps : BgFiles(files'[t], t)
    BY <1>0, <2>1, <2>2
  <2> QED
    BY <1>0, <2>1, <2>3, CheckpointingBg DEF AtCheckpoint
<1>3. CASE Written
  <2>1. /\ \A r \in Ranks : pc[r] = "written"
        /\ \A r \in Ranks : pc'[r] = IF r = 0 THEN "master" ELSE LoopHead(r)
        /\ UNCHANGED <<cur, data, files>>
    BY <1>3, JobAt DEF Written
  <2>2. \A r \in Ranks : pc[r] \in AtCheckpoint /\ pc'[r] \in AtCheckpoint \cup {"run", "done"}
    BY <2>1, LoopHeadAt DEF AtCheckpoint
  <2> QED
    BY <1>0, <2>1, <2>2, CheckpointingBg
<1>4. CASE WriteCheckpointStep
  <2>1. /\ pc[0] = "master" /\ pc'[0] = LoopHead(0)
        /\ \A q \in Ranks \ {0} : pc'[q] = pc[q]
        /\ UNCHANGED <<cur, data, files>>
    BY <1>0, <1>4, WriteCheckpointStepAt
  <2>2. pc[0] \in AtCheckpoint /\ pc'[0] \in AtCheckpoint \cup {"run", "done"}
    BY <1>0, <2>1, LoopHeadAt DEF AtCheckpoint
  <2> QED
    BY <1>0, <2>1, <2>2, CheckpointingBg
<1> QED
  BY <1>1, <1>2, <1>3, <1>4

(* The start of a job.                                                       *)
LEMMA LaunchBg ==
  ASSUME BackgroundInv, WindowInv', Launch
  PROVE  BackgroundInv'
<1>1. /\ \A r \in Ranks : pc[r] = "down" /\ pc'[r] = "init"
      /\ UNCHANGED <<cur, data, files>>
  BY JobAt DEF Launch
<1>2. ASSUME NEW r \in Ranks PROVE BgRank("init", cur[r], data[r])
  <2>1. BgRank("down", cur[r], data[r])
    BY <1>1, BgFacts
  <2> QED
    BY <2>1 DEF BgRank, SettledPlaces, AtCheckpoint
<1> QED
  BY <1>1, <1>2 DEF BackgroundInv

(* The death of a job keeps the invariant of the background fields.         *)
LEMMA CrashBg ==
  ASSUME BackgroundInv, WindowInv', Crash
  PROVE  BackgroundInv'
<1>1. /\ UNCHANGED files
      /\ \A r \in Ranks : pc'[r] = "down" /\ cur'[r] = 0 /\ data'[r] = NewData(r, 0)
  BY DEF Crash
<1>2. ASSUME NEW r \in Ranks PROVE BgRank(pc'[r], cur'[r], data'[r])
  <2>1. PICK d : d = data'[r] /\ d = NewData(r, 0)
    BY <1>1
  <2>2. BgRank("down", 0, d)
    BY <2>1, BgIdle
  <2> QED
    BY <1>1, <2>1, <2>2
<1> QED
  BY <1>1, <1>2 DEF BackgroundInv

(* The invariant holds of the state before the first job.                   *)
LEMMA InitBg ==
  ASSUME Init
  PROVE  BackgroundInv
<1>1. /\ \A r \in Ranks : pc[r] = "down" /\ cur[r] = 0 /\ data[r] = NewData(r, 0)
      /\ \A t \in Steps : files[t] = NoFile
  BY DEF Init
<1>2. ASSUME NEW r \in Ranks PROVE BgRank(pc[r], cur[r], data[r])
  BY <1>1, BgIdle
<1>3. \A t \in Steps : BgFiles(NoFile, t)
  BY NewTypes DEF BgFiles
<1> QED
  BY <1>1, <1>2, <1>3, InitWindow DEF BackgroundInv

(* Every step keeps it.                                                     *)
LEMMA NextBg ==
  ASSUME BackgroundInv, [Next]_vars
  PROVE  BackgroundInv'
<1>0. WindowInv'
  BY NextWindow DEF BackgroundInv
<1>1. CASE Launch
  BY <1>0, <1>1, LaunchBg
<1>2. ASSUME NEW r \in Ranks, InitFresh(r) PROVE BackgroundInv'
  BY <1>0, <1>2, InitFreshBg
<1>3. ASSUME NEW r \in Ranks, InitRestart(r) PROVE BackgroundInv'
  BY <1>0, <1>3, InitRestartBg
<1>4. ASSUME NEW r \in Ranks, MovingWindowCheck(r) PROVE BackgroundInv'
  BY <1>0, <1>4, MovingWindowCheckBg
<1>5. ASSUME NEW r \in Ranks, DumpOneStep(r) PROVE BackgroundInv'
  BY <1>0, <1>5, DumpOneStepBg
<1>6. ASSUME NEW r \in Ranks, Checkpoint(r) PROVE BackgroundInv'
  BY <1>0, <1>6, CheckpointBg
<1>7. ASSUME NEW r \in Ranks, RunOneStep(r) PROVE BackgroundInv'
  BY <1>0, <1>7, RunOneStepBg
<1>8. CASE Barrier \/ CreateFile \/ Written \/ WriteCheckpointStep
  BY <1>0, <1>8, CollectiveBg
<1>9. CASE Crash
  BY <1>0, <1>9, CrashBg
<1>10. CASE UNCHANGED vars
  BY <1>0, <1>10 DEF vars, BackgroundInv
<1> QED
  BY <1>1, <1>2, <1>3, <1>4, <1>5, <1>6, <1>7, <1>8, <1>9, <1>10 DEF Next, Progress, Terminated

(* The background fields of data and files are those of the invariant.      *)
THEOREM BackgroundInductive == Spec => []BackgroundInv
<1>1. Init => BackgroundInv
  BY InitBg
<1>2. BackgroundInv /\ [Next]_vars => BackgroundInv'
  BY NextBg
<1> QED
  BY <1>1, <1>2, PTL DEF Spec

(* However a job dies and restarts, the background field of the current     *)
(* step, and no other, is in the fields once while plugins see them and     *)
(* particles are pushed, and none while the fields are advanced, but for    *)
(* what every restart leaves in the data it loads: the field of its step    *)
(* once more and that of the next once less.                                *)
THEOREM BackgroundIsOnce == Spec => []BackgroundOnce
<1>1. BackgroundInv => BackgroundOnce
  <2> SUFFICES ASSUME BackgroundInv, NEW r \in Ranks, NEW s \in 0 .. RunSteps + 1
               PROVE  /\ Settled(r) /\ Background =>
                           data[r].bg[s] = (IF s = cur[r] THEN 1 ELSE 0) + Residue(data[r].past, s)
                      /\ pc[r] = "check" /\ Background => data[r].bg[s] = Residue(data[r].past, s)
                      /\ ~Background => data[r].bg[s] = 0
    BY DEF BackgroundOnce
  <2>1. BgRank(pc[r], cur[r], data[r]) /\ data[r] \in RankData
    BY BgFacts
  <2>2. Settled(r) => pc[r] \in SettledPlaces
    BY DEF Settled, SettledPlaces, AtCheckpoint
  <2>3. s \in BgSteps
    BY DEF BgSteps
  <2>4. Residue(data[r].past, s) \in Int
    <3>1. data[r].past \in [Steps -> Nat] /\ 0 \in Steps
      BY <2>1, Consts DEF RankData
    <3> QED
      BY <2>3, <3>1, ResidueChanges
  <2>5. Settled(r) /\ Background =>
          data[r].bg[s] = (IF s = cur[r] THEN 1 ELSE 0) + Residue(data[r].past, s)
    BY <2>1, <2>2, <2>3 DEF BgRank, BgIs
  <2>6. pc[r] = "check" /\ Background => data[r].bg[s] = 0 + Residue(data[r].past, s)
    BY <2>1, <2>3 DEF BgRank, BgIs
  <2>7. ~Background => data[r].bg[s] = 0
    BY <2>1, <2>3, ResidueNone DEF BgRank
  <2> QED
    BY <2>4, <2>5, <2>6, <2>7
<1> QED
  BY <1>1, BackgroundInductive, PTL

-----------------------------------------------------------------------------
(* A rank that does not run yet.                                            *)
Idle(r) == pc[r] \in {"down", "init"} => window[r] = NewWindow /\ data[r] = NewData(r, 0)

TypeInv == WindowInv /\ crashes <= MaxCrash /\ \A r \in Ranks : Idle(r)

(* A rank moves, and is not put back to its start.                          *)
LEMMA RankKeepsIdle ==
  ASSUME TypeInv, WindowInv', NEW r \in Ranks, OneRank(r), pc'[r] \notin {"down", "init"}
  PROVE  TypeInv'
<1>1. UNCHANGED crashes
  BY DEF OneRank
<1>2. ASSUME NEW q \in Ranks PROVE Idle(q)'
  <2>1. CASE q = r
    BY <2>1 DEF Idle
  <2>2. CASE q # r
    BY <2>2 DEF TypeInv, Idle, OneRank
  <2> QED
    BY <2>1, <2>2
<1> QED
  BY <1>1, <1>2 DEF TypeInv

(* Every step keeps the types.                                              *)
LEMMA NextTypes ==
  ASSUME TypeInv, [Next]_vars
  PROVE  TypeInv'
<1>0. WindowInv' /\ WindowInv /\ Base
  BY NextWindow DEF TypeInv, WindowInv
<1>1. CASE Launch
  BY <1>0, <1>1, JobAt DEF Launch, TypeInv, Idle
<1>2. ASSUME NEW r \in Ranks, InitFresh(r) PROVE TypeInv'
  <2>1. OneRank(r) /\ pc'[r] = "check"
    BY <1>0, <1>2, InitFreshAt
  <2> QED
    BY <1>0, <2>1, RankKeepsIdle
<1>3. ASSUME NEW r \in Ranks, InitRestart(r) PROVE TypeInv'
  <2>1. OneRank(r) /\ pc'[r] = "recheck"
    BY <1>0, <1>3, InitRestartAt DEF Restarts
  <2> QED
    BY <1>0, <2>1, RankKeepsIdle
<1>4. ASSUME NEW r \in Ranks, MovingWindowCheck(r) PROVE TypeInv'
  <2>1. OneRank(r) /\ pc'[r] \in {"dump", LoopHead(r)}
    BY <1>0, <1>4, MovingWindowCheckAt DEF Checks
  <2> QED
    BY <1>0, <2>1, LoopHeadAt, RankKeepsIdle
<1>5. ASSUME NEW r \in Ranks, DumpOneStep(r) PROVE TypeInv'
  <2>1. OneRank(r) /\ pc'[r] \in {"barrier", LoopHead(r)}
    BY <1>0, <1>5, DumpOneStepAt
  <2> QED
    BY <1>0, <2>1, LoopHeadAt, RankKeepsIdle
<1>6. ASSUME NEW r \in Ranks, Checkpoint(r) PROVE TypeInv'
  <2>1. OneRank(r) /\ pc'[r] = "written"
    BY <1>0, <1>6, CheckpointAt DEF Writes
  <2> QED
    BY <1>0, <2>1, RankKeepsIdle
<1>7. ASSUME NEW r \in Ranks, RunOneStep(r) PROVE TypeInv'
  <2>1. OneRank(r) /\ pc'[r] = "check"
    BY <1>0, <1>7, RunOneStepAt
  <2> QED
    BY <1>0, <2>1, RankKeepsIdle
<1>8. CASE Barrier
  <2>1. UNCHANGED crashes /\ \A r \in Ranks : pc'[r] = "create"
    BY <1>8 DEF Barrier
  <2> QED
    BY <1>0, <2>1 DEF TypeInv, Idle
<1>9. CASE CreateFile
  <2>1. UNCHANGED crashes /\ \A r \in Ranks : pc'[r] = "write"
    BY <1>9 DEF CreateFile
  <2> QED
    BY <1>0, <2>1 DEF TypeInv, Idle
<1>10. CASE Written
  <2>1. UNCHANGED crashes /\ \A r \in Ranks : pc'[r] \in {"master", "run", "done"}
    BY <1>10 DEF Written, LoopHead
  <2> QED
    BY <1>0, <2>1 DEF TypeInv, Idle
<1>11. CASE WriteCheckpointStep
  <2>1. /\ pc'[0] = LoopHead(0) /\ \A q \in Ranks \ {0} : pc'[q] = pc[q]
        /\ UNCHANGED <<window, data, crashes>>
    BY <1>0, <1>11, WriteCheckpointStepAt
  <2>2. pc'[0] \notin {"down", "init"}
    BY <2>1, LoopHeadAt, Consts
  <2> QED
    BY <1>0, <2>1, <2>2 DEF TypeInv, Idle
<1>12. CASE Crash
  <2>1. /\ crashes' = crashes + 1 /\ crashes < MaxCrash
        /\ \A r \in Ranks : window'[r] = NewWindow /\ data'[r] = NewData(r, 0)
    BY <1>12 DEF Crash
  <2>2. crashes' <= MaxCrash
    BY <1>0, <2>1, SimulationAssumption DEF Base, Types
  <2> QED
    BY <1>0, <2>1, <2>2 DEF TypeInv, Idle
<1>13. CASE UNCHANGED vars
  BY <1>0, <1>13 DEF vars, TypeInv, Idle
<1> QED
  BY <1>1, <1>2, <1>3, <1>4, <1>5, <1>6, <1>7, <1>8, <1>9, <1>10, <1>11, <1>12, <1>13
     DEF Next, Progress, Terminated

(* The slides a running rank has counted and made, and its last one.        *)
LEMMA SlidesWithin ==
  ASSUME WindowInv, NEW r \in Ranks, pc[r] \notin {"down", "init"}
  PROVE  \E n \in 0 .. RunSteps + 1, m \in Nat :
           Slid(window[r], n, m) /\ window[r].last <= cur[r] + 1
<1>0. /\ WindowAt(pc[r], cur[r], window[r], from[r])
      /\ cur[r] \in Steps /\ window[r] \in WindowType /\ pc[r] \in Places
  BY RankFacts
<1>1. PICK s \in Steps, w \in WindowType, g \in {from[r]} :
        s = cur[r] /\ w = window[r] /\ g = from[r]
  BY <1>0
<1>2. s \in Nat /\ s <= RunSteps /\ RunSteps \in Nat /\ w.last \in Nat
  BY Consts DEF Steps, WindowType
<1>3. PICK j \in {0, 1} : j = SlideOf(g)
  BY OneOrNone
<1>4. CASE pc[r] = "check"
  <2>1. PICK t \in Int : t = s - 1 /\ t >= -1 /\ t <= RunSteps
    BY <1>2
  <2>2. PICK a \in {0, 1} : a = Ahead(t, g)
    BY OneOrNone
  <2>3. PICK n \in Nat : n = SlidesUpTo(t) /\ (t >= 0 => n <= t) /\ (t = -1 => n = 0)
    BY <2>1, SlidesType
  <2>4. n + a \in 0 .. RunSteps + 1 /\ n + j \in Nat
    <3>0. \A x \in Int : x >= -1 => x = -1 \/ x >= 0
      OBVIOUS
    <3>1. t = -1 \/ t >= 0
      BY <2>1, <3>0, Zenon
    <3> QED
      BY <1>2, <1>3, <2>1, <2>2, <2>3, <3>1
  <2>5. Slid(w, n + a, n + j) /\ (a = 1 => w.last = s) /\ (a = 0 => w.last <= s)
    BY <1>0, <1>1, <1>3, <1>4, <2>1, <2>2, <2>3 DEF WindowAt
  <2>6. w.last <= s + 1
    BY <1>2, <2>2, <2>5
  <2> QED
    BY <1>1, <2>4, <2>5, <2>6
<1>5. CASE pc[r] # "check"
  <2>1. pc[r] \in SettledPlaces \cup {"recheck"}
    BY <1>0, <1>5 DEF Places, SettledPlaces, AtCheckpoint
  <2>2. PICK a \in {0, 1} : a = Ahead(s, g)
    BY OneOrNone
  <2>3. PICK n \in Nat : n = SlidesUpTo(s) /\ n <= RunSteps
    BY SlidesBound
  <2>4. n + a \in 0 .. RunSteps + 1 /\ n + j \in Nat
    BY <1>2, <1>3, <2>2, <2>3
  <2>5. (Slid(w, n + a, n) \/ Slid(w, n + a, n + j)) /\ Noted(s, w, g)
    BY <1>0, <1>1, <1>3, <2>1, <2>2, <2>3 DEF WindowAt
  <2>6. w.last <= s + 1
    BY <1>2, <2>2, <2>5 DEF Noted
  <2> QED
    BY <1>1, <2>3, <2>4, <2>5, <2>6
<1> QED
  BY <1>4, <1>5

(* The windows of the ranks stay within the bounds of the type invariant.   *)
LEMMA WindowBounds ==
  ASSUME TypeInv, NEW r \in Ranks
  PROVE  /\ window[r] \in [counter : 0 .. RunSteps + 1, last : 0 .. RunSteps + 1,
                           yoffset : -(Devices - 1) .. 0]
         /\ data[r].slab \in Slabs /\ data[r].time \in Steps
<1>0. /\ WindowInv /\ DataAt(pc[r], cur[r], window[r], data[r], r, from[r])
      /\ cur[r] \in Steps /\ window[r] \in WindowType
  BY RankFacts DEF TypeInv
<1>1. CASE pc[r] \in {"down", "init"}
  <2>1. window[r] = NewWindow /\ data[r] = NewData(r, 0)
    BY <1>1 DEF TypeInv, Idle
  <2>2. r \in Int /\ 0 \in Int /\ r \in Slabs /\ 0 \in Steps
    BY Consts DEF Slabs, Ranks
  <2>3. data[r].slab = r /\ data[r].time = 0
    BY <2>1, <2>2, NewTypes
  <2> QED
    BY <2>1, <2>2, <2>3, Consts DEF NewWindow
<1>2. CASE pc[r] \notin {"down", "init"}
  <2>1. PICK n \in 0 .. RunSteps + 1, m \in Nat :
          Slid(window[r], n, m) /\ window[r].last <= cur[r] + 1
    BY <1>0, <1>2, SlidesWithin
  <2>2. PICK s \in Steps, w \in WindowType : s = cur[r] /\ w = window[r]
    BY <1>0
  <2>3. PICK k \in 0 .. Devices - 1 : k = m % Devices
    BY SlidesMod
  <2>4. w.counter = n /\ w.yoffset = -k /\ w.last <= s + 1 /\ w.last \in Nat
    BY <2>1, <2>2, <2>3 DEF Slid, WindowType
  <2>5. w.yoffset \in -(Devices - 1) .. 0
    BY <2>3, <2>4, Consts
  <2>6. w.last \in 0 .. RunSteps + 1
    BY <2>4, Consts DEF Steps
  <2>7. w \in [counter : 0 .. RunSteps + 1, last : 0 .. RunSteps + 1,
               yoffset : -(Devices - 1) .. 0]
    BY <2>4, <2>5, <2>6 DEF WindowType
  <2>8. data[r].slab \in Slabs /\ data[r].time = s
    BY <1>0, <1>2, <2>2 DEF DataAt
  <2> QED
    BY <2>2, <2>7, <2>8
<1> QED
  BY <1>1, <1>2

(* Type correctness, with every counter within its bound.                   *)
THEOREM SimulationTypes == Spec => []TypeOK
<1>1. Init => TypeInv
  BY InitWindow, SimulationAssumption DEF Init, TypeInv, Idle
<1>2. TypeInv /\ [Next]_vars => TypeInv'
  BY NextTypes
<1>3. TypeInv => TypeOK
  <2> SUFFICES ASSUME TypeInv PROVE TypeOK
    OBVIOUS
  <2>0. WindowInv /\ Base /\ Types /\ Lines
    BY DEF TypeInv, WindowInv, Base
  <2>1. ASSUME NEW d \in RankData, d.slab \in Slabs, d.time \in Steps
        PROVE  d \in DataType
    BY <2>1 DEF RankData, DataType, BgSteps
  <2>2. data \in [Ranks -> DataType]
    <3>1. ASSUME NEW r \in Ranks PROVE data[r] \in DataType
      <4>1. data[r] \in RankData
        BY <2>0, RankFacts
      <4>2. data[r].slab \in Slabs /\ data[r].time \in Steps
        BY WindowBounds
      <4> QED
        BY <2>1, <4>1, <4>2
    <3> QED
      BY <2>0, <3>1 DEF Types
  <2>3. files \in [Steps -> [slides : 0 .. RunSteps + 1, at : [Slabs -> DataType \cup {Missing}]]]
    <3>1. ASSUME NEW s \in Steps
          PROVE  files[s] \in [slides : 0 .. RunSteps + 1, at : [Slabs -> DataType \cup {Missing}]]
      <4>1. PICK f \in FileType : f = files[s]
        BY <2>0 DEF Types
      <4>2. FileAt(f, s)
        BY <2>0, <4>1 DEF WindowInv
      <4>3. ASSUME NEW k \in Slabs, f.at[k] # Missing PROVE f.at[k] \in DataType
        <5>1. PICK d \in RankData : d = f.at[k]
          BY DEF FileType
        <5>2. d.slab \in Slabs /\ d.time = s
          BY <4>2, <4>3, <5>1 DEF FileAt
        <5> QED
          BY <2>1, <5>1, <5>2
      <4>4. f.at \in [Slabs -> DataType \cup {Missing}]
        BY <4>3 DEF FileType
      <4>5. f.slides \in 0 .. RunSteps + 1
        BY Consts DEF FileType, Steps
      <4> QED
        BY <4>1, <4>4, <4>5 DEF FileType
    <3> QED
      BY <2>0, <3>1 DEF Types
  <2>4. window \in [Ranks -> [counter : 0 .. RunSteps + 1, last : 0 .. RunSteps + 1,
                              yoffset : -(Devices - 1) .. 0]]
    BY <2>0, WindowBounds DEF Types
  <2>5. launch \in Steps \cup {Fresh, Last}
    BY <2>0 DEF Lines, Types
  <2>6. crashes \in 0 .. MaxCrash
    BY <2>0, SimulationAssumption DEF TypeInv, Types
  <2> QED
    BY <2>0, <2>2, <2>3, <2>4, <2>5, <2>6 DEF TypeOK, Types, Places
<1> QED
  BY <1>1, <1>2, <1>3, PTL DEF Spec
=============================================================================
