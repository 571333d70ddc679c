------------------------------ MODULE PicCycle ------------------------------
(***************************************************************************)
(* One step after another of the particle-in-cell cycle, on a device that  *)
(* is its own neighbour on all sides, with one macro particle:             *)
(* MySimulation::runOneStep with the Yee solver, without background        *)
(* fields, laser and absorber.                                             *)
(*                                                                         *)
(* A particle knows its supercell, its cell in the supercell and its       *)
(* position in the cell.  The pusher may give it any of the displacements  *)
(* in Moves.  All fields are kept in full, as integers on the scale of     *)
(* CurrentDeposition; the current with its guard, the others without, as   *)
(* FieldExchange shows that kernels find the neighbour's border there.     *)
(* Every kernel works on the supercells that Mappings gives to its blocks. *)
(* Units are such that the edges of a cell and the factors of the updates, *)
(* DELTA_T / 2 for B, c^2 DELTA_T for the curl of B and DELTA_T / EPS0 for *)
(* the current, are one: the properties say the same for every value.      *)
(***************************************************************************)
EXTENDS CurrentDeposition, Mappings

CONSTANTS
  Solvers,        \* pairs of a current solver and a particle shape
  Starts,         \* bound: supercells, cells and positions to start at
  Moves,          \* bound: displacements in one step, less than a cell
  Pulse,          \* strength of the field component E.y is started with
  MaxSteps        \* bound: time steps

(* A guard takes what is deposited from the border, and the grid is so     *)
(* large that a particle does not reach a cell around it from both sides.  *)
ASSUME PicAssumption ==
  /\ \A s \in Solvers : {LowerMargin(s), UpperMargin(s)} \subseteq 0 .. SuperCellSize
  /\ \A d \in Dims : SuperCells[d] * SuperCellSize >= 8
  /\ Starts \subseteq [superCell : Box(SuperCells), localCell : [Dims -> 0 .. SuperCellSize - 1],
                       position : [Dims -> 0 .. Res - 1]]
  /\ Moves \subseteq [Dims -> 1 - Res .. Res - 1]
  /\ Pulse \in Int /\ MaxSteps \in Nat

(* The cells of the device without and, for the current, with its guard,   *)
(* by their numbers; and a cell in both of them.                            *)
G == [d \in Dims |-> SuperCells[d] * SuperCellSize]
LocalG == [d \in Dims |-> gridSuperCells[d] * SuperCellSize]
Grid == Numbers(G)
LocalGrid == Numbers(LocalG)
Zero == [c \in Grid |-> <<0, 0, 0>>]
ZeroJ == [c \in LocalGrid |-> <<0, 0, 0>>]

LocalPosition(pos) == [d \in Dims |-> pos[d] + GUARD_SIZE * SuperCellSize]
Local == [c \in Grid |-> Linear(LocalG, LocalPosition(Position(G, c)))]

VARIABLES
  solver,     \* the current solver and the shape of the species
  particle,   \* the attributes of the particle
  velocity,   \* the velocity its momentum stands for, as displacement in a step
  fieldE, fieldB, fieldJ,
  pc,         \* where runOneStep is
  step,       \* currentStep
  defect      \* for the properties: div E - rho at the start

vars == <<solver, particle, velocity, fieldE, fieldB, fieldJ, pc, step, defect>>

(* The neighbour of a cell in direction d, one cell up or down.             *)
Neighbour == [n \in {-1, 1} |-> [d \in Dims |-> [c \in Grid |->
               Linear(G, [Position(G, c) EXCEPT ![d] = (@ + n) % G[d]])]]]

(* The cell of the grid a particle is in.                                  *)
CellOf(p) == [d \in Dims |-> p.superCell[d] * SuperCellSize + p.localCell[d]]

(* Cell c of the periodic grid as seen from the cell of the particle.      *)
Relative(p, c) == [d \in Dims |-> ((Position(G, c)[d] - CellOf(p)[d] + 4) % G[d]) - 4]

Rho(shape, p) == [c \in Grid |-> 12 * Density(shape, p.position, Relative(p, c))]

-----------------------------------------------------------------------------
(* Differences of neighbouring cells and the curl built from them.         *)
DifferenceToUpper(f, c) == [d, comp \in Dims |-> f[Neighbour[1][d][c]][comp] - f[c][comp]]
DifferenceToLower(f, c) == [d, comp \in Dims |-> f[c][comp] - f[Neighbour[-1][d][c]][comp]]

Curl(D) == [d \in Dims |-> D[Second(d), Third(d)] - D[Third(d), Second(d)]]

(* How many blocks of the kernels for some areas work on a cell.           *)
SuperCellOf(pos) == [d \in Dims |-> pos[d] \div SuperCellSize + GUARD_SIZE]
Times == [areas \in {{"CORE+BORDER"}, {"CORE", "BORDER"}} |-> [c \in Grid |->
           MapThenSumSet(LAMBDA area : Visits[area][SuperCellOf(Position(G, c))], areas)]]

(* Variant of the definition below, with an error the code could have had:  *)
(* both fields take differences to the same side.                           *)
updateBHalfLower(areas, B, E) ==
  [c \in Grid |-> LET curl == Curl(DifferenceToLower(E, c))
                  IN  [d \in Dims |-> B[c][d] - Times[areas][c] * curl[d]]]

updateBHalf(areas, B, E) ==
  [c \in Grid |-> LET curl == Curl(DifferenceToUpper(E, c))
                  IN  [d \in Dims |-> B[c][d] - Times[areas][c] * curl[d]]]
updateE(areas, E, B) ==
  [c \in Grid |-> LET curl == Curl(DifferenceToLower(B, c))
                  IN  [d \in Dims |-> E[c][d] + Times[areas][c] * curl[d]]]

Div(D) == D[1, 1] + D[2, 2] + D[3, 3]

-----------------------------------------------------------------------------
(***************************************************************************)
(* PushParticlePerFrame, after the pusher: x is the position in one        *)
(* direction, n the cell in the supercell.  A position just below zero is  *)
(* rounded to one when it is brought back into the cell (tiny), and then   *)
(* corrected.                                                              *)
(***************************************************************************)
Moved(n, x, tiny) ==
  LET moveDir0 == IF tiny THEN -1 ELSE x \div Res
      pos0 == IF tiny THEN Res ELSE x - moveDir0 * Res
      valueCorrector == pos0 \div Res
      moveDir == moveDir0 + valueCorrector
      dir == IF n + moveDir \in 0 .. SuperCellSize - 1 THEN 0 ELSE moveDir
  IN  [pos |-> pos0 - valueCorrector * Res,
       cell |-> n + moveDir - dir * SuperCellSize,
       dir |-> dir]

multiMask(dir) ==
  LET digit(d) == IF dir[d] = -1 THEN 2 ELSE dir[d]
  IN  1 + digit(1) + 3 * digit(2) + 9 * digit(3)

Init ==
  /\ solver \in Solvers
  /\ \E s \in Starts :
       particle = [superCell |-> s.superCell, localCell |-> s.localCell,
                   position |-> s.position, multiMask |-> 1]
  /\ velocity = <<0, 0, 0>>
  /\ fieldE = [Zero EXCEPT ![Linear(G, <<1, 1, 1>>)][2] = Pulse]
  /\ fieldB = Zero /\ fieldJ = ZeroJ
  /\ pc = "push" /\ step = 0
  /\ defect = [c \in Grid |-> Div(DifferenceToLower(fieldE, c)) - Rho(solver[2], particle)[c]]

(* The push of CallUpdate.                                                 *)
Push ==
  /\ pc = "push" /\ step < MaxSteps
  /\ \E v \in Moves :
       LET x == [d \in Dims |-> particle.position[d] + v[d]]
       IN  \E tiny \in {{}, {d \in Dims : x[d] = 0}} :
             LET new == [d \in Dims |-> Moved(particle.localCell[d], x[d], d \in tiny)]
             IN  /\ velocity' = v
                 /\ particle' = [particle EXCEPT
                      !.position = [d \in Dims |-> new[d].pos],
                      !.localCell = [d \in Dims |-> new[d].cell],
                      !.multiMask = multiMask([d \in Dims |-> new[d].dir])]
  /\ pc' = "shift"
  /\ UNCHANGED <<solver, fieldE, fieldB, fieldJ, step, defect>>

(* Its shiftParticles: the mask tells the neighbour to move to.            *)
Shift ==
  /\ pc = "shift"
  /\ LET dir == getRelativeDirections(particle.multiMask - 1)
     IN  particle' = [particle EXCEPT
           !.superCell = [d \in Dims |-> (@[d] + dir[d]) % SuperCells[d]],
           !.multiMask = 1]
  /\ pc' = "beforeCurrent"
  /\ UNCHANGED <<solver, velocity, fieldE, fieldB, fieldJ, step, defect>>

(* YeeSolver::update_beforeCurrent and the clearing of the current.        *)
BeforeCurrent ==
  /\ pc = "beforeCurrent"
  /\ fieldB' = updateBHalf({"CORE+BORDER"}, fieldB, fieldE)
  /\ fieldE' = updateE({"CORE", "BORDER"}, fieldE, fieldB')
  /\ fieldJ' = ZeroJ
  /\ pc' = "current"
  /\ UNCHANGED <<solver, particle, velocity, step, defect>>

(* ComputeCurrentPerFrame of the current solver, in one cell near the      *)
(* particle.                                                               *)
Current(d, cell) ==
  LET old == [e \in Dims |-> particle.position[e] - velocity[e]]
      new == particle.position
      shape == solver[2]
  IN  CASE solver[1] = "Esirkepov" -> Esirkepov(shape, old, new, d, cell)
        [] solver[1] = "EsirkepovNative" -> EsirkepovNative(shape, old, new, d, cell)
        [] solver[1] = "VillaBune" -> VillaBune(old, new, d, cell)
        [] solver[1] = "ZigZag" -> ZigZag(shape, old, new, d, cell)

(* KernelComputeCurrent: every launch with a block for the supercell of    *)
(* the particle deposits its current, in the guard too.                    *)
ComputeCurrent ==
  /\ pc = "current"
  /\ LET at == CellOf(particle)
         launches == Cardinality({offset \in Offsets : SuperCellOf(at) \in Launch[offset]})
         Offset(c) == [d \in Dims |-> Position(LocalG, c)[d] - LocalPosition(at)[d]]
     IN  fieldJ' = [c \in LocalGrid |->
           IF Offset(c) \in [Dims -> -3 .. 3]
           THEN [d \in Dims |-> fieldJ[c][d] + launches * Current(d, Offset(c))]
           ELSE fieldJ[c]]
  /\ pc' = "commJ"
  /\ UNCHANGED <<solver, particle, velocity, fieldE, fieldB, step, defect>>

-----------------------------------------------------------------------------
(***************************************************************************)
(* The current in the guard goes to the border of the neighbour: the       *)
(* kernels for one exchange, along axis d with relative direction dir, as  *)
(* pairs of a cell of the field and one of the exchange buffer.            *)
(***************************************************************************)
(* Variant of the definition below, with an error the code could have had:  *)
(* the sizes of both sides are not switched.                                *)
ExchangeSizeSwapped(s, dir, d) ==
  CASE dir = -1 -> LowerMargin(s) [] dir = 1 -> UpperMargin(s) [] dir = 0 -> G[d]

(* The constructor of FieldJ: cells received from the side dir.            *)
ExchangeSize(s, dir, d) ==
  CASE dir = -1 -> UpperMargin(s) [] dir = 1 -> LowerMargin(s) [] dir = 0 -> G[d]

Threads(dir, d) == (0 .. ExchangeGridDim(dir, d) - 1) \X (0 .. SuperCellSize - 1)
SourceCell(dir, d, t) == ExchangeBlock(dir, d, t[1]) * SuperCellSize + t[2]
NullCell(dir, d) == ExchangeBlock(dir, d, 0) * SuperCellSize

KernelBashCurrent(dir, d, size) ==
  LET skip == IF dir = -1 THEN SuperCellSize - size ELSE 0
  IN  {<<SourceCell(dir, d, t), SourceCell(dir, d, t) - NullCell(dir, d) - skip>> :
         t \in {t \in Threads(dir, d) :
                  /\ dir = -1 => t[2] >= skip
                  /\ dir = 1 => t[2] < size}}

KernelInsertCurrent(dir, d, size) ==
  LET skip == IF dir = 1 THEN SuperCellSize - size ELSE 0
  IN  {<<SourceCell(dir, d, t) - dir * SuperCellSize, SourceCell(dir, d, t) - NullCell(dir, d) - skip>> :
         t \in {t \in Threads(dir, d) :
                  /\ dir = 1 => t[2] >= skip
                  /\ dir = -1 => t[2] < size}}

(* The coordinates of a guard that exchange ex brings to coordinate x of    *)
(* the border: bashed to ex, inserted by the neighbour from the mirrored    *)
(* side.  The buffers of both have the size of the receiving one.           *)
Bashed(s, ex, d, x) ==
  LET from == getRelativeDirections(ex)[d]
      to == getRelativeDirections(getMirroredExchangeType(ex))[d]
      size == ExchangeSize(s, to, d)
      buffer == {i[2] : i \in {i \in KernelInsertCurrent(to, d, size) : i[1] = x}}
  IN  {b[1] : b \in {b \in KernelBashCurrent(from, d, size) : b[2] \in buffer}}

BashedTo == [s \in Solvers |-> [ex \in Exchanges |-> [d \in Dims |->
              [x \in 0 .. gridSuperCells[d] * SuperCellSize - 1 |-> Bashed(s, ex, d, x)]]]]

(* The cells of the guard whose current all exchanges add to a cell.        *)
InsertedTo == [s \in Solvers |-> [c \in LocalGrid |->
  LET pos == Position(LocalG, c)
      Sources(ex) == {Linear(LocalG, <<x, y, z>>) : x \in BashedTo[s][ex][1][pos[1]],
                        y \in BashedTo[s][ex][2][pos[2]], z \in BashedTo[s][ex][3][pos[3]]}
  IN  UNION {Sources(ex) : ex \in Exchanges}]]

(* FieldJ::asyncCommunication of a device that is its own neighbour on all *)
(* sides.                                                                  *)
AsyncCommunication ==
  /\ pc = "commJ"
  /\ fieldJ' = [c \in LocalGrid |->
       LET sources == InsertedTo[solver][c]
       IN  IF sources = {} THEN fieldJ[c]
           ELSE [d \in Dims |-> fieldJ[c][d] + MapThenSumSet(LAMBDA g : fieldJ[g][d], sources)]]
  /\ pc' = "addCurrent"
  /\ UNCHANGED <<solver, particle, velocity, fieldE, fieldB, step, defect>>

(* addCurrentToEMF for both areas, with the current interpolation None.    *)
AddCurrentToEMF ==
  /\ pc = "addCurrent"
  /\ fieldE' = [c \in Grid |-> [d \in Dims |->
       fieldE[c][d] - Times[{"CORE", "BORDER"}][c] * fieldJ[Local[c]][d]]]
  /\ pc' = "afterCurrent"
  /\ UNCHANGED <<solver, particle, velocity, fieldB, fieldJ, step, defect>>

(* YeeSolver::update_afterCurrent                                          *)
AfterCurrent ==
  /\ pc = "afterCurrent"
  /\ fieldB' = updateBHalf({"CORE", "BORDER"}, fieldB, fieldE)
  /\ pc' = "push" /\ step' = step + 1
  /\ UNCHANGED <<solver, particle, velocity, fieldE, fieldJ, defect>>

Next == \/ Push \/ Shift \/ BeforeCurrent \/ ComputeCurrent \/ AsyncCommunication
        \/ AddCurrentToEMF \/ AfterCurrent

Spec == Init /\ [][Next]_vars

-----------------------------------------------------------------------------
Gauss ==
  LET rho == Rho(solver[2], particle)
  IN  \A c \in Grid : Div(DifferenceToLower(fieldE, c)) - rho[c] = defect[c]

(* Between two steps div E - rho is what it was at the start, in every     *)
(* cell: whatever cells and supercells the particle crossed, what it       *)
(* deposited in the field is what its charge density changed by.  No step  *)
(* solves Gauss's law, so that an error would stay forever.                *)
GaussLaw == pc = "push" /\ solver[1] \in {"Esirkepov", "EsirkepovNative"} => Gauss

(* The same for the solver by Villasenor and Buneman.                      *)
VillaBuneGauss == pc = "push" /\ solver[1] = "VillaBune" => Gauss

(* The magnetic field stays free of sources through half steps with the    *)
(* electric field before and after the current.                            *)
DivBZero == \A c \in Grid : Div(DifferenceToUpper(fieldB, c)) = 0

(* Every solver deposits the whole current of the particle, and nothing of *)
(* it is lost or doubled on the way from guards to borders: summed over    *)
(* the cells of the device it is charge times velocity.                    *)
TotalCurrent ==
  LET s == Scale(solver[2], Res)
  IN  pc = "addCurrent" => \A d \in Dims :
        LET J(c) == fieldJ[Local[c]][d]
        IN  Res * MapThenSumSet(J, {c \in Grid : J(c) # 0}) = 12 * velocity[d] * s * s * s

(* What a particle deposits stays in the margins of its solver, which is   *)
(* all the memory a block has around its supercell, and blocks of one      *)
(* launch, which add it to the field without atomics, are further apart    *)
(* than that.                                                              *)
WithinMargins ==
  pc = "current" =>
    /\ \A o \in [Dims -> -LowerMargin(solver) - 1 .. UpperMargin(solver) + 1] :
         (\E d \in Dims : o[d] \notin -LowerMargin(solver) .. UpperMargin(solver))
           => \A d \in Dims : Current(d, o) = 0
    /\ \A offset \in Offsets : SuperCellOf(CellOf(particle)) \in Launch[offset] =>
         \A s \in Launch[offset] \ {SuperCellOf(CellOf(particle))} : \E d \in Dims :
           LET distance == s[d] - SuperCellOf(CellOf(particle))[d]
           IN  (IF distance < 0 THEN -distance ELSE distance) * SuperCellSize
                 >= SuperCellSize + LowerMargin(solver) + UpperMargin(solver)
=============================================================================
