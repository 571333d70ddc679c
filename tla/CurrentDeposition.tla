-------------------------- MODULE CurrentDeposition --------------------------
(***************************************************************************)
(* The current a moving macro particle deposits on the grid, and the       *)
(* charge density it stands for, in exact arithmetic.                      *)
(*                                                                         *)
(* A position is a vector of integers, in units of 1/Res of a cell and     *)
(* relative to the cell the particle is in after the step.  A form factor  *)
(* is multiplied by Scale, a density by Scale^3 and a current by           *)
(* 12 * Scale^3, so that all of them are integers: the code computes the   *)
(* same polynomials in floating point.  Charge, cell volume and time step  *)
(* are common factors of all terms and left out.                           *)
(***************************************************************************)
EXTENDS Integers, FiniteSets, FiniteSetsExt

CONSTANT Res          \* positions along the edge of a cell

ASSUME ResAssumption == Res \in Nat \ {0}

Dims == 1 .. 3
\* The two directions other than d, in the order rotateOrigin puts them.
Second(d) == (d % 3) + 1
Third(d)  == ((d + 1) % 3) + 1

Sum(from, to, f(_)) == MapThenSumSet(f, from .. to)

\* The particle shapes, the support of a shape, and below its cloud shape.
Shapes == {"CIC", "TSC", "PCS"}
Support == [NGP |-> 1, CIC |-> 2, TSC |-> 3, PCS |-> 4]

-----------------------------------------------------------------------------
(* Variants of definitions below with an error the code could have had.     *)
(* Nothing uses them but the checks that the properties notice the error.   *)

(* Grid points that are not moved with a particle that moves down.          *)
EsirkepovBeginFixed(supp, pos0, pos1) == -(supp \div 2 + 1 - ((supp + 1) % 2))

(* A margin that forgets the motion of the particle.                        *)
UpperMarginResting(s) == IF s[1] = "VillaBune" THEN 2 ELSE (Support[s[2]] + 1) \div 2

-----------------------------------------------------------------------------
(***************************************************************************)
(* Form factors, with u positions per cell.                                *)
(***************************************************************************)
CloudShape == [CIC |-> "NGP", TSC |-> "CIC", PCS |-> "TSC"]

Scale(shape, u) ==
    CASE shape = "NGP" -> 1
      [] shape = "CIC" -> u
      [] shape = "TSC" -> 8 * u * u
      [] shape = "PCS" -> 6 * u * u * u

Abs(x) == IF x < 0 THEN -x ELSE x

\* The share of a grid point at distance x, which is in the support of the shape.
NGP(u, x) == 1
CIC(u, x) == u - Abs(x)
TSC(u, x) == IF 2 * Abs(x) < u THEN 6 * u * u - 8 * x * x
             ELSE (3 * u - 2 * Abs(x)) * (3 * u - 2 * Abs(x))
PCS(u, x) == IF Abs(x) < u THEN 4 * u * u * u - 6 * x * x * u + 3 * x * x * Abs(x)
             ELSE (2 * u - Abs(x)) * (2 * u - Abs(x)) * (2 * u - Abs(x))

OnSupport(shape, u, x) ==
    CASE shape = "NGP" -> NGP(u, x) [] shape = "CIC" -> CIC(u, x)
      [] shape = "TSC" -> TSC(u, x) [] shape = "PCS" -> PCS(u, x)

\* ChargeAssignment tests first whether x is in the support.
InSupport(shape, u, x) ==
    IF shape = "NGP" THEN -u <= 2 * x /\ 2 * x < u ELSE 2 * Abs(x) < Support[shape] * u

ChargeAssignment(shape, u, x) == IF InSupport(shape, u, x) THEN OnSupport(shape, u, x) ELSE 0

\* ComputeGridValuePerFrame for the charge density, of a particle at pos, in a cell.
Density(shape, pos, cell) ==
    LET supp == Support[shape]
        assign == [d \in Dims |-> ChargeAssignment(shape, Res, cell[d] * Res - pos[d])]
    IN  IF \A d \in Dims : cell[d] \in -(supp \div 2) .. (supp + 1) \div 2
        THEN assign[1] * assign[2] * assign[3] ELSE 0

-----------------------------------------------------------------------------
(***************************************************************************)
(* Esirkepov: grid points [begin, end), shifted by one against the motion. *)
(***************************************************************************)
EsirkepovLowerMargin(supp) == supp \div 2 + 1 - ((supp + 1) % 2)

\* The first grid point, one further when the particle moves down.
EsirkepovBegin(supp, pos0, pos1) ==
    -EsirkepovLowerMargin(supp) + (IF pos0 > pos1 THEN 1 ELSE 0)

Esirkepov(shape, old, new, d, cell) ==
    LET supp == Support[shape]
        shift == [e \in Dims |-> IF supp % 2 = 1 THEN (2 * new[e]) \div Res ELSE 0]
        pos0 == [e \in Dims |-> old[e] - shift[e] * Res]
        pos1 == [e \in Dims |-> new[e] - shift[e] * Res]
        begin == [e \in Dims |-> EsirkepovBegin(supp, pos0[e], pos1[e])]
        at == [e \in Dims |-> cell[e] - shift[e]]
        S0(e, g) == ChargeAssignment(shape, Res, g * Res - pos0[e])
        DS(e, g) == ChargeAssignment(shape, Res, g * Res - pos1[e]) - S0(e, g)
        i == Second(d)
        j == Third(d)
        tmp == 6 * S0(i, at[i]) * S0(j, at[j]) + 3 * DS(i, at[i]) * S0(j, at[j])
               + 3 * S0(i, at[i]) * DS(j, at[j]) + 2 * DS(i, at[i]) * DS(j, at[j])
        DSd(k) == DS(d, k)
    IN  IF \A e \in Dims : at[e] \in begin[e] .. begin[e] + supp
        THEN -2 * tmp * Sum(begin[d], at[d], DSd) ELSE 0

-----------------------------------------------------------------------------
(***************************************************************************)
(* EsirkepovNative: the same without shifting coordinates, over all grid   *)
(* points the motion can reach.                                            *)
(***************************************************************************)
EsirkepovNative(shape, old, new, d, cell) ==
    LET supp == Support[shape]
        begin == -(supp \div 2 + 1)
        end == (supp + 1) \div 2 + 2
        S0(e, g) == ChargeAssignment(shape, Res, g * Res - old[e])
        DS(e, g) == ChargeAssignment(shape, Res, g * Res - new[e]) - S0(e, g)
        i == Second(d)
        j == Third(d)
        tmp == 6 * S0(i, cell[i]) * S0(j, cell[j]) + 3 * DS(i, cell[i]) * S0(j, cell[j])
               + 3 * S0(i, cell[i]) * DS(j, cell[j]) + 2 * DS(i, cell[i]) * DS(j, cell[j])
        DSd(k) == DS(d, k)
    IN  IF \A e \in Dims : cell[e] \in begin .. end - 1
        THEN -2 * tmp * Sum(begin, cell[d], DSd) ELSE 0

-----------------------------------------------------------------------------
(***************************************************************************)
(* VillaBune, CIC only: the trajectory is not split at the boundary of a   *)
(* cell, because the cells of both ends are computed from the old position *)
(* (addCurrentSplitX, Y and Z); the cell is the one of its middle.         *)
(***************************************************************************)
VillaBune(old, new, d, cell) ==
    LET delta == [e \in Dims |-> new[e] - old[e]]
        off == [e \in Dims |-> (old[e] + new[e]) \div (2 * Res)]
        mean == [e \in Dims |-> (old[e] + new[e]) % (2 * Res)]
        at == [e \in Dims |-> cell[e] - off[e]]
        i == Second(d)
        j == Third(d)
        weight(e) == IF at[e] = 1 THEN mean[e] ELSE 2 * Res - mean[e]
        sign == IF at[i] = at[j] THEN 1 ELSE -1
    IN  IF at[d] = 0 /\ at[i] \in 0 .. 1 /\ at[j] \in 0 .. 1
        THEN 3 * delta[d] * weight(i) * weight(j) + sign * delta[1] * delta[2] * delta[3]
        ELSE 0

-----------------------------------------------------------------------------
(***************************************************************************)
(* ZigZag: two virtual particles, from the old position to a relay point   *)
(* and from there to the new one, each with a current in its own cell.     *)
(***************************************************************************)
Cell(x) == x \div Res
calc_relayPoint(x1, x2) ==
    IF Cell(x1) = Cell(x2) THEN x2 ELSE Max({Cell(x1), Cell(x2)}) * Res

\* ShiftCoordinateSystem on positions in units of 1/(2 Res): shift of the cursor.
StaticShift(supp, v) == IF supp % 2 = 0 THEN v \div (2 * Res) ELSE IF v >= Res THEN 1 ELSE 0

ZigZag(shape, old, new, d, cell) ==
    LET relay == [e \in Dims |-> calc_relayPoint(old[e], new[e])]
        Virtual(x, flux) ==
            LET pos(e) == x[e] + relay[e] - 2 * Res * Cell(x[e]) - (IF e = d THEN Res ELSE 0)
                cloud(e) == IF e = d THEN CloudShape[shape] ELSE shape
                shift(e) == StaticShift(Support[cloud(e)], pos(e))
                at(e) == cell[e] - Cell(x[e]) - shift(e)
                begin(e) == ((Support[cloud(e)] + 1) % 2) - (Support[cloud(e)] \div 2)
                Assigned(e) ==
                    IF at(e) \in begin(e) .. begin(e) + Support[cloud(e)] - 1
                    THEN OnSupport(cloud(e), 2 * Res, (at(e) + shift(e)) * 2 * Res - pos(e)) ELSE 0
            IN  flux * Assigned(1) * Assigned(2) * Assigned(3)
    IN  3 * (Virtual(old, relay[d] - old[d]) + Virtual(new, new[d] - relay[d]))

-----------------------------------------------------------------------------
(***************************************************************************)
(* GetMargin: how far around its supercell a current solver may write.     *)
(***************************************************************************)
LowerMargin(s) ==
    LET supp == Support[s[2]]
    IN  CASE s[1] = "Esirkepov" -> EsirkepovLowerMargin(supp)
          [] s[1] = "VillaBune" -> 1
          [] s[1] \in {"EsirkepovNative", "ZigZag"} -> supp \div 2 + 1
UpperMargin(s) ==
    IF s[1] = "VillaBune" THEN 2 ELSE (Support[s[2]] + 1) \div 2 + 1
=============================================================================
