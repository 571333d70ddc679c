---------------------------- MODULE GuardDelivery ----------------------------
(***************************************************************************)
(* What the exchange of particles promises to the simulation: in every     *)
(* step each rank hands the particles in its guards to its neighbours, and *)
(* a rank leaves a step only when it has got every particle that was owed  *)
(* to it in that step.  How many messages that takes, and when they are    *)
(* sent, is not said.                                                      *)
(***************************************************************************)
EXTENDS Integers

CONSTANTS
  Ranks,      \* MPI ranks
  Channels,   \* directed neighbour relations: a send exchange of a rank
  Src,        \* Src[c]: the rank whose guard is emptied
  Dst,        \* Dst[c]: the rank that inserts
  MaxStep,    \* bound: simulation steps
  MaxGuard    \* bound: particles in a guard at the start of a step

VARIABLES
  step,       \* step[r]: the step rank r is in, 0 before the first
  due         \* due[c][k]: particles of step k still to be inserted at Dst[c]

absVars == <<step, due>>

Outgoing(r) == {c \in Channels : Src[c] = r}

Incoming(r) == {c \in Channels : Dst[c] = r}

AbsInit ==
  /\ step = [r \in Ranks |-> 0]
  /\ due = [c \in Channels |-> [k \in 1 .. MaxStep |-> 0]]

(* Rank r goes on to its next step, in which it owes what its particle push *)
(* left in its guards.                                                      *)
AbsStartStep(r) ==
  /\ step[r] < MaxStep
  /\ \A c \in Incoming(r) :
       step[r] > 0 => step[Src[c]] >= step[r] /\ due[c][step[r]] = 0
  /\ step' = [step EXCEPT ![r] = @ + 1]
  /\ \E owed \in [Outgoing(r) -> 0 .. MaxGuard] :
       due' = [c \in Channels |->
                 IF c \in Outgoing(r)
                 THEN [due[c] EXCEPT ![step[r] + 1] = owed[c]]
                 ELSE due[c]]

(* Some of the particles owed in the step of the receiver are inserted.     *)
AbsDeliver(c) ==
  LET k == step[Dst[c]] IN
  /\ k > 0
  /\ \E m \in 1 .. due[c][k] : due' = [due EXCEPT ![c][k] = @ - m]
  /\ UNCHANGED step

AbsNext ==
  \/ \E r \in Ranks : AbsStartStep(r)
  \/ \E c \in Channels : AbsDeliver(c)

AbsSpec == AbsInit /\ [][AbsNext]_absVars
=============================================================================
