---------------------------- MODULE MovingWindow ----------------------------
(***************************************************************************)
(* The moving window of PIConGPU and what it does to the topology.         *)
(*                                                                         *)
(* The devices are stacked in y.  When the window has moved by the height  *)
(* of one device all of them slide: every device moves up one position,    *)
(* the one at the top is put at the bottom and starts with new data.  A    *)
(* rank keeps                                                              *)
(*   counter   slideCounter of MovingWindow                                *)
(*   last      lastSlideStep of MovingWindow                               *)
(*   yoffset   the offset CommunicatorMPI adds to the rank's coordinate.   *)
(* The lengths, which are floating point in the code, enter only through   *)
(* the two step counts computed from them.                                 *)
(***************************************************************************)
EXTENDS Integers, FiniteSets

CONSTANTS
  Devices,              \* number of ranks in y
  StepsPerGPU,          \* steps the window needs for the height of a device
  StepsInFuture,        \* steps by which sliding starts before the end
  SlidingWindowActive   \* setSlidingWindow

ASSUME WindowAssumption ==
  /\ Devices \in Nat \ {0}
  \* a device is several cells high, and YeeSolver asserts that light does not
  \* cross a cell in one step
  /\ StepsPerGPU \in Nat \ {0, 1}
  /\ StepsInFuture \in Nat
  /\ SlidingWindowActive \in BOOLEAN
  \* otherwise the unsigned difference in the code wraps around
  /\ StepsInFuture <= StepsPerGPU * (Devices - 1)

Ranks == 0 .. Devices - 1

FirstSlideStep == StepsPerGPU * Devices - StepsInFuture

FirstMoveStep == StepsPerGPU * (Devices - 1) - StepsInFuture

(* getCurrentSlideInfo sets doSlide in these steps, whether or not the      *)
(* slide has been counted already.                                          *)
SlideInCurrentStep(step) ==
  /\ SlidingWindowActive
  /\ FirstMoveStep <= step
  /\ FirstSlideStep <= step
  /\ (step + StepsInFuture) % StepsPerGPU = 0

NewWindow == [counter |-> 0, last |-> 0, yoffset |-> 0]

(* Variants of definitions below with an error the code could have had.     *)
(* Nothing uses them but the checks that the properties notice the error.   *)

(* A restart that does not remember the slide of its step as counted.       *)
RestoreWindowForgets(slides, step) ==
  [counter |-> slides,
   last |-> 0,
   yoffset |-> IF SlidingWindowActive THEN -(slides % Devices) ELSE 0]

(* Every query of the slide counter or of the window counts the slide of    *)
(* the step it asks for, unless that is the last slide that was counted     *)
(* (incrementSlideCounter).                                                 *)
GetSlideInfo(w, step) ==
  IF SlideInCurrentStep(step) /\ w.last # step
  THEN [w EXCEPT !.counter = @ + 1, !.last = step]
  ELSE w

(* CommunicatorMPI::slide.                                                  *)
CommSlide(w) == [w EXCEPT !.yoffset = IF @ - 1 = -Devices THEN 0 ELSE @ - 1]

(* The restart of HDF5Writer and ADIOSWriter: setSlideCounter, and          *)
(* setStateAfterSlides, which slides numSlides % dims[1] times.             *)
RestoreWindow(slides, step) ==
  [counter |-> slides,
   last |-> step,
   yoffset |-> IF SlidingWindowActive THEN -(slides % Devices) ELSE 0]

(* coordinates[1] of a rank, and the ranks of its neighbours in y.          *)
Position(r, w) == (r + w.yoffset) % Devices

Neighbours(r, w) ==
  {(Position(r, w) + d - w.yoffset) % Devices :
     d \in {e \in {-1, 1} : Position(r, w) + e \in Ranks}}

(* The part of space a rank is at, in heights of a device from where the    *)
(* simulation started: the offset used for initialisation, background       *)
(* fields and files.                                                        *)
Slab(r, w) == Position(r, w) + w.counter

(* Reference: the slides that have happened when a step begins.             *)
SlidesUpTo(step) == Cardinality({s \in 0 .. step : SlideInCurrentStep(s)})
=============================================================================
