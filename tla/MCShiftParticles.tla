-------------------------- MODULE MCShiftParticles --------------------------
(* Instances of ShiftParticles for TLC; the other values are in the         *)
(* configurations.  A supercell has a frame at the start unless it may      *)
(* start with no particle.                                                  *)
EXTENDS ShiftParticles

(* Lists of up to three frames, and supercells that are empty in between:   *)
(* the fourth can give the third one, empty or not, more than two frames.   *)
WithEmpty == <<{0, 2}, {0, 1, 4}, {0, 1}, {1, 5}>>

(* The third supercell has none, and its neighbours have particles for it.  *)
ThirdEmpty == <<{0}, {0, 1}, {0}, 0 .. 5>>
=============================================================================
