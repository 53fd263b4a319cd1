---------------------------- MODULE MCSlidingWindow ---------------------------
(* A small limiter: three admissions a window let a log keep an expired    *)
(* prefix without compacting it, and fewer MaxKeys than keys let both      *)
(* sweep triggers fire.  The keys are interchangeable and no property of   *)
(* the run is a liveness property, so the symmetry is sound.               *)
EXTENDS SlidingWindow, TLC

KeySymmetry == Permutations(Key)
===============================================================================
