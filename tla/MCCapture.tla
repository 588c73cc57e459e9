------------------------------- MODULE MCCapture -------------------------------
(* Instances of Capture.  Contents and callers are interchangeable: nothing    *)
(* in the specification but the CHOOSE of an idle caller's filler tells them   *)
(* apart, so only callers are declared symmetric.                              *)
EXTENDS Capture, TLC

CONSTANTS c1, c2, t1, t2

CallerSymmetry == Permutations(Callers)
================================================================================
