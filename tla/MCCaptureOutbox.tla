--------------------------- MODULE MCCaptureOutbox ---------------------------
(* Instances of CaptureOutbox.  Captures are numbered in the order of their  *)
(* creation, which decides what is claimed first, so nothing is symmetric.   *)
EXTENDS CaptureOutbox

\* A browser with background sync and one capture, one without and two.
TwoDevices == {[sync |-> TRUE, captures |-> 1], [sync |-> FALSE, captures |-> 2]}
==============================================================================
