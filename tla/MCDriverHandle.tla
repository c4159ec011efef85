--------------------------- MODULE MCDriverHandle ---------------------------
(* DriverHandle for TLC: two devices and the application share three       *)
(* handles.                                                                *)
EXTENDS DriverHandle, TLC

CONSTANTS d1, d2

AllPlugins == {"oss", "sun", "aixs", "nas", "irix", "sndio", "roar", "pulse"}
Swaps == Permutations({d1, d2})
=============================================================================
