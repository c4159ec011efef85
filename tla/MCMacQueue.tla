----------------------------- MODULE MCMacQueue -----------------------------
(***************************************************************************)
(* Instances of MacQueue: one device whose queue of no, one, three or four *)
(* frames wraps around within and between chunks, and two devices that     *)
(* share the condition variable.  At 12 Hz buffer_time is worth a frame or *)
(* a few, and an unsigned int that wraps at 8000 makes 700 ms worth none.  *)
(***************************************************************************)
EXTENDS MacQueue

OneDevice == {1}
TwoDevices == 1 .. 2

Format(bits, channels, rate, order) ==
  [bits |-> bits, channels |-> channels, rate |-> rate, order |-> order]

SmallFormats ==
  {Format(8, 1, 12, "native"), Format(16, 1, 12, "little"), Format(24, 1, 12, "native"),
   Format(16, 1, 12, "big")}

OneFormat == {Format(8, 1, 8, "native")}
=============================================================================
