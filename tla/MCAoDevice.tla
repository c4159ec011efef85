----------------------------- MODULE MCAoDevice -----------------------------
(***************************************************************************)
(* AoDevice for TLC: a static-matrix file driver (wav), a live plugin and  *)
(* a plugin that declares no output order, options of every kind.          *)
(***************************************************************************)
EXTENDS AoDevice, TLC

CONSTANTS wav, alsa, plain, s0, s1, s2, d1, d2, p1

MCDriverType == (wav :> "file") @@ (alsa :> "live") @@ (plain :> "live")
MCMatrixValue ==
  [o \in Options |->
    CASE o = "front" -> "front" [] o = "rear" -> "rear"
      [] o = "nonsense" -> "bad" [] OTHER -> "none"]

\* A stereo and a mono format with a channel matrix, one without.
MCFormats ==
  {[channels |-> 2, wide |-> TRUE, client |-> "little", matrix |-> "named"],
   [channels |-> 1, wide |-> TRUE, client |-> "big", matrix |-> "M"],
   [channels |-> 2, wide |-> FALSE, client |-> "big", matrix |-> "bad"]}

\* One format, for the runs about ownership with two devices.
MCPairFormats ==
  {[channels |-> 1, wide |-> TRUE, client |-> "little", matrix |-> "named"]}

MCSymmetry == Permutations({d1, d2}) \cup Permutations({s1, s2})
=============================================================================
