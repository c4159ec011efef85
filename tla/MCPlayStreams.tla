--------------------------- MODULE MCPlayStreams ---------------------------
(* Instances of PlayStreams: every driver, blocks and pieces of three      *)
(* bytes, frames of two, a nas server with a buffer of four.               *)
EXTENDS PlayStreams

AllDrivers == OneCall \cup {"oss", "esd", "nas"}
=============================================================================
