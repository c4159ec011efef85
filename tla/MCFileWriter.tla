---------------------------- MODULE MCFileWriter ----------------------------
(* Instances of FileWriter: lengths that wrap, a buffer that holds a header *)
(* and not a whole chunk behind it, and standard output at the start or in *)
(* the middle of its file.                                                 *)
EXTENDS FileWriter
=============================================================================
