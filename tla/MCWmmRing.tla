------------------------------ MODULE MCWmmRing ------------------------------
(* Instances of WmmRing: a ring of two or three blocks of two bytes.        *)
EXTENDS WmmRing
==============================================================================
