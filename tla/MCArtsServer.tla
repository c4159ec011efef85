---------------------------- MODULE MCArtsServer ----------------------------
(* Instances of ArtsServer: three devices of one process, two of them with *)
(* multi=yes.                                                              *)
EXTENDS ArtsServer

TwoDevices == 1 .. 2
ThreeDevices == 1 .. 3
=============================================================================
