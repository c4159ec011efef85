----------------------------- MODULE Positions ------------------------------
(***************************************************************************)
(* The entries of a sequence that the C code keeps: it walks through a     *)
(* list and passes over the others.                                        *)
(***************************************************************************)
EXTENDS Integers, Sequences, FiniteSets

\* The n-th of some positions.
Nth(at, n) == CHOOSE i \in at : Cardinality({j \in at : j <= i}) = n

\* The entries of m at some positions, in their order.
Kept(m, at) == [n \in 1 .. Cardinality(at) |-> m[Nth(at, n)]]
=============================================================================
