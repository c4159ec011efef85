----------------------------- MODULE SampleFifo -----------------------------
(***************************************************************************)
(* What an output driver with a buffer promises: the bytes it has taken    *)
(* from ao_play reach the audio system in their order, each once and none  *)
(* invented, and it never holds more than its buffer.  A byte is its       *)
(* position in the device's stream, counted from 1.                        *)
(***************************************************************************)
EXTENDS Integers, Sequences

CONSTANTS
  Devices,
  Capacity   \* bytes a device may hold

VARIABLES
  taken,     \* how many bytes the driver of each device has taken
  out        \* what the audio system has got from it

FifoInit == taken = [d \in Devices |-> 0] /\ out = [d \in Devices |-> <<>>]

Take(d, n) ==
  /\ taken[d] + n - Len(out[d]) <= Capacity
  /\ taken' = [taken EXCEPT ![d] = @ + n]
  /\ UNCHANGED out

Deliver(d, n) ==
  /\ Len(out[d]) + n <= taken[d]
  /\ out' = [out EXCEPT ![d] = @ \o [i \in 1 .. n |-> Len(@) + i]]
  /\ UNCHANGED taken

FifoNext == \E d \in Devices, n \in 1 .. Capacity : Take(d, n) \/ Deliver(d, n)

FifoSpec == FifoInit /\ [][FifoNext]_<<taken, out>>
=============================================================================
