---------------------------- MODULE PlayStreams ----------------------------
(***************************************************************************)
(* One device of a driver that plays through a stream: oss, sun, aixs,     *)
(* roar, sndio, irix, pulse (OutputStream), esd (EsdStream) or nas         *)
(* (NasStream), whichever the application opened.                          *)
(***************************************************************************)
EXTENDS EsdStream, NasStream

vars == <<streamVars, esdVars, nasVars>>

Init == StreamInit /\ EsdInit /\ NasInit

Next ==
  \/ DirectNext /\ UNCHANGED <<esdVars, nasVars>>
  \/ EsdNext /\ UNCHANGED nasVars
  \/ NasNext /\ UNCHANGED esdVars

Spec == Init /\ [][Next]_vars

\* The application's thread runs, what is written to is read, so that write(2)
\* and its like succeed in the end, and the nas server plays.
FairSpec ==
  /\ Spec
  /\ WF_vars(DirectStep /\ UNCHANGED <<esdVars, nasVars>>)
  /\ WF_vars(EsdStep /\ UNCHANGED nasVars)
  /\ WF_vars(pc = "last" /\ EsdClose /\ UNCHANGED nasVars)
  /\ WF_vars(NasStep /\ UNCHANGED esdVars)
  /\ WF_vars(NasPlays /\ UNCHANGED esdVars)
-----------------------------------------------------------------------------
(* What should hold, with WholeBlocks of EsdStream. *)

Byte == 0 .. MaxBytes

TypeOK ==
  /\ driver \in Drivers
  /\ pc \in {"none", "refused", "open", "pieces", "call", "flush", "blocks", "flow",
             "failed", "last", "closed"}
  /\ left \in Nat /\ taken \in 0 .. MaxBytes /\ out \in Seq(Byte)
  /\ told \in BOOLEAN /\ result \in {-1, 0, 1}
  /\ fill \in Seq(Byte) /\ Len(fill) <= Block
  /\ writing \in Seq(Byte) /\ Len(writing) <= Block /\ alive \in BOOLEAN
  /\ room \in 0 .. NasBuffer /\ level \in Nat
  /\ events \in Seq([kind : {"LowWater", "Pause", "Start"}, bytes : 0 .. NasBuffer])

\* Drivers that give everything they took or say that they could not.
Careful == driver \in {"oss", "esd", "nas", "pulse"}

Fifo == INSTANCE SampleFifo WITH
  Devices <- {1}, Capacity <- 2 * Block + MaxBytes,
  taken <- [d \in {1} |-> taken], out <- [d \in {1} |-> Heard]

\* What a careful driver gives its audio system is what was played, every byte
\* once and in order, with silence only at its end, and when its play returns 1
\* it has given away all but what esd may hold back, less than a block.  The
\* others may leave bytes out, but never go back.
DeliversInOrder ==
  [][ /\ Careful => [Fifo!FifoNext]_<<taken, Heard>>
      /\ Careful /\ pc' = "open" => Len(Heard') + Len(fill') = taken' /\ Len(fill') < Block
      /\ Len(Heard') >= Len(Heard) /\ SubSeq(Heard', 1, Len(Heard)) = Heard
      /\ \A i, j \in 1 .. Len(Heard') : i < j => Heard'[i] < Heard'[j] ]_vars

\* ao_plugin_play and ao_plugin_close return: the pieces and blocks end, and the
\* nas server owes an event whenever the plugin waits for one.
CallsReturn ==
  pc \in {"pieces", "call", "flush", "blocks", "flow", "last"}
    ~> pc \in {"open", "failed", "closed"}

\* ao_close returns 1 when the remaining data was written, if no ao_play has
\* said otherwise.
OneMeansWritten == result = 1 /\ ~told => Len(Heard) = taken
=============================================================================
