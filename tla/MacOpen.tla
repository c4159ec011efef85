------------------------------ MODULE MacOpen ------------------------------
(***************************************************************************)
(* The macosx plugin (src/src/plugins/macosx/ao_macosx.c) up to the end of *)
(* ao_plugin_open: its options, the output unit it asks CoreAudio for, the *)
(* stream format that the unit agrees to, and the size of the queue.       *)
(***************************************************************************)
EXTENDS Integers

CONSTANTS
  Devices,
  BigEndian, \* ao_is_big_endian()
  Formats,   \* ao_sample_format: bits, rate, byte_format, and output_channels
  Rates,     \* sample rates a unit may report
  Times,     \* values of the option buffer_time, in ms
  Wrap,      \* what an unsigned int holds: 2^32
  NoStream   \* no format is agreed

ASSUME MacOpenAssumption ==
  /\ BigEndian \in BOOLEAN /\ Wrap \in Nat /\ Wrap > 250
  /\ Formats \subseteq [bits : {8, 16, 24}, channels : Nat \ {0}, rate : Nat \ {0},
                        order : {"big", "little", "native"}]
  /\ Rates \subseteq Nat /\ Times \subseteq 0 .. Wrap - 1

VARIABLES
  pc,         \* "ready", "idle" when open, "refused"; MacQueue has the others
  bufferTime, \* buffer_time
  named,      \* the option dev chose an outputDevice
  unit,       \* the output unit: "none", "made", "disposed"; MacQueue: "running",
              \* "torn down", "stopped"
  format,     \* the format of the samples, or NoStream
  stream,     \* the format the unit agreed to, or NoStream
  size        \* bufferByteCount

openVars == <<bufferTime, named, format, stream, size>>

MacInit ==
  /\ pc = [d \in Devices |-> "ready"]
  /\ bufferTime = [d \in Devices |-> 250] /\ named = [d \in Devices |-> FALSE]
  /\ unit = [d \in Devices |-> "none"] /\ size = [d \in Devices |-> 0]
  /\ format = [d \in Devices |-> NoStream] /\ stream = [d \in Devices |-> NoStream]

Goto(d, stage) == pc' = [pc EXCEPT ![d] = stage]
-----------------------------------------------------------------------------
(* ao_plugin_set_option. *)

SetBufferTime(d, ms) ==
  /\ pc[d] = "ready"
  /\ bufferTime' = [bufferTime EXCEPT ![d] = IF ms < 100 THEN 100 ELSE ms]
  /\ UNCHANGED <<pc, named, unit, format, stream, size>>

\* The option dev: a device is found, or the default one is wanted again.
SetDev(d, found) ==
  /\ pc[d] = "ready" /\ named' = [named EXCEPT ![d] = found]
  /\ UNCHANGED <<pc, bufferTime, unit, format, stream, size>>

\* No such device.
SetDevFails(d) ==
  /\ pc[d] = "ready" /\ Goto(d, "refused") /\ named' = [named EXCEPT ![d] = FALSE]
  /\ UNCHANGED <<bufferTime, unit, format, stream, size>>
-----------------------------------------------------------------------------
(* ao_plugin_open. *)

IsBig(f) == f.order = "big" \/ (f.order = "native" /\ BigEndian)

Asked(f) ==
  [rate |-> f.rate, channels |-> f.channels, bits |-> f.bits,
   big |-> IsBig(f), signed |-> f.bits > 8, float |-> FALSE]

\* What the unit may have made of it; CoreAudio changes no byte order.
Reported(f) ==
  [rate : Rates \cup {f.rate}, channels : {1, f.channels}, bits : {16, f.bits},
   big : {IsBig(f)}, signed : BOOLEAN, float : BOOLEAN]

ASSUME NoStreamAssumption == \A f \in Formats : NoStream \notin Reported(f)

\* kAudioFormatFlagsNativeEndian is the flag for big-endian samples on a
\* big-endian machine, and no flag at all on the others.
NativeFlag(got) == BigEndian /\ got.big

\* Seeded fault: 16 bits are good for all.
FaultAccepts(f, got) ==
  /\ 20 * (got.rate - f.rate) \in -(f.rate) .. f.rate
  /\ got.channels = f.channels /\ ~got.float
  /\ NativeFlag(got) = IsBig(f) /\ got.signed = (f.bits > 8)

\* "If any major settings differ, abort": all but 5% of the rate.
Accepts(f, got) ==
  /\ 20 * (got.rate - f.rate) \in -(f.rate) .. f.rate
  /\ got.channels = f.channels /\ got.bits = f.bits /\ ~got.float
  /\ NativeFlag(got) = IsBig(f) /\ got.signed = (f.bits > 8)

FrameBytes(f) == (f.channels * f.bits) \div 8

BufferBytes(d, f) == ((((bufferTime[d] * f.rate) % Wrap) \div 1000) * FrameBytes(f)) % Wrap

\* A failure of CoreAudio before output_p is set leaves no unit, or one disposed.
OpenRefused(d, f) ==
  /\ pc[d] = "ready" /\ Goto(d, "refused")
  /\ \/ UNCHANGED unit
     \/ named[d] /\ unit' = [unit EXCEPT ![d] = "disposed"]
  /\ format' = [format EXCEPT ![d] = f]
  /\ UNCHANGED <<bufferTime, named, stream, size>>

\* A later one leaves the unit, as does a format that differs.
OpenFails(d, f) ==
  /\ pc[d] = "ready" /\ Goto(d, "refused")
  /\ unit' = [unit EXCEPT ![d] = "made"] /\ format' = [format EXCEPT ![d] = f]
  /\ UNCHANGED <<bufferTime, named, stream, size>>

OpenUnit(d, f, got) ==
  /\ pc[d] = "ready" /\ got \in Reported(f) /\ Accepts(f, got) /\ Goto(d, "idle")
  /\ unit' = [unit EXCEPT ![d] = "made"] /\ format' = [format EXCEPT ![d] = f]
  /\ stream' = [stream EXCEPT ![d] = got]
  /\ size' = [size EXCEPT ![d] = BufferBytes(d, f)]
  /\ UNCHANGED <<bufferTime, named>>
-----------------------------------------------------------------------------
(* What should hold. *)

MacTypeOK ==
  /\ bufferTime \in [Devices -> 0 .. Wrap - 1] /\ named \in [Devices -> BOOLEAN]
  /\ format \in [Devices -> Formats \cup {NoStream}]
  /\ \A d \in Devices : pc[d] \notin {"ready", "refused", "closed"} => stream[d] # NoStream
  /\ size \in [Devices -> 0 .. Wrap - 1]

\* The unit reads the samples as the core has written them, which is in the byte
\* order of the format (driver_byte_format) and signed beyond 8 bits.
StreamFits ==
  \A d \in Devices : stream[d] # NoStream =>
    [stream[d] EXCEPT !.rate = 0] = [Asked(format[d]) EXCEPT !.rate = 0]
=============================================================================
