------------------------------ MODULE AlsaOpen ------------------------------
(***************************************************************************)
(* How the alsa plugin (src/src/plugins/alsa/ao_alsa.c) finds a device and *)
(* a sample format: ao_plugin_open tries the ALSA devices fit for the      *)
(* channel count one after another, alsa_set_hwparams falls back to wider  *)
(* formats, and what one attempt has changed in the format and in the      *)
(* device structure is what the next attempt starts from.  Each attempt    *)
(* meets any hardware: the formats it supports, and whether it accepts the *)
(* rest of the parameters.                                                 *)
(***************************************************************************)
EXTENDS Integers, Sequences

CONSTANTS
  Bits,      \* widths the application asks for
  Channels,  \* channel counts it asks for
  Clients,   \* byte orders of its samples
  Host,      \* byte order of the machine
  Available  \* formats the hardware may support

Formats == {"U8", "S16", "S24", "S24_3LE", "S24_3BE", "S32"}

ASSUME AlsaAssumption ==
  /\ Bits \subseteq Nat /\ Channels \subseteq Nat \ {0}
  /\ Clients \subseteq {"little", "big"} /\ Host \in {"little", "big"}
  /\ Available \subseteq Formats

VARIABLES
  pc,          \* "initialised", "trying", "open", "refused", "closed"
  channels,    \* device->output_channels
  dev,         \* internal->dev as ao_plugin_set_option left it, or "none"
  id,          \* internal->id, -1 when no card was named
  prebits,     \* the width the application asked for
  bits,        \* format->bits
  bitformat,   \* internal->bitformat
  client,      \* device->client_byte_format
  driver,      \* device->driver_byte_format
  todo,        \* ALSA devices still to be tried
  hardware,    \* the format the open device is really set to, or "none"
  handles,     \* open pcm handles
  padoutw,     \* internal->padoutw
  padbuffer,   \* internal->padbuffer, whether there is one
  sampleWidth  \* sample_size / output_channels

openVars == <<pc, channels, dev, id, prebits, bits, bitformat, client, driver,
              todo, hardware, handles, padoutw, padbuffer, sampleWidth>>

OpenInit ==
  /\ pc = "initialised" /\ channels = 0 /\ prebits = 0 /\ bits = 0
  /\ dev = "none" /\ id = -1 /\ bitformat = "none" /\ client = Host /\ driver = "unset" /\ todo = <<>>
  /\ hardware = "none" /\ handles = 0 /\ padoutw = 0
  /\ padbuffer = FALSE /\ sampleWidth = 0
-----------------------------------------------------------------------------
(* ao_plugin_set_option: the options that name a device.  The last one wins,  *)
(* and id = -1 asks for the search again.                                     *)

SetDev ==
  /\ pc = "initialised" /\ dev' = "named"
  /\ UNCHANGED <<pc, channels, id, prebits, bits, bitformat, client, driver, todo,
                 hardware, handles, padoutw, padbuffer, sampleWidth>>

SetId(card) ==
  /\ pc = "initialised" /\ id' = card /\ dev' = "none"
  /\ UNCHANGED <<pc, channels, prebits, bits, bitformat, client, driver, todo,
                 hardware, handles, padoutw, padbuffer, sampleWidth>>
-----------------------------------------------------------------------------
(* ao_plugin_open, up to the first attempt. *)

\* Seeded fault: an odd width is played as 16 bits.
FaultWanted(b) == CASE b = 8 -> "U8" [] b = 24 -> "S24" [] b = 32 -> "S32"
                    [] OTHER -> "S16"

\* alsa_get_sample_bitformat.
Wanted(b) == CASE b = 8 -> "U8" [] b = 16 -> "S16" [] b = 24 -> "S24"
               [] b = 32 -> "S32" [] OTHER -> "invalid"

\* The devices for the channel count; "default" comes last in any case.
Surround(n) ==
  CASE n \in {3, 4} -> <<"surround40", "surround51", "default">>
    [] n \in {5, 6} -> <<"surround51", "default">>
    [] n = 2 -> <<"front", "default">>
    [] n = 1 -> <<"default">>
    [] OTHER -> <<"surround71", "default">>

\* Seeded fault: 16-bit samples are taken to have no byte order.
FaultDriverOrder(b, order) == IF b > 16 THEN order ELSE driver

\* driver_byte_format: samples of one byte leave it alone.
DriverOrder(b, order) == IF b > 8 THEN order ELSE driver

BeginOpen(b, n, order) ==
  /\ pc = "initialised" /\ Wanted(b) # "invalid"
  /\ pc' = "trying" /\ channels' = n /\ prebits' = b /\ bits' = b
  /\ bitformat' = Wanted(b) /\ client' = order
  /\ driver' = DriverOrder(b, order)
  /\ todo' = IF dev # "none" THEN <<dev>> ELSE IF id >= 0 THEN <<"hw">> ELSE Surround(n)
  /\ UNCHANGED <<dev, id, hardware, handles, padoutw, padbuffer, sampleWidth>>

BadBits(b) ==
  /\ pc = "initialised" /\ Wanted(b) = "invalid" /\ pc' = "refused" /\ prebits' = b
  /\ UNCHANGED <<channels, dev, id, bits, bitformat, client, driver, todo, hardware,
                 handles, padoutw, padbuffer, sampleWidth>>
-----------------------------------------------------------------------------
(* alsa_set_hwparams: the sample format. *)

\* The formats of the switch, in its order, from the one asked for.
Wider(f) ==
  CASE f = "U8" -> <<"S16", "S24", "S24_3LE", "S24_3BE", "S32">>
    [] f = "S16" -> <<"S24", "S24_3LE", "S24_3BE", "S32">>
    [] f = "S24" -> <<"S24_3LE", "S24_3BE", "S32">>
    [] OTHER -> <<>>

\* The format the device takes: the one asked for or the first wider one that
\* it supports.  The packed formats have no case in the switch: what is left of
\* one from an earlier attempt is not set, nor is that an error.
Agreed(f, supported) ==
  IF f \in supported THEN f
  ELSE LET fits == {i \in 1 .. Len(Wider(f)) : Wider(f)[i] \in supported}
       IN IF fits # {}
          THEN Wider(f)[CHOOSE i \in fits : \A j \in fits : i <= j]
          ELSE IF f \in {"S24_3LE", "S24_3BE"} THEN f ELSE "none"

\* Seeded fault: the wider format is used, but its width is not noted.
FaultBitsOf(f) == bits

\* format->bits for the format agreed on; the packed formats do not set it.
BitsOf(f) ==
  CASE f = "S16" /\ f # bitformat -> 16
    [] f = "S24" /\ f # bitformat -> 24
    [] f = "S32" /\ f # bitformat -> 32
    [] OTHER -> bits

\* Seeded fault: the order guessed at first is never corrected.
FaultOrderOf(f) == driver

\* The packed formats have an order of their own, whatever the samples have.
OrderOf(f) ==
  CASE f = "S24_3LE" /\ f # bitformat -> "little"
    [] f = "S24_3BE" /\ f # bitformat -> "big"
    [] OTHER -> driver

\* What an attempt leaves behind, whether it succeeds or not.
Leaves(f) == bits' = BitsOf(f) /\ bitformat' = f /\ driver' = OrderOf(f)
-----------------------------------------------------------------------------
(* alsa_test_open, for the next device. *)

\* The device is there no more to be tried; the last one ends the open.
NextDevice ==
  /\ todo' = Tail(todo) /\ pc' = IF Len(todo) = 1 THEN "refused" ELSE "trying"
  /\ UNCHANGED <<channels, dev, id, prebits, client, hardware, handles, padoutw, padbuffer, sampleWidth>>

\* snd_pcm_open fails, or the hardware supports no format that will do, or it
\* has none at all; the handle is closed.
TryFails(supported) ==
  /\ pc = "trying" /\ Agreed(bitformat, supported) = "none"
  /\ NextDevice /\ UNCHANGED <<bits, bitformat, driver>>

\* A format is agreed on, and then the channels, the rate, the buffer or the
\* software parameters fail; the handle is closed.
TryFailsLater(supported) ==
  /\ pc = "trying" /\ Agreed(bitformat, supported) # "none"
  /\ NextDevice /\ Leaves(Agreed(bitformat, supported))

\* "format->bits=prebits", but only without the unpacked 24-bit format.
FinalBits(b, f) == IF f # "S24" /\ prebits # b THEN prebits ELSE b

\* padoutw, for a padbuffer.
Padding(b, f) ==
  IF f = "S24" THEN 32 ELSE IF prebits # b THEN (b + 7) \div 8 ELSE 0

\* The device is set up; set is what the hardware takes when the format could
\* not be set.  The calloc of padbuffer may fail, which nobody checks.
TrySucceeds(supported, set) ==
  LET f == Agreed(bitformat, supported)
  IN /\ pc = "trying" /\ f # "none" /\ set \in supported
     /\ f \in supported => set = f
     /\ pc' = "open" /\ handles' = handles + 1 /\ hardware' = set
     /\ bitformat' = f /\ driver' = OrderOf(f)
     /\ bits' = FinalBits(BitsOf(f), f) /\ padoutw' = Padding(BitsOf(f), f)
     /\ padbuffer' \in IF padoutw' # 0 THEN BOOLEAN ELSE {FALSE}
     /\ sampleWidth' = bits' \div 8
     /\ UNCHANGED <<channels, dev, id, prebits, client, todo>>

\* What ao_plugin_close and ao_plugin_device_clear release; the core calls them
\* whether the device was opened or not.
CloseHandle ==
  /\ pc \in {"open", "refused"} /\ pc' = "closed"
  /\ handles' = IF pc = "open" THEN handles - 1 ELSE handles
  /\ UNCHANGED <<channels, dev, id, prebits, bits, bitformat, client, driver, todo,
                 hardware, padoutw, padbuffer, sampleWidth>>
-----------------------------------------------------------------------------
OpenNext ==
  \/ SetDev \/ \E card \in -1 .. 0 : SetId(card)
  \/ \E b \in Bits, n \in Channels, order \in Clients : BeginOpen(b, n, order)
  \/ \E b \in Bits : BadBits(b)
  \/ \E supported \in SUBSET Available :
       \/ TryFails(supported) \/ TryFailsLater(supported)
       \/ \E set \in supported : TrySucceeds(supported, set)
-----------------------------------------------------------------------------
(* What should hold.  The cases in which the code does not keep it are named   *)
(* in the hypotheses; without them the properties fail (README, section 6).   *)

Orders == {"little", "big", "unset"}

Packed == {"S24_3LE", "S24_3BE"}

OpenTypeOK ==
  /\ pc \in {"initialised", "trying", "open", "refused", "closed"} /\ channels \in Channels \cup {0}
  /\ prebits \in Bits \cup {0} /\ bits \in {0, 8, 16, 24, 32}
  /\ bitformat \in Formats \cup {"none"} /\ hardware \in Formats \cup {"none"}
  /\ client \in Orders /\ driver \in Orders /\ handles \in {0, 1}
  /\ padoutw \in Nat /\ padbuffer \in BOOLEAN /\ sampleWidth \in 0 .. 4
  /\ dev \in {"none", "named"} /\ id \in -1 .. 0
  /\ pc = "trying" <=> todo # <<>> /\ hardware = "none"

\* Bytes of a sample on its way to the hardware.
PhysicalWidth(f) ==
  CASE f = "U8" -> 1 [] f = "S16" -> 2 [] f \in Packed -> 3 [] OTHER -> 4

\* The hardware is set to the format the driver believes, and the samples are
\* read from the application's buffer at its width (sample_size, "the sample
\* size in bytes") and given to the hardware, padded or not, at the width it
\* takes.
WidthsAlwaysFit ==
  pc = "open" =>
    /\ hardware = bitformat /\ sampleWidth * 8 = prebits
    /\ PhysicalWidth(hardware) = IF padbuffer THEN padoutw ELSE sampleWidth

\* So it is after any attempts on any hardware, whatever they have changed,
\* unless the format agreed on is the unpacked 24-bit one, or a packed one that
\* is not set or not of the width asked for, or there is no memory to pad in.
WidthsFit ==
  /\ bitformat # "S24"
  /\ bitformat \in Packed => hardware = bitformat /\ prebits = 24
  /\ padoutw # 0 => padbuffer
  => WidthsAlwaysFit

\* driver_byte_format is the order the hardware wants (doc/plugin-overview.html).
ByteOrderAlwaysFits ==
  pc = "open" /\ prebits > 8 =>
    driver = CASE hardware = "S24_3LE" -> "little"
               [] hardware = "S24_3BE" -> "big" [] OTHER -> Host

\* So it is for samples of either order on hardware that takes a packed format,
\* whichever attempt has chosen it, and on any other hardware for samples in
\* the order of the machine.
ByteOrderFits ==
  /\ bitformat \in Packed => hardware = bitformat
  /\ hardware \notin Packed => client = Host
  => ByteOrderAlwaysFits
=============================================================================
