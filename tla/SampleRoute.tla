---------------------------- MODULE SampleRoute -----------------------------
(***************************************************************************)
(* What libao does to the samples: _open_device works out the stream sent  *)
(* to the driver (channel count, channel order, byte order) and ao_play    *)
(* converts every buffer to it.  One device; the configuration is chosen   *)
(* at the start, and the stages of _open_device that decide the route run  *)
(* in their order.  Bytes are followed one by one through the swap buffer. *)
(***************************************************************************)
EXTENDS ChannelMap

CONSTANTS
  Premaps,       \* output matrices a driver or a "matrix" option sets
  Inputs,        \* format matrices the application gives (as tokens)
  ChannelCounts, \* format->channels
  Widths,        \* bytes per sample, 1..4
  ByteOrders,    \* pairs <<client_byte_format, driver_byte_format>>
  DriverKinds,   \* which drivers: see OrdersOf and DriverOpen
  PulseMatrix,   \* pulse's output_matrix, in the order of PulseAudio's positions
  Buffers,       \* buffer lengths the application plays, in frames
  DefSize,       \* DEF_SWAP_BUF_SIZE
  Wrap           \* what the product num_bytes*output_channels wraps at: 2^32

ASSUME RouteAssumption ==
  /\ Premaps \subseteq Seq(Mnemonics) /\ Inputs \subseteq Seq(STRING)
  /\ ChannelCounts \subseteq Nat \ {0} /\ Widths \subseteq 1..4
  /\ Buffers \subseteq Nat \ {0} /\ DefSize \in Nat \ {0} /\ Wrap \in Nat \ {0}
  /\ DriverKinds \subseteq {"asis", "copy", "stereo", "roar", "alsa_hw", "pulse"}

VARIABLES
  stage,   \* "reconcile", "open", "permute", "swap", "ready", "refused", "nomem"
  setup,   \* the configuration
  smatrix, \* sformat.matrix
  route,   \* output_channels, input_map, inter_matrix, inter_permute
  swap,    \* swap_buffer as its bytes, <<>> when it is NULL
  handed,  \* the bytes of the last call of the driver's play
  played   \* which call of ao_play that was, and how many frames it had

routeVars == <<stage, setup, smatrix, route, swap, handed, played>>

NoPermute == <<>>    \* inter_permute is NULL
NoMap == <<>>        \* input_map is NULL

\* A byte of the application's samples: which ao_play call, frame, channel and
\* significance it has.  Silence and what realloc leaves behind are told apart
\* from those by their call number.
Byte(n, f, c, sig) == <<n, f, c, sig>>
Garbage == Byte(-1, 0, 0, 0)
Silence(width) == Byte(0, 0, 0, IF width = 1 THEN 128 ELSE 0)

Swapped == setup.width > 1 /\ setup.client # setup.driver
-----------------------------------------------------------------------------
\* The output_matrix_order a driver's device_init sets.  The kinds of drivers:
\* "copy" is null; "stereo" are au, aixs, sndio, oss, sun, nas and irix;
\* "alsa_hw" is alsa on a device that is neither "default" nor "surround...",
\* unless it was told to be quiet; "asis" are raw, esd, arts and alsa otherwise,
\* all FIXED, and wav, wmm and macosx, which are COLLAPSIBLE.
OrdersOf(kind) ==
  CASE kind = "asis"  -> {"FIXED", "COLLAPSIBLE"}
    [] kind = "pulse" -> {"PERMUTABLE"}
    [] OTHER          -> {"FIXED"}

\* alsa, pulse and the collapsible drivers always have an output_matrix; the
\* others may, and any may have its own replaced by a "matrix" option.
Setups ==
  {s \in [order : {"FIXED", "COLLAPSIBLE", "PERMUTABLE"}, premap : Premaps,
          tokens : Inputs, channels : ChannelCounts, width : Widths,
          client : {"little", "big"}, driver : {"little", "big"},
          kind : DriverKinds] :
    /\ s.order \in OrdersOf(s.kind)
    /\ s.premap = NoMatrix => s.order = "FIXED" /\ s.kind # "alsa_hw"}

\* sformat.matrix: sanitized, and dropped for a single channel called "M".
FormatMatrix(channels, tokens) ==
  LET m == Sanitize(channels, tokens)
  IN IF channels = 1 /\ m = <<"M">> THEN NoMatrix ELSE m

RouteInit ==
  /\ setup \in Setups /\ <<setup.client, setup.driver>> \in ByteOrders
  /\ stage = "reconcile"
  /\ smatrix = FormatMatrix(setup.channels, setup.tokens)
  /\ route = [out |-> setup.channels, map |-> NoMap, inter |-> NoMatrix,
              permute |-> NoPermute]
  /\ swap = <<>> /\ handed = <<>> /\ played = [call |-> 0, frames |-> 0]

\* Both matrices known: route by name, or fail with AO_EBADFORMAT.
Reconcile ==
  /\ stage = "reconcile" /\ smatrix # NoMatrix /\ setup.premap # NoMatrix
  /\ LET r == Reconciled(setup.order, smatrix, setup.premap)
     IN IF r.mask = {}
        THEN stage' = "refused" /\ UNCHANGED route
        ELSE /\ stage' = "open"
             /\ route' = [route EXCEPT
                  !.out = r.out, !.inter = r.inter,
                  !.map = InputMap(setup.channels, smatrix, setup.premap)]
  /\ UNCHANGED <<setup, smatrix, swap, handed, played>>

NoReconcile ==
  /\ stage = "reconcile" /\ (smatrix = NoMatrix \/ setup.premap = NoMatrix)
  /\ stage' = "open"
  /\ UNCHANGED <<setup, smatrix, route, swap, handed, played>>

(* What the driver's open makes of inter_matrix.  It is NULL unless the core *)
(* has reconciled two matrices.                                             *)

\* null takes the input matrix for its own.
NullInter(inter) == IF inter = NoMatrix THEN smatrix ELSE inter

\* au, oss and the like say "L,R" for up to two channels.
StereoInter(inter) == IF inter = NoMatrix /\ route.out <= 2 THEN <<"L", "R">> ELSE inter

\* roar has a matrix for each count of the caller's channels up to six.
RoarMatrices ==
  << <<"M">>, <<"L", "R">>, <<"L", "R", "C">>, <<"L", "R", "BL", "BR">>,
     <<"L", "R", "C", "BL", "BR">>, <<"L", "R", "C", "LFE", "BL", "BR">> >>

\* Seeded fault: roar overwrites the matrix the core has reconciled.
FaultRoarInter(inter) ==
  IF setup.channels \in DOMAIN RoarMatrices THEN RoarMatrices[setup.channels] ELSE inter

RoarInter(inter) ==
  IF inter = NoMatrix /\ setup.channels \in DOMAIN RoarMatrices
  THEN RoarMatrices[setup.channels] ELSE inter

\* alsa does not know the order of such a device's channels beyond the second,
\* and drops what the core has reconciled.
AlsaInter(inter) == IF route.out > 2 THEN NoMatrix ELSE inter

DriverOpen ==
  /\ stage = "open" /\ stage' = "permute"
  /\ route' = [route EXCEPT !.inter =
       CASE setup.kind = "copy"    -> NullInter(@)
         [] setup.kind = "stereo"  -> StereoInter(@)
         [] setup.kind = "roar"    -> RoarInter(@)
         [] setup.kind = "alsa_hw" -> AlsaInter(@)
         [] OTHER                  -> @]
  /\ UNCHANGED <<setup, smatrix, swap, handed, played>>

\* pulse hands input_map[c] to its server as the position of channel c.  The name
\* the server plays the channel under, "X" if it is told of none.
ServerName(c) ==
  IF route.map[c] + 1 \in DOMAIN PulseMatrix THEN PulseMatrix[route.map[c] + 1] ELSE "X"

\* A permutation that changes nothing is released again.
Releasable(permute, in, out) == in = out /\ IsIdentity(permute)

Permute ==
  /\ stage = "permute" /\ stage' = "swap"
  /\ IF smatrix = NoMatrix THEN UNCHANGED route
     ELSE LET inter == IF route.inter = NoMatrix THEN <<"L", "R">> ELSE route.inter
              permute == InterPermute(route.out, inter, setup.channels, smatrix)
          IN route' = [route EXCEPT !.inter = inter,
               !.permute = IF Releasable(permute, setup.channels, route.out)
                           THEN NoPermute ELSE permute]
  /\ UNCHANGED <<setup, smatrix, swap, handed, played>>

NeedsSwap == Swapped \/ setup.channels # route.out \/ route.permute # NoPermute

\* realloc keeps the bytes there are; the new ones hold anything.
Grown(buffer, size) ==
  [p \in 1 .. size |-> IF p <= Len(buffer) THEN buffer[p] ELSE Garbage]

CreateSwap ==
  /\ stage = "swap"
  /\ IF ~NeedsSwap THEN stage' = "ready" /\ UNCHANGED swap
     ELSE \/ stage' = "ready" /\ swap' = Grown(swap, DefSize)
          \/ stage' = "nomem" /\ UNCHANGED swap
  /\ UNCHANGED <<setup, smatrix, route, handed, played>>
-----------------------------------------------------------------------------
(* ao_play. *)

\* Byte p, counted from 0, of the buffer the application passes in call n.
SourceByte(n, p) ==
  LET frame == setup.channels * setup.width
      b     == p % setup.width
  IN Byte(n, p \div frame, (p % frame) \div setup.width,
          IF setup.client = "little" THEN b ELSE setup.width - 1 - b)

Feeding(c) == IF route.permute = NoPermute THEN c ELSE route.permute[c]

InputStride == setup.width * setup.channels

\* Seeded fault: a channel without an input keeps what the buffer held.
FaultSilent(buffer, p) == buffer[p + 1]

\* _buffer_zero
Silent(buffer, p) == Silence(setup.width)

\* _buffer_zero, _buffer_permute and _buffer_permute_swap over all output
\* channels: each writes the samples that begin below outBytes.
Converted(buffer, n, outBytes) ==
  LET width == setup.width
      ostride == width * route.out
  IN [q \in 1 .. Len(buffer) |->
       LET p == q - 1
           b == p % width
           c == (p % ostride) \div width
           k == p \div ostride
           from == Feeding(c) * width + k * InputStride
       IN IF p - b >= outBytes THEN buffer[q]
          ELSE IF Feeding(c) = -1 THEN Silent(buffer, p)
          ELSE SourceByte(n, from + (IF Swapped THEN width - 1 - b ELSE b))]

\* out_bytes: an unsigned product, divided and kept in an int.
OutBytes(numBytes) == ((numBytes * route.out) % Wrap) \div setup.channels

\* Without a swap buffer the driver gets the caller's buffer.
PlayDirect(frames) ==
  /\ stage = "ready" /\ swap = <<>>
  /\ handed' = [q \in 1 .. frames * setup.channels * setup.width |->
                 SourceByte(played.call + 1, q - 1)]
  /\ played' = [call |-> played.call + 1, frames |-> frames]
  /\ UNCHANGED <<stage, setup, smatrix, route, swap>>

\* With one, it is grown first if it is too small.
PlayConverted(frames) ==
  /\ stage = "ready" /\ swap # <<>>
  /\ LET outBytes == OutBytes(frames * setup.channels * setup.width)
         buffer == Grown(swap, IF outBytes > Len(swap) THEN outBytes ELSE Len(swap))
     IN /\ swap' = Converted(buffer, played.call + 1, outBytes)
        /\ handed' = SubSeq(swap', 1, outBytes)
  /\ played' = [call |-> played.call + 1, frames |-> frames]
  /\ UNCHANGED <<stage, setup, smatrix, route>>

\* The swap buffer cannot be grown: ao_play returns 0 and the driver gets
\* nothing of this call.
PlayRefused(frames) ==
  /\ stage = "ready" /\ swap # <<>>
  /\ OutBytes(frames * setup.channels * setup.width) > Len(swap)
  /\ handed' = <<>>
  /\ played' = [call |-> played.call + 1, frames |-> 0]
  /\ UNCHANGED <<stage, setup, smatrix, route, swap>>

\* MaxCalls bounds the calls of ao_play.
CONSTANT MaxCalls

Play == /\ played.call < MaxCalls
        /\ \E frames \in Buffers : \/ PlayDirect(frames) \/ PlayConverted(frames)
                                   \/ PlayRefused(frames)

RouteNext == Reconcile \/ NoReconcile \/ DriverOpen \/ Permute \/ CreateSwap \/ Play

RouteSpec == RouteInit /\ [][RouteNext]_routeVars
-----------------------------------------------------------------------------
(* What the route is for. *)

\* alsa has dropped the matrix.
Dropped == setup.kind = "alsa_hw" /\ route.out > 2

\* The names of the channels of the stream as the driver documentation gives
\* them, not as the code computes them: all of a fixed order, the used ones in
\* the driver's order, or the used ones in the input's order; without a matrix,
\* what the driver says in open.  A driver that says nothing, or takes it back,
\* plays left and right, as the core then warns.
StreamNames ==
  LET in == {smatrix[i] : i \in DOMAIN smatrix} \ {"X"}
      of == {setup.premap[i] : i \in DOMAIN setup.premap}
  IN IF Dropped THEN <<"L", "R">>
     ELSE CASE setup.premap # NoMatrix /\ setup.order = "FIXED" -> setup.premap
            [] setup.premap # NoMatrix /\ setup.order = "COLLAPSIBLE" ->
                 Kept(setup.premap, {i \in DOMAIN setup.premap : setup.premap[i] \in in})
            [] setup.premap # NoMatrix /\ setup.order = "PERMUTABLE" ->
                 Kept(smatrix, {i \in DOMAIN smatrix : smatrix[i] \in in \cap of})
            [] setup.premap = NoMatrix /\ setup.kind = "copy" -> smatrix
            [] setup.premap = NoMatrix /\ setup.kind = "roar"
                 /\ setup.channels \in DOMAIN RoarMatrices -> RoarMatrices[setup.channels]
            [] OTHER -> <<"L", "R">>

\* The input channel whose samples belong in channel c of the stream, or -1.
Wanted(c) ==
  IF smatrix = NoMatrix THEN c
  ELSE IF c < Len(StreamNames)
  THEN LET carrying == {i \in 0 .. Len(smatrix) - 1 :
                          smatrix[i + 1] = StreamNames[c + 1] /\ smatrix[i + 1] # "X"}
       IN IF carrying = {} THEN -1
          ELSE CHOOSE i \in carrying : \A j \in carrying : i <= j
  ELSE -1

\* No location is named twice, in the input or in the output.
NamesOnce(m) == \A i, j \in DOMAIN m : m[i] = m[j] /\ m[i] # "X" => i = j

RouteTypeOK ==
  /\ stage \in {"reconcile", "open", "permute", "swap", "ready", "refused", "nomem"}
  /\ setup \in Setups
  /\ smatrix \in Seq(Mnemonics)
  /\ route.out \in Nat /\ route.inter \in Seq(Mnemonics)
  /\ DOMAIN route.map \in {{}, 0 .. setup.channels - 1}
  /\ route.permute = NoPermute
       \/ route.permute \in [0 .. route.out - 1 -> -1 .. setup.channels - 1]
  /\ \A c \in DOMAIN route.map : route.map[c] \in -1 .. Len(setup.premap) - 1
  /\ Len(handed) <= (IF swap = <<>> THEN Len(handed) ELSE Len(swap))

\* pulse's server plays every channel of the stream where its name says.
\* input_map is a "mapping from each input channel to a location" (the comment
\* in ao_private.h) of the output matrix; the plugin reads it by output channel,
\* and takes the locations for PulseAudio's positions, so that the code keeps
\* this only where every input channel has a place and the matrix is pulse's own.
PulseNamesEverySlot ==
  stage = "ready" /\ setup.kind = "pulse" /\ route.map # NoMap =>
    \A c \in 0 .. route.out - 1 : ServerName(c) = StreamNames[c + 1]

\* The input channels that have a place in a matrix are heard.
AllHeard(placed) ==
  placed # NoMatrix /\ NamesOnce(smatrix) /\ NamesOnce(placed) =>
    \A i \in Mapped(smatrix, placed) : \E c \in 0 .. route.out - 1 : Feeding(c) = i

\* "devices must not override" the matrix of an option, says _open_device
\* (audio_out.c:932), nor is there a reason to leave out what has a place in the
\* driver's own.  alsa's open keeps neither on a device that is not "default" or
\* "surround...", with more than two channels: the rest falls silent.
PlacedChannelsAreHeard == stage = "ready" => AllHeard(setup.premap)

\* Every channel of the stream is fed by the input channel of the same name,
\* whether inter_permute is kept or released, and an X input feeds none.  No
\* input channel that the output matrix can place is left out, or, after alsa has
\* dropped the matrix, not the left and the right.  Where pulse has its own
\* matrix and a place for each input, its server has the names right.
SlotsCarryTheirSpeaker ==
  stage = "ready" =>
    /\ \A c \in 0 .. route.out - 1 : Feeding(c) = Wanted(c)
    /\ AllHeard(IF Dropped THEN <<"L", "R">> ELSE setup.premap)
    /\ setup.premap = PulseMatrix /\ (\A i \in DOMAIN route.map : route.map[i] # -1) =>
         PulseNamesEverySlot

\* What the driver is handed is, frame by frame, the samples of this call in
\* the driver's channel and byte order, silence where there is no input:
\* nothing of an earlier call and nothing uninitialised.
DriverGetsTheSamples ==
  LET frame == route.out * setup.width
  IN stage = "ready" /\ played.frames > 0 =>
      /\ Len(handed) = played.frames * frame
      /\ \A p \in 0 .. Len(handed) - 1 :
           LET c == (p % frame) \div setup.width
               b == p % setup.width
           IN handed[p + 1] =
                IF Wanted(c) = -1 THEN Silence(setup.width)
                ELSE Byte(played.call, p \div frame, Wanted(c),
                          IF setup.driver = "little" THEN b ELSE setup.width - 1 - b)
=============================================================================
