----------------------------- MODULE ChannelMap -----------------------------
(***************************************************************************)
(* The channel matrices of src/src/audio_out.c as pure operators.  A       *)
(* matrix string such as "L,R,LFE" is the sequence of its tokens; leading  *)
(* and trailing blanks of a token are gone, and the empty string is the    *)
(* one empty token the C loops see.  Locations and channels are numbered   *)
(* from 0 as in the code, so token i of a matrix is m[i + 1].              *)
(***************************************************************************)
EXTENDS Positions

CONSTANTS
  Mnemonics,   \* the channel names libao knows, those its code uses among them
  WordBits     \* width of the unsigned int that holds a channel mask

ASSUME ChannelMapAssumption ==
  /\ {"X", "M", "L", "R", "C", "LFE", "BL", "BR"} \subseteq Mnemonics
  /\ WordBits \in Nat \ {0}

NoMatrix == <<>>    \* a NULL matrix; every real one has a token

\* The first position of a name in a matrix, counted from 0, or -1.
FirstAt(name, m) ==
  LET at == {i \in 0 .. Len(m) - 1 : m[i + 1] = name}
  IN IF at = {} THEN -1 ELSE CHOOSE i \in at : \A j \in at : i <= j

\* Seeded fault: the last token is never looked at.
FaultFirstAt(name, m) ==
  LET at == {i \in 0 .. Len(m) - 2 : m[i + 1] = name}
  IN IF at = {} THEN -1 ELSE CHOOSE i \in at : \A j \in at : i <= j

\* _sanitize_matrix: the first maxchannels tokens, all of them known names,
\* or NULL.
Sanitize(maxchannels, tokens) ==
  LET kept == SubSeq(tokens, 1, IF maxchannels < Len(tokens) THEN maxchannels
                                ELSE Len(tokens))
  IN IF \A i \in DOMAIN kept : kept[i] \in Mnemonics THEN kept ELSE NoMatrix

\* Seeded fault: channels are counted from 1.
FaultFindChannel(name, m) ==
  IF name = "X" \/ FirstAt(name, m) = -1 THEN -1 ELSE FirstAt(name, m) + 1

\* _find_channel: which input channel carries this name.  X maps to nothing,
\* not even to X.
FindChannel(name, m) == IF name = "X" THEN -1 ELSE FirstAt(name, m)

\* Where premap, the output matrix, puts a channel name.
Location(name, premap) == IF name = "X" THEN -1 ELSE FirstAt(name, premap)

\* The bit of the mask a location sets: 1 << m in an unsigned int.  A shift by
\* the width or more is undefined; the usual outcome is that it wraps.
Bit(location) == location % WordBits

Mapped(m, premap) == {i \in 0 .. Len(m) - 1 : Location(m[i + 1], premap) >= 0}

\* _matrix_to_channelmask: the mask as the set of its bits, and input_map, the
\* location of every input channel.
ChannelMask(m, premap) ==
  {Bit(Location(m[i + 1], premap)) : i \in Mapped(m, premap)}

InputMap(channels, m, premap) ==
  [i \in 0 .. channels - 1 |->
    IF i < Len(m) THEN Location(m[i + 1], premap) ELSE -1]

\* _channelmask_bits and _channelmask_maxbit.
Bits(mask) == Cardinality(mask)
MaxBit(mask) ==
  IF mask = {} THEN -1 ELSE CHOOSE b \in mask : \A c \in mask : c <= b

\* _channelmask_to_matrix: the names of the locations in the mask, in the
\* order of premap.
MaskToMatrix(mask, premap) ==
  Kept(premap, {l \in 1 .. Len(premap) : Bit(l - 1) \in mask})

\* _matrix_intersect: the tokens of m that premap has, in the order of m.
Intersect(m, premap) ==
  Kept(m, {i \in 1 .. Len(m) : Location(m[i], premap) >= 0})

\* How _open_device reconciles the input matrix with the output matrix: the
\* channel count, mask and matrix of the stream sent to the driver.  out = 0
\* stands for AO_EBADFORMAT.
Reconciled(order, m, premap) ==
  LET mask == ChannelMask(m, premap)
  IN CASE order = "FIXED" ->
            [out |-> MaxBit(mask) + 1, mask |-> mask, inter |-> premap]
       [] order = "COLLAPSIBLE" ->
            [out |-> Bits(mask), mask |-> mask, inter |-> MaskToMatrix(mask, premap)]
       [] order = "PERMUTABLE" ->
            [out |-> Bits(mask), mask |-> mask, inter |-> Intersect(m, premap)]

\* inter_permute: the input channel that feeds each channel of the stream, or
\* -1 for silence.  A single input channel called M feeds every channel.
InterPermute(out, inter, channels, m) ==
  [c \in 0 .. out - 1 |->
    IF c >= Len(inter) THEN -1
    ELSE LET found == FindChannel(inter[c + 1], m)
         IN IF found = -1 /\ channels = 1 THEN FindChannel("M", m) ELSE found]

IsIdentity(permute) == \A c \in DOMAIN permute : permute[c] = c
=============================================================================
