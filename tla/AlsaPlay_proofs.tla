--------------------------- MODULE AlsaPlay_proofs ---------------------------
(***************************************************************************)
(* Proofs about AlsaPlay and the AlsaOpen it extends, for any hardware,    *)
(* buffer and page: type correctness, that play implements SampleFifo, and *)
(* that the widths and the byte order that open leaves after any attempts  *)
(* are those the hardware takes, in the cases the properties name.         *)
(***************************************************************************)
EXTENDS AlsaPlay, SequenceTheorems, TLAPS

Widths == {8, 16, 24, 32}
DeviceNames == {"named", "hw", "surround40", "surround51", "surround71", "front", "default"}

\* What ao_plugin_open relies on from one attempt to the next.
OpenInv ==
  /\ OpenTypeOK /\ todo \in Seq(DeviceNames)
  /\ pc \in {"trying", "open"} =>
       /\ channels \in Channels /\ prebits \in Widths /\ bits \in Widths
       /\ bitformat \in Formats
  /\ pc \in {"initialised", "trying"} => handles = 0 /\ hardware = "none"
  /\ pc = "open" => handles = 1 /\ sampleWidth \in 1 .. 4 /\ hardware # "none"
  /\ padbuffer => padoutw > 0

Busy == {"page", "write", "recover", "resume", "restart"}

\* Bytes of the frames that may still be taken, and of one more.
Room == (MaxFrames - taken + 1) * FrameBytes

\* Where the frames are: given to ALSA, still to be written by ao_plugin_playi,
\* or not yet taken from the caller's buffer, where they are fewer than what the
\* bound on frames leaves.
PlayInv ==
  /\ stage \in Busy \cup {"idle", "failed"} /\ pcm \in {"running", "underrun", "suspended", "dead"}
  /\ numBytes \in Nat /\ len \in 0 .. MaxFrames /\ queued \in 0 .. Buffer
  /\ taken \in 0 .. MaxFrames /\ out \in Seq(1 .. MaxFrames)
  /\ Len(out) <= taken /\ len <= taken
  /\ stage # "failed" => Len(out) = taken - len
  /\ stage \in {"idle", "page"} => len = 0
  /\ stage \in Busy => pc = "open"
  /\ stage = "page" => padbuffer
  /\ stage \in Busy /\ padbuffer => numBytes < Room

IInv == OpenInv /\ PlayInv
-----------------------------------------------------------------------------
(* Arithmetic and the operators of the model. *)

\* Multiplication is monotonic.
LEMMA TimesMonotonic == \A a, b, c \in Nat : a <= b => a * c <= b * c
<1> SUFFICES ASSUME NEW a \in Nat, NEW b \in Nat, NEW c \in Nat, a <= b PROVE a * c <= b * c
  OBVIOUS
<1>1. PICK e \in Nat : b = a + e
  BY b - a \in Nat, b = a + (b - a)
<1>2. b * c = a * c + e * c
  BY <1>1
<1>3. e * c \in Nat /\ a * c \in Nat
  OBVIOUS
<1>4. QED
  BY <1>2, <1>3

\* Whole frames in a number of bytes are no more bytes than that.
LEMMA WholeFrames == \A n \in Nat, b \in Nat \ {0} : n \div b \in Nat /\ (n \div b) * b <= n
OBVIOUS

\* A set of positions among the first five has a least element, which CHOOSE finds.
LEMMA LeastOfFive ==
  ASSUME NEW S \in SUBSET (1 .. 5), S # {}
  PROVE  (CHOOSE i \in S : \A j \in S : i <= j) \in S
<1>1. \E i \in S : \A j \in S : i <= j
  <2>1. CASE 1 \in S
    BY <2>1
  <2>2. CASE 1 \notin S /\ 2 \in S
    BY <2>2
  <2>3. CASE 1 \notin S /\ 2 \notin S /\ 3 \in S
    BY <2>3
  <2>4. CASE 1 \notin S /\ 2 \notin S /\ 3 \notin S /\ 4 \in S
    BY <2>4
  <2>5. CASE 1 \notin S /\ 2 \notin S /\ 3 \notin S /\ 4 \notin S
    <3>1. PICK i \in S : TRUE
      OBVIOUS
    <3>2. \A j \in S : j = 5
      BY <2>5
    <3>3. QED
      BY <3>1, <3>2
  <2>6. QED
    BY <2>1, <2>2, <2>3, <2>4, <2>5
<1>2. QED
  BY <1>1

\* alsa_set_hwparams ends with a format the hardware has, with a packed format
\* that it was left with, or with none, and never goes back to a narrower one.
LEMMA AgreedFormat ==
  ASSUME NEW f \in Formats, NEW supported \in SUBSET Formats
  PROVE  /\ Agreed(f, supported) \in Formats \cup {"none"}
         /\ f \notin Packed => Agreed(f, supported) \in supported \cup {"none"}
         /\ Agreed(f, supported) \in
              {f, "none"} \cup {Wider(f)[i] : i \in 1 .. Len(Wider(f))}
<1> DEFINE fits == {i \in 1 .. Len(Wider(f)) : Wider(f)[i] \in supported}
           first == CHOOSE i \in fits : \A j \in fits : i <= j
<1>1. CASE f \in supported
  BY <1>1 DEF Agreed
<1>2. CASE f \notin supported /\ fits # {}
  <2>1. Len(Wider(f)) \in 0 .. 5
    BY DEF Wider, Formats
  <2>2. fits \in SUBSET (1 .. 5)
    BY <2>1
  <2>3. first \in fits
    BY <1>2, <2>2, LeastOfFive
  <2>4. Agreed(f, supported) = Wider(f)[first]
    BY <1>2 DEF Agreed
  <2>5. Agreed(f, supported) \in supported
    BY <2>3, <2>4
  <2>6. Agreed(f, supported) \in {Wider(f)[i] : i \in 1 .. Len(Wider(f))}
    BY <2>3, <2>4
  <2>7. QED
    BY <2>5, <2>6
<1>3. CASE f \notin supported /\ fits = {}
  <2>1. Agreed(f, supported) = IF f \in Packed THEN f ELSE "none"
    BY <1>3 DEF Agreed, Packed
  <2>2. QED
    BY <2>1
<1>4. QED
  BY <1>1, <1>2, <1>3
-----------------------------------------------------------------------------
(* ao_plugin_open. *)

\* The structure before any option.
LEMMA OpenStarts == OpenInit => OpenInv
<1> SUFFICES ASSUME OpenInit PROVE OpenInv
  OBVIOUS
<1>1. Host \in Orders
  BY AlsaAssumption DEF Orders
<1>2. padbuffer \in BOOLEAN /\ ~padbuffer
  BY Zenon DEF OpenInit
<1>3. OpenTypeOK
  <2>1. padoutw \in Nat /\ sampleWidth \in 0 .. 4 /\ handles \in {0, 1} /\ id \in -1 .. 0
    BY DEF OpenInit
  <2>2. QED
    BY <1>1, <1>2, <2>1 DEF OpenInit, OpenTypeOK, Orders
<1>4. QED
  BY <1>2, <1>3 DEF OpenInit, OpenInv

\* An attempt that failed leaves the invariant to the next.
LEMMA NextDeviceKeeps ==
  ASSUME OpenInv, pc = "trying", NextDevice, bits' \in Widths, bitformat' \in Formats,
         driver' \in Orders
  PROVE  OpenInv'
<1>1. todo # <<>> /\ hardware = "none"
  BY DEF OpenInv, OpenTypeOK
<1>2. todo' \in Seq(DeviceNames) /\ Len(todo') = Len(todo) - 1 /\ Len(todo) \in Nat
  BY <1>1, HeadTailProperties, LenProperties DEF OpenInv, NextDevice
<1>3. pc' = "trying" <=> todo' # <<>>
  <2>1. Len(todo') = 0 <=> todo' = <<>>
    BY <1>2, EmptySeq
  <2>2. QED
    BY <1>2, <2>1 DEF NextDevice
<1>4. pc' \in {"trying", "refused"}
  BY DEF NextDevice
<1>5. OpenTypeOK'
  BY <1>1, <1>3, <1>4 DEF OpenInv, OpenTypeOK, NextDevice, Widths
<1>6. QED
  BY <1>2, <1>4, <1>5 DEF OpenInv, NextDevice

\* The widths and orders an agreed format is noted with.
LEMMA NotedTypes ==
  ASSUME OpenInv, pc = "trying", NEW f \in Formats
  PROVE  BitsOf(f) \in Widths /\ OrderOf(f) \in Orders
BY DEF OpenInv, OpenTypeOK, BitsOf, OrderOf, Widths, Orders

\* Every step of the options and of ao_plugin_open keeps the invariant.
LEMMA OpenKept == ASSUME OpenInv, OpenNext PROVE OpenInv'
<1>1. CASE SetDev
  BY <1>1 DEF SetDev, OpenInv, OpenTypeOK
<1>2. ASSUME NEW card \in -1 .. 0, SetId(card) PROVE OpenInv'
  BY <1>2 DEF SetId, OpenInv, OpenTypeOK
<1>3. ASSUME NEW b \in Bits, NEW n \in Channels, NEW order \in Clients, BeginOpen(b, n, order)
      PROVE  OpenInv'
  <2>1. b \in Widths /\ Wanted(b) \in Formats
    BY <1>3 DEF BeginOpen, Wanted, Widths, Formats
  <2>2. todo' \in Seq(DeviceNames) /\ todo' # <<>>
    <3>1. Surround(n) \in Seq(DeviceNames) /\ Len(Surround(n)) # 0
      <4>1. \/ Surround(n) = <<"surround40", "surround51", "default">>
            \/ Surround(n) = <<"surround51", "default">>
            \/ Surround(n) = <<"front", "default">>
            \/ Surround(n) = <<"default">>
            \/ Surround(n) = <<"surround71", "default">>
        BY DEF Surround
      <4>2. ASSUME NEW a \in DeviceNames, NEW d \in DeviceNames, NEW c \in DeviceNames
            PROVE  /\ <<a, d, c>> \in Seq(DeviceNames) /\ Len(<<a, d, c>>) # 0
                   /\ <<a, d>> \in Seq(DeviceNames) /\ Len(<<a, d>>) # 0
                   /\ <<a>> \in Seq(DeviceNames) /\ Len(<<a>>) # 0
        OBVIOUS
      <4>3. {"surround40", "surround51", "surround71", "front", "default"} \subseteq DeviceNames
        BY DEF DeviceNames
      <4>4. QED
        BY <4>1, <4>2, <4>3
    <3>2. /\ <<"hw">> \in Seq(DeviceNames) /\ <<"named">> \in Seq(DeviceNames)
          /\ Len(<<"hw">>) # 0 /\ Len(<<"named">>) # 0
      BY DEF DeviceNames
    <3>3. dev \in {"none", "named"}
      BY DEF OpenInv, OpenTypeOK
    <3>4. todo' = <<"hw">> \/ todo' = <<"named">> \/ todo' = Surround(n)
      BY <1>3, <3>3 DEF BeginOpen
    <3>5. todo' \in Seq(DeviceNames) /\ Len(todo') # 0
      BY <3>1, <3>2, <3>4
    <3>6. QED
      BY <3>5, EmptySeq
  <2>3. order \in Orders /\ DriverOrder(b, order) \in Orders
    BY AlsaAssumption DEF DriverOrder, OpenInv, OpenTypeOK, Orders
  <2>4. QED
    BY <1>3, <2>1, <2>2, <2>3 DEF BeginOpen, OpenInv, OpenTypeOK, Widths
<1>4. ASSUME NEW b \in Bits, BadBits(b) PROVE OpenInv'
  BY <1>4 DEF BadBits, OpenInv, OpenTypeOK
<1>5. ASSUME NEW supported \in SUBSET Available, TryFails(supported) PROVE OpenInv'
  BY <1>5, NextDeviceKeeps DEF TryFails, OpenInv, OpenTypeOK
<1>6. ASSUME NEW supported \in SUBSET Available, TryFailsLater(supported) PROVE OpenInv'
  <2>1. pc = "trying" /\ bitformat \in Formats /\ supported \in SUBSET Formats
    BY <1>6, AlsaAssumption DEF TryFailsLater, OpenInv
  <2>2. Agreed(bitformat, supported) \in Formats
    BY <1>6, <2>1, AgreedFormat DEF TryFailsLater
  <2>3. QED
    BY <1>6, <2>1, <2>2, NotedTypes, NextDeviceKeeps DEF TryFailsLater, Leaves
<1>7. ASSUME NEW supported \in SUBSET Available, NEW set \in supported, TrySucceeds(supported, set)
      PROVE  OpenInv'
  <2> DEFINE f == Agreed(bitformat, supported)
  <2>1. pc = "trying" /\ bitformat \in Formats /\ supported \in SUBSET Formats
    BY <1>7, AlsaAssumption DEF TrySucceeds, OpenInv
  <2>2. f \in Formats
    BY <1>7, <2>1, AgreedFormat DEF TrySucceeds
  <2>3. BitsOf(f) \in Widths /\ OrderOf(f) \in Orders
    BY <2>1, <2>2, NotedTypes
  <2>4. bits' \in Widths /\ prebits \in Widths
    BY <1>7, <2>1, <2>3 DEF TrySucceeds, FinalBits, OpenInv
  <2>5. padoutw' \in Nat /\ padbuffer' \in BOOLEAN /\ (padbuffer' => padoutw' > 0)
    <3>1. padoutw' \in Nat
      BY <1>7, <2>3 DEF TrySucceeds, Padding, Widths
    <3>2. padbuffer' \in BOOLEAN /\ (padoutw' = 0 => ~padbuffer')
      BY <1>7 DEF TrySucceeds
    <3>3. QED
      BY <3>1, <3>2
  <2>6. sampleWidth' \in 1 .. 4
    BY <1>7, <2>4 DEF TrySucceeds, Widths
  <2>7. hardware' \in Formats /\ hardware' # "none"
    BY <1>7, <2>1 DEF TrySucceeds, Formats
  <2>8. pc' = "open" /\ handles = 0 /\ handles' = 1 /\ bitformat' = f /\ driver' = OrderOf(f)
        /\ UNCHANGED <<channels, dev, id, prebits, client, todo>>
    BY <1>7, <2>1 DEF TrySucceeds, OpenInv
  <2>9. OpenTypeOK'
    BY <2>1, <2>2, <2>3, <2>4, <2>5, <2>6, <2>7, <2>8 DEF OpenInv, OpenTypeOK, Widths
  <2>10. QED
    BY <2>1, <2>2, <2>4, <2>5, <2>6, <2>7, <2>8, <2>9 DEF OpenInv
<1>8. QED
  BY <1>1, <1>2, <1>3, <1>4, <1>5, <1>6, <1>7 DEF OpenNext

\* ao_plugin_close and the steps that leave the structure alone keep it.
LEMMA OpenKeptElsewhere ==
  ASSUME OpenInv, CloseHandle \/ UNCHANGED openVars PROVE OpenInv'
<1>1. CASE CloseHandle
  BY <1>1 DEF CloseHandle, OpenInv, OpenTypeOK
<1>2. CASE UNCHANGED openVars
  BY <1>2 DEF openVars, OpenInv, OpenTypeOK
<1>3. QED
  BY <1>1, <1>2
-----------------------------------------------------------------------------
(* ao_plugin_play and ao_plugin_close. *)

\* sample_size on an open device.
LEMMA FrameHasBytes == ASSUME OpenInv, pc = "open" PROVE FrameBytes \in Nat \ {0}
<1>1. sampleWidth \in 1 .. 4 /\ channels \in Channels
  BY DEF OpenInv
<1>2. sampleWidth \in Nat \ {0} /\ channels \in Nat \ {0}
  BY <1>1, AlsaAssumption
<1>3. QED
  BY <1>2 DEF FrameBytes

\* Nothing is played before.
LEMMA PlayStarts == Init => PlayInv
<1> SUFFICES ASSUME Init PROVE PlayInv
  OBVIOUS
<1>1. out \in Seq(1 .. MaxFrames) /\ Len(out) = 0
  BY DEF Init
<1>2. QED
  BY <1>1, PlayAssumption DEF Init, PlayInv, Busy

\* Options and open come before the first frame; padoutw and sample_size do not
\* change under one that is being played.
LEMMA OpeningKeepsPlay == ASSUME IInv, Opening PROVE PlayInv'
<1>1. pc # "open"
  BY DEF Opening, OpenNext, SetDev, SetId, BeginOpen, BadBits, TryFails, TryFailsLater, TrySucceeds
<1>2. stage \notin Busy
  BY <1>1 DEF IInv, PlayInv
<1>3. QED
  BY <1>2 DEF IInv, PlayInv, Opening, playVars, Busy

\* The steps of the hardware, and those of the thread that take and write nothing.
LEMMA QuietKeepsPlay ==
  ASSUME IInv, UNCHANGED <<openVars, numBytes, len, taken, out>>,
         stage' \in Busy \cup {stage}, stage' = "page" => stage = "page",
         stage' # stage => stage \in Busy,
         pcm' \in {"running", "underrun", "suspended", "dead"}, queued' \in 0 .. Buffer
  PROVE  PlayInv'
<1>1. UNCHANGED <<pc, padbuffer, Room>>
  BY DEF openVars, FrameBytes, Room
<1>2. QED
  BY <1>1 DEF IInv, PlayInv, Busy

\* ao_plugin_play takes a chunk.
LEMMA PlayKeeps ==
  ASSUME IInv, NEW n \in Chunks, NEW rest \in {0, FrameBytes - 1}, Play(n, rest)
  PROVE  PlayInv'
<1>1. pc = "open" /\ stage = "idle" /\ taken + n <= MaxFrames /\ n \in Nat
  BY PlayAssumption DEF Play
<1>2. FrameBytes \in Nat \ {0} /\ FrameBytes' = FrameBytes /\ UNCHANGED <<pc, padbuffer>>
  BY <1>1, FrameHasBytes DEF IInv, Play, openVars, FrameBytes
<1>3. padoutw \in Nat /\ len = 0 /\ Len(out) = taken /\ taken \in Nat /\ MaxFrames \in Nat
  BY <1>1, PlayAssumption DEF IInv, PlayInv, OpenInv, OpenTypeOK
<1>4. CASE padbuffer
  <2>1. stage' = "page" /\ numBytes' = n * FrameBytes + rest /\ UNCHANGED <<len, taken, out>>
    BY <1>4 DEF Play
  <2>2. (n + 1) * FrameBytes = n * FrameBytes + FrameBytes /\ n * FrameBytes \in Nat
    BY <1>1, <1>2
  <2>3. (n + 1) * FrameBytes <= Room
    BY <1>1, <1>2, <1>3, TimesMonotonic, MaxFrames - taken + 1 \in Nat DEF Room
  <2>4. numBytes' \in Nat /\ numBytes' < (n + 1) * FrameBytes
    BY <1>2, <2>1, <2>2
  <2>5. Room \in Nat /\ (n + 1) * FrameBytes \in Nat /\ Room' = Room
    BY <1>1, <1>2, <1>3, <2>1, MaxFrames - taken + 1 \in Nat DEF Room
  <2>6. numBytes' < Room'
    BY <2>3, <2>4, <2>5
  <2>7. QED
    BY <1>1, <1>2, <1>3, <1>4, <2>1, <2>4, <2>6 DEF IInv, PlayInv, Play, Busy
<1>5. CASE ~padbuffer
  BY <1>1, <1>2, <1>3, <1>5 DEF IInv, PlayInv, Play, Busy
<1>6. QED
  BY <1>4, <1>5

\* A page takes whole frames, as many as it has room for.
LEMMA PlayPageKeeps == ASSUME IInv, PlayPage PROVE PlayInv'
<1> DEFINE frames == PageOf(numBytes \div FrameBytes)
<1>1. stage = "page" /\ pc = "open" /\ padbuffer /\ padoutw > 0 /\ len = 0 /\ Len(out) = taken
      /\ numBytes \in Nat /\ taken \in Nat /\ MaxFrames \in Nat /\ padoutw \in Nat
      /\ numBytes < Room /\ taken <= MaxFrames
  BY PlayAssumption DEF IInv, PlayInv, OpenInv, OpenTypeOK, PlayPage, Busy
<1>2. FrameBytes \in Nat \ {0} /\ FrameBytes' = FrameBytes /\ UNCHANGED <<pc, padbuffer>>
  BY <1>1, FrameHasBytes DEF IInv, PlayPage, openVars, FrameBytes
<1>3. numBytes \div FrameBytes \in Nat /\ (numBytes \div FrameBytes) * FrameBytes <= numBytes
  BY <1>1, <1>2, WholeFrames
<1>4. PageFrames \in Nat
  <2>1. channels \in Nat \ {0}
    BY <1>1, AlsaAssumption DEF IInv, OpenInv
  <2>2. padoutw * channels \in Nat \ {0}
    BY <1>1, <2>1
  <2>3. QED
    BY <2>2, WholeFrames, PlayAssumption DEF PageFrames
<1>5. frames \in Nat /\ frames <= numBytes \div FrameBytes
  BY <1>3, <1>4 DEF PageOf
<1>6. frames * FrameBytes \in Nat /\ frames * FrameBytes <= numBytes
  <2>1. frames * FrameBytes <= (numBytes \div FrameBytes) * FrameBytes
    BY <1>2, <1>3, <1>5, TimesMonotonic
  <2>2. frames * FrameBytes \in Nat /\ (numBytes \div FrameBytes) * FrameBytes \in Nat
    BY <1>2, <1>3, <1>5
  <2>3. QED
    BY <1>1, <1>3, <2>1, <2>2
<1>7. taken + frames <= MaxFrames
  <2>1. SUFFICES ASSUME taken + frames > MaxFrames PROVE FALSE
    BY <1>1, <1>5
  <2>2. MaxFrames - taken + 1 \in Nat /\ MaxFrames - taken + 1 <= frames
    BY <1>1, <1>5, <2>1
  <2>3. (MaxFrames - taken + 1) * FrameBytes <= frames * FrameBytes
    BY <1>2, <1>5, <2>2, TimesMonotonic
  <2>4. Room \in Nat /\ Room <= frames * FrameBytes
    BY <1>2, <2>2, <2>3 DEF Room
  <2>5. QED
    BY <1>1, <1>6, <2>4
<1>8. stage' = "write" /\ len' = frames /\ taken' = taken + frames
      /\ numBytes' = numBytes - frames * FrameBytes /\ UNCHANGED <<pcm, queued, out>>
  BY DEF PlayPage
<1>9. numBytes' < Room'
  <2>1. Room = Room' + frames * FrameBytes /\ Room' \in Int
    BY <1>1, <1>2, <1>5, <1>8 DEF Room
  <2>2. QED
    BY <1>1, <1>6, <1>8, <2>1
<1>10. numBytes' \in Nat
  BY <1>1, <1>6, <1>8
<1>11. QED
  BY <1>1, <1>2, <1>5, <1>7, <1>8, <1>9, <1>10 DEF IInv, PlayInv, Busy

\* writei takes the next n frames.
LEMMA WriteKeeps ==
  ASSUME IInv, NEW n \in 1 .. Buffer, Write(n)
  PROVE  PlayInv' /\ Len(out') = Len(out) + n
<1>1. stage = "write" /\ Len(out) = taken - len /\ taken \in Nat /\ len \in Nat /\ n \in Nat
      /\ n <= len /\ len <= taken /\ taken <= MaxFrames /\ MaxFrames \in Nat
  BY PlayAssumption DEF IInv, PlayInv, Write
<1>2. \A i \in 1 .. n : taken - len + i \in 1 .. MaxFrames
  BY <1>1
<1>3. Written(n) \in Seq(1 .. MaxFrames) /\ Len(Written(n)) = n
  BY <1>1, <1>2 DEF Written
<1>4. out' \in Seq(1 .. MaxFrames) /\ Len(out') = Len(out) + n
  BY <1>3, ConcatProperties DEF IInv, PlayInv, Write
<1>5. UNCHANGED <<pc, padbuffer, Room>>
  BY DEF Write, openVars, FrameBytes, Room
<1>6. queued' \in 0 .. Buffer
  BY <1>1, PlayAssumption DEF IInv, PlayInv, Write
<1>7. QED
  BY <1>1, <1>4, <1>5, <1>6 DEF IInv, PlayInv, Write, Busy

\* The call ends, or goes on with the next page.
LEMMA ReturnsKeep == ASSUME IInv, PlayReturns \/ WriteEnds PROVE PlayInv'
<1>1. UNCHANGED <<pc, padbuffer, Room>>
  BY DEF PlayReturns, WriteEnds, openVars, FrameBytes, Room
<1>2. CASE PlayReturns
  BY <1>1, <1>2 DEF IInv, PlayInv, PlayReturns, Busy
<1>3. CASE WriteEnds
  BY <1>1, <1>3 DEF IInv, PlayInv, WriteEnds, Busy
<1>4. QED
  BY <1>2, <1>3

\* The call fails, with frames that were never written.
LEMMA GiveUpKeeps == ASSUME IInv, stage \in Busy, GiveUp PROVE PlayInv'
BY PlayAssumption DEF IInv, PlayInv, GiveUp, Busy

\* Every step of play, close and the hardware keeps the invariant.
LEMMA PlayKept == ASSUME IInv, [Next]_vars PROVE PlayInv'
<1> USE DEF Busy
<1>0. /\ queued \in 0 .. Buffer /\ pcm \in {"running", "underrun", "suspended", "dead"}
      /\ 0 \in 0 .. Buffer
  BY PlayAssumption DEF IInv, PlayInv
<1>1. CASE Opening
  BY <1>1, OpeningKeepsPlay
<1>2. CASE HardwarePlays
  BY <1>0, <1>2, QuietKeepsPlay, PlayAssumption DEF HardwarePlays
<1>3. ASSUME NEW how \in {"underrun", "suspended", "dead"}, HardwareStops(how) PROVE PlayInv'
  BY <1>0, <1>3, QuietKeepsPlay DEF HardwareStops
<1>4. ASSUME NEW n \in Chunks, NEW rest \in {0, FrameBytes - 1}, Play(n, rest) PROVE PlayInv'
  BY <1>4, PlayKeeps
<1>5. CASE PlayPage
  BY <1>5, PlayPageKeeps
<1>6. CASE PlayReturns \/ WriteEnds
  BY <1>6, ReturnsKeep
<1>7. CASE WriteError
  BY <1>0, <1>7, QuietKeepsPlay DEF WriteError
<1>8. CASE Recover
  <2>1. CASE GiveUp
    BY <1>8, <2>1, GiveUpKeeps DEF Recover
  <2>2. CASE RecoverBy("restart") \/ RecoverBy("resume")
    BY <1>0, <1>8, <2>2, QuietKeepsPlay DEF Recover, RecoverBy
  <2>3. QED
    BY <1>8, <2>1, <2>2 DEF Recover
<1>9. CASE Resume
  BY <1>0, <1>9, QuietKeepsPlay DEF Resume, Recovered, RecoverBy
<1>10. CASE Restart
  <2>1. CASE GiveUp
    BY <1>10, <2>1, GiveUpKeeps DEF Restart
  <2>2. CASE Recovered /\ queued' = 0
    BY <1>0, <1>10, <2>2, QuietKeepsPlay DEF Restart, Recovered
  <2>3. QED
    BY <1>10, <2>1, <2>2 DEF Restart
<1>11. ASSUME NEW n \in 1 .. Buffer, Write(n) PROVE PlayInv'
  BY <1>11, WriteKeeps
<1>12. CASE Close
  BY <1>12 DEF Close, CloseHandle, playVars, IInv, PlayInv
<1>13. CASE UNCHANGED vars
  BY <1>0, <1>13, QuietKeepsPlay DEF vars, playVars
<1>14. QED
  BY <1>1, <1>2, <1>3, <1>4, <1>5, <1>6, <1>7, <1>8, <1>9, <1>10, <1>11, <1>12, <1>13
     DEF Next, Hardware, Thread
-----------------------------------------------------------------------------
(* The invariant, and the FIFO that play implements. *)

\* The invariant holds in every state.
LEMMA Inductive == Spec => []IInv
<1>1. Init => IInv
  BY OpenStarts, PlayStarts DEF Init, IInv
<1>2. IInv /\ [Next]_vars => IInv'
  <2> SUFFICES ASSUME IInv, [Next]_vars PROVE OpenInv'
    BY PlayKept DEF IInv
  <2>1. CASE Opening
    BY <2>1, OpenKept DEF IInv, Opening
  <2>2. CASE Close
    BY <2>2, OpenKeptElsewhere DEF IInv, Close
  <2>3. CASE UNCHANGED openVars
    BY <2>3, OpenKeptElsewhere DEF IInv
  <2>4. QED
    BY <2>1, <2>2, <2>3
       DEF Next, Hardware, HardwarePlays, HardwareStops, Play, Thread, PlayPage, PlayReturns,
           WriteEnds, WriteError, Recover, GiveUp, RecoverBy, Resume, Recovered, Restart, Write, vars
<1>3. QED
  BY <1>1, <1>2, PTL DEF Spec

\* A step takes frames, gives ALSA the next ones, or leaves both counts alone.
FifoStep == Fifo!FifoNext \/ UNCHANGED <<[d \in {1} |-> taken], [d \in {1} |-> out]>>

\* Frames are taken while the bound allows it.
LEMMA TakesFrames ==
  ASSUME IInv, NEW n \in Nat, taken' = taken + n, UNCHANGED out, taken' <= MaxFrames
  PROVE  FifoStep
<1>1. taken \in Nat /\ Len(out) \in Nat /\ MaxFrames \in Nat
  BY PlayAssumption, LenProperties DEF IInv, PlayInv
<1>2. CASE n = 0
  BY <1>1, <1>2 DEF FifoStep
<1>3. CASE n # 0
  <2>1. n \in 1 .. MaxFrames
    BY <1>1, <1>3
  <2>2. Fifo!Take(1, n)
    BY <1>1 DEF Fifo!Take
  <2>3. QED
    BY <2>1, <2>2 DEF FifoStep, Fifo!FifoNext
<1>4. QED
  BY <1>2, <1>3

\* writei is given the frames that follow those it has.
LEMMA DeliversFrames == ASSUME IInv, NEW n \in 1 .. Buffer, Write(n) PROVE FifoStep
<1>1. Len(out) = taken - len /\ taken \in 0 .. MaxFrames /\ len \in 0 .. MaxFrames
      /\ MaxFrames \in Nat /\ n <= len /\ n \in Nat /\ UNCHANGED taken
  BY PlayAssumption DEF IInv, PlayInv, Write
<1>2. n \in 1 .. MaxFrames
  BY <1>1
<1>3. out' = out \o [i \in 1 .. n |-> Len(out) + i]
  BY <1>1 DEF Write, Written
<1>4. Fifo!Deliver(1, n)
  <2> DEFINE outs == [d \in {1} |-> out]
  <2>1. Len(out) + n <= taken /\ outs[1] = out
    BY <1>1
  <2>2. [d \in {1} |-> out'] = [outs EXCEPT ![1] = out \o [i \in 1 .. n |-> Len(out) + i]]
    BY <1>3
  <2>3. QED
    BY <1>1, <2>1, <2>2 DEF Fifo!Deliver
<1>5. QED
  BY <1>2, <1>4 DEF FifoStep, Fifo!FifoNext

\* Every step is one of SampleFifo.
LEMMA FifoStepHolds == ASSUME IInv, IInv', [Next]_vars PROVE FifoStep
<1>1. ASSUME NEW n \in Chunks, NEW rest \in {0, FrameBytes - 1}, Play(n, rest) PROVE FifoStep
  <2>1. n \in Nat /\ taken + n <= MaxFrames
    BY <1>1, PlayAssumption DEF Play
  <2>2. CASE taken' = taken + n
    BY <1>1, <2>1, <2>2, TakesFrames DEF Play
  <2>3. CASE UNCHANGED taken
    BY <1>1, <2>3 DEF Play, FifoStep
  <2>4. QED
    BY <1>1, <2>2, <2>3 DEF Play
<1>2. CASE PlayPage
  <2>1. len' \in 0 .. MaxFrames /\ taken' = taken + len' /\ taken' <= MaxFrames /\ UNCHANGED out
    BY <1>2, PlayAssumption DEF PlayPage, IInv, PlayInv
  <2>2. len' \in Nat
    BY <2>1, PlayAssumption
  <2>3. QED
    BY <2>1, <2>2, TakesFrames
<1>3. ASSUME NEW n \in 1 .. Buffer, Write(n) PROVE FifoStep
  BY <1>3, DeliversFrames
<1>4. CASE UNCHANGED <<taken, out>>
  BY <1>4 DEF FifoStep
<1>5. QED
  BY <1>1, <1>2, <1>3, <1>4
     DEF Next, Opening, playVars, Hardware, HardwarePlays, HardwareStops, Thread, PlayReturns,
         WriteEnds, WriteError, Recover, GiveUp, RecoverBy, Resume, Recovered, Restart, Close, vars

\* ao_plugin_play and the options and steps of ao_plugin_open keep the types.
THEOREM TypeCorrect == Spec => []TypeOK
<1>1. IInv => TypeOK
  BY DEF IInv, OpenInv, PlayInv, TypeOK, Busy
<1>2. QED
  BY <1>1, Inductive, PTL

\* ao_plugin_play gives ALSA every frame once and in order, through short writes
\* and recoveries, and all of them before it returns 1, whatever ao_plugin_open
\* left in padoutw and sample_size and however small the page.
THEOREM Delivers == Spec => DeliversInOrder
<1>1. Init => Fifo!FifoInit
  BY DEF Init, Fifo!FifoInit
<1>2. IInv /\ IInv' /\ [Next]_vars => [Fifo!FifoNext]_<<[d \in {1} |-> taken], [d \in {1} |-> out]>>
  BY FifoStepHolds DEF FifoStep
<1>3. IInv => (stage = "idle" => Len(out) = taken)
  BY DEF IInv, PlayInv
<1>4. QED
  BY <1>1, <1>2, <1>3, Inductive, PTL DEF Spec, DeliversInOrder, Fifo!FifoSpec
-----------------------------------------------------------------------------
(* Widths and byte order on any hardware. *)

\* What one attempt leaves to the next: an unpacked format is the one for
\* format->bits, which is never less than what was asked for, and a packed one
\* agrees with it at least when 24 bits were.
WidthInv ==
  /\ pc = "trying" =>
       /\ bitformat \notin Packed => bitformat = Wanted(bits)
       /\ prebits <= bits /\ (bitformat \in Packed /\ prebits = 24 => bits = 24)
  /\ WidthsFit

\* What an attempt may turn a format into.
LEMMA AgreedSteps ==
  ASSUME OpenInv, pc = "trying", NEW supported \in SUBSET Available,
         Agreed(bitformat, supported) # "none"
  PROVE  LET f == Agreed(bitformat, supported)
         IN /\ f \in Formats /\ (f \notin Packed => f \in supported)
            /\ bitformat \in Packed => f = bitformat
            /\ bitformat = "S32" => f = "S32"
            /\ bitformat = "S24" => f \in {"S24", "S32"} \cup Packed
            /\ bitformat = "S16" => f # "U8"
<1> DEFINE f == Agreed(bitformat, supported)
<1>1. bitformat \in Formats /\ supported \in SUBSET Formats
  BY AlsaAssumption DEF OpenInv
<1>2. /\ f \in Formats /\ (bitformat \notin Packed => f \in supported)
      /\ f \in {bitformat} \cup {Wider(bitformat)[i] : i \in 1 .. Len(Wider(bitformat))}
  BY <1>1, AgreedFormat
<1>3. CASE bitformat \in Packed \cup {"S32"}
  <2>1. Wider(bitformat) = <<>>
    BY <1>3 DEF Wider, Packed
  <2>2. f = bitformat
    BY <1>2, <2>1
  <2>3. QED
    BY <1>2, <1>3, <2>2 DEF Packed
<1>4. CASE bitformat = "S24"
  <2>1. Wider(bitformat) = <<"S24_3LE", "S24_3BE", "S32">>
    BY <1>4 DEF Wider
  <2>2. f \in {"S24", "S24_3LE", "S24_3BE", "S32"}
    BY <1>2, <1>4, <2>1
  <2>3. QED
    BY <1>2, <1>4, <2>2 DEF Packed
<1>5. CASE bitformat = "S16"
  <2>1. Wider(bitformat) = <<"S24", "S24_3LE", "S24_3BE", "S32">>
    BY <1>5 DEF Wider
  <2>2. f # "U8"
    BY <1>2, <1>5, <2>1
  <2>3. QED
    BY <1>2, <1>5, <2>2 DEF Packed
<1>6. CASE bitformat = "U8"
  BY <1>2, <1>6 DEF Packed
<1>7. QED
  BY <1>1, <1>3, <1>4, <1>5, <1>6 DEF Formats, Packed

\* The format agreed on is noted with its width.
LEMMA WidthNoted ==
  ASSUME OpenInv, WidthInv, pc = "trying", NEW supported \in SUBSET Available,
         Agreed(bitformat, supported) # "none"
  PROVE  LET f == Agreed(bitformat, supported)
         IN /\ BitsOf(f) \in Widths /\ prebits <= BitsOf(f)
            /\ f \notin Packed => Wanted(BitsOf(f)) = f
            /\ f \in Packed /\ prebits = 24 => BitsOf(f) = 24
<1> DEFINE f == Agreed(bitformat, supported)
<1>1. /\ bits \in Widths /\ prebits \in Widths /\ bitformat \in Formats /\ prebits <= bits
      /\ bitformat \notin Packed => bitformat = Wanted(bits)
      /\ bitformat \in Packed /\ prebits = 24 => bits = 24
  BY DEF OpenInv, WidthInv
<1>2. /\ f \in Formats
      /\ bitformat \in Packed => f = bitformat
      /\ bitformat = "S32" => f = "S32"
      /\ bitformat = "S24" => f \in {"S24", "S32"} \cup Packed
      /\ bitformat = "S16" => f # "U8"
  BY AgreedSteps
<1>3. CASE f = bitformat
  BY <1>1, <1>3 DEF BitsOf
<1>4. CASE f # bitformat /\ bitformat = "U8"
  <2>1. bits = 8 /\ f \in {"S16", "S24", "S32"} \cup Packed
    BY <1>1, <1>2, <1>4 DEF Wanted, Widths, Formats, Packed
  <2>2. QED
    BY <1>1, <1>4, <2>1 DEF BitsOf, Wanted, Widths, Packed
<1>5. CASE f # bitformat /\ bitformat = "S16"
  <2>1. bits = 16 /\ f \in {"S24", "S32"} \cup Packed
    BY <1>1, <1>2, <1>5 DEF Wanted, Widths, Formats, Packed
  <2>2. QED
    BY <1>1, <1>5, <2>1 DEF BitsOf, Wanted, Widths, Packed
<1>6. CASE f # bitformat /\ bitformat = "S24"
  <2>1. bits = 24 /\ f \in {"S32"} \cup Packed
    BY <1>1, <1>2, <1>6 DEF Wanted, Widths, Packed
  <2>2. QED
    BY <1>1, <1>6, <2>1 DEF BitsOf, Wanted, Widths, Packed
<1>7. QED
  BY <1>1, <1>2, <1>3, <1>4, <1>5, <1>6 DEF Formats, Packed

\* An attempt that succeeds leaves the widths the hardware takes.
LEMMA WidthsSet ==
  ASSUME OpenInv, WidthInv, NEW supported \in SUBSET Available, NEW set \in supported,
         TrySucceeds(supported, set)
  PROVE  WidthsFit'
<1> DEFINE f == Agreed(bitformat, supported)
           b == BitsOf(f)
<1>1. pc = "trying" /\ f # "none" /\ prebits \in Widths
  BY DEF TrySucceeds, OpenInv
<1>2. /\ b \in Widths /\ (f \notin Packed => Wanted(b) = f)
      /\ f \in Packed /\ prebits = 24 => b = 24
  BY <1>1, WidthNoted
<1>3. f \in Formats /\ (f \notin Packed => hardware' = f)
  BY <1>1, AgreedSteps DEF TrySucceeds
<1>4. bitformat' = f /\ prebits' = prebits
  BY DEF TrySucceeds
<1> SUFFICES ASSUME f # "S24", f \in Packed => hardware' = f /\ prebits = 24,
                    padoutw' # 0 => padbuffer'
             PROVE  /\ hardware' = f /\ sampleWidth' * 8 = prebits
                    /\ PhysicalWidth(f) = IF padbuffer' THEN padoutw' ELSE sampleWidth'
  <2>1. QED
    BY <1>3, <1>4 DEF WidthsFit, WidthsAlwaysFit
<1>5. hardware' = f
  BY <1>3
<1>6. bits' = prebits
  BY <1>1 DEF TrySucceeds, FinalBits
<1>7. sampleWidth' = prebits \div 8
  BY <1>6 DEF TrySucceeds
<1>8. sampleWidth' * 8 = prebits
  BY <1>1, <1>7 DEF Widths
<1>9. padoutw' = IF prebits # b THEN (b + 7) \div 8 ELSE 0
  BY DEF TrySucceeds, Padding
<1>10. padoutw' = 0 => ~padbuffer'
  BY DEF TrySucceeds
<1>11. PhysicalWidth(f) * 8 = b /\ PhysicalWidth(f) \in 1 .. 4
  <2>1. CASE f \in Packed
    BY <1>2, <2>1 DEF PhysicalWidth, Packed
  <2>2. CASE f \notin Packed
    BY <1>2, <1>3, <2>2 DEF PhysicalWidth, Wanted, Widths, Packed
  <2>3. QED
    BY <2>1, <2>2
<1>12. CASE prebits = b
  BY <1>2, <1>5, <1>7, <1>8, <1>9, <1>10, <1>11, <1>12 DEF Widths
<1>13. CASE prebits # b
  <2>1. padoutw' = PhysicalWidth(f)
    BY <1>2, <1>9, <1>11, <1>13 DEF Widths
  <2>2. QED
    BY <1>5, <1>8, <1>11, <2>1
<1>14. QED
  BY <1>12, <1>13

\* Every step of ao_plugin_open keeps format and width in agreement.
LEMMA WidthKept == ASSUME OpenInv, WidthInv, OpenNext PROVE WidthInv'
<1>1. CASE SetDev
  BY <1>1 DEF SetDev, WidthInv, WidthsFit, WidthsAlwaysFit
<1>2. ASSUME NEW card \in -1 .. 0, SetId(card) PROVE WidthInv'
  BY <1>2 DEF SetId, WidthInv, WidthsFit, WidthsAlwaysFit
<1>3. ASSUME NEW b \in Bits, NEW n \in Channels, NEW order \in Clients, BeginOpen(b, n, order)
      PROVE  WidthInv'
  <2>1. b \in Nat /\ Wanted(b) \notin Packed
    BY AlsaAssumption DEF Wanted, Packed
  <2>2. QED
    BY <1>3, <2>1 DEF BeginOpen, WidthInv, WidthsFit, WidthsAlwaysFit
<1>4. ASSUME NEW b \in Bits, BadBits(b) PROVE WidthInv'
  BY <1>4 DEF BadBits, WidthInv, WidthsFit, WidthsAlwaysFit
<1>5. ASSUME NEW supported \in SUBSET Available, TryFails(supported) PROVE WidthInv'
  BY <1>5 DEF TryFails, NextDevice, WidthInv, WidthsFit, WidthsAlwaysFit
<1>6. ASSUME NEW supported \in SUBSET Available, TryFailsLater(supported) PROVE WidthInv'
  <2> DEFINE f == Agreed(bitformat, supported)
  <2>1. pc = "trying" /\ pc' # "open" /\ bits' = BitsOf(f) /\ bitformat' = f
        /\ prebits' = prebits
    BY <1>6 DEF TryFailsLater, NextDevice, Leaves
  <2>2. /\ prebits <= BitsOf(f)
        /\ f \notin Packed => Wanted(BitsOf(f)) = f
        /\ f \in Packed /\ prebits = 24 => BitsOf(f) = 24
    BY <1>6, <2>1, WidthNoted DEF TryFailsLater
  <2>3. QED
    BY <2>1, <2>2 DEF WidthInv, WidthsFit, WidthsAlwaysFit
<1>7. ASSUME NEW supported \in SUBSET Available, NEW set \in supported, TrySucceeds(supported, set)
      PROVE  WidthInv'
  BY <1>7, WidthsSet DEF TrySucceeds, WidthInv
<1>8. QED
  BY <1>1, <1>2, <1>3, <1>4, <1>5, <1>6, <1>7 DEF OpenNext

\* After any number of failed attempts on any hardware, which may have changed
\* the format and its width, open leaves for the samples and for their padding
\* the width the hardware takes, in the cases that WidthsFit names.
THEOREM WidthsAgree == Spec => []WidthsFit
<1>1. Init => WidthInv
  BY DEF Init, OpenInit, WidthInv, WidthsFit, WidthsAlwaysFit
<1>2. IInv /\ WidthInv /\ [Next]_vars => WidthInv'
  <2> SUFFICES ASSUME IInv, WidthInv, [Next]_vars PROVE WidthInv'
    OBVIOUS
  <2>1. CASE Opening
    BY <2>1, WidthKept DEF IInv, Opening
  <2>2. CASE Close
    BY <2>2 DEF Close, CloseHandle, WidthInv, WidthsFit, WidthsAlwaysFit
  <2>3. CASE UNCHANGED openVars
    BY <2>3 DEF openVars, WidthInv, WidthsFit, WidthsAlwaysFit
  <2>4. QED
    BY <2>1, <2>2, <2>3
       DEF Next, Hardware, HardwarePlays, HardwareStops, Play, Thread, PlayPage, PlayReturns,
           WriteEnds, WriteError, Recover, GiveUp, RecoverBy, Resume, Recovered, Restart, Write, vars
<1>3. QED
  BY <1>1, <1>2, Inductive, PTL DEF Spec, WidthInv

\* The byte order as the attempts leave it: that of the samples until a packed
\* format is chosen, and that format's from then on.  An unpacked format is one
\* that the hardware is set to.
OrderInv ==
  pc \in {"trying", "open"} =>
    /\ prebits > 8 /\ bitformat \notin Packed => driver = client
    /\ bitformat = "S24_3LE" => driver = "little"
    /\ bitformat = "S24_3BE" => driver = "big"
    /\ pc = "open" /\ bitformat \notin Packed => hardware = bitformat

\* The order is corrected when the format is, and at no other time.
LEMMA OrderNoted ==
  ASSUME OpenInv, OrderInv, pc = "trying", NEW supported \in SUBSET Available,
         Agreed(bitformat, supported) # "none"
  PROVE  LET f == Agreed(bitformat, supported)
         IN /\ prebits > 8 /\ f \notin Packed => OrderOf(f) = client
            /\ f = "S24_3LE" => OrderOf(f) = "little"
            /\ f = "S24_3BE" => OrderOf(f) = "big"
<1> DEFINE f == Agreed(bitformat, supported)
<1>1. bitformat \in Packed => f = bitformat
  BY AgreedSteps
<1>2. CASE f \in Packed
  BY <1>2 DEF OrderOf, OrderInv, Packed
<1>3. CASE f \notin Packed
  BY <1>1, <1>3 DEF OrderOf, OrderInv, Packed
<1>4. QED
  BY <1>2, <1>3

\* Every step of ao_plugin_open keeps order and format in agreement.
LEMMA OrderKept == ASSUME OpenInv, OrderInv, OpenNext PROVE OrderInv'
<1>1. CASE SetDev \/ \E card \in -1 .. 0 : SetId(card)
  BY <1>1 DEF SetDev, SetId, OrderInv
<1>2. ASSUME NEW b \in Bits, NEW n \in Channels, NEW order \in Clients, BeginOpen(b, n, order)
      PROVE  OrderInv'
  BY <1>2 DEF BeginOpen, DriverOrder, Wanted, OrderInv
<1>3. ASSUME NEW b \in Bits, BadBits(b) PROVE OrderInv'
  BY <1>3 DEF BadBits, OrderInv
<1>4. ASSUME NEW supported \in SUBSET Available, TryFails(supported) PROVE OrderInv'
  BY <1>4 DEF TryFails, NextDevice, OrderInv
<1>5. ASSUME NEW supported \in SUBSET Available, TryFailsLater(supported) PROVE OrderInv'
  BY <1>5, OrderNoted DEF TryFailsLater, NextDevice, Leaves, OrderInv
<1>6. ASSUME NEW supported \in SUBSET Available, NEW set \in supported, TrySucceeds(supported, set)
      PROVE  OrderInv'
  <2>1. Agreed(bitformat, supported) \notin Packed => hardware' = bitformat'
    BY <1>6, AgreedSteps DEF TrySucceeds
  <2>2. QED
    BY <1>6, <2>1, OrderNoted DEF TrySucceeds, OrderInv
<1>7. QED
  BY <1>1, <1>2, <1>3, <1>4, <1>5, <1>6 DEF OpenNext

\* driver_byte_format names the order that the hardware takes: that of a packed
\* format whichever attempt has chosen it and whatever order the samples have,
\* else that of the machine if the samples have it.
THEOREM OrderAgrees == Spec => []ByteOrderFits
<1>1. Init => OrderInv
  BY DEF Init, OpenInit, OrderInv
<1>2. IInv /\ OrderInv /\ [Next]_vars => OrderInv'
  <2> SUFFICES ASSUME IInv, OrderInv, [Next]_vars PROVE OrderInv'
    OBVIOUS
  <2>1. CASE Opening
    BY <2>1, OrderKept DEF IInv, Opening
  <2>2. CASE Close
    BY <2>2 DEF Close, CloseHandle, OrderInv
  <2>3. CASE UNCHANGED openVars
    BY <2>3 DEF openVars, OrderInv
  <2>4. QED
    BY <2>1, <2>2, <2>3
       DEF Next, Hardware, HardwarePlays, HardwareStops, Play, Thread, PlayPage, PlayReturns,
           WriteEnds, WriteError, Recover, GiveUp, RecoverBy, Resume, Recovered, Restart, Write, vars
<1>3. OrderInv => ByteOrderFits
  BY DEF OrderInv, ByteOrderFits, ByteOrderAlwaysFits, Packed
<1>4. QED
  BY <1>1, <1>2, <1>3, Inductive, PTL DEF Spec
=============================================================================
