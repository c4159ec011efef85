----------------------------- MODULE FileWriter -----------------------------
(***************************************************************************)
(* The file drivers: ao_wav.c, ao_au.c and ao_raw.c (src/src) on a stdio   *)
(* stream.  wav and au write a header with guessed lengths first and go    *)
(* back to correct them in close.  fwrite leaves bytes in the stream's     *)
(* buffer; fseek and fclose write them out, and any write to the disk may  *)
(* fail.  What a crash leaves behind is the disk of any state: a claim     *)
(* about disk in every state is a claim about crashes.                     *)
(* A cell of the file stands for a field of the header or one byte of the  *)
(* stream.                                                                 *)
(***************************************************************************)
EXTENDS Integers, Sequences, FiniteSets

CONSTANTS
  Drivers,   \* a subset of {"wav", "au", "raw"}
  Starts,    \* where standard output stands in its file when ao opens it
  MaxStart,  \* bound on Starts
  Buffered,  \* cells the stream's buffer holds
  Modulus,   \* 2^32, which no length field can hold
  Chunks,    \* num_bytes of one ao_play
  MaxBytes   \* bound on the bytes played

ASSUME FileAssumption ==
  /\ Drivers \subseteq {"wav", "au", "raw"} /\ MaxStart \in Nat /\ Starts \subseteq 0 .. MaxStart
  /\ Buffered \in Nat \ {0} /\ Modulus \in Nat \ {0}
  /\ Chunks \subseteq Nat \ {0} /\ MaxBytes \in Nat

VARIABLES
  driver,   \* which of the drivers this is
  seekable, \* a file, not a pipe or a terminal
  base,     \* where our stream starts in the file
  pc,       \* "initialised"; in the driver's open "header"; "ready"; in ao_play
            \* "play"; "failed"; in close the fseek before each length, "riff" and
            \* "data" or "size", and "fclose"; "closed"
  disk,     \* the cells of the file, by their offset
  size,     \* length of the file
  pend,     \* what is in the stream's buffer
  at,       \* where the buffer goes in the file
  before,   \* ftell when the last fwrite of open or ao_play began
  trouble,  \* history: "open" or "play" when it failed, or "none"
  total,    \* what ftell told close
  result,   \* what the driver's close returned, or -1
  flushed,  \* whether fclose wrote all it had; ao_close does not look
  taken     \* history: bytes given to ao_play

fixed == <<driver, seekable, base>>
file == <<disk, size>>
buffer == <<pend, at, before>>
vars == <<fixed, pc, file, buffer, trouble, total, result, flushed, taken>>

Cell(w, v) == [what |-> w, value |-> v]

\* The headers, with guessed lengths: 0x7fffffff and AUDIO_UNKNOWN_SIZE.
WavHeader == <<Cell("id", 0), Cell("guess", 0), Cell("id", 1), Cell("guess", 0)>>
AuHeader == <<Cell("id", 0), Cell("guess", 0), Cell("id", 1)>>

\* WAV_HEADER_LEN, AU_HEADER_LEN.
HeaderLen == CASE driver = "wav" -> 4 [] driver = "au" -> 3 [] driver = "raw" -> 0

\* Seeded fault: riff.len counts the whole file.
FaultUncounted(field) == IF driver = "wav" /\ field = 1 THEN 0 ELSE HeaderLen

\* What lies before the part that a length field counts: riff.len counts all
\* behind itself, data.len and au's data_size the samples.
Uncounted(field) == IF driver = "wav" /\ field = 1 THEN 2 ELSE HeaderLen

Fields == CASE driver = "wav" -> {1, 3} [] driver = "au" -> {1} [] driver = "raw" -> {}

\* No cell lies behind a header and all the bytes.
Offsets == 0 .. MaxStart + MaxBytes + 4
Values == 0 .. (IF MaxBytes > Modulus THEN MaxBytes ELSE Modulus)
Cells == [what : {"hole", "earlier", "id", "guess", "length", "byte"}, value : Values]

Init ==
  /\ driver \in Drivers /\ seekable \in BOOLEAN
  /\ base \in (IF seekable THEN Starts ELSE {0})
  /\ pc = "initialised" /\ pend = <<>> /\ at = base /\ before = base /\ size = base
  /\ disk = [p \in Offsets |-> IF p < base THEN Cell("earlier", 0) ELSE Cell("hole", 0)]
  /\ trouble = "none" /\ total = 0 /\ result = -1 /\ flushed = FALSE /\ taken = 0
-----------------------------------------------------------------------------
(* stdio. *)

\* write(2) takes the first cell of the buffer: while a call is under way.
WriteOut ==
  /\ pc \in {"header", "play", "riff", "data", "size", "fclose"} /\ pend # <<>>
  /\ disk' = [disk EXCEPT ![at] = Head(pend)]
  /\ size' = IF at >= size THEN at + 1 ELSE size
  /\ pend' = Tail(pend) /\ at' = at + 1
  /\ UNCHANGED <<fixed, before, pc, trouble, total, result, flushed, taken>>

\* ftell.
Tell == at + Len(pend)

\* The byte the application plays as the i-th after those taken.
Bytes(n) == [i \in 1 .. n |-> Cell("byte", taken + i)]
-----------------------------------------------------------------------------
(* ao_wav_open, ao_au_open, ao_raw_open. *)

WriteHeader(header) ==
  /\ pc = "initialised" /\ pc' = "header" /\ pend' = header
  /\ UNCHANGED <<fixed, file, at, before, trouble, total, result, flushed, taken>>

WavOpen == driver = "wav" /\ WriteHeader(WavHeader)
AuOpen == driver = "au" /\ WriteHeader(AuHeader)
RawOpen == driver = "raw" /\ WriteHeader(<<>>)

HeaderWritten ==
  /\ pc = "header" /\ Len(pend) <= Buffered /\ pc' = "ready"
  /\ UNCHANGED <<fixed, file, buffer, trouble, total, result, flushed, taken>>

\* An option is refused, or au's sample width: nothing is written, and the core
\* calls close all the same.
OpenRefused ==
  /\ pc = "initialised" /\ pc' = "failed" /\ trouble' = "open"
  /\ UNCHANGED <<fixed, file, buffer, total, result, flushed, taken>>
-----------------------------------------------------------------------------
(* ao_wav_play, ao_au_play, ao_raw_play. *)

Play(n) ==
  /\ pc = "ready" /\ taken + n <= MaxBytes /\ pc' = "play"
  /\ pend' = pend \o Bytes(n) /\ taken' = taken + n /\ before' = Tell
  /\ UNCHANGED <<fixed, file, at, trouble, total, result, flushed>>

Played ==
  /\ pc = "play" /\ Len(pend) <= Buffered /\ pc' = "ready"
  /\ UNCHANGED <<fixed, file, buffer, trouble, total, result, flushed, taken>>

\* fwrite is short, in open or in ao_play: the disk is full.  The buffer keeps
\* what earlier calls put there and k cells in all, the rest is lost; the
\* application closes the device.
FwriteFails(k) ==
  /\ pc \in {"header", "play"} /\ k < Len(pend) /\ k <= Buffered /\ at + k >= before
  /\ pc' = "failed" /\ pend' = SubSeq(pend, 1, k) /\ trouble' = IF pc = "header" THEN "open" ELSE "play"
  /\ UNCHANGED <<fixed, file, at, before, total, result, flushed, taken>>
-----------------------------------------------------------------------------
(* ao_wav_close, ao_au_close, ao_raw_close. *)

SeekTo(stage) ==
  /\ seekable /\ pc \in {"ready", "failed"} /\ pc' = stage /\ total' = Tell
  /\ UNCHANGED <<fixed, file, buffer, trouble, result, flushed, taken>>

\* close leaves the lengths as they are and returns r.
Leave(r) ==
  /\ pc \in {"ready", "failed"} /\ pc' = "fclose" /\ result' = r
  /\ UNCHANGED <<fixed, file, buffer, trouble, total, flushed, taken>>

\* ftell fails on a pipe: wav cannot do without its lengths.
WavClose == driver = "wav" /\ (SeekTo("riff") \/ (~seekable /\ Leave(0)))

\* au can, and leaves an empty file alone.
AuClose ==
  /\ driver = "au"
  /\ \/ Tell > 0 /\ SeekTo("size")
     \/ ~seekable /\ Leave(1)
     \/ Tell = 0 /\ Leave(1)

RawClose == driver = "raw" /\ Leave(1)

\* Seeded fault: a length beyond 32 bits.
FaultLength(field) == total - Uncounted(field)

Length(field) == (total - Uncounted(field)) % Modulus

\* fseek has written the buffer out, and the length goes to the buffer.
WriteLength(field) ==
  /\ pend = <<>> /\ at' = field /\ pend' = <<Cell("length", Length(field))>>
  /\ UNCHANGED <<fixed, file, before, trouble, total, flushed, taken>>

\* riff.len.
WavWriteRiff ==
  /\ pc = "riff" /\ WriteLength(1) /\ pc' = "data" /\ UNCHANGED result

\* Seeded fault: data.len goes behind the header.
FaultWriteData ==
  /\ pc = "data" /\ WriteLength(HeaderLen) /\ pc' = "fclose" /\ result' = 1

WavWriteData ==
  /\ pc = "data" /\ WriteLength(3) /\ pc' = "fclose" /\ result' = 1

AuWriteSize ==
  /\ pc = "size" /\ WriteLength(1) /\ pc' = "fclose" /\ result' = 1

\* fseek cannot write the buffer out, or fwrite fails: wav says so, au does not.
WavCloseFails ==
  /\ pc \in {"riff", "data"} /\ pc' = "fclose" /\ result' = 0
  /\ UNCHANGED <<fixed, file, buffer, trouble, total, flushed, taken>>

AuCloseFails ==
  /\ pc = "size" /\ pc' = "fclose" /\ result' = 1
  /\ UNCHANGED <<fixed, file, buffer, trouble, total, flushed, taken>>

\* fclose, which ao_close does not look at.
Fclose ==
  /\ pc = "fclose" /\ pc' = "closed" /\ pend' = <<>>
  /\ flushed' = (pend = <<>>)
  /\ UNCHANGED <<fixed, file, at, before, trouble, total, result, taken>>
-----------------------------------------------------------------------------
Open == WavOpen \/ AuOpen \/ RawOpen \/ HeaderWritten \/ OpenRefused

Close ==
  \/ WavClose \/ WavWriteRiff \/ WavWriteData \/ WavCloseFails
  \/ AuClose \/ AuWriteSize \/ AuCloseFails \/ RawClose \/ Fclose

Next ==
  \/ WriteOut \/ Open \/ (\E n \in Chunks : Play(n)) \/ Played
  \/ (\E k \in 0 .. Buffered : FwriteFails(k)) \/ Close

Spec == Init /\ [][Next]_vars
-----------------------------------------------------------------------------
(* What should hold. *)

TypeOK ==
  /\ driver \in Drivers /\ seekable \in BOOLEAN /\ base \in Starts \cup {0}
  /\ pc \in {"initialised", "header", "ready", "play", "failed", "riff", "data",
             "size", "fclose", "closed"}
  /\ disk \in [Offsets -> Cells] /\ size \in Nat /\ at \in Nat /\ before \in Nat /\ total \in Nat
  /\ pend \in Seq(Cells) /\ taken \in 0 .. MaxBytes
  /\ trouble \in {"none", "open", "play"} /\ flushed \in BOOLEAN /\ result \in {-1, 0, 1}
  /\ \A p \in Offsets : disk[p].what = "length" => disk[p].value < Modulus

\* Our stream is a file of its own, and the driver's open did not fail.
OwnFile == base = 0 /\ seekable /\ trouble # "open"

\* What a length field should say: riff.len counts all that is behind it, the
\* others the samples in the file.
Counted(field) ==
  IF driver = "wav" /\ field = 1 THEN size - (field + 1)
  ELSE Cardinality({p \in Offsets : disk[p].what = "byte"})

\* At any moment, a crash included, a length field in the file is the guess or
\* counts what is in the file, modulo 2^32: the samples are on the disk before
\* the length that counts them.  When close has returned 1 and fclose wrote
\* the rest, wav's lengths are no guesses ("Wav header correct").
HeaderIsTrue ==
  OwnFile =>
    /\ \A f \in Fields : disk[f].what = "length" => disk[f].value = Counted(f) % Modulus
    /\ pc = "closed" /\ result = 1 /\ flushed /\ driver = "wav" =>
         \A f \in Fields : disk[f].what = "length"

\* The samples in the file: what lies behind the header, 0 where it is none.
Stored ==
  LET first == base + HeaderLen
  IN [i \in 1 .. (IF size > first THEN size - first ELSE 0) |->
       LET cell == disk[first + i - 1] IN IF cell.what = "byte" THEN cell.value ELSE 0]

Fifo == INSTANCE SampleFifo WITH
  Devices <- {1}, Capacity <- MaxBytes + 1,
  taken <- [d \in {1} |-> taken], out <- [d \in {1} |-> Stored]

\* The samples reach the file in order and none is lost again, wherever the
\* stream starts in its file; all are there when no call failed.
DeliversInOrder ==
  /\ Fifo!FifoSpec
  /\ [](pc = "closed" /\ trouble = "none" /\ flushed => Len(Stored) = taken)

\* ao_close returns 1 only when the file is complete, if no ao_play has said
\* otherwise.
OneMeansWritten == pc = "closed" /\ trouble = "none" /\ result = 1 => Len(Stored) = taken

\* What standard output had in its file before our stream is left alone.
EarlierContentKept == \A p \in Offsets : p < base => disk[p].what = "earlier"
=============================================================================
