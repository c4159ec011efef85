-------------------------- MODULE FileWriter_proofs --------------------------
(***************************************************************************)
(* Proofs about FileWriter, for a buffer of any size, any number of bytes, *)
(* any limit of a length field and wherever a stream starts in its file:   *)
(* type correctness, that at any moment a length in the file is the guess  *)
(* or counts what is in the file, and that the samples reach it in order.  *)
(*                                                                         *)
(* The invariants compare the file and the buffer with the file as it      *)
(* should become: until close goes back to correct a length, the buffer    *)
(* goes on where the file ends.                                            *)
(***************************************************************************)
EXTENDS FileWriter, SequenceTheorems, FiniteSetTheorems, TLAPS

TypeInv ==
  /\ TypeOK
  /\ \A i \in 1 .. Len(pend) : pend[i].what = "length" => pend[i].value < Modulus

\* What a file holds before its lengths are corrected.
Header == CASE driver = "wav" -> WavHeader [] driver = "au" -> AuHeader [] driver = "raw" -> <<>>

Content(p) == IF p < HeaderLen THEN Header[p + 1] ELSE Cell("byte", p - HeaderLen + 1)

\* The buffer goes on where the file ends, or corrects a length.
Onward == at = size /\ \A i \in 1 .. Len(pend) : pend[i] = Content(at + i - 1)
Correction(f) == at = f /\ pend = <<Cell("length", Length(f))>>

\* What ftell told close is the size of the file.
LengthKnown == size = total /\ HeaderLen <= size /\ pc \in {"data", "fclose", "closed"}

\* No length has been corrected yet.
Pristine == \A p \in Offsets : p < size => disk[p] = Content(p)

LayoutInv ==
  /\ size <= HeaderLen + taken
  /\ \A p \in Offsets : p >= size => disk[p] = Cell("hole", 0)
  /\ \A p \in Offsets : p < size =>
       \/ disk[p] = Content(p)
       \/ p \in Fields /\ LengthKnown /\ disk[p] = Cell("length", Length(p))

\* The stages of open and play, and of close up to its first fseek.
GrowingInv ==
  /\ pc \in {"initialised", "header", "ready", "play", "failed", "riff", "size"} => Onward
  /\ Onward => Tell <= HeaderLen + taken /\ (pend # <<>> => Pristine)
  /\ pc = "initialised" => pend = <<>> /\ size = 0 /\ taken = 0
  /\ pc \in {"header", "ready", "play"} => Tell = HeaderLen + taken
  /\ pc = "header" => taken = 0
  /\ pc = "play" => HeaderLen <= before
  /\ pc = "failed" => HeaderLen <= Tell
  /\ pc \in {"riff", "size"} => total = Tell /\ HeaderLen <= total

\* The stages of close that correct lengths.
CorrectingInv ==
  /\ pc = "riff" => driver = "wav"
  /\ pc = "size" => driver = "au"
  /\ pc = "data" =>
       /\ LengthKnown /\ driver = "wav"
       /\ (pend = <<>> /\ disk[1].what = "length") \/ Correction(1)
  /\ pc = "fclose" =>
       /\ pend = <<>> \/ Onward \/ (\E f \in Fields : Correction(f) /\ LengthKnown)
       /\ driver = "wav" /\ result = 1 =>
            /\ LengthKnown /\ disk[1].what = "length"
            /\ (pend = <<>> /\ disk[3].what = "length") \/ Correction(3)
  /\ pc = "closed" /\ driver = "wav" /\ result = 1 /\ flushed =>
       disk[1].what = "length" /\ disk[3].what = "length"

\* After a failed open there is only close.
TroubleInv == trouble = "open" => pc \notin {"initialised", "header", "ready", "play"}

FileInv == OwnFile => LayoutInv /\ GrowingInv /\ CorrectingInv

IInv == TypeInv /\ TroubleInv /\ FileInv
-----------------------------------------------------------------------------
(* Cells and lengths. *)

\* What the assumption and the types say of numbers.
LEMMA Numbers ==
  /\ Modulus \in Nat \ {0} /\ Buffered \in Nat \ {0} /\ MaxBytes \in Nat
  /\ MaxStart \in Nat /\ Starts \subseteq 0 .. MaxStart /\ Starts \subseteq Nat
  /\ Chunks \subseteq Nat \ {0}
  /\ Drivers \subseteq {"wav", "au", "raw"}
BY FileAssumption DEF FileAssumption

\* The values a cell may have.
LEMMA ValueRange ==
  \A v \in Nat : v <= MaxBytes \/ v <= Modulus => v \in Values
BY Numbers DEF Values

\* The cells that the actions write.
LEMMA CellsWritten ==
  /\ \A w \in {"hole", "earlier", "id", "guess", "length", "byte"}, v \in Values :
       Cell(w, v) \in Cells /\ Cell(w, v).what = w /\ Cell(w, v).value = v
  /\ {0, 1} \subseteq Values
  /\ \A v \in 0 .. MaxBytes : v \in Values
  /\ \A v \in 0 .. Modulus - 1 : v \in Values
<1>1. \A w \in {"hole", "earlier", "id", "guess", "length", "byte"}, v \in Values :
        Cell(w, v) \in Cells /\ Cell(w, v).what = w /\ Cell(w, v).value = v
  BY DEF Cell, Cells
<1>2. {0, 1} \subseteq Values
  BY Numbers, ValueRange
<1>3. \A v \in 0 .. MaxBytes : v \in Values
  BY Numbers, ValueRange
<1>4. \A v \in 0 .. Modulus - 1 : v \in Values
  BY Numbers, ValueRange
<1>5. QED
  BY <1>1, <1>2, <1>3, <1>4

\* A remainder is less than its divisor.
LEMMA Modulo == \A a \in Int, b \in Nat \ {0} : a % b \in 0 .. b - 1
OBVIOUS

\* Headers are sequences of cells without a length.
LEMMA Headers ==
  /\ WavHeader \in Seq(Cells) /\ Len(WavHeader) = 4
  /\ AuHeader \in Seq(Cells) /\ Len(AuHeader) = 3
  /\ \A i \in 1 .. 4 : WavHeader[i].what \in {"id", "guess"}
  /\ \A i \in 1 .. 3 : AuHeader[i].what \in {"id", "guess"}
<1>1. /\ Cell("id", 0) \in Cells /\ Cell("guess", 0) \in Cells /\ Cell("id", 1) \in Cells
      /\ Cell("id", 0).what = "id" /\ Cell("guess", 0).what = "guess" /\ Cell("id", 1).what = "id"
  BY CellsWritten
<1>2. QED
  BY <1>1 DEF WavHeader, AuHeader

\* What a driver's header is.
LEMMA HeaderShape ==
  ASSUME driver \in Drivers
  PROVE  /\ HeaderLen \in 0 .. 4 /\ Header \in Seq(Cells) /\ Len(Header) = HeaderLen
         /\ \A i \in 1 .. HeaderLen : Header[i].what \in {"id", "guess"}
         /\ Fields \subseteq 0 .. HeaderLen - 1
         /\ driver = "wav" => HeaderLen = 4 /\ Fields = {1, 3}
         /\ driver = "au" => HeaderLen = 3 /\ Fields = {1}
         /\ driver = "raw" => HeaderLen = 0 /\ Fields = {}
<1>1. CASE driver = "wav"
  BY <1>1, Headers DEF HeaderLen, Header, Fields
<1>2. CASE driver = "au"
  BY <1>2, Headers DEF HeaderLen, Header, Fields
<1>3. CASE driver = "raw"
  BY <1>3 DEF HeaderLen, Header, Fields
<1>4. QED
  BY <1>1, <1>2, <1>3, Numbers

\* A length is a cell, and what it does not count is part of the header.
LEMMA Lengths ==
  ASSUME driver \in Drivers, total \in Nat, NEW f \in {1, 3}
  PROVE  /\ Uncounted(f) \in 0 .. 4 /\ Length(f) \in 0 .. Modulus - 1
         /\ Cell("length", Length(f)) \in Cells
         /\ Cell("length", Length(f)).what = "length"
         /\ Cell("length", Length(f)).value = Length(f)
<1>1. Uncounted(f) \in 0 .. 4
  BY HeaderShape DEF Uncounted
<1>2. Length(f) \in 0 .. Modulus - 1
  <2>1. total - Uncounted(f) \in Int
    BY <1>1
  <2>2. QED
    BY <2>1, Modulo, Numbers DEF Length
<1>3. QED
  BY <1>1, <1>2, CellsWritten

\* What a driver plays is bytes.
LEMMA BytesPlayed ==
  ASSUME taken \in Nat, NEW n \in Nat, taken + n <= MaxBytes
  PROVE  /\ Bytes(n) \in Seq(Cells) /\ Len(Bytes(n)) = n
         /\ \A i \in 1 .. n : Bytes(n)[i] = Cell("byte", taken + i) /\ Bytes(n)[i].what = "byte"
<1>1. \A i \in 1 .. n : Cell("byte", taken + i) \in Cells /\ Cell("byte", taken + i).what = "byte"
  BY Numbers, CellsWritten
<1>2. QED
  BY <1>1 DEF Bytes

\* Before a step, a sequence of cells.
LEMMA BufferShape ==
  ASSUME pend \in Seq(Cells)
  PROVE  /\ Len(pend) \in Nat /\ (pend # <<>> => Len(pend) > 0)
         /\ \A i \in 1 .. Len(pend) : pend[i] \in Cells
         /\ pend # <<>> =>
              /\ Head(pend) = pend[1] /\ Tail(pend) \in Seq(Cells)
              /\ Len(Tail(pend)) = Len(pend) - 1
              /\ \A i \in 1 .. Len(Tail(pend)) : Tail(pend)[i] = pend[i + 1]
         /\ \A k \in 0 .. Len(pend) :
              /\ SubSeq(pend, 1, k) \in Seq(Cells) /\ Len(SubSeq(pend, 1, k)) = k
              /\ \A i \in 1 .. k : SubSeq(pend, 1, k)[i] = pend[i]
<1>1. Len(pend) \in Nat /\ (pend # <<>> => Len(pend) > 0)
  BY EmptySeq, LenProperties
<1>2. \A i \in 1 .. Len(pend) : pend[i] \in Cells
  BY ElementOfSeq
<1>3. pend # <<>> =>
        /\ Head(pend) = pend[1] /\ Tail(pend) \in Seq(Cells)
        /\ Len(Tail(pend)) = Len(pend) - 1
        /\ \A i \in 1 .. Len(Tail(pend)) : Tail(pend)[i] = pend[i + 1]
  BY HeadTailProperties
<1>4. ASSUME NEW k \in 0 .. Len(pend)
      PROVE  /\ SubSeq(pend, 1, k) \in Seq(Cells) /\ Len(SubSeq(pend, 1, k)) = k
             /\ \A i \in 1 .. k : SubSeq(pend, 1, k)[i] = pend[i]
  <2>1. 1 \in 1 .. Len(pend) + 1 /\ k \in (1 - 1) .. Len(pend)
    BY <1>1
  <2>2. QED
    BY <1>1, <2>1, SubSeqProperties
<1>5. QED
  BY <1>1, <1>2, <1>3, <1>4
-----------------------------------------------------------------------------
(* Types. *)

\* The initial states.
LEMMA TypeInit == Init => TypeInv
<1> SUFFICES ASSUME Init PROVE TypeInv
  OBVIOUS
<1>1. base \in Nat /\ base \in Starts \cup {0}
  BY Numbers DEF Init
<1>2. Cell("earlier", 0) \in Cells /\ Cell("hole", 0) \in Cells
      /\ Cell("earlier", 0).what = "earlier" /\ Cell("hole", 0).what = "hole"
  BY CellsWritten
<1>3. disk \in [Offsets -> Cells] /\ \A p \in Offsets : disk[p].what # "length"
  BY <1>2 DEF Init
<1>4. seekable \in BOOLEAN /\ flushed \in BOOLEAN
  BY Zenon DEF Init
<1>5. QED
  BY <1>1, <1>3, <1>4, Numbers DEF Init, TypeInv, TypeOK

\* What the types say of the variables before a step.
LEMMA Types ==
  ASSUME TypeInv
  PROVE  /\ driver \in Drivers /\ size \in Nat /\ at \in Nat /\ before \in Nat /\ total \in Nat
         /\ taken \in 0 .. MaxBytes /\ taken \in Nat /\ pend \in Seq(Cells) /\ Len(pend) \in Nat
         /\ disk \in [Offsets -> Cells] /\ Tell \in Nat
BY Numbers, LenProperties DEF TypeInv, TypeOK, Tell

\* Steps that write nothing, neither to the buffer nor to the file.
LEMMA QuietTypes ==
  ASSUME TypeInv, UNCHANGED <<fixed, file, buffer, taken>>, trouble' \in {"none", "open", "play"},
         pc' \in {"initialised", "header", "ready", "play", "failed", "riff", "data", "size",
                  "fclose", "closed"},
         total' \in Nat, result' \in {-1, 0, 1}, flushed' = flushed
  PROVE  TypeInv'
<1>1. flushed' \in BOOLEAN /\ seekable' \in BOOLEAN
  BY Zenon DEF TypeInv, TypeOK, fixed
<1>2. QED
  BY <1>1 DEF TypeInv, TypeOK, fixed, file, buffer

\* Steps that change the buffer only.
LEMMA BufferTypes ==
  ASSUME TypeInv, UNCHANGED <<fixed, file, total>>, trouble' \in {"none", "open", "play"},
         pc' \in {"initialised", "header", "ready", "play", "failed", "riff", "data", "size",
                  "fclose", "closed"},
         result' \in {-1, 0, 1}, flushed' \in BOOLEAN, taken' \in 0 .. MaxBytes,
         pend' \in Seq(Cells), at' \in Nat, before' \in Nat,
         \A i \in 1 .. Len(pend') : pend'[i].what = "length" => pend'[i].value < Modulus
  PROVE  TypeInv'
<1>1. flushed' \in BOOLEAN /\ seekable' \in BOOLEAN
  BY Zenon DEF TypeInv, TypeOK, fixed
<1>2. QED
  BY <1>1 DEF TypeInv, TypeOK, fixed, file

\* The first cell of the buffer reaches the file.
LEMMA WriteOutTypes == ASSUME TypeInv, WriteOut PROVE TypeInv'
<1>1. /\ pend # <<>> /\ disk' = [disk EXCEPT ![at] = Head(pend)] /\ pend' = Tail(pend)
      /\ at' = at + 1 /\ (size' = at + 1 \/ size' = size)
      /\ UNCHANGED <<fixed, before, pc, trouble, total, result, flushed, taken>>
  BY DEF WriteOut
<1>2. /\ Head(pend) = pend[1] /\ Head(pend) \in Cells /\ 1 \in 1 .. Len(pend)
      /\ Tail(pend) \in Seq(Cells) /\ Len(Tail(pend)) = Len(pend) - 1 /\ Len(pend) \in Nat
      /\ \A i \in 1 .. Len(Tail(pend)) : Tail(pend)[i] = pend[i + 1]
  BY <1>1, Types, BufferShape
<1>3. disk' \in [Offsets -> Cells]
  BY <1>1, <1>2, Types
<1>4. \A p \in Offsets : disk'[p].what = "length" => disk'[p].value < Modulus
  <2> SUFFICES ASSUME NEW p \in Offsets, disk'[p].what = "length" PROVE disk'[p].value < Modulus
    OBVIOUS
  <2>1. CASE p = at
    BY <1>1, <1>2, <2>1, Types DEF TypeInv
  <2>2. CASE p # at
    BY <1>1, <2>2, Types DEF TypeInv, TypeOK
  <2>3. QED
    BY <2>1, <2>2
<1>5. \A i \in 1 .. Len(pend') : pend'[i].what = "length" => pend'[i].value < Modulus
  <2> SUFFICES ASSUME NEW i \in 1 .. Len(Tail(pend)), Tail(pend)[i].what = "length"
               PROVE  Tail(pend)[i].value < Modulus
    BY <1>1
  <2>1. i + 1 \in 1 .. Len(pend) /\ Tail(pend)[i] = pend[i + 1]
    BY <1>2
  <2>2. QED
    BY <2>1 DEF TypeInv
<1>6. size' \in Nat /\ at' \in Nat
  BY <1>1, Types
<1>7. seekable' \in BOOLEAN /\ flushed' \in BOOLEAN
  BY <1>1, Zenon DEF TypeInv, TypeOK, fixed
<1>8. QED
  BY <1>1, <1>2, <1>3, <1>4, <1>5, <1>6, <1>7 DEF TypeInv, TypeOK, fixed

\* A header goes to the buffer.
LEMMA HeaderTypes ==
  ASSUME TypeInv, NEW h \in {WavHeader, AuHeader, <<>>}, WriteHeader(h)
  PROVE  TypeInv'
<1>1. h \in Seq(Cells) /\ \A i \in 1 .. Len(h) : h[i].what # "length"
  <2>1. CASE h = WavHeader
    BY <2>1, Headers
  <2>2. CASE h = AuHeader
    BY <2>2, Headers
  <2>3. CASE h = <<>>
    BY <2>3
  <2>4. QED
    BY <2>1, <2>2, <2>3
<1>2. /\ pc' = "header" /\ pend' = h
      /\ UNCHANGED <<fixed, file, at, before, trouble, total, result, flushed, taken>>
  BY DEF WriteHeader
<1>3. trouble \in {"none", "open", "play"} /\ result \in {-1, 0, 1} /\ taken \in 0 .. MaxBytes
      /\ at \in Nat /\ before \in Nat
  BY DEF TypeInv, TypeOK
<1>4. flushed' \in BOOLEAN
  BY <1>2, Zenon DEF TypeInv, TypeOK
<1>5. QED
  BY <1>1, <1>2, <1>3, <1>4, BufferTypes

\* ao_play's bytes go to the buffer.
LEMMA PlayTypes == ASSUME TypeInv, NEW n \in Chunks, Play(n) PROVE TypeInv'
<1>1. /\ taken + n <= MaxBytes /\ pc' = "play" /\ pend' = pend \o Bytes(n) /\ taken' = taken + n
      /\ before' = Tell /\ UNCHANGED <<fixed, file, at, trouble, total, result, flushed>>
  BY DEF Play
<1>2. n \in Nat /\ Bytes(n) \in Seq(Cells) /\ Len(Bytes(n)) = n
      /\ \A i \in 1 .. n : Bytes(n)[i].what = "byte"
  BY <1>1, Numbers, Types, BytesPlayed
<1>3. /\ pend \o Bytes(n) \in Seq(Cells) /\ Len(pend \o Bytes(n)) = Len(pend) + n
      /\ \A i \in 1 .. Len(pend) + n : (pend \o Bytes(n))[i] =
           IF i <= Len(pend) THEN pend[i] ELSE Bytes(n)[i - Len(pend)]
  BY <1>2, Types, ConcatProperties
<1>4. \A i \in 1 .. Len(pend') : pend'[i].what = "length" => pend'[i].value < Modulus
  <2> SUFFICES ASSUME NEW i \in 1 .. Len(pend) + n, pend'[i].what = "length"
               PROVE  pend'[i].value < Modulus
    BY <1>1, <1>3
  <2>1. CASE i <= Len(pend)
    <3>1. i \in 1 .. Len(pend) /\ pend'[i] = pend[i]
      BY <1>1, <1>3, <2>1, Types
    <3>2. QED
      BY <3>1 DEF TypeInv
  <2>2. CASE ~(i <= Len(pend))
    <3>1. i - Len(pend) \in 1 .. n /\ pend'[i] = Bytes(n)[i - Len(pend)]
      BY <1>1, <1>2, <1>3, <2>2, Types
    <3>2. QED
      BY <1>2, <3>1
  <2>3. QED
    BY <2>1, <2>2
<1>5. taken' \in 0 .. MaxBytes
  BY <1>1, <1>2, Types, Numbers
<1>6. trouble \in {"none", "open", "play"} /\ result \in {-1, 0, 1} /\ at \in Nat
  BY DEF TypeInv, TypeOK
<1>7. flushed' \in BOOLEAN
  BY <1>1, Zenon DEF TypeInv, TypeOK
<1>8. QED
  BY <1>1, <1>3, <1>4, <1>5, <1>6, <1>7, Types, BufferTypes

\* A short fwrite keeps a part of the buffer.
LEMMA FailTypes == ASSUME TypeInv, NEW k \in 0 .. Buffered, FwriteFails(k) PROVE TypeInv'
<1>1. /\ k < Len(pend) /\ pc' = "failed" /\ pend' = SubSeq(pend, 1, k)
      /\ trouble' \in {"open", "play"}
      /\ UNCHANGED <<fixed, file, at, before, total, result, flushed, taken>>
  BY DEF FwriteFails
<1>2. k \in 0 .. Len(pend)
  BY <1>1, Numbers, Types
<1>3. /\ pend' \in Seq(Cells) /\ Len(pend') = k /\ \A i \in 1 .. k : pend'[i] = pend[i]
  BY <1>1, <1>2, Types, BufferShape
<1>4. \A i \in 1 .. k : i \in 1 .. Len(pend)
  BY <1>2
<1>5. \A i \in 1 .. Len(pend') : pend'[i].what = "length" => pend'[i].value < Modulus
  BY <1>3, <1>4 DEF TypeInv
<1>6. result \in {-1, 0, 1} /\ taken \in 0 .. MaxBytes /\ at \in Nat /\ before \in Nat
  BY DEF TypeInv, TypeOK
<1>7. flushed' \in BOOLEAN
  BY <1>1, Zenon DEF TypeInv, TypeOK
<1>8. QED
  BY <1>1, <1>3, <1>5, <1>6, <1>7, BufferTypes

\* close writes a length to the buffer.
LEMMA LengthTypes ==
  ASSUME TypeInv, NEW f \in {1, 3}, WriteLength(f), pc' \in {"data", "fclose"},
         result' \in {-1, 0, 1}
  PROVE  TypeInv'
<1>1. /\ at' = f /\ pend' = <<Cell("length", Length(f))>>
      /\ UNCHANGED <<fixed, file, before, trouble, total, flushed, taken>>
  BY DEF WriteLength
<1>2. /\ Cell("length", Length(f)) \in Cells /\ Cell("length", Length(f)).value = Length(f)
      /\ Length(f) \in 0 .. Modulus - 1
  BY Types, Lengths
<1>3. Length(f) < Modulus
  BY <1>2, Numbers
<1>4. pend' \in Seq(Cells) /\ \A i \in 1 .. Len(pend') : pend'[i].value < Modulus
  BY <1>1, <1>2, <1>3
<1>5. trouble \in {"none", "open", "play"} /\ taken \in 0 .. MaxBytes /\ before \in Nat /\ f \in Nat
  BY DEF TypeInv, TypeOK
<1>6. flushed' \in BOOLEAN
  BY <1>1, Zenon DEF TypeInv, TypeOK
<1>7. QED
  BY <1>1, <1>4, <1>5, <1>6, BufferTypes

\* fclose empties the buffer or loses it.
LEMMA FcloseTypes == ASSUME TypeInv, Fclose PROVE TypeInv'
<1>1. /\ pc' = "closed" /\ pend' = <<>> /\ flushed' = (pend = <<>>)
      /\ UNCHANGED <<fixed, file, at, before, trouble, total, result, taken>>
  BY DEF Fclose
<1>2. flushed' \in BOOLEAN
  BY <1>1, Zenon
<1>3. pend' \in Seq(Cells) /\ \A i \in 1 .. Len(pend') : FALSE
  BY <1>1
<1>4. trouble \in {"none", "open", "play"} /\ taken \in 0 .. MaxBytes /\ before \in Nat /\ at \in Nat
      /\ result \in {-1, 0, 1}
  BY DEF TypeInv, TypeOK
<1>5. QED
  BY <1>1, <1>2, <1>3, <1>4, BufferTypes

\* Every step keeps the types.
LEMMA TypeStep == ASSUME TypeInv, [Next]_vars PROVE TypeInv'
<1>1. trouble \in {"none", "open", "play"} /\ result \in {-1, 0, 1} /\ Tell \in Nat /\ total \in Nat
      /\ pc \in {"initialised", "header", "ready", "play", "failed", "riff", "data", "size",
                 "fclose", "closed"}
  BY Types DEF TypeInv, TypeOK
<1>2. CASE WriteOut
  BY <1>2, WriteOutTypes
<1>3. CASE Open
  <2>1. CASE WavOpen \/ AuOpen \/ RawOpen
    BY <2>1, HeaderTypes DEF WavOpen, AuOpen, RawOpen
  <2>2. CASE HeaderWritten \/ OpenRefused
    BY <1>1, <2>2, QuietTypes DEF HeaderWritten, OpenRefused
  <2>3. QED
    BY <1>3, <2>1, <2>2 DEF Open
<1>4. ASSUME NEW n \in Chunks, Play(n) PROVE TypeInv'
  BY <1>4, PlayTypes
<1>5. CASE Played
  BY <1>1, <1>5, QuietTypes DEF Played
<1>6. ASSUME NEW k \in 0 .. Buffered, FwriteFails(k) PROVE TypeInv'
  BY <1>6, FailTypes
<1>7. CASE Close
  <2>1. CASE WavClose \/ AuClose \/ RawClose
    BY <1>1, <2>1, QuietTypes DEF WavClose, AuClose, RawClose, SeekTo, Leave
  <2>2. CASE WavWriteRiff \/ WavWriteData \/ AuWriteSize
    BY <1>1, <2>2, LengthTypes DEF WavWriteRiff, WavWriteData, AuWriteSize
  <2>3. CASE WavCloseFails \/ AuCloseFails
    BY <1>1, <2>3, QuietTypes DEF WavCloseFails, AuCloseFails
  <2>4. CASE Fclose
    BY <2>4, FcloseTypes
  <2>5. QED
    BY <1>7, <2>1, <2>2, <2>3, <2>4 DEF Close
<1>8. CASE UNCHANGED vars
  BY <1>1, <1>8, QuietTypes DEF vars
<1>9. QED
  BY <1>2, <1>3, <1>4, <1>5, <1>6, <1>7, <1>8 DEF Next
-----------------------------------------------------------------------------
(* The file and the buffer.                                                *)

\* The driver decides the header, and with ftell's answer the lengths.
LEMMA SameDriver ==
  ASSUME driver' = driver
  PROVE  /\ HeaderLen' = HeaderLen /\ Fields' = Fields /\ Header' = Header
         /\ \A p : Content(p)' = Content(p)
         /\ total' = total => \A f : Length(f)' = Length(f)
<1>1. HeaderLen' = HeaderLen /\ Fields' = Fields
  BY DEF HeaderLen, Fields
<1>2. Header' = Header
  BY DEF Header
<1>3. \A p : Content(p)' = Content(p)
  BY <1>1, <1>2 DEF Content
<1>4. \A f : Uncounted(f)' = Uncounted(f)
  BY <1>1 DEF Uncounted
<1>5. total' = total => \A f : Length(f)' = Length(f)
  BY <1>4 DEF Length
<1>6. QED
  BY <1>1, <1>2, <1>3, <1>5

\* What the buffer holds, before and after a step.
LEMMA Positions ==
  ASSUME TypeInv
  PROVE  /\ HeaderLen \in 0 .. 4 /\ size \in Nat /\ at \in Nat /\ taken \in 0 .. MaxBytes
         /\ Len(pend) \in Nat /\ Tell = at + Len(pend) /\ MaxBytes \in Nat
         /\ Fields \subseteq 0 .. HeaderLen - 1 /\ Fields \subseteq {1, 3}
         /\ MaxStart \in Nat /\ Offsets = 0 .. MaxStart + MaxBytes + 4
BY Types, Numbers, HeaderShape DEF Tell, Offsets

\* Until ftell's answer is known no length is in the file.
LEMMA NoLengthYet ==
  ASSUME LayoutInv, ~LengthKnown
  PROVE  Pristine
BY DEF LayoutInv, Pristine

\* Steps that leave the file alone.
LEMMA SameFile ==
  ASSUME LayoutInv, TypeInv, driver' = driver, UNCHANGED file, taken' \in Nat, taken <= taken',
         Pristine \/ (LengthKnown' /\ total' = total)
  PROVE  LayoutInv'
<1>1. /\ HeaderLen' = HeaderLen /\ Fields' = Fields /\ (\A p : Content(p)' = Content(p))
      /\ total' = total => \A f : Length(f)' = Length(f)
  BY SameDriver
<1>2. size' = size /\ disk' = disk
  BY DEF file
<1>3. size' <= (HeaderLen + taken)'
  BY <1>1, <1>2, Positions DEF LayoutInv
<1>4. CASE Pristine
  BY <1>1, <1>2, <1>3, <1>4 DEF LayoutInv, Pristine
<1>5. CASE LengthKnown' /\ total' = total
  BY <1>1, <1>2, <1>3, <1>5 DEF LayoutInv
<1>6. QED
  BY <1>4, <1>5

\* A cell that continues the file.
LEMMA WriteOnward ==
  ASSUME TypeInv, OwnFile, LayoutInv, GrowingInv, CorrectingInv, WriteOut, Onward
  PROVE  (LayoutInv /\ GrowingInv /\ CorrectingInv)'
<1>1. /\ pc \in {"header", "play", "riff", "data", "size", "fclose"} /\ pend # <<>>
      /\ disk' = [disk EXCEPT ![at] = Head(pend)] /\ size' = (IF at >= size THEN at + 1 ELSE size)
      /\ pend' = Tail(pend) /\ at' = at + 1
      /\ driver' = driver /\ UNCHANGED <<before, pc, total, result, taken>>
  BY DEF WriteOut, fixed
<1>2. /\ Head(pend) = pend[1] /\ Len(pend) > 0 /\ Len(Tail(pend)) = Len(pend) - 1
      /\ \A i \in 1 .. Len(Tail(pend)) : Tail(pend)[i] = pend[i + 1]
  BY <1>1, Types, BufferShape
<1>3. /\ at = size /\ Head(pend) = Content(size) /\ Pristine /\ Tell <= HeaderLen + taken
  <2>1. pend[1] = Content(at + 1 - 1) /\ at + 1 - 1 = at /\ at = size
    BY <1>2, Positions DEF Onward
  <2>2. QED
    BY <1>1, <1>2, <2>1 DEF GrowingInv
<1>4. /\ HeaderLen' = HeaderLen /\ Fields' = Fields /\ (\A p : Content(p)' = Content(p))
      /\ \A f : Length(f)' = Length(f)
  BY <1>1, SameDriver
<1>5. /\ size' = size + 1 /\ at' = size' /\ size + 1 <= HeaderLen + taken /\ size \in Offsets
      /\ Tell' = Tell /\ Len(pend') = Len(pend) - 1
  <2>1. PICK z \in Nat, n \in Nat, h \in 0 .. 4, t \in 0 .. MaxBytes :
          z = size /\ n = Len(pend) /\ h = HeaderLen /\ t = taken
    BY Positions
  <2>2. n > 0 /\ Len(pend') = n - 1 /\ at = z /\ size' = z + 1 /\ at' = z + 1
    BY <1>1, <1>2, <1>3, <2>1
  <2>3. Tell' = at' + Len(pend') /\ Tell = z + n
    BY <1>3, <2>1 DEF Tell
  <2>4. Tell' = Tell /\ z + n <= h + t
    BY <1>3, <2>1, <2>2, <2>3
  <2>5. z + 1 <= h + t /\ MaxStart \in Nat /\ MaxBytes \in Nat
    BY <2>1, <2>2, <2>4, Positions
  <2>6. z \in 0 .. MaxStart + MaxBytes + 4
    BY <2>1, <2>5
  <2>7. QED
    BY <2>1, <2>2, <2>4, <2>5, <2>6 DEF Offsets
<1>6. \A p \in Offsets : disk'[p] = IF p = size THEN Content(size) ELSE disk[p]
  BY <1>1, <1>3, <1>5, Types
<1>7. Pristine'
  <2> SUFFICES ASSUME NEW p \in Offsets, p < size' PROVE disk'[p] = Content(p)
    BY <1>4 DEF Pristine, Offsets
  <2>1. p = size \/ p < size
    BY <1>5, Positions
  <2>2. QED
    BY <1>3, <1>6, <2>1 DEF Pristine
<1>8. LayoutInv'
  <2>1. \A p \in Offsets : p >= size' => disk'[p] = Cell("hole", 0)
    BY <1>5, <1>6, Positions DEF LayoutInv
  <2>2. QED
    BY <1>1, <1>4, <1>5, <1>7, <2>1 DEF LayoutInv, Pristine, Offsets
<1>9. Onward'
  <2>1. \A i \in 1 .. Len(pend') : pend'[i] = Content(at + (i + 1) - 1) /\ at + (i + 1) - 1 = at' + i - 1
    <3> SUFFICES ASSUME NEW i \in 1 .. Len(pend')
                 PROVE  pend'[i] = Content(at + (i + 1) - 1) /\ at + (i + 1) - 1 = at' + i - 1
      OBVIOUS
    <3>1. i + 1 \in 1 .. Len(pend) /\ pend'[i] = pend[i + 1]
      BY <1>1, <1>2, <1>5, Positions
    <3>2. QED
      BY <1>1, <3>1, Positions DEF Onward
  <2>2. QED
    BY <1>4, <1>5, <2>1 DEF Onward
<1>10. GrowingInv'
  BY <1>1, <1>3, <1>4, <1>5, <1>7, <1>9 DEF GrowingInv
<1>11. ~(pc = "data") /\ ~(pc = "fclose" /\ driver = "wav" /\ result = 1)
  <2>1. LengthKnown /\ driver = "wav" => 4 <= size
    BY Types, HeaderShape, Positions DEF LengthKnown
  <2>2. ~(pc = "data")
    BY <1>1, <1>3, <2>1, Positions DEF CorrectingInv, Correction
  <2>3. ~(pc = "fclose" /\ driver = "wav" /\ result = 1)
    BY <1>1, <1>3, <2>1, Positions DEF CorrectingInv, Correction
  <2>4. QED
    BY <2>2, <2>3
<1>12. QED
  BY <1>1, <1>8, <1>9, <1>10, <1>11 DEF CorrectingInv

\* A length that replaces the guess.
LEMMA WriteCorrection ==
  ASSUME TypeInv, OwnFile, LayoutInv, GrowingInv, CorrectingInv, WriteOut,
         NEW f \in Fields, Correction(f), LengthKnown
  PROVE  (LayoutInv /\ GrowingInv /\ CorrectingInv)'
<1>1. /\ pc \in {"data", "fclose"} /\ pend # <<>>
      /\ disk' = [disk EXCEPT ![at] = Head(pend)] /\ size' = (IF at >= size THEN at + 1 ELSE size)
      /\ pend' = Tail(pend) /\ at' = at + 1
      /\ driver' = driver /\ UNCHANGED <<before, pc, total, result, taken>>
  BY DEF WriteOut, fixed, LengthKnown
<1>2. /\ at = f /\ Head(pend) = Cell("length", Length(f)) /\ Tail(pend) = <<>>
      /\ f \in {1, 3} /\ f \in Offsets /\ f < size /\ size' = size /\ f < HeaderLen
  BY <1>1, Positions DEF Correction, LengthKnown
<1>3. Cell("length", Length(f)).what = "length"
  BY <1>2, Types, Lengths
<1>4. /\ HeaderLen' = HeaderLen /\ Fields' = Fields /\ (\A p : Content(p)' = Content(p))
      /\ \A g : Length(g)' = Length(g)
  BY <1>1, SameDriver
<1>5. \A p \in Offsets : disk'[p] = IF p = f THEN Cell("length", Length(f)) ELSE disk[p]
  BY <1>1, <1>2, Types
<1>6. LengthKnown' /\ size <= HeaderLen + taken
  BY <1>1, <1>2, <1>4 DEF LengthKnown, LayoutInv
<1>7. LayoutInv'
  <2>1. \A p \in Offsets : p >= size => disk'[p] = Cell("hole", 0)
    BY <1>2, <1>5, Positions DEF LayoutInv
  <2>2. \A p \in Offsets : p < size =>
          disk'[p] = Content(p) \/ (p \in Fields /\ disk'[p] = Cell("length", Length(p)))
    BY <1>5 DEF LayoutInv
  <2>3. QED
    BY <1>1, <1>2, <1>4, <1>6, <2>1, <2>2 DEF LayoutInv, Offsets
<1>8. GrowingInv'
  <2>1. Tell' = at' + Len(pend') /\ Len(pend') = 0
    BY <1>1, <1>2 DEF Tell
  <2>2. Onward' => at' = size'
    BY DEF Onward
  <2>3. Onward' => Tell' = size
    BY <1>2, <2>1, <2>2, Positions
  <2>4. QED
    BY <1>1, <1>2, <1>4, <1>6, <2>3 DEF GrowingInv
<1>9. 1 \in Offsets /\ 3 \in Offsets
  BY Positions
<1>10. CorrectingInv'
  <2>1. CASE pc = "data"
    <3>1. f = 1 /\ driver = "wav"
      BY <1>1, <1>2, <2>1 DEF CorrectingInv, Correction
    <3>2. disk'[1].what = "length"
      BY <1>3, <1>5, <1>9, <3>1
    <3>3. QED
      BY <1>1, <1>2, <1>6, <2>1, <3>1, <3>2 DEF CorrectingInv
  <2>2. CASE pc = "fclose"
    <3>1. ASSUME driver = "wav", result = 1
          PROVE  disk'[1].what = "length" /\ disk'[3].what = "length"
      <4>1. f = 3 /\ disk[1].what = "length"
        BY <1>1, <1>2, <2>2, <3>1 DEF CorrectingInv, Correction
      <4>2. QED
        BY <1>3, <1>5, <1>9, <4>1
    <3>2. QED
      BY <1>1, <1>2, <1>6, <2>2, <3>1 DEF CorrectingInv
  <2>3. QED
    BY <1>1, <2>1, <2>2
<1>11. QED
  BY <1>7, <1>8, <1>10

\* What the buffer holds reaches the file in both cases.
LEMMA WriteOutKeeps ==
  ASSUME TypeInv, OwnFile, LayoutInv, GrowingInv, CorrectingInv, WriteOut
  PROVE  (LayoutInv /\ GrowingInv /\ CorrectingInv)'
<1>1. pend # <<>> /\ pc \in {"header", "play", "riff", "data", "size", "fclose"}
  BY DEF WriteOut
<1>2. CASE pc = "data"
  <2>1. Correction(1) /\ LengthKnown /\ 1 \in Fields
    BY <1>1, <1>2, Types, HeaderShape DEF CorrectingInv
  <2>2. QED
    BY <2>1, WriteCorrection
<1>3. CASE pc = "fclose"
  BY <1>1, <1>3, WriteOnward, WriteCorrection DEF CorrectingInv
<1>4. CASE pc \notin {"data", "fclose"}
  BY <1>1, <1>4, WriteOnward DEF GrowingInv
<1>5. QED
  BY <1>2, <1>3, <1>4

\* The header goes to the buffer of an empty file.
LEMMA HeaderKeeps ==
  ASSUME TypeInv, OwnFile, LayoutInv, GrowingInv, CorrectingInv, WriteHeader(Header)
  PROVE  (LayoutInv /\ GrowingInv /\ CorrectingInv)'
<1>1. /\ pc = "initialised" /\ pc' = "header" /\ pend' = Header
      /\ driver' = driver /\ UNCHANGED <<file, at, before, total, result, taken>>
  BY DEF WriteHeader, fixed
<1>2. /\ HeaderLen' = HeaderLen /\ Fields' = Fields /\ (\A p : Content(p)' = Content(p))
  BY <1>1, SameDriver
<1>3. size' = size /\ size = 0 /\ at = 0 /\ taken = 0 /\ Onward
  BY <1>1 DEF GrowingInv, Onward, file
<1>4. Pristine /\ ~LengthKnown
  BY <1>1, NoLengthYet DEF LengthKnown
<1>5. LayoutInv'
  BY <1>1, <1>4, SameFile, Types
<1>6. Len(Header) = HeaderLen /\ HeaderLen \in Nat
  BY Types, HeaderShape
<1>7. Onward' /\ Tell' = HeaderLen
  <2>1. \A i \in 1 .. HeaderLen : Header[i] = Content(0 + i - 1)
    BY <1>6 DEF Content
  <2>2. Tell' = at' + Len(pend')
    BY DEF Tell
  <2>3. QED
    BY <1>1, <1>2, <1>3, <1>6, <2>1, <2>2 DEF Onward
<1>8. Pristine'
  BY <1>1, <1>2, <1>4 DEF Pristine, file, Offsets
<1>9. QED
  BY <1>1, <1>2, <1>3, <1>5, <1>6, <1>7, <1>8 DEF GrowingInv, CorrectingInv

\* Steps that only move on, with the buffer and the file as they are.
LEMMA QuietKeeps ==
  ASSUME TypeInv, LayoutInv, GrowingInv,
         driver' = driver, UNCHANGED <<file, buffer, taken>>
  PROVE  /\ HeaderLen' = HeaderLen /\ Onward' = Onward /\ Tell' = Tell /\ pend' = pend
         /\ size' = size /\ disk' = disk /\ taken' = taken /\ before' = before
         /\ Pristine' = Pristine
         /\ Onward => Tell <= HeaderLen + taken /\ (pend # <<>> => Pristine)
         /\ Pristine => LayoutInv'
<1>1. /\ HeaderLen' = HeaderLen /\ (\A p : Content(p)' = Content(p))
  BY SameDriver
<1>2. Onward' = Onward /\ Pristine' = Pristine
  BY <1>1 DEF Onward, Pristine, file, buffer, Offsets
<1>3. Pristine => LayoutInv'
  BY SameFile, Types
<1>4. QED
  BY <1>1, <1>2, <1>3 DEF GrowingInv, file, buffer, Tell

\* ao_play's bytes go on where the buffer ends.
LEMMA PlayKeeps ==
  ASSUME TypeInv, OwnFile, LayoutInv, GrowingInv, CorrectingInv, NEW n \in Chunks, Play(n)
  PROVE  (LayoutInv /\ GrowingInv /\ CorrectingInv)'
<1>1. /\ pc = "ready" /\ taken + n <= MaxBytes /\ pc' = "play" /\ pend' = pend \o Bytes(n)
      /\ taken' = taken + n /\ before' = Tell /\ driver' = driver
      /\ UNCHANGED <<file, at, total, result>>
  BY DEF Play, fixed
<1>2. n \in Nat /\ Bytes(n) \in Seq(Cells) /\ Len(Bytes(n)) = n
      /\ \A i \in 1 .. n : Bytes(n)[i] = Cell("byte", taken + i)
  BY <1>1, Numbers, Types, BytesPlayed
<1>3. /\ Len(pend \o Bytes(n)) = Len(pend) + n
      /\ \A i \in 1 .. Len(pend) + n : (pend \o Bytes(n))[i] =
           IF i <= Len(pend) THEN pend[i] ELSE Bytes(n)[i - Len(pend)]
  BY <1>2, Types, ConcatProperties
<1>4. /\ HeaderLen' = HeaderLen /\ (\A p : Content(p)' = Content(p))
  BY <1>1, SameDriver
<1>5. Onward /\ Tell = HeaderLen + taken /\ at = size /\ size' = size /\ disk' = disk
  BY <1>1 DEF GrowingInv, Onward, file
<1>6. Pristine /\ Pristine'
  <2>1. Pristine
    BY <1>1, NoLengthYet DEF LengthKnown
  <2>2. QED
    BY <1>4, <1>5, <2>1 DEF Pristine, Offsets
<1>7. LayoutInv'
  BY <1>1, <1>2, <1>6, SameFile, Positions
<1>8. PICK len \in Nat, header \in Nat, here \in Nat, old \in Nat :
          len = Len(pend) /\ header = HeaderLen /\ here = at /\ old = taken
  BY Positions, Types
<1>9. Len(pend') = len + n /\ here + len = header + old
  BY <1>1, <1>3, <1>5, <1>8 DEF Tell
<1>10. \A i \in 1 .. Len(pend') : pend'[i] = Content(at + i - 1)
  <2> SUFFICES ASSUME NEW i \in 1 .. len + n PROVE pend'[i] = Content(at + i - 1)
    BY <1>9
  <2>1. CASE i <= len
    <3>1. i \in 1 .. len
      BY <1>8, <2>1
    <3>2. i \in 1 .. Len(pend) /\ pend'[i] = pend[i]
      BY <1>1, <1>3, <1>8, <3>1
    <3>3. QED
      BY <1>5, <3>2 DEF Onward
  <2>2. CASE ~(i <= len)
    <3>1. i - len \in 1 .. n
      BY <1>2, <1>8, <2>2
    <3>2. pend'[i] = Bytes(n)[i - len]
      BY <1>1, <1>3, <1>8, <2>2
    <3>3. pend'[i] = Cell("byte", old + (i - len))
      BY <1>2, <1>8, <3>1, <3>2
    <3>4. ~(here + i - 1 < header) /\ (here + i - 1) - header + 1 = old + (i - len)
      BY <1>8, <1>9, <2>2
    <3>5. Content(here + i - 1) = Cell("byte", (here + i - 1) - header + 1)
      BY <1>8, <3>4 DEF Content
    <3>6. QED
      BY <1>8, <3>3, <3>4, <3>5
  <2>3. QED
    BY <2>1, <2>2
<1>11. Onward' /\ Tell' = (HeaderLen + taken)'
  <2>1. Tell' = at' + Len(pend')
    BY DEF Tell
  <2>2. n \in Nat /\ here + len = header + old
    BY <1>2, <1>9
  <2>3. here + (len + n) = header + (old + n)
    BY <1>8, <2>2
  <2>4. Tell' = HeaderLen + (taken + n)
    BY <1>1, <1>8, <1>9, <2>1, <2>3, Zenon
  <2>5. QED
    BY <1>1, <1>4, <1>5, <1>10, <2>4 DEF Onward
<1>12. HeaderLen <= Tell
  BY <1>5, Positions
<1>13. (HeaderLen + taken)' <= (HeaderLen + taken)'
  BY <1>1, <1>2, <1>4, Positions
<1>14. QED
  BY <1>1, <1>4, <1>6, <1>7, <1>11, <1>12, <1>13 DEF GrowingInv, CorrectingInv

\* A short fwrite of ao_play leaves a part of what it added.
LEMMA FailKeeps ==
  ASSUME TypeInv, OwnFile, OwnFile', LayoutInv, GrowingInv, CorrectingInv,
         NEW k \in 0 .. Buffered, FwriteFails(k)
  PROVE  (LayoutInv /\ GrowingInv /\ CorrectingInv)'
<1>1. /\ pc = "play" /\ pc' = "failed" /\ pend' = SubSeq(pend, 1, k) /\ k < Len(pend)
      /\ at + k >= before /\ driver' = driver
      /\ UNCHANGED <<file, at, before, total, result, taken>>
  BY DEF FwriteFails, OwnFile, fixed
<1>2. k \in 0 .. Len(pend) /\ k \in Nat
  BY <1>1, Numbers, Types
<1>3. Len(pend') = k /\ \A i \in 1 .. k : pend'[i] = pend[i] /\ i \in 1 .. Len(pend)
  BY <1>1, <1>2, Types, BufferShape
<1>4. /\ HeaderLen' = HeaderLen /\ (\A p : Content(p)' = Content(p))
  BY <1>1, SameDriver
<1>5. Onward /\ Tell = HeaderLen + taken /\ size' = size /\ disk' = disk /\ HeaderLen <= before
  BY <1>1 DEF GrowingInv, file
<1>6. Pristine /\ Pristine'
  <2>1. Pristine
    BY <1>1, NoLengthYet DEF LengthKnown
  <2>2. QED
    BY <1>4, <1>5, <2>1 DEF Pristine, Offsets
<1>7. LayoutInv'
  BY <1>1, <1>6, SameFile, Positions
<1>8. Onward'
  BY <1>1, <1>3, <1>4, <1>5 DEF Onward
<1>9. Tell' <= HeaderLen + taken /\ HeaderLen <= Tell'
  <2>1. Tell' = at + k
    BY <1>1, <1>3 DEF Tell
  <2>2. before \in Nat
    BY Types
  <2>3. QED
    BY <1>1, <1>2, <1>5, <2>1, <2>2, Positions
<1>10. QED
  BY <1>1, <1>4, <1>6, <1>7, <1>8, <1>9 DEF GrowingInv, CorrectingInv

\* ftell and the first fseek of close.
LEMMA SeekKeeps ==
  ASSUME TypeInv, OwnFile, LayoutInv, GrowingInv, CorrectingInv, NEW stage \in {"riff", "size"},
         SeekTo(stage), stage = "riff" => driver = "wav", stage = "size" => driver = "au"
  PROVE  (LayoutInv /\ GrowingInv /\ CorrectingInv)'
<1>1. /\ pc \in {"ready", "failed"} /\ pc' = stage /\ total' = Tell
      /\ driver' = driver /\ UNCHANGED <<file, buffer, result, taken>>
  BY DEF SeekTo, fixed
<1>2. Onward /\ HeaderLen <= Tell
  BY <1>1, Positions DEF GrowingInv
<1>3. Pristine
  BY <1>1, NoLengthYet DEF LengthKnown
<1>4. QED
  BY <1>1, <1>2, <1>3, QuietKeeps DEF GrowingInv, CorrectingInv

\* close leaves the lengths as they are: on this path only au and raw do.
LEMMA LeaveKeeps ==
  ASSUME TypeInv, OwnFile, LayoutInv, GrowingInv, CorrectingInv, Leave(1), driver # "wav"
  PROVE  (LayoutInv /\ GrowingInv /\ CorrectingInv)'
<1>1. /\ pc \in {"ready", "failed"} /\ pc' = "fclose"
      /\ driver' = driver /\ UNCHANGED <<file, buffer, total, taken>>
  BY DEF Leave, fixed
<1>2. Onward
  BY <1>1 DEF GrowingInv
<1>3. Pristine
  BY <1>1, NoLengthYet DEF LengthKnown
<1>4. QED
  BY <1>1, <1>2, <1>3, QuietKeeps DEF GrowingInv, CorrectingInv

\* A length goes to the buffer once the rest of it is in the file.
LEMMA LengthKeeps ==
  ASSUME TypeInv, OwnFile, LayoutInv, GrowingInv, NEW f \in Fields, WriteLength(f),
         size = total, HeaderLen <= size, pc' \in {"data", "fclose"},
         Pristine \/ LengthKnown,
         pc' = "data" => f = 1 /\ driver = "wav",
         pc' = "fclose" /\ driver = "wav" => f = 3 /\ disk[1].what = "length"
  PROVE  (LayoutInv /\ GrowingInv /\ CorrectingInv)'
<1>1. /\ at' = f /\ pend' = <<Cell("length", Length(f))>> /\ driver' = driver
      /\ UNCHANGED <<file, before, total, taken>>
  BY DEF WriteLength, fixed
<1>2. /\ HeaderLen' = HeaderLen /\ Fields' = Fields /\ size' = size /\ disk' = disk
      /\ \A g : Length(g)' = Length(g)
  BY <1>1, SameDriver DEF file
<1>3. LengthKnown' /\ Correction(f)'
  BY <1>1, <1>2 DEF LengthKnown, Correction
<1>4. LayoutInv'
  BY <1>1, <1>3, SameFile, Types
<1>5. ~Onward'
  BY <1>1, <1>2, Positions DEF Onward
<1>6. QED
  BY <1>1, <1>2, <1>3, <1>4, <1>5 DEF GrowingInv, CorrectingInv

\* close gives a length up, before or after the buffer was written out.
LEMMA GiveUpKeeps ==
  ASSUME TypeInv, OwnFile, LayoutInv, GrowingInv, CorrectingInv, WavCloseFails \/ AuCloseFails
  PROVE  (LayoutInv /\ GrowingInv /\ CorrectingInv)'
<1>1. /\ pc \in {"riff", "data", "size"} /\ pc' = "fclose" /\ driver' = driver
      /\ UNCHANGED <<file, buffer, total, taken>>
      /\ (pc \in {"riff", "data"} => result' = 0)
  BY DEF WavCloseFails, AuCloseFails, fixed
<1>2. driver = "wav" => result' = 0
  BY <1>1 DEF CorrectingInv
<1>3. CASE pc = "data"
  <2>1. LengthKnown /\ 1 \in Fields /\ (pend = <<>> \/ Correction(1))
    BY <1>3, Types, HeaderShape DEF CorrectingInv
  <2>2. /\ HeaderLen' = HeaderLen /\ Fields' = Fields /\ size' = size
        /\ \A g : Length(g)' = Length(g)
    BY <1>1, SameDriver DEF file
  <2>3. LengthKnown' /\ (Correction(1) => Correction(1)') /\ pend' = pend
    BY <1>1, <2>1, <2>2 DEF LengthKnown, Correction, buffer
  <2>4. LayoutInv'
    BY <1>1, <2>3, SameFile, Types
  <2>5. pend' = <<>> \/ \E f \in Fields' : Correction(f)' /\ LengthKnown'
    BY <2>1, <2>2, <2>3
  <2>6. GrowingInv'
    BY <1>1, <1>3, <2>1, QuietKeeps DEF GrowingInv
  <2>7. CorrectingInv'
    <3>1. pc' = "fclose" /\ (driver' = "wav" => result' # 1)
      BY <1>1, <1>2
    <3>2. QED
      BY <2>5, <3>1 DEF CorrectingInv
  <2>8. QED
    BY <2>4, <2>6, <2>7
<1>4. CASE pc # "data"
  <2>1. Onward
    BY <1>1, <1>4 DEF GrowingInv
  <2>2. Pristine
    BY <1>1, <1>4, NoLengthYet DEF LengthKnown
  <2>3. /\ pc' = "fclose" /\ (driver' = "wav" => result' # 1)
        /\ LayoutInv' /\ Onward' /\ (Tell <= HeaderLen + taken /\ (pend # <<>> => Pristine))'
    BY <1>1, <1>2, <2>1, <2>2, QuietKeeps
  <2>4. GrowingInv'
    BY <2>3 DEF GrowingInv
  <2>5. CorrectingInv'
    BY <2>3 DEF CorrectingInv
  <2>6. QED
    BY <2>3, <2>4, <2>5
<1>5. QED
  BY <1>3, <1>4

\* fclose writes nothing more.
LEMMA FcloseKeeps ==
  ASSUME TypeInv, OwnFile, LayoutInv, GrowingInv, CorrectingInv, Fclose
  PROVE  (LayoutInv /\ GrowingInv /\ CorrectingInv)'
<1>1. /\ pc = "fclose" /\ pc' = "closed" /\ pend' = <<>> /\ flushed' = (pend = <<>>)
      /\ driver' = driver /\ UNCHANGED <<file, at, before, total, result, taken>>
  BY DEF Fclose, fixed
<1>2. HeaderLen' = HeaderLen /\ size' = size /\ disk' = disk
  BY <1>1, SameDriver DEF file
<1>3. LayoutInv'
  <2>1. LengthKnown => LengthKnown'
    BY <1>1, <1>2 DEF LengthKnown
  <2>2. QED
    BY <1>1, <2>1, NoLengthYet, SameFile, Types
<1>4. GrowingInv'
  <2>1. Onward' => at' = size'
    BY DEF Onward
  <2>2. Tell' = at' + 0
    BY <1>1 DEF Tell
  <2>3. at' = size' => Tell' = size
    BY <1>1, <1>2, <2>2, Positions
  <2>4. QED
    BY <1>1, <1>2, <2>1, <2>3 DEF GrowingInv, LayoutInv
<1>5. CorrectingInv'
  <2>1. ASSUME driver = "wav", result = 1, flushed'
        PROVE  disk[1].what = "length" /\ disk[3].what = "length"
    <3>1. pend = <<>>
      BY <1>1, <2>1, Zenon
    <3>2. ~Correction(3)
      BY <3>1 DEF Correction
    <3>3. QED
      BY <1>1, <2>1, <3>2 DEF CorrectingInv
  <2>2. QED
    BY <1>1, <1>2, <2>1 DEF CorrectingInv
<1>6. QED
  BY <1>3, <1>4, <1>5

\* Whose file it is does not change, and no device is opened again.
LEMMA OwnerKept ==
  ASSUME TypeInv, TroubleInv, [Next]_vars
  PROVE  TroubleInv' /\ (OwnFile' => OwnFile)
<1>1. /\ fixed' = fixed
      /\ trouble' = trouble \/ (trouble # "open" /\ trouble' \in {"open", "play"})
      /\ trouble' = "open" => pc' \notin {"initialised", "header", "ready", "play"}
  <2> USE DEF TroubleInv
  <2>1. CASE WriteOut \/ Played \/ (\E n \in Chunks : Play(n)) \/ UNCHANGED vars
    BY <2>1 DEF WriteOut, Played, Play, vars
  <2>2. CASE Open
    BY <2>2
    DEF Open, WavOpen, AuOpen, RawOpen, WriteHeader, HeaderWritten, OpenRefused
  <2>3. CASE \E k \in 0 .. Buffered : FwriteFails(k)
    BY <2>3 DEF FwriteFails
  <2>4. CASE Close
    BY <2>4
    DEF Close, WavClose, AuClose, RawClose, SeekTo, Leave, WavWriteRiff, WavWriteData,
        AuWriteSize, WriteLength, WavCloseFails, AuCloseFails, Fclose
  <2>5. QED
    BY <2>1, <2>2, <2>3, <2>4 DEF Next
<1>2. TroubleInv'
  BY <1>1 DEF TroubleInv
<1>3. base' = base /\ (trouble' # "open" => trouble # "open")
  BY <1>1 DEF fixed
<1>4. seekable' = seekable
  BY <1>1, Zenon DEF fixed
<1>5. OwnFile' => OwnFile
  BY <1>3, <1>4, Zenon DEF OwnFile
<1>6. QED
  BY <1>2, <1>5

\* Every step keeps file and buffer as they should be.
LEMMA FileStep ==
  ASSUME TypeInv, OwnFile, OwnFile', LayoutInv, GrowingInv, CorrectingInv, [Next]_vars
  PROVE  (LayoutInv /\ GrowingInv /\ CorrectingInv)'
<1>1. CASE WriteOut
  BY <1>1, WriteOutKeeps
<1>2. CASE Open
  <2>1. CASE WavOpen \/ AuOpen \/ RawOpen
    <3>1. WriteHeader(Header)
      BY <2>1 DEF WavOpen, AuOpen, RawOpen, Header
    <3>2. QED
      BY <3>1, HeaderKeeps
  <2>2. CASE HeaderWritten
    <3>1. /\ pc = "header" /\ pc' = "ready" /\ driver' = driver
          /\ UNCHANGED <<file, buffer, total, taken>>
      BY <2>2 DEF HeaderWritten, fixed
    <3>2. Pristine
      BY <3>1, NoLengthYet DEF LengthKnown
    <3>3. QED
      BY <3>1, <3>2, QuietKeeps DEF GrowingInv, CorrectingInv
  <2>3. CASE OpenRefused
    BY <2>3 DEF OpenRefused, OwnFile
  <2>4. QED
    BY <1>2, <2>1, <2>2, <2>3 DEF Open
<1>3. ASSUME NEW n \in Chunks, Play(n) PROVE (LayoutInv /\ GrowingInv /\ CorrectingInv)'
  BY <1>3, PlayKeeps
<1>4. CASE Played
  <2>1. /\ pc = "play" /\ pc' = "ready" /\ driver' = driver
        /\ UNCHANGED <<file, buffer, total, taken>>
    BY <1>4 DEF Played, fixed
  <2>2. Pristine
    BY <2>1, NoLengthYet DEF LengthKnown
  <2>3. QED
    BY <2>1, <2>2, QuietKeeps DEF GrowingInv, CorrectingInv
<1>5. ASSUME NEW k \in 0 .. Buffered, FwriteFails(k)
      PROVE  (LayoutInv /\ GrowingInv /\ CorrectingInv)'
  BY <1>5, FailKeeps
<1>6. CASE Close
  <2>1. CASE WavClose
    BY <2>1, SeekKeeps DEF WavClose, OwnFile
  <2>2. CASE AuClose
    BY <2>2, SeekKeeps, LeaveKeeps DEF AuClose, OwnFile
  <2>3. CASE RawClose
    BY <2>3, LeaveKeeps DEF RawClose
  <2>4. CASE WavWriteRiff \/ AuWriteSize
    <3>1. pc \in {"riff", "size"} /\ WriteLength(1) /\ pend = <<>>
          /\ (pc = "riff" => pc' = "data") /\ (pc = "size" => pc' = "fclose")
      BY <2>4 DEF WavWriteRiff, AuWriteSize, WriteLength
    <3>2. size = total /\ HeaderLen <= size
      <4>1. Tell = at + 0 /\ at = size /\ total = Tell /\ HeaderLen <= total
        BY <3>1 DEF GrowingInv, Onward, Tell
      <4>2. QED
        BY <4>1, Positions
    <3>3. Pristine
      BY <3>1, NoLengthYet DEF LengthKnown
    <3>4. 1 \in Fields /\ (pc = "riff" => driver = "wav") /\ (pc = "size" => driver = "au")
      BY <3>1, Types, HeaderShape DEF CorrectingInv
    <3>5. QED
      BY <3>1, <3>2, <3>3, <3>4, LengthKeeps
  <2>5. CASE WavWriteData
    <3>1. pc = "data" /\ pc' = "fclose" /\ WriteLength(3) /\ pend = <<>>
      BY <2>5 DEF WavWriteData, WriteLength
    <3>2. LengthKnown /\ driver = "wav" /\ disk[1].what = "length" /\ 3 \in Fields
      BY <3>1, Types, HeaderShape DEF CorrectingInv, Correction
    <3>3. QED
      BY <3>1, <3>2, LengthKeeps DEF LengthKnown
  <2>6. CASE WavCloseFails \/ AuCloseFails
    BY <2>6, GiveUpKeeps
  <2>7. CASE Fclose
    BY <2>7, FcloseKeeps
  <2>8. QED
    BY <1>6, <2>1, <2>2, <2>3, <2>4, <2>5, <2>6, <2>7 DEF Close
<1>7. CASE UNCHANGED vars
  <2>1. /\ driver' = driver /\ pc' = pc /\ result' = result /\ flushed' = flushed
        /\ UNCHANGED <<file, buffer, total, taken>>
    BY <1>7 DEF vars, fixed
  <2>2. /\ HeaderLen' = HeaderLen /\ Fields' = Fields /\ \A f : Length(f)' = Length(f)
    BY <2>1, SameDriver
  <2>3. (LengthKnown' <=> LengthKnown) /\ \A f : Correction(f)' <=> Correction(f)
    BY <2>1, <2>2 DEF LengthKnown, Correction, file, buffer
  <2>4. LayoutInv'
    BY <2>1, <2>3, NoLengthYet, SameFile, Types
  <2>5. QED
    BY <2>1, <2>2, <2>3, <2>4, QuietKeeps DEF GrowingInv, CorrectingInv
<1>8. QED
  BY <1>1, <1>2, <1>3, <1>4, <1>5, <1>6, <1>7 DEF Next
-----------------------------------------------------------------------------
(* The theorems. *)

\* A new file is empty.
LEMMA FileInit == Init => TroubleInv /\ FileInv
<1> SUFFICES ASSUME Init PROVE TroubleInv /\ (OwnFile => LayoutInv /\ GrowingInv /\ CorrectingInv)
  BY DEF FileInv
<1>1. TypeInv
  BY TypeInit
<1>2. TroubleInv
  BY DEF Init, TroubleInv
<1>3. ASSUME OwnFile PROVE LayoutInv /\ GrowingInv /\ CorrectingInv
  <2>1. size = 0 /\ at = 0 /\ pend = <<>> /\ taken = 0 /\ pc = "initialised"
    BY <1>3 DEF OwnFile, Init
  <2>2. \A p \in Offsets : disk[p] = Cell("hole", 0) /\ ~(p < 0)
    BY <1>1, <1>3, Positions DEF Init, OwnFile
  <2>3. Onward /\ Tell = 0 /\ 0 <= HeaderLen
    BY <1>1, <2>1, Positions DEF Onward, Tell
  <2>4. QED
    BY <1>1, <2>1, <2>2, <2>3, Positions DEF LayoutInv, GrowingInv, CorrectingInv
<1>4. QED
  BY <1>2, <1>3

\* The invariant.
LEMMA Inductive == Spec => []IInv
<1>1. Init => IInv
  BY TypeInit, FileInit DEF IInv
<1>2. IInv /\ [Next]_vars => IInv'
  BY TypeStep, OwnerKept, FileStep DEF IInv, FileInv
<1>3. QED
  BY <1>1, <1>2, PTL DEF Spec

\* The drivers, the stdio buffer, the file and its lengths keep their types: a
\* length in the file has 32 bits.
THEOREM TypeCorrect == Spec => []TypeOK
<1>1. IInv => TypeOK
  BY DEF IInv, TypeInv
<1>2. QED
  BY <1>1, Inductive, PTL

\* The bytes of the application lie behind the header.
LEMMA BytesInFile ==
  ASSUME TypeInv, LayoutInv, HeaderLen <= size
  PROVE  Cardinality({p \in Offsets : disk[p].what = "byte"}) = size - HeaderLen
<1>1. \A p \in Offsets : disk[p].what = "byte" <=> p \in HeaderLen .. size - 1
  <2> SUFFICES ASSUME NEW p \in Offsets
               PROVE  disk[p].what = "byte" <=> p \in HeaderLen .. size - 1
    OBVIOUS
  <2>1. CASE p >= size
    <3>1. disk[p] = Cell("hole", 0) /\ Cell("hole", 0).what = "hole"
      BY <2>1, CellsWritten DEF LayoutInv
    <3>2. QED
      BY <2>1, <3>1, Positions
  <2>2. CASE p < HeaderLen
    <3>1. p < size /\ ~(p \in HeaderLen .. size - 1) /\ p + 1 \in 1 .. HeaderLen
      BY <2>2, Positions
    <3>2. Content(p).what # "byte"
      BY <2>2, <3>1, Types, HeaderShape DEF Content
    <3>3. p \in Fields => Cell("length", Length(p)).what # "byte"
      BY Positions, Types, Lengths
    <3>4. QED
      BY <3>1, <3>2, <3>3 DEF LayoutInv
  <2>3. CASE p \in HeaderLen .. size - 1
    <3>1. p < size /\ ~(p < HeaderLen) /\ p \notin Fields
      BY <2>3, Positions
    <3>2. disk[p] = Cell("byte", p - HeaderLen + 1)
      BY <3>1 DEF LayoutInv, Content
    <3>3. p - HeaderLen + 1 \in 0 .. MaxBytes
      <4>1. PICK header \in Nat, old \in 0 .. MaxBytes, end \in Nat :
              header = HeaderLen /\ old = taken /\ end = size /\ end <= header + old
        BY Positions DEF LayoutInv
      <4>2. p \in header .. end - 1 /\ MaxBytes \in Nat
        BY <2>3, <4>1, Numbers
      <4>3. p - header + 1 \in 0 .. MaxBytes
        BY <4>1, <4>2
      <4>4. QED
        BY <4>1, <4>3
    <3>4. QED
      BY <2>3, <3>2, <3>3, CellsWritten
  <2>4. QED
    BY <2>1, <2>2, <2>3, Positions
<1>2. HeaderLen .. size - 1 \subseteq Offsets
  BY Positions DEF LayoutInv
<1>3. {p \in Offsets : disk[p].what = "byte"} = HeaderLen .. size - 1
  BY <1>1, <1>2
<1>4. PICK header \in Nat, end \in Nat : header = HeaderLen /\ end = size /\ header <= end
  BY Positions
<1>5. Cardinality(header .. end - 1) = IF header > end - 1 THEN 0 ELSE end - 1 - header + 1
  <2>1. header \in Int /\ end - 1 \in Int
    BY <1>4
  <2>2. QED
    BY <2>1, FS_Interval, Zenon
<1>6. (IF header > end - 1 THEN 0 ELSE end - 1 - header + 1) = end - header
  BY <1>4
<1>7. QED
  BY <1>3, <1>4, <1>5, <1>6, Zenon

\* At any moment, a crash included, a length that ao_wav.c or ao_au.c has put in
\* the file counts what is there; when close has returned 1 and fclose wrote
\* the rest, wav's lengths are no guesses.
THEOREM HeadersAreTrue == Spec => []HeaderIsTrue
<1>1. ASSUME IInv PROVE HeaderIsTrue
  <2> SUFFICES ASSUME OwnFile
      PROVE  /\ \A f \in Fields : disk[f].what = "length" => disk[f].value = Counted(f) % Modulus
             /\ pc = "closed" /\ result = 1 /\ flushed /\ driver = "wav" =>
                  \A f \in Fields : disk[f].what = "length"
    BY DEF HeaderIsTrue
  <2> USE <1>1 DEF IInv, FileInv
  <2>1. ASSUME NEW f \in Fields, disk[f].what = "length"
        PROVE  disk[f].value = Counted(f) % Modulus
    <3>1. f \in Offsets /\ f \in {1, 3} /\ f < HeaderLen /\ f + 1 \in 1 .. HeaderLen
      BY Positions
    <3>2. disk[f] # Cell("hole", 0)
      BY <2>1, CellsWritten
    <3>3. Content(f).what # "length"
      BY <3>1, Types, HeaderShape DEF Content
    <3>4. LengthKnown /\ disk[f] = Cell("length", Length(f))
      BY <2>1, <3>1, <3>2, <3>3, Positions DEF LayoutInv
    <3>5. disk[f].value = (size - Uncounted(f)) % Modulus /\ HeaderLen <= size
      BY <3>1, <3>4, Types, Lengths DEF LengthKnown, Length
    <3>6. Counted(f) = size - Uncounted(f)
      <4>1. CASE driver = "wav" /\ f = 1
        BY <4>1, Positions DEF Counted, Uncounted
      <4>2. CASE ~(driver = "wav" /\ f = 1)
        BY <3>5, <4>2, BytesInFile DEF Counted, Uncounted
      <4>3. QED
        BY <4>1, <4>2
    <3>7. QED
      BY <3>5, <3>6
  <2>2. ASSUME pc = "closed", result = 1, flushed, driver = "wav", NEW f \in Fields
        PROVE  disk[f].what = "length"
    <3>1. f \in {1, 3}
      BY Positions
    <3>2. disk[1].what = "length" /\ disk[3].what = "length"
      BY <2>2 DEF CorrectingInv
    <3>3. QED
      BY <3>1, <3>2
  <2>3. QED
    BY <2>1, <2>2
<1>2. QED
  BY <1>1, Inductive, PTL
-----------------------------------------------------------------------------
(* The samples, wherever the stream starts in its file and whatever failed. *)

\* Where the samples start.
First == base + HeaderLen

\* The cell of the file that holds the p-th of all bytes.
Sample(p) == Cell("byte", p - First + 1)

\* Nothing has failed and n is where the samples end.
Whole(n) == trouble = "none" => n = First + taken

\* The buffer goes on where the file ends, with samples behind the header, or
\* corrects a length, which lies before them.
Ahead ==
  /\ at = size /\ Tell <= First + taken
  /\ \A i \in 1 .. Len(pend) : First <= at + i - 1 => pend[i] = Sample(at + i - 1)
Behind == Len(pend) <= 1 /\ (pend # <<>> => at < HeaderLen)

SamplesInv ==
  /\ size <= First + taken
  /\ \A p \in Offsets : First <= p /\ p < size => disk[p] = Sample(p)

StageInv ==
  /\ pc \in {"initialised", "header", "ready", "play", "failed", "riff", "size"} => Ahead
  /\ pc = "initialised" => pend = <<>> /\ at = base /\ taken = 0
  /\ pc = "header" => Tell = First /\ taken = 0
  /\ pc \in {"ready", "play"} => Tell = First + taken
  /\ pc = "failed" => trouble # "none"
  /\ (pc \in {"riff", "data"} => driver = "wav") /\ (pc = "size" => driver = "au")
  /\ pc \in {"riff", "size"} => Whole(Tell)
  /\ pc = "data" => Behind /\ Whole(size)
  /\ pc = "fclose" => (Ahead /\ Whole(Tell)) \/ (Behind /\ Whole(size))
  /\ pc = "closed" /\ flushed => Whole(size)

StreamInv == TypeInv /\ base <= MaxStart /\ SamplesInv /\ StageInv

-----------------------------------------------------------------------------
\* The numbers, as constants of a step.
LEMMA Places ==
  ASSUME StreamInv
  PROVE  /\ HeaderLen \in 0 .. 4 /\ First \in Nat /\ HeaderLen <= First /\ base \in Nat
         /\ base <= First /\ First <= MaxStart + 4 /\ MaxStart \in Nat /\ MaxBytes \in Nat
         /\ size \in Nat /\ at \in Nat /\ taken \in 0 .. MaxBytes /\ taken \in Nat
         /\ Len(pend) \in Nat /\ Tell = at + Len(pend) /\ Tell \in Nat
         /\ Offsets = 0 .. MaxStart + MaxBytes + 4
         /\ size <= First + taken
<1>1. /\ HeaderLen \in 0 .. 4 /\ size \in Nat /\ at \in Nat /\ taken \in 0 .. MaxBytes
      /\ Len(pend) \in Nat /\ Tell = at + Len(pend) /\ MaxBytes \in Nat /\ MaxStart \in Nat
      /\ Offsets = 0 .. MaxStart + MaxBytes + 4 /\ size <= First + taken /\ base <= MaxStart
  BY Positions DEF StreamInv, SamplesInv
<1>2. base \in Nat
  BY Numbers DEF StreamInv, TypeInv, TypeOK
<1>3. /\ First \in Nat /\ HeaderLen <= First /\ base <= First /\ First <= MaxStart + 4
  BY <1>1, <1>2 DEF First
<1>4. taken \in Nat /\ Tell \in Nat
  BY <1>1
<1>5. QED
  BY <1>1, <1>2, <1>3, <1>4

\* Where the stream starts does not change.
LEMMA SameStart ==
  ASSUME UNCHANGED fixed
  PROVE  /\ driver' = driver /\ base' = base /\ HeaderLen' = HeaderLen /\ First' = First
         /\ \A p : Sample(p)' = Sample(p)
<1>1. driver' = driver /\ base' = base
  BY DEF fixed
<1>2. HeaderLen' = HeaderLen
  BY <1>1, SameDriver
<1>3. First' = First
  BY <1>1, <1>2 DEF First
<1>4. \A p : Sample(p)' = Sample(p)
  BY <1>3 DEF Sample
<1>5. QED
  BY <1>1, <1>2, <1>3, <1>4

\* A bound that grows stays a bound.
LEMMA BoundGrows == \A a, b, c, d \in Nat : a <= b + c /\ c <= d => a <= b + d
OBVIOUS

\* Steps that leave the samples in the file alone.
LEMMA SameSamples ==
  ASSUME StreamInv, UNCHANGED <<fixed, file>>, taken' \in Nat, taken <= taken'
  PROVE  SamplesInv' /\ size' = size
<1>1. First' = First /\ (\A p : Sample(p)' = Sample(p)) /\ size' = size /\ disk' = disk
  BY SameStart DEF file
<1>2. size' <= First' + taken'
  <2>1. size \in Nat /\ First \in Nat /\ taken \in Nat /\ size <= First + taken
    BY Places
  <2>2. size <= First + taken'
    BY <2>1, BoundGrows
  <2>3. QED
    BY <1>1, <2>2
<1>3. QED
  BY <1>1, <1>2 DEF StreamInv, SamplesInv, Offsets

\* Steps that only move on.
LEMMA SameStream ==
  ASSUME StreamInv, UNCHANGED <<fixed, file, buffer, taken>>
  PROVE  /\ SamplesInv' /\ size' = size /\ pend' = pend /\ at' = at /\ taken' = taken
         /\ Tell' = Tell /\ First' = First /\ base' = base /\ driver' = driver
         /\ (Ahead => Ahead') /\ (Behind => Behind')
<1>1. /\ First' = First /\ (\A p : Sample(p)' = Sample(p)) /\ HeaderLen' = HeaderLen
      /\ base' = base /\ driver' = driver
  BY SameStart
<1>2. size' = size /\ pend' = pend /\ at' = at /\ taken' = taken
  BY DEF file, buffer
<1>3. Tell' = Tell
  BY <1>2 DEF Tell
<1>4. SamplesInv'
  <2>1. taken' \in Nat /\ taken <= taken'
    BY <1>2, Places
  <2>2. QED
    BY <2>1, SameSamples
<1>5. Ahead => Ahead'
  BY <1>1, <1>2, <1>3 DEF Ahead
<1>6. Behind => Behind'
  BY <1>1, <1>2 DEF Behind
<1>7. QED
  BY <1>1, <1>2, <1>3, <1>4, <1>5, <1>6

\* A cell that continues the file: it is the next sample, or part of the header.
LEMMA WriteAhead ==
  ASSUME StreamInv, Ahead, WriteOut
  PROVE  /\ SamplesInv' /\ Ahead' /\ Tell' = Tell
         /\ size' = size + 1 /\ size + 1 <= First + taken
<1>1. /\ pend # <<>> /\ disk' = [disk EXCEPT ![at] = Head(pend)]
      /\ size' = (IF at >= size THEN at + 1 ELSE size)
      /\ pend' = Tail(pend) /\ at' = at + 1 /\ UNCHANGED <<fixed, taken>>
  BY DEF WriteOut
<1>2. /\ Head(pend) = pend[1] /\ Len(pend) > 0 /\ Len(Tail(pend)) = Len(pend) - 1
      /\ \A i \in 1 .. Len(Tail(pend)) : Tail(pend)[i] = pend[i + 1]
  BY <1>1, Types, BufferShape DEF StreamInv
<1>3. First' = First /\ (\A p : Sample(p)' = Sample(p)) /\ taken' = taken
  BY <1>1, SameStart
<1>4. at = size /\ Tell <= First + taken
  BY DEF Ahead
<1>5. PICK f \in Nat, t \in 0 .. MaxBytes, s \in Nat, l \in Nat, m \in Nat :
        f = First /\ t = taken /\ s = size /\ l = Len(pend) /\ l > 0 /\ s + l <= f + t
        /\ m = MaxStart /\ f <= m + 4 /\ MaxBytes \in Nat
  BY <1>2, <1>4, Places
<1>6. s + 1 <= f + t /\ s \in 0 .. m + MaxBytes + 4 /\ s >= s
  BY <1>5
<1>7. size' = size + 1 /\ size + 1 <= First + taken /\ size \in Offsets
  BY <1>1, <1>4, <1>5, <1>6, Places
<1>8. Tell' = Tell
  <2>1. Tell' = at' + Len(pend') /\ Len(pend') = l - 1
    BY <1>1, <1>2, <1>5 DEF Tell
  <2>2. (s + 1) + (l - 1) = s + l
    BY <1>5
  <2>3. QED
    BY <1>1, <1>4, <1>5, <2>1, <2>2, Places
<1>9. \A p \in Offsets : disk'[p] = IF p = size THEN pend[1] ELSE disk[p]
  BY <1>1, <1>2, <1>4, <1>7, Types DEF StreamInv
<1>10. First <= size => pend[1] = Sample(size)
  <2>1. 1 \in 1 .. Len(pend) /\ at + 1 - 1 = size
    BY <1>2, <1>4, Places
  <2>2. QED
    BY <2>1 DEF Ahead
<1>11. SamplesInv'
  <2>1. ASSUME NEW p \in Offsets, First <= p, p < size' PROVE disk'[p] = Sample(p)
    <3>1. p = size \/ (p # size /\ p < size)
      BY <1>7, <2>1, Places
    <3>2. CASE p = size
      BY <1>9, <1>10, <2>1, <3>2
    <3>3. CASE p # size /\ p < size
      <4>1. disk'[p] = disk[p]
        BY <1>9, <3>3
      <4>2. QED
        BY <2>1, <3>3, <4>1 DEF StreamInv, SamplesInv
    <3>4. QED
      BY <3>1, <3>2, <3>3
  <2>2. size' <= First' + taken'
    BY <1>3, <1>7
  <2>3. QED
    BY <1>3, <2>1, <2>2 DEF SamplesInv, Offsets
<1>12. Ahead'
  <2>1. at' = size' /\ Tell' <= First' + taken'
    BY <1>1, <1>3, <1>4, <1>7, <1>8
  <2>2. ASSUME NEW i \in 1 .. Len(pend'), First <= at' + i - 1
        PROVE  pend'[i] = Sample(at' + i - 1)
    <3>1. i + 1 \in 1 .. Len(pend) /\ pend'[i] = pend[i + 1]
      BY <1>1, <1>2, Places
    <3>2. at + (i + 1) - 1 = at' + i - 1
      BY <1>1, <3>1, Places
    <3>3. First <= at + (i + 1) - 1
      BY <2>2, <3>2
    <3>4. pend[i + 1] = Sample(at + (i + 1) - 1)
      BY <3>1, <3>3 DEF Ahead
    <3>5. QED
      BY <3>1, <3>2, <3>4
  <2>3. QED
    BY <1>3, <2>1, <2>2 DEF Ahead
<1>13. QED
  BY <1>7, <1>8, <1>11, <1>12

\* A length never reaches the samples.
LEMMA WriteBehind ==
  ASSUME StreamInv, Behind, WriteOut
  PROVE  /\ SamplesInv' /\ Behind' /\ (Whole(size) => Whole(size)')
         /\ (First <= size => size' = size) /\ (size < First => size' <= First)
<1>1. /\ pend # <<>> /\ disk' = [disk EXCEPT ![at] = Head(pend)]
      /\ size' = (IF at >= size THEN at + 1 ELSE size)
      /\ pend' = Tail(pend) /\ at' = at + 1 /\ UNCHANGED <<fixed, taken, trouble>>
  BY DEF WriteOut
<1>2. Len(pend) <= 1 /\ Len(pend) > 0 /\ Len(pend') = Len(pend) - 1 /\ pend' \in Seq(Cells)
      /\ at < HeaderLen
  BY <1>1, Types, BufferShape DEF StreamInv, Behind
<1>3. First' = First /\ (\A p : Sample(p)' = Sample(p)) /\ taken' = taken /\ HeaderLen' = HeaderLen
  BY <1>1, SameStart
<1>4. at < First /\ First \in Nat /\ size \in Nat /\ at \in Nat /\ taken \in Nat /\ size <= First + taken
  BY <1>2, Places
<1>5. (First <= size => size' = size) /\ (size < First => size' <= First) /\ size' \in Nat
  BY <1>1, <1>4
<1>6. Len(pend') = 0
  BY <1>2, Places
<1>7. Behind'
  <2>1. pend' = <<>>
    BY <1>2, <1>6, EmptySeq
  <2>2. QED
    BY <1>6, <2>1 DEF Behind
<1>8. SamplesInv'
  <2>1. ASSUME NEW p \in Offsets, First <= p, p < size' PROVE disk'[p] = Sample(p)
    <3>1. p < size /\ p # at
      BY <1>4, <1>5, <2>1, Places
    <3>2. disk'[p] = disk[p]
      BY <1>1, <2>1, <3>1, Types DEF StreamInv
    <3>3. QED
      BY <2>1, <3>1, <3>2 DEF StreamInv, SamplesInv
  <2>2. size' <= First + taken
    BY <1>4, <1>5
  <2>3. QED
    BY <1>3, <2>1, <2>2 DEF SamplesInv, Offsets
<1>9. Whole(size) => Whole(size)'
  <2>1. size = First + taken => size' = size
    BY <1>4, <1>5
  <2>2. QED
    BY <1>1, <1>3, <2>1 DEF Whole
<1>10. QED
  BY <1>5, <1>7, <1>8, <1>9

\* What the buffer holds reaches the file, in open, play and close.
LEMMA WriteOutStream == ASSUME StreamInv, WriteOut PROVE (SamplesInv /\ StageInv)'
<1>1. pc \in {"header", "play", "riff", "data", "size", "fclose"} /\ pend # <<>>
      /\ UNCHANGED <<fixed, pc, trouble, taken, flushed>>
  BY DEF WriteOut
<1>2. First' = First /\ driver' = driver
  BY <1>1, SameStart
<1>3. CASE Ahead /\ pc # "data" /\ (pc = "fclose" => Whole(Tell))
  <2>1. SamplesInv' /\ Ahead' /\ Tell' = Tell
    BY <1>3, WriteAhead
  <2>2. Whole(Tell) => Whole(Tell)'
    BY <1>1, <1>2, <2>1 DEF Whole
  <2>3. QED
    BY <1>1, <1>2, <1>3, <2>1, <2>2 DEF StreamInv, StageInv
<1>4. CASE Behind /\ Whole(size) /\ pc \in {"data", "fclose"}
  <2>1. SamplesInv' /\ Behind' /\ Whole(size)'
    BY <1>4, WriteBehind
  <2>2. QED
    BY <1>1, <1>2, <1>4, <2>1 DEF StreamInv, StageInv
<1>5. QED
  BY <1>1, <1>3, <1>4 DEF StreamInv, StageInv

\* The header goes to the buffer.
LEMMA HeaderStream == ASSUME StreamInv, WriteHeader(Header) PROVE (SamplesInv /\ StageInv)'
<1>1. /\ pc = "initialised" /\ pc' = "header" /\ pend' = Header
      /\ UNCHANGED <<fixed, file, at, taken>>
  BY DEF WriteHeader
<1>2. First' = First
  BY <1>1, SameStart
<1>3. SamplesInv' /\ size' = size
  BY <1>1, SameSamples, Places
<1>4. /\ at = base /\ at = size /\ taken = 0 /\ Len(Header) = HeaderLen /\ HeaderLen \in Nat
  BY <1>1, HeaderShape, Types DEF StreamInv, StageInv, Ahead
<1>5. Tell' = First
  BY <1>1, <1>4 DEF Tell, First
<1>6. Tell' <= First + taken'
  BY <1>1, <1>4, <1>5, Places
<1>7. \A i \in 1 .. Len(Header) : ~(First <= base + i - 1)
  BY <1>4, Places DEF First
<1>8. Ahead'
  BY <1>1, <1>2, <1>3, <1>4, <1>6, <1>7 DEF Ahead
<1>9. QED
  BY <1>1, <1>2, <1>3, <1>4, <1>5, <1>8 DEF StageInv

\* ao_play's bytes go on where the buffer ends.
LEMMA PlayStream ==
  ASSUME StreamInv, NEW n \in Chunks, Play(n)
  PROVE  (SamplesInv /\ StageInv)'
<1>1. /\ pc = "ready" /\ taken + n <= MaxBytes /\ pc' = "play" /\ pend' = pend \o Bytes(n)
      /\ taken' = taken + n /\ UNCHANGED <<fixed, file, at>>
  BY DEF Play
<1>2. n \in Nat /\ Bytes(n) \in Seq(Cells) /\ Len(Bytes(n)) = n
      /\ \A i \in 1 .. n : Bytes(n)[i] = Cell("byte", taken + i)
  BY <1>1, Numbers, Types, BytesPlayed DEF StreamInv
<1>3. /\ Len(pend \o Bytes(n)) = Len(pend) + n
      /\ \A i \in 1 .. Len(pend) + n : (pend \o Bytes(n))[i] =
           IF i <= Len(pend) THEN pend[i] ELSE Bytes(n)[i - Len(pend)]
  BY <1>2, Types, ConcatProperties DEF StreamInv
<1>4. First' = First /\ (\A p : Sample(p)' = Sample(p))
  BY <1>1, SameStart
<1>5. Ahead /\ Tell = First + taken
  BY <1>1 DEF StreamInv, StageInv
<1>6. taken' \in Nat /\ taken <= taken'
  BY <1>1, <1>2, Places
<1>7. SamplesInv' /\ size' = size /\ at' = size
  BY <1>1, <1>5, <1>6, SameSamples DEF Ahead
<1>8. PICK len \in Nat, first \in Nat, here \in Nat, old \in Nat :
          len = Len(pend) /\ first = First /\ here = at /\ old = taken
  BY Places
<1>9. Len(pend') = len + n /\ here + len = first + old
  BY <1>1, <1>3, <1>5, <1>8 DEF Tell
<1>10. Tell' = First' + taken' /\ Tell' <= First' + taken'
  <2>1. Tell' = here + (len + n)
    BY <1>1, <1>8, <1>9 DEF Tell
  <2>2. here + (len + n) = first + (old + n) /\ first + (old + n) <= first + (old + n)
    <3>1. n \in Nat /\ here + len = first + old
      BY <1>2, <1>9
    <3>2. QED
      BY <1>8, <3>1
  <2>3. First' + taken' = first + (old + n)
    BY <1>1, <1>4, <1>8
  <2>4. QED
    BY <2>1, <2>2, <2>3, Zenon
<1>11. ASSUME NEW i \in 1 .. Len(pend'), First <= at + i - 1 PROVE pend'[i] = Sample(at + i - 1)
  <2>1. i \in 1 .. len + n
    BY <1>9
  <2>2. CASE i <= len
    <3>1. i \in 1 .. Len(pend) /\ pend'[i] = pend[i]
      BY <1>1, <1>3, <1>8, <2>1, <2>2
    <3>2. QED
      BY <1>5, <1>11, <3>1 DEF Ahead
  <2>3. CASE ~(i <= len)
    <3>1. i - len \in 1 .. n
      BY <1>2, <1>8, <2>1, <2>3
    <3>2. pend'[i] = Bytes(n)[i - len]
      BY <1>1, <1>3, <1>8, <2>1, <2>3
    <3>3. pend'[i] = Cell("byte", old + (i - len))
      BY <1>2, <1>8, <3>1, <3>2
    <3>4. (here + i - 1) - first + 1 = old + (i - len)
      BY <1>8, <1>9, <2>1, <1>2
    <3>5. Sample(here + i - 1) = Cell("byte", (here + i - 1) - first + 1)
      BY <1>8 DEF Sample
    <3>6. QED
      BY <1>8, <3>3, <3>4, <3>5
  <2>4. QED
    BY <2>2, <2>3
<1>12. Ahead'
  BY <1>1, <1>4, <1>7, <1>10, <1>11 DEF Ahead
<1>13. QED
  BY <1>1, <1>7, <1>10, <1>12 DEF StageInv

\* A short fwrite leaves a part of the buffer.
LEMMA FailStream ==
  ASSUME StreamInv, NEW k \in 0 .. Buffered, FwriteFails(k)
  PROVE  (SamplesInv /\ StageInv)'
<1>1. /\ pc \in {"header", "play"} /\ pc' = "failed" /\ pend' = SubSeq(pend, 1, k) /\ k < Len(pend)
      /\ trouble' \in {"open", "play"} /\ UNCHANGED <<fixed, file, at, taken>>
  BY DEF FwriteFails
<1>2. k \in 0 .. Len(pend) /\ k \in Nat
  BY <1>1, Numbers, Places
<1>3. Len(pend') = k /\ \A i \in 1 .. k : pend'[i] = pend[i] /\ i \in 1 .. Len(pend)
  BY <1>1, <1>2, Types, BufferShape DEF StreamInv
<1>4. First' = First /\ (\A p : Sample(p)' = Sample(p))
  BY <1>1, SameStart
<1>5. Ahead
  BY <1>1 DEF StreamInv, StageInv
<1>6. SamplesInv' /\ size' = size
  BY <1>1, SameSamples, Places
<1>7. Tell' <= First + taken
  <2>1. Tell' = at + k
    BY <1>1, <1>3 DEF Tell
  <2>2. Tell <= First + taken
    BY <1>5 DEF Ahead
  <2>3. QED
    BY <1>1, <1>2, <2>1, <2>2, Places
<1>8. Ahead'
  BY <1>1, <1>3, <1>4, <1>5, <1>6, <1>7 DEF Ahead
<1>9. QED
  BY <1>1, <1>6, <1>8 DEF StageInv

\* A length goes to the buffer once the rest of it is in the file.
LEMMA LengthStream ==
  ASSUME StreamInv, NEW f \in Fields, WriteLength(f), pc' \in {"data", "fclose"},
         pc' = "data" => driver = "wav", Whole(size)
  PROVE  (SamplesInv /\ StageInv)'
<1>1. /\ at' = f /\ pend' = <<Cell("length", Length(f))>>
      /\ UNCHANGED <<fixed, file, trouble, taken>>
  BY DEF WriteLength
<1>2. First' = First /\ HeaderLen' = HeaderLen /\ driver' = driver
  BY <1>1, SameStart
<1>3. SamplesInv' /\ size' = size
  BY <1>1, SameSamples, Places
<1>4. f < HeaderLen
  BY Positions DEF StreamInv
<1>5. Behind'
  BY <1>1, <1>2, <1>4 DEF Behind
<1>6. Whole(size)'
  BY <1>1, <1>2, <1>3 DEF Whole
<1>7. QED
  BY <1>2, <1>3, <1>5, <1>6 DEF StageInv

\* close goes on with an empty buffer.
LEMMA Emptied ==
  ASSUME StreamInv, pend = <<>>, pc \in {"riff", "size", "data"}
  PROVE  Whole(size)
<1>1. CASE pc \in {"riff", "size"}
  <2>1. at = size /\ Tell = at + 0 /\ Whole(Tell)
    BY <1>1 DEF StreamInv, StageInv, Ahead, Tell
  <2>2. Tell = size
    BY <2>1, Places
  <2>3. QED
    BY <2>1, <2>2
<1>2. CASE pc = "data"
  BY <1>2 DEF StreamInv, StageInv
<1>3. QED
  BY <1>1, <1>2

\* fclose empties the buffer or loses it.
LEMMA FcloseStream == ASSUME StreamInv, Fclose PROVE (SamplesInv /\ StageInv)'
<1>1. /\ pc = "fclose" /\ pc' = "closed" /\ flushed' = (pend = <<>>)
      /\ UNCHANGED <<fixed, file, at, trouble, taken>>
  BY DEF Fclose
<1>2. First' = First
  BY <1>1, SameStart
<1>3. SamplesInv' /\ size' = size
  BY <1>1, SameSamples, Places
<1>4. ASSUME flushed' PROVE Whole(size)'
  <2>1. pend = <<>>
    BY <1>1, <1>4, Zenon
  <2>2. Whole(size)
    <3>1. CASE Ahead /\ Whole(Tell)
      <4>1. Tell = size
        BY <2>1, <3>1, Places DEF Ahead, Tell
      <4>2. QED
        BY <3>1, <4>1
    <3>2. QED
      BY <1>1, <3>1 DEF StreamInv, StageInv
  <2>3. QED
    BY <1>1, <1>2, <1>3, <2>2 DEF Whole
<1>5. QED
  BY <1>1, <1>3, <1>4 DEF StageInv

\* Every step keeps the samples.
LEMMA StreamStep == ASSUME StreamInv, TypeInv', [Next]_vars PROVE StreamInv'
<1>1. CASE WriteOut
  BY <1>1, WriteOutStream, SameStart DEF WriteOut, StreamInv
<1>2. CASE Open
  <2>1. CASE WavOpen \/ AuOpen \/ RawOpen
    <3>1. WriteHeader(Header)
      BY <2>1 DEF WavOpen, AuOpen, RawOpen, Header
    <3>2. QED
      BY <3>1, HeaderStream, SameStart DEF WriteHeader, StreamInv
  <2>2. CASE HeaderWritten
    <3>1. /\ pc = "header" /\ pc' = "ready" /\ UNCHANGED <<fixed, file, buffer, taken>>
      BY <2>2 DEF HeaderWritten
    <3>2. Ahead /\ Tell = First /\ taken = 0
      BY <3>1 DEF StreamInv, StageInv
    <3>3. First = First + 0
      BY Places
    <3>4. QED
      BY <3>1, <3>2, <3>3, SameStream DEF StreamInv, StageInv
  <2>3. CASE OpenRefused
    <3>1. /\ pc = "initialised" /\ pc' = "failed" /\ trouble' = "open"
          /\ UNCHANGED <<fixed, file, buffer, taken>>
      BY <2>3 DEF OpenRefused
    <3>2. QED
      BY <3>1, SameStream DEF StreamInv, StageInv
  <2>4. QED
    BY <1>2, <2>1, <2>2, <2>3 DEF Open
<1>3. ASSUME NEW n \in Chunks, Play(n) PROVE StreamInv'
  BY <1>3, PlayStream, SameStart DEF Play, StreamInv
<1>4. CASE Played
  <2>1. /\ pc = "play" /\ pc' = "ready" /\ UNCHANGED <<fixed, file, buffer, taken>>
    BY <1>4 DEF Played
  <2>2. QED
    BY <2>1, SameStream DEF StreamInv, StageInv
<1>5. ASSUME NEW k \in 0 .. Buffered, FwriteFails(k) PROVE StreamInv'
  BY <1>5, FailStream, SameStart DEF FwriteFails, StreamInv
<1>6. CASE Close
  <2>1. CASE WavClose \/ AuClose \/ RawClose
    <3>1. /\ pc \in {"ready", "failed"} /\ pc' \in {"riff", "size", "fclose"}
          /\ (pc' = "riff" => driver = "wav") /\ (pc' = "size" => driver = "au")
          /\ UNCHANGED <<fixed, file, buffer, trouble, taken>>
      BY <2>1 DEF WavClose, AuClose, RawClose, SeekTo, Leave
    <3>2. Ahead /\ Whole(Tell)
      BY <3>1 DEF StreamInv, StageInv, Whole
    <3>3. Whole(Tell)'
      BY <3>1, <3>2, SameStream DEF Whole
    <3>4. QED
      BY <3>1, <3>2, <3>3, SameStream DEF StreamInv, StageInv
  <2>2. CASE WavWriteRiff \/ AuWriteSize \/ WavWriteData
    <3>1. PICK f \in {1, 3} : WriteLength(f) /\ (f = 3 => pc = "data")
      BY <2>2 DEF WavWriteRiff, AuWriteSize, WavWriteData
    <3>2. /\ pc \in {"riff", "size", "data"} /\ pc' \in {"data", "fclose"}
          /\ (pc' = "data" => pc = "riff") /\ pend = <<>> /\ UNCHANGED fixed
      BY <2>2, <3>1 DEF WavWriteRiff, AuWriteSize, WavWriteData, WriteLength
    <3>3. Whole(size)
      BY <3>2, Emptied
    <3>4. (pc \in {"riff", "data"} => driver = "wav") /\ (pc = "size" => driver = "au")
      BY DEF StreamInv, StageInv
    <3>5. f \in Fields
      BY <3>1, <3>2, <3>4 DEF Fields
    <3>6. QED
      BY <3>1, <3>2, <3>3, <3>4, <3>5, LengthStream, SameStart DEF StreamInv
  <2>3. CASE WavCloseFails \/ AuCloseFails
    <3>1. /\ pc \in {"riff", "data", "size"} /\ pc' = "fclose"
          /\ UNCHANGED <<fixed, file, buffer, trouble, taken>>
      BY <2>3 DEF WavCloseFails, AuCloseFails
    <3>2. (Ahead /\ Whole(Tell)) \/ (Behind /\ Whole(size))
      BY <3>1 DEF StreamInv, StageInv
    <3>3. (Whole(Tell) => Whole(Tell)') /\ (Whole(size) => Whole(size)')
      BY <3>1, SameStream DEF Whole
    <3>4. QED
      BY <3>1, <3>2, <3>3, SameStream DEF StreamInv, StageInv
  <2>4. CASE Fclose
    BY <2>4, FcloseStream, SameStart DEF Fclose, StreamInv
  <2>5. QED
    BY <1>6, <2>1, <2>2, <2>3, <2>4 DEF Close
<1>7. CASE UNCHANGED vars
  <2>1. UNCHANGED <<fixed, file, buffer, taken>> /\ pc' = pc /\ trouble' = trouble
        /\ flushed' = flushed
    BY <1>7 DEF vars
  <2>2. (Whole(Tell) => Whole(Tell)') /\ (Whole(size) => Whole(size)')
    BY <2>1, SameStream DEF Whole
  <2>3. QED
    BY <2>1, <2>2, SameStream DEF StreamInv, StageInv
<1>8. QED
  BY <1>1, <1>2, <1>3, <1>4, <1>5, <1>6, <1>7 DEF Next

\* A stream starts with no samples where its file stands.
LEMMA StreamStarts == Init => StreamInv
<1> SUFFICES ASSUME Init PROVE StreamInv
  OBVIOUS
<1>1. TypeInv
  BY TypeInit
<1>2. pc = "initialised" /\ pend = <<>> /\ at = base /\ size = base /\ taken = 0
      /\ base \in Nat /\ base <= MaxStart
  BY Numbers DEF Init
<1>3. HeaderLen \in Nat
  BY <1>1, Types, HeaderShape
<1>4. Tell = base /\ base <= First /\ First \in Nat
  BY <1>2, <1>3 DEF Tell, First
<1>5. SamplesInv
  BY <1>2, <1>4 DEF SamplesInv, Offsets
<1>6. Ahead
  BY <1>2, <1>4 DEF Ahead
<1>7. QED
  BY <1>1, <1>2, <1>5, <1>6 DEF StreamInv, StageInv

\* The invariant.
LEMMA StreamInductive == Spec => []StreamInv
<1>1. IInv' => TypeInv'
  BY DEF IInv
<1>2. StreamInv /\ IInv' /\ [Next]_vars => StreamInv'
  BY <1>1, StreamStep
<1>3. QED
  BY <1>2, StreamStarts, Inductive, PTL DEF Spec
-----------------------------------------------------------------------------
(* The file as a FIFO. *)

\* How many samples are in the file.
Count == IF size > First THEN size - First ELSE 0

\* They are the first ones, in order.
InOrder ==
  /\ Count \in Nat /\ Count <= taken
  /\ Stored = [i \in 1 .. Count |-> i] /\ Len(Stored) = Count

\* The invariant says that what is stored is in order.
LEMMA StoredInOrder == ASSUME StreamInv PROVE InOrder
<1>1. PICK f \in Nat, t \in 0 .. MaxBytes, s \in Nat, m \in Nat :
        f = First /\ t = taken /\ s = size /\ s <= f + t /\ m = MaxStart /\ f <= m + 4
        /\ MaxBytes \in Nat /\ Offsets = 0 .. m + MaxBytes + 4
  BY Places
<1>2. Count \in Nat /\ Count <= taken
  BY <1>1 DEF Count
<1>3. ASSUME NEW i \in 1 .. Count
      PROVE  disk[First + i - 1].what = "byte" /\ disk[First + i - 1].value = i
  <2>1. /\ f + i - 1 \in 0 .. m + MaxBytes + 4 /\ f <= f + i - 1 /\ f + i - 1 < s
        /\ (f + i - 1) - f + 1 = i /\ i \in 0 .. MaxBytes
    BY <1>1 DEF Count
  <2>2. disk[f + i - 1] = Sample(f + i - 1)
    BY <1>1, <2>1 DEF StreamInv, SamplesInv
  <2>3. Sample(f + i - 1) = Cell("byte", i)
    BY <1>1, <2>1 DEF Sample
  <2>4. QED
    BY <1>1, <2>1, <2>2, <2>3, CellsWritten
<1>4. Stored = [i \in 1 .. Count |-> i]
  <2>1. Stored = [i \in 1 .. Count |-> IF disk[First + i - 1].what = "byte"
                                       THEN disk[First + i - 1].value ELSE 0]
    BY DEF Stored, Count, First
  <2>2. QED
    BY <1>3, <2>1
<1>5. Len(Stored) = Count
  BY <1>2, <1>4
<1>6. QED
  BY <1>2, <1>4, <1>5 DEF InOrder

\* A step takes bytes, stores the next one, or leaves both counts alone.
FifoStep == Fifo!FifoNext \/ UNCHANGED <<[d \in {1} |-> taken], [d \in {1} |-> Stored]>>

\* As many samples are in the file as before.
LEMMA SameCount ==
  ASSUME InOrder, InOrder', Count' = Count, taken' = taken
  PROVE  FifoStep
BY DEF InOrder, FifoStep

\* ao_play takes bytes.
LEMMA TakesBytes ==
  ASSUME InOrder, InOrder', Count' = Count, NEW n \in Nat \ {0}, taken' = taken + n,
         taken' <= MaxBytes, taken \in Nat
  PROVE  FifoStep
<1>1. Len(Stored) \in Nat /\ MaxBytes \in Nat /\ n \in 1 .. MaxBytes + 1 /\ Stored' = Stored
  BY Numbers DEF InOrder
<1>2. taken + n - Len(Stored) <= MaxBytes + 1
  BY <1>1
<1>3. Fifo!Take(1, n)
  BY <1>1, <1>2 DEF Fifo!Take
<1>4. QED
  BY <1>1, <1>3 DEF FifoStep, Fifo!FifoNext

\* The next sample reaches the file.
LEMMA StoresNext ==
  ASSUME InOrder, InOrder', Count' = Count + 1, taken' = taken, taken \in Nat
  PROVE  FifoStep
<1>1. PICK n \in Nat : n = Count /\ n + 1 <= taken
  BY DEF InOrder
<1>2. Stored = [i \in 1 .. n |-> i] /\ Stored' = [i \in 1 .. n + 1 |-> i] /\ Len(Stored) = n
  BY <1>1 DEF InOrder
<1>3. Stored \o [i \in 1 .. 1 |-> n + i] = Stored'
  <2> DEFINE one == [i \in 1 .. 1 |-> n + i]
  <2>1. Stored \in Seq(Nat) /\ one \in Seq(Nat) /\ Len(one) = 1
    BY <1>1, <1>2
  <2>2. Stored' \in Seq(Nat) /\ Len(Stored') = n + 1
    BY <1>1, <1>2
  <2>3. /\ Stored \o one \in Seq(Nat) /\ Len(Stored \o one) = n + 1
        /\ \A i \in 1 .. n + 1 : (Stored \o one)[i] = IF i <= n THEN Stored[i] ELSE one[i - n]
    BY <1>2, <2>1, ConcatProperties
  <2>4. \A i \in 1 .. n + 1 : (Stored \o one)[i] = Stored'[i]
    <3> SUFFICES ASSUME NEW i \in 1 .. n + 1 PROVE (Stored \o one)[i] = i
      BY <1>2
    <3>1. CASE i <= n
      BY <1>1, <1>2, <2>3, <3>1
    <3>2. CASE ~(i <= n)
      BY <1>1, <1>2, <2>3, <3>2
    <3>3. QED
      BY <3>1, <3>2
  <2> HIDE DEF one
  <2>5. Stored \o one = Stored'
    BY <2>2, <2>3, <2>4, SeqEqual
  <2>6. QED
    BY <2>5 DEF one
<1>4. Fifo!Deliver(1, 1)
  <2> DEFINE outs == [d \in {1} |-> Stored]
  <2>1. Len(Stored) + 1 <= taken /\ outs[1] = Stored
    BY <1>1, <1>2
  <2>2. [d \in {1} |-> Stored'] = [outs EXCEPT ![1] = Stored \o [i \in 1 .. 1 |-> Len(Stored) + i]]
    BY <1>2, <1>3
  <2>3. QED
    BY <2>1, <2>2 DEF Fifo!Deliver
<1>5. 1 \in 1 .. MaxBytes + 1
  BY Numbers
<1>6. QED
  BY <1>4, <1>5 DEF FifoStep, Fifo!FifoNext

\* Every step is one of SampleFifo.
LEMMA FifoStepHolds ==
  ASSUME StreamInv, InOrder, InOrder', [Next]_vars
  PROVE  FifoStep
<1>1. size \in Nat /\ First \in Nat /\ taken \in Nat
  BY Places
<1>2. CASE WriteOut
  <2>1. taken' = taken /\ UNCHANGED fixed
    BY <1>2 DEF WriteOut
  <2>2. First' = First
    BY <2>1, SameStart
  <2>3. CASE Ahead
    <3>1. size' = size + 1
      BY <1>2, <2>3, WriteAhead
    <3>2. Count' = Count \/ Count' = Count + 1
      BY <1>1, <2>2, <3>1 DEF Count
    <3>3. QED
      BY <1>1, <2>1, <3>2, SameCount, StoresNext
  <2>4. CASE Behind
    <3>1. (First <= size => size' = size) /\ (size < First => size' <= First)
      BY <1>2, <2>4, WriteBehind
    <3>2. size' = size \/ size' = at + 1
      BY <1>2 DEF WriteOut
    <3>3. size' \in Nat
      BY <1>1, <3>2, Places
    <3>4. ASSUME First <= size PROVE Count' = Count
      BY <2>2, <3>1, <3>4 DEF Count
    <3>5. ASSUME size < First PROVE Count' = Count
      <4>1. size' <= First'
        BY <2>2, <3>1, <3>5
      <4>2. ~(size > First) /\ ~(size' > First')
        BY <1>1, <2>2, <3>3, <3>5, <4>1
      <4>3. QED
        BY <4>2 DEF Count
    <3>6. Count' = Count
      BY <1>1, <3>4, <3>5
    <3>7. QED
      BY <2>1, <3>6, SameCount
  <2>5. QED
    BY <1>2, <2>3, <2>4 DEF WriteOut, StreamInv, StageInv
<1>3. ASSUME NEW n \in Chunks, Play(n) PROVE FifoStep
  <2>1. taken' = taken + n /\ taken' <= MaxBytes /\ UNCHANGED <<fixed, file>>
    BY <1>3 DEF Play
  <2>2. Count' = Count
    BY <2>1, SameStart DEF Count, file
  <2>3. n \in Nat \ {0}
    BY Numbers
  <2>4. QED
    BY <1>1, <2>1, <2>2, <2>3, TakesBytes
<1>4. ASSUME UNCHANGED <<fixed, file, taken>> PROVE FifoStep
  <2>1. Count' = Count
    BY <1>4, SameStart DEF Count, file
  <2>2. QED
    BY <1>4, <2>1, SameCount
<1>5. CASE ~WriteOut /\ (\A n \in Chunks : ~Play(n))
  BY <1>4, <1>5
  DEF Next, Open, WavOpen, AuOpen, RawOpen, WriteHeader, HeaderWritten, OpenRefused, Played,
      FwriteFails, Close, WavClose, AuClose, RawClose, SeekTo, Leave, WavWriteRiff, WavWriteData,
      AuWriteSize, WriteLength, WavCloseFails, AuCloseFails, Fclose, vars
<1>6. QED
  BY <1>2, <1>3, <1>5

\* The samples reach the file in order and none is lost again, wherever the
\* stream starts in its file and whichever write fails; all are there when no
\* call has failed and fclose has written the rest.
THEOREM Delivers == Spec => DeliversInOrder
<1>1. Init => Fifo!FifoInit
  <2> SUFFICES ASSUME Init PROVE Fifo!FifoInit
    OBVIOUS
  <2>1. StreamInv /\ InOrder
    BY StreamStarts, StoredInOrder
  <2>2. taken = 0 /\ Count = 0
    <3>1. size = base /\ taken = 0
      BY DEF Init
    <3>2. size <= First /\ size \in Nat /\ First \in Nat
      BY <2>1, <3>1, Places
    <3>3. QED
      BY <3>1, <3>2 DEF Count
  <2>3. Stored = <<>>
    BY <2>1, <2>2 DEF InOrder
  <2>4. QED
    BY <2>2, <2>3 DEF Fifo!FifoInit
<1>2. StreamInv => InOrder
  BY StoredInOrder
<1>3. StreamInv /\ InOrder /\ InOrder' /\ [Next]_vars =>
        [Fifo!FifoNext]_<<[d \in {1} |-> taken], [d \in {1} |-> Stored]>>
  BY FifoStepHolds DEF FifoStep
<1>4. StreamInv => (pc = "closed" /\ trouble = "none" /\ flushed => Len(Stored) = taken)
  <2> SUFFICES ASSUME StreamInv, pc = "closed", trouble = "none", flushed
               PROVE  Len(Stored) = taken
    OBVIOUS
  <2>1. size = First + taken /\ InOrder
    BY StoredInOrder DEF StreamInv, StageInv, Whole
  <2>2. PICK f \in Nat, t \in Nat : f = First /\ t = taken /\ size = f + t
    BY <2>1, Places
  <2>3. Count = t
    BY <2>2 DEF Count
  <2>4. QED
    BY <2>1, <2>2, <2>3 DEF InOrder
<1>5. QED
  BY <1>1, <1>2, <1>3, <1>4, StreamInductive, PTL DEF Spec, DeliversInOrder, Fifo!FifoSpec
=============================================================================
