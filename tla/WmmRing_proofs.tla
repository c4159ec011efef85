--------------------------- MODULE WmmRing_proofs ---------------------------
(***************************************************************************)
(* Proofs about WmmRing, for a ring of any size and blocks of any length:  *)
(* type correctness, that sent_blocks counts the blocks that are out, and  *)
(* that the ring is a FIFO which loses less than a block at the end, and   *)
(* does not turn back when waveOutWrite fails.                             *)
(*                                                                         *)
(* The invariant follows the bytes from block to block: the blocks that    *)
(* Windows has are full, in the order of the queue, each goes on where the *)
(* one before it ends, and the block at widx, if it is not among them,     *)
(* goes on where the last one ends.  All other blocks are empty.           *)
(***************************************************************************)
EXTENDS WmmRing, SequenceTheorems, FiniteSetTheorems, TLAPS

\* The blocks Windows has.
Given == {queue[k] : k \in 1 .. Len(queue)}

Sent == {i \in Block : sent[i]}

TypeInv ==
  /\ TypeOK /\ data \in [Block -> Seq(1 .. taken)] /\ out \in Seq(1 .. taken)
  /\ pc = "play" => left \in Nat \ {0} /\ taken + left <= MaxBytes
  /\ pc \in {"none", "refused", "closed"} => queue = <<>>

CountInv ==
  /\ SentAreCounted /\ \A i \in Block : done[i] => sent[i]
  /\ \A k, l \in 1 .. Len(queue) : queue[k] = queue[l] => k = l

FillInv ==
  /\ \A i \in Given : Len(data[i]) = Length
  /\ \A i \in Block \ Given : Len(data[i]) < Length /\ (i # widx => data[i] = <<>>)

\* The bytes from out over the queue to the block at widx, when none was lost.
OrderInv ==
  failure = "none" =>
    /\ \A k \in 1 .. Len(queue), j \in 1 .. Length :
         data[queue[k]][j] = Len(out) + (k - 1) * Length + j
    /\ widx \in Given => taken = Len(out) + Len(queue) * Length
    /\ widx \notin Given =>
         /\ taken = Len(out) + Len(queue) * Length + Len(data[widx])
         /\ \A j \in 1 .. Len(data[widx]) : data[widx][j] = Len(out) + Len(queue) * Length + j

Rising(s) == \A i, j \in 1 .. Len(s) : i < j => s[i] < s[j]
Before(s, t) == \A i \in 1 .. Len(s), j \in 1 .. Len(t) : s[i] < t[j]

\* The same bytes whatever was lost: none comes before an earlier one.
RiseInv ==
  /\ Rising(out) /\ \A i \in Block : Rising(data[i]) /\ Before(out, data[i])
  /\ \A k, l \in 1 .. Len(queue) : k < l => Before(data[queue[k]], data[queue[l]])
  /\ widx \notin Given => \A k \in 1 .. Len(queue) : Before(data[queue[k]], data[widx])

IInv == TypeInv /\ CountInv /\ FillInv /\ OrderInv /\ RiseInv
-----------------------------------------------------------------------------
(* Sequences and arithmetic. *)

\* Indices of the ring.
LEMMA Modulo == \A a \in Nat, b \in Nat \ {0} : a % b \in 0 .. b - 1
OBVIOUS

\* Rising sequences one before the other make a rising sequence.
LEMMA RisingConcat ==
  ASSUME NEW s \in Seq(Nat), NEW t \in Seq(Nat), Rising(s), Rising(t), Before(s, t)
  PROVE  Rising(s \o t)
<1>1. Len(s) \in Nat /\ Len(t) \in Nat /\ Len(s \o t) = Len(s) + Len(t)
      /\ \A i \in 1 .. Len(s) + Len(t) : (s \o t)[i] = IF i <= Len(s) THEN s[i] ELSE t[i - Len(s)]
  BY ConcatProperties, LenProperties
<1>2. SUFFICES ASSUME NEW i \in 1 .. Len(s) + Len(t), NEW j \in 1 .. Len(s) + Len(t), i < j
               PROVE  (s \o t)[i] < (s \o t)[j]
  BY <1>1 DEF Rising
<1>3. CASE j <= Len(s)
  <2>1. i \in 1 .. Len(s) /\ j \in 1 .. Len(s)
    BY <1>1, <1>2, <1>3
  <2>2. QED
    BY <1>1, <1>2, <2>1 DEF Rising
<1>4. CASE i <= Len(s) /\ j > Len(s)
  <2>1. i \in 1 .. Len(s) /\ j - Len(s) \in 1 .. Len(t) /\ ~(j <= Len(s))
    BY <1>1, <1>2, <1>4
  <2>2. QED
    BY <1>1, <2>1 DEF Before
<1>5. CASE i > Len(s)
  <2>1. /\ i - Len(s) \in 1 .. Len(t) /\ j - Len(s) \in 1 .. Len(t)
        /\ i - Len(s) < j - Len(s) /\ ~(i <= Len(s)) /\ ~(j <= Len(s))
    BY <1>1, <1>2, <1>5
  <2>2. QED
    BY <1>1, <2>1 DEF Rising
<1>6. QED
  BY <1>1, <1>2, <1>3, <1>4, <1>5

\* What is before two sequences is before both together, and the other way round.
LEMMA BeforeConcat ==
  ASSUME NEW s \in Seq(Nat), NEW t \in Seq(Nat), NEW u \in Seq(Nat)
  PROVE  /\ Before(u, s) /\ Before(u, t) => Before(u, s \o t)
         /\ Before(s, u) /\ Before(t, u) => Before(s \o t, u)
<1>1. Len(s) \in Nat /\ Len(t) \in Nat /\ Len(s \o t) = Len(s) + Len(t)
      /\ \A i \in 1 .. Len(s) + Len(t) : (s \o t)[i] = IF i <= Len(s) THEN s[i] ELSE t[i - Len(s)]
  BY ConcatProperties, LenProperties
<1>2. \A i \in 1 .. Len(s \o t) :
        \/ i \in 1 .. Len(s) /\ (s \o t)[i] = s[i]
        \/ i - Len(s) \in 1 .. Len(t) /\ (s \o t)[i] = t[i - Len(s)]
  BY <1>1
<1>3. ASSUME Before(u, s), Before(u, t) PROVE Before(u, s \o t)
  BY <1>2, <1>3 DEF Before
<1>4. ASSUME Before(s, u), Before(t, u) PROVE Before(s \o t, u)
  BY <1>2, <1>4 DEF Before
<1>5. QED
  BY <1>3, <1>4

\* The bytes that ao_wmm_play takes next.
LEMMA NewBytes ==
  ASSUME NEW a \in Nat, NEW n \in Nat, NEW s \in Seq(1 .. a)
  PROVE  LET new == [i \in 1 .. n |-> a + i]
         IN /\ new \in Seq(1 .. a + n) /\ new \in Seq(Nat) /\ Len(new) = n
            /\ Rising(new) /\ Before(s, new)
<1> DEFINE new == [i \in 1 .. n |-> a + i]
<1>1. new \in Seq(1 .. a + n) /\ new \in Seq(Nat) /\ Len(new) = n
  OBVIOUS
<1>2. Rising(new)
  BY <1>1 DEF Rising
<1>3. \A i \in 1 .. Len(s) : s[i] \in 1 .. a
  BY ElementOfSeq
<1>4. Before(s, new)
  BY <1>1, <1>3, LenProperties DEF Before
<1>5. QED
  BY <1>1, <1>2, <1>4

\* Consecutive numbers.
LEMMA Consecutive ==
  ASSUME NEW a \in Nat, NEW n \in Nat
  PROVE  [i \in 1 .. n |-> a + i] \in Seq(Nat) /\ Len([i \in 1 .. n |-> a + i]) = n
OBVIOUS

\* Bytes up to a are bytes up to b.
LEMMA MoreBytes == ASSUME NEW a \in Nat, NEW b \in Nat, a <= b PROVE Seq(1 .. a) \subseteq Seq(1 .. b)
BY SeqMonotonic, 1 .. a \subseteq 1 .. b

\* Byte positions are numbers.
LEMMA BytesAreNumbers == ASSUME NEW a \in Nat PROVE Seq(1 .. a) \subseteq Seq(Nat)
BY SeqMonotonic, 1 .. a \subseteq Nat
-----------------------------------------------------------------------------
(* The ring's counters. *)

\* Only blocks that are sent and done are released.
LEMMA ReleasedAreDone == Released \subseteq {i \in Block : sent[i] /\ done[i]}
<1> SUFFICES ASSUME NEW i \in Released PROVE i \in Block /\ sent[i] /\ done[i]
  OBVIOUS
<1>1. PICK k \in Block : At(k) = i /\ \A j \in 0 .. k : Done(At(j))
  BY DEF Released
<1>2. k \in 0 .. k
  BY <1>1 DEF Block
<1>3. QED
  BY <1>1, <1>2 DEF Released, Done

\* The sets of blocks are finite.
LEMMA BlocksFinite ==
  /\ IsFiniteSet(Block) /\ Cardinality(Block) = Blocks
  /\ IsFiniteSet(Sent) /\ Cardinality(Sent) \in 0 .. Blocks
  /\ IsFiniteSet(Released) /\ Cardinality(Released) \in Nat
<1>1. IsFiniteSet(Block) /\ Cardinality(Block) = Blocks
  BY FS_Interval, RingAssumption DEF Block
<1>2. Sent \in SUBSET Block /\ Released \in SUBSET Block
  BY DEF Sent, Released
<1>3. QED
  BY <1>1, <1>2, FS_Subset, FS_CardinalityType

\* What _ao_get_free_block takes from sent_blocks.
LEMMA ReleaseCounts ==
  ASSUME TypeOK, SentAreCounted
  PROVE  /\ Minus(sentBlocks, Cardinality(Released)) = Cardinality(Sent \ Released)
         /\ IsFiniteSet(Sent \ Released) /\ Cardinality(Sent \ Released) \in 0 .. Blocks
         /\ Sent \ Released = {i \in Block : SentAfter[i]}
         /\ \A i \in Block : SentAfter[i] /\ ~DoneAfter[i] <=> sent[i] /\ ~done[i]
         /\ NextRidx \in Block
         /\ SentAfter \in [Block -> BOOLEAN] /\ DoneAfter \in [Block -> BOOLEAN]
<1>1. Released \subseteq Sent /\ \A i \in Released : sent[i] /\ done[i]
  BY ReleasedAreDone DEF Sent
<1>2. Sent \cap Released = Released
  BY <1>1
<1>3. Cardinality(Sent \ Released) = Cardinality(Sent) - Cardinality(Released)
      /\ IsFiniteSet(Sent \ Released)
  BY <1>2, BlocksFinite, FS_Difference
<1>4. Cardinality(Sent \ Released) \in Nat
  BY <1>3, FS_CardinalityType
<1>5. sentBlocks = Cardinality(Sent)
  BY DEF SentAreCounted, Sent
<1>6. NextRidx \in Block
  <2>1. ridx + Cardinality(Released) \in Nat
    BY BlocksFinite, RingAssumption DEF TypeOK, Block
  <2>2. QED
    BY <2>1, Modulo, RingAssumption DEF NextRidx, At, Block
<1>7. Sent \ Released = {i \in Block : SentAfter[i]}
  BY DEF SentAfter, Sent
<1>8. \A i \in Block : SentAfter[i] /\ ~DoneAfter[i] <=> sent[i] /\ ~done[i]
  BY <1>1 DEF SentAfter, DoneAfter
<1>9. SentAfter \in [Block -> BOOLEAN] /\ DoneAfter \in [Block -> BOOLEAN]
  BY DEF SentAfter, DoneAfter
<1>10. Minus(sentBlocks, Cardinality(Released)) = Cardinality(Sent \ Released)
  BY <1>3, <1>4, <1>5, BlocksFinite DEF Minus
<1>11. Cardinality(Sent \ Released) \in 0 .. Blocks
  BY <1>3, <1>4, BlocksFinite, RingAssumption
<1>12. QED
  BY <1>3, <1>6, <1>7, <1>8, <1>9, <1>10, <1>11
-----------------------------------------------------------------------------
(* The bytes. *)

\* Steps that leave the bytes where they are.
LEMMA QuietKeeps ==
  ASSUME FillInv, OrderInv, RiseInv, UNCHANGED <<data, queue, out, widx, taken, failure>>
  PROVE  (FillInv /\ OrderInv /\ RiseInv)'
BY DEF FillInv, OrderInv, RiseInv, Given

\* What the types say of the sequences.
LEMMA Lengths ==
  ASSUME TypeInv
  PROVE  /\ taken \in Nat /\ Length \in Nat \ {0} /\ MaxBytes \in Nat /\ taken <= MaxBytes
         /\ Len(out) \in Nat /\ out \in Seq(Nat) /\ Len(queue) \in Nat
         /\ \A i \in Block : data[i] \in Seq(1 .. taken) /\ data[i] \in Seq(Nat) /\ Len(data[i]) \in Nat
         /\ \A k \in 1 .. Len(queue) : queue[k] \in Block
         /\ Given \subseteq Block
<1>1. taken \in Nat /\ Length \in Nat \ {0} /\ MaxBytes \in Nat /\ taken <= MaxBytes
  BY RingAssumption DEF TypeInv, TypeOK
<1>2. out \in Seq(1 .. taken) /\ queue \in Seq(Block) /\ \A i \in Block : data[i] \in Seq(1 .. taken)
  BY DEF TypeInv, TypeOK
<1>3. out \in Seq(Nat) /\ \A i \in Block : data[i] \in Seq(Nat)
  BY <1>1, <1>2, BytesAreNumbers
<1>4. \A i \in Block : Len(data[i]) \in Nat
  BY <1>2, LenProperties
<1>5. QED
  BY <1>1, <1>2, <1>3, <1>4, LenProperties, ElementOfSeq DEF Given

\* The block to fill is not with Windows, has room, and gets a part of what the
\* application plays.
LEMMA PartFits ==
  ASSUME TypeInv, CountInv, FillInv, pc = "play", ~SentAfter[widx]
  PROVE  /\ widx \in Block /\ widx \notin Given /\ Len(data[widx]) < Length
         /\ Part \in 1 .. left /\ Len(data[widx]) + Part <= Length
         /\ taken + Part <= MaxBytes
<1>1. widx \in Block /\ left \in Nat \ {0} /\ taken + left <= MaxBytes
  BY DEF TypeInv, TypeOK
<1>2. ~(sent[widx] /\ ~done[widx])
  BY <1>1, ReleaseCounts DEF TypeInv, CountInv
<1>3. widx \notin Given
  BY <1>1, <1>2 DEF CountInv, SentAreCounted, Given
<1>4. Len(data[widx]) < Length
  BY <1>1, <1>3 DEF FillInv
<1>5. QED
  BY <1>1, <1>3, <1>4, Lengths DEF Part

\* What Filled makes of the block at widx.
LEMMA FilledBlock ==
  ASSUME TypeInv, CountInv, FillInv, RiseInv, pc = "play", ~SentAfter[widx]
  PROVE  /\ Filled \in [Block -> Seq(1 .. taken + Part)]
         /\ \A i \in Block \ {widx} : Filled[i] = data[i]
         /\ Len(Filled[widx]) = Len(data[widx]) + Part
         /\ \A j \in 1 .. Len(Filled[widx]) :
              Filled[widx][j] = IF j <= Len(data[widx]) THEN data[widx][j]
                                ELSE taken + (j - Len(data[widx]))
         /\ Rising(Filled[widx]) /\ Before(out, Filled[widx])
         /\ \A k \in 1 .. Len(queue) : Before(data[queue[k]], Filled[widx])
<1> DEFINE new == [i \in 1 .. Part |-> taken + i]
<1>1. /\ widx \in Block /\ widx \notin Given /\ Part \in Nat /\ taken \in Nat
      /\ Len(data[widx]) \in Nat
      /\ data[widx] \in Seq(Nat) /\ out \in Seq(Nat)
      /\ \A k \in 1 .. Len(queue) : data[queue[k]] \in Seq(Nat) /\ queue[k] \in Block
      /\ \A k \in 1 .. Len(queue) : Before(data[queue[k]], data[widx])
  <2>1. widx \in Block /\ widx \notin Given /\ left \in Nat /\ Part \in 1 .. left
    BY PartFits DEF TypeInv, TypeOK
  <2>2. Part \in Nat
    BY <2>1
  <2>3. QED
    BY <2>1, <2>2, Lengths DEF RiseInv
<1>2. Filled = [data EXCEPT ![widx] = data[widx] \o new]
  BY DEF Filled
<1>3. Filled[widx] = data[widx] \o new /\ \A i \in Block \ {widx} : Filled[i] = data[i]
  BY <1>1, <1>2 DEF TypeInv
<1>4. \A s \in Seq(1 .. taken) : /\ new \in Seq(1 .. taken + Part) /\ new \in Seq(Nat)
                                  /\ Len(new) = Part /\ Rising(new) /\ Before(s, new)
  BY <1>1, NewBytes
<1>5. out \in Seq(1 .. taken) /\ \A i \in Block : data[i] \in Seq(1 .. taken)
  BY Lengths DEF TypeInv
<1>6. new \in Seq(1 .. taken + Part) /\ new \in Seq(Nat) /\ Len(new) = Part /\ Rising(new)
      /\ Before(out, new) /\ \A i \in Block : Before(data[i], new)
  BY <1>4, <1>5
<1>7. \A i \in Block : data[i] \in Seq(1 .. taken + Part)
  BY <1>1, <1>5, MoreBytes, taken + Part \in Nat, taken <= taken + Part
<1>8. Filled[widx] \in Seq(1 .. taken + Part) /\ Len(Filled[widx]) = Len(data[widx]) + Part
      /\ \A j \in 1 .. Len(data[widx]) + Part :
           Filled[widx][j] = IF j <= Len(data[widx]) THEN data[widx][j] ELSE new[j - Len(data[widx])]
  BY <1>1, <1>3, <1>6, <1>7, ConcatProperties
<1>9. \A j \in 1 .. Len(data[widx]) + Part : j > Len(data[widx]) =>
        new[j - Len(data[widx])] = taken + (j - Len(data[widx]))
  <2> SUFFICES ASSUME NEW j \in 1 .. Len(data[widx]) + Part, j > Len(data[widx])
               PROVE  new[j - Len(data[widx])] = taken + (j - Len(data[widx]))
    OBVIOUS
  <2>1. j - Len(data[widx]) \in 1 .. Part
    BY <1>1
  <2>2. QED
    BY <2>1
<1>10. Rising(Filled[widx])
  BY <1>1, <1>3, <1>6, Lengths, RisingConcat DEF RiseInv
<1>11. Before(out, Filled[widx])
  <2>1. Before(out, data[widx]) /\ Before(out, new)
    BY <1>1, <1>6 DEF RiseInv
  <2>2. Before(out, data[widx] \o new)
    BY <1>1, <1>6, <2>1, BeforeConcat
  <2>3. QED
    BY <1>3, <2>2
<1>12. \A k \in 1 .. Len(queue) : Before(data[queue[k]], Filled[widx])
  <2> SUFFICES ASSUME NEW k \in 1 .. Len(queue) PROVE Before(data[queue[k]], Filled[widx])
    OBVIOUS
  <2>1. Before(data[queue[k]], data[widx]) /\ Before(data[queue[k]], new)
    BY <1>1, <1>6
  <2>2. Before(data[queue[k]], data[widx] \o new)
    BY <1>1, <1>6, <2>1, BeforeConcat
  <2>3. QED
    BY <1>3, <2>2
<1>13. Filled \in [Block -> Seq(1 .. taken + Part)]
  BY <1>1, <1>2, <1>7, <1>8 DEF Filled, TypeInv
<1>14. \A j \in 1 .. Len(Filled[widx]) :
         Filled[widx][j] = IF j <= Len(data[widx]) THEN data[widx][j] ELSE taken + (j - Len(data[widx]))
  <2> SUFFICES ASSUME NEW j \in 1 .. Len(data[widx]) + Part
               PROVE  Filled[widx][j] = IF j <= Len(data[widx]) THEN data[widx][j]
                                        ELSE taken + (j - Len(data[widx]))
    BY <1>8
  <2>1. Filled[widx][j] = IF j <= Len(data[widx]) THEN data[widx][j] ELSE new[j - Len(data[widx])]
    BY <1>8
  <2>2. ~(j <= Len(data[widx])) => j > Len(data[widx])
    BY <1>1
  <2>3. QED
    BY <1>9, <2>1, <2>2
<1>15. QED
  BY <1>3, <1>8, <1>10, <1>11, <1>12, <1>13, <1>14

\* Bytes go to a block that is not full with them.
LEMMA PartKeeps ==
  ASSUME IInv, PlayPart
  PROVE  (FillInv /\ OrderInv /\ RiseInv)'
<1> USE DEF IInv
<1>1. pc = "play" /\ ~SentAfter[widx] /\ Len(data[widx]) + Part < Length /\ data' = Filled
      /\ taken' = taken + Part /\ UNCHANGED <<queue, out, widx, failure>>
  BY DEF PlayPart
<1>2. widx \in Block /\ widx \notin Given /\ Given' = Given /\ Part \in Nat
  BY <1>1, PartFits, Lengths DEF Given, TypeInv, TypeOK
<1>3. \A k \in 1 .. Len(queue) : queue[k] \in Block \ {widx}
  BY <1>2, Lengths DEF Given
<1>4. FillInv'
  <2>1. Len(data'[widx]) < Length /\ \A i \in Block \ {widx} : data'[i] = data[i]
    BY <1>1, FilledBlock
  <2>2. QED
    BY <1>1, <1>2, <2>1, Lengths DEF FillInv
<1>5. OrderInv'
  <2> SUFFICES ASSUME failure = "none" PROVE OrderInv'
    BY <1>1 DEF OrderInv
  <2>1. \A k \in 1 .. Len(queue) : data'[queue[k]] = data[queue[k]]
    BY <1>1, <1>3, FilledBlock
  <2>2. taken = Len(out) + Len(queue) * Length + Len(data[widx])
    BY <1>2 DEF OrderInv
  <2>3. taken' = Len(out) + Len(queue) * Length + Len(data'[widx])
    BY <1>1, <1>2, <2>2, FilledBlock, Lengths
  <2>4. \A j \in 1 .. Len(data'[widx]) : data'[widx][j] = Len(out) + Len(queue) * Length + j
    <3>1. SUFFICES ASSUME NEW j \in 1 .. Len(data'[widx])
                   PROVE  data'[widx][j] = Len(out) + Len(queue) * Length + j
      OBVIOUS
    <3>2. data'[widx][j] = IF j <= Len(data[widx]) THEN data[widx][j] ELSE taken + (j - Len(data[widx]))
      BY <1>1, FilledBlock
    <3>3. CASE j <= Len(data[widx])
      <4>1. j \in 1 .. Len(data[widx])
        BY <1>2, <3>3, Lengths
      <4>2. QED
        BY <1>2, <3>2, <3>3, <4>1 DEF OrderInv
    <3>4. CASE ~(j <= Len(data[widx]))
      <4>1. Len(queue) * Length \in Nat /\ Len(out) \in Nat /\ Len(data[widx]) \in Nat /\ j \in Int
        BY <1>2, Lengths
      <4>2. data'[widx][j] = taken + (j - Len(data[widx]))
        BY <3>2, <3>4
      <4>3. QED
        BY <2>2, <4>1, <4>2
    <3>5. QED
      BY <3>3, <3>4
  <2>5. QED
    BY <1>1, <1>2, <2>1, <2>3, <2>4 DEF OrderInv
<1>6. RiseInv'
  BY <1>1, <1>2, <1>3, FilledBlock DEF RiseInv
<1>7. QED
  BY <1>4, <1>5, <1>6

\* The full block goes to Windows.
LEMMA FullKeeps ==
  ASSUME IInv, PlayFull(TRUE)
  PROVE  /\ (FillInv /\ OrderInv /\ RiseInv)'
         /\ Given' = Given \cup {widx} /\ Len(queue') = Len(queue) + 1
<1> USE DEF IInv
<1>1. pc = "play" /\ ~SentAfter[widx] /\ Len(data[widx]) + Part = Length /\ data' = Filled
      /\ taken' = taken + Part /\ queue' = Append(queue, widx) /\ failure' = failure /\ out' = out
  BY DEF PlayFull
<1>2. widx \in Block /\ widx \notin Given /\ Len(data'[widx]) = Length
      /\ (\A i \in Block \ {widx} : data'[i] = data[i])
      /\ Len(data[widx]) \in Nat /\ Part \in Nat /\ Len(queue) \in Nat /\ Length \in Nat
      /\ taken \in Nat /\ Len(out) \in Nat
  <2>1. Part \in 1 .. left /\ left \in Nat
    BY <1>1, PartFits DEF TypeInv, TypeOK
  <2>2. Part \in Nat
    BY <2>1
  <2>3. QED
    BY <1>1, <2>2, PartFits, FilledBlock, Lengths
<1>3. /\ Len(queue') = Len(queue) + 1 /\ queue'[Len(queue) + 1] = widx
      /\ \A k \in 1 .. Len(queue) : queue'[k] = queue[k] /\ queue[k] \in Block \ {widx}
  <2>1. queue \in Seq(Block)
    BY DEF TypeInv, TypeOK
  <2>2. QED
    BY <1>1, <1>2, <2>1, AppendProperties, Lengths DEF Given
<1>4. Given' = Given \cup {widx}
  BY <1>2, <1>3 DEF Given
<1>5. FillInv'
  <2>1. \A i \in Block \ Given' : data'[i] = <<>>
    BY <1>2, <1>4 DEF FillInv
  <2>2. \A i \in Given' : Len(data'[i]) = Length
    BY <1>2, <1>4, Lengths DEF FillInv
  <2>3. Len(<<>>) = 0 /\ 0 < Length
    BY Lengths, EmptySeq
  <2>4. QED
    BY <2>1, <2>2, <2>3 DEF FillInv
<1>6. widx' \in Block
  <2>1. widx + 1 \in Nat
    BY <1>2, RingAssumption DEF Block
  <2>2. QED
    BY <2>1, Modulo, RingAssumption DEF PlayFull, Block
<1>7. widx' \notin Given' => data'[widx'] = <<>> /\ Len(data'[widx']) = 0
  BY <1>2, <1>4, <1>6, EmptySeq DEF FillInv
<1>8. OrderInv'
  <2> SUFFICES ASSUME failure = "none" PROVE OrderInv'
    BY <1>1 DEF OrderInv
  <2>0. PICK q \in Nat : q = Len(queue) * Length
    BY <1>2
  <2>1. taken = Len(out) + q + Len(data[widx])
    BY <1>2, <2>0 DEF OrderInv
  <2>2. Len(queue') * Length = q + Length
    BY <1>2, <1>3, <2>0
  <2>3. taken' = Len(out) + Len(queue') * Length
    <3>1. taken' = Len(out) + q + Length
      <4>1. taken' = taken + Part /\ Len(data[widx]) + Part = Length
        BY <1>1
      <4>2. PICK n \in Nat, p \in Nat, o \in Nat : n = Len(data[widx]) /\ p = Part /\ o = Len(out)
        BY <1>2, Zenon
      <4>3. taken = o + q + n /\ n + p = Length /\ taken' = taken + p
        BY <2>1, <4>1, <4>2, Zenon
      <4>4. taken' = o + q + Length
        BY <1>2, <4>3
      <4>5. QED
        BY <4>2, <4>4, Zenon
    <3>2. QED
      BY <1>2, <2>2, <3>1
  <2>4. ASSUME NEW k \in 1 .. Len(queue'), NEW j \in 1 .. Length
        PROVE  data'[queue'[k]][j] = Len(out') + (k - 1) * Length + j
    <3>1. CASE k \in 1 .. Len(queue)
      <4>1. data'[queue'[k]] = data[queue[k]]
        BY <1>2, <1>3, <3>1
      <4>2. data[queue[k]][j] = Len(out) + (k - 1) * Length + j
        BY <3>1 DEF OrderInv
      <4>3. QED
        BY <1>1, <4>1, <4>2
    <3>2. CASE k = Len(queue) + 1
      <4>1. data'[queue'[k]][j] = IF j <= Len(data[widx]) THEN data[widx][j]
                                  ELSE taken + (j - Len(data[widx]))
        BY <1>1, <1>2, <1>3, <3>2, FilledBlock
      <4>2. (k - 1) * Length = q
        BY <1>2, <2>0, <3>2
      <4>3. CASE j <= Len(data[widx])
        <5>1. j \in 1 .. Len(data[widx])
          BY <1>2, <4>3
        <5>2. QED
          BY <1>1, <1>2, <2>0, <4>1, <4>2, <4>3, <5>1 DEF OrderInv
      <4>4. CASE ~(j <= Len(data[widx]))
        <5>1. data'[queue'[k]][j] = taken + (j - Len(data[widx]))
          BY <4>1, <4>4
        <5>2. QED
          <6>1. PICK n \in Nat, o \in Nat : n = Len(data[widx]) /\ o = Len(out)
            BY <1>2, Zenon
          <6>2. taken = o + q + n /\ data'[queue'[k]][j] = taken + (j - n) /\ Len(out') = o
            BY <1>1, <2>1, <5>1, <6>1, Zenon
          <6>3. taken + (j - n) = o + q + j
            BY <1>2, <6>2
          <6>4. QED
            BY <4>2, <6>2, <6>3, Zenon
      <4>5. QED
        BY <4>3, <4>4
    <3>3. QED
      BY <1>2, <1>3, <3>1, <3>2
  <2>5. QED
    BY <1>1, <1>7, <2>2, <2>3, <2>4 DEF OrderInv
<1>9. RiseInv'
  <2>1. Rising(data'[widx]) /\ Before(out, data'[widx])
        /\ \A k \in 1 .. Len(queue) : Before(data[queue[k]], data'[widx])
    BY <1>1, FilledBlock
  <2>2. Rising(out') /\ \A i \in Block : Rising(data'[i]) /\ Before(out', data'[i])
    BY <1>1, <1>2, <2>1 DEF RiseInv
  <2>3. ASSUME NEW k \in 1 .. Len(queue'), NEW l \in 1 .. Len(queue'), k < l
        PROVE  Before(data'[queue'[k]], data'[queue'[l]])
    <3>1. k \in 1 .. Len(queue) /\ data'[queue'[k]] = data[queue[k]]
      BY <1>2, <1>3, <2>3
    <3>2. CASE l \in 1 .. Len(queue)
      BY <1>2, <1>3, <2>3, <3>1, <3>2 DEF RiseInv
    <3>3. CASE l = Len(queue) + 1
      BY <1>3, <2>1, <3>1, <3>3
    <3>4. QED
      BY <1>2, <1>3, <3>2, <3>3
  <2>4. widx' \notin Given' => \A k \in 1 .. Len(queue') : Before(data'[queue'[k]], data'[widx'])
    BY <1>7 DEF Before
  <2>5. QED
    BY <2>2, <2>3, <2>4 DEF RiseInv
<1>10. QED
  BY <1>3, <1>4, <1>5, <1>8, <1>9

\* waveOutWrite refuses the full block, and its bytes are lost.
LEMMA DropKeeps ==
  ASSUME IInv, PlayFull(FALSE)
  PROVE  (FillInv /\ OrderInv /\ RiseInv)' /\ Given' = Given
<1> USE DEF IInv
<1>1. pc = "play" /\ ~SentAfter[widx] /\ data' = [data EXCEPT ![widx] = <<>>]
      /\ UNCHANGED <<queue, out>> /\ failure' # "none"
  BY DEF PlayFull
<1>2. widx \in Block /\ widx \notin Given /\ Given' = Given
  BY <1>1, PartFits DEF Given
<1>3. data'[widx] = <<>> /\ \A i \in Block \ {widx} : data'[i] = data[i]
  BY <1>1, <1>2 DEF TypeInv
<1>4. \A k \in 1 .. Len(queue) : queue[k] \in Block \ {widx}
  BY <1>2, Lengths DEF Given
<1>5. \A i \in Block \ Given : data'[i] = <<>> /\ Len(data'[i]) = 0
  BY <1>2, <1>3, EmptySeq DEF FillInv
<1>6. FillInv'
  <2>1. Length > 0 /\ \A i \in Given' : data'[i] = data[i]
    BY <1>2, <1>3, Lengths
  <2>2. QED
    BY <1>2, <1>5, <2>1 DEF FillInv
<1>7. OrderInv'
  BY <1>1 DEF OrderInv
<1>8. widx' \in Block
  <2>1. widx + 1 \in Nat
    BY <1>2, RingAssumption DEF Block
  <2>2. QED
    BY <2>1, Modulo, RingAssumption DEF PlayFull, Block
<1>9. RiseInv'
  BY <1>1, <1>2, <1>3, <1>4, <1>5, <1>8 DEF RiseInv, Rising, Before
<1>10. QED
  BY <1>2, <1>6, <1>7, <1>9
\* Windows plays the first block.
LEMMA PlayedKeeps ==
  ASSUME IInv, WindowsPlays
  PROVE  /\ (FillInv /\ OrderInv /\ RiseInv)'
         /\ Given' = Given \ {queue[1]} /\ queue[1] \in Given
         /\ Len(out') = Len(out) + Length /\ out' \in Seq(1 .. taken)
<1> USE DEF IInv
<1> DEFINE h == queue[1]
<1>1. queue # <<>> /\ queue' = Tail(queue) /\ out' = out \o data[h] /\ data' = [data EXCEPT ![h] = <<>>]
      /\ UNCHANGED <<widx, taken, failure>>
  <2>1. queue \in Seq(Block) /\ queue # <<>>
    BY DEF TypeInv, TypeOK, WindowsPlays
  <2>2. Head(queue) = queue[1]
    BY <2>1
  <2>3. QED
    BY <2>1, <2>2 DEF WindowsPlays
<1>2. /\ Len(queue) \in Nat \ {0} /\ Len(queue') = Len(queue) - 1
      /\ \A k \in 1 .. Len(queue') : queue'[k] = queue[k + 1]
      /\ \A k \in 1 .. Len(queue') : k + 1 \in 1 .. Len(queue)
  <2>1. queue \in Seq(Block)
    BY DEF TypeInv, TypeOK
  <2>2. Len(queue) \in Nat \ {0}
    BY <1>1, <2>1, EmptySeq
  <2>3. QED
    BY <1>1, <2>1, <2>2, HeadTailProperties
<1>3. \A k, l \in 1 .. Len(queue) : queue[k] = queue[l] => k = l
  BY DEF CountInv
<1>4. h \in Given /\ h \in Block /\ 1 \in 1 .. Len(queue) /\ Len(queue) \in 1 .. Len(queue)
  <2>1. 1 \in 1 .. Len(queue) /\ Len(queue) \in 1 .. Len(queue)
    BY <1>2
  <2>2. h \in Given /\ Given \subseteq Block
    BY <2>1, Lengths DEF Given
  <2>3. QED
    BY <2>1, <2>2
<1>5. \A k \in 1 .. Len(queue') : queue'[k] \in Given \ {h}
  BY <1>2, <1>3, <1>4 DEF Given
<1>6. Given' = Given \ {h}
  <2>1. Given' \subseteq Given \ {h}
    BY <1>5 DEF Given
  <2>2. ASSUME NEW i \in Given \ {h} PROVE i \in Given'
    <3>1. PICK k \in 1 .. Len(queue) : queue[k] = i
      BY DEF Given
    <3>2. k # 1
      BY <2>2, <3>1
    <3>3. k - 1 \in 1 .. Len(queue') /\ (k - 1) + 1 = k
      BY <1>2, <3>2
    <3>4. queue'[k - 1] = i
      BY <1>2, <3>1, <3>3
    <3>5. QED
      BY <3>3, <3>4 DEF Given
  <2>3. QED
    BY <2>1, <2>2
<1>7. data'[h] = <<>> /\ Len(data'[h]) = 0 /\ \A i \in Block \ {h} : data'[i] = data[i]
  BY <1>1, <1>4, EmptySeq DEF TypeInv
<1>8. Len(data[h]) = Length /\ Length \in Nat \ {0}
  BY <1>4, Lengths DEF FillInv
<1>9. out \in Seq(1 .. taken) /\ data[h] \in Seq(1 .. taken) /\ out \in Seq(Nat) /\ data[h] \in Seq(Nat)
      /\ Len(out) \in Nat
  BY <1>4, Lengths DEF TypeInv
<1>10. Len(out') = Len(out) + Length /\ out' \in Seq(1 .. taken)
  BY <1>1, <1>8, <1>9, ConcatProperties
<1>11. FillInv'
  <2>1. \A i \in Given' : Len(data'[i]) = Length
    BY <1>6, <1>7, Lengths DEF FillInv
  <2>2. ASSUME NEW i \in Block \ Given'
        PROVE  Len(data'[i]) < Length /\ (i # widx' => data'[i] = <<>>)
    <3>1. CASE i = h
      BY <1>7, <1>8, <3>1
    <3>2. CASE i # h
      <4>1. i \in Block \ Given /\ data'[i] = data[i]
        BY <1>6, <1>7, <2>2, <3>2
      <4>2. QED
        BY <1>1, <4>1 DEF FillInv
    <3>3. QED
      BY <3>1, <3>2
  <2>3. QED
    BY <2>1, <2>2 DEF FillInv
<1>12. OrderInv'
  <2> SUFFICES ASSUME failure = "none" PROVE OrderInv'
    BY <1>1 DEF OrderInv
  <2>1. PICK q \in Nat, o \in Nat :
          /\ q = Len(queue') * Length /\ o = Len(out)
          /\ Len(queue) * Length = q + Length /\ Len(out') = o + Length
    <3>1. PICK m \in Nat : m = Len(queue')
      BY <1>2
    <3>2. Len(queue) = m + 1 /\ (m + 1) * Length = m * Length + Length /\ m * Length \in Nat
      BY <1>2, <1>8, <3>1
    <3>3. QED
      BY <1>9, <1>10, <3>1, <3>2
  <2>2. ASSUME NEW k \in 1 .. Len(queue'), NEW j \in 1 .. Length
        PROVE  data'[queue'[k]][j] = Len(out') + (k - 1) * Length + j
    <3>1. data'[queue'[k]] = data[queue[k + 1]] /\ k + 1 \in 1 .. Len(queue)
      BY <1>2, <1>5, <1>7, Lengths
    <3>2. data[queue[k + 1]][j] = o + ((k + 1) - 1) * Length + j
      BY <2>1, <3>1 DEF OrderInv
    <3>3. PICK p \in Nat : p = (k - 1) * Length /\ ((k + 1) - 1) * Length = p + Length
      <4>1. PICK m \in Nat : m = k - 1
        BY <1>2
      <4>2. (k + 1) - 1 = m + 1 /\ (m + 1) * Length = m * Length + Length /\ m * Length \in Nat
        BY <1>8, <4>1
      <4>3. QED
        BY <4>1, <4>2
    <3>4. data[queue[k + 1]][j] = o + (p + Length) + j /\ j \in Nat
      BY <1>8, <3>2, <3>3
    <3>5. o + (p + Length) + j = (o + Length) + p + j
      BY <1>8, <3>4
    <3>6. QED
      BY <2>1, <3>1, <3>3, <3>4, <3>5, Zenon
  <2>3. ASSUME widx \in Given' PROVE taken = Len(out') + q
    <3>1. taken = o + (q + Length)
      BY <1>6, <2>1, <2>3 DEF OrderInv
    <3>2. QED
      BY <1>8, <2>1, <3>1
  <2>4. ASSUME widx \notin Given'
        PROVE  /\ taken = Len(out') + q + Len(data'[widx])
               /\ \A j \in 1 .. Len(data'[widx]) : data'[widx][j] = Len(out') + q + j
    <3>1. CASE widx = h
      <4>1. taken = o + (q + Length) /\ Len(data'[widx]) = 0 /\ 1 .. 0 = {}
        BY <1>4, <1>7, <2>1, <3>1 DEF OrderInv
      <4>2. QED
        BY <1>8, <2>1, <4>1
    <3>2. CASE widx # h
      <4>1. widx \notin Given /\ widx \in Block /\ data'[widx] = data[widx]
        BY <1>6, <1>7, <2>4, <3>2 DEF TypeInv, TypeOK
      <4>2. taken = o + (q + Length) + Len(data[widx])
            /\ \A j \in 1 .. Len(data[widx]) : data[widx][j] = o + (q + Length) + j
        BY <2>1, <4>1 DEF OrderInv
      <4>3. o + (q + Length) = (o + Length) + q
        BY <1>8
      <4>4. QED
        BY <2>1, <4>1, <4>2, <4>3, Zenon
    <3>3. QED
      BY <3>1, <3>2
  <2>5. QED
    BY <1>1, <2>1, <2>2, <2>3, <2>4 DEF OrderInv
<1>13. RiseInv'
  <2>1. Rising(out')
    <3>1. Rising(out) /\ Rising(data[h]) /\ Before(out, data[h])
      BY <1>4 DEF RiseInv
    <3>2. QED
      BY <1>1, <1>9, <3>1, RisingConcat
  <2>2. \A i \in Block : data[i] = <<>> => Before(data[h], data[i])
    BY EmptySeq DEF Before
  <2>3. ASSUME NEW i \in Block \ {h} PROVE Before(data[h], data[i])
    <3>1. CASE i \in Given
      <4>1. PICK l \in 1 .. Len(queue) : queue[l] = i
        BY <3>1 DEF Given
      <4>2. 1 < l
        BY <2>3, <4>1
      <4>3. QED
        BY <1>4, <4>1, <4>2 DEF RiseInv
    <3>2. CASE i \notin Given /\ i # widx
      BY <2>2, <3>2 DEF FillInv
    <3>3. CASE i \notin Given /\ i = widx
      BY <1>4, <3>3 DEF RiseInv
    <3>4. QED
      BY <3>1, <3>2, <3>3
  <2>4. ASSUME NEW i \in Block PROVE Rising(data'[i]) /\ Before(out', data'[i])
    <3>1. CASE i = h
      BY <1>7, <3>1 DEF Rising, Before
    <3>2. CASE i # h
      <4>1. data'[i] = data[i] /\ data[i] \in Seq(Nat)
        BY <1>7, <3>2, Lengths
      <4>2. Before(out, data[i]) /\ Before(data[h], data[i]) /\ Rising(data[i])
        BY <2>3, <3>2 DEF RiseInv
      <4>3. Before(out \o data[h], data[i])
        BY <1>9, <4>1, <4>2, BeforeConcat
      <4>4. QED
        BY <1>1, <4>1, <4>2, <4>3
    <3>3. QED
      BY <3>1, <3>2
  <2>5. \A k \in 1 .. Len(queue') : data'[queue'[k]] = data[queue[k + 1]]
    BY <1>2, <1>5, <1>7, Lengths
  <2>6. ASSUME NEW k \in 1 .. Len(queue'), NEW l \in 1 .. Len(queue'), k < l
        PROVE  Before(data'[queue'[k]], data'[queue'[l]])
    <3>1. k + 1 \in 1 .. Len(queue) /\ l + 1 \in 1 .. Len(queue) /\ k + 1 < l + 1
      BY <1>2, <2>6
    <3>2. QED
      BY <2>5, <3>1 DEF RiseInv
  <2>7. ASSUME widx \notin Given', NEW k \in 1 .. Len(queue')
        PROVE  Before(data'[queue'[k]], data'[widx])
    <3>1. CASE widx = h
      BY <1>7, <3>1 DEF Before
    <3>2. CASE widx # h
      <4>1. widx \notin Given /\ data'[widx] = data[widx] /\ k + 1 \in 1 .. Len(queue)
        BY <1>2, <1>6, <1>7, <2>7, <3>2 DEF TypeInv, TypeOK
      <4>2. QED
        BY <2>5, <4>1 DEF RiseInv
    <3>3. QED
      BY <3>1, <3>2
  <2>8. QED
    BY <1>1, <2>1, <2>4, <2>6, <2>7 DEF RiseInv
<1>14. QED
  BY <1>4, <1>6, <1>10, <1>11, <1>12, <1>13
-----------------------------------------------------------------------------
(* Every step keeps the invariant. *)

\* The types and counters, with the blocks that _ao_get_free_block leaves.
LEMMA AfterRelease ==
  ASSUME IInv
  PROVE  /\ \A i \in Block : DoneAfter[i] => SentAfter[i]
         /\ Given = {i \in Block : SentAfter[i] /\ ~DoneAfter[i]}
         /\ Minus(sentBlocks, Cardinality(Released)) = Cardinality({i \in Block : SentAfter[i]})
         /\ Minus(sentBlocks, Cardinality(Released)) \in 0 .. Blocks
         /\ IsFiniteSet({i \in Block : SentAfter[i]})
         /\ NextRidx \in Block /\ Minus(fullBlocks, Cardinality(Released)) \in Nat
         /\ SentAfter \in [Block -> BOOLEAN] /\ DoneAfter \in [Block -> BOOLEAN]
<1>1. TypeOK /\ SentAreCounted /\ \A i \in Block : done[i] => sent[i]
  BY DEF IInv, TypeInv, CountInv
<1>2. \A i \in Block : SentAfter[i] /\ ~DoneAfter[i] <=> sent[i] /\ ~done[i]
  BY <1>1, ReleaseCounts
<1>3. \A i \in Block : DoneAfter[i] => SentAfter[i]
  BY <1>1 DEF SentAfter, DoneAfter
<1>4. Given = {i \in Block : SentAfter[i] /\ ~DoneAfter[i]}
  BY <1>1, <1>2 DEF SentAreCounted, Given
<1>5. Minus(fullBlocks, Cardinality(Released)) \in Nat
  BY <1>1, BlocksFinite DEF TypeOK, Minus
<1>6. QED
  BY <1>1, <1>3, <1>4, <1>5, ReleaseCounts

\* A release on its own keeps the counters.
LEMMA ReleaseKeeps ==
  ASSUME IInv, Release, sent' = SentAfter, UNCHANGED queue
  PROVE  /\ CountInv' /\ sent' \in [Block -> BOOLEAN] /\ done' \in [Block -> BOOLEAN]
         /\ ridx' \in Block /\ sentBlocks' \in 0 .. Blocks /\ fullBlocks' \in Nat
<1>1. sent' \in [Block -> BOOLEAN] /\ done' \in [Block -> BOOLEAN]
      /\ ridx' \in Block /\ sentBlocks' \in 0 .. Blocks /\ fullBlocks' \in Nat
  BY AfterRelease DEF Release
<1>2. SentAreCounted'
  <2>1. sentBlocks' = Cardinality({i \in Block : sent'[i]})
    BY AfterRelease DEF Release
  <2>2. Given' = Given /\ Given = {i \in Block : sent'[i] /\ ~done'[i]}
    BY AfterRelease DEF Release, Given
  <2>3. QED
    BY <2>1, <2>2 DEF SentAreCounted, Given
<1>3. \A i \in Block : done'[i] => sent'[i]
  BY AfterRelease DEF Release
<1>4. QED
  BY <1>1, <1>2, <1>3 DEF CountInv, IInv

\* The types of what a full block changes whether waveOutWrite takes it or not.
LEMMA FullTypes ==
  ASSUME IInv, NEW ok \in BOOLEAN, PlayFull(ok)
  PROVE  /\ pc' \in {"failed", "open", "play"} /\ left' \in Nat
         /\ pc' = "play" => left' \in Nat \ {0} /\ taken' + left' <= MaxBytes
         /\ taken' \in 0 .. MaxBytes /\ taken <= taken' /\ taken' = taken + Part
         /\ ridx' \in Block /\ widx' \in Block /\ fullBlocks' \in Nat
         /\ done' \in [Block -> BOOLEAN] /\ out' \in Seq(1 .. taken') /\ out' \in Seq(1 .. MaxBytes)
         /\ failure' \in {"none", "dropped", "ignored"} /\ result' = result
<1>1. /\ left \in Nat \ {0} /\ Part \in 1 .. left /\ taken \in Nat /\ MaxBytes \in Nat
      /\ taken + left <= MaxBytes /\ widx \in Block
  BY PartFits, Lengths DEF PlayFull, IInv, TypeInv
<1>2. taken' = taken + Part /\ left' = IF ok THEN left - Part ELSE 0
  BY DEF PlayFull
<1>3. pc' = CASE ~ok -> "failed" [] ok /\ left = Part -> "open" [] OTHER -> "play"
  BY DEF PlayFull
<1>4. pc' = "play" => ok /\ left # Part
  <2>1. CASE ~ok
    <3>1. pc' = "failed"
      BY <1>3, <2>1
    <3>2. QED
      BY <3>1
  <2>2. CASE ok /\ left = Part
    <3>1. pc' = "open"
      BY <1>3, <2>2
    <3>2. QED
      BY <3>1
  <2>3. QED
    BY <2>1, <2>2
<1>5. pc' \in {"failed", "open", "play"}
  BY <1>3
<1>6. left' \in Nat /\ (ok /\ left # Part => left' \in Nat \ {0} /\ taken' + left' <= MaxBytes)
  BY <1>1, <1>2
<1>7. taken' \in 0 .. MaxBytes /\ taken <= taken' /\ taken' \in Nat
  BY <1>1, <1>2
<1>8. widx' \in Block
  <2>1. widx + 1 \in Nat
    BY <1>1, RingAssumption DEF Block
  <2>2. QED
    BY <2>1, Modulo, RingAssumption DEF PlayFull, Block
<1>9. ridx' \in Block /\ fullBlocks' \in Nat /\ done' \in [Block -> BOOLEAN]
  BY AfterRelease DEF PlayFull
<1>10. out' \in Seq(1 .. taken') /\ out' \in Seq(1 .. MaxBytes)
  <2>1. out' = out /\ out \in Seq(1 .. taken) /\ out \in Seq(1 .. MaxBytes)
    BY DEF PlayFull, IInv, TypeInv, TypeOK
  <2>2. QED
    BY <1>1, <1>7, <2>1, MoreBytes
<1>11. failure' \in {"none", "dropped", "ignored"} /\ result' = result
  BY DEF PlayFull, IInv, TypeInv, TypeOK
<1>12. QED
  BY <1>2, <1>4, <1>5, <1>6, <1>7, <1>8, <1>9, <1>10, <1>11

\* The full block goes to Windows, and counts as sent.
LEMMA FullCounts ==
  ASSUME IInv, PlayFull(TRUE)
  PROVE  CountInv' /\ sent' \in [Block -> BOOLEAN] /\ sentBlocks' \in 0 .. Blocks /\ queue' \in Seq(Block)
<1> DEFINE S == {i \in Block : SentAfter[i]}
<1>1. /\ ~SentAfter[widx] /\ sent' = [SentAfter EXCEPT ![widx] = TRUE] /\ done' = DoneAfter
      /\ sentBlocks' = Minus(sentBlocks, Cardinality(Released)) + 1
      /\ queue' = Append(queue, widx)
  BY DEF PlayFull, Counted
<1>2. widx \in Block /\ widx \notin Given
  BY PartFits DEF PlayFull, IInv
<1>3. sent' \in [Block -> BOOLEAN] /\ sent'[widx] /\ \A i \in Block \ {widx} : sent'[i] = SentAfter[i]
  BY <1>1, <1>2, AfterRelease
<1>4. {i \in Block : sent'[i]} = S \cup {widx}
  BY <1>2, <1>3
<1>5. Cardinality(S \cup {widx}) = Cardinality(S) + 1
  BY <1>1, AfterRelease, FS_AddElement
<1>6. sentBlocks' = Cardinality({i \in Block : sent'[i]})
  BY <1>1, <1>4, <1>5, AfterRelease
<1>7. sentBlocks' \in 0 .. Blocks
  <2>1. {i \in Block : sent'[i]} \in SUBSET Block
    OBVIOUS
  <2>2. Cardinality({i \in Block : sent'[i]}) <= Blocks
    BY <2>1, BlocksFinite, FS_Subset
  <2>3. sentBlocks' \in Nat
    BY <1>1, AfterRelease
  <2>4. QED
    BY <1>6, <2>2, <2>3, RingAssumption
<1>8. Given' = {i \in Block : sent'[i] /\ ~done'[i]}
  <2>1. Given' = Given \cup {widx}
    BY FullKeeps
  <2>2. ~DoneAfter[widx]
    BY <1>1, <1>2, AfterRelease
  <2>3. QED
    BY <1>1, <1>2, <1>3, <2>1, <2>2, AfterRelease
<1>9. \A i \in Block : done'[i] => sent'[i]
  BY <1>1, <1>3, AfterRelease
<1>10. queue \in Seq(Block) /\ Len(queue) \in Nat
  BY Lengths DEF IInv, TypeInv, TypeOK
<1>11. /\ queue' \in Seq(Block) /\ Len(queue') = Len(queue) + 1 /\ queue'[Len(queue) + 1] = widx
       /\ \A k \in 1 .. Len(queue) : queue'[k] = queue[k] /\ queue[k] # widx
  BY <1>1, <1>2, <1>10, AppendProperties DEF Given
<1>12. \A k, l \in 1 .. Len(queue') : queue'[k] = queue'[l] => k = l
  <2>1. \A k, l \in 1 .. Len(queue) : queue[k] = queue[l] => k = l
    BY DEF IInv, CountInv
  <2>2. \A k \in 1 .. Len(queue') : k \in 1 .. Len(queue) \/ k = Len(queue) + 1
    BY <1>10, <1>11
  <2>3. QED
    BY <1>11, <2>1, <2>2
<1>13. QED
  BY <1>3, <1>6, <1>7, <1>8, <1>9, <1>11, <1>12 DEF CountInv, SentAreCounted, Given

\* waveOutWrite refuses it, and it does not.
LEMMA DropCounts ==
  ASSUME IInv, PlayFull(FALSE)
  PROVE  CountInv' /\ sent' \in [Block -> BOOLEAN] /\ sentBlocks' \in 0 .. Blocks
<1>1. /\ ~SentAfter[widx] /\ sent' = [SentAfter EXCEPT ![widx] = FALSE] /\ done' = DoneAfter
      /\ sentBlocks' = Minus(sentBlocks, Cardinality(Released)) + 0
      /\ queue' = queue
  BY DEF PlayFull, Counted
<1>2. widx \in Block
  BY PartFits DEF PlayFull, IInv
<1>3. sent' \in [Block -> BOOLEAN] /\ \A i \in Block : sent'[i] <=> SentAfter[i]
  BY <1>1, <1>2, AfterRelease
<1>4. {i \in Block : sent'[i]} = {i \in Block : SentAfter[i]}
  BY <1>3
<1>5. sentBlocks' = Cardinality({i \in Block : sent'[i]}) /\ sentBlocks' \in 0 .. Blocks
  BY <1>1, <1>4, AfterRelease, RingAssumption
<1>6. Given' = {i \in Block : sent'[i] /\ ~done'[i]}
  BY <1>1, <1>3, AfterRelease DEF Given
<1>7. \A i \in Block : done'[i] => sent'[i]
  BY <1>1, <1>3, AfterRelease
<1>8. QED
  BY <1>1, <1>3, <1>5, <1>6, <1>7 DEF CountInv, SentAreCounted, Given, IInv

\* The two outcomes of a full block keep the types.
LEMMA FullIsTyped == ASSUME IInv, NEW ok \in BOOLEAN, PlayFull(ok) PROVE TypeInv'
<1>1. taken \in Nat /\ taken' \in Nat /\ MaxBytes \in Nat /\ taken <= taken' /\ taken' <= MaxBytes
      /\ widx \in Block /\ 0 <= taken'
  BY FullTypes, Lengths DEF IInv, TypeInv, TypeOK
<1>2. data' \in [Block -> Seq(1 .. taken')]
  <2>1. CASE ok
    <3>1. data' = Filled /\ taken' = taken + Part /\ pc = "play" /\ ~SentAfter[widx]
      BY <2>1 DEF PlayFull
    <3>2. QED
      BY <3>1, FilledBlock DEF IInv
  <2>2. CASE ~ok
    <3>1. data' = [data EXCEPT ![widx] = <<>>] /\ data \in [Block -> Seq(1 .. taken)]
      BY <2>2 DEF PlayFull, IInv, TypeInv
    <3>2. <<>> \in Seq(1 .. taken') /\ \A i \in Block : data[i] \in Seq(1 .. taken')
      BY <1>1, <3>1, MoreBytes, EmptySeq
    <3>3. QED
      BY <1>1, <3>1, <3>2
  <2>3. QED
    BY <2>1, <2>2
<1>3. data' \in [Block -> Seq(1 .. MaxBytes)]
  <2>1. Seq(1 .. taken') \subseteq Seq(1 .. MaxBytes)
    BY <1>1, MoreBytes
  <2>2. QED
    BY <1>2, <2>1
<1>4. sent' \in [Block -> BOOLEAN] /\ sentBlocks' \in 0 .. Blocks /\ queue' \in Seq(Block)
  <2>1. CASE ok = TRUE
    BY <2>1, FullCounts
  <2>2. CASE ok = FALSE
    <3>1. queue' = queue /\ queue \in Seq(Block)
      BY <2>2 DEF PlayFull, IInv, TypeInv, TypeOK
    <3>2. QED
      BY <2>2, <3>1, DropCounts
  <2>3. QED
    BY <2>1, <2>2
<1>5. result' \in {-1, 0, 1}
  BY FullTypes DEF IInv, TypeInv, TypeOK
<1>6. QED
  BY <1>2, <1>3, <1>4, <1>5, FullTypes DEF TypeInv, TypeOK

\* Bytes that go to a block that is not full with them.
LEMMA PartIsTyped == ASSUME IInv, PlayPart PROVE (TypeInv /\ CountInv)'
<1>1. /\ pc = "play" /\ ~SentAfter[widx] /\ data' = Filled /\ taken' = taken + Part /\ left' = 0
      /\ pc' = "open" /\ Release /\ sent' = SentAfter /\ UNCHANGED <<widx, queue, result, failure, out>>
  BY DEF PlayPart
<1>2. /\ left \in Nat \ {0} /\ Part \in 1 .. left /\ taken \in Nat /\ MaxBytes \in Nat
      /\ taken + left <= MaxBytes
  BY <1>1, PartFits, Lengths DEF IInv, TypeInv
<1>3. taken' \in Nat /\ taken' <= MaxBytes /\ taken <= taken' /\ taken' \in 0 .. MaxBytes
  BY <1>1, <1>2
<1>4. data' \in [Block -> Seq(1 .. taken')]
  BY <1>1, FilledBlock DEF IInv
<1>5. Seq(1 .. taken') \subseteq Seq(1 .. MaxBytes) /\ Seq(1 .. taken) \subseteq Seq(1 .. taken')
  BY <1>2, <1>3, MoreBytes
<1>6. data' \in [Block -> Seq(1 .. MaxBytes)]
  BY <1>4, <1>5
<1>7. out' \in Seq(1 .. MaxBytes) /\ out' \in Seq(1 .. taken')
  BY <1>1, <1>5 DEF IInv, TypeInv, TypeOK
<1>8. CountInv' /\ sent' \in [Block -> BOOLEAN] /\ done' \in [Block -> BOOLEAN]
      /\ ridx' \in Block /\ sentBlocks' \in 0 .. Blocks /\ fullBlocks' \in Nat
  BY <1>1, ReleaseKeeps
<1>9. QED
  BY <1>1, <1>3, <1>4, <1>6, <1>7, <1>8 DEF IInv, TypeInv, TypeOK

\* What Windows plays.
LEMMA PlayedIsTyped == ASSUME IInv, WindowsPlays PROVE (TypeInv /\ CountInv)'
<1> DEFINE h == queue[1]
<1>1. /\ queue # <<>> /\ queue' = Tail(queue) /\ data' = [data EXCEPT ![h] = <<>>]
      /\ done' = [done EXCEPT ![h] = TRUE]
      /\ UNCHANGED <<pc, left, sent, widx, ridx, sentBlocks, fullBlocks, result, failure, taken>>
  <2>1. queue \in Seq(Block) /\ queue # <<>>
    BY DEF IInv, TypeInv, TypeOK, WindowsPlays
  <2>2. Head(queue) = queue[1]
    BY <2>1
  <2>3. QED
    BY <2>1, <2>2 DEF WindowsPlays
<1>2. h \in Given /\ h \in Block /\ Given' = Given \ {h} /\ out' \in Seq(1 .. taken)
  BY PlayedKeeps, Lengths DEF IInv
<1>3. Seq(1 .. taken) \subseteq Seq(1 .. MaxBytes)
  BY Lengths, MoreBytes DEF IInv
<1>4. /\ queue' \in Seq(Block) /\ Len(queue') = Len(queue) - 1 /\ Len(queue) \in Nat
      /\ \A k \in 1 .. Len(queue') : queue'[k] = queue[k + 1]
  BY <1>1, HeadTailProperties, Lengths DEF IInv, TypeInv, TypeOK
<1>5. <<>> \in Seq(1 .. taken) /\ <<>> \in Seq(1 .. MaxBytes)
  BY EmptySeq
<1>6. data' \in [Block -> Seq(1 .. taken)] /\ data' \in [Block -> Seq(1 .. MaxBytes)]
      /\ done' \in [Block -> BOOLEAN] /\ done'[h] /\ \A i \in Block \ {h} : done'[i] = done[i]
  BY <1>1, <1>2, <1>5 DEF IInv, TypeInv, TypeOK
<1>7. TypeInv'
  BY <1>1, <1>2, <1>3, <1>4, <1>6 DEF IInv, TypeInv, TypeOK
<1>8. Given' = {i \in Block : sent'[i] /\ ~done'[i]}
  BY <1>1, <1>2, <1>6 DEF IInv, CountInv, SentAreCounted, Given
<1>9. \A i \in Block : done'[i] => sent'[i]
  BY <1>1, <1>2, <1>6 DEF IInv, CountInv, SentAreCounted, Given
<1>10. \A k, l \in 1 .. Len(queue') : queue'[k] = queue'[l] => k = l
  <2>1. \A k, l \in 1 .. Len(queue) : queue[k] = queue[l] => k = l
    BY DEF IInv, CountInv
  <2>2. \A k \in 1 .. Len(queue') : k + 1 \in 1 .. Len(queue) /\ queue'[k] = queue[k + 1]
    BY <1>4
  <2>3. \A k, l \in 1 .. Len(queue') : queue'[k] = queue'[l] => k + 1 = l + 1
    BY <2>1, <2>2
  <2>4. QED
    BY <1>4, <2>3
<1>11. SentAreCounted'
  <2>1. sentBlocks' = Cardinality({i \in Block : sent'[i]})
    BY <1>1 DEF IInv, CountInv, SentAreCounted
  <2>2. QED
    BY <1>8, <2>1 DEF SentAreCounted, Given
<1>12. QED
  BY <1>7, <1>9, <1>10, <1>11 DEF CountInv

\* Steps that leave the ring as it is keep all but the types of the rest.
LEMMA RingKept ==
  ASSUME IInv, UNCHANGED Ring, UNCHANGED out
  PROVE  CountInv' /\ (failure' = failure => (FillInv /\ OrderInv /\ RiseInv)')
         /\ (FillInv /\ RiseInv)' /\ (failure' # "none" => OrderInv')
BY DEF IInv, Ring, CountInv, SentAreCounted, FillInv, OrderInv, RiseInv, Given

\* When no block is out Windows has none.
LEMMA NoneOut == ASSUME IInv, sentBlocks = 0 PROVE queue = <<>>
<1>1. Cardinality(Sent) = 0 /\ IsFiniteSet(Sent)
  BY BlocksFinite DEF IInv, CountInv, SentAreCounted, Sent
<1>2. Sent = {}
  BY <1>1, FS_EmptySet
<1>3. Given = {}
  BY <1>2 DEF IInv, CountInv, SentAreCounted, Given, Sent
<1>4. \A k \in 1 .. Len(queue) : queue[k] \in Given
  BY DEF Given
<1>5. queue \in Seq(Block) /\ 1 \notin 1 .. Len(queue)
  BY <1>3, <1>4 DEF IInv, TypeInv, TypeOK
<1>6. QED
  BY <1>5, EmptySeq

\* Init and every step.
LEMMA Inductive == Spec => []IInv
<1>1. Init => IInv
  <2> SUFFICES ASSUME Init PROVE IInv
    OBVIOUS
  <2>1. /\ <<>> \in Seq(1 .. taken) /\ <<>> \in Seq(1 .. MaxBytes) /\ <<>> \in Seq(Block)
        /\ Len(<<>>) = 0
    BY EmptySeq
  <2>2. 0 \in Block /\ 0 \in 0 .. Blocks /\ 0 \in 0 .. MaxBytes /\ Length > 0 /\ Length \in Nat
    BY RingAssumption DEF Block
  <2>3. TypeInv
    BY <2>1, <2>2 DEF Init, TypeInv, TypeOK
  <2>4. Given = {} /\ {i \in Block : sent[i]} = {}
    BY <2>1 DEF Init, Given
  <2>5. CountInv
    BY <2>1, <2>4, FS_EmptySet DEF Init, CountInv, SentAreCounted, Given
  <2>6. FillInv /\ OrderInv /\ RiseInv
    BY <2>1, <2>2, <2>4 DEF Init, FillInv, OrderInv, RiseInv, Rising, Before
  <2>7. QED
    BY <2>3, <2>5, <2>6 DEF IInv
<1>2. IInv /\ [Next]_vars => IInv'
  <2> SUFFICES ASSUME IInv, [Next]_vars PROVE IInv'
    OBVIOUS
  <2> USE DEF IInv
  <2>1. CASE Open \/ OpenFails \/ Close \/ CloseRefused
    <3>1. UNCHANGED Ring /\ UNCHANGED <<left, failure, out>> /\ result' \in {-1, 0, 1}
      BY <2>1 DEF Open, OpenFails, Close, CloseRefused, TypeInv, TypeOK
    <3>2. /\ pc' \in {"refused", "open", "wait", "closed"}
          /\ pc' \in {"refused", "closed"} => pc \in {"none", "refused"}
      BY <2>1 DEF Open, OpenFails, Close, CloseRefused
    <3>3. TypeInv'
      BY <3>1, <3>2 DEF Ring, TypeInv, TypeOK
    <3>4. QED
      BY <3>1, <3>3, RingKept
  <2>2. ASSUME NEW n \in Chunks, Play(n) PROVE IInv'
    <3>1. UNCHANGED Ring /\ UNCHANGED <<result, out>> /\ pc' = "play" /\ left' = n
          /\ taken + n <= MaxBytes /\ n \in Nat \ {0}
      BY <2>2, RingAssumption DEF Play
    <3>2. failure' \in {"none", "dropped", "ignored"} /\ (failure' = failure \/ failure' # "none")
      BY <2>2 DEF Play, TypeInv, TypeOK
    <3>3. TypeInv'
      BY <3>1, <3>2 DEF Ring, TypeInv, TypeOK
    <3>4. QED
      BY <3>1, <3>2, <3>3, RingKept
  <2>3. CASE PlaySleep \/ CloseWaits
    <3>1. Release /\ sent' = SentAfter
          /\ UNCHANGED <<pc, left, data, widx, queue, result, failure, taken, out>>
      BY <2>3 DEF PlaySleep, CloseWaits
    <3>2. CountInv' /\ TypeInv'
      BY <3>1, ReleaseKeeps DEF TypeInv, TypeOK
    <3>3. QED
      BY <3>1, <3>2, QuietKeeps
  <2>4. CASE PlayPart
    BY <2>4, PartIsTyped, PartKeeps
  <2>5. ASSUME NEW ok \in BOOLEAN, PlayFull(ok) PROVE IInv'
    <3>1. TypeInv'
      BY <2>5, FullIsTyped
    <3>2. CASE ok = TRUE
      BY <2>5, <3>1, <3>2, FullCounts, FullKeeps
    <3>3. CASE ok = FALSE
      BY <2>5, <3>1, <3>3, DropCounts, DropKeeps
    <3>4. QED
      BY <3>2, <3>3
  <2>6. CASE WindowsPlays
    BY <2>6, PlayedIsTyped, PlayedKeeps
  <2>7. ASSUME NEW ok \in {0, 1}, CloseEnds(ok) PROVE IInv'
    <3>1. UNCHANGED Ring /\ UNCHANGED <<left, failure, out>> /\ result' \in {-1, 0, 1}
          /\ pc' = "closed" /\ queue = <<>>
      BY <2>7, NoneOut DEF CloseEnds
    <3>2. TypeInv'
      BY <3>1 DEF Ring, TypeInv, TypeOK
    <3>3. QED
      BY <3>1, <3>2, RingKept
  <2>8. CASE UNCHANGED vars
    <3>1. UNCHANGED Ring /\ UNCHANGED <<pc, left, result, failure, out>>
      BY <2>8 DEF vars, Ring
    <3>2. TypeInv'
      BY <3>1 DEF Ring, TypeInv, TypeOK
    <3>3. QED
      BY <3>1, <3>2, RingKept
  <2>9. QED
    BY <2>1, <2>2, <2>3, <2>4, <2>5, <2>6, <2>7, <2>8 DEF Next, Thread
<1>3. QED
  BY <1>1, <1>2, PTL DEF Spec
-----------------------------------------------------------------------------
(* The theorems. *)

\* The ring's indices, counters and bytes have their types.
THEOREM TypeCorrect == Spec => []TypeOK
<1>1. IInv => TypeOK
  BY DEF IInv, TypeInv
<1>2. QED
  BY <1>1, Inductive, PTL

\* sent_blocks, on which ao_wmm_close waits, counts the blocks that are out,
\* whatever waveOutWrite refused and however often the ring has gone round.
THEOREM SentCounted == Spec => []SentAreCounted
<1>1. IInv => SentAreCounted
  BY DEF IInv, CountInv
<1>2. QED
  BY <1>1, Inductive, PTL

\* The bytes that fit in the ring.
Room == Blocks * Length

\* Windows has at most the blocks that the application is not filling.
LEMMA BlocksFit ==
  ASSUME IInv, pc = "play", ~SentAfter[widx]
  PROVE  Len(queue) + 1 <= Blocks
<1>1. widx \in Block /\ widx \notin Given /\ Len(queue) \in Nat
  BY PartFits, Lengths DEF IInv
<1>2. IsFiniteSet(Block \ {widx}) /\ Cardinality(Block \ {widx}) = Blocks - 1
  BY <1>1, BlocksFinite, FS_RemoveElement
<1>3. IsFiniteSet(1 .. Len(queue)) /\ Cardinality(1 .. Len(queue)) = Len(queue)
  BY <1>1, FS_Interval
<1>4. queue \in [1 .. Len(queue) -> Block \ {widx}]
  <2>1. queue \in [1 .. Len(queue) -> Block]
    BY LenProperties DEF IInv, TypeInv, TypeOK
  <2>2. \A k \in 1 .. Len(queue) : queue[k] # widx
    BY <1>1 DEF Given
  <2>3. QED
    BY <2>1, <2>2
<1>5. ~ \E k, l \in 1 .. Len(queue) : k # l /\ queue[k] = queue[l]
  BY DEF IInv, CountInv
<1>6. ~ (Blocks - 1 < Len(queue))
  <2>1. SUFFICES ASSUME Blocks - 1 < Len(queue) PROVE FALSE
    OBVIOUS
  <2>2. Cardinality(Block \ {widx}) < Cardinality(1 .. Len(queue))
    BY <1>2, <1>3, <2>1
  <2>3. QED
    BY <1>2, <1>3, <1>4, <1>5, <2>2, FS_PigeonHole
<1>7. QED
  BY <1>1, <1>6, RingAssumption

\* A step of the ring is one of SampleFifo unless it loses bytes.
FifoStep == failure' = "none" => [Fifo!FifoNext]_<<[d \in {1} |-> taken], [d \in {1} |-> out]>>

\* Taking bytes that there is room for.
LEMMA TakesBytes ==
  ASSUME IInv, failure = "none", pc = "play", ~SentAfter[widx], taken' = taken + Part, UNCHANGED out
  PROVE  Fifo!FifoNext
<1>1. /\ widx \in Block /\ widx \notin Given /\ Len(data[widx]) \in Nat /\ Length \in Nat \ {0}
      /\ left \in Nat /\ Part \in 1 .. left /\ Len(data[widx]) + Part <= Length
      /\ Len(out) \in Nat /\ Len(queue) \in Nat /\ taken \in Nat
  BY PartFits, Lengths DEF IInv, TypeInv, TypeOK
<1>2. PICK n \in Nat, o \in Nat, p \in Nat \ {0}, m \in Nat :
        n = Len(data[widx]) /\ o = Len(out) /\ p = Part /\ m = Len(queue)
  <2>1. Part \in Nat \ {0}
    BY <1>1
  <2>2. QED
    BY <1>1, <2>1, Zenon
<1>3. taken = o + m * Length + n /\ n + p <= Length
  BY <1>1, <1>2 DEF IInv, OrderInv
<1>4. PICK d \in Nat : Blocks = (m + 1) + d
  <2>1. m + 1 <= Blocks /\ Blocks \in Nat
    BY <1>2, BlocksFit, RingAssumption
  <2>2. Blocks - (m + 1) \in Nat /\ Blocks = (m + 1) + (Blocks - (m + 1))
    BY <2>1
  <2>3. QED
    BY <2>2
<1>5. PICK a \in Nat, b \in Nat : a = m * Length /\ b = d * Length /\ Room = a + Length + b
  <2>1. ((m + 1) + d) * Length = m * Length + Length + d * Length
        /\ m * Length \in Nat /\ d * Length \in Nat
    BY <1>1
  <2>2. QED
    BY <1>4, <2>1 DEF Room
<1>6. taken + p - o <= Room /\ p \in 1 .. Room
  <2>1. taken = o + a + n
    BY <1>3, <1>5, Zenon
  <2>2. QED
    BY <1>1, <1>3, <1>5, <2>1
<1>7. Fifo!Take(1, p)
  <2> DEFINE outs == [d1 \in {1} |-> out]
             takens == [d1 \in {1} |-> taken]
  <2>1. takens[1] + p - Len(outs[1]) <= Blocks * Length
    BY <1>2, <1>6 DEF Room
  <2>2. [d1 \in {1} |-> taken'] = [takens EXCEPT ![1] = takens[1] + p]
    BY <1>2
  <2>3. [d1 \in {1} |-> out'] = outs
    OBVIOUS
  <2>4. QED
    BY <2>1, <2>2, <2>3 DEF Fifo!Take
<1>8. QED
  BY <1>6, <1>7 DEF Fifo!FifoNext, Room

\* Delivering the first block.
LEMMA DeliversBlock == ASSUME IInv, failure = "none", WindowsPlays PROVE Fifo!FifoNext
<1>1. queue # <<>> /\ out' = out \o data[queue[1]] /\ UNCHANGED taken
  <2>1. queue \in Seq(Block) /\ queue # <<>>
    BY DEF IInv, TypeInv, TypeOK, WindowsPlays
  <2>2. Head(queue) = queue[1]
    BY <2>1
  <2>3. QED
    BY <2>1, <2>2 DEF WindowsPlays
<1>2. /\ queue[1] \in Given /\ queue[1] \in Block /\ Len(data[queue[1]]) = Length
      /\ data[queue[1]] \in Seq(Nat) /\ Length \in Nat \ {0} /\ Len(out) \in Nat
      /\ Len(out') = Len(out) + Length /\ out' \in Seq(1 .. taken) /\ taken \in Nat
  BY PlayedKeeps, Lengths DEF IInv, FillInv
<1> DEFINE new == [i \in 1 .. Length |-> Len(out) + i]
<1>3. data[queue[1]] = new
  <2>1. \A j \in 1 .. Length : data[queue[1]][j] = new[j]
    <3> SUFFICES ASSUME NEW j \in 1 .. Length PROVE data[queue[1]][j] = new[j]
      OBVIOUS
    <3>1. queue \in Seq(Block) /\ Len(queue) \in Nat \ {0}
      BY <1>1, EmptySeq DEF IInv, TypeInv, TypeOK
    <3>2. 1 \in 1 .. Len(queue) /\ (1 - 1) * Length = 0
      BY <1>2, <3>1
    <3>3. data[queue[1]][j] = Len(out) + (1 - 1) * Length + j
      BY <3>2 DEF IInv, OrderInv
    <3>4. data[queue[1]][j] = Len(out) + j
      BY <1>2, <3>2, <3>3
    <3>5. QED
      BY <3>4
  <2>2. new \in Seq(Nat) /\ Len(new) = Length
    <3>1. Len(out) \in Nat /\ Length \in Nat
      BY <1>2
    <3>2. QED
      BY <3>1, Consecutive
  <2>3. QED
    BY <1>2, <2>1, <2>2, SeqEqual
<1>4. Len(out) + Length <= taken
  <2>1. PICK o \in Nat, m \in Nat : o = Len(out) /\ m + 1 = Len(queue)
    <3>1. Len(queue) \in Nat \ {0}
      BY <1>1, EmptySeq DEF IInv, TypeInv, TypeOK
    <3>2. Len(queue) - 1 \in Nat /\ (Len(queue) - 1) + 1 = Len(queue)
      BY <3>1
    <3>3. QED
      BY <1>2, <3>2
  <2>2. PICK n \in Nat : taken = o + (m + 1) * Length + n
    <3>1. widx \in Block /\ Len(data[widx]) \in Nat
      BY Lengths DEF IInv, TypeInv, TypeOK
    <3>2. (m + 1) * Length \in Nat
      BY <1>2
    <3>3. CASE widx \in Given
      <4>1. taken = o + (m + 1) * Length + 0
        BY <2>1, <3>2, <3>3 DEF IInv, OrderInv
      <4>2. QED
        BY <4>1
    <3>4. CASE widx \notin Given
      BY <2>1, <3>1, <3>4 DEF IInv, OrderInv
    <3>5. QED
      BY <3>3, <3>4
  <2>3. PICK a \in Nat : (m + 1) * Length = a + Length
    <3>1. (m + 1) * Length = m * Length + Length /\ m * Length \in Nat
      BY <1>2
    <3>2. QED
      BY <3>1
  <2>4. o + Length <= taken
    BY <1>2, <2>2, <2>3
  <2>5. QED
    BY <2>1, <2>4
<1>5. Length \in 1 .. Room
  <2>1. PICK d \in Nat : Blocks = 1 + d
    <3>1. Blocks - 1 \in Nat /\ Blocks = 1 + (Blocks - 1)
      BY RingAssumption
    <3>2. QED
      BY <3>1
  <2>2. (1 + d) * Length = Length + d * Length /\ d * Length \in Nat
    BY <1>2
  <2>3. QED
    BY <1>2, <2>1, <2>2 DEF Room
<1>6. Fifo!Deliver(1, Length)
  <2> DEFINE outs == [d \in {1} |-> out]
             takens == [d \in {1} |-> taken]
  <2>1. Len(outs[1]) + Length <= takens[1] /\ [d \in {1} |-> taken'] = takens
    BY <1>1, <1>4
  <2>2. [d \in {1} |-> out'] = [outs EXCEPT ![1] = out \o [i \in 1 .. Length |-> Len(out) + i]]
    BY <1>1, <1>3
  <2>3. QED
    BY <2>1, <2>2 DEF Fifo!Deliver
<1>7. QED
  BY <1>5, <1>6 DEF Fifo!FifoNext, Room

\* Every step.
LEMMA FifoStepHolds == ASSUME IInv, [Next]_vars PROVE FifoStep
<1>1. failure' = "none" => failure = "none"
  BY DEF Next, Thread, vars, Open, OpenFails, Play, PlaySleep, PlayPart, PlayFull, WindowsPlays,
         Close, CloseRefused, CloseWaits, CloseEnds
<1>2. CASE PlayPart
  BY <1>1, <1>2, TakesBytes DEF PlayPart, FifoStep
<1>3. ASSUME NEW ok \in BOOLEAN, PlayFull(ok) PROVE FifoStep
  BY <1>1, <1>3, TakesBytes DEF PlayFull, FifoStep
<1>4. CASE WindowsPlays
  BY <1>1, <1>4, DeliversBlock DEF FifoStep
<1>5. CASE UNCHANGED <<taken, out>>
  BY <1>5 DEF FifoStep
<1>6. QED
  BY <1>2, <1>3, <1>4, <1>5
     DEF Next, Thread, vars, Ring, Open, OpenFails, Play, PlaySleep, Close, CloseRefused,
         CloseWaits, CloseEnds

\* Until waveOutWrite fails the ring is a FIFO with room for Blocks * Length
\* bytes, and a close leaves less than a block unplayed; and whatever it refuses,
\* no byte is played twice or before an earlier one.
THEOREM Delivers == Spec => DeliversInOrder
<1>1. Init => Fifo!FifoInit
  BY DEF Init, Fifo!FifoInit
<1>2. IInv /\ [Next]_vars =>
        [failure' = "none" => Fifo!FifoNext]_<<taken, out>>
  BY FifoStepHolds DEF FifoStep
<1>3. IInv => (pc = "closed" /\ failure = "none" => taken - Len(out) < Length)
  <2> SUFFICES ASSUME IInv, pc = "closed", failure = "none" PROVE taken - Len(out) < Length
    OBVIOUS
  <2>1. queue = <<>> /\ Len(queue) = 0 /\ Given = {}
    BY EmptySeq DEF IInv, TypeInv, Given
  <2>2. widx \in Block /\ Len(data[widx]) < Length /\ Len(data[widx]) \in Nat
        /\ Len(out) \in Nat /\ Length \in Nat /\ taken \in Nat
    BY <2>1, Lengths DEF IInv, TypeInv, TypeOK, FillInv
  <2>3. PICK o \in Nat, n \in Nat : o = Len(out) /\ n = Len(data[widx])
    BY <2>2, Zenon
  <2>4. taken = o + 0 * Length + n /\ n < Length
    BY <2>1, <2>2, <2>3 DEF IInv, OrderInv
  <2>5. taken - o < Length
    BY <2>2, <2>4
  <2>6. QED
    BY <2>3, <2>5, Zenon
<1>4. IInv => \A i \in 1 .. Len(out) - 1 : out[i] < out[i + 1]
  <2> SUFFICES ASSUME IInv, NEW i \in 1 .. Len(out) - 1 PROVE out[i] < out[i + 1]
    OBVIOUS
  <2>1. i \in 1 .. Len(out) /\ i + 1 \in 1 .. Len(out) /\ i < i + 1
    BY Lengths DEF IInv
  <2>2. QED
    BY <2>1 DEF IInv, RiseInv, Rising
<1>5. QED
  BY <1>1, <1>2, <1>3, <1>4, Inductive, PTL DEF Spec, DeliversInOrder
=============================================================================
