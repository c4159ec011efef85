------------------------------ MODULE WmmRing ------------------------------
(***************************************************************************)
(* The wmm driver (src/src/ao_wmm.c): a ring of wave headers, filled by    *)
(* ao_wmm_play at widx, given to Windows with waveOutWrite when full, and  *)
(* released from ridx when Windows has marked them WHDR_DONE.  Windows     *)
(* plays the headers in the order it got them, at its own pace.            *)
(***************************************************************************)
EXTENDS Integers, Sequences, FiniteSets

CONSTANTS
  Blocks,     \* wave headers in the ring (64)
  Length,     \* bytes in the buffer of each
  Chunks,     \* num_bytes the application plays
  MaxBytes,   \* bound on the bytes played
  WriteFails, \* whether waveOutWrite may fail
  PlaysOn     \* whether the application plays on when ao_play has failed

ASSUME RingAssumption ==
  /\ Blocks \in Nat \ {0} /\ Length \in Nat \ {0} /\ MaxBytes \in Nat
  /\ Chunks \subseteq Nat \ {0}
  /\ WriteFails \in BOOLEAN /\ PlaysOn \in BOOLEAN

Block == 0 .. Blocks - 1

VARIABLES
  pc,         \* where the application's thread stands
  left,       \* num_bytes of the ao_wmm_play under way
  data,       \* the bytes in each block; their number is wh[i].count
  sent, done, \* wh[i].sent and WHDR_DONE
  widx, ridx,
  sentBlocks, fullBlocks,
  queue,      \* the blocks Windows has and has not played, in order
  result,     \* what ao_wmm_close returned, or -1
  failure,    \* history: "none", "dropped" when waveOutWrite has failed, or
              \* "ignored" when the application played on all the same
  taken, out  \* history: bytes ao_wmm_play took, bytes Windows played

vars == <<pc, left, data, sent, done, widx, ridx, sentBlocks, fullBlocks,
          queue, result, failure, taken, out>>

Init ==
  /\ pc = "none" /\ left = 0 /\ data = [i \in Block |-> <<>>]
  /\ sent = [i \in Block |-> FALSE] /\ done = [i \in Block |-> FALSE]
  /\ widx = 0 /\ ridx = 0 /\ sentBlocks = 0 /\ fullBlocks = 0
  /\ queue = <<>> /\ result = -1 /\ failure = "none" /\ taken = 0 /\ out = <<>>

Ring == <<data, sent, done, widx, ridx, sentBlocks, fullBlocks, queue, taken>>
-----------------------------------------------------------------------------
(* ao_wmm_open. *)

\* The device is open, its headers are allocated and prepared.
Open ==
  /\ pc = "none" /\ pc' = "open"
  /\ UNCHANGED <<left, result, failure, out>> /\ UNCHANGED Ring

\* waveOutOpen, malloc or waveOutPrepareHeader fails; what was done is undone.
OpenFails ==
  /\ pc = "none" /\ pc' = "refused"
  /\ UNCHANGED <<left, result, failure, out>> /\ UNCHANGED Ring
-----------------------------------------------------------------------------
(* _ao_get_free_block: release the played blocks at the read end. *)

At(k) == (ridx + k) % Blocks

\* Seeded fault: a block is free as soon as it is sent.
FaultDone(i) == sent[i]

\* Sent, and marked WHDR_DONE.
Done(i) == sent[i] /\ done[i]

Released == {i \in Block : \E k \in Block : At(k) = i /\ \A j \in 0 .. k : Done(At(j))}

Minus(n, k) == IF n < k THEN 0 ELSE n - k

\* Seeded fault: the read index is not moved on.
FaultRidx == ridx

NextRidx == At(Cardinality(Released))

\* What the release makes of the ring, before the caller goes on.
SentAfter == [i \in Block |-> sent[i] /\ i \notin Released]

DoneAfter == [i \in Block |-> done[i] /\ i \notin Released]

Release ==
  /\ ridx' = NextRidx
  /\ done' = DoneAfter
  /\ fullBlocks' = Minus(fullBlocks, Cardinality(Released))
  /\ sentBlocks' = Minus(sentBlocks, Cardinality(Released))
-----------------------------------------------------------------------------
(* ao_wmm_play. *)

Play(n) ==
  /\ pc = "open" \/ (PlaysOn /\ pc = "failed")
  /\ taken + n <= MaxBytes
  /\ pc' = "play" /\ left' = n
  /\ failure' = IF pc = "failed" THEN "ignored" ELSE failure
  /\ UNCHANGED <<result, out>> /\ UNCHANGED Ring

\* The block to fill is still with Windows: sleep and look again.
PlaySleep ==
  /\ pc = "play" /\ SentAfter[widx] /\ Released # {}
  /\ Release /\ sent' = SentAfter
  /\ UNCHANGED <<pc, left, data, widx, queue, result, failure, taken, out>>

\* How many bytes go into the block.
Part == IF Length - Len(data[widx]) > left THEN left ELSE Length - Len(data[widx])

Filled == [data EXCEPT ![widx] = @ \o [i \in 1 .. Part |-> taken + i]]

\* The block is not full with it.
PlayPart ==
  /\ pc = "play" /\ ~SentAfter[widx] /\ Len(data[widx]) + Part < Length
  /\ Release /\ sent' = SentAfter
  /\ data' = Filled /\ taken' = taken + Part
  /\ left' = 0 /\ pc' = "open"
  /\ UNCHANGED <<widx, queue, result, failure, out>>

\* Seeded fault: a block counts as sent before waveOutWrite has taken it.
FaultCounted(ok) == 1

Counted(ok) == IF ok THEN 1 ELSE 0

\* It is full, and goes to Windows; when waveOutWrite fails its bytes are lost
\* and ao_wmm_play returns 0.  (_ao_send_block's own checks never refuse a
\* block that is free.)
PlayFull(ok) ==
  /\ pc = "play" /\ ~SentAfter[widx] /\ Len(data[widx]) + Part = Length
  /\ ok \/ WriteFails
  /\ ridx' = NextRidx /\ done' = DoneAfter
  /\ fullBlocks' = Minus(fullBlocks, Cardinality(Released)) + 1
  /\ sentBlocks' = Minus(sentBlocks, Cardinality(Released)) + Counted(ok)
  /\ sent' = [SentAfter EXCEPT ![widx] = ok]
  /\ data' = IF ok THEN Filled ELSE [data EXCEPT ![widx] = <<>>]
  /\ queue' = IF ok THEN Append(queue, widx) ELSE queue
  /\ widx' = (widx + 1) % Blocks
  /\ taken' = taken + Part /\ left' = IF ok THEN left - Part ELSE 0
  /\ pc' = CASE ~ok -> "failed" [] ok /\ left = Part -> "open" [] OTHER -> "play"
  /\ failure' = IF ~ok /\ failure = "none" THEN "dropped" ELSE failure
  /\ UNCHANGED <<result, out>>

\* Windows has played a block.  (wh[i].count went back to 0 when it was sent.)
WindowsPlays ==
  /\ queue # <<>> /\ queue' = Tail(queue)
  /\ out' = out \o data[Head(queue)]
  /\ data' = [data EXCEPT ![Head(queue)] = <<>>]
  /\ done' = [done EXCEPT ![Head(queue)] = TRUE]
  /\ UNCHANGED <<pc, left, sent, widx, ridx, sentBlocks, fullBlocks, result, failure, taken>>
-----------------------------------------------------------------------------
(* ao_wmm_close. *)

Close ==
  /\ pc \in {"open", "failed"} /\ pc' = "wait"
  /\ UNCHANGED <<left, result, failure, out>> /\ UNCHANGED Ring

\* The core closes a device that failed to open, too: nothing to do, 0.
CloseRefused ==
  /\ pc = "refused" /\ pc' = "closed" /\ result' = 0
  /\ UNCHANGED <<left, failure, out>> /\ UNCHANGED Ring

\* _ao_wait_wave_headers, a turn of its loop.
CloseWaits ==
  /\ pc = "wait" /\ sentBlocks > 0 /\ Released # {}
  /\ Release /\ sent' = SentAfter
  /\ UNCHANGED <<pc, left, data, widx, queue, result, failure, taken, out>>

\* No block is out: reset, unprepare and close; each may fail.
CloseEnds(ok) ==
  /\ pc = "wait" /\ sentBlocks = 0
  /\ pc' = "closed" /\ result' = ok
  /\ UNCHANGED <<left, failure, out>> /\ UNCHANGED Ring
-----------------------------------------------------------------------------
Thread ==
  \/ PlaySleep \/ PlayPart \/ (\E ok \in BOOLEAN : PlayFull(ok))
  \/ CloseWaits \/ (\E ok \in {0, 1} : CloseEnds(ok))

Next ==
  \/ Open \/ OpenFails \/ (\E n \in Chunks : Play(n)) \/ Thread
  \/ WindowsPlays \/ Close \/ CloseRefused

Spec == Init /\ [][Next]_vars

\* The thread runs, and Windows plays what it has.
FairSpec == Spec /\ WF_vars(Thread) /\ WF_vars(WindowsPlays)
-----------------------------------------------------------------------------
(* What should hold. *)

TypeOK ==
  /\ pc \in {"none", "refused", "open", "play", "failed", "wait", "closed"}
  /\ left \in Nat /\ result \in {-1, 0, 1} /\ taken \in 0 .. MaxBytes
  /\ failure \in {"none", "dropped", "ignored"}
  /\ data \in [Block -> Seq(1 .. MaxBytes)] /\ out \in Seq(1 .. MaxBytes)
  /\ sent \in [Block -> BOOLEAN] /\ done \in [Block -> BOOLEAN]
  /\ widx \in Block /\ ridx \in Block /\ queue \in Seq(Block)
  /\ sentBlocks \in 0 .. Blocks /\ fullBlocks \in Nat

\* sent_blocks, on which ao_wmm_close waits, counts the blocks that are out,
\* and Windows holds those of them it has not marked done.
SentAreCounted ==
  /\ sentBlocks = Cardinality({i \in Block : sent[i]})
  /\ {queue[k] : k \in 1 .. Len(queue)} = {i \in Block : sent[i] /\ ~done[i]}

Fifo == INSTANCE SampleFifo WITH
  Devices <- {1}, Capacity <- Blocks * Length,
  taken <- [d \in {1} |-> taken], out <- [d \in {1} |-> out]

\* Until waveOutWrite fails the ring is a FIFO: no block is overwritten before it
\* is played.  And whatever fails, no byte is played twice or before an earlier
\* one.
DeliversInOrder ==
  /\ Fifo!FifoInit /\ [][failure' = "none" => Fifo!FifoNext]_<<taken, out>>
  /\ [](pc = "closed" /\ failure = "none" => taken - Len(out) < Length)
  /\ [](\A i \in 1 .. Len(out) - 1 : out[i] < out[i + 1])

\* ao_wmm_play and ao_wmm_close return to an application that stops playing when
\* ao_play has failed, as doc/ao_play.html asks of it.
CallsReturn ==
  pc \in {"play", "wait"} ~> pc \in {"open", "failed", "closed"} \/ failure = "ignored"

\* ao_close returns 1 when the remaining data was written.
OneMeansWritten == result = 1 => Len(out) = taken
=============================================================================
