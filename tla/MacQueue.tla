------------------------------ MODULE MacQueue ------------------------------
(***************************************************************************)
(* The macosx plugin (src/src/plugins/macosx/ao_macosx.c): ao_plugin_play  *)
(* fills a ring buffer that CoreAudio's thread empties in audioCallback.   *)
(* All devices share one mutex and one condition variable.  A critical     *)
(* section is one step, for none blocks but in pthread_cond_wait; the      *)
(* callback signals after it has unlocked.  Each device has a thread of    *)
(* its own that plays and then closes.                                     *)
(***************************************************************************)
EXTENDS MacOpen, Sequences

CONSTANTS
  Requests,   \* frames CoreAudio asks for at a time (mDataByteSize)
  Chunks,     \* num_bytes the application plays
  MaxBytes,   \* bound on the bytes played on a device
  StartFails, \* whether AudioOutputUnitStart may fail
  StopFails,  \* whether AudioOutputUnitStop and -Dispose may fail
  TearDown    \* whether CoreAudio may stop by itself (a program in atexit)

ASSUME QueueAssumption ==
  /\ MaxBytes \in Nat /\ Requests \subseteq Nat \ {0} /\ Chunks \subseteq Nat \ {0}
  /\ StartFails \in BOOLEAN /\ StopFails \in BOOLEAN /\ TearDown \in BOOLEAN

VARIABLES
  left,     \* num_bytes of its ao_plugin_play
  ring,     \* internal->buffer
  first,    \* firstValidByteOffset
  valid,    \* validByteCount
  started, stopping,
  callback, \* CoreAudio's thread: "out", or "signal" after the critical section
  waiting,  \* devices whose thread sleeps in pthread_cond_wait
  result,   \* what ao_plugin_close returned, or -1
  taken,    \* history: bytes accepted by ao_plugin_play
  out       \* history: bytes given to CoreAudio

vars == <<openVars, pc, left, ring, first, valid, started, stopping, unit, callback,
          waiting, result, taken, out>>

Fill == <<openVars, ring, first, valid, taken, out>>
Control == <<started, stopping, unit, result>>

Init ==
  /\ MacInit /\ left = [d \in Devices |-> 0] /\ ring = [d \in Devices |-> <<>>]
  /\ first = [d \in Devices |-> 0] /\ valid = [d \in Devices |-> 0]
  /\ started = [d \in Devices |-> FALSE] /\ stopping = [d \in Devices |-> FALSE]
  /\ callback = [d \in Devices |-> "out"]
  /\ waiting = {} /\ result = [d \in Devices |-> -1]
  /\ taken = [d \in Devices |-> 0] /\ out = [d \in Devices |-> <<>>]

Min2(a, b) == IF a < b THEN a ELSE b

\* Until the device is open the queue does not exist.
BeforeOpen(d) ==
  /\ \/ (\E ms \in Times : SetBufferTime(d, ms)) \/ (\E found \in BOOLEAN : SetDev(d, found))
     \/ SetDevFails(d) \/ \E f \in Formats : OpenRefused(d, f) \/ OpenFails(d, f)
  /\ UNCHANGED <<left, ring, first, valid, started, stopping, callback, waiting,
                 result, taken, out>>

\* The queue is allocated and cleared last.
Open(d, f) ==
  /\ \E got \in Reported(f) : OpenUnit(d, f, got)
  /\ ring' = [ring EXCEPT ![d] = [i \in 0 .. size'[d] - 1 |-> 0]]
  /\ UNCHANGED <<left, first, valid, started, stopping, callback, waiting, result,
                 taken, out>>
-----------------------------------------------------------------------------
(* ao_plugin_play. *)

Play(d, n) ==
  /\ pc[d] = "idle" /\ taken[d] + n <= MaxBytes
  /\ Goto(d, "play") /\ left' = [left EXCEPT ![d] = n]
  /\ UNCHANGED <<callback, waiting>> /\ UNCHANGED Fill /\ UNCHANGED Control

Empty(d) == size[d] - valid[d]

FirstEmpty(d) == (first[d] + valid[d]) % size[d]

\* Seeded fault: the chunk ends at the end of the buffer, but is not limited
\* to the empty space.
FaultChunk(d) == Min2(left[d], size[d] - FirstEmpty(d))

\* The part of the empty space up to the end of the buffer.
Chunk(d) ==
  IF FirstEmpty(d) + Empty(d) > size[d] THEN Min2(left[d], size[d] - FirstEmpty(d))
                                     ELSE Min2(left[d], Empty(d))

\* There is space: copy a chunk and go round the loop.
PlayCopy(d) ==
  /\ pc[d] = "play" /\ Empty(d) > 0
  /\ LET n == Chunk(d) at == FirstEmpty(d)
     IN /\ ring' = [ring EXCEPT ![d] =
             [i \in 0 .. size[d] - 1 |->
               IF i \in at .. at + n - 1 THEN taken[d] + 1 + (i - at) ELSE @[i]]]
        /\ valid' = [valid EXCEPT ![d] = @ + n]
        /\ taken' = [taken EXCEPT ![d] = @ + n]
        /\ left' = [left EXCEPT ![d] = @ - n]
        /\ Goto(d, IF left[d] = n THEN "idle" ELSE "play")
  /\ UNCHANGED <<openVars, first, out, callback, waiting>> /\ UNCHANGED Control

\* AudioOutputUnitStart, when the unit is not started yet.
Start(d) == /\ started' = [started EXCEPT ![d] = TRUE]
            /\ unit' = [unit EXCEPT ![d] = IF @ = "made" THEN "running" ELSE @]

\* The queue is full: see that the unit runs, and sleep.
PlayWait(d) ==
  /\ pc[d] = "play" /\ Empty(d) = 0
  /\ IF started[d] THEN UNCHANGED <<started, unit>> ELSE Start(d)
  /\ waiting' = waiting \cup {d} /\ Goto(d, "play waits")
  /\ UNCHANGED <<left, callback, stopping, result>> /\ UNCHANGED Fill

\* The unit does not start; ao_plugin_play returns 0.
PlayFails(d) ==
  /\ pc[d] = "play" /\ Empty(d) = 0 /\ ~started[d] /\ StartFails
  /\ Goto(d, "idle") /\ left' = [left EXCEPT ![d] = 0]
  /\ UNCHANGED <<callback, waiting>> /\ UNCHANGED Fill /\ UNCHANGED Control

\* pthread_cond_wait returns, and the loop looks again.
Wake(d) ==
  /\ pc[d] \in {"play waits", "close waits"} /\ d \notin waiting
  /\ Goto(d, IF pc[d] = "play waits" THEN "play" ELSE "flush")
  /\ UNCHANGED <<left, callback, waiting>> /\ UNCHANGED Fill /\ UNCHANGED Control
-----------------------------------------------------------------------------
(* audioCallback. *)

\* Seeded fault: an application that stops is treated like one that pauses.
FaultTooLittle(d, request) == valid[d] < request

\* "Not enough data ... let it build up a bit more".
TooLittle(d, request) == valid[d] < request /\ ~stopping[d]

\* Seeded fault: the copy does not go on at the start of the buffer.
FaultRead(d, n) == [i \in 1 .. n |-> ring[d][Min2(first[d] + i - 1, size[d] - 1)]]

\* The oldest bytes, in two pieces where they run over the end of the buffer.
Read(d, n) == [i \in 1 .. n |-> ring[d][(first[d] + i - 1) % size[d]]]

\* With too little data it plays silence and leaves the queue alone.  (A unit that
\* close could not stop goes on to read what device_clear has freed: undefined.)
CallbackCopy(d, frames) ==
  /\ unit[d] = "running" /\ pc[d] # "closed" /\ callback[d] = "out"
  /\ LET request == frames * FrameBytes(format[d])
         n == Min2(request, valid[d])
     IN /\ ~TooLittle(d, request)
        /\ out' = [out EXCEPT ![d] = @ \o Read(d, n)]
        /\ valid' = [valid EXCEPT ![d] = @ - n]
        /\ first' = [first EXCEPT ![d] = (@ + n) % size[d]]
  /\ callback' = [callback EXCEPT ![d] = "signal"]
  /\ UNCHANGED <<openVars, pc, left, ring, taken, waiting>> /\ UNCHANGED Control

\* pthread_cond_signal wakes one of the sleeping threads, whichever it is.
CallbackSignal(d) ==
  /\ callback[d] = "signal" /\ callback' = [callback EXCEPT ![d] = "out"]
  /\ IF waiting = {} THEN UNCHANGED waiting
     ELSE \E e \in waiting : waiting' = waiting \ {e}
  /\ UNCHANGED <<pc, left>> /\ UNCHANGED Fill /\ UNCHANGED Control

\* pthread_cond_wait may return without a signal.
SpuriousWakeup(d) ==
  /\ d \in waiting /\ waiting' = waiting \ {d}
  /\ UNCHANGED <<pc, left, callback>> /\ UNCHANGED Fill /\ UNCHANGED Control

\* CoreAudio stops calling by itself.
HalTornDown(d) ==
  /\ TearDown /\ unit[d] = "running" /\ callback[d] = "out"
  /\ unit' = [unit EXCEPT ![d] = "torn down"]
  /\ UNCHANGED <<pc, left, callback, waiting, started, stopping, result>>
  /\ UNCHANGED Fill
-----------------------------------------------------------------------------
(* ao_plugin_close. *)

Return(d, code) == Goto(d, "closed") /\ result' = [result EXCEPT ![d] = code]

\* Start the unit for data that never filled the queue, then see whether it
\* runs at all: if not there is nothing to wait for.  A device whose open failed
\* is closed too, with or without a unit.
Close(d) ==
  /\ pc[d] \in {"idle", "refused"}
  /\ IF unit[d] \in {"none", "disposed"}
     THEN Return(d, 1) /\ UNCHANGED <<started, stopping, unit>>
     ELSE /\ stopping' = [stopping EXCEPT ![d] = TRUE]
          /\ LET starts == ~started[d] /\ valid[d] > 0
             IN \/ /\ starts /\ StartFails /\ Return(d, 0) /\ UNCHANGED <<started, unit>>
                \/ /\ IF starts THEN Start(d) ELSE UNCHANGED <<started, unit>>
                   /\ IF unit'[d] = "running" THEN Goto(d, "flush") /\ UNCHANGED result
                                              ELSE Return(d, 1)
  /\ UNCHANGED <<left, callback, waiting>> /\ UNCHANGED Fill

\* "Wait for any pending data to get flushed".
CloseFlush(d) ==
  /\ pc[d] = "flush"
  /\ IF valid[d] > 0 THEN waiting' = waiting \cup {d} /\ Goto(d, "close waits")
                     ELSE Goto(d, "stop") /\ UNCHANGED waiting
  /\ UNCHANGED <<left, callback>> /\ UNCHANGED Fill /\ UNCHANGED Control

\* AudioOutputUnitStop, outside the mutex: CoreAudio begins no callback more,
CloseStop(d) ==
  /\ pc[d] = "stop" /\ Goto(d, "stopping")
  /\ unit' = [unit EXCEPT ![d] = "stopped"]
  /\ UNCHANGED <<left, callback, waiting, started, stopping, result>>
  /\ UNCHANGED Fill

CloseStopFails(d) ==
  /\ pc[d] = "stop" /\ StopFails /\ Return(d, 0)
  /\ UNCHANGED <<left, callback, waiting, started, stopping, unit>>
  /\ UNCHANGED Fill

\* and returns when none is running; AudioComponentInstanceDispose follows.
CloseDispose(d) ==
  /\ pc[d] = "stopping" /\ callback[d] = "out"
  /\ \/ Return(d, 1) /\ unit' = [unit EXCEPT ![d] = "disposed"]
     \/ StopFails /\ Return(d, 0) /\ UNCHANGED unit
  /\ UNCHANGED <<left, callback, waiting, started, stopping>>
  /\ UNCHANGED Fill
-----------------------------------------------------------------------------
Thread(d) ==
  \/ PlayCopy(d) \/ PlayWait(d) \/ PlayFails(d) \/ Wake(d)
  \/ CloseFlush(d) \/ CloseStop(d) \/ CloseStopFails(d) \/ CloseDispose(d)

Callback(d) ==
  (\E frames \in Requests : CallbackCopy(d, frames)) \/ CallbackSignal(d)

Environment(d) ==
  \/ BeforeOpen(d) \/ \E f \in Formats : Open(d, f)
  \/ \E n \in Chunks : Play(d, n)
  \/ Close(d) \/ SpuriousWakeup(d) \/ HalTornDown(d)

Next == \E d \in Devices : Thread(d) \/ Callback(d) \/ Environment(d)

Spec == Init /\ [][Next]_vars

\* The threads run, and CoreAudio calls a running unit again and again.
FairSpec ==
  Spec /\ \A d \in Devices : WF_vars(Thread(d)) /\ WF_vars(Callback(d))
-----------------------------------------------------------------------------
(* What should hold. *)

Bytes == 0 .. MaxBytes

TypeOK ==
  /\ MacTypeOK
  /\ pc \in [Devices -> {"ready", "refused", "idle", "play", "play waits", "flush",
                         "close waits", "stop", "stopping", "closed"}]
  /\ left \in [Devices -> Nat]
  /\ \A d \in Devices : /\ ring[d] \in [0 .. size[d] - 1 -> Bytes]
                       /\ first[d] \in 0 .. size[d] /\ valid[d] \in 0 .. size[d]
  /\ started \in [Devices -> BOOLEAN] /\ stopping \in [Devices -> BOOLEAN]
  /\ unit \in [Devices -> {"none", "made", "running", "torn down", "stopped", "disposed"}]
  /\ callback \in [Devices -> {"out", "signal"}] /\ waiting \subseteq Devices
  /\ result \in [Devices -> {-1, 0, 1}]
  /\ taken \in [Devices -> Nat] /\ out \in [Devices -> Seq(Bytes)]

Fifo == INSTANCE SampleFifo WITH Capacity <- MaxBytes

\* The ring buffer is a FIFO of bufferByteCount bytes, wrap-around and all;
\* CoreAudio gets whole frames but for the end of the stream, in the format it
\* agreed to.
DeliversInOrder ==
  /\ Fifo!FifoSpec
  /\ [][\A d \in Devices :
          /\ taken'[d] - Len(out'[d]) <= size'[d]
          /\ out[d] # <<>> =>
               \/ Len(out[d]) % FrameBytes(format[d]) = 0
               \/ (Len(out[d]) = taken[d] /\ stopping[d])]_vars
  /\ []StreamFits

\* The queue holds as much as CoreAudio asks for at a time.
HoldsRequests(d) ==
  format[d] # NoStream => \A frames \in Requests : frames * FrameBytes(format[d]) <= size[d]

\* The thread that calls ao_plugin_play or ao_plugin_close gets it back, unless
\* CoreAudio has stopped on its own, or finds the queue never full enough to
\* take anything from it: nothing wakes a waiting thread then.
CallsReturn ==
  \A d \in Devices :
    pc[d] \notin {"ready", "idle", "refused"} ~>
      pc[d] \in {"idle", "closed"} \/ unit[d] = "torn down" \/ ~HoldsRequests(d)

\* ao_plugin_play waits "until there is some empty space in the queue" (its
\* comment): it does not sleep on when there is.
WaitsForSpaceOnly ==
  \A d \in Devices : [](pc[d] = "play waits" /\ Empty(d) > 0 => <>(pc[d] # "play waits"))

\* ao_close returns 1 when the remaining data was written.
OneMeansWritten == \A d \in Devices : result[d] = 1 => Len(out[d]) = taken[d]

\* The plugin gives its unit back, and before its structure is freed.
UnitGivenBack == \A d \in Devices : pc[d] = "closed" => unit[d] \in {"none", "disposed"}
=============================================================================
