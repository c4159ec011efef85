---------------------------- MODULE MacQueue_proofs --------------------------
(***************************************************************************)
(* Proofs about MacQueue, for any number of devices that share the mutex   *)
(* and the condition variable, any formats, requests and chunks, and any   *)
(* interleaving of the threads with CoreAudio's: its types, and that the   *)
(* ring buffer is a FIFO of whole frames.                                  *)
(***************************************************************************)
EXTENDS MacQueue, SequenceTheorems, TLAPS

Stages == {"ready", "refused", "idle", "play", "play waits", "flush", "close waits", "stop",
           "stopping", "closed"}
Units == {"none", "made", "running", "torn down", "stopped", "disposed"}
Playing == {"play", "play waits"}
Closing == {"flush", "close waits", "stop", "stopping", "closed"}
Streams == (UNION {Reported(f) : f \in Formats}) \cup {NoStream}

\* The shapes of the variables.  How long a ring is, its size tells.
TypeInv ==
  /\ pc \in [Devices -> Stages] /\ left \in [Devices -> Nat]
  /\ bufferTime \in [Devices -> 0 .. Wrap - 1] /\ named \in [Devices -> BOOLEAN]
  /\ format \in [Devices -> Formats \cup {NoStream}] /\ stream \in [Devices -> Streams]
  /\ size \in [Devices -> 0 .. Wrap - 1]
  /\ ring \in [Devices -> UNION {[0 .. n - 1 -> Bytes] : n \in Nat}]
  /\ first \in [Devices -> Nat] /\ valid \in [Devices -> Nat]
  /\ started \in [Devices -> BOOLEAN] /\ stopping \in [Devices -> BOOLEAN]
  /\ unit \in [Devices -> Units] /\ callback \in [Devices -> {"out", "signal"}]
  /\ waiting \subseteq Devices /\ result \in [Devices -> {-1, 0, 1}]
  /\ taken \in [Devices -> Nat] /\ out \in [Devices -> Seq(Bytes)]

\* A device has a stream when it is open, and until then no queue.
OpenInv(d) ==
  /\ pc[d] \in {"ready", "refused"} => stream[d] = NoStream
  /\ stream[d] = NoStream =>
       /\ pc[d] \in {"ready", "refused", "closed"} /\ size[d] = 0
       /\ out[d] = <<>> /\ unit[d] # "running"
  /\ stream[d] # NoStream =>
       /\ format[d] \in Formats
       /\ [stream[d] EXCEPT !.rate = 0] = [Asked(format[d]) EXCEPT !.rate = 0]

\* A device is stopping from ao_plugin_close on.  One whose queue holds nothing
\* never gets there once it runs: its ao_plugin_play does not return.
UnitInv(d) ==
  /\ unit[d] = "running" => started[d]
  /\ stopping[d] => pc[d] \in Closing
  /\ size[d] = 0 /\ unit[d] = "running" => pc[d] \in Playing

\* What ao_plugin_play still has to queue.
LeftInv(d) ==
  /\ taken[d] + left[d] <= MaxBytes
  /\ pc[d] \in Playing => left[d] > 0
  /\ pc[d] \notin Playing => left[d] = 0

\* Where the i-th of the valid bytes lies.
Place(d, i) ==
  IF first[d] + i - 1 < size[d] THEN first[d] + i - 1 ELSE first[d] + i - 1 - size[d]

\* The ring holds the bytes that were taken and not given to CoreAudio, in order.
RingInv(d) ==
  /\ valid[d] <= size[d] /\ first[d] <= size[d] /\ (size[d] > 0 => first[d] < size[d])
  /\ ring[d] \in [0 .. size[d] - 1 -> Bytes]
  /\ taken[d] = Len(out[d]) + valid[d]
  /\ \A i \in 1 .. valid[d] : ring[d][Place(d, i)] = Len(out[d]) + i

\* CoreAudio has whole frames, or all there is.
FrameInv(d) ==
  stream[d] # NoStream =>
    \/ Len(out[d]) % FrameBytes(format[d]) = 0
    \/ Len(out[d]) = taken[d] /\ stopping[d]

DevInv(d) == OpenInv(d) /\ UnitInv(d) /\ LeftInv(d) /\ RingInv(d) /\ FrameInv(d)

IInv == TypeInv /\ \A d \in Devices : DevInv(d)

\* What the invariants of a device are about.
Same(d) ==
  /\ pc'[d] = pc[d] /\ left'[d] = left[d] /\ format'[d] = format[d] /\ stream'[d] = stream[d]
  /\ size'[d] = size[d] /\ ring'[d] = ring[d] /\ first'[d] = first[d] /\ valid'[d] = valid[d]
  /\ started'[d] = started[d] /\ stopping'[d] = stopping[d] /\ unit'[d] = unit[d]
  /\ taken'[d] = taken[d] /\ out'[d] = out[d]
-----------------------------------------------------------------------------
(* Arithmetic. *)

\* A remainder is less than the divisor.
LEMMA Modulo == \A a \in Nat, b \in Nat \ {0} : a % b \in 0 .. b - 1 /\ a \div b \in Nat
OBVIOUS

\* A number is its quotient and its remainder.
LEMMA Division == \A a \in Nat, b \in Nat \ {0} : a = b * (a \div b) + (a % b)
OBVIOUS

\* The product of two numbers is a number.
LEMMA Product == \A a \in Nat, b \in Nat : a * b \in Nat /\ (a > 0 /\ b > 0 => a * b > 0)
OBVIOUS

\* Less than twice round the ring.
LEMMA Wrapped ==
  ASSUME NEW s \in Nat \ {0}, NEW x \in Nat, x < 2 * s
  PROVE  x % s = IF x < s THEN x ELSE x - s
<1>1. PICK q \in Nat, r \in 0 .. s - 1 : q = x \div s /\ r = x % s /\ x = s * q + r
  BY Modulo, Division
<1>2. q = 0 \/ q = 1
  <2>1. SUFFICES ASSUME q >= 2 PROVE FALSE
    BY <1>1
  <2>2. s * q = s * 2 + s * (q - 2)
    BY <1>1
  <2>3. s * (q - 2) \in Nat
    BY <1>1, <2>1, Product
  <2>4. QED
    BY <1>1, <2>2, <2>3
<1>3. CASE q = 0
  BY <1>1, <1>3
<1>4. CASE q = 1
  BY <1>1, <1>4
<1>5. QED
  BY <1>2, <1>3, <1>4

\* Between 0 and b there is only one multiple of b.
LEMMA OnlyZero == \A d \in Int, b \in Nat \ {0} : 0 <= b * d /\ b * d < b => b * d = 0
OBVIOUS

\* Some frames more stay a number of frames.
LEMMA FramesMore ==
  ASSUME NEW n \in Nat, NEW b \in Nat \ {0}, NEW k \in Nat, n % b = 0
  PROVE  (n + k * b) % b = 0
<1>1. PICK q \in Nat : n = b * q
  <2>1. n = b * (n \div b) + 0
    BY Division
  <2>2. n \div b \in Nat /\ b * (n \div b) \in Nat
    BY Modulo, Product
  <2>3. QED
    BY <2>1, <2>2
<1>2. k * b \in Nat
  BY Product
<1>3. PICK m \in Nat : m = n + k * b
  BY <1>2
<1>4. PICK p \in Nat, r \in 0 .. b - 1 : p = m \div b /\ r = m % b /\ m = b * p + r
  BY Modulo, Division
<1>5. b * (q + k - p) = b * q + k * b - b * p
  BY <1>1, <1>4
<1>6. r = b * (q + k - p)
  <2>1. PICK x \in Nat, y \in Nat, z \in Nat : x = b * q /\ y = k * b /\ z = b * p
    BY Product
  <2>2. n = x /\ m = n + y /\ m = z + r /\ b * (q + k - p) = x + y - z
    BY <1>1, <1>3, <1>4, <1>5, <2>1
  <2>3. r = x + y - z
    BY <1>4, <2>1, <2>2
  <2>4. QED
    BY <2>2, <2>3
<1>7. q + k - p \in Int
  BY <1>1, <1>4
<1>8. r = 0
  BY <1>4, <1>6, <1>7, OnlyZero
<1>9. QED
  BY <1>3, <1>4, <1>8

\* No frames are a number of frames.
LEMMA NoFrames == \A b \in Nat \ {0} : 0 % b = 0
OBVIOUS

\* A frame has bytes.
LEMMA FrameIs == ASSUME NEW f \in Formats PROVE FrameBytes(f) \in Nat \ {0}
<1>1. f.channels \in Nat \ {0} /\ f.bits \in {8, 16, 24}
  BY MacOpenAssumption
<1>2. PICK c \in Nat \ {0} : c = f.channels
  BY <1>1
<1>3. (c * 8) \div 8 = c /\ (c * 16) \div 8 = 2 * c /\ (c * 24) \div 8 = 3 * c
  OBVIOUS
<1>4. QED
  BY <1>1, <1>2, <1>3 DEF FrameBytes

\* The queue is as large as an unsigned int can say.
LEMMA SizeIs ==
  ASSUME TypeInv, NEW d \in Devices, NEW f \in Formats
  PROVE  BufferBytes(d, f) \in 0 .. Wrap - 1
<1>1. Wrap \in Nat \ {0}
  BY MacOpenAssumption
<1>2. PICK t \in Nat : t = bufferTime[d]
  BY <1>1 DEF TypeInv
<1>3. PICK r \in Nat : r = f.rate
  BY MacOpenAssumption
<1>4. PICK b \in Nat : b = FrameBytes(f)
  BY FrameIs
<1>5. PICK n \in Nat : n = (((t * r) % Wrap) \div 1000) * b
  <2>1. t * r \in Nat
    BY Product
  <2>2. (t * r) % Wrap \in Nat
    BY <1>1, <2>1, Modulo
  <2>3. ((t * r) % Wrap) \div 1000 \in Nat
    BY <2>2, Modulo
  <2>4. QED
    BY <2>3, Product
<1>6. n % Wrap \in 0 .. Wrap - 1
  BY <1>1, Modulo
<1>7. QED
  BY <1>2, <1>3, <1>4, <1>5, <1>6 DEF BufferBytes
-----------------------------------------------------------------------------
(* Steps that move no byte. *)

\* A step of one device leaves the others as they are.
LEMMA OthersKeep ==
  ASSUME IInv, TypeInv', NEW d \in Devices, DevInv(d)', \A e \in Devices \ {d} : Same(e)
  PROVE  IInv'
<1>1. ASSUME NEW e \in Devices \ {d} PROVE DevInv(e)'
  <2>1. DevInv(e) /\ Same(e)
    BY DEF IInv
  <2>2. OpenInv(e)' /\ UnitInv(e)' /\ LeftInv(e)'
    BY <2>1 DEF DevInv, Same, OpenInv, UnitInv, LeftInv
  <2>3. RingInv(e)'
    BY <2>1 DEF DevInv, Same, RingInv, Place
  <2>4. FrameInv(e)'
    BY <2>1 DEF DevInv, Same, FrameInv
  <2>5. QED
    BY <2>2, <2>3, <2>4 DEF DevInv
<1>2. QED
  BY <1>1 DEF IInv

\* What a thread's step may change beside the queue.
ControlSame(e) ==
  /\ pc'[e] = pc[e] /\ left'[e] = left[e] /\ started'[e] = started[e]
  /\ stopping'[e] = stopping[e] /\ unit'[e] = unit[e]

\* A step that leaves the queues alone.
LEMMA ControlKeeps ==
  ASSUME IInv, TypeInv', UNCHANGED Fill, NEW d \in Devices, stopping[d] => stopping'[d],
         \A e \in Devices \ {d} : ControlSame(e), OpenInv(d)', UnitInv(d)', LeftInv(d)'
  PROVE  IInv'
<1>1. DevInv(d)
  BY DEF IInv
<1>2. RingInv(d)'
  BY <1>1 DEF DevInv, Fill, openVars, RingInv, Place
<1>3. FrameInv(d)'
  BY <1>1 DEF DevInv, Fill, openVars, FrameInv
<1>4. \A e \in Devices \ {d} : Same(e)
  BY DEF Fill, openVars, ControlSame, Same
<1>5. QED
  BY <1>2, <1>3, <1>4, OthersKeep DEF DevInv

\* A call of ao_plugin_play begins, sleeps, wakes or fails.
LEMMA PlayKeeps ==
  ASSUME IInv, NEW d \in Devices,
         (\E n \in Chunks : Play(d, n)) \/ PlayWait(d) \/ PlayFails(d) \/ Wake(d)
  PROVE  IInv'
<1>1. TypeInv /\ DevInv(d)
  BY DEF IInv
<1>2. CASE \E n \in Chunks : Play(d, n)
  <2>1. PICK n \in Chunks : Play(d, n)
    BY <1>2
  <2>2. n \in Nat /\ n > 0
    BY QueueAssumption
  <2>3. /\ UNCHANGED Fill /\ UNCHANGED Control /\ UNCHANGED <<callback, waiting>>
        /\ pc' = [pc EXCEPT ![d] = "play"] /\ left' = [left EXCEPT ![d] = n]
        /\ pc[d] = "idle" /\ taken[d] + n <= MaxBytes
    BY <2>1 DEF Play, Goto
  <2>4. TypeInv'
    BY <1>1, <2>2, <2>3 DEF TypeInv, Fill, Control, openVars, Stages
  <2>5. pc'[d] = "play" /\ left'[d] = n /\ \A e \in Devices \ {d} : ControlSame(e)
    BY <1>1, <2>3 DEF TypeInv, Control, ControlSame
  <2>6. OpenInv(d)' /\ UnitInv(d)'
    BY <1>1, <2>3, <2>5 DEF DevInv, OpenInv, UnitInv, Fill, openVars, Control, Playing, Closing
  <2>7. LeftInv(d)'
    BY <2>2, <2>3, <2>5 DEF LeftInv, Fill, Playing
  <2>8. QED
    BY <2>3, <2>4, <2>5, <2>6, <2>7, ControlKeeps DEF Control
<1>3. CASE PlayWait(d)
  <2>1. /\ UNCHANGED Fill /\ UNCHANGED <<left, callback, stopping, result>>
        /\ pc' = [pc EXCEPT ![d] = "play waits"] /\ waiting' = waiting \cup {d}
        /\ pc[d] = "play"
        /\ \/ started[d] /\ UNCHANGED <<started, unit>>
           \/ /\ started' = [started EXCEPT ![d] = TRUE]
              /\ \/ unit' = [unit EXCEPT ![d] = "running"]
                 \/ unit' = unit
    BY <1>1, <1>3 DEF PlayWait, Start, Goto, TypeInv
  <2>2. TypeInv'
    BY <1>1, <2>1 DEF TypeInv, Fill, openVars, Stages, Units
  <2>3. /\ pc'[d] = "play waits" /\ (unit'[d] = "running" => started'[d])
        /\ \A e \in Devices \ {d} : ControlSame(e)
    BY <1>1, <2>1 DEF TypeInv, ControlSame, DevInv, UnitInv
  <2>4. OpenInv(d)'
    BY <1>1, <2>1, <2>3 DEF DevInv, OpenInv, Fill, openVars
  <2>5. UnitInv(d)'
    BY <1>1, <2>1, <2>3 DEF DevInv, UnitInv, Fill, openVars, Playing, Closing
  <2>6. LeftInv(d)'
    BY <1>1, <2>1, <2>3 DEF DevInv, LeftInv, Fill, Playing
  <2>7. QED
    BY <2>1, <2>2, <2>3, <2>4, <2>5, <2>6, ControlKeeps
<1>4. CASE PlayFails(d)
  <2>1. /\ UNCHANGED Fill /\ UNCHANGED Control /\ UNCHANGED <<callback, waiting>>
        /\ pc' = [pc EXCEPT ![d] = "idle"] /\ left' = [left EXCEPT ![d] = 0]
        /\ pc[d] = "play" /\ ~started[d]
    BY <1>4 DEF PlayFails, Goto
  <2>2. TypeInv'
    BY <1>1, <2>1 DEF TypeInv, Fill, Control, openVars, Stages
  <2>3. pc'[d] = "idle" /\ left'[d] = 0 /\ \A e \in Devices \ {d} : ControlSame(e)
    BY <1>1, <2>1 DEF TypeInv, Control, ControlSame
  <2>4. OpenInv(d)' /\ UnitInv(d)'
    BY <1>1, <2>1, <2>3 DEF DevInv, OpenInv, UnitInv, Fill, openVars, Control, Playing, Closing
  <2>5. LeftInv(d)'
    <3>1. taken[d] \in Nat /\ left[d] \in Nat /\ MaxBytes \in Nat /\ taken[d] + left[d] <= MaxBytes
      BY <1>1, QueueAssumption DEF TypeInv, DevInv, LeftInv
    <3>2. PICK t \in Nat, l \in Nat : t = taken[d] /\ l = left[d]
      BY <3>1
    <3>3. t + 0 <= MaxBytes
      BY <3>1, <3>2
    <3>4. taken' = taken
      BY <2>1 DEF Fill
    <3>5. QED
      BY <2>3, <3>2, <3>3, <3>4 DEF LeftInv, Playing
  <2>6. QED
    BY <2>1, <2>2, <2>3, <2>4, <2>5, ControlKeeps DEF Control
<1>5. CASE Wake(d)
  <2>1. /\ UNCHANGED Fill /\ UNCHANGED Control /\ UNCHANGED <<left, callback, waiting>>
        /\ \/ pc[d] = "play waits" /\ pc' = [pc EXCEPT ![d] = "play"]
           \/ pc[d] = "close waits" /\ pc' = [pc EXCEPT ![d] = "flush"]
    BY <1>5 DEF Wake, Goto
  <2>2. TypeInv'
    BY <1>1, <2>1 DEF TypeInv, Fill, Control, openVars, Stages
  <2>3. /\ \/ pc[d] = "play waits" /\ pc'[d] = "play"
           \/ pc[d] = "close waits" /\ pc'[d] = "flush"
        /\ \A e \in Devices \ {d} : ControlSame(e)
    BY <1>1, <2>1 DEF TypeInv, Control, ControlSame
  <2>4. OpenInv(d)' /\ UnitInv(d)'
    BY <1>1, <2>1, <2>3 DEF DevInv, OpenInv, UnitInv, Fill, openVars, Control, Playing, Closing
  <2>5. LeftInv(d)'
    BY <1>1, <2>1, <2>3 DEF DevInv, LeftInv, Fill, Playing
  <2>6. QED
    BY <2>1, <2>2, <2>3, <2>4, <2>5, ControlKeeps DEF Control
<1>6. QED
  BY <1>2, <1>3, <1>4, <1>5

\* A signal, whoever it wakes, a wakeup without one, and a unit that stops.
LEMMA WakeupsKeep ==
  ASSUME IInv, NEW d \in Devices, CallbackSignal(d) \/ SpuriousWakeup(d) \/ HalTornDown(d)
  PROVE  IInv'
<1>1. TypeInv /\ DevInv(d)
  BY DEF IInv
<1>2. /\ UNCHANGED Fill /\ UNCHANGED <<pc, left, started, stopping, result>>
      /\ waiting' \subseteq waiting
      /\ callback' = callback \/ callback' = [callback EXCEPT ![d] = "out"]
      /\ unit' = unit \/ unit' = [unit EXCEPT ![d] = "torn down"]
  BY DEF CallbackSignal, SpuriousWakeup, HalTornDown, Control
<1>3. TypeInv'
  BY <1>1, <1>2 DEF TypeInv, Fill, openVars, Units
<1>4. /\ unit'[d] = unit[d] \/ unit'[d] = "torn down"
      /\ \A e \in Devices \ {d} : ControlSame(e)
  BY <1>1, <1>2 DEF TypeInv, ControlSame
<1>5. OpenInv(d)'
  BY <1>1, <1>2, <1>4 DEF DevInv, OpenInv, Fill, openVars
<1>6. UnitInv(d)'
  BY <1>1, <1>2, <1>4 DEF DevInv, UnitInv, Fill, openVars
<1>7. LeftInv(d)'
  BY <1>1, <1>2 DEF DevInv, LeftInv, Fill
<1>8. QED
  BY <1>2, <1>3, <1>4, <1>5, <1>6, <1>7, ControlKeeps

\* ao_plugin_close before it waits for the data.
LEMMA CloseKeeps == ASSUME IInv, NEW d \in Devices, Close(d) PROVE IInv'
<1>1. TypeInv /\ DevInv(d)
  BY DEF IInv
<1>2. /\ pc[d] \in {"idle", "refused"} /\ UNCHANGED Fill
      /\ UNCHANGED <<left, callback, waiting>>
  BY DEF Close
<1>3. /\ valid[d] \in Nat /\ size[d] \in Nat /\ (valid[d] > 0 => size[d] > 0)
      /\ (size[d] > 0 => stream[d] # NoStream)
      /\ (unit[d] = "running" => size[d] # 0)
  <2>1. valid[d] \in Nat /\ size[d] \in Nat /\ valid[d] <= size[d]
    BY <1>1, MacOpenAssumption DEF TypeInv, DevInv, RingInv
  <2>2. stream[d] = NoStream => size[d] = 0
    BY <1>1 DEF DevInv, OpenInv
  <2>3. unit[d] = "running" => size[d] # 0
    BY <1>1, <1>2 DEF DevInv, UnitInv, Playing
  <2>4. QED
    BY <2>1, <2>2, <2>3
<1>4. ASSUME NEW s \in {"flush", "closed"}, pc' = [pc EXCEPT ![d] = s],
             stopping' = stopping \/ stopping' = [stopping EXCEPT ![d] = TRUE],
             \/ UNCHANGED <<started, unit>>
             \/ /\ valid[d] > 0 /\ started' = [started EXCEPT ![d] = TRUE]
                /\ (unit' = [unit EXCEPT ![d] = "running"] \/ unit' = unit),
             s = "flush" => unit'[d] = "running",
             result' \in [Devices -> {-1, 0, 1}]
      PROVE  IInv'
  <2>1. TypeInv'
    <3>1. pc' \in [Devices -> Stages]
      BY <1>1, <1>4 DEF TypeInv, Stages
    <3>2. stopping' \in [Devices -> BOOLEAN]
      BY <1>1, <1>4 DEF TypeInv
    <3>3. started' \in [Devices -> BOOLEAN]
      BY <1>1, <1>4 DEF TypeInv
    <3>4. unit' \in [Devices -> Units]
      BY <1>1, <1>4 DEF TypeInv, Units
    <3>5. QED
      BY <1>1, <1>2, <1>4, <3>1, <3>2, <3>3, <3>4 DEF TypeInv, Fill, openVars
  <2>2. /\ pc'[d] = s /\ (stopping[d] => stopping'[d])
        /\ \A e \in Devices \ {d} : ControlSame(e)
    BY <1>1, <1>2, <1>4 DEF TypeInv, ControlSame
  <2>3. /\ unit'[d] = "running" => started'[d] /\ size[d] # 0
    BY <1>1, <1>3, <1>4 DEF TypeInv, DevInv, UnitInv
  <2>4. OpenInv(d)'
    <3>1. UNCHANGED <<stream, format, size, out>>
      BY <1>2 DEF Fill, openVars
    <3>2. unit'[d] = "running" => stream[d] # NoStream
      BY <1>3, <2>3
    <3>3. QED
      BY <1>1, <1>4, <2>2, <3>1, <3>2 DEF DevInv, OpenInv
  <2>5. UnitInv(d)'
    BY <1>2, <1>4, <2>2, <2>3 DEF UnitInv, Closing, Fill, openVars
  <2>6. LeftInv(d)'
    BY <1>1, <1>2, <1>4, <2>2 DEF DevInv, LeftInv, Playing, Fill
  <2>7. QED
    BY <1>2, <2>1, <2>2, <2>4, <2>5, <2>6, ControlKeeps
<1>5. CASE Return(d, 1) /\ UNCHANGED <<started, stopping, unit>>
  <2>1. pc' = [pc EXCEPT ![d] = "closed"] /\ result' \in [Devices -> {-1, 0, 1}]
    BY <1>1, <1>5 DEF Return, Goto, TypeInv
  <2>2. QED
    BY <1>4, <1>5, <2>1
<1>6. CASE /\ stopping' = [stopping EXCEPT ![d] = TRUE] /\ Return(d, 0)
           /\ UNCHANGED <<started, unit>>
  <2>1. pc' = [pc EXCEPT ![d] = "closed"] /\ result' \in [Devices -> {-1, 0, 1}]
    BY <1>1, <1>6 DEF Return, Goto, TypeInv
  <2>2. QED
    BY <1>4, <1>6, <2>1
<1>7. CASE /\ stopping' = [stopping EXCEPT ![d] = TRUE]
           /\ \/ UNCHANGED <<started, unit>>
              \/ valid[d] > 0 /\ Start(d)
           /\ IF unit'[d] = "running" THEN Goto(d, "flush") /\ UNCHANGED result
                                      ELSE Return(d, 1)
  <2>1. \/ UNCHANGED <<started, unit>>
        \/ /\ valid[d] > 0 /\ started' = [started EXCEPT ![d] = TRUE]
           /\ (unit' = [unit EXCEPT ![d] = "running"] \/ unit' = unit)
    BY <1>1, <1>7 DEF Start, TypeInv
  <2>2. CASE unit'[d] = "running"
    <3>1. pc' = [pc EXCEPT ![d] = "flush"] /\ result' \in [Devices -> {-1, 0, 1}]
      BY <1>1, <1>7, <2>2 DEF Goto, TypeInv
    <3>2. QED
      BY <1>4, <1>7, <2>1, <2>2, <3>1
  <2>3. CASE unit'[d] # "running"
    <3>1. pc' = [pc EXCEPT ![d] = "closed"] /\ result' \in [Devices -> {-1, 0, 1}]
      BY <1>1, <1>7, <2>3 DEF Return, Goto, TypeInv
    <3>2. QED
      BY <1>4, <1>7, <2>1, <3>1
  <2>4. QED
    BY <2>2, <2>3
<1>8. QED
  BY <1>5, <1>6, <1>7 DEF Close

\* The rest of ao_plugin_close.
LEMMA EndKeeps ==
  ASSUME IInv, NEW d \in Devices,
         CloseFlush(d) \/ CloseStop(d) \/ CloseStopFails(d) \/ CloseDispose(d)
  PROVE  IInv'
<1>1. TypeInv /\ DevInv(d)
  BY DEF IInv
<1>2. /\ pc[d] \in {"flush", "stop", "stopping"} /\ UNCHANGED Fill
      /\ UNCHANGED <<left, callback, started, stopping>>
  BY DEF CloseFlush, CloseStop, CloseStopFails, CloseDispose, Control
<1>3. \E s \in {"close waits", "stop", "stopping", "closed"} : pc' = [pc EXCEPT ![d] = s]
  BY DEF CloseFlush, CloseStop, CloseStopFails, CloseDispose, Goto, Return
<1>4. PICK s \in {"close waits", "stop", "stopping", "closed"} : pc' = [pc EXCEPT ![d] = s]
  BY <1>3
<1>5. \/ unit' = unit \/ unit' = [unit EXCEPT ![d] = "stopped"]
      \/ unit' = [unit EXCEPT ![d] = "disposed"]
  BY DEF CloseFlush, CloseStop, CloseStopFails, CloseDispose, Control
<1>6. result' = result \/ \E r \in {0, 1} : result' = [result EXCEPT ![d] = r]
  BY DEF CloseFlush, CloseStop, CloseStopFails, CloseDispose, Control, Return
<1>7. waiting' \subseteq waiting \cup {d}
  BY DEF CloseFlush, CloseStop, CloseStopFails, CloseDispose
<1>8. result' \in [Devices -> {-1, 0, 1}]
  BY <1>1, <1>6 DEF TypeInv
<1>9. TypeInv'
  BY <1>1, <1>2, <1>4, <1>5, <1>7, <1>8 DEF TypeInv, Fill, openVars, Stages, Units
<1>10. /\ pc'[d] = s /\ (unit'[d] = unit[d] \/ unit'[d] \in {"stopped", "disposed"})
       /\ \A e \in Devices \ {d} : ControlSame(e)
  BY <1>1, <1>2, <1>4, <1>5 DEF TypeInv, ControlSame
<1>11. OpenInv(d)'
  BY <1>1, <1>2, <1>10 DEF DevInv, OpenInv, Fill, openVars
<1>12. UnitInv(d)'
  BY <1>1, <1>2, <1>10 DEF DevInv, UnitInv, Fill, openVars, Closing, Playing
<1>13. LeftInv(d)'
  BY <1>1, <1>2, <1>10 DEF DevInv, LeftInv, Fill, Playing
<1>14. QED
  BY <1>2, <1>9, <1>10, <1>11, <1>12, <1>13, ControlKeeps
-----------------------------------------------------------------------------
(* ao_plugin_open. *)

\* The options and the failures of ao_plugin_open.
LEMMA BeforeOpenKeeps == ASSUME IInv, NEW d \in Devices, BeforeOpen(d) PROVE IInv'
<1>1. TypeInv /\ DevInv(d)
  BY DEF IInv
<1>2. /\ pc[d] = "ready" /\ UNCHANGED <<stream, size>>
      /\ UNCHANGED <<left, ring, first, valid, started, stopping, callback, waiting, result,
                     taken, out>>
      /\ pc' = pc \/ pc' = [pc EXCEPT ![d] = "refused"]
      /\ \/ unit' = unit \/ unit' = [unit EXCEPT ![d] = "disposed"]
         \/ unit' = [unit EXCEPT ![d] = "made"]
      /\ format' = format \/ \E f \in Formats : format' = [format EXCEPT ![d] = f]
  BY DEF BeforeOpen, SetBufferTime, SetDev, SetDevFails, OpenRefused, OpenFails, Goto
<1>3. bufferTime' \in [Devices -> 0 .. Wrap - 1]
  <2>1. CASE bufferTime' = bufferTime
    BY <1>1, <2>1 DEF TypeInv
  <2>2. ASSUME NEW ms \in Times, SetBufferTime(d, ms)
        PROVE  bufferTime' \in [Devices -> 0 .. Wrap - 1]
    <3>1. ms \in 0 .. Wrap - 1 /\ 100 \in 0 .. Wrap - 1
      BY MacOpenAssumption
    <3>2. QED
      BY <1>1, <2>2, <3>1 DEF SetBufferTime, TypeInv
  <2>3. QED
    BY <2>1, <2>2 DEF BeforeOpen, SetDev, SetDevFails, OpenRefused, OpenFails
<1>4. named' \in [Devices -> BOOLEAN]
  BY <1>1 DEF BeforeOpen, SetBufferTime, SetDev, SetDevFails, OpenRefused, OpenFails, TypeInv
<1>5. TypeInv'
  <2>1. pc' \in [Devices -> Stages]
    BY <1>1, <1>2 DEF TypeInv, Stages
  <2>2. unit' \in [Devices -> Units]
    BY <1>1, <1>2 DEF TypeInv, Units
  <2>3. format' \in [Devices -> Formats \cup {NoStream}]
    <3>1. CASE format' = format
      BY <1>1, <3>1 DEF TypeInv
    <3>2. ASSUME NEW f \in Formats, format' = [format EXCEPT ![d] = f]
          PROVE  format' \in [Devices -> Formats \cup {NoStream}]
      BY <1>1, <3>2 DEF TypeInv
    <3>3. QED
      BY <1>2, <3>1, <3>2
  <2>4. QED
    BY <1>1, <1>2, <1>3, <1>4, <2>1, <2>2, <2>3 DEF TypeInv
<1>6. stream[d] = NoStream /\ size[d] = 0 /\ unit[d] # "running"
  BY <1>1, <1>2 DEF DevInv, OpenInv
<1>7. /\ pc'[d] \in {"ready", "refused"} /\ unit'[d] # "running"
      /\ \A e \in Devices \ {d} : Same(e)
  BY <1>1, <1>2, <1>6 DEF TypeInv, Same
<1>8. OpenInv(d)'
  BY <1>1, <1>2, <1>6, <1>7 DEF DevInv, OpenInv
<1>9. UnitInv(d)'
  BY <1>1, <1>2, <1>7 DEF DevInv, UnitInv, Closing
<1>10. LeftInv(d)'
  BY <1>1, <1>2, <1>7 DEF DevInv, LeftInv, Playing
<1>11. RingInv(d)' /\ FrameInv(d)'
  BY <1>1, <1>2, <1>6 DEF DevInv, RingInv, Place, FrameInv
<1>12. QED
  BY <1>5, <1>7, <1>8, <1>9, <1>10, <1>11, OthersKeep DEF DevInv

\* Two formats that differ in their rate only.
LEMMA AllButRate ==
  ASSUME NEW A, NEW B, NEW C,
         NEW g \in [rate : A, channels : B, bits : C, big : BOOLEAN, signed : BOOLEAN,
                    float : BOOLEAN],
         NEW h \in [rate : A, channels : B, bits : C, big : BOOLEAN, signed : BOOLEAN,
                    float : BOOLEAN],
         g.channels = h.channels, g.bits = h.bits, g.big = h.big, g.signed = h.signed,
         g.float = h.float
  PROVE  [g EXCEPT !.rate = 0] = [h EXCEPT !.rate = 0]
OBVIOUS

\* The unit is made and the queue allocated.
LEMMA OpenKeeps ==
  ASSUME IInv, NEW d \in Devices, NEW f \in Formats, Open(d, f) PROVE IInv'
<1>1. TypeInv /\ DevInv(d)
  BY DEF IInv
<1>2. PICK got \in Reported(f) : OpenUnit(d, f, got)
  BY DEF Open
<1>3. /\ pc[d] = "ready" /\ Accepts(f, got) /\ UNCHANGED <<bufferTime, named>>
      /\ pc' = [pc EXCEPT ![d] = "idle"] /\ unit' = [unit EXCEPT ![d] = "made"]
      /\ format' = [format EXCEPT ![d] = f] /\ stream' = [stream EXCEPT ![d] = got]
      /\ size' = [size EXCEPT ![d] = BufferBytes(d, f)]
      /\ ring' = [ring EXCEPT ![d] = [i \in 0 .. size'[d] - 1 |-> 0]]
      /\ UNCHANGED <<left, first, valid, started, stopping, callback, waiting, result, taken, out>>
  BY <1>2 DEF Open, OpenUnit, Goto
<1>4. BufferBytes(d, f) \in 0 .. Wrap - 1 /\ Wrap \in Nat /\ MaxBytes \in Nat
  BY <1>1, SizeIs, MacOpenAssumption, QueueAssumption
<1>5. PICK n \in Nat : n = BufferBytes(d, f)
  BY <1>4
<1>6. size'[d] = n
  BY <1>1, <1>3, <1>5 DEF TypeInv
<1>7. [i \in 0 .. n - 1 |-> 0] \in [0 .. n - 1 -> Bytes]
  BY <1>4 DEF Bytes
<1>8. ring' \in [Devices -> UNION {[0 .. m - 1 -> Bytes] : m \in Nat}]
  <2> DEFINE Rings == UNION {[0 .. m - 1 -> Bytes] : m \in Nat}
             empty == [i \in 0 .. n - 1 |-> 0]
  <2>1. empty \in Rings
    BY <1>5, <1>7
  <2>2. ring \in [Devices -> Rings] /\ ring' = [ring EXCEPT ![d] = empty]
    BY <1>1, <1>3, <1>6 DEF TypeInv
  <2> HIDE DEF Rings, empty
  <2>3. ring' \in [Devices -> Rings]
    BY <2>1, <2>2
  <2>4. QED
    BY <2>3 DEF Rings
<1>9. got \in Streams /\ got # NoStream
  BY NoStreamAssumption DEF Streams
<1>10. TypeInv'
  BY <1>1, <1>3, <1>4, <1>8, <1>9 DEF TypeInv, Stages, Units
<1>11. /\ pc'[d] = "idle" /\ unit'[d] = "made" /\ format'[d] = f /\ stream'[d] = got
       /\ ring'[d] = [i \in 0 .. n - 1 |-> 0] /\ \A e \in Devices \ {d} : Same(e)
  BY <1>1, <1>3, <1>6 DEF TypeInv, Same
<1>12. stream[d] = NoStream /\ size[d] = 0 /\ out[d] = <<>>
  BY <1>1, <1>3 DEF DevInv, OpenInv
<1>13. valid[d] = 0 /\ first[d] = 0 /\ Len(out[d]) = 0
  BY <1>1, <1>12 DEF TypeInv, DevInv, RingInv
<1>14. OpenInv(d)'
  <2> DEFINE A == Rates \cup {f.rate}
             B == {1, f.channels}
             C == {16, f.bits}
             asked == Asked(f)
  <2>1. /\ got \in [rate : A, channels : B, bits : C, big : {IsBig(f)}, signed : BOOLEAN,
                   float : BOOLEAN]
        /\ got.channels = f.channels /\ got.bits = f.bits /\ got.signed = (f.bits > 8)
        /\ got.float = FALSE
    BY <1>3 DEF Reported, Accepts
  <2>2. IsBig(f) \in BOOLEAN /\ (f.bits > 8) \in BOOLEAN
    BY DEF IsBig
  <2>3. got.big = IsBig(f)
        /\ got \in [rate : A, channels : B, bits : C, big : BOOLEAN, signed : BOOLEAN,
                    float : BOOLEAN]
    BY <2>1, <2>2
  <2>4. /\ asked.channels = f.channels /\ asked.bits = f.bits /\ asked.big = IsBig(f)
        /\ asked.signed = (f.bits > 8) /\ asked.float = FALSE
        /\ asked \in [rate : A, channels : B, bits : C, big : BOOLEAN, signed : BOOLEAN,
                      float : BOOLEAN]
    BY <2>2 DEF Asked
  <2> HIDE DEF A, B, C, asked
  <2>5. got.big = asked.big /\ got.signed = asked.signed /\ got.float = asked.float
        /\ got.channels = asked.channels /\ got.bits = asked.bits
    BY <2>1, <2>3, <2>4
  <2>6. [got EXCEPT !.rate = 0] = [asked EXCEPT !.rate = 0]
    BY <2>3, <2>4, <2>5, AllButRate
  <2>7. QED
    BY <1>9, <1>11, <2>6 DEF OpenInv, asked
<1>15. UnitInv(d)' /\ LeftInv(d)'
  BY <1>1, <1>3, <1>11 DEF DevInv, UnitInv, LeftInv, Closing, Playing
<1>16. RingInv(d)'
  <2>1. /\ valid'[d] = 0 /\ first'[d] = 0 /\ Len(out'[d]) = 0 /\ taken'[d] = taken[d]
        /\ taken[d] = 0
    BY <1>1, <1>3, <1>13 DEF DevInv, RingInv, TypeInv
  <2>2. ring'[d] \in [0 .. size'[d] - 1 -> Bytes]
    BY <1>6, <1>7, <1>11
  <2>3. 0 <= n /\ (n > 0 => 0 < n)
    BY <1>5
  <2>4. \A i \in 1 .. 0 : FALSE
    OBVIOUS
  <2>5. QED
    BY <1>6, <2>1, <2>2, <2>3, <2>4 DEF RingInv
<1>17. FrameInv(d)'
  <2>1. Len(out'[d]) % FrameBytes(f) = 0
    BY <1>3, <1>13, FrameIs, NoFrames
  <2>2. QED
    BY <1>11, <2>1 DEF FrameInv
<1>18. QED
  BY <1>10, <1>11, <1>14, <1>15, <1>16, <1>17, OthersKeep DEF DevInv
-----------------------------------------------------------------------------
(* Steps that move bytes. *)

\* The numbers of a device.
LEMMA Numbers ==
  ASSUME IInv, NEW d \in Devices
  PROVE  /\ first[d] \in Nat /\ valid[d] \in Nat /\ size[d] \in Nat /\ left[d] \in Nat
         /\ taken[d] \in Nat /\ Len(out[d]) \in Nat /\ out[d] \in Seq(Bytes) /\ MaxBytes \in Nat
         /\ valid[d] <= size[d] /\ (size[d] > 0 => first[d] < size[d])
         /\ taken[d] = Len(out[d]) + valid[d] /\ taken[d] + left[d] <= MaxBytes
<1>1. TypeInv /\ DevInv(d)
  BY DEF IInv
<1>2. out[d] \in Seq(Bytes) /\ Len(out[d]) \in Nat
  BY <1>1, LenProperties DEF TypeInv
<1>3. first[d] \in Nat /\ valid[d] \in Nat /\ left[d] \in Nat /\ taken[d] \in Nat
  BY <1>1 DEF TypeInv
<1>4. size[d] \in Nat /\ MaxBytes \in Nat
  BY <1>1, MacOpenAssumption, QueueAssumption DEF TypeInv
<1>5. QED
  BY <1>1, <1>2, <1>3, <1>4 DEF DevInv, RingInv, LeftInv

\* The chunk that ao_plugin_play copies lies behind the valid bytes and before
\* the end of the buffer.
LEMMA ChunkIs ==
  ASSUME IInv, NEW d \in Devices, pc[d] = "play", Empty(d) > 0
  PROVE  /\ Chunk(d) \in 1 .. left[d] /\ valid[d] + Chunk(d) <= size[d]
         /\ FirstEmpty(d) \in Nat /\ FirstEmpty(d) + Chunk(d) <= size[d]
         /\ FirstEmpty(d) = IF first[d] + valid[d] < size[d] THEN first[d] + valid[d]
                            ELSE first[d] + valid[d] - size[d]
<1>1. left[d] > 0
  BY DEF IInv, DevInv, LeftInv, Playing
<1>2. PICK f \in Nat, v \in Nat, s \in Nat, l \in Nat :
        f = first[d] /\ v = valid[d] /\ s = size[d] /\ l = left[d]
  BY Numbers
<1>3. v < s /\ f < s /\ l > 0
  BY <1>1, <1>2, Numbers DEF Empty
<1>4. PICK at \in Nat : at = (f + v) % s
  BY <1>3, Modulo
<1>5. at = IF f + v < s THEN f + v ELSE f + v - s
  <2>1. PICK x \in Nat : x = f + v /\ x < 2 * s
    BY <1>3
  <2>2. s \in Nat \ {0}
    BY <1>3
  <2>3. x % s = IF x < s THEN x ELSE x - s
    BY <2>1, <2>2, Wrapped
  <2>4. QED
    BY <1>4, <2>1, <2>3
<1>6. FirstEmpty(d) = at /\ Empty(d) = s - v
  BY <1>2, <1>4 DEF FirstEmpty, Empty
<1>7. PICK n : n = Chunk(d)
  OBVIOUS
<1>8. n = IF at + (s - v) > s THEN (IF l < s - at THEN l ELSE s - at)
                              ELSE (IF l < s - v THEN l ELSE s - v)
  BY <1>2, <1>6, <1>7 DEF Chunk, Min2
<1>9. n \in 1 .. l /\ v + n <= s /\ at + n <= s
  BY <1>3, <1>5, <1>8
<1>10. QED
  BY <1>2, <1>5, <1>6, <1>7, <1>9

\* Where the i-th valid byte lies when there are f + i - 1 before the end.
Round(f, s, i) == IF f + i - 1 < s THEN f + i - 1 ELSE f + i - 1 - s

\* ao_plugin_play copies a chunk.
LEMMA CopyKeeps == ASSUME IInv, NEW d \in Devices, PlayCopy(d) PROVE IInv'
<1>1. TypeInv /\ DevInv(d)
  BY DEF IInv
<1>2. PICK f \in Nat, v \in Nat, s \in Nat, l \in Nat, t \in Nat, o \in Nat :
        /\ f = first[d] /\ v = valid[d] /\ s = size[d] /\ l = left[d] /\ t = taken[d]
        /\ o = Len(out[d])
  BY Numbers
<1>3. pc[d] = "play" /\ Empty(d) > 0
  BY DEF PlayCopy
<1>4. PICK n \in Nat, at \in Nat : n = Chunk(d) /\ at = FirstEmpty(d)
  BY <1>3, ChunkIs, Numbers
<1>5. /\ n \in 1 .. l /\ v + n <= s /\ at + n <= s
      /\ at = IF f + v < s THEN f + v ELSE f + v - s
  BY <1>2, <1>3, <1>4, ChunkIs
<1>6. /\ s \in Nat \ {0} /\ f \in 0 .. s - 1 /\ v \in 0 .. s /\ t = o + v /\ t + l <= MaxBytes
      /\ MaxBytes \in Nat
  <2>1. /\ v <= s /\ (s > 0 => f < s) /\ t = o + v /\ t + l <= MaxBytes /\ MaxBytes \in Nat
    BY <1>2, Numbers
  <2>2. QED
    BY <1>5, <2>1
<1> DEFINE filled == [i \in 0 .. s - 1 |->
                       IF i \in at .. at + n - 1 THEN t + 1 + (i - at) ELSE ring[d][i]]
           stage == IF l = n THEN "idle" ELSE "play"
<1>7. /\ ring' = [ring EXCEPT ![d] = filled] /\ valid' = [valid EXCEPT ![d] = v + n]
      /\ taken' = [taken EXCEPT ![d] = t + n] /\ left' = [left EXCEPT ![d] = l - n]
      /\ pc' = [pc EXCEPT ![d] = stage]
      /\ UNCHANGED <<openVars, first, out, callback, waiting>> /\ UNCHANGED Control
  BY <1>2, <1>4 DEF PlayCopy, Goto
<1>8. ring[d] \in [0 .. s - 1 -> Bytes]
  BY <1>1, <1>2 DEF DevInv, RingInv
<1>9. filled \in [0 .. s - 1 -> Bytes]
  <2>1. ASSUME NEW i \in 0 .. s - 1, i \in at .. at + n - 1 PROVE t + 1 + (i - at) \in Bytes
    BY <1>5, <1>6, <2>1 DEF Bytes
  <2>2. \A i \in 0 .. s - 1 : ring[d][i] \in Bytes
    BY <1>8
  <2>3. QED
    BY <2>1, <2>2
<1>10. \A i \in 0 .. s - 1 :
         filled[i] = IF i \in at .. at + n - 1 THEN t + 1 + (i - at) ELSE ring[d][i]
  OBVIOUS
<1> HIDE DEF filled
<1>11. ring' \in [Devices -> UNION {[0 .. m - 1 -> Bytes] : m \in Nat}]
  <2> DEFINE Rings == UNION {[0 .. m - 1 -> Bytes] : m \in Nat}
  <2>1. filled \in Rings
    BY <1>6, <1>9
  <2>2. ring \in [Devices -> Rings]
    BY <1>1 DEF TypeInv
  <2> HIDE DEF Rings
  <2>3. ring' \in [Devices -> Rings]
    BY <1>7, <2>1, <2>2
  <2>4. QED
    BY <2>3 DEF Rings
<1>12. v + n \in Nat /\ t + n \in Nat /\ l - n \in Nat /\ stage \in {"idle", "play"}
  BY <1>5
<1>13. TypeInv'
  <2>1. pc' \in [Devices -> Stages]
    BY <1>1, <1>7, <1>12 DEF TypeInv, Stages
  <2>2. valid' \in [Devices -> Nat] /\ taken' \in [Devices -> Nat] /\ left' \in [Devices -> Nat]
    BY <1>1, <1>7, <1>12 DEF TypeInv
  <2>3. QED
    BY <1>1, <1>7, <1>11, <2>1, <2>2 DEF TypeInv, openVars, Control
<1>14. /\ ring'[d] = filled /\ valid'[d] = v + n /\ taken'[d] = t + n /\ left'[d] = l - n
       /\ pc'[d] = stage /\ \A e \in Devices \ {d} : Same(e)
  BY <1>1, <1>7 DEF TypeInv, Same, openVars, Control
<1>15. OpenInv(d)' /\ UnitInv(d)'
  <2>1. UNCHANGED <<format, stream, size, out, unit, started, stopping>>
    BY <1>7 DEF openVars, Control
  <2>2. OpenInv(d)'
    BY <1>1, <1>3, <1>12, <1>14, <2>1 DEF DevInv, OpenInv
  <2>3. size[d] # 0 /\ ~stopping[d]
    BY <1>1, <1>2, <1>3, <1>6 DEF DevInv, UnitInv, Closing
  <2>4. UnitInv(d)'
    BY <1>1, <2>1, <2>3 DEF DevInv, UnitInv
  <2>5. QED
    BY <2>2, <2>4
<1>16. LeftInv(d)'
  <2>1. (t + n) + (l - n) <= MaxBytes /\ (l = n => l - n = 0) /\ (l # n => l - n > 0)
    BY <1>5, <1>6
  <2>2. QED
    BY <1>14, <2>1 DEF LeftInv, Playing
<1>17. RingInv(d)'
  <2>1. first' = first /\ size' = size /\ out' = out
    BY <1>7 DEF openVars
  <2>2. ASSUME NEW i \in 1 .. v + n PROVE filled[Round(f, s, i)] = o + i
    <3>1. CASE i <= v
      <4>1. i \in 1 .. v
        BY <3>1
      <4>2. Round(f, s, i) \in 0 .. s - 1 /\ ~(Round(f, s, i) \in at .. at + n - 1)
        BY <1>5, <1>6, <4>1 DEF Round
      <4>3. ring[d][Round(f, s, i)] = o + i
        BY <1>1, <1>2, <4>1 DEF DevInv, RingInv, Place, Round
      <4>4. QED
        BY <1>10, <4>2, <4>3
    <3>2. CASE ~(i <= v)
      <4>1. /\ Round(f, s, i) \in 0 .. s - 1 /\ Round(f, s, i) \in at .. at + n - 1
            /\ Round(f, s, i) - at = i - v - 1
        BY <1>5, <1>6, <3>2 DEF Round
      <4>2. filled[Round(f, s, i)] = t + 1 + (Round(f, s, i) - at)
        BY <1>10, <4>1
      <4>3. t + 1 + (i - v - 1) = o + i
        BY <1>6
      <4>4. QED
        BY <4>1, <4>2, <4>3
    <3>3. QED
      BY <3>1, <3>2
  <2>3. \A i \in 1 .. v + n : ring'[d][Place(d, i)'] = Len(out'[d]) + i
    BY <1>2, <1>14, <2>1, <2>2 DEF Place, Round
  <2>4. t + n = o + (v + n) /\ v + n <= s /\ f <= s /\ f < s
    BY <1>5, <1>6
  <2>5. QED
    BY <1>2, <1>9, <1>14, <2>1, <2>3, <2>4 DEF RingInv
<1>18. FrameInv(d)'
  <2>1. UNCHANGED <<format, stream, out, stopping>>
    BY <1>7 DEF openVars, Control
  <2>2. ~stopping[d]
    BY <1>1, <1>3 DEF DevInv, UnitInv, Closing
  <2>3. QED
    BY <1>1, <2>1, <2>2 DEF DevInv, FrameInv
<1>19. QED
  BY <1>13, <1>14, <1>15, <1>16, <1>17, <1>18, OthersKeep DEF DevInv

\* What audioCallback copies: the whole request, or all there is at the end.
LEMMA RequestIs ==
  ASSUME IInv, NEW d \in Devices, NEW frames \in Requests, CallbackCopy(d, frames)
  PROVE  /\ format[d] \in Formats /\ stream[d] # NoStream /\ size[d] > 0
         /\ frames * FrameBytes(format[d]) \in Nat \ {0}
         /\ valid[d] < frames * FrameBytes(format[d]) => stopping[d]
<1>1. TypeInv /\ DevInv(d)
  BY DEF IInv
<1>2. unit[d] = "running" /\ ~TooLittle(d, frames * FrameBytes(format[d]))
  BY DEF CallbackCopy
<1>3. stream[d] # NoStream /\ format[d] \in Formats
  BY <1>1, <1>2 DEF DevInv, OpenInv
<1>4. PICK k \in Nat \ {0}, b \in Nat \ {0} : k = frames /\ b = FrameBytes(format[d])
  BY <1>3, QueueAssumption, FrameIs
<1>5. k * b \in Nat \ {0}
  BY Product
<1>6. frames * FrameBytes(format[d]) \in Nat \ {0}
  BY <1>4, <1>5
<1>7. valid[d] < frames * FrameBytes(format[d]) => stopping[d]
  BY <1>2 DEF TooLittle
<1>8. ~(size[d] = 0)
  <2>1. SUFFICES ASSUME size[d] = 0 PROVE FALSE
    OBVIOUS
  <2>2. valid[d] = 0
    BY <2>1, Numbers
  <2>3. stopping[d]
    BY <1>6, <1>7, <2>2
  <2>4. pc[d] \in Playing /\ pc[d] \in Closing
    BY <1>1, <1>2, <2>1, <2>3 DEF DevInv, UnitInv
  <2>5. QED
    BY <2>4 DEF Playing, Closing
<1>9. size[d] > 0
  BY <1>8, Numbers
<1>10. QED
  BY <1>3, <1>6, <1>7, <1>9

\* What is read are the next bytes of the stream.
LEMMA ReadIs ==
  ASSUME IInv, NEW d \in Devices, size[d] > 0, NEW n \in 0 .. valid[d]
  PROVE  Read(d, n) = [i \in 1 .. n |-> Len(out[d]) + i]
<1>1. TypeInv /\ DevInv(d)
  BY DEF IInv
<1>2. PICK f \in Nat, v \in Nat, s \in Nat, o \in Nat :
        /\ f = first[d] /\ v = valid[d] /\ s = size[d] /\ o = Len(out[d])
  BY Numbers
<1>3. v <= s /\ f < s /\ s \in Nat \ {0} /\ n \in 0 .. v
  BY <1>2, Numbers
<1>4. ASSUME NEW i \in 1 .. n PROVE ring[d][(first[d] + i - 1) % size[d]] = Len(out[d]) + i
  <2>1. PICK x \in Nat : x = f + i - 1 /\ x < 2 * s
    BY <1>3
  <2>2. x % s = IF x < s THEN x ELSE x - s
    BY <1>3, <2>1, Wrapped
  <2>3. x % s = Round(f, s, i)
    BY <2>1, <2>2 DEF Round
  <2>4. i \in 1 .. v
    BY <1>3
  <2>5. ring[d][Round(f, s, i)] = o + i
    BY <1>1, <1>2, <2>4 DEF DevInv, RingInv, Place, Round
  <2>6. QED
    BY <1>2, <2>1, <2>3, <2>5
<1>5. QED
  BY <1>4 DEF Read

\* One more behind the end.
LEMMA Behind ==
  ASSUME NEW q \in Seq(Bytes), NEW n \in Nat, Len(q) + n <= MaxBytes
  PROVE  /\ q \o [i \in 1 .. n |-> Len(q) + i] \in Seq(Bytes)
         /\ Len(q \o [i \in 1 .. n |-> Len(q) + i]) = Len(q) + n
<1>1. PICK o \in Nat : o = Len(q)
  BY LenProperties
<1> DEFINE more == [i \in 1 .. n |-> o + i]
<1>2. \A i \in 1 .. n : o + i \in Bytes
  BY <1>1, QueueAssumption DEF Bytes
<1>3. more \in Seq(Bytes) /\ Len(more) = n
  BY <1>2
<1> HIDE DEF more
<1>4. q \o more \in Seq(Bytes) /\ Len(q \o more) = Len(q) + Len(more)
  BY <1>3, ConcatProperties
<1>5. QED
  BY <1>1, <1>3, <1>4 DEF more

\* audioCallback copies.
LEMMA CallbackKeeps ==
  ASSUME IInv, NEW d \in Devices, NEW frames \in Requests, CallbackCopy(d, frames) PROVE IInv'
<1>1. TypeInv /\ DevInv(d)
  BY DEF IInv
<1>2. PICK f \in Nat, v \in Nat, s \in Nat, t \in Nat, o \in Nat :
        f = first[d] /\ v = valid[d] /\ s = size[d] /\ t = taken[d] /\ o = Len(out[d])
  BY Numbers
<1>3. /\ f < s /\ s \in Nat \ {0} /\ v <= s /\ t = o + v /\ t <= MaxBytes /\ MaxBytes \in Nat
  <2>1. /\ v <= s /\ (s > 0 => f < s) /\ t = o + v /\ t + left[d] <= MaxBytes /\ MaxBytes \in Nat
        /\ left[d] \in Nat
    BY <1>2, Numbers
  <2>2. s > 0
    BY <1>2, RequestIs
  <2>3. QED
    BY <2>1, <2>2
<1>4. PICK r \in Nat \ {0} : r = frames * FrameBytes(format[d])
  BY RequestIs
<1>5. PICK n \in 0 .. v : n = Min2(r, v) /\ (n = r \/ (n = v /\ v < r))
  BY DEF Min2
<1> DEFINE more == [i \in 1 .. n |-> o + i]
<1>6. Read(d, n) = more
  BY <1>2, <1>3, ReadIs
<1>7. /\ out' = [out EXCEPT ![d] = @ \o Read(d, n)]
      /\ valid' = [valid EXCEPT ![d] = @ - n]
      /\ first' = [first EXCEPT ![d] = (@ + n) % size[d]]
      /\ callback' = [callback EXCEPT ![d] = "signal"]
      /\ UNCHANGED <<openVars, pc, left, ring, taken, waiting>> /\ UNCHANGED Control
  BY <1>2, <1>4, <1>5 DEF CallbackCopy
<1>8. PICK g \in 0 .. s - 1 : g = (f + n) % s /\ g = IF f + n < s THEN f + n ELSE f + n - s
  <2>1. PICK x \in Nat : x = f + n /\ x < 2 * s
    BY <1>3
  <2>2. x % s = IF x < s THEN x ELSE x - s
    BY <1>3, <2>1, Wrapped
  <2>3. QED
    BY <1>3, <2>1, <2>2
<1>9. out[d] \o more \in Seq(Bytes) /\ Len(out[d] \o more) = o + n
  <2>1. n \in Nat /\ out[d] \in Seq(Bytes) /\ Len(out[d]) + n <= MaxBytes
    BY <1>2, <1>3, <1>5, Numbers
  <2>2. QED
    BY <1>2, <2>1, Behind
<1> HIDE DEF more
<1>10. TypeInv'
  <2>1. out' = [out EXCEPT ![d] = out[d] \o more]
    BY <1>6, <1>7
  <2>2. out' \in [Devices -> Seq(Bytes)]
    BY <1>1, <1>9, <2>1 DEF TypeInv
  <2>3. valid' = [valid EXCEPT ![d] = v - n] /\ v - n \in Nat
    BY <1>2, <1>7
  <2>4. first' = [first EXCEPT ![d] = g] /\ g \in Nat
    BY <1>2, <1>3, <1>7, <1>8
  <2>5. valid' \in [Devices -> Nat] /\ first' \in [Devices -> Nat]
    BY <1>1, <2>3, <2>4 DEF TypeInv
  <2>6. callback' \in [Devices -> {"out", "signal"}]
    BY <1>1, <1>7 DEF TypeInv
  <2>7. QED
    BY <1>1, <1>7, <2>2, <2>5, <2>6 DEF TypeInv, openVars, Control
<1>11. /\ out'[d] = out[d] \o more /\ valid'[d] = v - n /\ first'[d] = g
       /\ \A e \in Devices \ {d} : Same(e)
  BY <1>1, <1>2, <1>6, <1>7, <1>8 DEF TypeInv, Same, openVars, Control
<1>12. Len(out'[d]) = o + n
  BY <1>9, <1>11
<1>13. UNCHANGED <<pc, left, format, stream, size, ring, taken, started, stopping, unit>>
  BY <1>7 DEF openVars, Control
<1>14. OpenInv(d)' /\ UnitInv(d)' /\ LeftInv(d)'
  <2>1. stream[d] # NoStream
    BY RequestIs
  <2>2. QED
    BY <1>1, <1>13, <2>1 DEF DevInv, OpenInv, UnitInv, LeftInv
<1>15. RingInv(d)'
  <2>1. ASSUME NEW i \in 1 .. v - n PROVE ring[d][Round(g, s, i)] = (o + n) + i
    <3>1. PICK j \in 1 .. v : j = i + n
      BY <1>3
    <3>2. ring[d][Round(f, s, j)] = o + j
      BY <1>1, <1>2 DEF DevInv, RingInv, Place, Round
    <3>3. Round(g, s, i) = Round(f, s, j)
      BY <1>3, <1>8, <3>1 DEF Round
    <3>4. o + j = (o + n) + i
      BY <3>1
    <3>5. QED
      BY <3>2, <3>3, <3>4
  <2>2. \A i \in 1 .. valid'[d] : ring'[d][Place(d, i)'] = Len(out'[d]) + i
    BY <1>2, <1>11, <1>12, <1>13, <2>1 DEF Place, Round
  <2>3. v - n <= s /\ g <= s /\ g < s /\ t = (o + n) + (v - n)
    BY <1>3
  <2>4. ring[d] \in [0 .. s - 1 -> Bytes]
    BY <1>1, <1>2 DEF DevInv, RingInv
  <2>5. QED
    BY <1>2, <1>11, <1>12, <1>13, <2>2, <2>3, <2>4 DEF RingInv
<1>16. FrameInv(d)'
  <2>1. PICK k \in Nat \ {0}, b \in Nat \ {0} : k = frames /\ b = FrameBytes(format[d])
    BY RequestIs, QueueAssumption, FrameIs
  <2>2. r = k * b
    BY <1>4, <2>1
  <2>3. CASE n = v /\ v < r
    <3>1. stopping[d] /\ o + n = t
      BY <1>2, <1>3, <1>4, <2>3, RequestIs
    <3>2. QED
      BY <1>2, <1>12, <1>13, <3>1 DEF FrameInv
  <2>4. CASE n = r
    <3>1. o % b = 0 \/ (o = t /\ stopping[d])
      <4>1. stream[d] # NoStream
        BY RequestIs
      <4>2. QED
        BY <1>1, <1>2, <2>1, <4>1 DEF DevInv, FrameInv
    <3>2. o # t
      BY <1>3, <1>4, <1>5, <2>4
    <3>3. (o + n) % b = 0
      BY <2>1, <2>2, <2>4, <3>1, <3>2, FramesMore
    <3>4. QED
      BY <1>12, <1>13, <2>1, <3>3 DEF FrameInv
  <2>5. QED
    BY <1>5, <2>3, <2>4
<1>17. QED
  BY <1>10, <1>11, <1>14, <1>15, <1>16, OthersKeep DEF DevInv
-----------------------------------------------------------------------------
(* The inductive invariant. *)

\* The ring before it is allocated.
LEMMA NoRing == <<>> \in [0 .. 0 - 1 -> Bytes]
<1>1. 0 .. 0 - 1 = {} /\ <<>> \in Seq(Bytes) /\ Len(<<>>) = 0
  OBVIOUS
<1>2. DOMAIN <<>> = {} /\ <<>> = [i \in {} |-> <<>>[i]]
  OBVIOUS
<1>3. QED
  BY <1>1, <1>2

\* It holds at first.
LEMMA Starts == Init => IInv
<1>1. SUFFICES ASSUME Init PROVE IInv
  OBVIOUS
<1>2. Wrap \in Nat /\ Wrap > 250 /\ MaxBytes \in Nat
  BY MacOpenAssumption, QueueAssumption
<1>3. <<>> \in Seq(Bytes) /\ Len(<<>>) = 0
  OBVIOUS
<1>4. TypeInv
  <2>1. 250 \in 0 .. Wrap - 1 /\ 0 \in 0 .. Wrap - 1
    BY <1>2
  <2>2. ring \in [Devices -> UNION {[0 .. n - 1 -> Bytes] : n \in Nat}]
    <3>1. <<>> \in UNION {[0 .. n - 1 -> Bytes] : n \in Nat}
      BY NoRing
    <3>2. QED
      BY <1>1, <3>1 DEF Init
  <2>3. /\ pc \in [Devices -> Stages] /\ unit \in [Devices -> Units]
        /\ callback \in [Devices -> {"out", "signal"}]
    BY <1>1 DEF Init, MacInit, Stages, Units
  <2>4. /\ format \in [Devices -> Formats \cup {NoStream}] /\ stream \in [Devices -> Streams]
        /\ named \in [Devices -> BOOLEAN] /\ waiting \subseteq Devices
    <3>1. NoStream \in Streams
      BY DEF Streams
    <3>2. /\ format = [d \in Devices |-> NoStream] /\ stream = [d \in Devices |-> NoStream]
          /\ named = [d \in Devices |-> FALSE] /\ waiting = {}
      BY <1>1 DEF Init, MacInit
    <3>3. QED
      BY <3>1, <3>2
  <2>5. /\ started \in [Devices -> BOOLEAN] /\ stopping \in [Devices -> BOOLEAN]
        /\ bufferTime \in [Devices -> 0 .. Wrap - 1] /\ size \in [Devices -> 0 .. Wrap - 1]
        /\ out \in [Devices -> Seq(Bytes)]
    BY <1>1, <1>3, <2>1 DEF Init, MacInit
  <2>6. /\ left \in [Devices -> Nat] /\ first \in [Devices -> Nat] /\ valid \in [Devices -> Nat]
        /\ taken \in [Devices -> Nat] /\ result \in [Devices -> {-1, 0, 1}]
    BY <1>1 DEF Init
  <2>7. QED
    BY <2>2, <2>3, <2>4, <2>5, <2>6 DEF TypeInv
<1>5. ASSUME NEW d \in Devices PROVE DevInv(d)
  <2>1. /\ pc[d] = "ready" /\ left[d] = 0 /\ stream[d] = NoStream /\ size[d] = 0
        /\ ring[d] = <<>> /\ first[d] = 0 /\ valid[d] = 0 /\ ~started[d] /\ ~stopping[d]
        /\ unit[d] = "none" /\ taken[d] = 0 /\ out[d] = <<>>
    BY <1>1 DEF Init, MacInit
  <2>2. OpenInv(d) /\ UnitInv(d) /\ FrameInv(d)
    BY <2>1 DEF OpenInv, UnitInv, FrameInv
  <2>3. LeftInv(d)
    BY <1>2, <2>1 DEF LeftInv, Playing
  <2>4. RingInv(d)
    BY <1>3, <2>1, NoRing DEF RingInv
  <2>5. QED
    BY <2>2, <2>3, <2>4 DEF DevInv
<1>6. QED
  BY <1>4, <1>5 DEF IInv

\* A step that changes nothing.
LEMMA StutterKeeps == IInv /\ UNCHANGED vars => IInv'
<1>1. SUFFICES ASSUME IInv, UNCHANGED vars PROVE IInv'
  OBVIOUS
<1>2. TypeInv'
  BY <1>1 DEF IInv, TypeInv, vars, openVars
<1>3. \A d \in Devices : Same(d)
  BY <1>1 DEF Same, vars, openVars
<1>4. ASSUME NEW d \in Devices PROVE IInv'
  <2>1. DevInv(d) /\ Same(d)
    BY <1>1, <1>3 DEF IInv
  <2>2. OpenInv(d)' /\ UnitInv(d)' /\ LeftInv(d)'
    BY <2>1 DEF DevInv, Same, OpenInv, UnitInv, LeftInv
  <2>3. RingInv(d)' /\ FrameInv(d)'
    BY <2>1 DEF DevInv, Same, RingInv, Place, FrameInv
  <2>4. QED
    BY <1>1, <1>2, <1>3, <2>2, <2>3, OthersKeep DEF DevInv
<1>5. QED
  BY <1>2, <1>4 DEF IInv

\* Every step keeps it.
LEMMA StepKeeps == IInv /\ [Next]_vars => IInv'
<1>1. SUFFICES ASSUME IInv, [Next]_vars PROVE IInv'
  OBVIOUS
<1>2. CASE UNCHANGED vars
  BY <1>1, <1>2, StutterKeeps
<1>3. ASSUME NEW d \in Devices, Thread(d) PROVE IInv'
  BY <1>1, <1>3, CopyKeeps, PlayKeeps, EndKeeps DEF Thread
<1>4. ASSUME NEW d \in Devices, Callback(d) PROVE IInv'
  BY <1>1, <1>4, CallbackKeeps, WakeupsKeep DEF Callback
<1>5. ASSUME NEW d \in Devices, Environment(d) PROVE IInv'
  BY <1>1, <1>5, BeforeOpenKeeps, OpenKeeps, PlayKeeps, CloseKeeps, WakeupsKeep DEF Environment
<1>6. QED
  BY <1>1, <1>2, <1>3, <1>4, <1>5 DEF Next

\* The types follow.
LEMMA TypesFollow == IInv => TypeOK
<1>1. SUFFICES ASSUME IInv PROVE TypeOK
  OBVIOUS
<1>2. TypeInv
  BY <1>1 DEF IInv
<1>3. ASSUME NEW d \in Devices
      PROVE  /\ ring[d] \in [0 .. size[d] - 1 -> Bytes]
             /\ first[d] \in 0 .. size[d] /\ valid[d] \in 0 .. size[d]
             /\ pc[d] \notin {"ready", "refused", "closed"} => stream[d] # NoStream
  <2>1. DevInv(d)
    BY <1>1 DEF IInv
  <2>2. first[d] \in Nat /\ valid[d] \in Nat /\ size[d] \in Nat
    BY <1>1, Numbers
  <2>3. first[d] <= size[d] /\ valid[d] <= size[d] /\ ring[d] \in [0 .. size[d] - 1 -> Bytes]
    BY <2>1 DEF DevInv, RingInv
  <2>4. QED
    BY <2>1, <2>2, <2>3 DEF DevInv, OpenInv
<1>4. MacTypeOK
  BY <1>2, <1>3 DEF MacTypeOK, TypeInv
<1>5. QED
  BY <1>2, <1>3, <1>4 DEF TypeOK, TypeInv, Stages, Units

\* Every variable keeps its type (TypeOK): whatever the application and
\* CoreAudio do on however many devices, firstValidByteOffset and
\* validByteCount stay within the buffer, and only an open device has one.
THEOREM TypeCorrect == Spec => []TypeOK
<1>1. Init => IInv
  BY Starts
<1>2. IInv /\ [Next]_vars => IInv'
  BY StepKeeps
<1>3. IInv => TypeOK
  BY TypesFollow
<1>4. QED
  BY <1>1, <1>2, <1>3, PTL DEF Spec
-----------------------------------------------------------------------------
(* The FIFO. *)

\* ao_plugin_play and audioCallback are the steps of a FIFO; no other step moves
\* a byte.
LEMMA StepIsFifo == IInv /\ [Next]_vars => [Fifo!FifoNext]_<<taken, out>>
<1>1. SUFFICES ASSUME IInv, [Next]_vars PROVE [Fifo!FifoNext]_<<taken, out>>
  OBVIOUS
<1>2. CASE UNCHANGED vars
  BY <1>2 DEF vars
<1>3. ASSUME NEW d \in Devices, PlayCopy(d) PROVE Fifo!FifoNext
  <2>1. PICK n \in 1 .. left[d] : n = Chunk(d)
    BY <1>1, <1>3, ChunkIs DEF PlayCopy
  <2>2. PICK t \in Nat, l \in Nat, o \in Nat :
          t = taken[d] /\ l = left[d] /\ o = Len(out[d]) /\ t + l <= MaxBytes /\ MaxBytes \in Nat
    BY <1>1, Numbers
  <2>3. n \in 1 .. MaxBytes /\ t + n - o <= MaxBytes
    BY <2>1, <2>2
  <2>4. Fifo!Take(d, n)
    BY <1>3, <2>1, <2>2, <2>3 DEF PlayCopy, Fifo!Take
  <2>5. QED
    BY <2>3, <2>4 DEF Fifo!FifoNext
<1>4. ASSUME NEW d \in Devices, NEW frames \in Requests, CallbackCopy(d, frames)
      PROVE  Fifo!FifoNext \/ UNCHANGED <<taken, out>>
  <2>1. PICK r \in Nat \ {0} : r = frames * FrameBytes(format[d])
    BY <1>1, <1>4, RequestIs
  <2>2. PICK v \in Nat, t \in Nat, o \in Nat :
          v = valid[d] /\ t = taken[d] /\ o = Len(out[d]) /\ t = o + v /\ t <= MaxBytes
          /\ MaxBytes \in Nat
    <3>1. left[d] \in Nat /\ taken[d] \in Nat /\ taken[d] + left[d] <= MaxBytes /\ MaxBytes \in Nat
      BY <1>1, Numbers
    <3>2. taken[d] <= MaxBytes
      BY <3>1
    <3>3. QED
      BY <1>1, <3>2, Numbers
  <2>3. PICK n \in 0 .. v : n = Min2(r, v)
    BY DEF Min2
  <2>4. n \in 0 .. valid[d] /\ size[d] > 0
    BY <1>1, <1>4, <2>2, <2>3, RequestIs
  <2>5. Read(d, n) = [i \in 1 .. n |-> Len(out[d]) + i]
    BY <1>1, <2>4, ReadIs
  <2>6. out' = [out EXCEPT ![d] = @ \o Read(d, n)] /\ taken' = taken
    BY <1>4, <2>1, <2>2, <2>3 DEF CallbackCopy
  <2>7. out' = [out EXCEPT ![d] = @ \o [i \in 1 .. n |-> Len(@) + i]]
    BY <2>5, <2>6
  <2>8. Fifo!Deliver(d, n)
    <3>1. Len(out[d]) + n <= taken[d]
      BY <2>2
    <3>2. QED
      BY <2>6, <2>7, <3>1 DEF Fifo!Deliver
  <2>9. CASE n = 0
    <3>1. out[d] \in Seq(Bytes)
      BY <1>1, Numbers
    <3>2. [i \in 1 .. n |-> Len(out[d]) + i] = <<>>
      BY <2>9
    <3>3. out[d] \o <<>> = out[d]
      BY <3>1, ConcatEmptySeq
    <3>4. out \in [Devices -> Seq(Bytes)]
      BY <1>1 DEF IInv, TypeInv
    <3>5. out' = out
      BY <2>5, <2>6, <3>2, <3>3, <3>4
    <3>6. QED
      BY <2>6, <3>5
  <2>10. CASE n # 0
    <3>1. n \in 1 .. MaxBytes
      BY <2>2, <2>3, <2>10
    <3>2. QED
      BY <2>8, <3>1 DEF Fifo!FifoNext
  <2>11. QED
    BY <2>9, <2>10
<1>5. ASSUME NEW d \in Devices, Thread(d), ~PlayCopy(d) PROVE UNCHANGED <<taken, out>>
  BY <1>5 DEF Thread, PlayWait, PlayFails, Wake, CloseFlush, CloseStop, CloseStopFails,
              CloseDispose, Fill
<1>6. ASSUME NEW d \in Devices, CallbackSignal(d) \/ Environment(d)
      PROVE  UNCHANGED <<taken, out>>
  BY <1>6 DEF CallbackSignal, Environment, BeforeOpen, Open, Play, Close, SpuriousWakeup,
              HalTornDown, Fill
<1>7. QED
  BY <1>1, <1>2, <1>3, <1>4, <1>5, <1>6 DEF Next, Callback

\* What the invariant says of a step's state after it.
LEMMA StepIsWhole ==
  IInv /\ IInv' =>
    \A d \in Devices :
      /\ taken'[d] - Len(out'[d]) <= size'[d]
      /\ out[d] # <<>> =>
           \/ Len(out[d]) % FrameBytes(format[d]) = 0
           \/ (Len(out[d]) = taken[d] /\ stopping[d])
<1>1. SUFFICES ASSUME IInv, IInv', NEW d \in Devices
               PROVE  /\ taken'[d] - Len(out'[d]) <= size'[d]
                      /\ out[d] # <<>> =>
                           \/ Len(out[d]) % FrameBytes(format[d]) = 0
                           \/ (Len(out[d]) = taken[d] /\ stopping[d])
  OBVIOUS
<1>2. TypeInv' /\ DevInv(d)'
  BY <1>1 DEF IInv
<1>3. out'[d] \in Seq(Bytes) /\ Len(out'[d]) \in Nat
  BY <1>2, LenProperties DEF TypeInv, Bytes
<1>4. valid'[d] \in Nat /\ size'[d] \in Nat
  BY <1>2, MacOpenAssumption DEF TypeInv
<1>5. taken'[d] = Len(out'[d]) + valid'[d] /\ valid'[d] <= size'[d]
  BY <1>2 DEF DevInv, RingInv
<1>6. PICK o \in Nat, v \in Nat, s \in Nat : o = Len(out'[d]) /\ v = valid'[d] /\ s = size'[d]
  BY <1>3, <1>4
<1>7. (o + v) - o <= s
  BY <1>5, <1>6
<1>8. out[d] # <<>> => stream[d] # NoStream
  BY <1>1 DEF IInv, DevInv, OpenInv
<1>9. QED
  BY <1>1, <1>5, <1>6, <1>7, <1>8 DEF IInv, DevInv, FrameInv

\* The ring buffer is a FIFO of bufferByteCount bytes, wrap-around and all, for
\* any size of the buffer, of a request and of a chunk; CoreAudio gets whole
\* frames but for the end of the stream, in the format it agreed to
\* (DeliversInOrder).
THEOREM Delivers == Spec => DeliversInOrder
<1>1. Init => IInv /\ Fifo!FifoInit
  BY Starts DEF Init, Fifo!FifoInit
<1>2. IInv /\ [Next]_vars => IInv'
  BY StepKeeps
<1>3. IInv /\ [Next]_vars => [Fifo!FifoNext]_<<taken, out>>
  BY StepIsFifo
<1>4. IInv => StreamFits
  BY DEF IInv, DevInv, OpenInv, StreamFits
<1> DEFINE Whole ==
      \A d \in Devices :
        /\ taken'[d] - Len(out'[d]) <= size'[d]
        /\ out[d] # <<>> =>
             \/ Len(out[d]) % FrameBytes(format[d]) = 0
             \/ (Len(out[d]) = taken[d] /\ stopping[d])
<1>5. IInv /\ IInv' => Whole
  BY StepIsWhole
<1> HIDE DEF Whole
<1>6. Spec => Fifo!FifoSpec /\ [][Whole]_vars /\ []StreamFits
  BY <1>1, <1>2, <1>3, <1>4, <1>5, PTL DEF Spec, Fifo!FifoSpec
<1>7. QED
  BY <1>6 DEF DeliversInOrder, Whole
=============================================================================
