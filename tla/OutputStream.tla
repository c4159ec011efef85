---------------------------- MODULE OutputStream ----------------------------
(***************************************************************************)
(* ao_plugin_play of the drivers that hand the caller's bytes straight to  *)
(* their audio system: oss in pieces and again after a short write, the    *)
(* others in one call (src/src/plugins, src/src/ao_aixs.c).  The state     *)
(* here is what EsdStream and NasStream use too.                           *)
(***************************************************************************)
EXTENDS Integers, Sequences

CONSTANTS
  Drivers,    \* the drivers considered
  Piece,      \* oss: buf_size, the fragment size
  FrameBytes, \* irix: channels * bytesPerSample
  Chunks,     \* num_bytes the application plays
  MaxBytes,   \* bound on the bytes played
  Breaks      \* whether the connection or the device may break

OneCall == {"sun", "aixs", "roar", "sndio", "irix", "pulse"}

ASSUME StreamAssumption ==
  /\ Drivers \subseteq OneCall \cup {"oss", "esd", "nas"}
  /\ Piece \in Nat \ {0} /\ FrameBytes \in Nat \ {0}
  /\ Chunks \subseteq Nat \ {0} /\ MaxBytes \in Nat /\ Breaks \in BOOLEAN

VARIABLES
  driver, \* which driver this is
  pc,     \* "none", "refused", "open"; in play "pieces" (oss), "call"; "failed";
          \* "closed"; esd and nas have stages of their own
  left,   \* num_bytes still to be given away
  result, \* what close returned, or -1
  told,   \* history: whether play has returned 0
  taken,  \* history: bytes the driver took
  out     \* history: what the audio system got; 0 is a byte of silence

streamVars == <<driver, pc, left, result, told, taken, out>>

StreamInit ==
  /\ driver \in Drivers /\ pc = "none" /\ left = 0 /\ result = -1
  /\ told = FALSE /\ taken = 0 /\ out = <<>>

Ready == pc = "none" /\ pc' = "open" /\ UNCHANGED <<driver, left, result, told, taken, out>>

\* The format does not fit, or there is no server or device.
Refused == pc = "none" /\ pc' = "refused" /\ UNCHANGED <<driver, left, result, told, taken, out>>
-----------------------------------------------------------------------------
\* The driver has n bytes more to give away.
TakeAll(n, stage) ==
  /\ pc = "open" /\ taken + n <= MaxBytes
  /\ pc' = stage /\ left' = n /\ taken' = taken + n
  /\ UNCHANGED <<driver, result, told, out>>

\* The next k of them.
NextBytes(k) == [i \in 1 .. k |-> taken - left + i]

\* Seeded fault: a failed write ends the call, but not with 0.
FaultPlayFails ==
  /\ pc' = "open" /\ left' = 0 /\ UNCHANGED <<driver, result, told, taken, out>>

PlayFails ==
  /\ pc' = "failed" /\ left' = 0 /\ told' = TRUE
  /\ UNCHANGED <<driver, result, taken, out>>

PlayReturns ==
  /\ pc' = "open" /\ left' = 0 /\ UNCHANGED <<driver, result, told, taken, out>>
-----------------------------------------------------------------------------
(* oss: ao_plugin_play. *)

OssPlay(n) == driver = "oss" /\ TakeAll(n, "pieces")

\* write(2) takes k bytes of a piece; EINTR is no step.
OssWrite(k) ==
  /\ pc = "pieces" /\ k <= left /\ k <= Piece
  /\ out' = out \o NextBytes(k) /\ left' = left - k
  /\ UNCHANGED <<driver, pc, result, told, taken>>

OssWriteFails == pc = "pieces" /\ left > 0 /\ Breaks /\ PlayFails

OssReturns == pc = "pieces" /\ left = 0 /\ PlayReturns
-----------------------------------------------------------------------------
(* One write for all: ao_plugin_play of sun, roar, sndio, irix and pulse,  *)
(* ao_aixs_play.                                                           *)

PlayOnce(n) == driver \in OneCall /\ TakeAll(n, "call")

\* What the call may take and still be a success: a part of the bytes, the
\* rest of which is lost ("TODO: handle short writes"); irix gives whole frames,
\* and takes a failure for a success.
Short ==
  CASE driver \in {"sun", "aixs", "roar"} -> 0 .. left
    [] driver = "sndio" -> 1 .. left
    [] driver = "irix" -> {0, left - (left % FrameBytes)}
    [] driver = "pulse" -> {left}

CallReturns(k) ==
  /\ pc = "call" /\ k \in Short
  /\ out' = out \o NextBytes(k) /\ left' = 0 /\ pc' = "open"
  /\ UNCHANGED <<driver, result, told, taken>>

CallFails == pc = "call" /\ driver # "irix" /\ Breaks /\ PlayFails
-----------------------------------------------------------------------------
(* ao_plugin_close. *)

CloseStream ==
  /\ pc' = "closed" /\ result' = 1
  /\ UNCHANGED <<driver, left, told, taken, out>>

CloseDirect ==
  driver \in OneCall \cup {"oss"} /\ pc \in {"open", "failed", "refused"} /\ CloseStream

\* sndio: sio_stop fails.
SndioStopFails ==
  /\ driver = "sndio" /\ pc \in {"open", "failed", "refused"} /\ Breaks
  /\ pc' = "closed" /\ result' = 0
  /\ UNCHANGED <<driver, left, told, taken, out>>
-----------------------------------------------------------------------------
DirectStep ==
  \/ (\E k \in 1 .. Piece : OssWrite(k)) \/ OssWriteFails \/ OssReturns
  \/ (\E k \in 0 .. MaxBytes : CallReturns(k)) \/ CallFails

DirectNext ==
  \/ Ready \/ Refused
  \/ (\E n \in Chunks : OssPlay(n) \/ PlayOnce(n))
  \/ DirectStep \/ CloseDirect \/ SndioStopFails
=============================================================================
