------------------------------ MODULE AlsaPlay ------------------------------
(***************************************************************************)
(* The alsa plugin as a whole (src/src/plugins/alsa/ao_alsa.c):            *)
(* ao_plugin_play and ao_plugin_close on the device that AlsaOpen found.   *)
(* Samples go to writei, padded through a page-sized buffer when the       *)
(* hardware takes a wider format, or straight from the caller, and the     *)
(* errors of writei are recovered from while they can be.  The unit is the *)
(* frame; bytes that do not make up a frame are dropped.                   *)
(***************************************************************************)
EXTENDS AlsaOpen

CONSTANTS
  Page,      \* 4096, the size of padbuffer
  Buffer,    \* frames in the hardware's buffer
  Chunks,    \* whole frames in one ao_plugin_play
  MaxFrames, \* bound on the frames played
  Dies       \* whether the device may fail for good

ASSUME PlayAssumption ==
  /\ Page \in Nat \ {0} /\ Buffer \in Nat \ {0} /\ Chunks \subseteq Nat
  /\ MaxFrames \in Nat /\ Dies \in BOOLEAN

VARIABLES
  stage,     \* "idle", in ao_plugin_play "page" (the padding loop), "write"
             \* (ao_plugin_playi), "recover", "resume", "restart", "failed"
  numBytes,  \* of the ao_plugin_play under way
  len,       \* frames ao_plugin_playi has still to write
  pcm,       \* "running", "underrun", "suspended", "dead"
  queued,    \* frames in the hardware's buffer
  taken, out \* history: frames ao_plugin_play took, frames given to ALSA

playVars == <<stage, numBytes, len, pcm, queued, taken, out>>
vars == <<openVars, playVars>>

Init ==
  /\ OpenInit
  /\ stage = "idle" /\ numBytes = 0 /\ len = 0 /\ pcm = "running" /\ queued = 0
  /\ taken = 0 /\ out = <<>>

Opening == OpenNext /\ UNCHANGED playVars
-----------------------------------------------------------------------------
(* The device, outside the plugin. *)

HardwarePlays ==
  /\ pcm = "running" /\ queued > 0 /\ queued' = queued - 1
  /\ UNCHANGED <<openVars, stage, numBytes, len, pcm, taken, out>>

\* The buffer ran dry, the machine was suspended, or the device is gone.
HardwareStops(how) ==
  /\ pc = "open" /\ pcm = "running"
  /\ how = "underrun" => queued = 0
  /\ how = "dead" => Dies
  /\ pcm' = how
  /\ UNCHANGED <<openVars, stage, numBytes, len, queued, taken, out>>
-----------------------------------------------------------------------------
(* ao_plugin_play. *)

\* sample_size.
FrameBytes == sampleWidth * channels

\* oframes, the frames that fit into padbuffer once they are padded.
PageFrames == Page \div (padoutw * channels)

\* Seeded fault: the loop runs while any byte is left.
FaultMorePages == numBytes > 0

\* "must not hang on fractional frames".
MorePages == numBytes >= FrameBytes

\* n frames and the rest of a frame.
Play(n, rest) ==
  /\ pc = "open" /\ stage = "idle" /\ taken + n <= MaxFrames
  /\ IF padbuffer
     THEN stage' = "page" /\ numBytes' = n * FrameBytes + rest /\ UNCHANGED <<len, taken>>
     ELSE stage' = "write" /\ len' = n /\ taken' = taken + n /\ UNCHANGED numBytes
  /\ UNCHANGED <<openVars, pcm, queued, out>>

PageOf(frames) == IF frames < PageFrames THEN frames ELSE PageFrames

\* A page is padded and handed to ao_plugin_playi.
PlayPage ==
  /\ stage = "page" /\ MorePages /\ stage' = "write"
  /\ LET frames == PageOf(numBytes \div FrameBytes)
     IN len' = frames /\ taken' = taken + frames
        /\ numBytes' = numBytes - frames * FrameBytes
  /\ UNCHANGED <<openVars, pcm, queued, out>>

PlayReturns ==
  /\ stage = "page" /\ ~MorePages /\ stage' = "idle" /\ numBytes' = 0
  /\ UNCHANGED <<openVars, len, pcm, queued, taken, out>>
-----------------------------------------------------------------------------
(* ao_plugin_playi. *)

\* Seeded fault: the start pointer is not moved on after a short write.
FaultWritten(n) == [i \in 1 .. n |-> taken + i]

\* The frames writei takes: they end len frames before those taken so far.
Written(n) == [i \in 1 .. n |-> taken - len + i]

\* writei takes n frames; EAGAIN and EINTR are no step.
Write(n) ==
  /\ stage = "write" /\ n <= len /\ pcm = "running" /\ queued + n <= Buffer
  /\ out' = out \o Written(n) /\ queued' = queued + n /\ len' = len - n
  /\ UNCHANGED <<openVars, stage, numBytes, pcm, taken>>

WriteEnds ==
  /\ stage = "write" /\ len = 0
  /\ stage' = IF padbuffer THEN "page" ELSE "idle"
  /\ UNCHANGED <<openVars, numBytes, len, pcm, queued, taken, out>>

\* writei reports the state of the device.
WriteError ==
  /\ stage = "write" /\ len > 0 /\ pcm # "running" /\ stage' = "recover"
  /\ UNCHANGED <<openVars, numBytes, len, pcm, queued, taken, out>>
-----------------------------------------------------------------------------
(* alsa_error_recovery. *)

\* Seeded fault: the failure of ao_plugin_playi is not passed on.
FaultGiveUp ==
  /\ stage' = "idle" /\ len' = 0 /\ numBytes' = 0
  /\ UNCHANGED <<openVars, pcm, queued, taken, out>>

\* ao_plugin_play returns 0; the application plays no more.
GiveUp ==
  /\ stage' = "failed" /\ len' = 0 /\ numBytes' = 0
  /\ UNCHANGED <<openVars, pcm, queued, taken, out>>

Recovered ==
  /\ stage' = "write" /\ pcm' = "running"
  /\ UNCHANGED <<openVars, numBytes, len, taken, out>>

RecoverBy(next) ==
  /\ stage' = next /\ UNCHANGED <<openVars, numBytes, len, pcm, queued, taken, out>>

\* By the error: -EPIPE, -ESTRPIPE, or one that is not recoverable.
Recover ==
  /\ stage = "recover"
  /\ \/ pcm = "dead" /\ GiveUp
     \/ pcm = "underrun" /\ RecoverBy("restart")
     \/ pcm = "suspended" /\ RecoverBy("resume")

\* snd_pcm_resume, as soon as it does not say -EAGAIN: the frames are still
\* there, or the stream has to be restarted.
Resume ==
  /\ stage = "resume"
  /\ \/ Recovered /\ UNCHANGED queued
     \/ RecoverBy("restart")

\* snd_pcm_prepare drops what the hardware had, or fails.
Restart ==
  /\ stage = "restart"
  /\ \/ Recovered /\ queued' = 0
     \/ Dies /\ GiveUp
-----------------------------------------------------------------------------
(* ao_plugin_close and ao_plugin_device_clear. *)

\* An open device is drained, or the plugin sleeps until it has played, while
\* it runs; it is closed in any case.
Close ==
  /\ stage \in {"idle", "failed"} /\ (pc = "open" /\ pcm = "running" => queued = 0)
  /\ CloseHandle
  /\ UNCHANGED playVars
-----------------------------------------------------------------------------
Thread ==
  \/ PlayPage \/ PlayReturns \/ WriteEnds \/ WriteError
  \/ Recover \/ Resume \/ Restart

Hardware ==
  \/ HardwarePlays
  \/ \E how \in {"underrun", "suspended", "dead"} : HardwareStops(how)

Next ==
  \/ Opening \/ Hardware
  \/ (\E n \in Chunks, rest \in {0, FrameBytes - 1} : Play(n, rest))
  \/ Thread \/ (\E n \in 1 .. Buffer : Write(n)) \/ Close

Spec == Init /\ [][Next]_vars

\* The thread runs, and a device that is made to run again and again plays
\* frames and takes new ones in the end.
FairSpec ==
  /\ Spec /\ WF_vars(Thread) /\ SF_vars(HardwarePlays)
  /\ SF_vars(\E n \in 1 .. Buffer : Write(n))
-----------------------------------------------------------------------------
(* What should hold, with WidthsFit and ByteOrderFits of AlsaOpen. *)

TypeOK ==
  /\ OpenTypeOK
  /\ stage \in {"idle", "page", "write", "recover", "resume", "restart", "failed"}
  /\ numBytes \in Nat /\ len \in 0 .. MaxFrames /\ queued \in 0 .. Buffer
  /\ pcm \in {"running", "underrun", "suspended", "dead"}
  /\ taken \in 0 .. MaxFrames /\ out \in Seq(1 .. MaxFrames)

Fifo == INSTANCE SampleFifo WITH
  Devices <- {1}, Capacity <- MaxFrames,
  taken <- [d \in {1} |-> taken], out <- [d \in {1} |-> out]

\* ALSA gets the frames in order and once, through short writes and recoveries,
\* and ao_plugin_play returns 1 only when it gave ALSA every whole frame; a frame
\* is what the plugin takes for one.
DeliversInOrder == Fifo!FifoSpec /\ [](stage = "idle" => Len(out) = taken)

\* ao_plugin_play returns, though the chunk ends within a frame, whatever
\* ao_plugin_open left in padoutw and sample_size.
PlayComesBack ==
  stage \in {"page", "write", "recover", "resume", "restart"} ~> stage \in {"idle", "failed"}
=============================================================================
