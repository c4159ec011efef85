----------------------------- MODULE EsdStream -----------------------------
(***************************************************************************)
(* The esd plugin (src/src/plugins/esd/ao_esd.c).  The daemon stops        *)
(* playing when it reads less than a whole block, so that ao_plugin_play   *)
(* gathers what is left over in bugbuffer and only ever writes blocks of   *)
(* 4096 bytes.  write(2) may take part of a block, or nothing; a socket    *)
(* that has failed takes nothing more.                                     *)
(***************************************************************************)
EXTENDS OutputStream

CONSTANT Block \* 4096

ASSUME EsdAssumption == Block \in Nat \ {0}

VARIABLES
  fill,    \* bugbuffer[0 .. bugfill - 1]
  writing, \* what write4096 has still to write
  alive    \* the socket works

\* The stages of ao_plugin_play are "flush" (bugbuffer) and "blocks" (the
\* caller's bytes), that of ao_plugin_close is "last".
esdVars == <<fill, writing, alive>>

EsdInit == fill = <<>> /\ writing = <<>> /\ alive = TRUE

\* The next n bytes of the application.
Samples(n) == [i \in 1 .. n |-> taken + i]
-----------------------------------------------------------------------------
(* ao_plugin_play and write4096. *)

\* Seeded fault: bugbuffer may be overfilled.
FaultAddTo(n) == n

\* What completes bugbuffer, if it holds anything.
AddTo(n) ==
  IF fill = <<>> THEN 0 ELSE IF Len(fill) + n > Block THEN Block - Len(fill) ELSE n

\* The call, up to the first write: bugbuffer is written when it is full.
EsdPlay(n) ==
  /\ driver = "esd" /\ pc = "open" /\ taken + n <= MaxBytes
  /\ LET add == AddTo(n) buffered == fill \o Samples(add)
     IN /\ taken' = taken + add /\ left' = n - add
        /\ fill' = buffered
        /\ IF Len(buffered) = Block THEN pc' = "flush" /\ writing' = buffered
                                    ELSE pc' = "blocks" /\ UNCHANGED writing
  /\ UNCHANGED <<driver, alive, result, told, out>>

\* write(2) takes n bytes; EAGAIN and EINTR count as none, and are no step.
EsdWrite(n) ==
  /\ writing # <<>> /\ alive /\ n <= Len(writing)
  /\ out' = out \o SubSeq(writing, 1, n)
  /\ writing' = SubSeq(writing, n + 1, Len(writing))
  /\ UNCHANGED <<driver, pc, fill, left, alive, result, told, taken>>

\* Seeded fault: any error is taken for EAGAIN.
FaultEsdWriteFails ==
  /\ Breaks /\ writing # <<>> /\ alive' = FALSE
  /\ UNCHANGED <<driver, pc, fill, left, writing, result, told, taken, out>>

\* write(2) fails: write4096 gives up, and so does ao_plugin_play.  The result
\* of the last block is not looked at.
EsdWriteFails ==
  /\ Breaks /\ writing # <<>>
  /\ alive' = FALSE /\ writing' = <<>>
  /\ IF pc = "last" THEN UNCHANGED <<driver, pc, left, told>>
                    ELSE pc' = "failed" /\ left' = 0 /\ told' = TRUE
  /\ UNCHANGED <<driver, fill, result, taken, out>>

\* Seeded fault: bugfill is not reset.
FaultFlushed == fill

Flushed == <<>>

PlayFlushed ==
  /\ pc = "flush" /\ writing = <<>> /\ pc' = "blocks" /\ fill' = Flushed
  /\ UNCHANGED <<driver, left, writing, alive, result, told, taken, out>>

\* A whole block straight from the caller.
PlayBlock ==
  /\ pc = "blocks" /\ writing = <<>> /\ left >= Block
  /\ writing' = Samples(Block) /\ taken' = taken + Block /\ left' = left - Block
  /\ UNCHANGED <<driver, pc, fill, alive, result, told, out>>

\* Seeded fault: what is left over is written at once.
FaultRest ==
  /\ pc = "blocks" /\ writing = <<>> /\ left < Block
  /\ writing' = Samples(left) /\ taken' = taken + left
  /\ left' = 0 /\ pc' = "open" /\ UNCHANGED <<driver, fill, alive, result, told, out>>

\* What is left over goes to bugbuffer, which is empty when anything is.
PlayRest ==
  /\ pc = "blocks" /\ writing = <<>> /\ left < Block
  /\ fill' = IF left = 0 THEN fill ELSE Samples(left)
  /\ taken' = taken + left /\ left' = 0 /\ pc' = "open"
  /\ UNCHANGED <<driver, writing, alive, result, told, out>>
-----------------------------------------------------------------------------
(* ao_plugin_close. *)

Padded == fill \o [i \in 1 .. Block - Len(fill) |-> 0]

\* The rest is padded with silence to a block.
EsdCloseLast ==
  /\ driver = "esd" /\ pc \in {"open", "failed"} /\ fill # <<>>
  /\ pc' = "last" /\ fill' = <<>>
  /\ writing' = IF alive THEN Padded ELSE <<>>
  /\ UNCHANGED <<driver, left, alive, result, told, taken, out>>

EsdClose ==
  /\ driver = "esd"
  /\ \/ pc \in {"open", "failed"} /\ fill = <<>> /\ writing = <<>>
     \/ pc = "last" /\ writing = <<>>
     \/ pc = "refused"
  /\ CloseStream /\ UNCHANGED esdVars
-----------------------------------------------------------------------------
EsdStep ==
  \/ (\E n \in 1 .. Block : EsdWrite(n)) \/ EsdWriteFails
  \/ PlayFlushed \/ PlayBlock \/ PlayRest

EsdNext == (\E n \in Chunks : EsdPlay(n)) \/ EsdStep \/ EsdCloseLast \/ EsdClose

\* What the daemon read before any silence: the application's bytes.
BeforeSilence(n) ==
  (\A i \in 1 .. n : out[i] # 0) /\ (n < Len(out) => out[n + 1] = 0)

Heard == SubSeq(out, 1, CHOOSE n \in 0 .. Len(out) : BeforeSilence(n))

\* "only ever write 4096 byte chunks.  Ever." (comment above write4096): on a
\* socket that works the daemon is never left waiting within a block, and the
\* silence that fills the last one comes only behind the last byte.
WholeBlocks ==
  driver = "esd" =>
    /\ alive /\ writing = <<>> => Len(out) % Block = 0
    /\ \A i \in 1 .. Len(out) :
         out[i] = 0 => pc \in {"last", "closed"} /\ \A j \in i .. Len(out) : out[j] = 0
=============================================================================
