----------------------------- MODULE ArtsServer -----------------------------
(***************************************************************************)
(* The arts plugin (src/src/plugins/arts/ao_arts.c).  All devices of the   *)
(* process share one connection to the aRts server, which server_open_count *)
(* is to keep as long as a stream is open: arts_init is called when it is   *)
(* zero, arts_free when it is zero again.  One mutex guards the library;    *)
(* ao_plugin_play gives it up only to sleep, so a round of writes is a      *)
(* step.  Devices run in threads of their own.                              *)
(***************************************************************************)
EXTENDS Integers, FiniteSets

CONSTANTS
  Devices,
  Multi,      \* the devices opened with the option multi=yes
  Refusals,   \* whether an option, the server or a stream may be refused
  Tests,      \* whether ao_default_driver_id is called while devices are used
  Bytes,      \* num_bytes of each ao_plugin_play
  SpinLimit,  \* rounds without a write before ao_plugin_play gives up (100)
  CountLimit  \* bound on how far below zero server_open_count is followed

ASSUME ArtsAssumption ==
  /\ IsFiniteSet(Devices) /\ Multi \subseteq Devices /\ Refusals \in BOOLEAN /\ Tests \in BOOLEAN
  /\ Bytes \in Nat \ {0} /\ SpinLimit \in Nat \ {0} /\ CountLimit \in Nat

VARIABLES
  pc,         \* the device of each thread: "none", "refused" or "disallowed" (it
              \* failed to open, the core will close it), "open", or "play"
  count,      \* server_open_count
  connected,  \* the aRts library's connection: arts_init up to arts_free
  strays,     \* history: how many devices were closed that had failed to open
  cut,        \* history: a test has freed the connection since the count was zero
  left, spin  \* num_bytes and spindetect of the ao_plugin_play under way

vars == <<pc, count, connected, strays, cut, left, spin>>

Init ==
  /\ pc = [d \in Devices |-> "none"] /\ count = 0 /\ connected = FALSE
  /\ strays = 0 /\ cut = FALSE
  /\ left = [d \in Devices |-> 0] /\ spin = [d \in Devices |-> 0]

Goto(d, stage) == pc' = [pc EXCEPT ![d] = stage]

Streams == {d \in Devices : pc[d] \in {"open", "play"}}
-----------------------------------------------------------------------------
(* The connection. *)

\* Seeded fault: the connection is freed whatever the count is.
FaultFreed(n) == FALSE

\* Seeded fault: the connection is never freed.
FaultKept(n) == connected

\* if(!server_open_count) arts_free();
FreedAt(n) == IF n = 0 THEN FALSE ELSE connected

\* ao_plugin_test, when a server answers that is not suspended: the connection
\* is freed as the count asks, and then freed again.
Test ==
  /\ Tests /\ connected' = FALSE
  /\ cut' = (cut \/ connected)
  /\ UNCHANGED <<pc, count, strays, left, spin>>

\* A suspended server: only a connection of its own is freed.
TestSuspended ==
  /\ Tests /\ connected' = FreedAt(count)
  /\ UNCHANGED <<pc, count, strays, cut, left, spin>>
-----------------------------------------------------------------------------
(* ao_plugin_set_option and ao_plugin_open. *)

\* A value of "multi" that is neither yes nor no.
OptionRefused(d) ==
  /\ Refusals /\ pc[d] = "none" /\ Goto(d, "refused")
  /\ UNCHANGED <<count, connected, strays, cut, left, spin>>

\* "multiple-playback access disallowed": another device has the server.
OpenDisallowed(d) ==
  /\ pc[d] = "none" /\ count # 0 /\ d \notin Multi /\ Goto(d, "disallowed")
  /\ UNCHANGED <<count, connected, strays, cut, left, spin>>

Allowed(d) == count = 0 \/ d \in Multi

\* arts_init finds no server, or there are more than two channels.
OpenUnconnected(d) ==
  /\ Refusals /\ pc[d] = "none" /\ Goto(d, "refused")
  /\ UNCHANGED <<count, connected, strays, cut, left, spin>>

\* The stream cannot be opened or set up.
OpenNoStream(d) ==
  /\ Refusals /\ pc[d] = "none" /\ Allowed(d) /\ Goto(d, "refused")
  /\ connected' = FreedAt(count)
  /\ UNCHANGED <<count, strays, cut, left, spin>>

Open(d) ==
  /\ pc[d] = "none" /\ Allowed(d) /\ Goto(d, "open")
  /\ connected' = (connected \/ count = 0)
  /\ count' = count + 1
  /\ UNCHANGED <<strays, cut, left, spin>>
-----------------------------------------------------------------------------
(* ao_plugin_play. *)

Play(d) ==
  /\ pc[d] = "open" /\ Goto(d, "play")
  /\ left' = [left EXCEPT ![d] = Bytes] /\ spin' = [spin EXCEPT ![d] = 0]
  /\ UNCHANGED <<count, connected, strays, cut>>

\* Seeded fault: a round without a write is counted twice.
FaultSpinsTwice(d, wrote) == IF wrote > 0 THEN 0 ELSE spin[d] + 2

\* spindetect after a round.
Spins(d, wrote) == IF wrote > 0 THEN 0 ELSE spin[d] + 1

\* Seeded fault: num_bytes is not reduced by what was written.
FaultRemaining(d, wrote) == left[d]

\* num_bytes after a round.
Remaining(d, wrote) == left[d] - wrote

\* Five arts_write calls, which wrote so many bytes between them.  The loop is
\* left when nothing was written for too long, or when nothing is left.
PlayRound(d, wrote) ==
  /\ pc[d] = "play" /\ wrote <= left[d]
  /\ left' = [left EXCEPT ![d] = Remaining(d, wrote)]
  /\ spin' = [spin EXCEPT ![d] = Spins(d, wrote)]
  /\ Goto(d, IF spin'[d] = SpinLimit \/ left'[d] = 0 THEN "open" ELSE "play")
  /\ UNCHANGED <<count, connected, strays, cut>>

\* arts_write reports an error.
PlayError(d) ==
  /\ pc[d] = "play" /\ Goto(d, "open")
  /\ UNCHANGED <<count, connected, strays, cut, left, spin>>
-----------------------------------------------------------------------------
(* ao_plugin_close, which the core calls for a refused device as well. *)

Close(d) ==
  /\ pc[d] \in {"open", "refused", "disallowed"} /\ count > -CountLimit
  /\ Goto(d, "none") /\ count' = count - 1 /\ connected' = FreedAt(count - 1)
  /\ strays' = IF pc[d] = "open" THEN strays ELSE strays + 1
  /\ cut' = (cut /\ count' # 0)
  /\ UNCHANGED <<left, spin>>
-----------------------------------------------------------------------------
Round(d) == (\E wrote \in 0 .. Bytes : PlayRound(d, wrote)) \/ PlayError(d)

Next ==
  \/ Test \/ TestSuspended
  \/ \E d \in Devices :
       \/ OptionRefused(d) \/ OpenDisallowed(d) \/ OpenUnconnected(d)
       \/ OpenNoStream(d) \/ Open(d) \/ Play(d) \/ Round(d) \/ Close(d)

Spec == Init /\ [][Next]_vars

\* A thread that plays wakes up from its sleep; the server need not answer.
FairSpec == Spec /\ \A d \in Devices : WF_vars(Round(d))
-----------------------------------------------------------------------------
(* What should hold. *)

TypeOK ==
  /\ pc \in [Devices -> {"none", "refused", "disallowed", "open", "play"}]
  /\ count \in Int /\ connected \in BOOLEAN /\ strays \in Nat /\ cut \in BOOLEAN
  /\ left \in [Devices -> 0 .. Bytes] /\ spin \in [Devices -> 0 .. SpinLimit]

\* In every history, server_open_count is the number of open streams less one
\* for each device that was closed without having been opened, and the process
\* is connected exactly while that is positive, unless a test has come between.
\* So while only opened devices are closed a stream has a connection under it,
\* and the last to be closed takes the connection with it; after a close too
\* many one stream goes without for the rest of the process.
ConnectionFollowsStreams ==
  /\ count = Cardinality(Streams) - strays
  /\ connected <=> count > 0 /\ ~cut

\* ao_plugin_play comes back even from a server that answers no more: "we have
\* to ... look for an output pattern that indicates the server disappeared".
PlayReturns == \A d \in Devices : pc[d] = "play" ~> pc[d] # "play"

\* A device without multi=yes is not opened beside another one
\* (doc/drivers.html, "multi").  The code does not keep this: once a refused
\* device was closed, a second device may find it zero.
NoUnaskedSharing ==
  [][\A d \in Devices \ Multi :
       pc[d] = "none" /\ pc'[d] = "open" => Streams = {}]_vars

\* An open is refused because of other devices only when there is one: the
\* message says "playback already in progress".  The code does not keep this: after the
\* close of a refused device the count is -1, which stands for an open device.
RefusedOnlyWhenBusy ==
  [][\A d \in Devices : pc[d] = "none" /\ pc'[d] = "disallowed" => Streams # {}]_vars

\* The test leaves alone a connection that it did not open.  The code does not
\* keep this: its second arts_free asks for no count.
TestKeepsConnection ==
  [][Test \/ TestSuspended => Streams = {} \/ connected' = connected]_vars
=============================================================================
