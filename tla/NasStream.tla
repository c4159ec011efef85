----------------------------- MODULE NasStream -----------------------------
(***************************************************************************)
(* The nas plugin (src/src/plugins/nas/ao_nas.c).  The server plays from a *)
(* buffer of its own and sends an event when that runs low and when it is  *)
(* empty; ao_plugin_play waits for an event when it has used up what the   *)
(* last one allowed.                                                       *)
(***************************************************************************)
EXTENDS OutputStream

CONSTANT NasBuffer \* buf_size

ASSUME NasAssumption == NasBuffer \in Nat /\ NasBuffer > 1

VARIABLES
  room,   \* buf_free
  level,  \* bytes in the server's buffer
  events  \* the queue of events: their kind and num_bytes

nasVars == <<room, level, events>>

Event(kind, bytes) == [kind |-> kind, bytes |-> bytes]

\* The flow starts with an empty buffer, which the server reports.
NasInit == room = 0 /\ level = 0 /\ events = <<Event("LowWater", NasBuffer)>>

LowWater == NasBuffer \div 2
-----------------------------------------------------------------------------
\* Notices carry the space that is free when they are sent.
Notices(before, after) ==
  (IF before > LowWater /\ after <= LowWater
   THEN <<Event("LowWater", NasBuffer - after)>> ELSE <<>>)
  \o (IF before > 0 /\ after = 0 THEN <<Event("Pause", NasBuffer)>> ELSE <<>>)
  \o (IF before = 0 /\ after > 0 THEN <<Event("Start", 0)>> ELSE <<>>)

\* The server plays a byte.
NasPlays ==
  /\ driver = "nas" /\ level > 0
  /\ level' = level - 1 /\ events' = events \o Notices(level, level - 1)
  /\ UNCHANGED <<streamVars, room>>
-----------------------------------------------------------------------------
(* ao_plugin_play. *)

NasPlay(n) == driver = "nas" /\ TakeAll(n, "flow") /\ UNCHANGED nasVars

\* Seeded fault: only LowWater is heeded.
FaultAllows(event) == event.kind = "LowWater"

\* The events that tell how much may be written.
Allows(event) == event.kind \in {"LowWater", "Pause"}

\* An event is read only when there is no room.
NasEvent ==
  /\ pc = "flow" /\ left > 0 /\ room = 0 /\ events # <<>>
  /\ room' = IF Allows(Head(events)) THEN Head(events).bytes ELSE room
  /\ events' = Tail(events)
  /\ UNCHANGED <<streamVars, level>>

\* Partial and final transfer.
NasWrite ==
  /\ pc = "flow" /\ left > 0 /\ room > 0
  /\ LET k == IF left > room THEN room ELSE left
     IN /\ out' = out \o NextBytes(k) /\ left' = left - k
        /\ room' = room - k /\ level' = level + k
        /\ events' = events \o Notices(level, level + k)
  /\ UNCHANGED <<driver, pc, result, told, taken>>

NasReturns == pc = "flow" /\ left = 0 /\ PlayReturns /\ UNCHANGED nasVars

\* The flow is stopped with what it holds.
NasClose ==
  /\ driver = "nas" /\ pc \in {"open", "refused"} /\ CloseStream
  /\ level' = 0 /\ UNCHANGED <<room, events>>
-----------------------------------------------------------------------------
NasStep == NasEvent \/ NasWrite \/ NasReturns

NasNext == (\E n \in Chunks : NasPlay(n)) \/ NasStep \/ NasPlays \/ NasClose

\* The space the server reports is never exceeded.  The plugin does not keep
\* it: what one event allowed and a later event count the same bytes twice.
NeverOverfills == level <= NasBuffer
=============================================================================
