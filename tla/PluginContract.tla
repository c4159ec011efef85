--------------------------- MODULE PluginContract ---------------------------
(***************************************************************************)
(* What libao's core promises an output driver: in which order the         *)
(* callbacks of an ao_functions table (ao_private.h) are called for one    *)
(* ao_device.  doc/plugin-overview.html tells the story; the order stated  *)
(* here is the one audio_out.c really keeps, and the driver models of this *)
(* project take it as their environment.                                   *)
(*                                                                         *)
(* st[d] is the life of the device structure d as its driver sees it:      *)
(*   "none"    no driver callback can be made for d                        *)
(*   "born"    the structure exists, device_init has not been called       *)
(*   "ready"   device_init succeeded, every set_option so far succeeded    *)
(*   "failed"  a callback, or the core between two callbacks, has failed   *)
(*   "open"    open succeeded                                              *)
(*   "closed"  close was called, device_clear was not                      *)
(*   "cleared" device_clear was called, the structure is not freed yet     *)
(***************************************************************************)
CONSTANT Devices    \* the device structures

VARIABLE st

ContractStates ==
  {"none", "born", "ready", "failed", "open", "closed", "cleared"}

ContractInit == st = [d \in Devices |-> "none"]

Move(d, from, to) == st[d] \in from /\ st' = [st EXCEPT ![d] = to]

Create(d)     == Move(d, {"none"}, "born")
Initialise(d) == Move(d, {"born"}, "ready") \/ Move(d, {"born"}, "failed")
Abandon(d)    == Move(d, {"ready"}, "failed")   \* set_option, mapping or open failed
Open(d)       == Move(d, {"ready"}, "open")
\* close comes once, whatever happened before, and nothing but device_clear
\* may follow it; a device that was opened cannot skip it.
Close(d)      == Move(d, {"failed", "open"}, "closed")
Clear(d)      == Move(d, {"closed"}, "cleared")
Free(d)       == Move(d, {"cleared"}, "none")

ContractNext ==
  \E d \in Devices : \/ Create(d) \/ Initialise(d) \/ Abandon(d) \/ Open(d)
                     \/ Close(d) \/ Clear(d) \/ Free(d)

ContractSpec == ContractInit /\ [][ContractNext]_st
=============================================================================
