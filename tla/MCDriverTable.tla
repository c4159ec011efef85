--------------------------- MODULE MCDriverTable ---------------------------
(***************************************************************************)
(* DriverTable for TLC: two static drivers, two plugins and a library that *)
(* lacks a symbol.                                                         *)
(***************************************************************************)
EXTENDS DriverTable

CONSTANTS null, wav, alsa, pulse, f1, f2, f3

MCStatic == <<null, wav>>
MCHolds == [f \in Files |-> CASE f = f1 -> alsa [] f = f2 -> pulse [] OTHER -> Broken]
MCType == (null :> "live") @@ (wav :> "file") @@ (alsa :> "live") @@ (pulse :> "live")
MCPriority == (null :> 0) @@ (wav :> 0) @@ (alsa :> 35) @@ (pulse :> 50)

Default(d) == [key |-> "default_driver", value |-> d]
Option(k) == [key |-> k, value |-> NoName]
MCSystemFiles == {<<>>, <<Option("dev"), Default(alsa)>>}
MCUserFiles == {<<>>, <<Default(wav), Option("dev")>>}
=============================================================================
