---------------------------- MODULE DriverHandle ----------------------------
(***************************************************************************)
(* The handle by which eight plugins reach their audio system: a file      *)
(* descriptor (oss, sun, aixs), a server connection (nas, roar, pulse), a  *)
(* port (irix) or an sio_hdl (sndio).  It is kept in device->internal,     *)
(* acquired by ao_plugin_open and given up by ao_plugin_close or           *)
(* ao_plugin_device_clear, which the core calls after every failure too.   *)
(* The order of the calls is PluginContract's.  All devices of a behaviour *)
(* use one plugin; the application opens and closes files of its own in    *)
(* another thread, and has handle 0 at the start (its standard input).     *)
(***************************************************************************)
EXTENDS Integers

CONSTANTS
  Devices,     \* device structures
  Plugins,     \* the plugins considered
  MaxHandle,   \* bound on the handles of the process
  Null,        \* the descriptor -1 or a NULL pointer
  NoInternal,  \* device->internal is NULL
  Nobody, App    \* a handle belongs to nobody, to the application

ASSUME HandleAssumption ==
  /\ Plugins \subseteq {"oss", "sun", "aixs", "nas", "irix", "sndio", "roar", "pulse"}
  /\ MaxHandle \in Nat
  /\ Null \notin Int /\ NoInternal \notin Int /\ Null # NoInternal
  /\ Nobody \notin Devices /\ App \notin Devices /\ Nobody # App

Handles == 0 .. MaxHandle
Descriptors == {"oss", "sun", "aixs"}

VARIABLES
  plugin,    \* the plugin all devices use
  st,        \* how far each device is, see PluginContract
  handle,    \* the handle in device->internal, or Null, or NoInternal
  stream,    \* roar's vss: the device has a stream on its connection
  owner,     \* who has each handle of the process
  astray,    \* history: a device used or closed a handle not its own
  crashed    \* device->internal was used while NULL

handleVars == <<plugin, st, handle, stream, owner, astray, crashed>>

Contract == INSTANCE PluginContract

HandleInit ==
  /\ plugin \in Plugins /\ Contract!ContractInit
  /\ handle = [d \in Devices |-> NoInternal] /\ stream = [d \in Devices |-> FALSE]
  /\ owner = [h \in Handles |-> IF h = 0 THEN App ELSE Nobody]
  /\ astray = FALSE /\ crashed = FALSE
-----------------------------------------------------------------------------
(* How each plugin treats its handle:                                      *)
(*   fresh      what a new structure may hold: oss, sun and aixs get 0 from  *)
(*              calloc() and set no -1, nas leaves what malloc() finds       *)
(*   untouched  open may be refused before it has written the handle         *)
(*   later      when a later step of open fails: the plugin closes the       *)
(*              handle and keeps its value, leaves it to the callbacks, or   *)
(*              there is no such step                                        *)
(*   closes     the callbacks that close it                                  *)
(*   resets     close forgets it                                             *)
(*   spares     handles the callbacks do not close                           *)
(* sndio stops the device in close; roar has a stream beside its connection. *)

\* Seeded fault: a new structure holds a handle that no open can return.
FaultOss == [fresh |-> {MaxHandle + 1}, untouched |-> FALSE, later |-> "closes",
             closes |-> {"close"}, resets |-> TRUE, spares |-> {}]

Oss == [fresh |-> {0}, untouched |-> FALSE, later |-> "closes",
        closes |-> {"close"}, resets |-> TRUE, spares |-> {}]

Sun == [fresh |-> {0}, untouched |-> FALSE, later |-> "closes",
        closes |-> {"close"}, resets |-> TRUE, spares |-> {}]

\* A refused open of the default device leaves 0, which close takes for no handle.
Aixs == [fresh |-> {0}, untouched |-> TRUE, later |-> "closes",
         closes |-> {"close"}, resets |-> TRUE, spares |-> {0}]

Nas == [fresh |-> Handles \cup {Null}, untouched |-> TRUE, later |-> "closes",
        closes |-> {"close"}, resets |-> FALSE, spares |-> {}]

Irix == [fresh |-> {Null}, untouched |-> FALSE, later |-> "closes",
         closes |-> {"close"}, resets |-> TRUE, spares |-> {}]

\* Seeded fault: device_clear does not close the handle.
FaultSndio == [fresh |-> {Null}, untouched |-> FALSE, later |-> "leaves",
               closes |-> {}, resets |-> FALSE, spares |-> {}]

\* Seeded fault: sio_close in both callbacks.
FaultSndioTwice == [fresh |-> {Null}, untouched |-> FALSE, later |-> "leaves",
                    closes |-> {"close", "clear"}, resets |-> FALSE, spares |-> {}]

Sndio == [fresh |-> {Null}, untouched |-> FALSE, later |-> "leaves",
          closes |-> {"clear"}, resets |-> FALSE, spares |-> {}]

Roar == [fresh |-> {Null}, untouched |-> FALSE, later |-> "leaves",
         closes |-> {"close"}, resets |-> TRUE, spares |-> {}]

Pulse == [fresh |-> {Null}, untouched |-> FALSE, later |-> "none",
          closes |-> {"close"}, resets |-> TRUE, spares |-> {}]

\* The way of the plugin in use.
Way == [oss |-> Oss, sun |-> Sun, aixs |-> Aixs, nas |-> Nas, irix |-> Irix, sndio |-> Sndio,
        roar |-> Roar, pulse |-> Pulse][plugin]

\* Plugins that set the handle to NULL before anything can fail, and never keep
\* one that they have closed.
Tidy == Way.fresh = {Null} /\ Way.later # "closes"
-----------------------------------------------------------------------------
\* open(2) gives the lowest free descriptor; a pointer may be any.
Available ==
  {h \in Handles : owner[h] = Nobody /\
     (plugin \in Descriptors => \A g \in 0 .. h - 1 : owner[g] # Nobody)}

\* d closes h.  A descriptor that is not open is refused with EBADF.
CloseHandle(d, h) ==
  IF h = Null \/ h \in Way.spares THEN UNCHANGED <<owner, astray>>
  ELSE /\ owner' = [owner EXCEPT ![h] = Nobody]
       /\ astray' = (astray \/ ~(\/ owner[h] = d
                                 \/ owner[h] = Nobody /\ plugin \in Descriptors))

NoHandles == UNCHANGED <<plugin, stream, owner, astray, crashed>>

Create(d) == Contract!Create(d) /\ NoHandles /\ UNCHANGED handle

\* ao_plugin_device_init.
Initialise(d) ==
  /\ Contract!Initialise(d)
  /\ IF st'[d] = "ready"
     THEN \E h \in Way.fresh : handle' = [handle EXCEPT ![d] = h]
     ELSE UNCHANGED handle
  /\ NoHandles

\* The core fails between device_init and open: a bad option or matrix.
Abandon(d) == Contract!Abandon(d) /\ NoHandles /\ UNCHANGED handle

\* ao_plugin_open returns 0 and has acquired nothing.
OpenRefused(d) ==
  /\ Contract!Abandon(d)
  /\ \/ handle' = [handle EXCEPT ![d] = Null]
     \/ Way.untouched /\ UNCHANGED handle
  /\ NoHandles

\* ao_plugin_open returns 0 after it acquired h.
OpenFails(d, h) ==
  /\ Contract!Abandon(d) /\ h \in Available
  /\ Way.later # "none"
  /\ handle' = [handle EXCEPT ![d] = h]
  /\ IF Way.later = "leaves" THEN owner' = [owner EXCEPT ![h] = d] ELSE UNCHANGED owner
  /\ UNCHANGED <<plugin, stream, astray, crashed>>

Open(d, h) ==
  /\ Contract!Open(d) /\ h \in Available
  /\ handle' = [handle EXCEPT ![d] = h] /\ owner' = [owner EXCEPT ![h] = d]
  /\ stream' = [stream EXCEPT ![d] = plugin = "roar"]
  /\ UNCHANGED <<plugin, astray, crashed>>

\* ao_plugin_play, on whatever the handle stands for now.
Play(d) ==
  /\ st[d] = "open"
  /\ astray' = (astray \/ owner[handle[d]] # d)
  /\ UNCHANGED <<plugin, st, handle, stream, owner, crashed>>

\* ao_plugin_close looks at device->internal, which no plugin checks.
Close(d) ==
  /\ Contract!Close(d) /\ handle[d] # NoInternal
  /\ IF "close" \in Way.closes THEN CloseHandle(d, handle[d])
                               ELSE UNCHANGED <<owner, astray>>
  /\ handle' = IF Way.resets THEN [handle EXCEPT ![d] = Null] ELSE handle
  /\ stream' = [stream EXCEPT ![d] = FALSE]
  /\ UNCHANGED <<plugin, crashed>>

CloseCrashes(d) ==
  /\ Contract!Close(d) /\ handle[d] = NoInternal /\ crashed' = TRUE
  /\ UNCHANGED <<plugin, handle, stream, owner, astray>>

\* ao_plugin_device_clear frees the structure.
Clear(d) ==
  /\ Contract!Clear(d)
  /\ IF "clear" \in Way.closes THEN CloseHandle(d, handle[d])
                               ELSE UNCHANGED <<owner, astray>>
  /\ handle' = [handle EXCEPT ![d] = NoInternal]
  /\ UNCHANGED <<plugin, stream, crashed>>

FreeDevice(d) == Contract!Free(d) /\ NoHandles /\ UNCHANGED handle

\* The application's other threads.
AppOpens(h) ==
  /\ h \in Available /\ owner' = [owner EXCEPT ![h] = App]
  /\ UNCHANGED <<plugin, st, handle, stream, astray, crashed>>

AppCloses(h) ==
  /\ owner[h] = App /\ owner' = [owner EXCEPT ![h] = Nobody]
  /\ UNCHANGED <<plugin, st, handle, stream, astray, crashed>>
-----------------------------------------------------------------------------
Driver(d) ==
  \/ Create(d) \/ Initialise(d) \/ Abandon(d) \/ OpenRefused(d)
  \/ \E h \in Handles : OpenFails(d, h) \/ Open(d, h)
  \/ Play(d) \/ Close(d) \/ CloseCrashes(d) \/ Clear(d) \/ FreeDevice(d)

HandleNext ==
  /\ ~crashed
  /\ \/ \E d \in Devices : Driver(d)
     \/ \E h \in Handles : AppOpens(h) \/ AppCloses(h)

HandleSpec == HandleInit /\ [][HandleNext]_handleVars
-----------------------------------------------------------------------------
(* What should hold. *)

HandleTypeOK ==
  /\ plugin \in Plugins /\ st \in [Devices -> Contract!ContractStates]
  /\ handle \in [Devices -> Handles \cup {Null, NoInternal}]
  /\ stream \in [Devices -> BOOLEAN]
  /\ owner \in [Handles -> Devices \cup {Nobody, App}]
  /\ astray \in BOOLEAN /\ crashed \in BOOLEAN

\* However the open ended, once device_clear has returned the device has no
\* handle and no stream any more, but for descriptor 0 of aixs, which its close
\* takes for none.
NothingLeaks ==
  \A d \in Devices : st[d] \in {"cleared", "none"} =>
    ~stream[d] /\ \A h \in Handles \ Way.spares : owner[h] # d

\* A tidy plugin never plays on or closes a handle that another device or
\* the application has by now.
NeverAstray == Tidy => ~astray
=============================================================================
