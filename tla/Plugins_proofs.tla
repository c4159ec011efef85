---------------------------- MODULE Plugins_proofs ----------------------------
(***************************************************************************)
(* Proofs about the simple plugins.                                        *)
(*                                                                         *)
(* DriverHandle, for any number of devices and handles and any set of the  *)
(* eight plugins: types, that no handle leaks, and that a tidy plugin      *)
(* never touches a handle that is not its own.                             *)
(*                                                                         *)
(* PlayStreams, for every set of drivers and any size of a piece, a block, *)
(* a frame, a chunk and the server's buffer: types, that esd writes whole  *)
(* blocks, and that every driver gives away its bytes in order.            *)
(***************************************************************************)
EXTENDS DriverHandle, PlayStreams, SequenceTheorems, TLAPS

(* Handles.  The inductive invariant says who owns what: a handle that     *)
(* belongs to a device is the one in its structure, and the callback that  *)
(* closes it is still to come; with a tidy plugin the converse holds too,  *)
(* so that the structure never names a handle the device does not own.     *)

\* The callback that closes the handle has not been called yet.
ToBeClosed(d) ==
  st[d] \in {"failed", "open"} \/ (st[d] = "closed" /\ "clear" \in Way.closes)

DeviceInv ==
  \A d \in Devices :
    /\ st[d] \in {"none", "born", "cleared"} => handle[d] = NoInternal
    /\ st[d] = "open" => handle[d] \in Handles
    /\ st[d] = "closed" /\ ~crashed => handle[d] # NoInternal
    /\ stream[d] => st[d] = "open"

OwnerInv ==
  \A d \in Devices, h \in Handles \ Way.spares : owner[h] = d => handle[d] = h /\ ToBeClosed(d)

CareInv ==
  Tidy => ~astray /\ \A d \in Devices : handle[d] \in Handles => owner[handle[d]] = d

HandleInv == HandleTypeOK /\ DeviceInv /\ OwnerInv /\ CareInv
-----------------------------------------------------------------------------
\* What the ways of the plugins have in common: one callback closes the handle,
\* and a plugin that does not reset it in close is not tidy or only stops.
WayInv(way) ==
  /\ way.fresh \subseteq Handles \cup {Null}
  /\ way.closes = {"close"} \/ way.closes = {"clear"}
  /\ way.resets \in BOOLEAN /\ way.later \in {"closes", "leaves", "none"}
  /\ way.fresh = {Null} /\ way.later # "closes" /\ way.closes = {"close"} => way.resets
  /\ way.closes = {"clear"} => ~way.resets
  /\ way.fresh = {Null} /\ way.later # "closes" => way.spares = {}

\* The eight records of DriverHandle are such ways.
LEMMA Ways == ASSUME HandleTypeOK PROVE WayInv(Way)
<1>0. plugin \in {"oss", "sun", "aixs", "nas", "irix", "sndio", "roar", "pulse"}
  BY HandleAssumption DEF HandleTypeOK
<1>1. 0 \in Handles /\ Null \in Handles \cup {Null}
  BY HandleAssumption DEF Handles
<1>2. CASE plugin = "oss"
  <2>1. Way = Oss
    BY <1>2 DEF Way
  <2>2. WayInv(Oss)
    BY <1>1 DEF WayInv, Oss
  <2>3. QED
    BY <2>1, <2>2
<1>3. CASE plugin = "sun"
  <2>1. Way = Sun
    BY <1>3 DEF Way
  <2>2. WayInv(Sun)
    BY <1>1 DEF WayInv, Sun
  <2>3. QED
    BY <2>1, <2>2
<1>4. CASE plugin = "nas"
  <2>1. Way = Nas
    BY <1>4 DEF Way
  <2>2. WayInv(Nas)
    BY <1>1 DEF WayInv, Nas
  <2>3. QED
    BY <2>1, <2>2
<1>5. CASE plugin = "irix"
  <2>1. Way = Irix
    BY <1>5 DEF Way
  <2>2. WayInv(Irix)
    BY <1>1 DEF WayInv, Irix
  <2>3. QED
    BY <2>1, <2>2
<1>6. CASE plugin = "sndio"
  <2>1. Way = Sndio
    BY <1>6 DEF Way
  <2>2. WayInv(Sndio)
    BY <1>1 DEF WayInv, Sndio
  <2>3. QED
    BY <2>1, <2>2
<1>7. CASE plugin = "roar"
  <2>1. Way = Roar
    BY <1>7 DEF Way
  <2>2. WayInv(Roar)
    BY <1>1 DEF WayInv, Roar
  <2>3. QED
    BY <2>1, <2>2
<1>8. CASE plugin = "pulse"
  <2>1. Way = Pulse
    BY <1>8 DEF Way
  <2>2. WayInv(Pulse)
    BY <1>1 DEF WayInv, Pulse
  <2>3. QED
    BY <2>1, <2>2
<1>9. CASE plugin = "aixs"
  <2>1. Way = Aixs
    BY <1>9 DEF Way
  <2>2. WayInv(Aixs)
    BY <1>1 DEF WayInv, Aixs
  <2>3. QED
    BY <2>1, <2>2
<1>10. QED
  BY <1>0, <1>2, <1>3, <1>4, <1>5, <1>6, <1>7, <1>8, <1>9

\* A step that keeps the plugin keeps its way.
LEMMA WayFixed == ASSUME plugin' = plugin PROVE Way' = Way /\ (Tidy' <=> Tidy)
  BY DEF Way, Tidy, Oss, Sun, Aixs, Nas, Irix, Sndio, Roar, Pulse
-----------------------------------------------------------------------------
(* Initial states and steps. *)

\* At first no device has a structure and every handle is the application's or free.
LEMMA HandleInitially == HandleInit => HandleInv
<1> SUFFICES ASSUME HandleInit PROVE HandleInv
  OBVIOUS
<1> USE HandleAssumption DEF HandleInit, Contract!ContractInit
<1>1. HandleTypeOK
  BY DEF HandleTypeOK, Contract!ContractStates
<1>2. DeviceInv
  BY DEF DeviceInv
<1>3. OwnerInv
  BY DEF OwnerInv
<1>4. CareInv
  BY DEF CareInv, Handles
<1>5. QED
  BY <1>1, <1>2, <1>3, <1>4 DEF HandleInv

\* _create_device gives the driver nothing yet.
LEMMA CreateKeeps == ASSUME HandleInv, NEW d \in Devices, Create(d) PROVE HandleInv'
<1>1. /\ HandleTypeOK /\ DeviceInv /\ OwnerInv /\ CareInv
      /\ WayInv(Way) /\ Way' = Way /\ (Tidy' <=> Tidy)
  BY Ways, WayFixed DEF HandleInv, Create, NoHandles, Contract!Create, Contract!Move
<1> USE HandleAssumption
<1>2. HandleTypeOK'
  BY <1>1
  DEF HandleTypeOK, Contract!ContractStates, WayInv, Create, NoHandles,
      Contract!Create, Contract!Move
<1>3. DeviceInv'
  BY <1>1
  DEF HandleTypeOK, DeviceInv, Handles, Create, NoHandles, Contract!Create,
      Contract!Move
<1>4. OwnerInv'
  BY <1>1
  DEF HandleTypeOK, DeviceInv, OwnerInv, ToBeClosed, WayInv, Handles, Create,
      NoHandles, Contract!Create, Contract!Move
<1>5. CareInv'
  BY <1>1
  DEF HandleTypeOK, DeviceInv, OwnerInv, ToBeClosed, CareInv, Tidy, WayInv,
      Handles, Create, NoHandles, Contract!Create, Contract!Move
<1>6. QED
  BY <1>2, <1>3, <1>4, <1>5 DEF HandleInv

\* device_init leaves a handle that the device does not own, if any.
LEMMA InitialiseKeeps == ASSUME HandleInv, NEW d \in Devices, Initialise(d) PROVE HandleInv'
<1>1. /\ HandleTypeOK /\ DeviceInv /\ OwnerInv /\ CareInv
      /\ WayInv(Way) /\ Way' = Way /\ (Tidy' <=> Tidy)
  BY Ways, WayFixed
  DEF HandleInv, Initialise, NoHandles, Contract!Initialise, Contract!Move
<1> USE HandleAssumption
<1>2. HandleTypeOK'
  BY <1>1
  DEF HandleTypeOK, Contract!ContractStates, WayInv, Initialise, NoHandles,
      Contract!Initialise, Contract!Move
<1>3. DeviceInv'
  BY <1>1
  DEF HandleTypeOK, DeviceInv, Handles, Initialise, NoHandles, Contract!Initialise,
      Contract!Move
<1>4. OwnerInv'
  BY <1>1
  DEF HandleTypeOK, DeviceInv, OwnerInv, ToBeClosed, WayInv, Handles, Initialise,
      NoHandles, Contract!Initialise, Contract!Move
<1>5. CareInv'
  BY <1>1
  DEF HandleTypeOK, DeviceInv, OwnerInv, ToBeClosed, CareInv, Tidy, WayInv,
      Handles, Initialise, NoHandles, Contract!Initialise, Contract!Move
<1>6. QED
  BY <1>2, <1>3, <1>4, <1>5 DEF HandleInv

\* A failure of the core between device_init and open changes no handle.
LEMMA AbandonKeeps == ASSUME HandleInv, NEW d \in Devices, Abandon(d) PROVE HandleInv'
<1>1. /\ HandleTypeOK /\ DeviceInv /\ OwnerInv /\ CareInv
      /\ WayInv(Way) /\ Way' = Way /\ (Tidy' <=> Tidy)
  BY Ways, WayFixed
  DEF HandleInv, Abandon, NoHandles, Contract!Abandon, Contract!Move
<1> USE HandleAssumption
<1>2. HandleTypeOK'
  BY <1>1
  DEF HandleTypeOK, Contract!ContractStates, WayInv, Abandon, NoHandles,
      Contract!Abandon, Contract!Move
<1>3. DeviceInv'
  BY <1>1
  DEF HandleTypeOK, DeviceInv, Handles, Abandon, NoHandles, Contract!Abandon,
      Contract!Move
<1>4. OwnerInv'
  BY <1>1
  DEF HandleTypeOK, DeviceInv, OwnerInv, ToBeClosed, WayInv, Handles, Abandon,
      NoHandles, Contract!Abandon, Contract!Move
<1>5. CareInv'
  BY <1>1
  DEF HandleTypeOK, DeviceInv, OwnerInv, ToBeClosed, CareInv, Tidy, WayInv,
      Handles, Abandon, NoHandles, Contract!Abandon, Contract!Move
<1>6. QED
  BY <1>2, <1>3, <1>4, <1>5 DEF HandleInv

\* An open that got no handle leaves NULL or what was there.
LEMMA OpenRefusedKeeps ==
  ASSUME HandleInv, NEW d \in Devices, OpenRefused(d) PROVE HandleInv'
<1>1. /\ HandleTypeOK /\ DeviceInv /\ OwnerInv /\ CareInv
      /\ WayInv(Way) /\ Way' = Way /\ (Tidy' <=> Tidy)
  BY Ways, WayFixed
  DEF HandleInv, OpenRefused, NoHandles, Contract!Abandon, Contract!Move
<1> USE HandleAssumption
<1>2. HandleTypeOK'
  BY <1>1
  DEF HandleTypeOK, Contract!ContractStates, WayInv, OpenRefused, NoHandles,
      Contract!Abandon, Contract!Move
<1>3. DeviceInv'
  BY <1>1
  DEF HandleTypeOK, DeviceInv, Handles, OpenRefused, NoHandles, Contract!Abandon,
      Contract!Move
<1>4. OwnerInv'
  BY <1>1
  DEF HandleTypeOK, DeviceInv, OwnerInv, ToBeClosed, WayInv, Handles, OpenRefused,
      NoHandles, Contract!Abandon, Contract!Move
<1>5. CareInv'
  BY <1>1
  DEF HandleTypeOK, DeviceInv, OwnerInv, ToBeClosed, CareInv, Tidy, WayInv,
      Handles, OpenRefused, NoHandles, Contract!Abandon, Contract!Move
<1>6. QED
  BY <1>2, <1>3, <1>4, <1>5 DEF HandleInv

\* An open that fails later has closed its handle or left it to the callbacks.
LEMMA OpenFailsKeeps ==
  ASSUME HandleInv, NEW d \in Devices, NEW h \in Handles, OpenFails(d, h)
  PROVE  HandleInv'
<1>1. /\ HandleTypeOK /\ DeviceInv /\ OwnerInv /\ CareInv
      /\ WayInv(Way) /\ Way' = Way /\ (Tidy' <=> Tidy)
  BY Ways, WayFixed
  DEF HandleInv, OpenFails, Available, Contract!Abandon, Contract!Move
<1> USE HandleAssumption
<1>2. HandleTypeOK'
  BY <1>1
  DEF HandleTypeOK, Contract!ContractStates, WayInv, OpenFails, Available,
      Contract!Abandon, Contract!Move
<1>3. DeviceInv'
  BY <1>1
  DEF HandleTypeOK, DeviceInv, Handles, OpenFails, Available, Contract!Abandon,
      Contract!Move
<1>4. OwnerInv'
  BY <1>1
  DEF HandleTypeOK, DeviceInv, OwnerInv, ToBeClosed, WayInv, Handles, OpenFails,
      Available, Contract!Abandon, Contract!Move
<1>5. CareInv'
  BY <1>1
  DEF HandleTypeOK, DeviceInv, OwnerInv, ToBeClosed, CareInv, Tidy, WayInv,
      Handles, OpenFails, Available, Contract!Abandon, Contract!Move
<1>6. QED
  BY <1>2, <1>3, <1>4, <1>5 DEF HandleInv

\* A successful open gives the device a handle of its own.
LEMMA OpenKeeps ==
  ASSUME HandleInv, NEW d \in Devices, NEW h \in Handles, Open(d, h)
  PROVE  HandleInv'
<1>1. /\ HandleTypeOK /\ DeviceInv /\ OwnerInv /\ CareInv
      /\ WayInv(Way) /\ Way' = Way /\ (Tidy' <=> Tidy)
  BY Ways, WayFixed DEF HandleInv, Open, Available, Contract!Open, Contract!Move
<1> USE HandleAssumption
<1>2. HandleTypeOK'
  BY <1>1
  DEF HandleTypeOK, Contract!ContractStates, WayInv, Open, Available,
      Contract!Open, Contract!Move
<1>3. DeviceInv'
  BY <1>1
  DEF HandleTypeOK, DeviceInv, Handles, Open, Available, Contract!Open,
      Contract!Move
<1>4. OwnerInv'
  BY <1>1
  DEF HandleTypeOK, DeviceInv, OwnerInv, ToBeClosed, WayInv, Handles, Open,
      Available, Contract!Open, Contract!Move
<1>5. CareInv'
  BY <1>1
  DEF HandleTypeOK, DeviceInv, OwnerInv, ToBeClosed, CareInv, Tidy, WayInv,
      Handles, Open, Available, Contract!Open, Contract!Move
<1>6. QED
  BY <1>2, <1>3, <1>4, <1>5 DEF HandleInv

\* Play uses the handle the device owns.
LEMMA PlayKeeps == ASSUME HandleInv, NEW d \in Devices, Play(d) PROVE HandleInv'
<1>1. /\ HandleTypeOK /\ DeviceInv /\ OwnerInv /\ CareInv
      /\ WayInv(Way) /\ Way' = Way /\ (Tidy' <=> Tidy)
  BY Ways, WayFixed DEF HandleInv, Play
<1> USE HandleAssumption
<1>2. HandleTypeOK'
  BY <1>1 DEF HandleTypeOK, Contract!ContractStates, WayInv, Play
<1>3. DeviceInv'
  BY <1>1 DEF HandleTypeOK, DeviceInv, Handles, Play
<1>4. OwnerInv'
  BY <1>1 DEF HandleTypeOK, DeviceInv, OwnerInv, ToBeClosed, WayInv, Handles, Play
<1>5. CareInv'
  BY <1>1
  DEF HandleTypeOK, DeviceInv, OwnerInv, ToBeClosed, CareInv, Tidy, WayInv,
      Handles, Play
<1>6. QED
  BY <1>2, <1>3, <1>4, <1>5 DEF HandleInv

\* close gives the handle back, or leaves it to device_clear.
LEMMA CloseKeeps == ASSUME HandleInv, NEW d \in Devices, Close(d) PROVE HandleInv'
<1>1. /\ HandleTypeOK /\ DeviceInv /\ OwnerInv /\ CareInv
      /\ WayInv(Way) /\ Way' = Way /\ (Tidy' <=> Tidy)
  BY Ways, WayFixed DEF HandleInv, Close, CloseHandle, Contract!Close, Contract!Move
<1> USE HandleAssumption
<1>2. HandleTypeOK'
  BY <1>1
  DEF HandleTypeOK, Contract!ContractStates, WayInv, Close, CloseHandle,
      Contract!Close, Contract!Move
<1>3. DeviceInv'
  BY <1>1
  DEF HandleTypeOK, DeviceInv, Handles, Close, CloseHandle, Contract!Close,
      Contract!Move
<1>4. OwnerInv'
  BY <1>1
  DEF HandleTypeOK, DeviceInv, OwnerInv, ToBeClosed, WayInv, Handles, Close,
      CloseHandle, Contract!Close, Contract!Move
<1>5. CareInv'
  BY <1>1
  DEF HandleTypeOK, DeviceInv, OwnerInv, ToBeClosed, CareInv, Tidy, WayInv,
      Handles, Close, CloseHandle, Contract!Close, Contract!Move
<1>6. QED
  BY <1>2, <1>3, <1>4, <1>5 DEF HandleInv

\* Where close crashes, no handle is touched.
LEMMA CloseCrashesKeeps ==
  ASSUME HandleInv, NEW d \in Devices, CloseCrashes(d) PROVE HandleInv'
<1>1. /\ HandleTypeOK /\ DeviceInv /\ OwnerInv /\ CareInv
      /\ WayInv(Way) /\ Way' = Way /\ (Tidy' <=> Tidy)
  BY Ways, WayFixed DEF HandleInv, CloseCrashes, Contract!Close, Contract!Move
<1> USE HandleAssumption
<1>2. HandleTypeOK'
  BY <1>1
  DEF HandleTypeOK, Contract!ContractStates, WayInv, CloseCrashes, Contract!Close,
      Contract!Move
<1>3. DeviceInv'
  BY <1>1
  DEF HandleTypeOK, DeviceInv, Handles, CloseCrashes, Contract!Close, Contract!Move
<1>4. OwnerInv'
  BY <1>1
  DEF HandleTypeOK, DeviceInv, OwnerInv, ToBeClosed, WayInv, Handles, CloseCrashes,
      Contract!Close, Contract!Move
<1>5. CareInv'
  BY <1>1
  DEF HandleTypeOK, DeviceInv, OwnerInv, ToBeClosed, CareInv, Tidy, WayInv,
      Handles, CloseCrashes, Contract!Close, Contract!Move
<1>6. QED
  BY <1>2, <1>3, <1>4, <1>5 DEF HandleInv

\* device_clear gives the handle back if close did not.
LEMMA ClearKeeps == ASSUME HandleInv, NEW d \in Devices, ~crashed, Clear(d) PROVE HandleInv'
<1>1. /\ HandleTypeOK /\ DeviceInv /\ OwnerInv /\ CareInv
      /\ WayInv(Way) /\ Way' = Way /\ (Tidy' <=> Tidy)
  BY Ways, WayFixed DEF HandleInv, Clear, CloseHandle, Contract!Clear, Contract!Move
<1> USE HandleAssumption
<1>2. HandleTypeOK'
  BY <1>1
  DEF HandleTypeOK, Contract!ContractStates, WayInv, Clear, CloseHandle,
      Contract!Clear, Contract!Move
<1>3. DeviceInv'
  BY <1>1
  DEF HandleTypeOK, DeviceInv, Handles, Clear, CloseHandle, Contract!Clear,
      Contract!Move
<1>4. OwnerInv'
  BY <1>1
  DEF HandleTypeOK, DeviceInv, OwnerInv, ToBeClosed, WayInv, Handles, Clear,
      CloseHandle, Contract!Clear, Contract!Move
<1>5. CareInv'
  BY <1>1
  DEF HandleTypeOK, DeviceInv, OwnerInv, ToBeClosed, CareInv, Tidy, WayInv,
      Handles, Clear, CloseHandle, Contract!Clear, Contract!Move
<1>6. QED
  BY <1>2, <1>3, <1>4, <1>5 DEF HandleInv

\* free(device) touches no handle.
LEMMA FreeDeviceKeeps == ASSUME HandleInv, NEW d \in Devices, FreeDevice(d) PROVE HandleInv'
<1>1. /\ HandleTypeOK /\ DeviceInv /\ OwnerInv /\ CareInv
      /\ WayInv(Way) /\ Way' = Way /\ (Tidy' <=> Tidy)
  BY Ways, WayFixed
  DEF HandleInv, FreeDevice, NoHandles, Contract!Free, Contract!Move
<1> USE HandleAssumption
<1>2. HandleTypeOK'
  BY <1>1
  DEF HandleTypeOK, Contract!ContractStates, WayInv, FreeDevice, NoHandles,
      Contract!Free, Contract!Move
<1>3. DeviceInv'
  BY <1>1
  DEF HandleTypeOK, DeviceInv, Handles, FreeDevice, NoHandles, Contract!Free,
      Contract!Move
<1>4. OwnerInv'
  BY <1>1
  DEF HandleTypeOK, DeviceInv, OwnerInv, ToBeClosed, WayInv, Handles, FreeDevice,
      NoHandles, Contract!Free, Contract!Move
<1>5. CareInv'
  BY <1>1
  DEF HandleTypeOK, DeviceInv, OwnerInv, ToBeClosed, CareInv, Tidy, WayInv,
      Handles, FreeDevice, NoHandles, Contract!Free, Contract!Move
<1>6. QED
  BY <1>2, <1>3, <1>4, <1>5 DEF HandleInv

\* The application gets free handles only.
LEMMA AppOpensKeeps == ASSUME HandleInv, NEW h \in Handles, AppOpens(h) PROVE HandleInv'
<1>1. /\ HandleTypeOK /\ DeviceInv /\ OwnerInv /\ CareInv
      /\ WayInv(Way) /\ Way' = Way /\ (Tidy' <=> Tidy)
  BY Ways, WayFixed DEF HandleInv, AppOpens, Available
<1> USE HandleAssumption
<1>2. HandleTypeOK'
  BY <1>1 DEF HandleTypeOK, Contract!ContractStates, WayInv, AppOpens, Available
<1>3. DeviceInv'
  BY <1>1 DEF HandleTypeOK, DeviceInv, Handles, AppOpens, Available
<1>4. OwnerInv'
  BY <1>1
  DEF HandleTypeOK, DeviceInv, OwnerInv, ToBeClosed, WayInv, Handles, AppOpens,
      Available
<1>5. CareInv'
  BY <1>1
  DEF HandleTypeOK, DeviceInv, OwnerInv, ToBeClosed, CareInv, Tidy, WayInv,
      Handles, AppOpens, Available
<1>6. QED
  BY <1>2, <1>3, <1>4, <1>5 DEF HandleInv

\* The application closes handles of its own only.
LEMMA AppClosesKeeps == ASSUME HandleInv, NEW h \in Handles, AppCloses(h) PROVE HandleInv'
<1>1. /\ HandleTypeOK /\ DeviceInv /\ OwnerInv /\ CareInv
      /\ WayInv(Way) /\ Way' = Way /\ (Tidy' <=> Tidy)
  BY Ways, WayFixed DEF HandleInv, AppCloses
<1> USE HandleAssumption
<1>2. HandleTypeOK'
  BY <1>1 DEF HandleTypeOK, Contract!ContractStates, WayInv, AppCloses
<1>3. DeviceInv'
  BY <1>1 DEF HandleTypeOK, DeviceInv, Handles, AppCloses
<1>4. OwnerInv'
  BY <1>1
  DEF HandleTypeOK, DeviceInv, OwnerInv, ToBeClosed, WayInv, Handles, AppCloses
<1>5. CareInv'
  BY <1>1
  DEF HandleTypeOK, DeviceInv, OwnerInv, ToBeClosed, CareInv, Tidy, WayInv,
      Handles, AppCloses
<1>6. QED
  BY <1>2, <1>3, <1>4, <1>5 DEF HandleInv

\* Nor does a step that changes nothing.
LEMMA HandleStutterKeeps == ASSUME HandleInv, UNCHANGED handleVars PROVE HandleInv'
<1>1. Way' = Way /\ (Tidy' <=> Tidy)
  BY WayFixed DEF handleVars
<1>2. QED
  BY <1>1 DEF handleVars, HandleInv, HandleTypeOK, DeviceInv, OwnerInv, ToBeClosed, CareInv

\* No step of a plugin, the core or the application disturbs the invariant.
LEMMA HandleInductive == HandleInv /\ [HandleNext]_handleVars => HandleInv'
<1> SUFFICES ASSUME HandleInv, [HandleNext]_handleVars PROVE HandleInv'
  OBVIOUS
<1>1. ASSUME NEW d \in Devices, ~crashed, Create(d) PROVE HandleInv'
  BY <1>1, CreateKeeps
<1>2. ASSUME NEW d \in Devices, ~crashed, Initialise(d) PROVE HandleInv'
  BY <1>2, InitialiseKeeps
<1>3. ASSUME NEW d \in Devices, ~crashed, Abandon(d) PROVE HandleInv'
  BY <1>3, AbandonKeeps
<1>4. ASSUME NEW d \in Devices, ~crashed, OpenRefused(d) PROVE HandleInv'
  BY <1>4, OpenRefusedKeeps
<1>5. ASSUME NEW d \in Devices, NEW h \in Handles, ~crashed, OpenFails(d, h) PROVE HandleInv'
  BY <1>5, OpenFailsKeeps
<1>6. ASSUME NEW d \in Devices, NEW h \in Handles, ~crashed, Open(d, h) PROVE HandleInv'
  BY <1>6, OpenKeeps
<1>7. ASSUME NEW d \in Devices, ~crashed, Play(d) PROVE HandleInv'
  BY <1>7, PlayKeeps
<1>8. ASSUME NEW d \in Devices, ~crashed, Close(d) PROVE HandleInv'
  BY <1>8, CloseKeeps
<1>9. ASSUME NEW d \in Devices, ~crashed, CloseCrashes(d) PROVE HandleInv'
  BY <1>9, CloseCrashesKeeps
<1>10. ASSUME NEW d \in Devices, ~crashed, Clear(d) PROVE HandleInv'
  BY <1>10, ClearKeeps
<1>11. ASSUME NEW d \in Devices, ~crashed, FreeDevice(d) PROVE HandleInv'
  BY <1>11, FreeDeviceKeeps
<1>12. ASSUME NEW h \in Handles, ~crashed, AppOpens(h) PROVE HandleInv'
  BY <1>12, AppOpensKeeps
<1>13. ASSUME NEW h \in Handles, ~crashed, AppCloses(h) PROVE HandleInv'
  BY <1>13, AppClosesKeeps
<1>14. CASE UNCHANGED handleVars
  BY <1>14, HandleStutterKeeps
<1>15. QED
  BY <1>1, <1>2, <1>3, <1>4, <1>5, <1>6, <1>7,
     <1>8, <1>9, <1>10, <1>11, <1>12, <1>13, <1>14
  DEF HandleNext, Driver
-----------------------------------------------------------------------------
(* What follows. *)

\* The invariant holds in every reachable state.
LEMMA HandleInvariance == HandleSpec => []HandleInv
<1>1. HandleInit => HandleInv
  BY HandleInitially
<1>2. HandleInv /\ [HandleNext]_handleVars => HandleInv'
  BY HandleInductive
<1>3. QED
  BY <1>1, <1>2, PTL DEF HandleSpec

\* The variables keep their types with any number of devices and handles.
THEOREM HandleTypesCorrect == HandleSpec => []HandleTypeOK
<1>1. HandleInv => HandleTypeOK
  BY DEF HandleInv
<1>2. QED
  BY <1>1, HandleInvariance, PTL

\* Whatever failed before, a device that was cleared owns no handle and no
\* stream: the callback that closes the handle comes before device_clear returns.
THEOREM LeaksNothing == HandleSpec => []NothingLeaks
<1>1. HandleInv => NothingLeaks
  BY DEF HandleInv, HandleTypeOK, DeviceInv, OwnerInv, ToBeClosed, NothingLeaks
<1>2. QED
  BY <1>1, HandleInvariance, PTL

\* sndio, roar and pulse never play on or close what another device or the
\* application owns, however many devices there are and whatever fails.
THEOREM StraysNever == HandleSpec => []NeverAstray
<1>1. HandleInv => NeverAstray
  BY DEF HandleInv, CareInv, NeverAstray
<1>2. QED
  BY <1>1, HandleInvariance, PTL
-----------------------------------------------------------------------------
(* Streams. *)

\* The i-th byte an esd daemon reads: the application's, then silence.
Sound(i) == IF i <= taken THEN i ELSE 0

\* How much of what was taken has been written.
Reach == IF Len(out) <= taken THEN Len(out) ELSE taken

\* The stages of a driver.
StageInv ==
  /\ pc = "pieces" => driver = "oss"
  /\ pc = "call" => driver \in OneCall
  /\ pc = "flow" => driver = "nas"
  /\ pc \in {"flush", "blocks", "last"} => driver = "esd"
  /\ pc \notin {"pieces", "call", "flow", "flush", "blocks"} => left = 0
  /\ driver # "esd" => fill = <<>> /\ writing = <<>>

\* Drivers without a buffer write what they have taken, a part of it or, when
\* careful, all that is not left.
DirectInv ==
  driver # "esd" =>
    /\ left <= taken
    /\ \A i \in 1 .. Len(out) : out[i] \in 1 .. taken - left
    /\ \A i, j \in 1 .. Len(out) : i < j => out[i] < out[j]
    /\ Careful =>
         /\ Len(out) <= taken - left /\ \A i \in 1 .. Len(out) : out[i] = i
         /\ pc \notin {"failed", "closed"} => Len(out) = taken - left

\* esd writes blocks, from bugbuffer and behind it from the caller.
Sent == Len(out) + Len(writing)

EsdInv ==
  driver = "esd" =>
    /\ taken + left <= MaxBytes
    /\ \A i \in 1 .. Len(out) : out[i] = Sound(i)
    /\ \A i \in 1 .. Len(writing) : writing[i] = Sound(Len(out) + i)
    /\ alive => Sent % Block = 0
    /\ writing # <<>> => alive /\ pc \in {"flush", "blocks", "last"}
    /\ pc \in {"none", "open", "flush", "blocks"} => alive
    /\ pc = "failed" => ~alive
    /\ pc \notin {"last", "closed"} => Sent <= taken
    /\ pc \in {"none", "refused"} => fill = <<>> /\ taken = 0
    /\ pc \in {"last", "closed"} => fill = <<>>
    /\ pc = "flush" => Sent = taken
    /\ pc \in {"none", "open", "blocks"} =>
         /\ Len(fill) < Block /\ Sent + Len(fill) = taken
         /\ \A i \in 1 .. Len(fill) : fill[i] = Sent + i
    /\ pc = "blocks" /\ (left > 0 \/ writing # <<>>) => fill = <<>>

StreamInv == TypeOK /\ StageInv /\ DirectInv /\ EsdInv
-----------------------------------------------------------------------------
(* Numbers and sequences. *)

\* What the assumptions say of the sizes.
LEMMA Constants ==
  /\ Block \in Nat /\ Block > 0 /\ MaxBytes \in Nat /\ FrameBytes \in Nat \ {0}
  /\ Piece \in Nat /\ NasBuffer \in Nat /\ NasBuffer > 1 /\ 0 \in Byte
  /\ \A n \in Chunks : n \in Nat /\ n > 0
BY StreamAssumption, EsdAssumption, NasAssumption DEF Byte

\* What the types say of the variables, as facts about numbers.
LEMMA Numbers ==
  ASSUME TypeOK
  PROVE  /\ left \in Nat /\ taken \in Nat /\ taken <= MaxBytes /\ Len(out) \in Nat
         /\ Len(fill) \in Nat /\ Len(writing) \in Nat /\ Sent \in Nat
         /\ Len(fill) <= Block /\ Len(writing) <= Block
         /\ out \in Seq(Byte) /\ fill \in Seq(Byte) /\ writing \in Seq(Byte)
<1>1. /\ left \in Nat /\ taken \in Nat /\ taken <= MaxBytes
      /\ Len(fill) <= Block /\ Len(writing) <= Block
      /\ out \in Seq(Byte) /\ fill \in Seq(Byte) /\ writing \in Seq(Byte)
  BY Constants DEF TypeOK
<1>2. Len(out) \in Nat /\ Len(fill) \in Nat /\ Len(writing) \in Nat
  BY <1>1, LenProperties
<1>3. QED
  BY <1>1, <1>2 DEF Sent

\* Bytes numbered from k + 1.
LEMMA Numbered ==
  ASSUME NEW k \in Nat, NEW n \in Nat, k + n <= MaxBytes
  PROVE  /\ [i \in 1 .. n |-> k + i] \in Seq(Byte) /\ Len([i \in 1 .. n |-> k + i]) = n
         /\ \A i \in 1 .. n : [j \in 1 .. n |-> k + j][i] = k + i
<1>1. \A i \in 1 .. n : k + i \in Byte
  BY Constants DEF Byte
<1>2. QED
  BY <1>1

\* The bytes esd takes are numbered behind those taken.
LEMMA SamplesAre ==
  ASSUME TypeOK, NEW n \in Nat, taken + n <= MaxBytes
  PROVE  /\ Samples(n) \in Seq(Byte) /\ Len(Samples(n)) = n
         /\ \A i \in 1 .. n : Samples(n)[i] = taken + i
BY Numbers, Numbered DEF Samples

\* The bytes a driver writes are the first of those left.
LEMMA NextBytesAre ==
  ASSUME TypeOK, left <= taken, NEW k \in Nat, k <= left
  PROVE  /\ NextBytes(k) \in Seq(Byte) /\ Len(NextBytes(k)) = k
         /\ \A i \in 1 .. k : NextBytes(k)[i] = taken - left + i
<1>1. taken - left \in Nat /\ (taken - left) + k <= MaxBytes
  BY Numbers, Constants
<1>2. QED
  BY <1>1, Numbered DEF NextBytes

\* Behind s comes t.
LEMMA Appended ==
  ASSUME NEW s \in Seq(Byte), NEW t \in Seq(Byte)
  PROVE  /\ s \o t \in Seq(Byte) /\ Len(s \o t) = Len(s) + Len(t)
         /\ \A i \in 1 .. Len(s) : (s \o t)[i] = s[i]
         /\ \A i \in 1 .. Len(s \o t) : ~(i <= Len(s)) =>
              i - Len(s) \in 1 .. Len(t) /\ (s \o t)[i] = t[i - Len(s)]
<1>1. Len(s) \in Nat /\ Len(t) \in Nat
  BY LenProperties
<1>2. QED
  BY <1>1

\* What is written goes from the front of s.
LEMMA Cut ==
  ASSUME NEW s \in Seq(Byte), NEW n \in 0 .. Len(s)
  PROVE  /\ SubSeq(s, 1, n) \in Seq(Byte) /\ Len(SubSeq(s, 1, n)) = n
         /\ \A i \in 1 .. n : SubSeq(s, 1, n)[i] = s[i]
         /\ SubSeq(s, n + 1, Len(s)) \in Seq(Byte)
         /\ Len(SubSeq(s, n + 1, Len(s))) = Len(s) - n
         /\ \A i \in 1 .. Len(s) - n : SubSeq(s, n + 1, Len(s))[i] = s[n + i]
<1>1. Len(s) \in Nat
  BY LenProperties
<1>2. QED
  BY <1>1

\* Between 0 and b there is only one multiple of b.
LEMMA OnlyZero == \A d \in Int, b \in Nat \ {0} : 0 <= b * d /\ b * d < b => b * d = 0
OBVIOUS

\* A block more stays a number of blocks.
LEMMA BlockMore == \A n \in Nat : n % Block = 0 => (n + Block) % Block = 0
<1> SUFFICES ASSUME NEW n \in Nat, n % Block = 0 PROVE (n + Block) % Block = 0
  OBVIOUS
<1> DEFINE q == n \div Block
           p == (n + Block) \div Block
<1>1. Block \in Nat \ {0}
  BY Constants
<1>2. q \in Int /\ n = Block * q
  BY <1>1
<1>3. /\ p \in Int /\ n + Block = Block * p + ((n + Block) % Block)
      /\ (n + Block) % Block \in 0 .. Block - 1
  BY <1>1
<1> HIDE DEF q, p
<1>4. Block * (q + 1 - p) = Block * q + Block - Block * p
  BY <1>1, <1>2, <1>3
<1>5. (n + Block) % Block = Block * (q + 1 - p)
  BY <1>1, <1>2, <1>3, <1>4
<1>6. q + 1 - p \in Int
  BY <1>2, <1>3
<1>7. QED
  BY <1>1, <1>3, <1>5, <1>6, OnlyZero

\* What is left of n when the part of a frame is taken away.
LEMMA Frames == \A n \in Nat, f \in Nat \ {0} : n - (n % f) \in 0 .. n
<1> SUFFICES ASSUME NEW n \in Nat, NEW f \in Nat \ {0} PROVE n - (n % f) \in 0 .. n
  OBVIOUS
<1>1. n \div f \in Nat /\ n = f * (n \div f) + (n % f) /\ n % f \in Nat
  OBVIOUS
<1>2. f * (n \div f) \in Nat
  BY <1>1
<1>3. PICK p \in Nat : p = f * (n \div f)
  BY <1>2
<1>4. PICK r \in Nat : r = n % f
  BY <1>1
<1>5. n - r \in 0 .. n
  BY <1>1, <1>3, <1>4
<1>6. QED
  BY <1>4, <1>5
-----------------------------------------------------------------------------
(* The drivers without a buffer. *)

\* k of the l bytes that are left are given away, or all are given up.
LEMMA GivenUp ==
  ASSUME NEW t \in Nat, NEW l \in Nat, l <= t, NEW k \in Nat, k <= l, NEW m, m = 0 \/ m = l - k
  PROVE  m \in Nat /\ m <= l - k /\ m <= t /\ t - m \in Nat /\ (t - l) + k <= t - m
OBVIOUS

\* Nothing is written; what is left may be given up.
LEMMA DirectKeeps ==
  ASSUME StreamInv, UNCHANGED <<driver, taken, out>>, left' \in {0, left},
         pc' \notin {"failed", "closed"} => pc \notin {"failed", "closed"} /\ left' = left
  PROVE  DirectInv'
<1>1. left \in Nat /\ taken \in Nat
  BY Numbers DEF StreamInv
<1> SUFFICES ASSUME driver # "esd" PROVE DirectInv'
  BY DEF DirectInv
<1>2. left <= taken
  BY DEF StreamInv, DirectInv
<1>3. left' <= taken' /\ taken - left <= taken' - left' /\ taken' - left' \in Nat
  <2>1. \A t, l \in Nat : l <= t => l <= t /\ 0 <= t /\ t - l <= t - l /\ t - l <= t - 0
                               /\ t - l \in Nat /\ t - 0 \in Nat
    OBVIOUS
  <2>2. taken' = taken /\ (left' = 0 \/ left' = left)
    OBVIOUS
  <2>3. QED
    BY <1>1, <1>2, <2>1, <2>2, Zenon
<1>4. \A i \in 1 .. Len(out) : out'[i] \in 1 .. taken' - left'
  <2>1. \A i \in 1 .. Len(out) : out[i] \in 1 .. taken - left
    BY DEF StreamInv, DirectInv
  <2>2. \A a \in 1 .. taken - left : a \in 1 .. taken' - left'
    <3>1. PICK u \in Int : u = taken - left
      BY <1>1
    <3>2. PICK v \in Nat : v = taken' - left'
      BY <1>3
    <3>3. u <= v
      BY <1>3, <3>1, <3>2
    <3>4. \A a \in 1 .. u : a \in 1 .. v
      BY <3>3
    <3>5. QED
      BY <3>1, <3>2, <3>4
  <2>3. QED
    BY <2>1, <2>2
<1>5. Careful' = Careful
  BY DEF Careful
<1>6. ASSUME Careful
      PROVE  /\ Len(out') <= taken' - left' /\ \A i \in 1 .. Len(out') : out'[i] = i
             /\ pc' \notin {"failed", "closed"} => Len(out') = taken' - left'
  <2>1. /\ Len(out) <= taken - left /\ \A i \in 1 .. Len(out) : out[i] = i
        /\ pc \notin {"failed", "closed"} => Len(out) = taken - left
    BY <1>6 DEF StreamInv, DirectInv
  <2>2. Len(out) <= taken' - left'
    BY <1>1, <1>3, <2>1, Numbers DEF StreamInv
  <2>3. QED
    BY <2>1, <2>2
<1>7. QED
  BY <1>3, <1>4, <1>5, <1>6 DEF StreamInv, DirectInv

\* The call of a driver begins.
LEMMA DirectTakes ==
  ASSUME StreamInv, driver # "esd", NEW n \in Chunks, NEW stage, TakeAll(n, stage)
  PROVE  DirectInv'
<1>1. taken \in Nat /\ left = 0 /\ n \in Nat
  BY Numbers, Constants DEF StreamInv, StageInv, TakeAll
<1>2. driver' = driver /\ out' = out /\ left' = n /\ taken' = taken + n /\ pc = "open"
  BY DEF TakeAll
<1>3. left' <= taken' /\ taken' - left' = taken - left
  BY <1>1, <1>2
<1>4. Careful' = Careful
  BY <1>2 DEF Careful
<1>5. QED
  BY <1>2, <1>3, <1>4, Zenon DEF StreamInv, DirectInv

\* k bytes of what is left are written.
LEMMA DirectWrites ==
  ASSUME StreamInv, driver # "esd", pc \notin {"failed", "closed"},
         NEW k \in Nat, k <= left, UNCHANGED <<driver, taken>>,
         out' = out \o NextBytes(k), left' \in {0, left - k}, Careful => left' = left - k
  PROVE  out' \in Seq(Byte) /\ DirectInv'
<1>1. /\ left \in Nat /\ taken \in Nat /\ Len(out) \in Nat /\ out \in Seq(Byte) /\ left <= taken
      /\ TypeOK
  BY Numbers DEF StreamInv, DirectInv
<1>2. /\ NextBytes(k) \in Seq(Byte) /\ Len(NextBytes(k)) = k
      /\ \A i \in 1 .. k : NextBytes(k)[i] = taken - left + i
  BY <1>1, NextBytesAre
<1>3. /\ out' \in Seq(Byte) /\ Len(out') = Len(out) + k
      /\ \A i \in 1 .. Len(out) : out'[i] = out[i]
      /\ \A i \in 1 .. Len(out') : ~(i <= Len(out)) =>
           i - Len(out) \in 1 .. k /\ out'[i] = taken - left + (i - Len(out))
  BY <1>1, <1>2, Appended
<1>4. /\ left' \in Nat /\ left' <= left - k /\ left' <= taken' /\ taken' - left' \in Nat
      /\ (taken - left) + k <= taken' - left'
  <2>1. taken' = taken /\ (left' = 0 \/ left' = left - k)
    OBVIOUS
  <2>2. QED
    BY <1>1, <2>1, GivenUp
<1>5. \A i \in 1 .. Len(out) : out[i] \in 1 .. taken - left
  BY DEF StreamInv, DirectInv
<1>6. \A i \in 1 .. Len(out') : out'[i] \in 1 .. taken' - left'
  <2> SUFFICES ASSUME NEW i \in 1 .. Len(out') PROVE out'[i] \in 1 .. taken' - left'
    OBVIOUS
  <2>1. CASE i <= Len(out)
    <3>1. out'[i] \in 1 .. taken - left
      BY <1>1, <1>3, <1>5, <2>1
    <3>2. QED
      BY <1>1, <1>4, <3>1
  <2>2. CASE ~(i <= Len(out))
    <3>1. PICK d \in 1 .. k : d = i - Len(out) /\ out'[i] = taken - left + d
      BY <1>3, <2>2
    <3>2. QED
      BY <1>1, <1>4, <3>1
  <2>3. QED
    BY <2>1, <2>2
<1>7. \A i, j \in 1 .. Len(out') : i < j => out'[i] < out'[j]
  <2> SUFFICES ASSUME NEW i \in 1 .. Len(out'), NEW j \in 1 .. Len(out'), i < j
               PROVE  out'[i] < out'[j]
    OBVIOUS
  <2>1. CASE j <= Len(out)
    <3>1. i \in 1 .. Len(out) /\ j \in 1 .. Len(out)
      BY <1>1, <1>3, <2>1
    <3>2. out[i] < out[j]
      BY <3>1 DEF StreamInv, DirectInv
    <3>3. QED
      BY <1>3, <3>1, <3>2
  <2>2. CASE i <= Len(out) /\ ~(j <= Len(out))
    <3>1. out'[i] \in 1 .. taken - left
      BY <1>1, <1>3, <1>5, <2>2
    <3>2. PICK d \in 1 .. k : out'[j] = taken - left + d
      BY <1>3, <2>2
    <3>3. QED
      BY <1>1, <3>1, <3>2
  <2>3. CASE ~(i <= Len(out)) /\ ~(j <= Len(out))
    <3>1. PICK d \in 1 .. k : d = i - Len(out) /\ out'[i] = taken - left + d
      BY <1>3, <2>3
    <3>2. PICK e \in 1 .. k : e = j - Len(out) /\ out'[j] = taken - left + e
      BY <1>3, <2>3
    <3>3. d < e
      BY <1>1, <1>3, <3>1, <3>2
    <3>4. QED
      BY <1>1, <3>1, <3>2, <3>3
  <2>4. QED
    BY <1>1, <1>3, <2>1, <2>2, <2>3
<1>8. ASSUME Careful
      PROVE  Len(out') = taken' - left' /\ \A i \in 1 .. Len(out') : out'[i] = i
  <2>1. Len(out) = taken - left /\ \A i \in 1 .. Len(out) : out[i] = i
    BY <1>8 DEF StreamInv, DirectInv
  <2>2. Len(out') = taken' - left'
    BY <1>1, <1>3, <1>8, <2>1
  <2>3. ASSUME NEW i \in 1 .. Len(out') PROVE out'[i] = i
    <3>1. CASE i <= Len(out)
      <4>1. i \in 1 .. Len(out)
        BY <1>1, <1>3, <3>1
      <4>2. QED
        BY <1>3, <2>1, <4>1
    <3>2. CASE ~(i <= Len(out))
      <4>1. out'[i] = (taken - left) + (i - Len(out))
        BY <1>3, <3>2
      <4>2. QED
        BY <1>1, <1>3, <2>1, <4>1
    <3>3. QED
      BY <3>1, <3>2
  <2>4. QED
    BY <2>2, <2>3
<1>9. Careful' = Careful
  BY DEF Careful
<1>10. Len(out') <= Len(out')
  BY <1>1, <1>3
<1>11. Careful => Len(out') <= taken' - left'
  BY <1>8, <1>10
<1>12. QED
  BY <1>3, <1>4, <1>6, <1>7, <1>8, <1>9, <1>11 DEF DirectInv
-----------------------------------------------------------------------------
(* esd. *)

\* What a state of esd says, as facts about numbers.
LEMMA EsdNumbers ==
  ASSUME StreamInv, driver = "esd"
  PROVE  /\ left \in Nat /\ taken \in Nat /\ taken <= MaxBytes /\ Len(out) \in Nat
         /\ Len(fill) \in Nat /\ Len(writing) \in Nat /\ Sent = Len(out) + Len(writing)
         /\ Sent \in Nat /\ Len(fill) <= Block /\ Len(writing) <= Block
         /\ out \in Seq(Byte) /\ fill \in Seq(Byte) /\ writing \in Seq(Byte)
         /\ taken + left <= MaxBytes /\ Block \in Nat /\ Block > 0 /\ MaxBytes \in Nat
         /\ TypeOK
BY Numbers, Constants DEF StreamInv, EsdInv, Sent

\* The bytes written so far are read as they are while more are taken.
LEMMA SoundStays ==
  ASSUME StreamInv, driver = "esd", pc \notin {"last", "closed"}, taken' \in Nat, taken <= taken',
         out' = out
  PROVE  \A i \in 1 .. Len(out') : out'[i] = Sound(i)'
<1>1. Sent <= taken /\ \A i \in 1 .. Len(out) : out[i] = Sound(i)
  BY DEF StreamInv, EsdInv
<1>2. \A i \in 1 .. Len(out) : i <= taken /\ i <= taken'
  BY <1>1, EsdNumbers
<1>3. QED
  BY <1>1, <1>2 DEF Sound

\* Nothing is being written.
LEMMA NoneWritten ==
  ASSUME writing' = <<>>
  PROVE  Len(writing') = 0 /\ Sent' = Len(out') + 0
         /\ \A i \in 1 .. Len(writing') : writing'[i] = Sound(Len(out) + i)'
BY DEF Sent

\* bugbuffer takes no more than completes it.
LEMMA AddToFits ==
  ASSUME StreamInv, driver = "esd", NEW n \in Nat, n > 0
  PROVE  /\ AddTo(n) \in Nat /\ AddTo(n) <= n /\ Len(fill) + AddTo(n) <= Block
         /\ Len(fill) + AddTo(n) # Block /\ n - AddTo(n) > 0 => fill = <<>> /\ AddTo(n) = 0
<1>1. Len(fill) \in Nat /\ Len(fill) <= Block /\ Block \in Nat /\ Block > 0 /\ fill \in Seq(Byte)
  BY EsdNumbers
<1>2. CASE fill = <<>>
  <2>1. AddTo(n) = 0 /\ Len(fill) = 0
    BY <1>2 DEF AddTo
  <2>2. QED
    BY <1>1, <1>2, <2>1
<1>3. CASE fill # <<>> /\ Len(fill) + n > Block
  <2>1. AddTo(n) = Block - Len(fill)
    BY <1>3 DEF AddTo
  <2>2. QED
    BY <1>1, <1>3, <2>1
<1>4. CASE fill # <<>> /\ ~(Len(fill) + n > Block)
  <2>1. AddTo(n) = n
    BY <1>4 DEF AddTo
  <2>2. QED
    BY <1>1, <1>4, <2>1
<1>5. QED
  BY <1>2, <1>3, <1>4

\* ao_plugin_play adds to bugbuffer, and writes it when it is full.
LEMMA EsdPlayHolds ==
  ASSUME StreamInv, NEW n \in Chunks, EsdPlay(n)
  PROVE  /\ EsdInv' /\ left' \in Nat /\ taken' \in 0 .. MaxBytes
         /\ fill' \in Seq(Byte) /\ Len(fill') <= Block
         /\ writing' \in Seq(Byte) /\ Len(writing') <= Block
<1> DEFINE add == AddTo(n)
           buffered == fill \o Samples(add)
<1>1. /\ driver = "esd" /\ pc = "open" /\ taken + n <= MaxBytes
      /\ taken' = taken + add /\ left' = n - add /\ fill' = buffered
      /\ UNCHANGED <<driver, alive, out>>
      /\ \/ Len(buffered) = Block /\ pc' = "flush" /\ writing' = buffered
         \/ Len(buffered) # Block /\ pc' = "blocks" /\ writing' = writing
  BY DEF EsdPlay
<1>2. /\ writing = <<>> /\ left = 0 /\ alive /\ Len(fill) < Block /\ Sent + Len(fill) = taken
      /\ \A i \in 1 .. Len(fill) : fill[i] = Sent + i
      /\ Sent % Block = 0
  BY <1>1 DEF StreamInv, StageInv, EsdInv
<1>3. /\ taken \in Nat /\ taken <= MaxBytes /\ Len(out) \in Nat /\ Len(fill) \in Nat
      /\ fill \in Seq(Byte) /\ Block \in Nat /\ Block > 0 /\ MaxBytes \in Nat /\ TypeOK
  BY <1>1, EsdNumbers
<1>4. Sent = Len(out) /\ Len(writing) = 0
  BY <1>2, <1>3 DEF Sent
<1>5. n \in Nat /\ n > 0
  BY Constants
<1>6. /\ add \in Nat /\ add <= n /\ Len(fill) + add <= Block
      /\ Len(fill) + add # Block /\ n - add > 0 => fill = <<>> /\ add = 0
  BY <1>1, <1>5, AddToFits
<1> HIDE DEF add
<1>7. /\ Samples(add) \in Seq(Byte) /\ Len(Samples(add)) = add
      /\ \A i \in 1 .. add : Samples(add)[i] = taken + i
  <2>1. taken + add <= MaxBytes
    BY <1>1, <1>3, <1>5, <1>6
  <2>2. QED
    BY <1>3, <1>6, <2>1, SamplesAre
<1>8. /\ buffered \in Seq(Byte) /\ Len(buffered) = Len(fill) + add
      /\ \A i \in 1 .. Len(fill) : buffered[i] = fill[i]
      /\ \A i \in 1 .. Len(buffered) : ~(i <= Len(fill)) =>
           i - Len(fill) \in 1 .. add /\ buffered[i] = Samples(add)[i - Len(fill)]
  BY <1>3, <1>7, Appended
<1> HIDE DEF buffered
<1>9. ASSUME NEW i \in 1 .. Len(buffered) PROVE buffered[i] = Len(out) + i
  <2>1. CASE i <= Len(fill)
    <3>1. i \in 1 .. Len(fill)
      BY <1>3, <1>6, <1>8, <2>1
    <3>2. QED
      BY <1>2, <1>4, <1>8, <3>1
  <2>2. CASE ~(i <= Len(fill))
    <3>1. buffered[i] = taken + (i - Len(fill))
      BY <1>7, <1>8, <2>2
    <3>2. i \in Nat
      BY <1>3, <1>6, <1>8
    <3>3. QED
      BY <1>2, <1>3, <1>4, <3>1, <3>2
  <2>3. QED
    BY <2>1, <2>2
<1>10. /\ taken' \in Nat /\ taken <= taken' /\ taken' <= MaxBytes /\ left' \in Nat
       /\ taken' + left' <= MaxBytes
  BY <1>1, <1>3, <1>5, <1>6
<1>11. Len(out) + Len(buffered) = taken' /\ Len(buffered) <= Block /\ Len(buffered) \in Nat
  <2>1. Len(buffered) = Len(fill) + add
    BY <1>8
  <2>2. Len(out) + Len(fill) = taken /\ taken' = taken + add
    BY <1>1, <1>2, <1>4
  <2>3. QED
    BY <1>3, <1>6, <2>1, <2>2
<1>12. \A i \in 1 .. Len(out') : out'[i] = Sound(i)'
  BY <1>1, <1>10, SoundStays
<1>13. CASE Len(buffered) = Block
  <2>1. pc' = "flush" /\ writing' = buffered /\ fill' = buffered
    BY <1>1, <1>13
  <2>2. Sent' = Len(out) + Len(buffered)
    BY <1>1, <2>1 DEF Sent
  <2>3. Sent' % Block = 0
    BY <1>2, <1>3, <1>4, <1>13, <2>2, BlockMore
  <2>4. \A i \in 1 .. Len(writing') : writing'[i] = Sound(Len(out) + i)'
    <3> SUFFICES ASSUME NEW i \in 1 .. Len(buffered)
                 PROVE  buffered[i] = Sound(Len(out) + i)'
      BY <2>1
    <3>1. Len(out') + i <= taken'
      BY <1>1, <1>3, <1>11
    <3>2. QED
      BY <1>1, <1>9, <3>1 DEF Sound
  <2>5. Sent' <= taken'
    BY <1>10, <1>11, <2>2
  <2>6. QED
    BY <1>1, <1>2, <1>8, <1>10, <1>11, <1>12, <2>1, <2>2, <2>3, <2>4, <2>5 DEF EsdInv
<1>14. CASE Len(buffered) # Block
  <2>1. pc' = "blocks" /\ writing' = <<>> /\ fill' = buffered
    BY <1>1, <1>2, <1>14
  <2>2. Sent' = Len(out) + 0 /\ Len(writing') = 0
        /\ \A i \in 1 .. Len(writing') : writing'[i] = Sound(Len(out) + i)'
    BY <1>1, <2>1, NoneWritten
  <2>3. Sent' = Len(out) /\ Sent' % Block = 0
    BY <1>2, <1>3, <1>4, <2>2
  <2>4. Len(fill') < Block /\ Sent' + Len(fill') = taken' /\ Sent' <= taken'
    BY <1>3, <1>10, <1>11, <1>14, <2>1, <2>3
  <2>5. \A i \in 1 .. Len(fill') : fill'[i] = Sent' + i
    BY <1>9, <2>1, <2>3
  <2>6. left' > 0 => fill' = <<>>
    <3>1. ASSUME left' > 0 PROVE fill' = <<>>
      <4>1. fill = <<>> /\ add = 0
        BY <1>1, <1>6, <1>8, <1>14, <3>1
      <4>2. Len(buffered) = 0
        BY <1>8, <4>1
      <4>3. QED
        BY <1>8, <2>1, <4>2, EmptySeq
    <3>2. QED
      BY <3>1
  <2>7. writing' \in Seq(Byte) /\ Len(writing') <= Block
    BY <1>3, <2>1
  <2>8. QED
    BY <1>1, <1>2, <1>8, <1>10, <1>11, <1>12, <2>1, <2>2, <2>3, <2>4, <2>5, <2>6, <2>7 DEF EsdInv
<1>15. QED
  BY <1>13, <1>14

\* Only a sound socket is written to, within write4096.
LEMMA Writing ==
  ASSUME StreamInv, writing # <<>>
  PROVE  driver = "esd" /\ alive /\ pc \in {"flush", "blocks", "last"}
BY DEF StreamInv, StageInv, EsdInv

\* write(2) takes the next bytes of a block.
LEMMA EsdWriteHolds ==
  ASSUME StreamInv, NEW n \in 1 .. Block, EsdWrite(n)
  PROVE  /\ EsdInv' /\ out' \in Seq(Byte) /\ Len(out') = Len(out) + n
         /\ writing' \in Seq(Byte) /\ Len(writing') <= Block
<1>1. /\ writing # <<>> /\ n <= Len(writing)
      /\ out' = out \o SubSeq(writing, 1, n)
      /\ writing' = SubSeq(writing, n + 1, Len(writing))
      /\ UNCHANGED <<driver, pc, fill, left, alive, result, told, taken>>
  BY DEF EsdWrite
<1>2. driver = "esd" /\ alive /\ pc \in {"flush", "blocks", "last"}
  BY <1>1, Writing
<1>3. /\ left \in Nat /\ taken \in Nat /\ taken <= MaxBytes /\ Len(out) \in Nat
      /\ Len(fill) \in Nat /\ Len(writing) \in Nat /\ Sent = Len(out) + Len(writing)
      /\ out \in Seq(Byte) /\ writing \in Seq(Byte) /\ Len(writing) <= Block /\ Block \in Nat
  BY <1>2, EsdNumbers
<1>4. n \in Nat /\ n \in 0 .. Len(writing)
  BY <1>1, <1>3
<1>5. /\ SubSeq(writing, 1, n) \in Seq(Byte) /\ Len(SubSeq(writing, 1, n)) = n
      /\ \A i \in 1 .. n : SubSeq(writing, 1, n)[i] = writing[i]
      /\ writing' \in Seq(Byte) /\ Len(writing') = Len(writing) - n
      /\ \A i \in 1 .. Len(writing) - n : writing'[i] = writing[n + i]
  BY <1>1, <1>3, <1>4, Cut
<1>6. /\ out' \in Seq(Byte) /\ Len(out') = Len(out) + n
      /\ \A i \in 1 .. Len(out) : out'[i] = out[i]
      /\ \A i \in 1 .. Len(out') : ~(i <= Len(out)) =>
           i - Len(out) \in 1 .. n /\ out'[i] = SubSeq(writing, 1, n)[i - Len(out)]
  BY <1>1, <1>3, <1>5, Appended
<1>7. Sent' = Sent
  <2>1. Sent' = Len(out') + Len(writing')
    BY DEF Sent
  <2>2. Len(out) + n + (Len(writing) - n) = Len(out) + Len(writing)
    BY <1>3, <1>4
  <2>3. QED
    BY <1>3, <1>5, <1>6, <2>1, <2>2
<1>8. /\ \A i \in 1 .. Len(out) : out[i] = Sound(i)
      /\ \A i \in 1 .. Len(writing) : writing[i] = Sound(Len(out) + i)
  BY <1>2 DEF StreamInv, EsdInv
<1>9. \A i : Sound(i)' = Sound(i)
  BY <1>1 DEF Sound
<1>10. \A i \in 1 .. Len(out') : out'[i] = Sound(i)'
  <2> SUFFICES ASSUME NEW i \in 1 .. Len(out') PROVE out'[i] = Sound(i)
    BY <1>9
  <2>1. i \in Nat /\ 1 <= i
    BY <1>3, <1>4, <1>6
  <2>2. CASE i <= Len(out)
    <3>1. i \in 1 .. Len(out)
      BY <1>3, <2>1, <2>2
    <3>2. QED
      BY <1>6, <1>8, <3>1
  <2>3. CASE ~(i <= Len(out))
    <3>1. PICK d \in 1 .. n : d = i - Len(out) /\ out'[i] = SubSeq(writing, 1, n)[d]
      BY <1>6, <2>3
    <3>2. d \in 1 .. Len(writing) /\ Len(out) + d = i
      BY <1>3, <1>4, <2>1, <3>1
    <3>3. out'[i] = writing[d]
      BY <1>5, <3>1
    <3>4. QED
      BY <1>8, <3>2, <3>3
  <2>4. QED
    BY <2>2, <2>3
<1>11. \A i \in 1 .. Len(writing') : writing'[i] = Sound(Len(out) + i)'
  <2> SUFFICES ASSUME NEW i \in 1 .. Len(writing') PROVE writing'[i] = Sound(Len(out) + i)'
    OBVIOUS
  <2>1. i \in 1 .. Len(writing) - n /\ n + i \in 1 .. Len(writing)
    BY <1>3, <1>4, <1>5
  <2>2. writing'[i] = Sound(Len(out) + (n + i))
    BY <1>5, <1>8, <2>1
  <2>3. Len(out) + (n + i) = Len(out') + i
    BY <1>3, <1>4, <1>6, <2>1
  <2>4. Sound(Len(out) + i)' = Sound(Len(out) + (n + i))
    BY <1>1, <2>3 DEF Sound
  <2>5. QED
    BY <2>2, <2>4
<1>12. Len(writing') <= Block
  BY <1>3, <1>4, <1>5
<1>13. pc = "blocks" => fill = <<>>
  BY <1>1, <1>2 DEF StreamInv, EsdInv
<1>14. \A i \in 1 .. Len(fill') : fill'[i] = fill[i] /\ Len(fill') = Len(fill)
  BY <1>1
<1>15. QED
  BY <1>1, <1>2, <1>5, <1>6, <1>7, <1>10, <1>11, <1>12, <1>13, <1>14 DEF StreamInv, EsdInv

\* A write that fails leaves the stream where it is.
LEMMA EsdWriteFailsHolds ==
  ASSUME StreamInv, EsdWriteFails
  PROVE  EsdInv'
<1>1. /\ writing # <<>> /\ alive' = FALSE /\ writing' = <<>>
      /\ \/ pc = "last" /\ UNCHANGED <<pc, left>>
         \/ pc # "last" /\ pc' = "failed" /\ left' = 0
      /\ UNCHANGED <<driver, fill, taken, out>>
  BY DEF EsdWriteFails
<1>2. driver = "esd" /\ alive /\ pc \in {"flush", "blocks", "last"}
  BY <1>1, Writing
<1>3. /\ left \in Nat /\ taken \in Nat /\ taken <= MaxBytes /\ Len(out) \in Nat
      /\ Len(writing) \in Nat /\ Sent = Len(out) + Len(writing) /\ taken + left <= MaxBytes
  BY <1>2, EsdNumbers
<1>4. Sent' = Len(out) /\ \A i \in 1 .. Len(writing') : writing'[i] = Sound(Len(out) + i)'
  BY <1>1, <1>3, NoneWritten
<1>5. \A i \in 1 .. Len(out') : out'[i] = Sound(i)'
  BY <1>1, <1>2 DEF StreamInv, EsdInv, Sound
<1>6. pc # "last" => Sent' <= taken'
  <2>1. pc # "last" => Sent <= taken
    BY <1>2 DEF StreamInv, EsdInv
  <2>2. QED
    BY <1>1, <1>3, <1>4, <2>1
<1>7. taken' + left' <= MaxBytes
  BY <1>1, <1>3
<1>8. pc = "last" => fill = <<>>
  BY <1>2 DEF StreamInv, EsdInv
<1>9. QED
  BY <1>1, <1>2, <1>4, <1>5, <1>6, <1>7, <1>8 DEF EsdInv

\* bugbuffer is written and empty.
LEMMA PlayFlushedHolds ==
  ASSUME StreamInv, PlayFlushed
  PROVE  EsdInv'
<1>1. /\ pc = "flush" /\ writing = <<>> /\ pc' = "blocks" /\ fill' = <<>>
      /\ UNCHANGED <<driver, left, writing, alive, taken, out>>
  BY DEF PlayFlushed, Flushed
<1>2. driver = "esd" /\ alive /\ Sent = taken
  BY <1>1 DEF StreamInv, StageInv, EsdInv
<1>3. Block > 0 /\ taken \in Nat /\ Sent \in Nat
  BY <1>2, EsdNumbers
<1>4. Sent' = Sent /\ \A i : Sound(i)' = Sound(i)
  BY <1>1 DEF Sent, Sound
<1>5. \A i : Sound(Len(out) + i)' = Sound(Len(out) + i)
  BY <1>1 DEF Sound
<1>6. Len(fill') = 0 /\ Len(fill') < Block /\ Sent' + Len(fill') = taken' /\ Sent' <= taken'
      /\ \A i \in 1 .. Len(fill') : fill'[i] = Sent' + i
  BY <1>1, <1>2, <1>3, <1>4
<1>7. QED
  BY <1>1, <1>2, <1>4, <1>5, <1>6 DEF StreamInv, EsdInv

\* A block of the caller's bytes is written behind the others.
LEMMA PlayBlockHolds ==
  ASSUME StreamInv, PlayBlock
  PROVE  /\ EsdInv' /\ left' \in Nat /\ taken' \in 0 .. MaxBytes
         /\ writing' \in Seq(Byte) /\ Len(writing') <= Block
<1>1. /\ pc = "blocks" /\ writing = <<>> /\ left >= Block
      /\ writing' = Samples(Block) /\ taken' = taken + Block /\ left' = left - Block
      /\ UNCHANGED <<driver, pc, fill, alive, out>>
  BY DEF PlayBlock
<1>2. driver = "esd"
  BY <1>1 DEF StreamInv, StageInv
<1>3. /\ left \in Nat /\ taken \in Nat /\ taken <= MaxBytes /\ Len(out) \in Nat
      /\ Sent = Len(out) + Len(writing) /\ taken + left <= MaxBytes
      /\ Block \in Nat /\ Block > 0 /\ MaxBytes \in Nat /\ TypeOK
  BY <1>2, EsdNumbers
<1>4. left > 0
  BY <1>1, <1>3
<1>5. alive /\ fill = <<>> /\ Sent + Len(fill) = taken /\ Sent % Block = 0
  BY <1>1, <1>2, <1>4 DEF StreamInv, EsdInv
<1>6. Sent = Len(out) /\ Len(out) = taken
  BY <1>1, <1>3, <1>5
<1>7. /\ taken' \in Nat /\ taken <= taken' /\ taken' <= MaxBytes /\ left' \in Nat
      /\ taken' + left' <= MaxBytes
  BY <1>1, <1>3
<1>8. /\ writing' \in Seq(Byte) /\ Len(writing') = Block
      /\ \A i \in 1 .. Block : writing'[i] = taken + i
  BY <1>1, <1>3, <1>7, SamplesAre
<1>9. Sent' = Len(out) + Block
  BY <1>1, <1>8 DEF Sent
<1>10. Sent' % Block = 0 /\ Sent' = taken' /\ Sent' <= taken'
  BY <1>1, <1>3, <1>5, <1>6, <1>9, BlockMore
<1>11. \A i \in 1 .. Len(out') : out'[i] = Sound(i)'
  BY <1>1, <1>2, <1>7, SoundStays
<1>12. \A i \in 1 .. Len(writing') : writing'[i] = Sound(Len(out) + i)'
  <2> SUFFICES ASSUME NEW i \in 1 .. Block PROVE writing'[i] = Sound(Len(out) + i)'
    BY <1>8
  <2>1. Len(out') + i <= taken' /\ Len(out') + i = taken + i
    BY <1>1, <1>3, <1>6
  <2>2. QED
    BY <1>8, <2>1 DEF Sound
<1>13. Len(fill') = 0 /\ fill' = <<>> /\ Len(fill') < Block /\ Sent' + Len(fill') = taken'
       /\ \A i \in 1 .. Len(fill') : fill'[i] = Sent' + i
  BY <1>1, <1>3, <1>5, <1>7, <1>10
<1>14. Len(writing') <= Block
  BY <1>3, <1>8
<1>15. QED
  BY <1>1, <1>2, <1>5, <1>7, <1>8, <1>10, <1>11, <1>12, <1>13, <1>14 DEF EsdInv

\* The rest goes to bugbuffer.
LEMMA PlayRestHolds ==
  ASSUME StreamInv, PlayRest
  PROVE  /\ EsdInv' /\ taken' \in 0 .. MaxBytes
         /\ fill' \in Seq(Byte) /\ Len(fill') <= Block
<1>1. /\ pc = "blocks" /\ writing = <<>> /\ left < Block
      /\ fill' = (IF left = 0 THEN fill ELSE Samples(left))
      /\ taken' = taken + left /\ left' = 0 /\ pc' = "open"
      /\ UNCHANGED <<driver, writing, alive, out>>
  BY DEF PlayRest
<1>2. driver = "esd"
  BY <1>1 DEF StreamInv, StageInv
<1>3. /\ left \in Nat /\ taken \in Nat /\ taken <= MaxBytes /\ Len(out) \in Nat
      /\ Sent = Len(out) + Len(writing) /\ taken + left <= MaxBytes /\ fill \in Seq(Byte)
      /\ Block \in Nat /\ Block > 0 /\ MaxBytes \in Nat /\ TypeOK /\ Len(fill) \in Nat
  BY <1>2, EsdNumbers
<1>4. /\ alive /\ Sent % Block = 0 /\ Len(fill) < Block /\ Sent + Len(fill) = taken
      /\ \A i \in 1 .. Len(fill) : fill[i] = Sent + i
      /\ left > 0 => fill = <<>>
  BY <1>1, <1>2 DEF StreamInv, EsdInv
<1>5. Sent = Len(out)
  BY <1>1, <1>3
<1>6. /\ taken' \in Nat /\ taken <= taken' /\ taken' <= MaxBytes
      /\ taken' + left' <= MaxBytes
  BY <1>1, <1>3
<1>7. \A i \in 1 .. Len(out') : out'[i] = Sound(i)'
  BY <1>1, <1>2, <1>6, SoundStays
<1>8. Sent' = Sent /\ \A i \in 1 .. Len(writing') : writing'[i] = Sound(Len(out) + i)'
  BY <1>1, <1>3, <1>5, NoneWritten
<1>9. /\ fill' \in Seq(Byte) /\ Len(fill') < Block /\ Len(fill') \in Nat /\ Sent + Len(fill') = taken'
      /\ \A i \in 1 .. Len(fill') : fill'[i] = Sent + i
  <2>1. CASE left = 0
    BY <1>1, <1>3, <1>4, <2>1
  <2>2. CASE left # 0
    <3>1. /\ Samples(left) \in Seq(Byte) /\ Len(Samples(left)) = left
          /\ \A i \in 1 .. left : Samples(left)[i] = taken + i
      BY <1>3, SamplesAre
    <3>2. fill' = Samples(left) /\ fill = <<>>
      BY <1>1, <1>3, <1>4, <2>2
    <3>3. Sent = taken
      BY <1>3, <1>4, <1>5, <3>2
    <3>4. QED
      BY <1>1, <1>3, <3>1, <3>2, <3>3
  <2>3. QED
    BY <2>1, <2>2
<1>10. Len(fill') <= Block /\ Sent' <= taken'
  BY <1>3, <1>5, <1>6, <1>8, <1>9
<1>11. ~(left' > 0 \/ writing' # <<>>)
  BY <1>1
<1>12. QED
  BY <1>1, <1>2, <1>4, <1>6, <1>7, <1>8, <1>9, <1>10, <1>11 DEF EsdInv

\* The last block is padded with silence behind the last byte.
LEMMA EsdCloseLastHolds ==
  ASSUME StreamInv, EsdCloseLast
  PROVE  EsdInv' /\ writing' \in Seq(Byte) /\ Len(writing') <= Block
<1>1. /\ driver = "esd" /\ pc \in {"open", "failed"} /\ fill # <<>>
      /\ pc' = "last" /\ fill' = <<>>
      /\ writing' = (IF alive THEN Padded ELSE <<>>)
      /\ UNCHANGED <<driver, left, alive, taken, out>>
  BY DEF EsdCloseLast
<1>2. /\ left \in Nat /\ taken \in Nat /\ taken <= MaxBytes /\ Len(out) \in Nat
      /\ Sent = Len(out) + Len(writing) /\ taken + left <= MaxBytes /\ fill \in Seq(Byte)
      /\ Block \in Nat /\ Block > 0 /\ MaxBytes \in Nat /\ TypeOK /\ Len(fill) \in Nat
  BY <1>1, EsdNumbers
<1>3. \A i \in 1 .. Len(out') : out'[i] = Sound(i)'
  BY <1>1 DEF StreamInv, EsdInv, Sound
<1>4. CASE ~alive
  <2>1. writing' = <<>> /\ writing' \in Seq(Byte) /\ Len(writing') <= Block
    BY <1>1, <1>2, <1>4
  <2>2. \A i \in 1 .. Len(writing') : writing'[i] = Sound(Len(out) + i)'
    BY <2>1, NoneWritten
  <2>3. QED
    BY <1>1, <1>2, <1>3, <1>4, <2>1, <2>2 DEF EsdInv
<1>5. CASE alive
  <2>1. /\ pc = "open" /\ writing = <<>> /\ Len(fill) < Block /\ Sent + Len(fill) = taken
        /\ \A i \in 1 .. Len(fill) : fill[i] = Sent + i
        /\ Sent % Block = 0
    BY <1>1, <1>5 DEF StreamInv, EsdInv
  <2>2. Sent = Len(out)
    BY <1>2, <2>1
  <2> DEFINE rest == Block - Len(fill)
             silence == [i \in 1 .. rest |-> 0]
  <2>3. rest \in Nat
    BY <1>2, <2>1
  <2> HIDE DEF rest
  <2>4. silence \in Seq(Byte) /\ Len(silence) = rest /\ \A i \in 1 .. rest : silence[i] = 0
    BY <2>3, Constants
  <2>5. writing' = fill \o silence
    BY <1>1, <1>5 DEF Padded, rest
  <2> HIDE DEF silence
  <2>6. /\ writing' \in Seq(Byte) /\ Len(writing') = Len(fill) + rest
        /\ \A i \in 1 .. Len(fill) : writing'[i] = fill[i]
        /\ \A i \in 1 .. Len(writing') : ~(i <= Len(fill)) =>
             i - Len(fill) \in 1 .. rest /\ writing'[i] = silence[i - Len(fill)]
    BY <1>2, <2>4, <2>5, Appended
  <2>7. Len(writing') = Block /\ Len(writing') <= Block
    BY <1>2, <2>6 DEF rest
  <2>8. Sent' = Len(out) + Block
    BY <1>1, <2>7 DEF Sent
  <2>9. Sent' % Block = 0
    BY <1>2, <2>1, <2>2, <2>8, BlockMore
  <2>10. \A i \in 1 .. Len(writing') : writing'[i] = Sound(Len(out) + i)'
    <3> SUFFICES ASSUME NEW i \in 1 .. Len(writing') PROVE writing'[i] = Sound(Len(out) + i)'
      OBVIOUS
    <3>1. i \in Nat /\ 1 <= i
      BY <1>2, <2>7
    <3>2. Sound(Len(out) + i)' = IF Len(out) + i <= taken THEN Len(out) + i ELSE 0
      BY <1>1 DEF Sound
    <3>3. CASE i <= Len(fill)
      <4>1. i \in 1 .. Len(fill)
        BY <1>2, <3>1, <3>3
      <4>2. writing'[i] = Len(out) + i
        BY <2>1, <2>2, <2>6, <4>1
      <4>3. Len(out) + i <= taken
        BY <1>2, <2>1, <2>2, <3>1, <3>3
      <4>4. QED
        BY <3>2, <4>2, <4>3
    <3>4. CASE ~(i <= Len(fill))
      <4>1. writing'[i] = 0
        BY <2>4, <2>6, <3>4
      <4>2. ~(Len(out) + i <= taken)
        BY <1>2, <2>1, <2>2, <3>1, <3>4
      <4>3. QED
        BY <3>2, <4>1, <4>2
    <3>5. QED
      BY <3>3, <3>4
  <2>11. QED
    BY <1>1, <1>2, <1>3, <1>5, <2>6, <2>7, <2>9, <2>10 DEF EsdInv
<1>6. QED
  BY <1>4, <1>5

\* The stream is opened, refused or closed: nothing is written.
LEMMA EsdOpens ==
  ASSUME StreamInv, UNCHANGED <<driver, left, taken, out, esdVars>>,
         \/ pc = "none" /\ pc' \in {"open", "refused"}
         \/ pc \in {"open", "failed", "last", "refused"} /\ pc' = "closed" /\ fill = <<>> /\ writing = <<>>
         \/ pc' = pc
  PROVE  EsdInv'
<1> SUFFICES ASSUME driver = "esd" PROVE EsdInv'
  BY DEF EsdInv
<1>1. UNCHANGED <<fill, writing, alive>> /\ Sent' = Sent
  BY DEF esdVars, Sent
<1>2. /\ \A i \in 1 .. Len(out') : out'[i] = Sound(i)'
      /\ \A i \in 1 .. Len(writing') : writing'[i] = Sound(Len(out) + i)'
  BY <1>1 DEF StreamInv, EsdInv, Sound
<1>3. CASE pc = "none" /\ pc' \in {"open", "refused"}
  <2>1. fill = <<>> /\ taken = 0
    BY <1>3 DEF StreamInv, EsdInv
  <2>2. QED
    BY <1>1, <1>2, <1>3, <2>1 DEF StreamInv, EsdInv
<1>4. CASE pc' = "closed" /\ fill = <<>> /\ writing = <<>>
  BY <1>1, <1>2, <1>4 DEF StreamInv, EsdInv
<1>5. CASE pc' = pc
  BY <1>1, <1>2, <1>5 DEF StreamInv, EsdInv
<1>6. QED
  BY <1>3, <1>4, <1>5
-----------------------------------------------------------------------------
(* Every step keeps the invariant. *)

EventType == [kind : {"LowWater", "Pause", "Start"}, bytes : 0 .. NasBuffer]

NasTypeOK == room \in 0 .. NasBuffer /\ level \in Nat /\ events \in Seq(EventType)

EsdTypeOK ==
  /\ fill \in Seq(Byte) /\ Len(fill) <= Block
  /\ writing \in Seq(Byte) /\ Len(writing) <= Block /\ alive \in BOOLEAN

StreamTypeOK ==
  /\ driver \in Drivers
  /\ pc \in {"none", "refused", "open", "pieces", "call", "flush", "blocks", "flow",
             "failed", "last", "closed"}
  /\ left \in Nat /\ taken \in 0 .. MaxBytes /\ out \in Seq(Byte)
  /\ told \in BOOLEAN /\ result \in {-1, 0, 1}

\* The types, in three parts.
LEMMA Types == TypeOK <=> StreamTypeOK /\ EsdTypeOK /\ NasTypeOK
BY DEF TypeOK, StreamTypeOK, EsdTypeOK, NasTypeOK, EventType

\* The same of the next state.
LEMMA TypesNext == TypeOK' <=> StreamTypeOK' /\ EsdTypeOK' /\ NasTypeOK'
BY DEF TypeOK, StreamTypeOK, EsdTypeOK, NasTypeOK, EventType

\* The variables of nas do not change.
LEMMA NasTypesStay == ASSUME NasTypeOK, UNCHANGED nasVars PROVE NasTypeOK'
BY DEF NasTypeOK, nasVars

\* The variables of esd do not change.
LEMMA EsdTypesStay == ASSUME EsdTypeOK, UNCHANGED esdVars PROVE EsdTypeOK'
BY DEF EsdTypeOK, esdVars

\* A driver without a buffer is none of esd's business.
LEMMA NoEsd == ASSUME driver # "esd", driver' = driver PROVE EsdInv'
BY DEF EsdInv

\* And esd is none of the drivers' without a buffer.
LEMMA NoDirect == ASSUME driver = "esd", driver' = driver PROVE DirectInv'
BY DEF DirectInv

\* The stream is opened, closed or given up: nothing is written.
LEMMA DirectEnds ==
  ASSUME StreamInv, driver # "esd", UNCHANGED <<driver, taken, out>>,
         pc' \in {"open", "refused", "failed", "closed"}, left' = 0,
         pc' \in {"open", "refused"} => left = 0 /\ pc \notin {"failed", "closed"},
         told' \in BOOLEAN, result' \in {-1, 0, 1}, UNCHANGED esdVars
  PROVE  StreamTypeOK' /\ StageInv' /\ DirectInv' /\ EsdInv'
<1>1. DirectInv'
  BY DirectKeeps
<1>2. EsdInv'
  BY NoEsd
<1>3. StreamTypeOK'
  BY Types, Constants DEF StreamTypeOK, StreamInv
<1>4. StageInv'
  BY DEF StreamInv, StageInv, esdVars
<1>5. QED
  BY <1>1, <1>2, <1>3, <1>4

\* The stream is opened, or refused.
LEMMA ReadyOrRefused ==
  ASSUME StreamInv, Ready \/ Refused, UNCHANGED <<esdVars, nasVars>>
  PROVE  StreamInv'
<1>1. /\ pc = "none" /\ pc' \in {"open", "refused"}
      /\ UNCHANGED <<driver, left, result, told, taken, out>>
  BY DEF Ready, Refused
<1>2. left = 0
  BY <1>1 DEF StreamInv, StageInv
<1>3. EsdTypeOK' /\ NasTypeOK' /\ StreamTypeOK
  BY Types, EsdTypesStay, NasTypesStay DEF StreamInv
<1>4. CASE driver # "esd"
  <2>1. StreamTypeOK' /\ StageInv' /\ DirectInv' /\ EsdInv'
    BY <1>1, <1>2, <1>3, <1>4, DirectEnds DEF StreamTypeOK
  <2>2. QED
    BY <1>3, <2>1, TypesNext DEF StreamInv
<1>5. CASE driver = "esd"
  <2>1. EsdInv' /\ DirectInv'
    BY <1>1, <1>5, EsdOpens, NoDirect
  <2>2. StreamTypeOK' /\ StageInv'
    BY <1>1, <1>2, <1>3, <1>5 DEF StreamTypeOK, StageInv
  <2>3. QED
    BY <1>3, <2>1, <2>2, TypesNext DEF StreamInv
<1>6. QED
  BY <1>4, <1>5

\* A call of a driver without a buffer ends, or its close.
LEMMA DirectEnd ==
  ASSUME StreamInv, UNCHANGED esdVars,
         \/ OssWriteFails \/ OssReturns \/ CallFails \/ CloseDirect \/ SndioStopFails
         \/ NasReturns
  PROVE  driver # "esd" /\ StreamTypeOK' /\ StageInv' /\ DirectInv' /\ EsdInv'
<1>1. StreamTypeOK
  BY Types DEF StreamInv
<1>2. CASE OssWriteFails \/ CallFails
  <2>1. driver # "esd"
    BY <1>2 DEF OssWriteFails, CallFails, StreamInv, StageInv, OneCall
  <2>2. QED
    BY <1>1, <1>2, <2>1, DirectEnds DEF OssWriteFails, CallFails, PlayFails, StreamTypeOK
<1>3. CASE OssReturns \/ NasReturns
  <2>1. driver # "esd" /\ left = 0
    BY <1>3 DEF OssReturns, NasReturns, StreamInv, StageInv
  <2>2. QED
    BY <1>1, <1>3, <2>1, DirectEnds DEF OssReturns, NasReturns, PlayReturns, StreamTypeOK
<1>4. CASE CloseDirect \/ SndioStopFails
  <2>1. driver # "esd" /\ left = 0
    BY <1>4 DEF CloseDirect, SndioStopFails, StreamInv, StageInv, OneCall
  <2>2. QED
    BY <1>1, <1>4, <2>1, DirectEnds DEF CloseDirect, SndioStopFails, CloseStream, StreamTypeOK
<1>5. QED
  BY <1>2, <1>3, <1>4

\* The call of a driver without a buffer begins.
LEMMA DirectBegins ==
  ASSUME StreamInv, UNCHANGED esdVars, NEW n \in Chunks, NEW stage, TakeAll(n, stage),
         \/ driver = "oss" /\ stage = "pieces"
         \/ driver \in OneCall /\ stage = "call"
         \/ driver = "nas" /\ stage = "flow"
  PROVE  StreamTypeOK' /\ StageInv' /\ DirectInv' /\ EsdInv'
<1>1. driver # "esd"
  BY DEF OneCall
<1>2. DirectInv' /\ EsdInv'
  BY <1>1, DirectTakes, NoEsd DEF TakeAll
<1>3. taken' \in 0 .. MaxBytes /\ left' \in Nat
  BY Numbers, Constants DEF TakeAll, StreamInv
<1>4. StreamTypeOK'
  BY <1>3, Types DEF TakeAll, StreamTypeOK, StreamInv
<1>5. StageInv'
  BY DEF TakeAll, StreamInv, StageInv, esdVars
<1>6. QED
  BY <1>2, <1>4, <1>5

\* It writes some bytes.
LEMMA DirectWrite ==
  ASSUME StreamInv, UNCHANGED <<esdVars, driver, result, told, taken>>, NEW k \in Nat, k <= left,
         out' = out \o NextBytes(k), left' \in {0, left - k}, Careful => left' = left - k,
         \/ pc \in {"pieces", "flow"} /\ pc' = pc
         \/ pc = "call" /\ pc' = "open" /\ left' = 0
  PROVE  StreamTypeOK' /\ StageInv' /\ DirectInv' /\ EsdInv'
<1>1. driver # "esd"
  BY DEF StreamInv, StageInv, OneCall
<1>2. out' \in Seq(Byte) /\ DirectInv'
  BY <1>1, DirectWrites
<1>3. EsdInv'
  BY <1>1, NoEsd
<1>4. left' \in Nat
  BY Numbers DEF StreamInv
<1>5. StreamTypeOK'
  BY <1>2, <1>4, Types DEF StreamTypeOK, StreamInv
<1>6. StageInv'
  BY DEF StreamInv, StageInv, esdVars
<1>7. QED
  BY <1>2, <1>3, <1>5, <1>6

\* oss writes a piece, or a part of one.
LEMMA OssWriteHolds ==
  ASSUME StreamInv, UNCHANGED esdVars, NEW k \in 1 .. Piece, OssWrite(k)
  PROVE  StreamTypeOK' /\ StageInv' /\ DirectInv' /\ EsdInv'
BY Constants, DirectWrite DEF OssWrite

\* A call takes no more than it is given; pulse takes all.
LEMMA ShortFits ==
  ASSUME StreamInv, pc = "call", NEW k \in 0 .. MaxBytes, k \in Short
  PROVE  k <= left /\ (Careful => k = left)
<1>1. left \in Nat /\ driver \in OneCall /\ k \in Nat
  BY Numbers, Constants DEF StreamInv, StageInv
<1>2. CASE driver \in {"sun", "aixs", "roar"}
  <2>1. k \in 0 .. left
    BY <1>2 DEF Short
  <2>2. QED
    BY <1>1, <1>2, <2>1 DEF Careful
<1>3. CASE driver = "sndio"
  <2>1. k \in 1 .. left
    BY <1>3 DEF Short
  <2>2. QED
    BY <1>1, <1>3, <2>1 DEF Careful
<1>4. CASE driver = "irix"
  <2>1. k \in {0, left - (left % FrameBytes)}
    BY <1>4 DEF Short
  <2>2. left - (left % FrameBytes) \in 0 .. left
    BY <1>1, Constants, Frames
  <2>3. k <= left
    BY <1>1, <2>1, <2>2
  <2>4. QED
    BY <1>4, <2>3 DEF Careful
<1>5. CASE driver = "pulse"
  <2>1. k \in {left}
    BY <1>5 DEF Short
  <2>2. QED
    BY <1>1, <2>1
<1>6. QED
  BY <1>1, <1>2, <1>3, <1>4, <1>5 DEF OneCall

\* The one call of a driver takes what it takes.
LEMMA CallReturnsHolds ==
  ASSUME StreamInv, UNCHANGED esdVars, NEW k \in 0 .. MaxBytes, CallReturns(k)
  PROVE  StreamTypeOK' /\ StageInv' /\ DirectInv' /\ EsdInv'
<1>1. /\ pc = "call" /\ k \in Short /\ out' = out \o NextBytes(k) /\ left' = 0 /\ pc' = "open"
      /\ UNCHANGED <<driver, result, told, taken>>
  BY DEF CallReturns
<1>2. k <= left /\ (Careful => k = left) /\ left \in Nat /\ k \in Nat
  BY <1>1, ShortFits, Numbers, Constants DEF StreamInv
<1>3. Careful => left' = left - k
  BY <1>1, <1>2
<1>4. QED
  BY <1>1, <1>2, <1>3, DirectWrite

\* Everything a device without a server's buffer does.
LEMMA DirectHolds ==
  ASSUME StreamInv, DirectNext, UNCHANGED <<esdVars, nasVars>>
  PROVE  StreamInv'
<1>1. EsdTypeOK' /\ NasTypeOK'
  BY Types, EsdTypesStay, NasTypesStay DEF StreamInv
<1>2. CASE Ready \/ Refused
  BY <1>2, ReadyOrRefused
<1>3. ASSUME StreamTypeOK' /\ StageInv' /\ DirectInv' /\ EsdInv' PROVE StreamInv'
  BY <1>1, <1>3, TypesNext DEF StreamInv
<1>4. ASSUME NEW n \in Chunks, OssPlay(n) \/ PlayOnce(n) PROVE StreamInv'
  <2>1. CASE OssPlay(n)
    BY <1>3, <2>1, DirectBegins DEF OssPlay
  <2>2. CASE PlayOnce(n)
    BY <1>3, <2>2, DirectBegins DEF PlayOnce
  <2>3. QED
    BY <1>4, <2>1, <2>2
<1>5. ASSUME NEW k \in 1 .. Piece, OssWrite(k) PROVE StreamInv'
  BY <1>3, <1>5, OssWriteHolds
<1>6. ASSUME NEW k \in 0 .. MaxBytes, CallReturns(k) PROVE StreamInv'
  BY <1>3, <1>6, CallReturnsHolds
<1>7. CASE OssWriteFails \/ OssReturns \/ CallFails \/ CloseDirect \/ SndioStopFails
  BY <1>3, <1>7, DirectEnd
<1>8. QED
  BY <1>2, <1>4, <1>5, <1>6, <1>7 DEF DirectNext, DirectStep

\* Everything esd does.
LEMMA EsdHolds ==
  ASSUME StreamInv, EsdNext, UNCHANGED nasVars
  PROVE  StreamInv'
<1>1. StreamTypeOK /\ EsdTypeOK /\ NasTypeOK'
  BY Types, NasTypesStay DEF StreamInv
<1>2. ASSUME StreamTypeOK', EsdTypeOK', StageInv', EsdInv', driver = "esd", driver' = driver
      PROVE  StreamInv'
  BY <1>1, <1>2, NoDirect, TypesNext DEF StreamInv
<1>3. ASSUME NEW n \in Chunks, EsdPlay(n) PROVE StreamInv'
  <2>1. /\ EsdInv' /\ left' \in Nat /\ taken' \in 0 .. MaxBytes
        /\ fill' \in Seq(Byte) /\ Len(fill') <= Block
        /\ writing' \in Seq(Byte) /\ Len(writing') <= Block
    BY <1>3, EsdPlayHolds
  <2>2. /\ driver = "esd" /\ UNCHANGED <<driver, alive, result, told, out>>
        /\ pc' \in {"flush", "blocks"}
    BY <1>3 DEF EsdPlay
  <2>3. StreamTypeOK' /\ EsdTypeOK' /\ StageInv'
    BY <1>1, <2>1, <2>2 DEF StreamTypeOK, EsdTypeOK, StageInv
  <2>4. QED
    BY <1>2, <2>1, <2>2, <2>3
<1>4. ASSUME NEW n \in 1 .. Block, EsdWrite(n) PROVE StreamInv'
  <2>1. /\ EsdInv' /\ out' \in Seq(Byte)
        /\ writing' \in Seq(Byte) /\ Len(writing') <= Block
    BY <1>4, EsdWriteHolds
  <2>2. driver = "esd" /\ UNCHANGED <<driver, pc, fill, left, alive, result, told, taken>>
    BY <1>4, Writing DEF EsdWrite
  <2>3. StreamTypeOK' /\ EsdTypeOK' /\ StageInv'
    BY <1>1, <2>1, <2>2 DEF StreamTypeOK, EsdTypeOK, StageInv, StreamInv
  <2>4. QED
    BY <1>2, <2>1, <2>2, <2>3
<1>5. CASE EsdWriteFails
  <2>1. /\ driver = "esd" /\ alive' = FALSE /\ writing' = <<>>
        /\ UNCHANGED <<driver, fill, result, taken, out>>
    BY <1>5, Writing DEF EsdWriteFails
  <2>2. Len(writing') <= Block /\ writing' \in Seq(Byte)
    BY <2>1, Constants
  <2>3. CASE pc = "last"
    <3>1. UNCHANGED <<pc, left, told>>
      BY <1>5, <2>3 DEF EsdWriteFails
    <3>2. StreamTypeOK' /\ EsdTypeOK' /\ StageInv'
      BY <1>1, <2>1, <2>2, <3>1 DEF StreamTypeOK, EsdTypeOK, StageInv, StreamInv
    <3>3. QED
      BY <1>2, <1>5, <2>1, <3>2, EsdWriteFailsHolds
  <2>4. CASE pc # "last"
    <3>1. pc' = "failed" /\ left' = 0 /\ told' = TRUE
      BY <1>5, <2>4 DEF EsdWriteFails
    <3>2. StreamTypeOK'
      BY <1>1, <2>1, <3>1 DEF StreamTypeOK
    <3>3. EsdTypeOK'
      BY <1>1, <2>1, <2>2 DEF EsdTypeOK
    <3>4. StageInv'
      BY <2>1, <3>1 DEF StageInv
    <3>5. QED
      BY <1>2, <1>5, <2>1, <3>2, <3>3, <3>4, EsdWriteFailsHolds
  <2>5. QED
    BY <2>3, <2>4
<1>6. CASE PlayFlushed
  <2>1. /\ driver = "esd" /\ pc' = "blocks" /\ fill' = <<>>
        /\ UNCHANGED <<driver, left, writing, alive, result, told, taken, out>>
    BY <1>6 DEF PlayFlushed, Flushed, StreamInv, StageInv
  <2>2. Len(fill') <= Block /\ fill' \in Seq(Byte)
    BY <2>1, Constants
  <2>3. StreamTypeOK' /\ EsdTypeOK' /\ StageInv'
    BY <1>1, <2>1, <2>2 DEF StreamTypeOK, EsdTypeOK, StageInv, StreamInv
  <2>4. QED
    BY <1>2, <1>6, <2>1, <2>3, PlayFlushedHolds
<1>7. CASE PlayBlock
  <2>1. /\ EsdInv' /\ left' \in Nat /\ taken' \in 0 .. MaxBytes
        /\ writing' \in Seq(Byte) /\ Len(writing') <= Block
    BY <1>7, PlayBlockHolds
  <2>2. /\ driver = "esd" /\ pc = "blocks"
        /\ UNCHANGED <<driver, pc, fill, alive, result, told, out>>
    BY <1>7 DEF PlayBlock, StreamInv, StageInv
  <2>3. StreamTypeOK' /\ EsdTypeOK' /\ StageInv'
    BY <1>1, <2>1, <2>2 DEF StreamTypeOK, EsdTypeOK, StageInv, StreamInv
  <2>4. QED
    BY <1>2, <2>1, <2>2, <2>3
<1>8. CASE PlayRest
  <2>1. EsdInv' /\ taken' \in 0 .. MaxBytes /\ fill' \in Seq(Byte) /\ Len(fill') <= Block
    BY <1>8, PlayRestHolds
  <2>2. /\ driver = "esd" /\ pc' = "open" /\ left' = 0
        /\ UNCHANGED <<driver, writing, alive, result, told, out>>
    BY <1>8 DEF PlayRest, StreamInv, StageInv
  <2>3. StreamTypeOK' /\ EsdTypeOK' /\ StageInv'
    BY <1>1, <2>1, <2>2 DEF StreamTypeOK, EsdTypeOK, StageInv, StreamInv
  <2>4. QED
    BY <1>2, <2>1, <2>2, <2>3
<1>9. CASE EsdCloseLast
  <2>1. EsdInv' /\ writing' \in Seq(Byte) /\ Len(writing') <= Block
    BY <1>9, EsdCloseLastHolds
  <2>2. /\ driver = "esd" /\ pc' = "last" /\ fill' = <<>> /\ pc \in {"open", "failed"}
        /\ UNCHANGED <<driver, left, alive, result, told, taken, out>>
    BY <1>9 DEF EsdCloseLast
  <2>3. Len(fill') <= Block /\ fill' \in Seq(Byte)
    BY <2>2, Constants
  <2>4. StreamTypeOK' /\ EsdTypeOK' /\ StageInv'
    BY <1>1, <2>1, <2>2, <2>3 DEF StreamTypeOK, EsdTypeOK, StageInv, StreamInv
  <2>5. QED
    BY <1>2, <2>1, <2>2, <2>4
<1>10. CASE EsdClose
  <2>1. /\ driver = "esd" /\ pc' = "closed" /\ result' = 1
        /\ UNCHANGED <<driver, left, told, taken, out, esdVars>>
        /\ pc \in {"open", "failed", "last", "refused"}
        /\ pc = "refused" \/ writing = <<>>
        /\ pc \in {"refused", "last"} \/ fill = <<>>
    BY <1>10 DEF EsdClose, CloseStream
  <2>2. fill = <<>> /\ writing = <<>>
    BY <2>1 DEF StreamInv, EsdInv
  <2>3. EsdInv'
    BY <2>1, <2>2, EsdOpens
  <2>4. StreamTypeOK' /\ EsdTypeOK' /\ StageInv'
    BY <1>1, <2>1, EsdTypesStay DEF StreamTypeOK, StageInv, StreamInv
  <2>5. QED
    BY <1>2, <2>1, <2>3, <2>4
<1>11. QED
  BY <1>3, <1>4, <1>5, <1>6, <1>7, <1>8, <1>9, <1>10 DEF EsdNext, EsdStep

\* The events of the server.
LEMMA NoticesTyped ==
  ASSUME NEW before \in Nat, NEW after \in Nat
  PROVE  Notices(before, after) \in Seq(EventType)
<1>1. LowWater \in Nat /\ LowWater <= NasBuffer /\ NasBuffer \in Nat
  BY Constants DEF LowWater
<1> DEFINE low == IF before > LowWater /\ after <= LowWater
                  THEN <<Event("LowWater", NasBuffer - after)>> ELSE <<>>
           pause == IF before > 0 /\ after = 0 THEN <<Event("Pause", NasBuffer)>> ELSE <<>>
           start == IF before = 0 /\ after > 0 THEN <<Event("Start", 0)>> ELSE <<>>
<1>2. low \in Seq(EventType)
  <2>1. ASSUME after <= LowWater PROVE Event("LowWater", NasBuffer - after) \in EventType
    <3>1. NasBuffer - after \in 0 .. NasBuffer
      BY <1>1, <2>1
    <3>2. QED
      BY <3>1 DEF Event, EventType
  <2>2. QED
    BY <2>1
<1>3. pause \in Seq(EventType)
  <2>1. Event("Pause", NasBuffer) \in EventType
    BY <1>1 DEF Event, EventType
  <2>2. QED
    BY <2>1
<1>4. start \in Seq(EventType)
  <2>1. Event("Start", 0) \in EventType
    BY <1>1 DEF Event, EventType
  <2>2. QED
    BY <2>1
<1>5. Notices(before, after) = low \o pause \o start
  BY DEF Notices
<1> HIDE DEF low, pause, start
<1>6. QED
  BY <1>2, <1>3, <1>4, <1>5, ConcatProperties

\* Everything nas and its server do.
LEMMA NasHolds ==
  ASSUME StreamInv, NasNext, UNCHANGED esdVars
  PROVE  StreamInv'
<1>1. StreamTypeOK /\ NasTypeOK /\ EsdTypeOK'
  BY Types, EsdTypesStay DEF StreamInv
<1>2. ASSUME StreamTypeOK' /\ StageInv' /\ DirectInv' /\ EsdInv', NasTypeOK' PROVE StreamInv'
  BY <1>1, <1>2, TypesNext DEF StreamInv
<1>3. ASSUME NEW n \in Chunks, NasPlay(n) PROVE StreamInv'
  BY <1>1, <1>2, <1>3, DirectBegins, NasTypesStay DEF NasPlay
<1>4. CASE NasReturns
  BY <1>1, <1>2, <1>4, DirectEnd, NasTypesStay DEF NasReturns
<1>5. ASSUME UNCHANGED streamVars, driver # "esd"
      PROVE  StreamTypeOK' /\ StageInv' /\ DirectInv' /\ EsdInv'
  <2>1. DirectInv'
    BY <1>5, DirectKeeps DEF streamVars
  <2>2. QED
    BY <1>1, <1>5, <2>1, NoEsd DEF StreamTypeOK, StageInv, StreamInv, esdVars, streamVars
<1>6. CASE NasPlays
  <2>1. /\ UNCHANGED <<streamVars, room>> /\ driver # "esd"
        /\ level > 0 /\ level' = level - 1 /\ events' = events \o Notices(level, level - 1)
    BY <1>6 DEF NasPlays
  <2>2. level \in Nat /\ level' \in Nat /\ level - 1 \in Nat
    BY <1>1, <2>1 DEF NasTypeOK
  <2>3. events' \in Seq(EventType)
    BY <1>1, <2>1, <2>2, NoticesTyped, ConcatProperties DEF NasTypeOK
  <2>4. NasTypeOK'
    BY <1>1, <2>1, <2>2, <2>3 DEF NasTypeOK
  <2>5. QED
    BY <1>2, <1>5, <2>1, <2>4
<1>7. CASE NasEvent
  <2>1. /\ UNCHANGED <<streamVars, level>> /\ pc = "flow" /\ events # <<>>
        /\ room' = (IF Allows(Head(events)) THEN Head(events).bytes ELSE room)
        /\ events' = Tail(events)
    BY <1>7 DEF NasEvent
  <2>2. driver # "esd"
    BY <2>1 DEF StreamInv, StageInv
  <2>3. Head(events) \in EventType /\ events' \in Seq(EventType)
    BY <1>1, <2>1, HeadTailProperties DEF NasTypeOK
  <2>4. room' \in 0 .. NasBuffer
    BY <1>1, <2>1, <2>3 DEF NasTypeOK, EventType
  <2>5. NasTypeOK'
    BY <1>1, <2>1, <2>3, <2>4 DEF NasTypeOK
  <2>6. QED
    BY <1>2, <1>5, <2>1, <2>2, <2>5
<1>8. CASE NasWrite
  <2> DEFINE k == IF left > room THEN room ELSE left
  <2>1. /\ pc = "flow" /\ left > 0 /\ room > 0
        /\ out' = out \o NextBytes(k) /\ left' = left - k
        /\ room' = room - k /\ level' = level + k
        /\ events' = events \o Notices(level, level + k)
        /\ UNCHANGED <<driver, pc, result, told, taken>>
    BY <1>8 DEF NasWrite
  <2>2. /\ left \in Nat /\ room \in 0 .. NasBuffer /\ NasBuffer \in Nat /\ level \in Nat
        /\ events \in Seq(EventType)
    BY <1>1, Constants DEF StreamTypeOK, NasTypeOK
  <2>3. k \in Nat /\ k <= left /\ k <= room
    BY <2>2
  <2> HIDE DEF k
  <2>4. room' \in 0 .. NasBuffer /\ level' \in Nat /\ level + k \in Nat
    BY <2>1, <2>2, <2>3
  <2>5. events' \in Seq(EventType)
    BY <2>1, <2>2, <2>4, NoticesTyped, ConcatProperties
  <2>6. NasTypeOK'
    BY <2>4, <2>5 DEF NasTypeOK
  <2>7. StreamTypeOK' /\ StageInv' /\ DirectInv' /\ EsdInv'
    BY <2>1, <2>3, DirectWrite
  <2>8. QED
    BY <1>2, <2>6, <2>7
<1>9. CASE NasClose
  <2>1. /\ driver = "nas" /\ pc \in {"open", "refused"} /\ pc' = "closed" /\ result' = 1
        /\ UNCHANGED <<driver, left, told, taken, out>> /\ level' = 0 /\ UNCHANGED <<room, events>>
    BY <1>9 DEF NasClose, CloseStream
  <2>2. NasTypeOK'
    BY <1>1, <2>1 DEF NasTypeOK
  <2>3. left = 0 /\ driver # "esd"
    BY <2>1 DEF StreamInv, StageInv
  <2>4. StreamTypeOK' /\ StageInv' /\ DirectInv' /\ EsdInv'
    BY <1>1, <2>1, <2>3, DirectEnds DEF StreamTypeOK
  <2>5. QED
    BY <1>2, <2>2, <2>4
<1>10. QED
  BY <1>3, <1>4, <1>6, <1>7, <1>8, <1>9 DEF NasNext, NasStep

\* StreamInv is an invariant.
LEMMA Inductive == Spec => []StreamInv
<1>1. Init => StreamInv
  <2> SUFFICES ASSUME Init PROVE StreamInv
    OBVIOUS
  <2>1. /\ driver \in Drivers /\ pc = "none" /\ left = 0 /\ result = -1 /\ told = FALSE /\ taken = 0
        /\ out = <<>> /\ fill = <<>> /\ writing = <<>> /\ alive = TRUE
        /\ room = 0 /\ level = 0 /\ events = <<Event("LowWater", NasBuffer)>>
    BY DEF Init, StreamInit, EsdInit, NasInit
  <2>2. Event("LowWater", NasBuffer) \in EventType
    BY Constants DEF Event, EventType
  <2>3. StreamTypeOK /\ EsdTypeOK /\ NasTypeOK
    <3>1. StreamTypeOK
      <4>1. told \in BOOLEAN
        BY <2>1, Zenon
      <4>2. out \in Seq(Byte) /\ taken \in 0 .. MaxBytes /\ left \in Nat
        BY <2>1, Constants
      <4>3. driver \in Drivers /\ result \in {-1, 0, 1}
        BY <2>1
      <4>4. QED
        BY <2>1, <4>1, <4>2, <4>3 DEF StreamTypeOK
    <3>2. EsdTypeOK
      BY <2>1, Constants DEF EsdTypeOK
    <3>3. events \in Seq(EventType)
      BY <2>1, <2>2
    <3>4. NasTypeOK
      BY <2>1, <3>3, Constants DEF NasTypeOK
    <3>5. QED
      BY <3>1, <3>2, <3>4
  <2>4. Sent = 0 /\ 0 % Block = 0
    BY <2>1, Constants DEF Sent
  <2>5. StageInv /\ DirectInv
    BY <2>1 DEF StageInv, DirectInv
  <2>6. EsdInv
    BY <2>1, <2>4, Constants DEF EsdInv
  <2>7. QED
    BY <2>3, <2>5, <2>6, Types DEF StreamInv
<1>2. StreamInv /\ [Next]_vars => StreamInv'
  <2>1. CASE Next
    BY <2>1, DirectHolds, EsdHolds, NasHolds DEF Next
  <2>2. CASE UNCHANGED vars
    BY <2>2 DEF vars, streamVars, esdVars, nasVars, StreamInv, TypeOK, StageInv, DirectInv, EsdInv,
                Sent, Sound, Careful
  <2>3. QED
    BY <2>1, <2>2
<1>3. QED
  BY <1>1, <1>2, PTL DEF Spec

\* Types, for every set of drivers and any sizes: bugbuffer and a block being
\* written never hold more than a block, and no byte is one that was not played.
THEOREM TypeCorrect == Spec => []TypeOK
<1>1. StreamInv => TypeOK
  BY DEF StreamInv
<1>2. QED
  BY <1>1, Inductive, PTL

\* What esd's daemon has read at the end of a write is whole blocks, as long as
\* the socket works, and the silence is behind the last byte.
THEOREM BlocksAreWhole == Spec => []WholeBlocks
<1>1. StreamInv => WholeBlocks
  <2> SUFFICES ASSUME StreamInv, driver = "esd"
               PROVE  /\ alive /\ writing = <<>> => Len(out) % Block = 0
                      /\ \A i \in 1 .. Len(out) :
                           out[i] = 0 => pc \in {"last", "closed"} /\ \A j \in i .. Len(out) : out[j] = 0
    BY DEF WholeBlocks
  <2>1. /\ alive => Sent % Block = 0
        /\ \A i \in 1 .. Len(out) : out[i] = Sound(i)
        /\ pc \notin {"last", "closed"} => Sent <= taken
    BY DEF StreamInv, EsdInv
  <2>2. /\ taken \in Nat /\ Len(out) \in Nat /\ Len(writing) \in Nat
        /\ Sent = Len(out) + Len(writing)
    BY EsdNumbers
  <2>3. writing = <<>> => Sent = Len(out)
    BY <2>2
  <2>4. ASSUME NEW i \in 1 .. Len(out), out[i] = 0 PROVE taken < i
    BY <2>1, <2>2, <2>4 DEF Sound
  <2>5. ASSUME NEW i \in 1 .. Len(out), taken < i, NEW j \in i .. Len(out) PROVE out[j] = 0
    <3>1. j \in 1 .. Len(out) /\ ~(j <= taken)
      BY <2>2, <2>5
    <3>2. QED
      BY <2>1, <3>1 DEF Sound
  <2>6. ASSUME NEW i \in 1 .. Len(out), taken < i PROVE pc \in {"last", "closed"}
    BY <2>1, <2>2, <2>6
  <2>7. QED
    BY <2>1, <2>3, <2>4, <2>5, <2>6
<1>2. QED
  BY <1>1, Inductive, PTL
-----------------------------------------------------------------------------
(* The order. *)

\* The first n bytes of a stream.
Run(n) == [i \in 1 .. n |-> i]

InOrder ==
  /\ Careful => Heard = Run(Reach)
  /\ ~Careful => Heard = out
  /\ \A i, j \in 1 .. Len(Heard) : i < j => Heard[i] < Heard[j]

\* What a careful driver that is open has given away.
GivenAway == Careful /\ pc = "open" => Len(Heard) + Len(fill) = taken /\ Len(fill) < Block

\* Reach is a length of out, and of what was taken.
LEMMA ReachFits == ASSUME TypeOK PROVE Reach \in Nat /\ Reach <= Len(out) /\ Reach <= taken
BY Numbers DEF Reach

\* Heard ends where the silence begins.
LEMMA HeardUpTo ==
  ASSUME TypeOK, NEW n \in 0 .. Len(out), \A i \in 1 .. n : out[i] # 0,
         \A i \in 1 .. Len(out) : n < i => out[i] = 0
  PROVE  Heard = SubSeq(out, 1, n)
<1>1. Len(out) \in Nat /\ n \in Nat
  BY Numbers
<1>2. BeforeSilence(n)
  BY <1>1 DEF BeforeSilence
<1>3. \A m \in 0 .. Len(out) : BeforeSilence(m) => m = n
  <2> SUFFICES ASSUME NEW m \in 0 .. Len(out), BeforeSilence(m) PROVE m = n
    OBVIOUS
  <2>1. CASE m < n
    <3>1. m + 1 \in 1 .. n /\ m < Len(out)
      BY <1>1, <2>1
    <3>2. QED
      BY <3>1 DEF BeforeSilence
  <2>2. CASE n < m
    <3>1. n + 1 \in 1 .. m /\ n + 1 \in 1 .. Len(out) /\ n < n + 1
      BY <1>1, <2>2
    <3>2. QED
      BY <3>1 DEF BeforeSilence
  <2>3. QED
    BY <1>1, <2>1, <2>2
<1>4. (CHOOSE m \in 0 .. Len(out) : BeforeSilence(m)) = n
  BY <1>2, <1>3
<1>5. QED
  BY <1>4 DEF Heard

\* All that a driver without a buffer writes is heard.
LEMMA HeardAll ==
  ASSUME TypeOK, \A i \in 1 .. Len(out) : out[i] # 0
  PROVE  Heard = out
<1>1. Len(out) \in Nat /\ Len(out) \in 0 .. Len(out) /\ out \in Seq(Byte)
  BY Numbers
<1>2. Heard = SubSeq(out, 1, Len(out))
  BY <1>1, HeardUpTo
<1>3. QED
  BY <1>1, <1>2

\* What careful drivers write is heard as the bytes' numbers, in a run.
LEMMA HeardRun ==
  ASSUME TypeOK, \A i \in 1 .. Len(out) : out[i] = Sound(i)
  PROVE  Heard = Run(Reach)
<1>1. /\ Reach \in Nat /\ Reach <= Len(out) /\ Reach <= taken /\ taken \in Nat /\ Len(out) \in Nat
      /\ out \in Seq(Byte)
  BY ReachFits, Numbers
<1>2. Reach \in 0 .. Len(out)
  BY <1>1
<1>3. \A i \in 1 .. Reach : i \in 1 .. Len(out) /\ i # 0 /\ out[i] = i
  BY <1>1 DEF Sound
<1>4. \A i \in 1 .. Len(out) : Reach < i => out[i] = 0
  BY <1>1 DEF Sound, Reach
<1>5. Heard = SubSeq(out, 1, Reach)
  BY <1>2, <1>3, <1>4, HeardUpTo
<1>6. SubSeq(out, 1, Reach) = [i \in 1 .. Reach |-> out[i]]
  BY <1>1
<1>7. [i \in 1 .. Reach |-> out[i]] = Run(Reach)
  BY <1>3 DEF Run
<1>8. QED
  BY <1>5, <1>6, <1>7

\* A run holds the numbers of its bytes.
LEMMA RunIs == \A n \in Nat : Len(Run(n)) = n /\ \A i \in 1 .. n : Run(n)[i] = i
BY DEF Run

\* The invariant says what is heard.
LEMMA HeardInOrder == ASSUME StreamInv PROVE InOrder /\ GivenAway
<1>1. TypeOK /\ Reach \in Nat /\ Reach <= taken /\ left \in Nat /\ taken \in Nat /\ Len(out) \in Nat
  BY ReachFits, Numbers DEF StreamInv
<1>2. CASE driver = "esd"
  <2>1. Careful /\ Heard = Run(Reach)
    BY <1>1, <1>2, HeardRun DEF Careful, StreamInv, EsdInv
  <2>2. InOrder
    BY <1>1, <2>1, RunIs DEF InOrder
  <2>3. ASSUME pc = "open" PROVE Len(Heard) + Len(fill) = taken /\ Len(fill) < Block
    <3>1. Len(fill) < Block /\ Sent + Len(fill) = taken /\ writing = <<>>
      BY <1>2, <2>3 DEF StreamInv, EsdInv
    <3>2. Len(fill) \in Nat /\ Sent = Len(out) + Len(writing)
      BY <1>2, EsdNumbers
    <3>3. Len(out) + Len(fill) = taken
      BY <1>1, <3>1, <3>2
    <3>4. Reach = Len(out)
      BY <1>1, <3>2, <3>3 DEF Reach
    <3>5. Len(Heard) = Len(out)
      BY <1>1, <2>1, <3>4, RunIs
    <3>6. QED
      BY <3>1, <3>3, <3>5
  <2>4. QED
    BY <2>2, <2>3 DEF GivenAway
<1>3. CASE driver # "esd"
  <2>1. /\ left <= taken /\ \A i \in 1 .. Len(out) : out[i] \in 1 .. taken - left
        /\ \A i, j \in 1 .. Len(out) : i < j => out[i] < out[j]
        /\ Careful =>
             /\ Len(out) <= taken - left /\ \A i \in 1 .. Len(out) : out[i] = i
             /\ pc \notin {"failed", "closed"} => Len(out) = taken - left
    BY <1>3 DEF StreamInv, DirectInv
  <2>2. Heard = out
    <3>1. \A i \in 1 .. Len(out) : out[i] # 0
      BY <1>1, <2>1
    <3>2. QED
      BY <1>1, <3>1, HeardAll
  <2>3. ASSUME Careful PROVE Heard = Run(Reach) /\ Reach = Len(out)
    <3>1. Len(out) <= taken /\ \A i \in 1 .. Len(out) : out[i] = i
      BY <1>1, <2>1, <2>3
    <3>2. \A i \in 1 .. Len(out) : out[i] = Sound(i)
      BY <1>1, <3>1 DEF Sound
    <3>3. QED
      BY <1>1, <3>1, <3>2, HeardRun DEF Reach
  <2>4. InOrder
    BY <2>1, <2>2, <2>3 DEF InOrder
  <2>5. ASSUME Careful, pc = "open" PROVE Len(Heard) + Len(fill) = taken /\ Len(fill) < Block
    <3>1. left = 0 /\ fill = <<>>
      BY <1>3, <2>5 DEF StreamInv, StageInv
    <3>2. Len(out) = taken
      BY <1>1, <2>1, <2>5, <3>1
    <3>3. QED
      BY <1>1, <2>2, <3>1, <3>2, Constants
  <2>6. QED
    BY <2>4, <2>5 DEF GivenAway
<1>4. QED
  BY <1>2, <1>3

\* What a step does to the bytes: it takes some, or writes some.
Moves ==
  /\ driver' = driver /\ taken <= taken' /\ Len(out) <= Len(out')
  /\ taken' = taken \/ (out' = out /\ (Careful => Len(out) <= taken))
  /\ SubSeq(out', 1, Len(out)) = out

\* Nothing is taken or written.
LEMMA StillMoves ==
  ASSUME TypeOK, driver' = driver, out' = out, taken' = taken PROVE Moves
<1>1. taken \in Nat /\ Len(out) \in Nat /\ out \in Seq(Byte)
  BY Numbers
<1>2. SubSeq(out, 1, Len(out)) = out
  BY <1>1
<1>3. QED
  BY <1>1, <1>2 DEF Moves

\* Bytes are taken.
LEMMA TakesMoves ==
  ASSUME TypeOK, driver' = driver, out' = out, taken <= taken', Careful => Len(out) <= taken
  PROVE  Moves
<1>1. Len(out) \in Nat /\ out \in Seq(Byte)
  BY Numbers
<1>2. SubSeq(out, 1, Len(out)) = out
  BY <1>1
<1>3. QED
  BY <1>1, <1>2 DEF Moves

\* Bytes are written.
LEMMA WritesMoves ==
  ASSUME TypeOK, driver' = driver, taken' = taken, NEW s \in Seq(Byte), out' = out \o s PROVE Moves
<1>1. taken \in Nat /\ Len(out) \in Nat /\ out \in Seq(Byte) /\ Len(s) \in Nat
  BY Numbers, LenProperties
<1>2. /\ out' \in Seq(Byte) /\ Len(out') = Len(out) + Len(s)
      /\ \A i \in 1 .. Len(out) : out'[i] = out[i]
  BY <1>1, Appended
<1>3. Len(out) <= Len(out')
  BY <1>1, <1>2
<1>4. SubSeq(out', 1, Len(out)) = out
  <2>1. Len(out) \in 0 .. Len(out')
    BY <1>1, <1>3
  <2>2. /\ SubSeq(out', 1, Len(out)) \in Seq(Byte) /\ Len(SubSeq(out', 1, Len(out))) = Len(out)
        /\ \A i \in 1 .. Len(out) : SubSeq(out', 1, Len(out))[i] = out'[i]
    BY <1>2, <2>1, Cut
  <2>3. QED
    BY <1>1, <1>2, <2>2, SeqEqual
<1>5. QED
  BY <1>1, <1>3, <1>4 DEF Moves

\* What a careful driver takes lies behind what it has written.
LEMMA NothingLies ==
  ASSUME StreamInv, Careful, pc \notin {"last", "closed"} PROVE Len(out) <= taken
<1>1. left \in Nat /\ taken \in Nat /\ Len(out) \in Nat
  BY Numbers DEF StreamInv
<1>2. CASE driver = "esd"
  BY <1>1, <1>2, EsdNumbers DEF StreamInv, EsdInv
<1>3. CASE driver # "esd"
  BY <1>1, <1>3 DEF StreamInv, DirectInv
<1>4. QED
  BY <1>2, <1>3

\* Every step is one of these.
LEMMA EveryStepMoves == ASSUME StreamInv, [Next]_vars PROVE Moves
<1>1. TypeOK /\ left \in Nat /\ taken \in Nat /\ Len(out) \in Nat
  BY Numbers DEF StreamInv
<1>2. ASSUME UNCHANGED <<driver, out, taken>> PROVE Moves
  BY <1>1, <1>2, StillMoves
<1>3. ASSUME NEW n \in Nat, UNCHANGED <<driver, out>>, taken' = taken + n, pc \notin {"last", "closed"}
      PROVE  Moves
  <2>1. taken <= taken'
    BY <1>1, <1>3
  <2>2. QED
    BY <1>1, <1>3, <2>1, NothingLies, TakesMoves
<1>4. ASSUME NEW k \in Nat, k <= left, UNCHANGED <<driver, taken>>, out' = out \o NextBytes(k),
             driver # "esd"
      PROVE  Moves
  <2>1. left <= taken
    BY <1>4 DEF StreamInv, DirectInv
  <2>2. NextBytes(k) \in Seq(Byte)
    BY <1>1, <1>4, <2>1, NextBytesAre
  <2>3. QED
    BY <1>1, <1>4, <2>2, WritesMoves
<1>5. ASSUME DirectNext PROVE Moves
  <2>1. ASSUME NEW n \in Chunks, OssPlay(n) \/ PlayOnce(n) PROVE Moves
    BY <1>3, <2>1, Constants DEF OssPlay, PlayOnce, TakeAll
  <2>2. ASSUME NEW k \in 1 .. Piece, OssWrite(k) PROVE Moves
    <3>1. driver # "esd" /\ k \in Nat
      BY <2>2, Constants DEF OssWrite, StreamInv, StageInv
    <3>2. QED
      BY <1>4, <2>2, <3>1 DEF OssWrite
  <2>3. ASSUME NEW k \in 0 .. MaxBytes, CallReturns(k) PROVE Moves
    <3>1. driver # "esd" /\ k \in Nat
      BY <2>3, Constants DEF CallReturns, StreamInv, StageInv, OneCall
    <3>2. k <= left
      BY <2>3, ShortFits DEF CallReturns
    <3>3. QED
      BY <1>4, <2>3, <3>1, <3>2 DEF CallReturns
  <2>4. CASE \/ Ready \/ Refused \/ OssWriteFails \/ OssReturns \/ CallFails \/ CloseDirect
             \/ SndioStopFails
    BY <1>2, <2>4
    DEF Ready, Refused, OssWriteFails, PlayFails, OssReturns, PlayReturns, CallFails, CloseDirect,
        CloseStream, SndioStopFails
  <2>5. QED
    BY <1>5, <2>1, <2>2, <2>3, <2>4 DEF DirectNext, DirectStep
<1>6. ASSUME EsdNext PROVE Moves
  <2>1. ASSUME NEW n \in Chunks, EsdPlay(n) PROVE Moves
    <3>1. n \in Nat /\ n > 0
      BY Constants
    <3>2. driver = "esd" /\ AddTo(n) \in Nat
      BY <2>1, <3>1, AddToFits DEF EsdPlay
    <3>3. UNCHANGED <<driver, out>> /\ taken' = taken + AddTo(n) /\ pc = "open"
      BY <2>1 DEF EsdPlay
    <3>4. QED
      BY <1>3, <3>2, <3>3
  <2>2. ASSUME NEW n \in 1 .. Block, EsdWrite(n) PROVE Moves
    <3>1. /\ writing # <<>> /\ n <= Len(writing) /\ out' = out \o SubSeq(writing, 1, n)
          /\ UNCHANGED <<driver, taken>>
      BY <2>2 DEF EsdWrite
    <3>2. n \in 0 .. Len(writing) /\ writing \in Seq(Byte)
      BY <1>1, <3>1, Numbers
    <3>3. SubSeq(writing, 1, n) \in Seq(Byte)
      BY <3>2, Cut
    <3>4. QED
      BY <1>1, <3>1, <3>3, WritesMoves
  <2>3. CASE PlayBlock \/ PlayRest
    BY <1>1, <1>3, <2>3, Constants DEF PlayBlock, PlayRest
  <2>4. CASE EsdWriteFails \/ PlayFlushed \/ EsdCloseLast \/ EsdClose
    BY <1>2, <2>4 DEF EsdWriteFails, PlayFlushed, EsdCloseLast, EsdClose, CloseStream
  <2>5. QED
    BY <1>6, <2>1, <2>2, <2>3, <2>4 DEF EsdNext, EsdStep
<1>7. ASSUME NasNext PROVE Moves
  <2>1. ASSUME NEW n \in Chunks, NasPlay(n) PROVE Moves
    BY <1>3, <2>1, Constants DEF NasPlay, TakeAll
  <2>2. CASE NasWrite
    <3> DEFINE k == IF left > room THEN room ELSE left
    <3>1. /\ pc = "flow" /\ out' = out \o NextBytes(k) /\ UNCHANGED <<driver, taken>> /\ left > 0
      BY <2>2 DEF NasWrite
    <3>2. driver # "esd"
      BY <3>1 DEF StreamInv, StageInv
    <3>3. room \in 0 .. NasBuffer /\ NasBuffer \in Nat
      BY <1>1, Constants, Types DEF NasTypeOK
    <3>4. k \in Nat /\ k <= left
      BY <1>1, <3>3
    <3> HIDE DEF k
    <3>5. QED
      BY <1>4, <3>1, <3>2, <3>4
  <2>3. CASE NasPlays \/ NasEvent \/ NasReturns \/ NasClose
    BY <1>2, <2>3 DEF NasPlays, NasEvent, NasReturns, NasClose, PlayReturns, CloseStream, streamVars
  <2>4. QED
    BY <1>7, <2>1, <2>2, <2>3 DEF NasNext, NasStep
<1>8. CASE UNCHANGED vars
  BY <1>2, <1>8 DEF vars, streamVars
<1>9. QED
  BY <1>5, <1>6, <1>7, <1>8 DEF Next

\* What a number lacks to a larger one.
LEMMA Difference == \A a, b \in Nat : a <= b => \E n \in Nat : b = a + n
<1> SUFFICES ASSUME NEW a \in Nat, NEW b \in Nat, a <= b PROVE \E n \in Nat : b = a + n
  OBVIOUS
<1>1. b - a \in Nat /\ b = a + (b - a)
  OBVIOUS
<1>2. QED
  BY <1>1

\* A longer run goes on where a shorter one ends.
LEMMA RunGoesOn ==
  ASSUME NEW m \in Nat, NEW n \in Nat
  PROVE  Run(m + n) = Run(m) \o [i \in 1 .. n |-> Len(Run(m)) + i]
<1>1. Run(m) \in Seq(Nat) /\ Len(Run(m)) = m
  BY DEF Run
<1>2. [i \in 1 .. n |-> m + i] \in Seq(Nat) /\ Len([i \in 1 .. n |-> m + i]) = n
  OBVIOUS
<1>3. QED
  BY <1>1, <1>2 DEF Run

\* A run starts as a shorter one does.
LEMMA RunStarts ==
  ASSUME NEW n \in Nat, NEW m \in Nat, m <= n
  PROVE  SubSeq(Run(n), 1, m) = Run(m)
BY DEF Run

Delivery ==
  /\ Careful => [Fifo!FifoNext]_<<taken, Heard>>
  /\ Len(Heard') >= Len(Heard) /\ SubSeq(Heard', 1, Len(Heard)) = Heard

\* A step that moves bytes delivers them.
LEMMA StepDelivers ==
  ASSUME TypeOK, taken' \in Nat, taken' <= MaxBytes, Len(out') \in Nat, Moves, InOrder, InOrder'
  PROVE  Delivery
<1>1. /\ taken \in Nat /\ taken <= MaxBytes /\ Len(out) \in Nat /\ MaxBytes \in Nat
      /\ Block \in Nat /\ Reach \in Nat /\ Reach <= taken /\ Reach <= Len(out)
  BY Numbers, Constants, ReachFits
<1>2. Careful' = Careful
  BY DEF Moves, Careful
<1>3. CASE ~Careful
  <2>1. Heard = out /\ Heard' = out'
    BY <1>2, <1>3 DEF InOrder
  <2>2. Len(out') >= Len(out) /\ SubSeq(out', 1, Len(out)) = out
    BY <1>1 DEF Moves
  <2>3. QED
    BY <1>3, <2>1, <2>2 DEF Delivery
<1>4. CASE Careful
  <2>1. Heard = Run(Reach) /\ Heard' = Run(Reach')
    BY <1>2, <1>4 DEF InOrder, Run
  <2>2. Reach' \in Nat /\ Reach <= Reach' /\ Reach' <= taken'
    BY <1>1 DEF Reach, Moves
  <2>3. PICK n \in Nat : Reach' = Reach + n
    BY <1>1, <2>2, Difference
  <2>4. Len(Heard) = Reach /\ Len(Heard') = Reach'
    BY <1>1, <2>1, <2>2, RunIs
  <2>5. Heard' = Heard \o [i \in 1 .. n |-> Len(Heard) + i]
    BY <1>1, <2>1, <2>3, RunGoesOn
  <2>6. SubSeq(Heard', 1, Len(Heard)) = Heard
    BY <1>1, <2>1, <2>2, <2>4, RunStarts
  <2>7. Len(Heard') >= Len(Heard)
    <3>1. Reach' >= Reach
      BY <1>1, <2>2
    <3>2. QED
      BY <2>4, <3>1
  <2>8. [Fifo!FifoNext]_<<taken, Heard>>
    <3>1. CASE taken' = taken /\ n = 0
      <4>1. Reach' = Reach
        BY <1>1, <2>3, <3>1
      <4>2. QED
        BY <2>1, <3>1, <4>1
    <3>2. CASE taken' = taken /\ n # 0
      <4>1. n \in 1 .. 2 * Block + MaxBytes
        BY <1>1, <2>2, <2>3, <3>2
      <4>2. Len(Heard) + n <= taken
        BY <1>1, <2>2, <2>3, <2>4, <3>2
      <4> DEFINE outs == [d \in {1} |-> Heard]
      <4>3. outs[1] = Heard
        OBVIOUS
      <4>4. [d \in {1} |-> Heard'] = [outs EXCEPT ![1] = Heard \o [i \in 1 .. n |-> Len(Heard) + i]]
        BY <2>5
      <4>5. Fifo!Deliver(1, n)
        BY <3>2, <4>2, <4>3, <4>4 DEF Fifo!Deliver
      <4>6. QED
        BY <4>1, <4>5 DEF Fifo!FifoNext
    <3>3. CASE taken' # taken
      <4>1. out' = out /\ Len(out) <= taken /\ taken <= taken'
        BY <1>4, <3>3 DEF Moves
      <4>2. Reach = Len(out) /\ Reach' = Len(out)
        BY <1>1, <4>1 DEF Reach
      <4>3. Heard' = Heard
        BY <2>1, <4>2
      <4>4. PICK k \in Nat : taken' = taken + k
        <5>1. taken \in Nat /\ taken' \in Nat /\ taken <= taken'
          BY <1>1, <4>1
        <5>2. QED
          BY <5>1, Difference
      <4>5. k \in 1 .. 2 * Block + MaxBytes
        BY <1>1, <3>3, <4>4
      <4>6. taken + k - Len(Heard) <= 2 * Block + MaxBytes
        BY <1>1, <2>4, <4>4
      <4> DEFINE outs == [d \in {1} |-> Heard]
                 takens == [d \in {1} |-> taken]
      <4>7. outs[1] = Heard /\ takens[1] = taken
        OBVIOUS
      <4>8. [d \in {1} |-> taken'] = [takens EXCEPT ![1] = taken + k]
        BY <4>4
      <4>9. [d \in {1} |-> Heard'] = outs
        BY <4>3
      <4>10. Fifo!Take(1, k)
        BY <4>6, <4>7, <4>8, <4>9 DEF Fifo!Take
      <4>11. QED
        BY <4>5, <4>10 DEF Fifo!FifoNext
    <3>4. QED
      BY <3>1, <3>2, <3>3
  <2>9. QED
    BY <2>6, <2>7, <2>8 DEF Delivery
<1>5. QED
  BY <1>3, <1>4

\* What a careful driver gives away is what was played, in order, with nothing
\* held back but less than a block by esd when play has returned; the others
\* leave bytes out but never go back.
THEOREM Delivers == Spec => DeliversInOrder
<1>1. StreamInv => InOrder /\ GivenAway /\ TypeOK
  BY HeardInOrder DEF StreamInv
<1>2. StreamInv /\ [Next]_vars => Moves
  BY EveryStepMoves
<1>3. TypeOK /\ TypeOK' /\ Moves /\ InOrder /\ InOrder' => Delivery
  <2> SUFFICES ASSUME TypeOK, TypeOK', Moves, InOrder, InOrder' PROVE Delivery
    OBVIOUS
  <2>1. taken' \in Nat /\ taken' <= MaxBytes /\ out' \in Seq(Byte)
    BY Constants DEF TypeOK
  <2>2. Len(out') \in Nat
    BY <2>1, LenProperties
  <2>3. QED
    BY <2>1, <2>2, StepDelivers
<1>4. Delivery /\ Moves /\ InOrder' /\ GivenAway' =>
        /\ Careful => [Fifo!FifoNext]_<<taken, Heard>>
        /\ Careful /\ pc' = "open" => Len(Heard') + Len(fill') = taken' /\ Len(fill') < Block
        /\ Len(Heard') >= Len(Heard) /\ SubSeq(Heard', 1, Len(Heard)) = Heard
        /\ \A i, j \in 1 .. Len(Heard') : i < j => Heard'[i] < Heard'[j]
  BY DEF Delivery, Moves, InOrder, GivenAway, Careful
<1>5. QED
  BY <1>1, <1>2, <1>3, <1>4, Inductive, PTL DEF Spec, DeliversInOrder
=============================================================================
