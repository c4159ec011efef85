-------------------------- MODULE AoDevice_proofs --------------------------
(***************************************************************************)
(* Proofs about AoDevice for any number of devices, files, drivers,        *)
(* options and formats.                                                    *)
(***************************************************************************)
EXTENDS AoDevice, SequenceTheorems, WellFoundedInduction, NaturalsInduction, TLAPS

\* Where a call stands decides whether it has a device and what the driver
\* has seen of it.
CallStages == {"lookup", "init", "options", "reconcile", "open", "permute",
               "swap", "error", "tail"}
DevStages == {"init", "options", "reconcile", "open", "permute", "swap",
              "close", "clear", "free"}

\* A call of ao_open_live or ao_open_file keeps its arguments until it has
\* returned; ao_close called by the application has none.
CallInv ==
  /\ pc \in CallStages => call # NoCall
  /\ pc \in {"close", "clear", "free"} =>
       exit # "none" /\ (call = NoCall <=> exit = "user")
  /\ pc = "idle" => call = NoCall

DevInv ==
  /\ pc \in DevStages => dev \in Devices /\ dev \notin held
  /\ pc \in {"idle", "lookup", "tail", "returned"} => dev = NoDev
  /\ pc = "error" => dev = NoDev \/ (dev \in Devices /\ dev \notin held)

LifeInv ==
  /\ \A d \in Devices : d # dev => drv[d] = IF d \in held THEN "open" ELSE "none"
  /\ pc = "init" => drv[dev] = "born"
  /\ pc \in {"options", "reconcile", "open"} => drv[dev] = "ready"
  /\ pc \in {"permute", "swap"} => drv[dev] = "open"
  /\ pc = "error" /\ dev # NoDev => drv[dev] \in {"failed", "open"}
  /\ pc = "close" => drv[dev] \in {"failed", "open"}
  /\ pc = "clear" => drv[dev] = "closed"
  /\ pc = "free" => drv[dev] = "cleared"

Inv == TypeOK /\ CallInv /\ DevInv /\ LifeInv

\* A FILE that ao_open_file opened.
Opened(s) == s \notin {NoStream, Stdout}

\* A FILE is owned by one device, or by the call that opened it until this
\* call has a device; only the call that failed may still name a closed one.
DeviceHasFile ==
  /\ exit = "user" => pc \in {"close", "clear", "free"}
  /\ \A d \in Devices : drv[d] = "none" => file[d] = NoStream
  /\ pc \in DevStages /\ exit # "user" => file[dev] = call.file
  /\ pc = "error" /\ dev # NoDev => file[dev] = call.file

OwnedIsOpen ==
  /\ \A d \in Devices : Opened(file[d]) => stream[file[d]] = "open"
  /\ \A d, e \in Devices : Opened(file[d]) /\ file[d] = file[e] => d = e

CallOwnsAlone ==
  call # NoCall /\ pc # "returned" /\ Opened(call.file) =>
    /\ \A d \in Devices : d # dev => file[d] # call.file
    /\ pc # "tail" => stream[call.file] = "open"

OpenIsOwned ==
  \A s \in Streams \ {Stdout} :
    stream[s] = "open" =>
      \/ \E d \in Devices : file[d] = s
      \/ call # NoCall /\ pc # "returned" /\ call.file = s

FileInv == DeviceHasFile /\ OwnedIsOpen /\ CallOwnsAlone /\ OpenIsOwned
-----------------------------------------------------------------------------
\* An option list is a sequence of options.
LEMMA OptionListsAreSequences ==
  \A opts \in OptionLists : opts \in Seq(Options)
PROOF BY DEF OptionLists

\* The matrix that set_option keeps last is one of the matrices.
LEMMA LastMatrixType ==
  ASSUME NEW opts \in Seq(Options)
  PROVE  LastMatrix(opts) \in Matrices
PROOF
<1>1. CASE \E i \in DOMAIN opts : IsLastMatrix(opts, i)
  <2>1. (CHOOSE i \in DOMAIN opts : IsLastMatrix(opts, i)) \in DOMAIN opts
    BY <1>1
  <2>2. opts[CHOOSE i \in DOMAIN opts : IsLastMatrix(opts, i)] \in Options
    BY <2>1
  <2> QED BY <1>1, <2>2 DEF LastMatrix, Matrices
<1>2. CASE ~ \E i \in DOMAIN opts : IsLastMatrix(opts, i)
  BY <1>2 DEF LastMatrix, Matrices
<1> QED BY <1>1, <1>2

\* The inductive invariant holds in every initial state.
LEMMA InitInv == Init => Inv
PROOF
<1> SUFFICES ASSUME Init PROVE Inv
  OBVIOUS
<1>1. CallType
  <2>1. todo \in Seq(Options)
    BY DEF Init
  <2>2. smatrix \in BOOLEAN
    BY DEF Init
  <2> QED BY <2>1, <2>2 DEF Init, CallType, Stages
<1>2. DeviceType
  <2>1. fmt \in [Devices -> Fmt]
    BY DeviceAssumption DEF DeviceAssumption, Init, NoFmt, Fmt
  <2> QED BY <2>1 DEF Init, DeviceType, Matrices
<1>3. WorldType
  <2>1. globals \in Seq(Options)
    BY OptionListsAreSequences DEF Init
  <2>2. disk \in [Paths -> {"absent", "readable", "unreadable"}]
    BY DeviceAssumption DEF DeviceAssumption, Init
  <2>3. ghost \in History
    BY DEF Init, NotGiven, History, Given, Matrices
  <2> QED BY <2>1, <2>2, <2>3 DEF Init, WorldType
<1>4. CallInv /\ DevInv /\ LifeInv
  BY DEF Init, CallInv, DevInv, LifeInv, CallStages, DevStages
<1> QED BY <1>1, <1>2, <1>3, <1>4 DEF Inv, TypeOK

\* The arguments of a call are of type Call, which leaves out "no call".
LEMMA CallsAreCalls ==
  ASSUME NEW id \in Drivers \cup {BadId}, NEW f \in Formats,
         NEW opts \in OptionLists, NEW s \in Streams \cup {NoStream}
  PROVE  LET c == [id |-> id, format |-> f, opts |-> opts, file |-> s]
         IN c \in Call /\ c # NoCall
BY DeviceAssumption DEF DeviceAssumption, Call

\* What a change to the history leaves well typed.
LEMMA HistoryUpdates ==
  ASSUME ghost \in History
  PROVE  /\ \A c \in Codes \cup {"0"} : [ghost EXCEPT !.cause = c] \in History
         /\ \A ps \in SUBSET Paths : [ghost EXCEPT !.clobbered = ps] \in History
         /\ \A d \in Devices, g \in Given : [ghost EXCEPT !.given[d] = g] \in History
BY DEF History

\* What the stages write to fmt.
LEMMA FormatUpdates ==
  /\ NoFmt \in Fmt
  /\ \A f \in Formats : f.channels \in 0 .. MaxChannels
  /\ \A x \in Fmt, out \in 0 .. MaxChannels :
       call.format \in Formats => Housekept(x, out) \in Fmt
  /\ \A x \in Fmt, order \in {"little", "big"}, out \in 0 .. MaxChannels :
       [x EXCEPT !.driver = order, !.out = out] \in Fmt
PROOF
<1>1. NoFmt \in Fmt
  BY DeviceAssumption DEF DeviceAssumption, NoFmt, Fmt
<1>2. \A f \in Formats : f \in Format
  BY DeviceAssumption DEF DeviceAssumption
<1>3. ASSUME NEW x \in Fmt, NEW out \in 0 .. MaxChannels, call.format \in Formats
      PROVE  Housekept(x, out) \in Fmt
  <2>1. call.format.channels \in 0 .. MaxChannels
    BY <1>2, <1>3, DeviceAssumption DEF DeviceAssumption, Format
  <2>2. call.format.wide \in BOOLEAN
    BY <1>2, <1>3 DEF Format
  <2> QED BY <1>3, <2>1, <2>2 DEF Fmt, Housekept
<1>4. \A x \in Fmt, order \in {"little", "big"}, out \in 0 .. MaxChannels :
       [x EXCEPT !.driver = order, !.out = out] \in Fmt
  BY DEF Fmt
<1>5. \A f \in Formats : f.channels \in 0 .. MaxChannels
  BY <1>2, DeviceAssumption DEF DeviceAssumption, Format
<1> QED BY <1>1, <1>3, <1>4, <1>5

\* Which calls have arguments.
LEMMA CallInvStep ==
  ASSUME CallInv, [Next]_vars
  PROVE  CallInv'
PROOF
<1>1. ASSUME NEW id \in Drivers \cup {BadId}, NEW f \in Formats, NEW opts \in OptionLists,
                    OpenLive(id, f, opts)
             PROVE  CallInv'
  BY <1>1, CallsAreCalls
  DEF OpenLive, EnterOpen, NoDevicesTouched, CallInv, CallStages
<1>2. ASSUME NEW id \in Drivers \cup {BadId}, NEW f \in Formats, NEW opts \in OptionLists,
                    OpenDash(id, f, opts)
             PROVE  CallInv'
  BY <1>2, CallsAreCalls, DeviceAssumption
  DEF OpenDash, EnterOpen, NoDevicesTouched, CallInv, CallStages,
      DeviceAssumption
<1>3. ASSUME NEW id \in Drivers \cup {BadId}, NEW f \in Formats, NEW opts \in OptionLists,
                    NEW p \in Paths, NEW overwrite \in BOOLEAN, NEW s \in Streams,
                    OpenFile(p, overwrite, s, id, f, opts)
             PROVE  CallInv'
  BY <1>3, CallsAreCalls
  DEF OpenFile, EnterOpen, NoDevicesTouched, CallInv, CallStages
<1>4. ASSUME NEW p \in Paths,
                    OpenFileExists(p)
             PROVE  CallInv'
  BY <1>4 DEF OpenFileExists, NoFile, NoDevicesTouched, CallInv, CallStages
<1>5. ASSUME NEW p \in Paths, NEW overwrite \in BOOLEAN,
                    OpenFileFails(p, overwrite)
             PROVE  CallInv'
  BY <1>5 DEF OpenFileFails, NoFile, NoDevicesTouched, CallInv, CallStages
<1>6. ASSUME NEW o \in Options,
                    AppendGlobalOption(o)
             PROVE  CallInv'
  BY <1>6 DEF AppendGlobalOption, NoDevicesTouched, CallInv, CallStages
<1>7. ASSUME NEW d \in Devices,
                    AoClose(d)
             PROVE  CallInv'
  BY <1>7 DEF AoClose, CallInv, CallStages
<1>8. CASE NoDriver
  BY <1>8
  DEF NoDriver, LookupError, Error, NoDevicesTouched, CallInv, CallStages
<1>9. CASE WrongType
  BY <1>9
  DEF WrongType, LookupError, Error, NoDevicesTouched, CallInv, CallStages
<1>10. CASE CreateFails
  BY <1>10
  DEF CreateFails, LookupError, Error, NoDevicesTouched, CallInv, CallStages
<1>11. ASSUME NEW d \in Devices,
                    CreateDevice(d)
             PROVE  CallInv'
  BY <1>11 DEF CreateDevice, RightType, CallInv, CallStages
<1>12. CASE DeviceInit
  BY <1>12
  DEF DeviceInit, OpenStage, StageUnchanged, Error, CallInv, CallStages
<1>13. CASE MatrixOption
  BY <1>13
  DEF MatrixOption, OpenStage, StageUnchanged, Abandoned, Error, CallInv,
      CallStages
<1>14. CASE OtherOption
  BY <1>14
  DEF OtherOption, OpenStage, StageUnchanged, Abandoned, Error, CallInv,
      CallStages
<1>15. CASE OptionsLoaded
  BY <1>15 DEF OptionsLoaded, OpenStage, StageUnchanged, CallInv, CallStages
<1>16. CASE Reconcile
  BY <1>16
  DEF Reconcile, OpenStage, StageUnchanged, Abandoned, Error, CallInv,
      CallStages
<1>17. CASE NoReconcile
  BY <1>17 DEF NoReconcile, OpenStage, StageUnchanged, CallInv, CallStages
<1>18. CASE DriverOpen
  BY <1>18
  DEF DriverOpen, OpenStage, StageUnchanged, Abandoned, Error, CallInv,
      CallStages
<1>19. CASE Permute
  BY <1>19 DEF Permute, OpenStage, StageUnchanged, Error, CallInv, CallStages
<1>20. CASE CreateSwapBuffer
  BY <1>20 DEF CreateSwapBuffer, Return, CallInv, CallStages
<1>21. CASE ErrorExit
  BY <1>21 DEF ErrorExit, NoDevicesTouched, CallInv, CallStages
<1>22. CASE CloseCallback
  BY <1>22 DEF CloseCallback, StageUnchanged, CallInv, CallStages
<1>23. CASE ClearCallback
  BY <1>23 DEF ClearCallback, StageUnchanged, CallInv, CallStages
<1>24. CASE AoCloseFrees
  BY <1>24 DEF AoCloseFrees, Freed, CallInv, CallStages
<1>25. CASE SwapFailureFrees
  BY <1>25 DEF SwapFailureFrees, Freed, CallInv, CallStages
<1>26. CASE OpenFailed
  BY <1>26 DEF OpenFailed, NoDevicesTouched, CallInv, CallStages
<1>27. CASE SeeFailure
  BY <1>27 DEF SeeFailure, NoDevicesTouched, CallInv, CallStages
<1>28. CASE UNCHANGED vars
  BY <1>28 DEF vars, CallInv, CallStages
<1> QED
  BY <1>1, <1>2, <1>3, <1>4, <1>5, <1>6, <1>7, <1>8, <1>9, <1>10, <1>11, <1>12,
     <1>13, <1>14, <1>15, <1>16, <1>17, <1>18, <1>19, <1>20, <1>21, <1>22,
     <1>23, <1>24, <1>25, <1>26, <1>27, <1>28
  DEF Next, Application, OpenCall, Library

\* Which stages have a device.
LEMMA DevInvStep ==
  ASSUME CallInv, DevInv, LifeInv, [Next]_vars
  PROVE  DevInv'
PROOF
<1>1. ASSUME NEW id \in Drivers \cup {BadId}, NEW f \in Formats, NEW opts \in OptionLists,
                    OpenLive(id, f, opts)
             PROVE  DevInv'
  BY <1>1 DEF OpenLive, EnterOpen, NoDevicesTouched, DevInv, DevStages
<1>2. ASSUME NEW id \in Drivers \cup {BadId}, NEW f \in Formats, NEW opts \in OptionLists,
                    OpenDash(id, f, opts)
             PROVE  DevInv'
  BY <1>2 DEF OpenDash, EnterOpen, NoDevicesTouched, DevInv, DevStages
<1>3. ASSUME NEW id \in Drivers \cup {BadId}, NEW f \in Formats, NEW opts \in OptionLists,
                    NEW p \in Paths, NEW overwrite \in BOOLEAN, NEW s \in Streams,
                    OpenFile(p, overwrite, s, id, f, opts)
             PROVE  DevInv'
  BY <1>3 DEF OpenFile, EnterOpen, NoDevicesTouched, DevInv, DevStages
<1>4. ASSUME NEW p \in Paths,
                    OpenFileExists(p)
             PROVE  DevInv'
  BY <1>4 DEF OpenFileExists, NoFile, NoDevicesTouched, DevInv, DevStages
<1>5. ASSUME NEW p \in Paths, NEW overwrite \in BOOLEAN,
                    OpenFileFails(p, overwrite)
             PROVE  DevInv'
  BY <1>5 DEF OpenFileFails, NoFile, NoDevicesTouched, DevInv, DevStages
<1>6. ASSUME NEW o \in Options,
                    AppendGlobalOption(o)
             PROVE  DevInv'
  BY <1>6 DEF AppendGlobalOption, NoDevicesTouched, DevInv, DevStages
<1>7. ASSUME NEW d \in Devices,
                    AoClose(d)
             PROVE  DevInv'
  BY <1>7 DEF AoClose, DevInv, DevStages
<1>8. CASE NoDriver
  BY <1>8
  DEF NoDriver, LookupError, Error, NoDevicesTouched, DevInv, DevStages
<1>9. CASE WrongType
  BY <1>9
  DEF WrongType, LookupError, Error, NoDevicesTouched, DevInv, DevStages
<1>10. CASE CreateFails
  BY <1>10
  DEF CreateFails, LookupError, Error, NoDevicesTouched, DevInv, DevStages
<1>11. ASSUME NEW d \in Devices,
                    CreateDevice(d)
             PROVE  DevInv'
  BY <1>11, DeviceAssumption
  DEF CreateDevice, RightType, DevInv, DevStages, DeviceAssumption, LifeInv
<1>12. CASE DeviceInit
  BY <1>12
  DEF DeviceInit, OpenStage, StageUnchanged, Error, DevInv, DevStages
<1>13. CASE MatrixOption
  BY <1>13
  DEF MatrixOption, OpenStage, StageUnchanged, Abandoned, Error, DevInv,
      DevStages
<1>14. CASE OtherOption
  BY <1>14
  DEF OtherOption, OpenStage, StageUnchanged, Abandoned, Error, DevInv,
      DevStages
<1>15. CASE OptionsLoaded
  BY <1>15 DEF OptionsLoaded, OpenStage, StageUnchanged, DevInv, DevStages
<1>16. CASE Reconcile
  BY <1>16
  DEF Reconcile, OpenStage, StageUnchanged, Abandoned, Error, DevInv, DevStages
<1>17. CASE NoReconcile
  BY <1>17 DEF NoReconcile, OpenStage, StageUnchanged, DevInv, DevStages
<1>18. CASE DriverOpen
  BY <1>18
  DEF DriverOpen, OpenStage, StageUnchanged, Abandoned, Error, DevInv, DevStages
<1>19. CASE Permute
  BY <1>19 DEF Permute, OpenStage, StageUnchanged, Error, DevInv, DevStages
<1>20. CASE CreateSwapBuffer
  BY <1>20 DEF CreateSwapBuffer, Return, DevInv, DevStages
<1>21. CASE ErrorExit
  BY <1>21 DEF ErrorExit, NoDevicesTouched, DevInv, DevStages
<1>22. CASE CloseCallback
  BY <1>22 DEF CloseCallback, StageUnchanged, DevInv, DevStages
<1>23. CASE ClearCallback
  BY <1>23 DEF ClearCallback, StageUnchanged, DevInv, DevStages
<1>24. CASE AoCloseFrees
  BY <1>24 DEF AoCloseFrees, Freed, DevInv, DevStages
<1>25. CASE SwapFailureFrees
  BY <1>25 DEF SwapFailureFrees, Freed, DevInv, DevStages
<1>26. CASE OpenFailed
  BY <1>26 DEF OpenFailed, NoDevicesTouched, DevInv, DevStages
<1>27. CASE SeeFailure
  BY <1>27 DEF SeeFailure, NoDevicesTouched, DevInv, DevStages
<1>28. CASE UNCHANGED vars
  BY <1>28 DEF vars, DevInv, DevStages
<1> QED
  BY <1>1, <1>2, <1>3, <1>4, <1>5, <1>6, <1>7, <1>8, <1>9, <1>10, <1>11, <1>12,
     <1>13, <1>14, <1>15, <1>16, <1>17, <1>18, <1>19, <1>20, <1>21, <1>22,
     <1>23, <1>24, <1>25, <1>26, <1>27, <1>28
  DEF Next, Application, OpenCall, Library

\* What the driver has seen of each device.
LEMMA LifeInvStep ==
  ASSUME DeviceType, CallInv, DevInv, LifeInv, [Next]_vars
  PROVE  LifeInv'
PROOF
<1>1. ASSUME NEW id \in Drivers \cup {BadId}, NEW f \in Formats, NEW opts \in OptionLists,
                    OpenLive(id, f, opts)
             PROVE  LifeInv'
  BY <1>1
  DEF OpenLive, EnterOpen, NoDevicesTouched, DeviceType, LifeInv, DevInv,
      DevStages
<1>2. ASSUME NEW id \in Drivers \cup {BadId}, NEW f \in Formats, NEW opts \in OptionLists,
                    OpenDash(id, f, opts)
             PROVE  LifeInv'
  BY <1>2
  DEF OpenDash, EnterOpen, NoDevicesTouched, DeviceType, LifeInv, DevInv,
      DevStages
<1>3. ASSUME NEW id \in Drivers \cup {BadId}, NEW f \in Formats, NEW opts \in OptionLists,
                    NEW p \in Paths, NEW overwrite \in BOOLEAN, NEW s \in Streams,
                    OpenFile(p, overwrite, s, id, f, opts)
             PROVE  LifeInv'
  BY <1>3
  DEF OpenFile, EnterOpen, NoDevicesTouched, DeviceType, LifeInv, DevInv,
      DevStages
<1>4. ASSUME NEW p \in Paths,
                    OpenFileExists(p)
             PROVE  LifeInv'
  BY <1>4
  DEF OpenFileExists, NoFile, NoDevicesTouched, DeviceType, LifeInv, DevInv,
      DevStages
<1>5. ASSUME NEW p \in Paths, NEW overwrite \in BOOLEAN,
                    OpenFileFails(p, overwrite)
             PROVE  LifeInv'
  BY <1>5
  DEF OpenFileFails, NoFile, NoDevicesTouched, DeviceType, LifeInv, DevInv,
      DevStages
<1>6. ASSUME NEW o \in Options,
                    AppendGlobalOption(o)
             PROVE  LifeInv'
  BY <1>6
  DEF AppendGlobalOption, NoDevicesTouched, DeviceType, LifeInv, DevInv,
      DevStages
<1>7. ASSUME NEW d \in Devices,
                    AoClose(d)
             PROVE  LifeInv'
  BY <1>7, DeviceAssumption
  DEF AoClose, DeviceType, LifeInv, DevInv, DevStages, DeviceAssumption
<1>8. CASE NoDriver
  BY <1>8
  DEF NoDriver, LookupError, Error, NoDevicesTouched, DeviceType, LifeInv,
      DevInv, DevStages
<1>9. CASE WrongType
  BY <1>9
  DEF WrongType, LookupError, Error, NoDevicesTouched, DeviceType, LifeInv,
      DevInv, DevStages
<1>10. CASE CreateFails
  BY <1>10
  DEF CreateFails, LookupError, Error, NoDevicesTouched, DeviceType, LifeInv,
      DevInv, DevStages
<1>11. ASSUME NEW d \in Devices,
                    CreateDevice(d)
             PROVE  LifeInv'
  BY <1>11, DeviceAssumption
  DEF CreateDevice, RightType, DeviceType, LifeInv, DevInv, DevStages,
      DeviceAssumption
<1>12. CASE DeviceInit
  BY <1>12
  DEF DeviceInit, OpenStage, StageUnchanged, Error, DeviceType, LifeInv, DevInv,
      DevStages
<1>13. CASE MatrixOption
  BY <1>13
  DEF MatrixOption, OpenStage, StageUnchanged, Abandoned, Error, DeviceType,
      LifeInv, DevInv, DevStages
<1>14. CASE OtherOption
  BY <1>14
  DEF OtherOption, OpenStage, StageUnchanged, Abandoned, Error, DeviceType,
      LifeInv, DevInv, DevStages
<1>15. CASE OptionsLoaded
  BY <1>15
  DEF OptionsLoaded, OpenStage, StageUnchanged, DeviceType, LifeInv, DevInv,
      DevStages
<1>16. CASE Reconcile
  BY <1>16
  DEF Reconcile, OpenStage, StageUnchanged, Abandoned, Error, DeviceType,
      LifeInv, DevInv, DevStages
<1>17. CASE NoReconcile
  BY <1>17
  DEF NoReconcile, OpenStage, StageUnchanged, DeviceType, LifeInv, DevInv,
      DevStages
<1>18. CASE DriverOpen
  BY <1>18
  DEF DriverOpen, OpenStage, StageUnchanged, Abandoned, Error, DeviceType,
      LifeInv, DevInv, DevStages
<1>19. CASE Permute
  BY <1>19
  DEF Permute, OpenStage, StageUnchanged, Error, DeviceType, LifeInv, DevInv,
      DevStages
<1>20. CASE CreateSwapBuffer
  BY <1>20
  DEF CreateSwapBuffer, Return, DeviceType, LifeInv, DevInv, DevStages
<1>21. CASE ErrorExit
  BY <1>21
  DEF ErrorExit, NoDevicesTouched, DeviceType, LifeInv, DevInv, DevStages
<1>22. CASE CloseCallback
  BY <1>22
  DEF CloseCallback, StageUnchanged, DeviceType, LifeInv, DevInv, DevStages
<1>23. CASE ClearCallback
  BY <1>23
  DEF ClearCallback, StageUnchanged, DeviceType, LifeInv, DevInv, DevStages
<1>24. CASE AoCloseFrees
  BY <1>24, DeviceAssumption
  DEF AoCloseFrees, Freed, DeviceType, LifeInv, DevInv, DevStages,
      DeviceAssumption
<1>25. CASE SwapFailureFrees
  BY <1>25, DeviceAssumption
  DEF SwapFailureFrees, Freed, DeviceType, LifeInv, DevInv, DevStages,
      DeviceAssumption
<1>26. CASE OpenFailed
  BY <1>26
  DEF OpenFailed, NoDevicesTouched, DeviceType, LifeInv, DevInv, DevStages
<1>27. CASE SeeFailure
  BY <1>27
  DEF SeeFailure, NoDevicesTouched, DeviceType, LifeInv, DevInv, DevStages
<1>28. CASE UNCHANGED vars
  BY <1>28 DEF vars, DeviceType, LifeInv, DevInv, DevStages
<1> QED
  BY <1>1, <1>2, <1>3, <1>4, <1>5, <1>6, <1>7, <1>8, <1>9, <1>10, <1>11, <1>12,
     <1>13, <1>14, <1>15, <1>16, <1>17, <1>18, <1>19, <1>20, <1>21, <1>22,
     <1>23, <1>24, <1>25, <1>26, <1>27, <1>28
  DEF Next, Application, OpenCall, Library

\* Type correctness of the call in progress.
LEMMA CallTypeStep ==
  ASSUME CallType, WorldType, CallInv, DevInv, [Next]_vars
  PROVE  CallType'
PROOF
<1>1. ASSUME NEW id \in Drivers \cup {BadId}, NEW f \in Formats, NEW opts \in OptionLists,
                    OpenLive(id, f, opts)
             PROVE  CallType'
  BY <1>1, CallsAreCalls
  DEF OpenLive, EnterOpen, NoDevicesTouched, CallType, Stages
<1>2. ASSUME NEW id \in Drivers \cup {BadId}, NEW f \in Formats, NEW opts \in OptionLists,
                    OpenDash(id, f, opts)
             PROVE  CallType'
  BY <1>2, CallsAreCalls, DeviceAssumption
  DEF OpenDash, EnterOpen, NoDevicesTouched, CallType, Stages, DeviceAssumption
<1>3. ASSUME NEW id \in Drivers \cup {BadId}, NEW f \in Formats, NEW opts \in OptionLists,
                    NEW p \in Paths, NEW overwrite \in BOOLEAN, NEW s \in Streams,
                    OpenFile(p, overwrite, s, id, f, opts)
             PROVE  CallType'
  BY <1>3, CallsAreCalls
  DEF OpenFile, EnterOpen, NoDevicesTouched, CallType, Stages
<1>4. ASSUME NEW p \in Paths,
                    OpenFileExists(p)
             PROVE  CallType'
  BY <1>4
  DEF OpenFileExists, NoFile, NoDevicesTouched, CallType, Stages, Codes
<1>5. ASSUME NEW p \in Paths, NEW overwrite \in BOOLEAN,
                    OpenFileFails(p, overwrite)
             PROVE  CallType'
  BY <1>5
  DEF OpenFileFails, NoFile, NoDevicesTouched, CallType, Stages, Codes
<1>6. ASSUME NEW o \in Options,
                    AppendGlobalOption(o)
             PROVE  CallType'
  BY <1>6 DEF AppendGlobalOption, NoDevicesTouched, CallType, Stages
<1>7. ASSUME NEW d \in Devices,
                    AoClose(d)
             PROVE  CallType'
  BY <1>7 DEF AoClose, CallType, Stages
<1>8. CASE NoDriver
  BY <1>8
  DEF NoDriver, LookupError, Error, NoDevicesTouched, CallType, Stages, Codes
<1>9. CASE WrongType
  BY <1>9
  DEF WrongType, LookupError, Error, NoDevicesTouched, CallType, Stages, Codes
<1>10. CASE CreateFails
  BY <1>10
  DEF CreateFails, LookupError, Error, NoDevicesTouched, CallType, Stages, Codes
<1>11. ASSUME NEW d \in Devices,
                    CreateDevice(d)
             PROVE  CallType'
  BY <1>11 DEF CreateDevice, RightType, CallType, Stages
<1>12. CASE DeviceInit
  <2>1. call \in Call
    BY <1>12 DEF CallType, CallInv, CallStages, DeviceInit
  <2>2. OptionOrder \in Seq(Options)
    BY <2>1, OptionListsAreSequences DEF Call, OptionOrder, WorldType
  <2> QED BY <1>12, <2>2 DEF DeviceInit, OpenStage, StageUnchanged, Error, CallType, Stages, Codes
<1>13. CASE MatrixOption
  <2>1. todo' \in Seq(Options)
    BY <1>13
    DEF MatrixOption, OpenStage, StageUnchanged, Abandoned, Error, CallType,
        Stages
  <2> QED BY <1>13, <2>1 DEF MatrixOption, OpenStage, StageUnchanged, Abandoned, Error, CallType, Stages, Codes
<1>14. CASE OtherOption
  <2>1. todo' \in Seq(Options)
    BY <1>14
    DEF OtherOption, OpenStage, StageUnchanged, Abandoned, Error, CallType, Stages
  <2> QED BY <1>14, <2>1 DEF OtherOption, OpenStage, StageUnchanged, Abandoned, Error, CallType, Stages, Codes
<1>15. CASE OptionsLoaded
  <2>1. smatrix' \in BOOLEAN
    BY <1>15 DEF OptionsLoaded, UsableMatrix
  <2> QED BY <1>15, <2>1 DEF OptionsLoaded, OpenStage, StageUnchanged, CallType, Stages
<1>16. CASE Reconcile
  BY <1>16
  DEF Reconcile, OpenStage, StageUnchanged, Abandoned, Error, CallType, Stages,
      Codes
<1>17. CASE NoReconcile
  BY <1>17 DEF NoReconcile, OpenStage, StageUnchanged, CallType, Stages
<1>18. CASE DriverOpen
  BY <1>18
  DEF DriverOpen, OpenStage, StageUnchanged, Abandoned, Error, CallType, Stages,
      Codes
<1>19. CASE Permute
  BY <1>19
  DEF Permute, OpenStage, StageUnchanged, Error, CallType, Stages, Codes
<1>20. CASE CreateSwapBuffer
  BY <1>20 DEF CreateSwapBuffer, Return, CallType, Stages, Codes
<1>21. CASE ErrorExit
  BY <1>21 DEF ErrorExit, NoDevicesTouched, CallType, Stages
<1>22. CASE CloseCallback
  BY <1>22 DEF CloseCallback, StageUnchanged, CallType, Stages
<1>23. CASE ClearCallback
  BY <1>23 DEF ClearCallback, StageUnchanged, CallType, Stages
<1>24. CASE AoCloseFrees
  BY <1>24 DEF AoCloseFrees, Freed, CallType, Stages, Codes, ErrnoOfFailure
<1>25. CASE SwapFailureFrees
  BY <1>25 DEF SwapFailureFrees, Freed, CallType, Stages, Codes
<1>26. CASE OpenFailed
  BY <1>26 DEF OpenFailed, NoDevicesTouched, CallType, Stages
<1>27. CASE SeeFailure
  <2>1. todo' \in Seq(Options)
    BY <1>27 DEF SeeFailure
  <2>2. smatrix' \in BOOLEAN
    BY <1>27 DEF SeeFailure
  <2> QED BY <1>27, <2>1, <2>2 DEF SeeFailure, NoDevicesTouched, CallType, Stages
<1>28. CASE UNCHANGED vars
  BY <1>28 DEF vars, CallType, Stages
<1> QED
  BY <1>1, <1>2, <1>3, <1>4, <1>5, <1>6, <1>7, <1>8, <1>9, <1>10, <1>11, <1>12,
     <1>13, <1>14, <1>15, <1>16, <1>17, <1>18, <1>19, <1>20, <1>21, <1>22,
     <1>23, <1>24, <1>25, <1>26, <1>27, <1>28
  DEF Next, Application, OpenCall, Library

\* Type correctness of the device structures.
LEMMA DeviceTypeStep ==
  ASSUME CallType, DeviceType, CallInv, DevInv, [Next]_vars
  PROVE  DeviceType'
PROOF
<1>1. ASSUME NEW id \in Drivers \cup {BadId}, NEW f \in Formats, NEW opts \in OptionLists,
                    OpenLive(id, f, opts)
             PROVE  DeviceType'
  BY <1>1 DEF OpenLive, EnterOpen, NoDevicesTouched, DeviceType
<1>2. ASSUME NEW id \in Drivers \cup {BadId}, NEW f \in Formats, NEW opts \in OptionLists,
                    OpenDash(id, f, opts)
             PROVE  DeviceType'
  BY <1>2 DEF OpenDash, EnterOpen, NoDevicesTouched, DeviceType
<1>3. ASSUME NEW id \in Drivers \cup {BadId}, NEW f \in Formats, NEW opts \in OptionLists,
                    NEW p \in Paths, NEW overwrite \in BOOLEAN, NEW s \in Streams,
                    OpenFile(p, overwrite, s, id, f, opts)
             PROVE  DeviceType'
  BY <1>3 DEF OpenFile, EnterOpen, NoDevicesTouched, DeviceType
<1>4. ASSUME NEW p \in Paths,
                    OpenFileExists(p)
             PROVE  DeviceType'
  BY <1>4 DEF OpenFileExists, NoFile, NoDevicesTouched, DeviceType
<1>5. ASSUME NEW p \in Paths, NEW overwrite \in BOOLEAN,
                    OpenFileFails(p, overwrite)
             PROVE  DeviceType'
  BY <1>5 DEF OpenFileFails, NoFile, NoDevicesTouched, DeviceType
<1>6. ASSUME NEW o \in Options,
                    AppendGlobalOption(o)
             PROVE  DeviceType'
  BY <1>6 DEF AppendGlobalOption, NoDevicesTouched, DeviceType
<1>7. ASSUME NEW d \in Devices,
                    AoClose(d)
             PROVE  DeviceType'
  BY <1>7 DEF AoClose, DeviceType
<1>8. CASE NoDriver
  BY <1>8 DEF NoDriver, LookupError, Error, NoDevicesTouched, DeviceType
<1>9. CASE WrongType
  BY <1>9 DEF WrongType, LookupError, Error, NoDevicesTouched, DeviceType
<1>10. CASE CreateFails
  BY <1>10 DEF CreateFails, LookupError, Error, NoDevicesTouched, DeviceType
<1>11. ASSUME NEW d \in Devices,
                    CreateDevice(d)
             PROVE  DeviceType'
  <2>1. call.format \in Formats /\ call.file \in Streams \cup {NoStream}
    BY <1>11 DEF CreateDevice, CallType, Call, CallInv, CallStages
  <2>2. call.format \in Format
    BY <2>1, DeviceAssumption DEF DeviceAssumption
  <2>3. fmt' \in [Devices -> Fmt]
    BY <1>11, <2>2, DeviceAssumption
    DEF CreateDevice, DeviceType, Format, Fmt, DeviceAssumption
  <2> QED BY <1>11, <2>1, <2>3 DEF CreateDevice, RightType, DeviceType, Matrices
<1>12. CASE DeviceInit
  <2>1. dev \in Devices
    BY <1>12 DEF DeviceInit, DevInv, DevStages
  <2> QED BY <1>12, <2>1 DEF DeviceInit, OpenStage, StageUnchanged, Error, DeviceType, Matrices, Buffers
<1>13. CASE MatrixOption
  <2>1. dev \in Devices
    BY <1>13 DEF MatrixOption, DevInv, DevStages
  <2>2. MatrixValue[Head(todo)] \in Matrices
    BY <1>13 DEF MatrixOption, CallType, Matrices
  <2> QED BY <1>13, <2>1, <2>2 DEF MatrixOption, OpenStage, StageUnchanged, Abandoned, Error, DeviceType, Matrices, Buffers
<1>14. CASE OtherOption
  BY <1>14
  DEF OtherOption, OpenStage, StageUnchanged, Abandoned, Error, DeviceType
<1>15. CASE OptionsLoaded
  BY <1>15 DEF OptionsLoaded, OpenStage, StageUnchanged, DeviceType
<1>16. CASE Reconcile
  <2>1. dev \in Devices
    BY <1>16 DEF Reconcile, DevInv, DevStages
  <2>2. call.format \in Formats
    BY <1>16 DEF Reconcile, CallType, Call, CallInv, CallStages
  <2>3. ASSUME NEW out \in 1 .. MaxChannels
        PROVE  Housekept(fmt[dev], out) \in Fmt
    <3>1. fmt[dev] \in Fmt /\ out \in 0 .. MaxChannels
      BY <2>1 DEF DeviceType
    <3> QED BY <2>2, <3>1, FormatUpdates
  <2> QED BY <1>16, <2>1, <2>3 DEF Reconcile, OpenStage, StageUnchanged, Abandoned, Error, DeviceType, Buffers
<1>17. CASE NoReconcile
  <2>1. dev \in Devices
    BY <1>17 DEF NoReconcile, DevInv, DevStages
  <2>2. call.format \in Formats
    BY <1>17 DEF NoReconcile, CallType, Call, CallInv, CallStages
  <2>3. Housekept(fmt[dev], call.format.channels) \in Fmt
    <3>1. fmt[dev] \in Fmt
      BY <2>1 DEF DeviceType
    <3>2. call.format.channels \in 0 .. MaxChannels
      BY <2>2, FormatUpdates
    <3> QED BY <2>2, <3>1, <3>2, FormatUpdates
  <2> QED BY <1>17, <2>1, <2>3 DEF NoReconcile, OpenStage, StageUnchanged, DeviceType
<1>18. CASE DriverOpen
  <2>1. dev \in Devices
    BY <1>18 DEF DriverOpen, DevInv, DevStages
  <2>2. \A order \in {"little", "big"}, out \in 0 .. MaxChannels :
          [fmt EXCEPT ![dev].driver = order, ![dev].out = out] \in [Devices -> Fmt]
    BY <2>1, FormatUpdates DEF DeviceType
  <2>3. fmt' \in [Devices -> Fmt]
    BY <1>18, <2>2 DEF DriverOpen, DeviceType
  <2> QED BY <1>18, <2>1, <2>3 DEF DriverOpen, OpenStage, StageUnchanged, Abandoned, Error, DeviceType, Buffers
<1>19. CASE Permute
  <2>1. dev \in Devices
    BY <1>19 DEF Permute, DevInv, DevStages
  <2>2. call.format \in Formats
    BY <1>19 DEF Permute, CallType, Call, CallInv, CallStages
  <2> QED BY <1>19, <2>1, <2>2 DEF Permute, OpenStage, StageUnchanged, Error, DeviceType, Buffers
<1>20. CASE CreateSwapBuffer
  <2>1. dev \in Devices
    BY <1>20 DEF CreateSwapBuffer, DevInv, DevStages
  <2>2. call.format \in Formats
    BY <1>20 DEF CreateSwapBuffer, CallType, Call, CallInv, CallStages
  <2> QED BY <1>20, <2>1, <2>2 DEF CreateSwapBuffer, Return, DeviceType, Buffers
<1>21. CASE ErrorExit
  BY <1>21 DEF ErrorExit, NoDevicesTouched, DeviceType
<1>22. CASE CloseCallback
  BY <1>22 DEF CloseCallback, StageUnchanged, DeviceType
<1>23. CASE ClearCallback
  BY <1>23 DEF ClearCallback, StageUnchanged, DeviceType
<1>24. CASE AoCloseFrees
  <2>1. dev \in Devices
    BY <1>24 DEF AoCloseFrees, DevInv, DevStages
  <2> QED BY <1>24, <2>1, FormatUpdates DEF AoCloseFrees, Freed, DeviceType, Matrices
<1>25. CASE SwapFailureFrees
  <2>1. dev \in Devices
    BY <1>25 DEF SwapFailureFrees, DevInv, DevStages
  <2> QED BY <1>25, <2>1, FormatUpdates DEF SwapFailureFrees, Freed, DeviceType, Matrices
<1>26. CASE OpenFailed
  BY <1>26 DEF OpenFailed, NoDevicesTouched, DeviceType
<1>27. CASE SeeFailure
  BY <1>27 DEF SeeFailure, NoDevicesTouched, DeviceType
<1>28. CASE UNCHANGED vars
  BY <1>28 DEF vars, DeviceType
<1> QED
  BY <1>1, <1>2, <1>3, <1>4, <1>5, <1>6, <1>7, <1>8, <1>9, <1>10, <1>11, <1>12,
     <1>13, <1>14, <1>15, <1>16, <1>17, <1>18, <1>19, <1>20, <1>21, <1>22,
     <1>23, <1>24, <1>25, <1>26, <1>27, <1>28
  DEF Next, Application, OpenCall, Library

\* Type correctness of files, options and history.
LEMMA WorldTypeStep ==
  ASSUME CallType, WorldType, CallInv, DevInv, [Next]_vars
  PROVE  WorldType'
PROOF
<1>1. ASSUME NEW id \in Drivers \cup {BadId}, NEW f \in Formats, NEW opts \in OptionLists,
                    OpenLive(id, f, opts)
             PROVE  WorldType'
  BY <1>1 DEF OpenLive, EnterOpen, NoDevicesTouched, WorldType
<1>2. ASSUME NEW id \in Drivers \cup {BadId}, NEW f \in Formats, NEW opts \in OptionLists,
                    OpenDash(id, f, opts)
             PROVE  WorldType'
  BY <1>2 DEF OpenDash, EnterOpen, NoDevicesTouched, WorldType
<1>3. ASSUME NEW id \in Drivers \cup {BadId}, NEW f \in Formats, NEW opts \in OptionLists,
                    NEW p \in Paths, NEW overwrite \in BOOLEAN, NEW s \in Streams,
                    OpenFile(p, overwrite, s, id, f, opts)
             PROVE  WorldType'
  <2>1. ghost.clobbered \in SUBSET Paths
    BY DEF WorldType, History
  <2>2. ghost' \in History
    BY <1>3, <2>1, HistoryUpdates DEF OpenFile, WorldType
  <2> QED BY <1>3, <2>2 DEF OpenFile, EnterOpen, NoDevicesTouched, WorldType
<1>4. ASSUME NEW p \in Paths,
                    OpenFileExists(p)
             PROVE  WorldType'
  BY <1>4, HistoryUpdates
  DEF OpenFileExists, NoFile, NoDevicesTouched, WorldType, Codes
<1>5. ASSUME NEW p \in Paths, NEW overwrite \in BOOLEAN,
                    OpenFileFails(p, overwrite)
             PROVE  WorldType'
  BY <1>5, HistoryUpdates
  DEF OpenFileFails, NoFile, NoDevicesTouched, WorldType, Codes
<1>6. ASSUME NEW o \in Options,
                    AppendGlobalOption(o)
             PROVE  WorldType'
  BY <1>6 DEF AppendGlobalOption, NoDevicesTouched, WorldType
<1>7. ASSUME NEW d \in Devices,
                    AoClose(d)
             PROVE  WorldType'
  BY <1>7 DEF AoClose, WorldType
<1>8. CASE NoDriver
  BY <1>8, HistoryUpdates
  DEF NoDriver, LookupError, Error, NoDevicesTouched, WorldType, Codes
<1>9. CASE WrongType
  BY <1>9, HistoryUpdates
  DEF WrongType, LookupError, Error, NoDevicesTouched, WorldType, Codes
<1>10. CASE CreateFails
  BY <1>10, HistoryUpdates
  DEF CreateFails, LookupError, Error, NoDevicesTouched, WorldType, Codes
<1>11. ASSUME NEW d \in Devices,
                    CreateDevice(d)
             PROVE  WorldType'
  BY <1>11 DEF CreateDevice, RightType, WorldType
<1>12. CASE DeviceInit
  <2>1. dev \in Devices /\ call \in Call
    BY <1>12 DEF DeviceInit, DevInv, DevStages, CallType, CallInv, CallStages
  <2>2. [global |-> LastMatrix(globals), local |-> LastMatrix(call.opts)] \in Given
    BY <2>1, LastMatrixType, OptionListsAreSequences
    DEF WorldType, Call, Given
  <2>3. ghost' \in History
    BY <1>12, <2>1, <2>2, HistoryUpdates
    DEF DeviceInit, Error, WorldType, Codes
  <2> QED BY <1>12, <2>3 DEF DeviceInit, OpenStage, StageUnchanged, Error, WorldType
<1>13. CASE MatrixOption
  <2>1. \/ ghost' = ghost
        \/ \E c \in Codes : ghost' = [ghost EXCEPT !.cause = c]
    BY <1>13 DEF MatrixOption, Error, Codes
  <2>2. ghost' \in History
    BY <2>1, HistoryUpdates DEF WorldType
  <2> QED BY <1>13, <2>2 DEF MatrixOption, OpenStage, StageUnchanged, Abandoned, Error, WorldType
<1>14. CASE OtherOption
  BY <1>14, HistoryUpdates
  DEF OtherOption, OpenStage, StageUnchanged, Abandoned, Error, WorldType, Codes
<1>15. CASE OptionsLoaded
  BY <1>15 DEF OptionsLoaded, OpenStage, StageUnchanged, WorldType
<1>16. CASE Reconcile
  <2>1. \/ ghost' = ghost
        \/ \E c \in Codes : ghost' = [ghost EXCEPT !.cause = c]
    BY <1>16 DEF Reconcile, Error, Codes
  <2>2. ghost' \in History
    BY <2>1, HistoryUpdates DEF WorldType
  <2> QED BY <1>16, <2>2 DEF Reconcile, OpenStage, StageUnchanged, Abandoned, Error, WorldType
<1>17. CASE NoReconcile
  BY <1>17 DEF NoReconcile, OpenStage, StageUnchanged, WorldType
<1>18. CASE DriverOpen
  <2>1. \/ ghost' = ghost
        \/ \E c \in Codes : ghost' = [ghost EXCEPT !.cause = c]
    BY <1>18 DEF DriverOpen, Error, Codes
  <2>2. ghost' \in History
    BY <2>1, HistoryUpdates DEF WorldType
  <2> QED BY <1>18, <2>2 DEF DriverOpen, OpenStage, StageUnchanged, Abandoned, Error, WorldType
<1>19. CASE Permute
  <2>1. \/ ghost' = ghost
        \/ \E c \in Codes : ghost' = [ghost EXCEPT !.cause = c]
    BY <1>19 DEF Permute, Error, Codes
  <2>2. ghost' \in History
    BY <2>1, HistoryUpdates DEF WorldType
  <2> QED BY <1>19, <2>2 DEF Permute, OpenStage, StageUnchanged, Error, WorldType
<1>20. CASE CreateSwapBuffer
  BY <1>20, HistoryUpdates DEF CreateSwapBuffer, Return, WorldType, Codes
<1>21. CASE ErrorExit
  BY <1>21 DEF ErrorExit, NoDevicesTouched, WorldType
<1>22. CASE CloseCallback
  BY <1>22 DEF CloseCallback, StageUnchanged, WorldType
<1>23. CASE ClearCallback
  BY <1>23 DEF ClearCallback, StageUnchanged, WorldType
<1>24. CASE AoCloseFrees
  <2>1. dev \in Devices /\ NotGiven \in Given
    BY <1>24 DEF AoCloseFrees, DevInv, DevStages, NotGiven, Given, Matrices
  <2>2. stream' \in [Streams -> {"open", "closed"}]
    BY <1>24 DEF AoCloseFrees, Closed, WorldType
  <2> QED BY <1>24, <2>1, <2>2, HistoryUpdates DEF AoCloseFrees, Freed, WorldType
<1>25. CASE SwapFailureFrees
  <2>1. dev \in Devices /\ NotGiven \in Given
    BY <1>25
    DEF SwapFailureFrees, DevInv, DevStages, NotGiven, Given, Matrices
  <2>2. stream' \in [Streams -> {"open", "closed"}]
    BY <1>25 DEF SwapFailureFrees, Closed, WorldType
  <2> QED BY <1>25, <2>1, <2>2, HistoryUpdates DEF SwapFailureFrees, Freed, WorldType
<1>26. CASE OpenFailed
  BY <1>26 DEF OpenFailed, NoDevicesTouched, WorldType, Closed
<1>27. CASE SeeFailure
  BY <1>27, HistoryUpdates DEF SeeFailure, NoDevicesTouched, WorldType, Codes
<1>28. CASE UNCHANGED vars
  BY <1>28 DEF vars, WorldType
<1> QED
  BY <1>1, <1>2, <1>3, <1>4, <1>5, <1>6, <1>7, <1>8, <1>9, <1>10, <1>11, <1>12,
     <1>13, <1>14, <1>15, <1>16, <1>17, <1>18, <1>19, <1>20, <1>21, <1>22,
     <1>23, <1>24, <1>25, <1>26, <1>27, <1>28
  DEF Next, Application, OpenCall, Library

\* Every step keeps it.
LEMMA InvStep == Inv /\ [Next]_vars => Inv'
BY CallInvStep, DevInvStep, LifeInvStep, CallTypeStep, DeviceTypeStep, WorldTypeStep
DEF Inv, TypeOK

\* It holds always.
LEMMA Invariance == Spec => []Inv
<1>1. Init => Inv
  BY InitInv
<1>2. Inv /\ [Next]_vars => Inv'
  BY InvStep
<1> QED BY <1>1, <1>2, PTL DEF Spec

\* TypeOK holds for any number of devices, files, drivers, options and formats.
THEOREM TypeCorrect == Spec => []TypeOK
<1>1. Inv => TypeOK
  BY DEF Inv
<1> QED BY <1>1, Invariance, PTL

\* A step as PluginContract sees it.
ContractStep == Contract!ContractNext \/ UNCHANGED drv

\* Every step is a step of PluginContract or leaves the driver alone.
LEMMA ContractStepHolds ==
  ASSUME DeviceType, DevInv, LifeInv, [Next]_vars
  PROVE  ContractStep
PROOF
<1>1. ASSUME NEW id \in Drivers \cup {BadId}, NEW f \in Formats, NEW opts \in OptionLists,
                    OpenLive(id, f, opts)
             PROVE  ContractStep
  BY <1>1
  DEF OpenLive, EnterOpen, NoDevicesTouched, ContractStep, DeviceType, DevInv,
      DevStages, LifeInv
<1>2. ASSUME NEW id \in Drivers \cup {BadId}, NEW f \in Formats, NEW opts \in OptionLists,
                    OpenDash(id, f, opts)
             PROVE  ContractStep
  BY <1>2
  DEF OpenDash, EnterOpen, NoDevicesTouched, ContractStep, DeviceType, DevInv,
      DevStages, LifeInv
<1>3. ASSUME NEW id \in Drivers \cup {BadId}, NEW f \in Formats, NEW opts \in OptionLists,
                    NEW p \in Paths, NEW overwrite \in BOOLEAN, NEW s \in Streams,
                    OpenFile(p, overwrite, s, id, f, opts)
             PROVE  ContractStep
  BY <1>3
  DEF OpenFile, EnterOpen, NoDevicesTouched, ContractStep, DeviceType, DevInv,
      DevStages, LifeInv
<1>4. ASSUME NEW p \in Paths,
                    OpenFileExists(p)
             PROVE  ContractStep
  BY <1>4
  DEF OpenFileExists, NoFile, NoDevicesTouched, ContractStep, DeviceType,
      DevInv, DevStages, LifeInv
<1>5. ASSUME NEW p \in Paths, NEW overwrite \in BOOLEAN,
                    OpenFileFails(p, overwrite)
             PROVE  ContractStep
  BY <1>5
  DEF OpenFileFails, NoFile, NoDevicesTouched, ContractStep, DeviceType, DevInv,
      DevStages, LifeInv
<1>6. ASSUME NEW o \in Options,
                    AppendGlobalOption(o)
             PROVE  ContractStep
  BY <1>6
  DEF AppendGlobalOption, NoDevicesTouched, ContractStep, DeviceType, DevInv,
      DevStages, LifeInv
<1>7. ASSUME NEW d \in Devices,
                    AoClose(d)
             PROVE  ContractStep
  BY <1>7 DEF AoClose, ContractStep, DeviceType, DevInv, DevStages, LifeInv
<1>8. CASE NoDriver
  BY <1>8
  DEF NoDriver, LookupError, Error, NoDevicesTouched, ContractStep, DeviceType,
      DevInv, DevStages, LifeInv
<1>9. CASE WrongType
  BY <1>9
  DEF WrongType, LookupError, Error, NoDevicesTouched, ContractStep, DeviceType,
      DevInv, DevStages, LifeInv
<1>10. CASE CreateFails
  BY <1>10
  DEF CreateFails, LookupError, Error, NoDevicesTouched, ContractStep,
      DeviceType, DevInv, DevStages, LifeInv
<1>11. ASSUME NEW d \in Devices,
                    CreateDevice(d)
             PROVE  ContractStep
  <2>1. Contract!Create(d)
    BY <1>11 DEF CreateDevice, DeviceType, Contract!Move, Contract!Create
  <2> QED BY <1>11, <2>1 DEF ContractStep, Contract!ContractNext
<1>12. CASE DeviceInit
  <2>1. dev \in Devices
    BY <1>12 DEF DeviceInit, DevInv, DevStages
  <2>2. Contract!Initialise(dev) \/ UNCHANGED drv
    BY <1>12, <2>1
    DEF DeviceInit, OpenStage, StageUnchanged, Error, ContractStep, DeviceType,
        DevInv, DevStages, LifeInv, Contract!Move, Contract!Initialise
  <2> QED BY <2>1, <2>2 DEF ContractStep, Contract!ContractNext
<1>13. CASE MatrixOption
  <2>1. dev \in Devices
    BY <1>13 DEF MatrixOption, DevInv, DevStages
  <2>2. Contract!Abandon(dev) \/ UNCHANGED drv
    BY <1>13, <2>1
    DEF MatrixOption, OpenStage, StageUnchanged, Abandoned, Error, ContractStep,
        DeviceType, DevInv, DevStages, LifeInv, Contract!Move,
        Contract!Abandon
  <2> QED BY <2>1, <2>2 DEF ContractStep, Contract!ContractNext
<1>14. CASE OtherOption
  <2>1. dev \in Devices
    BY <1>14 DEF OtherOption, DevInv, DevStages
  <2>2. Contract!Abandon(dev) \/ UNCHANGED drv
    BY <1>14, <2>1
    DEF OtherOption, OpenStage, StageUnchanged, Abandoned, Error, ContractStep,
        DeviceType, DevInv, DevStages, LifeInv, Contract!Move,
        Contract!Abandon
  <2> QED BY <2>1, <2>2 DEF ContractStep, Contract!ContractNext
<1>15. CASE OptionsLoaded
  BY <1>15
  DEF OptionsLoaded, OpenStage, StageUnchanged, ContractStep, DeviceType,
      DevInv, DevStages, LifeInv
<1>16. CASE Reconcile
  <2>1. dev \in Devices
    BY <1>16 DEF Reconcile, DevInv, DevStages
  <2>2. Contract!Abandon(dev) \/ UNCHANGED drv
    BY <1>16, <2>1
    DEF Reconcile, OpenStage, StageUnchanged, Abandoned, Error, ContractStep,
        DeviceType, DevInv, DevStages, LifeInv, Contract!Move,
        Contract!Abandon
  <2> QED BY <2>1, <2>2 DEF ContractStep, Contract!ContractNext
<1>17. CASE NoReconcile
  BY <1>17
  DEF NoReconcile, OpenStage, StageUnchanged, ContractStep, DeviceType, DevInv,
      DevStages, LifeInv
<1>18. CASE DriverOpen
  <2>1. dev \in Devices
    BY <1>18 DEF DriverOpen, DevInv, DevStages
  <2>2. Contract!Open(dev) \/ Contract!Abandon(dev) \/ UNCHANGED drv
    BY <1>18, <2>1
    DEF DriverOpen, OpenStage, StageUnchanged, Abandoned, Error, ContractStep,
        DeviceType, DevInv, DevStages, LifeInv, Contract!Move, Contract!Open,
        Contract!Abandon
  <2> QED BY <2>1, <2>2 DEF ContractStep, Contract!ContractNext
<1>19. CASE Permute
  BY <1>19
  DEF Permute, OpenStage, StageUnchanged, Error, ContractStep, DeviceType,
      DevInv, DevStages, LifeInv
<1>20. CASE CreateSwapBuffer
  BY <1>20
  DEF CreateSwapBuffer, Return, ContractStep, DeviceType, DevInv, DevStages,
      LifeInv
<1>21. CASE ErrorExit
  BY <1>21
  DEF ErrorExit, NoDevicesTouched, ContractStep, DeviceType, DevInv, DevStages,
      LifeInv
<1>22. CASE CloseCallback
  <2>1. dev \in Devices
    BY <1>22 DEF CloseCallback, DevInv, DevStages
  <2>2. Contract!Close(dev) \/ UNCHANGED drv
    BY <1>22, <2>1
    DEF CloseCallback, StageUnchanged, ContractStep, DeviceType, DevInv,
        DevStages, LifeInv, Contract!Move, Contract!Close
  <2> QED BY <2>1, <2>2 DEF ContractStep, Contract!ContractNext
<1>23. CASE ClearCallback
  <2>1. dev \in Devices
    BY <1>23 DEF ClearCallback, DevInv, DevStages
  <2>2. Contract!Clear(dev) \/ UNCHANGED drv
    BY <1>23, <2>1
    DEF ClearCallback, StageUnchanged, ContractStep, DeviceType, DevInv,
        DevStages, LifeInv, Contract!Move, Contract!Clear
  <2> QED BY <2>1, <2>2 DEF ContractStep, Contract!ContractNext
<1>24. CASE AoCloseFrees
  <2>1. dev \in Devices
    BY <1>24 DEF AoCloseFrees, DevInv, DevStages
  <2>2. Contract!Free(dev) \/ UNCHANGED drv
    BY <1>24, <2>1
    DEF AoCloseFrees, Freed, ContractStep, DeviceType, DevInv, DevStages, LifeInv,
        Contract!Move, Contract!Free
  <2> QED BY <2>1, <2>2 DEF ContractStep, Contract!ContractNext
<1>25. CASE SwapFailureFrees
  <2>1. dev \in Devices
    BY <1>25 DEF SwapFailureFrees, DevInv, DevStages
  <2>2. Contract!Free(dev) \/ UNCHANGED drv
    BY <1>25, <2>1
    DEF SwapFailureFrees, Freed, ContractStep, DeviceType, DevInv, DevStages,
        LifeInv, Contract!Move, Contract!Free
  <2> QED BY <2>1, <2>2 DEF ContractStep, Contract!ContractNext
<1>26. CASE OpenFailed
  BY <1>26
  DEF OpenFailed, NoDevicesTouched, ContractStep, DeviceType, DevInv, DevStages,
      LifeInv
<1>27. CASE SeeFailure
  BY <1>27
  DEF SeeFailure, NoDevicesTouched, ContractStep, DeviceType, DevInv, DevStages,
      LifeInv
<1>28. CASE UNCHANGED vars
  BY <1>28 DEF vars, ContractStep, DeviceType, DevInv, DevStages, LifeInv
<1> QED
  BY <1>1, <1>2, <1>3, <1>4, <1>5, <1>6, <1>7, <1>8, <1>9, <1>10, <1>11, <1>12,
     <1>13, <1>14, <1>15, <1>16, <1>17, <1>18, <1>19, <1>20, <1>21, <1>22,
     <1>23, <1>24, <1>25, <1>26, <1>27, <1>28
  DEF Next, Application, OpenCall, Library

\* Every driver, of any number of devices, sees its callbacks in the order of
\* PluginContract.
THEOREM ContractKept == Spec => KeepsContract
<1>1. Init => Contract!ContractInit
  BY DEF Init, Contract!ContractInit
<1>2. Inv /\ [Next]_vars => [Contract!ContractNext]_drv
  BY ContractStepHolds DEF Inv, TypeOK, ContractStep
<1> QED BY <1>1, <1>2, Invariance, PTL DEF Spec, KeepsContract, Contract!ContractSpec

\* No file is open at the start.
LEMMA FileInvInit == Init => FileInv
BY DEF Init, FileInv, DeviceHasFile, OwnedIsOpen, CallOwnsAlone, OpenIsOwned,
       DevStages, Opened

\* Who owns which FILE.
LEMMA FileInvStep ==
  ASSUME DeviceType, WorldType, CallType, CallInv, DevInv, LifeInv, FileInv, [Next]_vars
  PROVE  FileInv'
PROOF
<1>1. ASSUME NEW id \in Drivers \cup {BadId}, NEW f \in Formats, NEW opts \in OptionLists,
                    OpenLive(id, f, opts)
             PROVE  FileInv'
  BY <1>1
  DEF OpenLive, EnterOpen, NoDevicesTouched, FileInv, DeviceHasFile,
      OwnedIsOpen, CallOwnsAlone, OpenIsOwned, Opened, DeviceType, WorldType,
      CallType, CallInv, DevInv, CallStages, DevStages
<1>2. ASSUME NEW id \in Drivers \cup {BadId}, NEW f \in Formats, NEW opts \in OptionLists,
                    OpenDash(id, f, opts)
             PROVE  FileInv'
  BY <1>2
  DEF OpenDash, EnterOpen, NoDevicesTouched, FileInv, DeviceHasFile,
      OwnedIsOpen, CallOwnsAlone, OpenIsOwned, Opened, DeviceType, WorldType,
      CallType, CallInv, DevInv, CallStages, DevStages
<1>3. ASSUME NEW id \in Drivers \cup {BadId}, NEW f \in Formats, NEW opts \in OptionLists,
                    NEW p \in Paths, NEW overwrite \in BOOLEAN, NEW s \in Streams,
                    OpenFile(p, overwrite, s, id, f, opts)
             PROVE  FileInv'
  <2>1. s # NoStream /\ s # Stdout /\ \A d \in Devices : file[d] # s
    BY <1>3, DeviceAssumption
    DEF DeviceAssumption, OpenFile, FileInv, OwnedIsOpen, Opened
  <2>2. stream' \in [Streams -> {"open", "closed"}] /\ stream'[s] = "open"
        /\ \A r \in Streams : r # s => stream'[r] = stream[r]
    BY <1>3 DEF OpenFile, WorldType
  <2>3. call'.file = s /\ call' # NoCall /\ pc' = "lookup" /\ exit' = exit
        /\ dev' = dev /\ file' = file /\ drv' = drv /\ pc = "idle" /\ call = NoCall
    BY <1>3, CallsAreCalls DEF CallInv, OpenFile, EnterOpen, NoDevicesTouched
  <2>a. DeviceHasFile'
    BY <2>1, <2>2, <2>3 DEF FileInv, DeviceHasFile, DeviceType, DevStages
  <2>b. OwnedIsOpen'
    BY <2>1, <2>2, <2>3
    DEF FileInv, OwnedIsOpen, CallOwnsAlone, Opened, DeviceType, WorldType
  <2>c. CallOwnsAlone'
    BY <2>1, <2>2, <2>3
    DEF FileInv, CallOwnsAlone, OwnedIsOpen, Opened, DeviceType, WorldType
  <2>d. OpenIsOwned'
    BY <2>1, <2>2, <2>3 DEF FileInv, OpenIsOwned, DeviceType, WorldType
  <2> QED BY <2>a, <2>b, <2>c, <2>d DEF FileInv
<1>4. ASSUME NEW p \in Paths,
                    OpenFileExists(p)
             PROVE  FileInv'
  BY <1>4
  DEF OpenFileExists, NoFile, NoDevicesTouched, FileInv, DeviceHasFile,
      OwnedIsOpen, CallOwnsAlone, OpenIsOwned, Opened, DeviceType, WorldType,
      CallType, CallInv, DevInv, CallStages, DevStages
<1>5. ASSUME NEW p \in Paths, NEW overwrite \in BOOLEAN,
                    OpenFileFails(p, overwrite)
             PROVE  FileInv'
  BY <1>5
  DEF OpenFileFails, NoFile, NoDevicesTouched, FileInv, DeviceHasFile,
      OwnedIsOpen, CallOwnsAlone, OpenIsOwned, Opened, DeviceType, WorldType,
      CallType, CallInv, DevInv, CallStages, DevStages
<1>6. ASSUME NEW o \in Options,
                    AppendGlobalOption(o)
             PROVE  FileInv'
  BY <1>6
  DEF AppendGlobalOption, NoDevicesTouched, FileInv, DeviceHasFile, OwnedIsOpen,
      CallOwnsAlone, OpenIsOwned, Opened, DeviceType, WorldType, CallType,
      CallInv, DevInv, CallStages, DevStages
<1>7. ASSUME NEW d \in Devices,
                    AoClose(d)
             PROVE  FileInv'
  BY <1>7
  DEF AoClose, FileInv, DeviceHasFile, OwnedIsOpen, CallOwnsAlone, OpenIsOwned,
      Opened, DeviceType, WorldType, CallType, CallInv, DevInv, CallStages,
      DevStages
<1>8. CASE NoDriver
  BY <1>8
  DEF NoDriver, LookupError, Error, NoDevicesTouched, FileInv, DeviceHasFile,
      OwnedIsOpen, CallOwnsAlone, OpenIsOwned, Opened, DeviceType, WorldType,
      CallType, CallInv, DevInv, CallStages, DevStages
<1>9. CASE WrongType
  BY <1>9
  DEF WrongType, LookupError, Error, NoDevicesTouched, FileInv, DeviceHasFile,
      OwnedIsOpen, CallOwnsAlone, OpenIsOwned, Opened, DeviceType, WorldType,
      CallType, CallInv, DevInv, CallStages, DevStages
<1>10. CASE CreateFails
  BY <1>10
  DEF CreateFails, LookupError, Error, NoDevicesTouched, FileInv, DeviceHasFile,
      OwnedIsOpen, CallOwnsAlone, OpenIsOwned, Opened, DeviceType, WorldType,
      CallType, CallInv, DevInv, CallStages, DevStages
<1>11. ASSUME NEW d \in Devices,
                    CreateDevice(d)
             PROVE  FileInv'
  <2>1. d # dev /\ dev = NoDev /\ file[d] = NoStream /\ call # NoCall
        /\ NoDev \notin Devices /\ NoStream \notin Streams
    BY <1>11, DeviceAssumption
    DEF DeviceAssumption, CreateDevice, DevInv, FileInv, DeviceHasFile, CallInv, CallStages
  <2>2. file' = [file EXCEPT ![d] = call.file] /\ dev' = d /\ pc' = "init"
        /\ pc = "lookup" /\ drv' = [drv EXCEPT ![d] = "born"]
        /\ UNCHANGED <<call, stream, exit>>
    BY <1>11 DEF CreateDevice
  <2>a. DeviceHasFile'
    BY <2>1, <2>2 DEF FileInv, DeviceHasFile, DeviceType, DevStages
  <2>b. OwnedIsOpen'
    BY <2>1, <2>2
    DEF FileInv, OwnedIsOpen, CallOwnsAlone, Opened, DeviceType, WorldType
  <2>c. CallOwnsAlone'
    BY <2>1, <2>2
    DEF FileInv, CallOwnsAlone, OwnedIsOpen, Opened, DeviceType, WorldType
  <2>d. OpenIsOwned'
    BY <2>1, <2>2 DEF FileInv, OpenIsOwned, DeviceType, WorldType
  <2> QED BY <2>a, <2>b, <2>c, <2>d DEF FileInv
<1>12. CASE DeviceInit
  BY <1>12
  DEF DeviceInit, OpenStage, StageUnchanged, Error, FileInv, DeviceHasFile,
      OwnedIsOpen, CallOwnsAlone, OpenIsOwned, Opened, DeviceType, WorldType,
      CallType, CallInv, DevInv, CallStages, DevStages
<1>13. CASE MatrixOption
  BY <1>13
  DEF MatrixOption, OpenStage, StageUnchanged, Abandoned, Error, FileInv,
      DeviceHasFile, OwnedIsOpen, CallOwnsAlone, OpenIsOwned, Opened,
      DeviceType, WorldType, CallType, CallInv, DevInv, CallStages, DevStages
<1>14. CASE OtherOption
  BY <1>14
  DEF OtherOption, OpenStage, StageUnchanged, Abandoned, Error, FileInv,
      DeviceHasFile, OwnedIsOpen, CallOwnsAlone, OpenIsOwned, Opened,
      DeviceType, WorldType, CallType, CallInv, DevInv, CallStages, DevStages
<1>15. CASE OptionsLoaded
  BY <1>15
  DEF OptionsLoaded, OpenStage, StageUnchanged, FileInv, DeviceHasFile,
      OwnedIsOpen, CallOwnsAlone, OpenIsOwned, Opened, DeviceType, WorldType,
      CallType, CallInv, DevInv, CallStages, DevStages
<1>16. CASE Reconcile
  BY <1>16
  DEF Reconcile, OpenStage, StageUnchanged, Abandoned, Error, FileInv,
      DeviceHasFile, OwnedIsOpen, CallOwnsAlone, OpenIsOwned, Opened,
      DeviceType, WorldType, CallType, CallInv, DevInv, CallStages, DevStages
<1>17. CASE NoReconcile
  BY <1>17
  DEF NoReconcile, OpenStage, StageUnchanged, FileInv, DeviceHasFile,
      OwnedIsOpen, CallOwnsAlone, OpenIsOwned, Opened, DeviceType, WorldType,
      CallType, CallInv, DevInv, CallStages, DevStages
<1>18. CASE DriverOpen
  BY <1>18
  DEF DriverOpen, OpenStage, StageUnchanged, Abandoned, Error, FileInv,
      DeviceHasFile, OwnedIsOpen, CallOwnsAlone, OpenIsOwned, Opened,
      DeviceType, WorldType, CallType, CallInv, DevInv, CallStages, DevStages
<1>19. CASE Permute
  BY <1>19
  DEF Permute, OpenStage, StageUnchanged, Error, FileInv, DeviceHasFile,
      OwnedIsOpen, CallOwnsAlone, OpenIsOwned, Opened, DeviceType, WorldType,
      CallType, CallInv, DevInv, CallStages, DevStages
<1>20. CASE CreateSwapBuffer
  BY <1>20
  DEF CreateSwapBuffer, Return, FileInv, DeviceHasFile, OwnedIsOpen,
      CallOwnsAlone, OpenIsOwned, Opened, DeviceType, WorldType, CallType,
      CallInv, DevInv, CallStages, DevStages
<1>21. CASE ErrorExit
  BY <1>21
  DEF ErrorExit, NoDevicesTouched, FileInv, DeviceHasFile, OwnedIsOpen,
      CallOwnsAlone, OpenIsOwned, Opened, DeviceType, WorldType, CallType,
      CallInv, DevInv, CallStages, DevStages
<1>22. CASE CloseCallback
  BY <1>22
  DEF CloseCallback, StageUnchanged, FileInv, DeviceHasFile, OwnedIsOpen,
      CallOwnsAlone, OpenIsOwned, Opened, DeviceType, WorldType, CallType,
      CallInv, DevInv, CallStages, DevStages
<1>23. CASE ClearCallback
  BY <1>23
  DEF ClearCallback, StageUnchanged, FileInv, DeviceHasFile, OwnedIsOpen,
      CallOwnsAlone, OpenIsOwned, Opened, DeviceType, WorldType, CallType,
      CallInv, DevInv, CallStages, DevStages
<1>24. CASE AoCloseFrees
  <2>1. dev \in Devices /\ pc = "free" /\ dev' = NoDev /\ exit' = "none"
        /\ pc' \in {"idle", "tail"} /\ call' = call
        /\ file' = [file EXCEPT ![dev] = NoStream]
        /\ drv' = [drv EXCEPT ![dev] = "none"]
    BY <1>24 DEF AoCloseFrees, Freed, DevInv, DevStages
  <2>2. /\ file[dev] = NoStream => stream' = stream
        /\ file[dev] # NoStream => stream' = [stream EXCEPT ![file[dev]] = "closed"]
    BY <1>24 DEF AoCloseFrees, Closed
  <2>3. IF exit = "user" THEN call = NoCall ELSE call # NoCall /\ file[dev] = call.file
    BY <2>1 DEF CallInv, FileInv, DeviceHasFile, DevStages
  <2>4. pc' = IF exit = "user" THEN "idle" ELSE "tail"
    BY <1>24 DEF AoCloseFrees
  <2>a. DeviceHasFile'
    BY <2>1, <2>2, <2>3, <2>4
    DEF FileInv, DeviceHasFile, DeviceType, DevStages
  <2>b. OwnedIsOpen'
    BY <2>1, <2>2, <2>3, <2>4
    DEF FileInv, OwnedIsOpen, CallOwnsAlone, Opened, DeviceType, WorldType
  <2>c. CallOwnsAlone'
    BY <2>1, <2>2, <2>3, <2>4
    DEF FileInv, CallOwnsAlone, OwnedIsOpen, Opened, DeviceType, WorldType
  <2>d. OpenIsOwned'
    BY <2>1, <2>2, <2>3, <2>4 DEF FileInv, OpenIsOwned, DeviceType, WorldType
  <2> QED BY <2>a, <2>b, <2>c, <2>d DEF FileInv
<1>25. CASE SwapFailureFrees
  BY <1>25
  DEF SwapFailureFrees, Freed, FileInv, DeviceHasFile, OwnedIsOpen,
      CallOwnsAlone, OpenIsOwned, Opened, DeviceType, WorldType, CallType,
      CallInv, DevInv, CallStages, DevStages
<1>26. CASE OpenFailed
  <2>1. dev = NoDev /\ call # NoCall /\ pc = "tail" /\ pc' = "returned"
        /\ UNCHANGED <<exit, dev, call, drv, file>>
    BY <1>26 DEF OpenFailed, NoDevicesTouched, DevInv, CallInv, CallStages
  <2>2. /\ call.file = NoStream => stream' = stream
        /\ call.file # NoStream => stream' = [stream EXCEPT ![call.file] = "closed"]
    BY <1>26 DEF OpenFailed, Closed
  <2>3. dev \notin Devices /\ NoStream \notin Streams
    BY <2>1, DeviceAssumption DEF DeviceAssumption
  <2>a. DeviceHasFile'
    BY <2>1, <2>2, <2>3 DEF FileInv, DeviceHasFile, DeviceType, DevStages
  <2>b. OwnedIsOpen'
    BY <2>1, <2>2, <2>3
    DEF FileInv, OwnedIsOpen, CallOwnsAlone, Opened, DeviceType, WorldType
  <2>c. CallOwnsAlone'
    BY <2>1, <2>2, <2>3
    DEF FileInv, CallOwnsAlone, OwnedIsOpen, Opened, DeviceType, WorldType
  <2>d. OpenIsOwned'
    BY <2>1, <2>2, <2>3 DEF FileInv, OpenIsOwned, DeviceType, WorldType
  <2> QED BY <2>a, <2>b, <2>c, <2>d DEF FileInv
<1>27. CASE SeeFailure
  BY <1>27
  DEF SeeFailure, NoDevicesTouched, FileInv, DeviceHasFile, OwnedIsOpen,
      CallOwnsAlone, OpenIsOwned, Opened, DeviceType, WorldType, CallType,
      CallInv, DevInv, CallStages, DevStages
<1>28. CASE UNCHANGED vars
  BY <1>28
  DEF vars, FileInv, DeviceHasFile, OwnedIsOpen, CallOwnsAlone, OpenIsOwned,
      Opened, DeviceType, WorldType, CallType, CallInv, DevInv, CallStages,
      DevStages
<1> QED
  BY <1>1, <1>2, <1>3, <1>4, <1>5, <1>6, <1>7, <1>8, <1>9, <1>10, <1>11, <1>12,
     <1>13, <1>14, <1>15, <1>16, <1>17, <1>18, <1>19, <1>20, <1>21, <1>22,
     <1>23, <1>24, <1>25, <1>26, <1>27, <1>28
  DEF Next, Application, OpenCall, Library

\* No FILE is leaked, shared or closed under a device the application holds.
THEOREM FilesOwned == Spec => []OpenFilesAreHeld
<1> DEFINE Own == Inv /\ FileInv
<1>1. Init => Own
  BY InitInv, FileInvInit
<1>2. Own /\ [Next]_vars => Own'
  BY InvStep, FileInvStep DEF Inv, TypeOK
<1>3. Own => OpenFilesAreHeld
  <2> SUFFICES ASSUME Own, pc = "idle"
               PROVE  /\ \A s \in Streams \ {Stdout} :
                           stream[s] = "open" <=> \E d \in held : file[d] = s
                      /\ \A d, e \in held :
                           file[d] = file[e] /\ file[d] \notin {Stdout, NoStream} => d = e
    BY DEF OpenFilesAreHeld
  <2>1. \A d \in Devices : file[d] # NoStream => d \in held
    BY DeviceAssumption DEF DeviceAssumption, Inv, DevInv, LifeInv, FileInv, DeviceHasFile
  <2>2. call = NoCall /\ held \subseteq Devices /\ NoStream \notin Streams
    BY DeviceAssumption DEF DeviceAssumption, Inv, TypeOK, DeviceType, CallInv
  <2> QED BY <2>1, <2>2 DEF FileInv, OwnedIsOpen, OpenIsOwned, Opened
<1> QED BY <1>1, <1>2, <1>3, PTL DEF Spec
-----------------------------------------------------------------------------
\* The code of the failing stage waits in errno, then in errtemp.
CodeInv ==
  /\ pc \in {"error", "tail"} => errno = ghost.cause
  /\ pc \in {"close", "clear", "free"} /\ exit = "error" => errtemp = ghost.cause
  /\ pc \in {"close", "clear", "free"} /\ exit = "swap" => ghost.cause = "AO_EFAIL"

\* The error code on its way to the application.
LEMMA CodeInvStep ==
  ASSUME WorldType, DevInv, CodeInv, [Next]_vars
  PROVE  CodeInv'
PROOF
<1>1. ASSUME NEW id \in Drivers \cup {BadId}, NEW f \in Formats, NEW opts \in OptionLists,
                    OpenLive(id, f, opts)
             PROVE  CodeInv'
  BY <1>1
  DEF OpenLive, EnterOpen, NoDevicesTouched, CodeInv, WorldType, History
<1>2. ASSUME NEW id \in Drivers \cup {BadId}, NEW f \in Formats, NEW opts \in OptionLists,
                    OpenDash(id, f, opts)
             PROVE  CodeInv'
  BY <1>2
  DEF OpenDash, EnterOpen, NoDevicesTouched, CodeInv, WorldType, History
<1>3. ASSUME NEW id \in Drivers \cup {BadId}, NEW f \in Formats, NEW opts \in OptionLists,
                    NEW p \in Paths, NEW overwrite \in BOOLEAN, NEW s \in Streams,
                    OpenFile(p, overwrite, s, id, f, opts)
             PROVE  CodeInv'
  BY <1>3
  DEF OpenFile, EnterOpen, NoDevicesTouched, CodeInv, WorldType, History
<1>4. ASSUME NEW p \in Paths,
                    OpenFileExists(p)
             PROVE  CodeInv'
  BY <1>4
  DEF OpenFileExists, NoFile, NoDevicesTouched, CodeInv, WorldType, History
<1>5. ASSUME NEW p \in Paths, NEW overwrite \in BOOLEAN,
                    OpenFileFails(p, overwrite)
             PROVE  CodeInv'
  BY <1>5
  DEF OpenFileFails, NoFile, NoDevicesTouched, CodeInv, WorldType, History
<1>6. ASSUME NEW o \in Options,
                    AppendGlobalOption(o)
             PROVE  CodeInv'
  BY <1>6
  DEF AppendGlobalOption, NoDevicesTouched, CodeInv, WorldType, History
<1>7. ASSUME NEW d \in Devices,
                    AoClose(d)
             PROVE  CodeInv'
  BY <1>7 DEF AoClose, CodeInv, WorldType, History
<1>8. CASE NoDriver
  BY <1>8
  DEF NoDriver, LookupError, Error, NoDevicesTouched, CodeInv, WorldType,
      History
<1>9. CASE WrongType
  BY <1>9
  DEF WrongType, LookupError, Error, NoDevicesTouched, CodeInv, WorldType,
      History
<1>10. CASE CreateFails
  BY <1>10
  DEF CreateFails, LookupError, Error, NoDevicesTouched, CodeInv, WorldType,
      History
<1>11. ASSUME NEW d \in Devices,
                    CreateDevice(d)
             PROVE  CodeInv'
  BY <1>11 DEF CreateDevice, RightType, CodeInv, WorldType, History
<1>12. CASE DeviceInit
  BY <1>12
  DEF DeviceInit, OpenStage, StageUnchanged, Error, CodeInv, WorldType, History
<1>13. CASE MatrixOption
  BY <1>13
  DEF MatrixOption, OpenStage, StageUnchanged, Abandoned, Error, CodeInv,
      WorldType, History
<1>14. CASE OtherOption
  BY <1>14
  DEF OtherOption, OpenStage, StageUnchanged, Abandoned, Error, CodeInv,
      WorldType, History
<1>15. CASE OptionsLoaded
  BY <1>15
  DEF OptionsLoaded, OpenStage, StageUnchanged, CodeInv, WorldType, History
<1>16. CASE Reconcile
  BY <1>16
  DEF Reconcile, OpenStage, StageUnchanged, Abandoned, Error, CodeInv,
      WorldType, History
<1>17. CASE NoReconcile
  BY <1>17
  DEF NoReconcile, OpenStage, StageUnchanged, CodeInv, WorldType, History
<1>18. CASE DriverOpen
  BY <1>18
  DEF DriverOpen, OpenStage, StageUnchanged, Abandoned, Error, CodeInv,
      WorldType, History
<1>19. CASE Permute
  BY <1>19
  DEF Permute, OpenStage, StageUnchanged, Error, CodeInv, WorldType, History
<1>20. CASE CreateSwapBuffer
  BY <1>20 DEF CreateSwapBuffer, Return, CodeInv, WorldType, History
<1>21. CASE ErrorExit
  BY <1>21 DEF ErrorExit, NoDevicesTouched, CodeInv, WorldType, History
<1>22. CASE CloseCallback
  BY <1>22 DEF CloseCallback, StageUnchanged, CodeInv, WorldType, History
<1>23. CASE ClearCallback
  BY <1>23 DEF ClearCallback, StageUnchanged, CodeInv, WorldType, History
<1>24. CASE AoCloseFrees
  BY <1>24
  DEF AoCloseFrees, Freed, CodeInv, WorldType, History, ErrnoOfFailure
<1>25. CASE SwapFailureFrees
  BY <1>25 DEF SwapFailureFrees, Freed, CodeInv, WorldType, History
<1>26. CASE OpenFailed
  BY <1>26 DEF OpenFailed, NoDevicesTouched, CodeInv, WorldType, History
<1>27. CASE SeeFailure
  BY <1>27 DEF SeeFailure, NoDevicesTouched, CodeInv, WorldType, History
<1>28. CASE UNCHANGED vars
  BY <1>28 DEF vars, CodeInv, WorldType, History
<1> QED
  BY <1>1, <1>2, <1>3, <1>4, <1>5, <1>6, <1>7, <1>8, <1>9, <1>10, <1>11, <1>12,
     <1>13, <1>14, <1>15, <1>16, <1>17, <1>18, <1>19, <1>20, <1>21, <1>22,
     <1>23, <1>24, <1>25, <1>26, <1>27, <1>28
  DEF Next, Application, OpenCall, Library

\* Whatever the callbacks of a failing driver do to errno, _open_device
\* returns with the code of the stage that failed.
THEOREM FailureCodeKept == Spec => []FailureKeepsItsCode
<1>1. Init => CodeInv
  BY DEF Init, CodeInv
<1>2. Inv /\ CodeInv /\ [Next]_vars => CodeInv'
  BY CodeInvStep DEF Inv, TypeOK
<1>3. CodeInv => FailureKeepsItsCode
  BY DEF CodeInv, FailureKeepsItsCode
<1> QED BY <1>1, <1>2, <1>3, Invariance, PTL DEF Spec
-----------------------------------------------------------------------------
(* LastMatrix, on lists of any length.                                     *)

\* A set of numbers has a least one.
LEMMA Least == ASSUME NEW S \in SUBSET Nat, S # {} PROVE \E m \in S : \A k \in S : m <= k
<1> DEFINE R == OpToRel(<, Nat)
<1>1. IsWellFoundedOn(R, Nat)
  BY NatLessThanWellFounded
<1>2. \A x, y \in Nat : <<x, y>> \in R <=> x < y
  BY DEF OpToRel
<1> HIDE DEF R
<1>3. PICK m \in S : \A k \in S : ~ (<<k, m>> \in R)
  BY <1>1, WFMin
<1>4. \A k \in S : m <= k
  <2> SUFFICES ASSUME NEW k \in S PROVE m <= k
    OBVIOUS
  <2>1. m \in Nat /\ k \in Nat /\ ~ (k < m)
    BY <1>2, <1>3
  <2>2. QED
    BY <2>1
<1>5. QED
  BY <1>4

\* Does an option of the list ask for a matrix?
Asks(opts, i) == MatrixValue[opts[i]] # "none"

\* LastMatrix is the matrix of the last option that asks for one.
LEMMA LastMatrixIs ==
  ASSUME NEW opts \in Seq(Options)
  PROVE  /\ \A i \in 1 .. Len(opts) :
              Asks(opts, i) /\ (\A j \in 1 .. Len(opts) : Asks(opts, j) => j <= i) =>
                LastMatrix(opts) = MatrixValue[opts[i]]
         /\ (\E i \in 1 .. Len(opts) : Asks(opts, i)) =>
              \E i \in 1 .. Len(opts) :
                /\ Asks(opts, i) /\ LastMatrix(opts) = MatrixValue[opts[i]]
                /\ \A j \in 1 .. Len(opts) : Asks(opts, j) => j <= i
         /\ (\A i \in 1 .. Len(opts) : ~Asks(opts, i)) => LastMatrix(opts) = "none"
<1>1. Len(opts) \in Nat /\ DOMAIN opts = 1 .. Len(opts)
  BY LenProperties
<1>2. \A i \in DOMAIN opts : IsLastMatrix(opts, i) <=>
        Asks(opts, i) /\ \A j \in DOMAIN opts : Asks(opts, j) => j <= i
  BY DEF IsLastMatrix, Asks
<1>3. ASSUME NEW i \in DOMAIN opts, IsLastMatrix(opts, i)
      PROVE  LastMatrix(opts) = MatrixValue[opts[i]]
  <2>1. \A j \in DOMAIN opts : IsLastMatrix(opts, j) => j <= i /\ i <= j
    BY <1>2, <1>3
  <2>2. \A j \in DOMAIN opts : IsLastMatrix(opts, j) => j = i
    BY <1>1, <2>1
  <2>3. (CHOOSE j \in DOMAIN opts : IsLastMatrix(opts, j)) = i
    BY <1>3, <2>2
  <2>4. QED
    BY <1>3, <2>3 DEF LastMatrix
<1>4. ASSUME NEW i \in DOMAIN opts, Asks(opts, i)
      PROVE  \E j \in DOMAIN opts : IsLastMatrix(opts, j)
  <2> DEFINE behind == {Len(opts) - j : j \in {k \in DOMAIN opts : Asks(opts, k)}}
  <2>1. behind \in SUBSET Nat /\ behind # {}
    BY <1>1, <1>4
  <2>2. PICK m \in behind : \A k \in behind : m <= k
    BY <2>1, Least
  <2>3. PICK j \in DOMAIN opts : Asks(opts, j) /\ m = Len(opts) - j
    BY <2>2
  <2>4. ASSUME NEW k \in DOMAIN opts, Asks(opts, k) PROVE k <= j
    <3>1. Len(opts) - k \in behind
      BY <2>4
    <3>2. Len(opts) - j <= Len(opts) - k
      BY <2>2, <2>3, <3>1
    <3>3. QED
      BY <1>1, <3>2
  <2>5. QED
    BY <1>2, <2>3, <2>4
<1>5. (\A i \in DOMAIN opts : ~Asks(opts, i)) => LastMatrix(opts) = "none"
  BY <1>2 DEF LastMatrix
<1>6. QED
  BY <1>1, <1>2, <1>3, <1>4, <1>5

\* A later list takes precedence.
LEMMA LastOfBoth ==
  ASSUME NEW s \in Seq(Options), NEW t \in Seq(Options)
  PROVE  LastMatrix(s \o t) = IF LastMatrix(t) # "none" THEN LastMatrix(t) ELSE LastMatrix(s)
<1>1. /\ s \o t \in Seq(Options) /\ Len(s \o t) = Len(s) + Len(t)
      /\ Len(s) \in Nat /\ Len(t) \in Nat
      /\ \A i \in 1 .. Len(s) + Len(t) : (s \o t)[i] = IF i <= Len(s) THEN s[i] ELSE t[i - Len(s)]
  BY ConcatProperties, LenProperties
<1>2. \A i \in 1 .. Len(s) : i \in 1 .. Len(s \o t) /\ (s \o t)[i] = s[i]
  BY <1>1
<1>3. \A i \in 1 .. Len(t) : Len(s) + i \in 1 .. Len(s \o t) /\ (s \o t)[Len(s) + i] = t[i]
  <2> SUFFICES ASSUME NEW i \in 1 .. Len(t)
               PROVE  Len(s) + i \in 1 .. Len(s \o t) /\ (s \o t)[Len(s) + i] = t[i]
    OBVIOUS
  <2>1. Len(s) + i \in 1 .. Len(s) + Len(t) /\ ~(Len(s) + i <= Len(s)) /\ (Len(s) + i) - Len(s) = i
    BY <1>1
  <2>2. (s \o t)[Len(s) + i] = t[(Len(s) + i) - Len(s)]
    BY <1>1, <2>1
  <2>3. QED
    BY <1>1, <2>1, <2>2
<1>4. \A i \in 1 .. Len(s \o t) : i \in 1 .. Len(s) \/ \E j \in 1 .. Len(t) : i = Len(s) + j
  <2> SUFFICES ASSUME NEW i \in 1 .. Len(s \o t), i \notin 1 .. Len(s)
               PROVE  \E j \in 1 .. Len(t) : i = Len(s) + j
    OBVIOUS
  <2>1. i - Len(s) \in 1 .. Len(t) /\ i = Len(s) + (i - Len(s))
    BY <1>1
  <2>2. QED
    BY <2>1
<1>5. CASE \E i \in 1 .. Len(t) : Asks(t, i)
  <2>1. PICK i \in 1 .. Len(t) : Asks(t, i) /\ LastMatrix(t) = MatrixValue[t[i]]
                                 /\ \A j \in 1 .. Len(t) : Asks(t, j) => j <= i
    BY <1>5, LastMatrixIs
  <2>2. Asks(s \o t, Len(s) + i)
    BY <1>3, <2>1 DEF Asks
  <2>3. ASSUME NEW k \in 1 .. Len(s \o t), Asks(s \o t, k) PROVE k <= Len(s) + i
    <3>1. CASE k \in 1 .. Len(s)
      BY <1>1, <3>1
    <3>2. ASSUME NEW j \in 1 .. Len(t), k = Len(s) + j PROVE k <= Len(s) + i
      <4>1. Asks(t, j)
        BY <1>3, <2>3, <3>2 DEF Asks
      <4>2. j <= i
        BY <2>1, <4>1
      <4>3. QED
        BY <1>1, <3>2, <4>2
    <3>3. QED
      BY <1>4, <3>1, <3>2
  <2>4. LastMatrix(s \o t) = MatrixValue[(s \o t)[Len(s) + i]]
    BY <1>1, <1>3, <2>2, <2>3, LastMatrixIs
  <2>5. LastMatrix(t) # "none"
    BY <2>1 DEF Asks
  <2>6. QED
    BY <1>3, <2>1, <2>4, <2>5
<1>6. CASE ~ \E i \in 1 .. Len(t) : Asks(t, i)
  <2>1. LastMatrix(t) = "none"
    BY <1>6, LastMatrixIs
  <2>2. CASE \E i \in 1 .. Len(s) : Asks(s, i)
    <3>1. PICK i \in 1 .. Len(s) : Asks(s, i) /\ LastMatrix(s) = MatrixValue[s[i]]
                                   /\ \A j \in 1 .. Len(s) : Asks(s, j) => j <= i
      BY <2>2, LastMatrixIs
    <3>2. ASSUME NEW k \in 1 .. Len(s \o t), Asks(s \o t, k)
          PROVE  k \in 1 .. Len(s) /\ Asks(s, k)
      <4>1. ASSUME NEW j \in 1 .. Len(t), k = Len(s) + j PROVE FALSE
        <5>1. (s \o t)[k] = t[j]
          BY <1>3, <4>1
        <5>2. Asks(t, j)
          BY <3>2, <5>1, Zenon DEF Asks
        <5>3. QED
          BY <1>6, <5>2, Zenon
      <4>2. k \in 1 .. Len(s)
        BY <1>4, <4>1, Zenon
      <4>3. QED
        BY <1>2, <3>2, <4>2, Zenon DEF Asks
    <3>3. Asks(s \o t, i) /\ i \in 1 .. Len(s \o t)
      BY <1>2, <3>1 DEF Asks
    <3>4. LastMatrix(s \o t) = MatrixValue[(s \o t)[i]]
      BY <1>1, <3>1, <3>2, <3>3, LastMatrixIs
    <3>5. QED
      BY <1>2, <2>1, <3>1, <3>4
  <2>3. CASE ~ \E i \in 1 .. Len(s) : Asks(s, i)
    <3>1. \A k \in 1 .. Len(s \o t) : ~Asks(s \o t, k)
      BY <1>2, <1>3, <1>4, <1>6, <2>3 DEF Asks
    <3>2. QED
      BY <1>1, <2>1, <2>3, <3>1, LastMatrixIs
  <2>4. QED
    BY <2>2, <2>3
<1>7. QED
  BY <1>5, <1>6

\* The first option counts if no later one asks for a matrix.
LEMMA LastOfTail ==
  ASSUME NEW s \in Seq(Options), s # <<>>
  PROVE  /\ Tail(s) \in Seq(Options)
         /\ LastMatrix(s) = IF LastMatrix(Tail(s)) # "none" THEN LastMatrix(Tail(s))
                            ELSE MatrixValue[Head(s)]
<1>1. Head(s) \in Options /\ Tail(s) \in Seq(Options) /\ s = <<Head(s)>> \o Tail(s)
  <2>1. Head(s) \in Options /\ Tail(s) \in Seq(Options) /\ Len(Tail(s)) = Len(s) - 1
        /\ \A i \in 1 .. Len(Tail(s)) : Tail(s)[i] = s[i + 1]
    BY HeadTailProperties
  <2>2. Len(s) \in Nat \ {0}
    BY EmptySeq
  <2>3. <<Head(s)>> \in Seq(Options) /\ Len(<<Head(s)>>) = 1 /\ <<Head(s)>>[1] = s[1]
    BY <2>1
  <2>4. <<Head(s)>> \o Tail(s) \in Seq(Options) /\ Len(<<Head(s)>> \o Tail(s)) = Len(s)
        /\ \A i \in 1 .. Len(s) : (<<Head(s)>> \o Tail(s))[i] =
              IF i <= 1 THEN <<Head(s)>>[i] ELSE Tail(s)[i - 1]
    BY <2>1, <2>2, <2>3, ConcatProperties
  <2>5. ASSUME NEW i \in 1 .. Len(s) PROVE (<<Head(s)>> \o Tail(s))[i] = s[i]
    <3>1. CASE i = 1
      BY <2>3, <2>4, <3>1
    <3>2. CASE i # 1
      <4>1. ~(i <= 1) /\ i - 1 \in 1 .. Len(Tail(s)) /\ (i - 1) + 1 = i
        BY <2>1, <2>2, <3>2
      <4>2. QED
        BY <2>1, <2>4, <4>1
    <3>3. QED
      BY <3>1, <3>2
  <2>6. QED
    BY <2>1, <2>4, <2>5, SeqEqual
<1>2. <<Head(s)>> \in Seq(Options) /\ Len(<<Head(s)>>) = 1 /\ <<Head(s)>>[1] = Head(s)
  BY <1>1
<1>3. LastMatrix(<<Head(s)>>) = MatrixValue[Head(s)]
  <2>1. CASE Asks(<<Head(s)>>, 1)
    <3>1. 1 \in 1 .. Len(<<Head(s)>>) /\ \A j \in 1 .. Len(<<Head(s)>>) : j <= 1
      BY <1>2
    <3>2. LastMatrix(<<Head(s)>>) = MatrixValue[<<Head(s)>>[1]]
      BY <1>2, <2>1, <3>1, LastMatrixIs
    <3>3. QED
      BY <1>2, <3>2
  <2>2. CASE ~Asks(<<Head(s)>>, 1)
    <3>1. \A j \in 1 .. Len(<<Head(s)>>) : j = 1
      BY <1>2
    <3>2. LastMatrix(<<Head(s)>>) = "none"
      BY <1>2, <2>2, <3>1, LastMatrixIs
    <3>3. QED
      BY <1>2, <2>2, <3>2 DEF Asks
  <2>3. QED
    BY <2>1, <2>2
<1>4. LastMatrix(<<Head(s)>> \o Tail(s)) =
        IF LastMatrix(Tail(s)) # "none" THEN LastMatrix(Tail(s)) ELSE LastMatrix(<<Head(s)>>)
  BY <1>1, <1>2, LastOfBoth, Zenon
<1>5. QED
  BY <1>1, <1>3, <1>4, Zenon
-----------------------------------------------------------------------------
\* The matrix the option lists of a device ask for in the end, or "none".
Won(d) == IF ghost.given[d].local # "none" THEN ghost.given[d].local
                                           ELSE ghost.given[d].global

\* While options are loaded, the rest of the list or the matrix that is set
\* already decides; from then on the matrix that is set does.
LoadingInv ==
  pc = "options" =>
    /\ LastMatrix(todo) # "none" => LastMatrix(todo) = Won(dev)
    /\ LastMatrix(todo) = "none" /\ Won(dev) # "none" => matrix[dev] = Won(dev)

MatrixInv ==
  /\ \A d \in held : Won(d) # "none" => matrix[d] = Won(d)
  /\ LoadingInv
  /\ pc \in {"reconcile", "open", "permute", "swap"} /\ Won(dev) # "none" =>
       matrix[dev] = Won(dev)

\* Steps that touch neither a matrix nor the options given.
LEMMA MatricesStay ==
  ASSUME MatrixInv, held' = held, dev' = dev, matrix' = matrix, ghost'.given = ghost.given,
         pc' # "options",
         pc' \in {"reconcile", "open", "permute", "swap"} =>
           pc \in {"reconcile", "open", "permute", "swap"}
  PROVE  MatrixInv'
BY DEF MatrixInv, LoadingInv, Won

\* Every step of the library and of its caller keeps the matrix that won.
LEMMA MatrixInvStep ==
  ASSUME TypeOK, CallInv, DevInv, LifeInv, MatrixInv, [Next]_vars
  PROVE  MatrixInv'
PROOF
<1>1. ASSUME NEW id \in Drivers \cup {BadId}, NEW f \in Formats, NEW opts \in OptionLists,
                    OpenLive(id, f, opts)
             PROVE  MatrixInv'
  BY <1>1
  DEF OpenLive, EnterOpen, NoDevicesTouched, MatrixInv, LoadingInv, Won, DevInv,
      DevStages
<1>2. ASSUME NEW id \in Drivers \cup {BadId}, NEW f \in Formats, NEW opts \in OptionLists,
                    OpenDash(id, f, opts)
             PROVE  MatrixInv'
  BY <1>2
  DEF OpenDash, EnterOpen, NoDevicesTouched, MatrixInv, LoadingInv, Won, DevInv,
      DevStages
<1>3. ASSUME NEW id \in Drivers \cup {BadId}, NEW f \in Formats, NEW opts \in OptionLists,
                    NEW p \in Paths, NEW overwrite \in BOOLEAN, NEW s \in Streams,
                    OpenFile(p, overwrite, s, id, f, opts)
             PROVE  MatrixInv'
  BY <1>3
  DEF OpenFile, EnterOpen, NoDevicesTouched, MatrixInv, LoadingInv, Won, DevInv,
      DevStages
<1>4. ASSUME NEW p \in Paths,
                    OpenFileExists(p)
             PROVE  MatrixInv'
  BY <1>4
  DEF OpenFileExists, NoFile, NoDevicesTouched, MatrixInv, LoadingInv, Won, DevInv,
      DevStages
<1>5. ASSUME NEW p \in Paths, NEW overwrite \in BOOLEAN,
                    OpenFileFails(p, overwrite)
             PROVE  MatrixInv'
  BY <1>5
  DEF OpenFileFails, NoFile, NoDevicesTouched, MatrixInv, LoadingInv, Won, DevInv,
      DevStages
<1>6. ASSUME NEW o \in Options,
                    AppendGlobalOption(o)
             PROVE  MatrixInv'
  BY <1>6
  DEF AppendGlobalOption, NoDevicesTouched, MatrixInv, LoadingInv, Won, DevInv,
      DevStages
<1>7. ASSUME NEW d \in Devices,
                    AoClose(d)
             PROVE  MatrixInv'
  BY <1>7 DEF AoClose, MatrixInv, LoadingInv, Won, DevInv,
      DevStages
<1>8. CASE NoDriver
  BY <1>8
  DEF NoDriver, LookupError, Error, NoDevicesTouched, MatrixInv, LoadingInv, Won, DevInv,
      DevStages
<1>9. CASE WrongType
  <2>1. held' = held /\ dev' = dev /\ matrix' = matrix
    BY <1>9 DEF WrongType, LookupError, NoDevicesTouched
  <2>2. ghost'.given = ghost.given
    BY <1>9 DEF WrongType, LookupError, NoDevicesTouched, Error, TypeOK, WorldType, History
  <2>3. /\ pc' # "options"
        /\ pc' \in {"reconcile", "open", "permute", "swap"} =>
             pc \in {"reconcile", "open", "permute", "swap"}
    BY <1>9 DEF WrongType, LookupError, NoDevicesTouched, Error
  <2>4. QED
    BY <2>1, <2>2, <2>3, MatricesStay
<1>10. CASE CreateFails
  BY <1>10
  DEF CreateFails, LookupError, Error, NoDevicesTouched, MatrixInv, LoadingInv, Won, DevInv,
      DevStages
<1>11. ASSUME NEW d \in Devices,
                    CreateDevice(d)
             PROVE  MatrixInv'
  <2>1. dev = NoDev /\ NoDev \notin Devices
    BY <1>11, DeviceAssumption DEF CreateDevice, DevInv, DeviceAssumption
  <2>2. d \notin held
    BY <1>11, <2>1 DEF CreateDevice, LifeInv
  <2>3. \A e \in held : matrix'[e] = matrix[e]
    BY <1>11, <2>2 DEF CreateDevice, TypeOK, DeviceType
  <2>4. pc' = "init" /\ held' = held /\ ghost' = ghost
    BY <1>11 DEF CreateDevice
  <2>5. QED
    BY <2>3, <2>4 DEF MatrixInv, LoadingInv, Won
<1>12. CASE DeviceInit
  <2>1. dev \in Devices /\ dev \notin held
    BY <1>12 DEF DeviceInit, DevInv, DevStages
  <2>2. CASE pc' = "options"
    <3>1. /\ todo' = globals \o call.opts
          /\ ghost' = [ghost EXCEPT !.given[dev] = [global |-> LastMatrix(globals),
                                                    local |-> LastMatrix(call.opts)]]
      BY <1>12, <2>2 DEF DeviceInit, Error, OptionOrder
    <3>2. globals \in Seq(Options) /\ call.opts \in Seq(Options)
      <4>1. call # NoCall
        BY <1>12 DEF DeviceInit, CallInv, CallStages
      <4>2. call \in Call
        BY <4>1 DEF TypeOK, CallType
      <4>3. call.opts \in OptionLists
        BY <4>2 DEF Call
      <4>4. QED
        BY <4>3, OptionListsAreSequences DEF TypeOK, WorldType
    <3>3. LastMatrix(todo') = IF LastMatrix(call.opts) # "none" THEN LastMatrix(call.opts)
                                                              ELSE LastMatrix(globals)
      BY <3>1, <3>2, LastOfBoth
    <3>4. ghost'.given = [ghost.given EXCEPT ![dev] = [global |-> LastMatrix(globals),
                                                      local |-> LastMatrix(call.opts)]]
          /\ ghost.given \in [Devices -> Given]
      BY <3>1 DEF TypeOK, WorldType, History
    <3>5. /\ ghost'.given[dev].local = LastMatrix(call.opts)
          /\ ghost'.given[dev].global = LastMatrix(globals)
          /\ \A d \in Devices \ {dev} : ghost'.given[d] = ghost.given[d]
      BY <2>1, <3>4
    <3>6. \A d \in held : matrix'[d] = matrix[d] /\ d \in Devices \ {dev}
      BY <1>12, <2>1 DEF DeviceInit, TypeOK, DeviceType
    <3>7. held' = held /\ dev' = dev
      BY <1>12 DEF DeviceInit, OpenStage, StageUnchanged
    <3>8. LastMatrix(todo)' = Won(dev)'
      BY <3>3, <3>5, <3>7 DEF Won
    <3>9. \A d \in held' : Won(d)' = Won(d)
      BY <3>5, <3>6, <3>7 DEF Won
    <3>10. QED
      BY <2>2, <3>6, <3>7, <3>8, <3>9 DEF MatrixInv, LoadingInv
  <2>3. CASE pc' # "options"
    BY <1>12, <2>1, <2>3
    DEF DeviceInit, OpenStage, StageUnchanged, Error, MatrixInv, LoadingInv, Won, TypeOK,
        WorldType, History, DeviceType
  <2>4. QED
    BY <2>2, <2>3
<1>13. CASE MatrixOption
  <2>1. dev \in Devices /\ dev \notin held
    BY <1>13 DEF MatrixOption, DevInv, DevStages
  <2>2. held' = held /\ dev' = dev /\ ghost'.given = ghost.given
    BY <1>13
    DEF MatrixOption, OpenStage, StageUnchanged, Error, TypeOK, WorldType, History
  <2>3. \A d \in held : matrix'[d] = matrix[d]
    BY <1>13, <2>1 DEF MatrixOption, TypeOK, DeviceType
  <2>4. \A d : Won(d)' = Won(d)
    BY <2>2 DEF Won
  <2>5. CASE pc' = "options"
    <3>1. matrix'[dev] = MatrixValue[Head(todo)]
      BY <1>13, <2>1, <2>5 DEF MatrixOption, Error, TypeOK, DeviceType
    <3>2. LastMatrix(todo) = IF LastMatrix(todo') # "none" THEN LastMatrix(todo')
                                                          ELSE MatrixValue[Head(todo)]
      BY <1>13, LastOfTail DEF MatrixOption, TypeOK, CallType
    <3>3. pc = "options" /\ MatrixValue[Head(todo)] # "none"
      BY <1>13 DEF MatrixOption
    <3>4. LastMatrix(todo)' = LastMatrix(todo')
      BY DEF LastMatrix, IsLastMatrix
    <3>5. LastMatrix(todo) = Won(dev)
      BY <3>2, <3>3 DEF MatrixInv, LoadingInv
    <3>6. QED
      BY <2>2, <2>3, <2>4, <2>5, <3>1, <3>2, <3>4, <3>5 DEF MatrixInv, LoadingInv
  <2>6. CASE pc' # "options"
    <3>1. pc' = "error"
      BY <1>13, <2>6 DEF MatrixOption, Error
    <3>2. QED
      BY <2>2, <2>3, <2>4, <3>1 DEF MatrixInv, LoadingInv
  <2>7. QED
    BY <2>5, <2>6
<1>14. CASE OtherOption
  <2>1. held' = held /\ dev' = dev /\ matrix' = matrix /\ ghost'.given = ghost.given
    BY <1>14
    DEF OtherOption, OpenStage, StageUnchanged, Error, TypeOK, WorldType, History
  <2>2. \A d : Won(d)' = Won(d)
    BY <2>1 DEF Won
  <2>3. pc = "options" /\ pc' \in {"options", "error"}
    BY <1>14 DEF OtherOption, Error
  <2>4. LastMatrix(todo') = LastMatrix(todo)
    <3>1. LastMatrix(todo) = IF LastMatrix(todo') # "none" THEN LastMatrix(todo')
                                                          ELSE MatrixValue[Head(todo)]
      BY <1>14, LastOfTail DEF OtherOption, TypeOK, CallType
    <3>2. QED
      BY <1>14, <3>1 DEF OtherOption
  <2>5. QED
    BY <2>1, <2>2, <2>3, <2>4 DEF MatrixInv, LoadingInv
<1>15. CASE OptionsLoaded
  <2>1. LastMatrix(todo) = "none"
    BY <1>15 DEF OptionsLoaded, LastMatrix
  <2>2. QED
    BY <1>15, <2>1
    DEF OptionsLoaded, OpenStage, StageUnchanged, MatrixInv, LoadingInv, Won
<1>16. CASE Reconcile
  <2>1. held' = held /\ dev' = dev /\ matrix' = matrix
    BY <1>16 DEF Reconcile, OpenStage, StageUnchanged
  <2>2. ghost'.given = ghost.given
    BY <1>16 DEF Reconcile, OpenStage, StageUnchanged, Error, TypeOK, WorldType, History
  <2>3. /\ pc' # "options"
        /\ pc' \in {"reconcile", "open", "permute", "swap"} =>
             pc \in {"reconcile", "open", "permute", "swap"}
    BY <1>16 DEF Reconcile, OpenStage, StageUnchanged, Error
  <2>4. QED
    BY <2>1, <2>2, <2>3, MatricesStay
<1>17. CASE NoReconcile
  BY <1>17
  DEF NoReconcile, OpenStage, StageUnchanged, MatrixInv, LoadingInv, Won, DevInv,
      DevStages
<1>18. CASE DriverOpen
  <2>1. held' = held /\ dev' = dev /\ matrix' = matrix
    BY <1>18 DEF DriverOpen, OpenStage, StageUnchanged
  <2>2. ghost'.given = ghost.given
    BY <1>18 DEF DriverOpen, OpenStage, StageUnchanged, Error, TypeOK, WorldType, History
  <2>3. /\ pc' # "options"
        /\ pc' \in {"reconcile", "open", "permute", "swap"} =>
             pc \in {"reconcile", "open", "permute", "swap"}
    BY <1>18 DEF DriverOpen, OpenStage, StageUnchanged, Error
  <2>4. QED
    BY <2>1, <2>2, <2>3, MatricesStay
<1>19. CASE Permute
  <2>1. held' = held /\ dev' = dev /\ matrix' = matrix
    BY <1>19 DEF Permute, OpenStage, StageUnchanged
  <2>2. ghost'.given = ghost.given
    BY <1>19 DEF Permute, OpenStage, StageUnchanged, Error, TypeOK, WorldType, History
  <2>3. /\ pc' # "options"
        /\ pc' \in {"reconcile", "open", "permute", "swap"} =>
             pc \in {"reconcile", "open", "permute", "swap"}
    BY <1>19 DEF Permute, OpenStage, StageUnchanged, Error
  <2>4. QED
    BY <2>1, <2>2, <2>3, MatricesStay
<1>20. CASE CreateSwapBuffer
  <2>1. matrix' = matrix /\ ghost'.given = ghost.given /\ pc = "swap"
    BY <1>20 DEF CreateSwapBuffer, Return, TypeOK, WorldType, History
  <2>2. \/ held' = held \cup {dev} /\ pc' = "idle"
        \/ held' = held /\ pc' = "close"
    BY <1>20 DEF CreateSwapBuffer, Return
  <2>3. \A d : Won(d)' = Won(d)
    BY <2>1 DEF Won
  <2>4. QED
    BY <2>1, <2>2, <2>3 DEF MatrixInv, LoadingInv
<1>21. CASE ErrorExit
  BY <1>21 DEF ErrorExit, NoDevicesTouched, MatrixInv, LoadingInv, Won, DevInv,
      DevStages
<1>22. CASE CloseCallback
  BY <1>22 DEF CloseCallback, StageUnchanged, MatrixInv, LoadingInv, Won, DevInv,
      DevStages
<1>23. CASE ClearCallback
  BY <1>23 DEF ClearCallback, StageUnchanged, MatrixInv, LoadingInv, Won, DevInv,
      DevStages
<1>24. CASE AoCloseFrees
  BY <1>24
  DEF AoCloseFrees, Freed, MatrixInv, LoadingInv, Won, DevInv,
      DevStages, ErrnoOfFailure
<1>25. CASE SwapFailureFrees
  BY <1>25 DEF SwapFailureFrees, Freed, MatrixInv, LoadingInv, Won, DevInv,
      DevStages
<1>26. CASE OpenFailed
  BY <1>26 DEF OpenFailed, NoDevicesTouched, MatrixInv, LoadingInv, Won, DevInv,
      DevStages
<1>27. CASE SeeFailure
  BY <1>27 DEF SeeFailure, NoDevicesTouched, MatrixInv, LoadingInv, Won, DevInv,
      DevStages
<1>28. CASE UNCHANGED vars
  BY <1>28 DEF vars, MatrixInv, LoadingInv, Won, DevInv,
      DevStages
<1> QED
  BY <1>1, <1>2, <1>3, <1>4, <1>5, <1>6, <1>7, <1>8, <1>9, <1>10, <1>11, <1>12,
     <1>13, <1>14, <1>15, <1>16, <1>17, <1>18, <1>19, <1>20, <1>21, <1>22,
     <1>23, <1>24, <1>25, <1>26, <1>27, <1>28
  DEF Next, Application, OpenCall, Library

\* The matrix of a device is the one the last option of the call asks for,
\* else the last global one, however many options there are.
THEOREM MatrixWins == Spec => []CallersMatrixWins
<1>1. Init => MatrixInv
  BY DEF Init, MatrixInv, LoadingInv
<1>2. Inv /\ MatrixInv /\ [Next]_vars => MatrixInv'
  BY MatrixInvStep DEF Inv
<1>3. MatrixInv => CallersMatrixWins
  BY DEF MatrixInv, Won, CallersMatrixWins
<1> QED BY <1>1, <1>2, <1>3, Invariance, PTL DEF Spec
=============================================================================
