------------------------------ MODULE AoDevice ------------------------------
(***************************************************************************)
(* The life of ao_device structures in src/src/audio_out.c: ao_open_live,  *)
(* ao_open_file, the stages of _open_device with every failure exit,       *)
(* ao_play and ao_close.  The library runs in its caller's thread, so at   *)
(* most one call is in progress; a call is split at the driver callbacks   *)
(* and at the allocations that can fail, because these decide who owns the *)
(* FILE, the driver's private data and the conversion buffers.  What the   *)
(* channel mapping and the sample conversion compute is left to other      *)
(* modules: here a stage only says whether it succeeds and what it         *)
(* allocates.                                                              *)
(***************************************************************************)
EXTENDS Integers, Sequences

CONSTANTS
  Devices,      \* addresses calloc() may return for an ao_device
  Streams,      \* addresses fopen() may return for a FILE, and stdout
  Stdout,       \* the FILE that filename "-" stands for
  Paths,        \* file names other than "-"
  PathStates,   \* how a file may be found: "absent", "readable", "unreadable"
  Drivers,      \* ids with a driver in the list
  DriverType,   \* ao_info.type of each driver: "live" or "file"
  OwnMatrix,    \* drivers whose device_init sets device->output_matrix
  Unordered,    \* drivers whose device_init leaves output_matrix_order 0
  BadId,        \* an id _get_driver() rejects
  Options,      \* options the application or a configuration file may give
  MatrixValue,  \* the output matrix an option asks for: a name, "bad" or "none"
  Formats,      \* the ao_sample_formats the application asks for
  MaxOptions,   \* bound on the length of an option list
  MaxChannels,  \* bound on the channels of a format or of a driver
  NoDev, NoStream, NoCall   \* a NULL ao_device, a NULL FILE, no call running

Codes == {"AO_ENODRIVER", "AO_ENOTFILE", "AO_ENOTLIVE", "AO_EBADOPTION",
          "AO_EOPENDEVICE", "AO_EOPENFILE", "AO_EFILEEXISTS",
          "AO_EBADFORMAT", "AO_EFAIL"}
Buffers == {"output_matrix", "input_map", "inter_matrix", "inter_permute",
            "swap_buffer"}
OptionLists == UNION {[1..n -> Options] : n \in 0..MaxOptions}

Format == [channels : 1..MaxChannels, wide : BOOLEAN,
           client : {"little", "big"}, matrix : {"none", "bad", "M", "named"}]

ASSUME DeviceAssumption ==
  /\ Stdout \in Streams /\ NoStream \notin Streams /\ NoDev \notin Devices
  /\ NoCall \notin [id : Drivers \cup {BadId}, format : Format,
                    opts : OptionLists, file : Streams \cup {NoStream}]
  /\ DriverType \in [Drivers -> {"live", "file"}] /\ BadId \notin Drivers
  /\ OwnMatrix \subseteq Drivers /\ Unordered \subseteq Drivers
  /\ MatrixValue \in [Options -> STRING]
  /\ PathStates \subseteq {"absent", "readable", "unreadable"}
  /\ MaxOptions \in Nat /\ MaxChannels \in Nat \ {0}
  /\ Formats \subseteq Format

VARIABLES
  pc,        \* where the library call in progress stands, or "idle"
  exit,      \* who is releasing dev: "user", "error", "swap", or "none"
  call,      \* the arguments of the call in progress
  dev,       \* the ao_device the call works on, or NoDev
  todo,      \* options ao_device_load_options has not reached yet
  smatrix,   \* sformat.matrix of _open_device is non-NULL
  errno,     \* the C library's errno; "0" or a code, "ESYS" from a system call
  errtemp,   \* errtemp of the error exit of _open_device
  drv,       \* life of each device as its driver sees it (PluginContract)
  held,      \* devices the application has been given and has not closed
  file,      \* ao_device.file
  bufs,      \* the heap blocks each device structure points to
  matrix,    \* the option value output_matrix holds: "none", "driver", a name
  fmt,       \* channel counts and byte formats of each device
  stream,    \* each FILE: "open", or "closed" and free for fopen
  disk,      \* each file: "absent", "readable" or "unreadable"
  globals,   \* ao_global_options
  ghost      \* history the properties talk about, read by no action

vars == <<pc, exit, call, dev, todo, smatrix, errno, errtemp, drv, held, file, bufs,
          matrix, fmt, stream, disk, globals, ghost>>

-----------------------------------------------------------------------------
(* Formats, and what ao_play relies on. *)

\* in, out: input_channels and output_channels; wide: bytewidth > 1.
Fmt == [in : 0..MaxChannels, out : 0..MaxChannels, wide : BOOLEAN,
        client : {"little", "big"}, driver : {"little", "big"}]

NoFmt == [in |-> 0, out |-> 0, wide |-> FALSE, client |-> "little",
          driver |-> "little"]

BytesDiffer(f) == f.wide /\ f.client # f.driver

\* The condition under which _open_device creates the swap buffer.
NeedsSwapBuffer(f, b) ==
  BytesDiffer(f) \/ f.in # f.out \/ "inter_permute" \in b

\* sformat.matrix after _sanitize_matrix and the special case of mono "M".
UsableMatrix(f) == f.matrix = "named" \/ (f.matrix = "M" /\ f.channels > 1)
-----------------------------------------------------------------------------
(* Starting a call. *)

\* The last matrix an option list asks for, or "none".
IsLastMatrix(opts, i) ==
  /\ MatrixValue[opts[i]] # "none"
  /\ \A j \in DOMAIN opts : MatrixValue[opts[j]] # "none" => j <= i

LastMatrix(opts) ==
  IF \E i \in DOMAIN opts : IsLastMatrix(opts, i)
  THEN MatrixValue[opts[CHOOSE i \in DOMAIN opts : IsLastMatrix(opts, i)]]
  ELSE "none"

\* The matrices a device was opened with, for the properties.
NotGiven == [global |-> "none", local |-> "none"]

Init ==
  /\ pc = "idle" /\ exit = "none" /\ call = NoCall /\ dev = NoDev /\ todo = <<>>
  /\ smatrix = FALSE /\ errno = "0" /\ errtemp = "0"
  /\ drv = [d \in Devices |-> "none"] /\ held = {}
  /\ file = [d \in Devices |-> NoStream]
  /\ bufs = [d \in Devices |-> {}]
  /\ matrix = [d \in Devices |-> "none"]
  /\ fmt = [d \in Devices |-> NoFmt]
  /\ stream = [s \in Streams |-> IF s = Stdout THEN "open" ELSE "closed"]
  /\ disk \in [Paths -> PathStates]
  /\ globals \in OptionLists
  /\ ghost = [cause |-> "0", clobbered |-> {},
              given |-> [d \in Devices |-> NotGiven]]

\* What a call of _open_device leaves alone until it has a device.
NoDevicesTouched == UNCHANGED <<drv, held, file, bufs, matrix, fmt>>

\* Entering _open_device.  Calls start while an address is free: calloc may
\* fail in any state, so a call made with none free adds nothing.  Nor does
\* what errno held before: no path reads it before it is set.
EnterOpen(id, f, opts, s) ==
  /\ pc = "idle" /\ \E d \in Devices : drv[d] = "none"
  /\ pc' = "lookup" /\ errno' = "0"
  /\ call' = [id |-> id, format |-> f, opts |-> opts, file |-> s]
  /\ UNCHANGED <<exit, dev, todo, smatrix, errtemp, globals>>
  /\ NoDevicesTouched

\* ao_open_live: _open_device with file == NULL.
OpenLive(id, f, opts) ==
  EnterOpen(id, f, opts, NoStream) /\ UNCHANGED <<stream, disk, ghost>>

\* ao_open_file on "-": stdout is handed over as it is.
OpenDash(id, f, opts) ==
  EnterOpen(id, f, opts, Stdout) /\ UNCHANGED <<stream, disk, ghost>>

\* ao_open_file on a path.  Without overwrite the path is probed with
\* fopen(, "r"), which refuses an unreadable file like an absent one.
OpenFile(p, overwrite, s, id, f, opts) ==
  /\ overwrite \/ disk[p] # "readable"
  /\ s # Stdout /\ stream[s] = "closed"
  /\ stream' = [stream EXCEPT ![s] = "open"]
  /\ disk' = [disk EXCEPT ![p] = IF @ = "absent" THEN "readable" ELSE @]
  /\ ghost' = [ghost EXCEPT !.clobbered =
                 IF disk[p] # "absent" /\ ~overwrite THEN @ \cup {p} ELSE @]
  /\ EnterOpen(id, f, opts, s)

\* ao_open_file without a FILE: the file exists, or fopen(, "w") failed.
NoFile(code) ==
  /\ pc = "idle"
  /\ pc' = "returned" /\ errno' = code
  /\ ghost' = [ghost EXCEPT !.cause = code]
  /\ UNCHANGED <<exit, call, dev, todo, smatrix, errtemp, stream, disk, globals>>
  /\ NoDevicesTouched

OpenFileExists(p) == disk[p] = "readable" /\ NoFile("AO_EFILEEXISTS")

OpenFileFails(p, overwrite) ==
  (overwrite \/ disk[p] # "readable") /\ NoFile("AO_EOPENFILE")

\* ao_append_global_option, between two calls.
AppendGlobalOption(o) ==
  /\ pc = "idle" /\ Len(globals) < MaxOptions
  /\ globals' = Append(globals, o)
  /\ UNCHANGED <<pc, exit, call, dev, todo, smatrix, errno, errtemp, stream, disk,
                 ghost>>
  /\ NoDevicesTouched
-----------------------------------------------------------------------------
(* The stages of _open_device. *)

\* goto error with a code; the device, if any, is left to ao_close.
Error(code) ==
  /\ errno' = code /\ pc' = "error"
  /\ ghost' = [ghost EXCEPT !.cause = code]

LookupError(code) ==
  /\ Error(code)
  /\ UNCHANGED <<exit, call, dev, todo, smatrix, errtemp, stream, disk, globals>>
  /\ NoDevicesTouched

NoDriver == pc = "lookup" /\ call.id = BadId /\ LookupError("AO_ENODRIVER")

WrongType ==
  /\ pc = "lookup" /\ call.id \in Drivers
  /\ IF call.file = NoStream
     THEN DriverType[call.id] # "live" /\ LookupError("AO_ENOTLIVE")
     ELSE DriverType[call.id] # "file" /\ LookupError("AO_ENOTFILE")

RightType == /\ call.id \in Drivers
             /\ DriverType[call.id] = IF call.file = NoStream THEN "live" ELSE "file"

CreateFails == pc = "lookup" /\ RightType /\ LookupError("AO_EFAIL")

\* _create_device: calloc may return any address not in use.
CreateDevice(d) ==
  /\ pc = "lookup" /\ RightType
  /\ drv[d] = "none"
  /\ drv' = [drv EXCEPT ![d] = "born"]
  /\ dev' = d /\ pc' = "init"
  /\ file' = [file EXCEPT ![d] = call.file]
  /\ bufs' = [bufs EXCEPT ![d] = {}]
  /\ matrix' = [matrix EXCEPT ![d] = "none"]
  /\ fmt' = [fmt EXCEPT ![d] = [in |-> 0, out |-> call.format.channels,
                                wide |-> FALSE, client |-> call.format.client,
                                driver |-> "little"]]
  /\ UNCHANGED <<exit, call, todo, smatrix, errno, errtemp, held, stream, disk,
                 globals, ghost>>

StageUnchanged == UNCHANGED <<call, dev, errtemp, held, file, stream, disk,
                              globals>>
OpenStage == StageUnchanged /\ UNCHANGED exit

\* Seeded fault: the global options are loaded last.
FaultOptionOrder == call.opts \o globals

\* The order ao_device_load_options is given the lists in.
OptionOrder == globals \o call.opts

DeviceInit ==
  /\ pc = "init"
  /\ \/ /\ drv' = [drv EXCEPT ![dev] = "ready"]
        /\ IF call.id \in OwnMatrix
           THEN /\ bufs' = [bufs EXCEPT ![dev] = {"output_matrix"}]
                /\ matrix' = [matrix EXCEPT ![dev] = "driver"]
           ELSE UNCHANGED <<bufs, matrix>>
        /\ pc' = "options"
        /\ todo' = OptionOrder
        /\ ghost' = [ghost EXCEPT !.given[dev] = [global |-> LastMatrix(globals),
                                                  local |-> LastMatrix(call.opts)]]
        /\ UNCHANGED errno
     \/ /\ drv' = [drv EXCEPT ![dev] = "failed"]
        /\ Error("AO_EFAIL") /\ UNCHANGED <<bufs, matrix, todo>>
  /\ UNCHANGED <<smatrix, fmt>> /\ OpenStage

Abandoned == drv' = [drv EXCEPT ![dev] = "failed"]

\* One option of ao_device_load_options, which runs through ao_global_options
\* first and the caller's list after it.
MatrixOption ==
  /\ pc = "options" /\ todo # <<>>
  /\ MatrixValue[Head(todo)] # "none"
  /\ todo' = Tail(todo)
  /\ IF MatrixValue[Head(todo)] = "bad"
     THEN /\ bufs' = [bufs EXCEPT ![dev] = @ \ {"output_matrix"}]
          /\ matrix' = [matrix EXCEPT ![dev] = "none"]
          /\ Abandoned /\ Error("AO_EBADOPTION")
     ELSE /\ bufs' = [bufs EXCEPT ![dev] = @ \cup {"output_matrix"}]
          /\ matrix' = [matrix EXCEPT ![dev] = MatrixValue[Head(todo)]]
          /\ UNCHANGED <<pc, drv, errno, ghost>>
  /\ UNCHANGED <<smatrix, fmt>> /\ OpenStage

\* Seeded fault: options = options->next is missing.
FaultOtherOption ==
  /\ pc = "options" /\ todo # <<>> /\ MatrixValue[Head(todo)] = "none"
  /\ UNCHANGED <<pc, todo, drv, errno, ghost, smatrix, fmt, bufs, matrix>>
  /\ OpenStage

\* Any other option: a verbosity key, or a key for the driver's set_option.
OtherOption ==
  /\ pc = "options" /\ todo # <<>>
  /\ MatrixValue[Head(todo)] = "none"
  /\ todo' = Tail(todo)
  /\ \/ UNCHANGED <<pc, drv, errno, ghost>>
     \/ Abandoned /\ Error("AO_EOPENDEVICE")
  /\ UNCHANGED <<smatrix, fmt, bufs, matrix>> /\ OpenStage

OptionsLoaded ==
  /\ pc = "options" /\ todo = <<>>
  /\ smatrix' = UsableMatrix(call.format)
  /\ errno' = "0"          \* errno = ao_device_load_options(...)
  /\ pc' = "reconcile"
  /\ UNCHANGED <<todo, drv, bufs, matrix, fmt, ghost>> /\ OpenStage

\* Seeded fault: max + 1 is computed once too often.
FaultHousekept(f, out) ==
  [f EXCEPT !.in = call.format.channels, !.out = out + 1, !.wide = call.format.wide]

\* Housekeeping before the driver's open: channel counts and sample width.
Housekept(f, out) ==
  [f EXCEPT !.in = call.format.channels, !.out = out, !.wide = call.format.wide]

\* Both matrices are known: FIXED, COLLAPSIBLE and PERMUTABLE all build
\* input_map and inter_matrix and choose an output channel count, or find no
\* channel in common (or no memory for input_map, which reads the same).
Reconcile ==
  /\ pc = "reconcile" /\ smatrix /\ "output_matrix" \in bufs[dev]
  /\ IF call.id \in Unordered
     THEN Abandoned /\ Error("AO_EFAIL") /\ UNCHANGED <<bufs, fmt>>
     ELSE \/ \E map \in {{}, {"input_map"}} :
               /\ bufs' = [bufs EXCEPT ![dev] = @ \cup map]
               /\ Abandoned /\ Error("AO_EBADFORMAT") /\ UNCHANGED fmt
          \/ \E out \in 1..MaxChannels :
               /\ bufs' = [bufs EXCEPT ![dev] = @ \cup {"input_map", "inter_matrix"}]
               /\ fmt' = [fmt EXCEPT ![dev] = Housekept(@, out)]
               /\ pc' = "open" /\ UNCHANGED <<drv, errno, ghost>>
  /\ UNCHANGED <<todo, smatrix, matrix>> /\ OpenStage

NoReconcile ==
  /\ pc = "reconcile" /\ ~(smatrix /\ "output_matrix" \in bufs[dev])
  /\ fmt' = [fmt EXCEPT ![dev] = Housekept(@, call.format.channels)]
  /\ pc' = "open"
  /\ UNCHANGED <<todo, smatrix, drv, errno, bufs, matrix, ghost>>
  /\ OpenStage

\* funcs->open: the driver chooses its byte order and may set inter_matrix
\* and change output_channels, even to 0.
DriverOpen ==
  /\ pc = "open"
  /\ \/ /\ \E order \in {"little", "big"}, out \in 0..MaxChannels :
             fmt' = [fmt EXCEPT ![dev].driver = order, ![dev].out = out]
        /\ \E own \in {{}, {"inter_matrix"}} :
             bufs' = [bufs EXCEPT ![dev] = @ \cup own]
        /\ drv' = [drv EXCEPT ![dev] = "open"]
        /\ pc' = "permute" /\ UNCHANGED <<errno, ghost>>
     \/ Abandoned /\ Error("AO_EOPENDEVICE") /\ UNCHANGED <<fmt, bufs>>
  /\ UNCHANGED <<todo, smatrix, matrix>> /\ OpenStage

\* Build inter_permute from inter_matrix ("L,R" when there is none), then
\* drop it again if it is the identity on equal channel counts.
Permute ==
  /\ pc = "permute"
  /\ IF ~smatrix
     THEN pc' = "swap" /\ UNCHANGED <<errno, bufs, ghost>>
     ELSE \/ /\ bufs' = [bufs EXCEPT ![dev] = @ \cup {"inter_matrix"}]
             /\ Error("AO_EFAIL")
          \/ /\ \E identity \in BOOLEAN :
                  bufs' = [bufs EXCEPT ![dev] =
                    @ \cup {"inter_matrix"}
                      \cup (IF identity /\ fmt[dev].in = fmt[dev].out
                            THEN {} ELSE {"inter_permute"})]
             /\ pc' = "swap" /\ UNCHANGED <<errno, ghost>>
  /\ UNCHANGED <<todo, smatrix, drv, matrix, fmt>> /\ OpenStage

\* The device is complete: hand it to the application.
Return ==
  /\ held' = held \cup {dev}
  /\ pc' = "idle" /\ call' = NoCall /\ dev' = NoDev /\ smatrix' = FALSE
  /\ UNCHANGED exit

CreateSwapBuffer ==
  /\ pc = "swap"
  /\ IF ~NeedsSwapBuffer(fmt[dev], bufs[dev])
     THEN Return /\ UNCHANGED <<bufs, ghost>>
     ELSE \/ /\ bufs' = [bufs EXCEPT ![dev] = @ \cup {"swap_buffer"}]
             /\ Return /\ UNCHANGED ghost
          \/ /\ pc' = "close" /\ exit' = "swap"
             /\ UNCHANGED <<bufs, call, dev, held, smatrix>>
             /\ ghost' = [ghost EXCEPT !.cause = "AO_EFAIL"]
  /\ UNCHANGED <<todo, errno, errtemp, drv, file, matrix, fmt, stream, disk,
                 globals>>
-----------------------------------------------------------------------------
(* Ways out: the error exit of _open_device, its exit without a swap buffer, *)
(* ao_close, and the tail of ao_open_file.                                   *)

\* Seeded fault: a device whose open failed is freed without ao_close.
FaultErrorExit ==
  /\ pc = "error"
  /\ errtemp' = errno
  /\ IF dev = NoDev THEN pc' = "tail" /\ UNCHANGED exit
                     ELSE pc' = "free" /\ exit' = "error"
  /\ UNCHANGED <<call, dev, todo, smatrix, errno, stream, disk, globals, ghost>>
  /\ NoDevicesTouched

ErrorExit ==
  /\ pc = "error"
  /\ errtemp' = errno
  /\ IF dev = NoDev THEN pc' = "tail" /\ UNCHANGED exit
                     ELSE pc' = "close" /\ exit' = "error"
  /\ UNCHANGED <<call, dev, todo, smatrix, errno, stream, disk, globals, ghost>>
  /\ NoDevicesTouched

\* Entering ao_close from the application.
AoClose(d) ==
  /\ pc = "idle" /\ d \in held
  /\ held' = held \ {d} /\ dev' = d /\ pc' = "close" /\ exit' = "user"
  /\ UNCHANGED <<call, todo, smatrix, errno, errtemp, drv, file, bufs, matrix,
                 fmt, stream, disk, globals, ghost>>

\* device->funcs->close and device->funcs->device_clear, which may run system
\* calls that set errno.
CloseCallback ==
  /\ pc = "close" /\ pc' = "clear"
  /\ drv' = [drv EXCEPT ![dev] = "closed"]
  /\ errno' \in {errno, "ESYS"}
  /\ UNCHANGED <<exit, todo, smatrix, bufs, matrix, fmt, ghost>>
  /\ StageUnchanged

ClearCallback ==
  /\ pc = "clear" /\ pc' = "free"
  /\ drv' = [drv EXCEPT ![dev] = "cleared"]
  /\ errno' \in {errno, "ESYS"}
  /\ UNCHANGED <<exit, todo, smatrix, bufs, matrix, fmt, ghost>>
  /\ StageUnchanged

\* free(device): the structure and its pointers are gone.
Freed(d) == /\ drv' = [drv EXCEPT ![d] = "none"]
            /\ bufs' = [bufs EXCEPT ![d] = {}]
            /\ file' = [file EXCEPT ![d] = NoStream]
            /\ matrix' = [matrix EXCEPT ![d] = "none"]
            /\ fmt' = [fmt EXCEPT ![d] = NoFmt]
            /\ dev' = NoDev /\ exit' = "none"

Closed(s) == IF s = NoStream THEN stream ELSE [stream EXCEPT ![s] = "closed"]

\* Seeded fault: errno is not restored after the driver's callbacks.
FaultErrnoOfFailure == errno

\* errno as the error exit leaves it.
ErrnoOfFailure == errtemp

\* The rest of ao_close: fclose and the frees.
AoCloseFrees ==
  /\ pc = "free" /\ exit \in {"user", "error"}
  /\ stream' = Closed(file[dev])
  /\ Freed(dev)
  /\ ghost' = [ghost EXCEPT !.given[dev] = NotGiven]
  /\ IF exit = "user" THEN pc' = "idle" /\ UNCHANGED errno
                      ELSE pc' = "tail" /\ errno' = ErrnoOfFailure
  /\ UNCHANGED <<call, todo, smatrix, errtemp, held, disk, globals>>

\* The exit without a swap buffer: free(device) and nothing it points to.
SwapFailureFrees ==
  /\ pc = "free" /\ exit = "swap"
  /\ Freed(dev)
  /\ pc' = "tail" /\ errno' = "AO_EFAIL"
  /\ ghost' = [ghost EXCEPT !.given[dev] = NotGiven]
  /\ UNCHANGED <<call, todo, smatrix, errtemp, held, stream, disk, globals>>

\* Seeded fault: ao_open_file relies on _open_device to close the FILE.
FaultOpenFailed ==
  /\ pc = "tail" /\ pc' = "returned"
  /\ UNCHANGED <<stream, errno, exit, call, dev, todo, smatrix, errtemp, disk,
                 globals, ghost>>
  /\ NoDevicesTouched

\* _open_device returned NULL: ao_open_file closes the FILE it opened.
\* Closing a FILE that is closed already is undefined; the C library either
\* ignores it or fails with an errno of its own.
OpenFailed ==
  /\ pc = "tail" /\ pc' = "returned"
  /\ stream' = Closed(call.file)
  /\ errno' \in IF call.file = NoStream \/ stream[call.file] = "open"
                 THEN {errno} ELSE {errno, "ESYS"}
  /\ UNCHANGED <<exit, call, dev, todo, smatrix, errtemp, disk, globals, ghost>>
  /\ NoDevicesTouched

\* The application has seen NULL and errno, and clears it.
SeeFailure ==
  /\ pc = "returned" /\ pc' = "idle"
  /\ call' = NoCall /\ todo' = <<>> /\ smatrix' = FALSE
  /\ errno' = "0" /\ errtemp' = "0"
  /\ ghost' = [ghost EXCEPT !.cause = "0"]
  /\ UNCHANGED <<exit, dev, stream, disk, globals>>
  /\ NoDevicesTouched
-----------------------------------------------------------------------------
OpenCall ==
  \E id \in Drivers \cup {BadId}, f \in Formats, opts \in OptionLists :
    \/ OpenLive(id, f, opts)
    \/ OpenDash(id, f, opts)
    \/ \E p \in Paths, overwrite \in BOOLEAN, s \in Streams :
         OpenFile(p, overwrite, s, id, f, opts)

Application ==
  \/ OpenCall
  \/ \E p \in Paths : OpenFileExists(p)
  \/ \E p \in Paths, overwrite \in BOOLEAN : OpenFileFails(p, overwrite)
  \/ \E o \in Options : AppendGlobalOption(o)
  \/ \E d \in Devices : AoClose(d)

Library ==
  \/ NoDriver \/ WrongType \/ CreateFails \/ \E d \in Devices : CreateDevice(d)
  \/ DeviceInit \/ MatrixOption \/ OtherOption \/ OptionsLoaded
  \/ Reconcile \/ NoReconcile \/ DriverOpen \/ Permute \/ CreateSwapBuffer
  \/ ErrorExit \/ CloseCallback \/ ClearCallback \/ AoCloseFrees
  \/ SwapFailureFrees \/ OpenFailed \/ SeeFailure

Next == Application \/ Library

Spec == Init /\ [][Next]_vars

\* Driver callbacks return, so a call in progress runs on.
FairSpec == Spec /\ WF_vars(Library)
-----------------------------------------------------------------------------
(* What should hold. *)

Stages == {"idle", "lookup", "init", "options", "reconcile", "open", "permute",
           "swap", "error", "close", "clear", "free", "tail", "returned"}
Call == [id : Drivers \cup {BadId}, format : Formats, opts : OptionLists,
         file : Streams \cup {NoStream}]

Matrices == {"none", "driver"} \cup {MatrixValue[o] : o \in Options}
Given == [global : Matrices, local : Matrices]
History == [cause : Codes \cup {"0"}, clobbered : SUBSET Paths, given : [Devices -> Given]]

CallType ==
  /\ pc \in Stages /\ exit \in {"none", "user", "error", "swap"}
  /\ call \in Call \cup {NoCall} /\ dev \in Devices \cup {NoDev}
  /\ todo \in Seq(Options) /\ smatrix \in BOOLEAN
  /\ errno \in Codes \cup {"0", "ESYS"} /\ errtemp \in Codes \cup {"0", "ESYS"}

DeviceType ==
  /\ drv \in [Devices -> {"none", "born", "ready", "failed", "open", "closed",
                          "cleared"}]
  /\ held \subseteq Devices
  /\ file \in [Devices -> Streams \cup {NoStream}]
  /\ bufs \in [Devices -> SUBSET Buffers] /\ matrix \in [Devices -> Matrices]
  /\ fmt \in [Devices -> Fmt]

WorldType ==
  /\ stream \in [Streams -> {"open", "closed"}]
  /\ disk \in [Paths -> {"absent", "readable", "unreadable"}]
  /\ globals \in Seq(Options)
  /\ ghost \in History

\* Every variable keeps its type.
TypeOK == CallType /\ DeviceType /\ WorldType

\* Between two calls, the FILEs libao has opened and not closed are exactly
\* those of the devices the application holds, one each: no exit of
\* ao_open_file or ao_close leaks a FILE, and no device is handed out with,
\* or left with, a FILE that another call has closed.
OpenFilesAreHeld ==
  pc = "idle" =>
    /\ \A s \in Streams \ {Stdout} :
         stream[s] = "open" <=> \E d \in held : file[d] = s
    /\ \A d, e \in held :
         file[d] = file[e] /\ file[d] \notin {Stdout, NoStream} => d = e

\* Options of the call take precedence over the global ones, and a later one
\* over an earlier one (doc/config.html).
CallersMatrixWins ==
  \A d \in held :
    LET global == ghost.given[d].global
        local  == ghost.given[d].local
    IN /\ local # "none" => matrix[d] = local
       /\ local = "none" /\ global # "none" => matrix[d] = global

\* _open_device reports the stage that failed, whatever the driver's close and
\* device_clear did to errno on the way out.
FailureKeepsItsCode == pc = "tail" => errno = ghost.cause

Contract == INSTANCE PluginContract WITH st <- drv

\* Whatever path a device takes, its driver sees the callbacks in the order
\* PluginContract promises: close and device_clear once each, in this order,
\* for every device whose device_init was called.
KeepsContract == Contract!ContractSpec

\* Every call of the library returns.
CallsReturn == pc # "idle" ~> pc = "idle"

\* ao_open_file returns with the code _open_device set: "errno already set by
\* _open_device()" (the comment beside its fclose).  The code does not keep
\* this: the FILE is closed a second time, and errno may become EBADF.
FileFailureKeepsItsCode == pc = "returned" => errno = ghost.cause

\* An option that is refused makes the call fail with AO_EBADOPTION
\* (doc/ao_open_live.html).  The code does not keep this: it is AO_EOPENDEVICE.
RefusedOptionIsBadOption ==
  [][pc = "options" /\ pc' = "error" => errno' = "AO_EBADOPTION"]_vars

\* Without overwrite a file that exists keeps its contents
\* (doc/ao_open_file.html).  The code does not keep this: existence is tested by
\* opening the file for reading.
ExistingFilesKept == ghost.clobbered = {}
=============================================================================
