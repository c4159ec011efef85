# A TLA+ verification project for libao

libao (`src/src`, `src/include`, `src/doc`) is a C library that plays samples
through one of many output drivers or writes them to a file.  This directory
holds TLA+ models of its core and of the drivers that have a state of their
own, TLC configurations that check them on small instances, and theorems with
proofs that tlapm checks for every value of the constants.

## 1. The system

### Components, their state and their operations

| component | source | state | operations |
|---|---|---|---|
| driver table | `audio_out.c`, `config.c` | `driver_head`, `info_table`, `driver_count`, `config.default_driver`, `ao_global_options` | `ao_initialize`, `ao_shutdown`, `ao_append_global_option`, `ao_default_driver_id`, `ao_driver_id`, `ao_driver_info`, `ao_driver_info_list` |
| device lifecycle | `audio_out.c` | one `ao_device` per open device, `errno` | `ao_open_live`, `ao_open_file`, `ao_play`, `ao_close`, inside them `_open_device` |
| channel mapping | `audio_out.c` | `input_map`, `inter_matrix`, `inter_permute` | `_sanitize_matrix`, `_channelmask`, `_matrix_to_channels` and the reconciliation in `_open_device` |
| sample conversion | `audio_out.c` | `swap_buffer` | `_realloc_swap_buffer`, `_buffer_zero`, the permuting and swapping copy of `ao_play` |
| file writers | `ao_wav.c`, `ao_au.c`, `ao_raw.c`, `ao_null.c` | the FILE, the header's length fields | the driver callbacks |
| drivers without a buffer of their own | oss, sun, nas, irix, sndio, roar, pulse, aixs | a descriptor, connection or port; nas counts the server's free space (`buf_free`) | the driver callbacks; the nas server sends events |
| macosx | `plugins/macosx` | output unit, ring buffer, flags, one mutex and one condition variable for all devices | `play`, `close`, CoreAudio's `audioCallback` |
| wmm | `ao_wmm.c` | ring of wave headers, `sent_blocks`, `full_blocks` | `open`, `play`, `close`; Windows marks headers done |
| esd | `plugins/esd` | `bugbuffer`, `bugfill` | `play`, `close`, `write4096` |
| alsa | `plugins/alsa` | sample format, pad buffer, pcm handle | `open` with its attempts, `play` with its recovery |
| arts | `plugins/arts` | `server_open_count` and a mutex for the process | `test`, `open`, `play`, `close` |

The application's thread runs everything except CoreAudio's callback.  The
core calls a driver through the table of `ao_functions` (`ao_private.h`) and
never the other way round; what they share is the `ao_device`.  A driver's
`open` may change `output_channels`, `output_matrix` and `driver_byte_format`,
and the core decides afterwards, from the changed fields, what to permute and
swap.  libao takes no lock of its own.  Two devices of one process meet only
where a driver has globals: arts (mutex and counter) and macosx (mutex and
condition variable).

### What is hard to get right

* A failed open leaves by one of a dozen exits, and each must release the
  structure, the FILE, the driver's data and the buffers, once, and report the
  first failure and not what `close` did to `errno`.
* The core calls `close` and `device_clear` for a device whose `open`, or even
  `device_init`, failed.  A driver must work out from its own fields what there
  is to close; a descriptor number that was given back may belong to another
  thread by then.
* The channel route is decided before and after the driver's `open`, in three
  matrix orders, with placeholders and names the other side lacks.
* Rings wrap around, and are emptied by another thread or by the system; a
  signal for one device may wake the thread of another.
* Devices, sockets and servers fail in the middle of a play, take part of what
  they are given, or never answer.
* Driver ids are list positions and the list is rebuilt by every
  `ao_initialize`.

`PROJECT.json` lists these and the other hazards, 39 in all, at the line where
each bites and with the properties that would notice.

### Properties that make the components correct

* driver table: an id means the same driver to every call; the default is the
  configured driver or a working one of highest priority; nothing of an earlier
  session stays; a listed plugin stays loaded.
* device lifecycle: every FILE open is held by exactly one device; the order of
  callbacks; the code of the failure; precedence of options; every call returns.
* channel mapping and conversion: every channel of the stream carries the input
  of the same name, in the right byte order, or silence, and nothing old.
* drivers: bytes reach the hardware once and in order; no call hangs; no handle
  is leaked, and none is used or closed that belongs to someone else by now.
* file writers: a length in a header counts what is in the file, at any moment;
  the samples are there in order.

## 2. Plan and order of the modules

1. `PluginContract` (abstract): the order in which the core calls a driver.
2. `AoDevice`: the device lifecycle, shown to implement `PluginContract`; its
   proofs in `AoDevice_proofs`.
3. `ChannelMap` and `SampleRoute`: the route of the samples.
4. `DriverTable`: sessions, plugins, configuration.  `Positions` has what it and
   `ChannelMap` share, and `AudioOut_proofs` the proofs about both.
5. `SampleFifo` (abstract) and the drivers with a buffer that implement it:
   `MacQueue` over `MacOpen`, `WmmRing`, `AlsaPlay` over `AlsaOpen`.
6. `ArtsServer`: the shared connection.
7. `DriverHandle`: eight simple plugins with `PluginContract` as their
   environment.
8. `OutputStream`, and over it `EsdStream` and `NasStream`; `PlayStreams`
   composes the three, with `SampleFifo` as the promise of the careful drivers.
   The proofs about the plugins of 7 and 8 are in `Plugins_proofs`.
9. `FileWriter`: the wav, au and raw writers, with `SampleFifo` as their promise.

All of this is written, and every safety property and refinement that a run
checks is proved as section 5 says.  What the plan has left, most important
first:

* `AoDevice` with `SampleRoute` in its stages: the two share the order of
  `_open_device` but are checked apart.
* The latency arithmetic of pulse's `close`, which needs a server with a clock.
* The invariants on which the liveness properties rest (that a thread which waits
  is owed a signal, that a spin count goes down) as theorems, although what
  follows from them under fairness stays with TLC.

## 3. Modules and the code they stand for

**PluginContract** (44 lines).  `st[d]` is the life of one device as its driver
sees it.  The actions are the callbacks.  The order is the one `audio_out.c`
keeps, not the one the documentation tells: `close` is called after every
failure, `device_init` included.

**AoDevice.**  At most one call runs (`pc`, `call`, `dev`), split at the driver's
callbacks and at the allocations that can fail.  `OpenLive`, `OpenFile`,
`OpenDash` and their failures are the heads of `ao_open_live` and
`ao_open_file`; `NoDriver`, `WrongType`, `CreateFails`, `CreateDevice`,
`DeviceInit`, `MatrixOption`, `OtherOption`, `OptionsLoaded`, `Reconcile`,
`DriverOpen`, `Permute`, `CreateSwapBuffer` are the stages of `_open_device`, in
order; `ErrorExit`, `CloseCallback`, `ClearCallback`, `AoCloseFrees`,
`SwapFailureFrees` and `OpenFailed` are the ways out.  `bufs[d]` is the set of
heap blocks the structure points to, `stream` the FILEs, `disk` what a path
names.  `ghost` is history that no action reads.  What the mapping computes is
left to `SampleRoute`; here a stage says whether it succeeds and what it
allocates.  The memory of the option list is taken to suffice.

**ChannelMap, SampleRoute.**  `ChannelMap` has the pure functions of the mapping
(`Sanitized`, masks as sets, locations).  A matrix is a sequence of names; the
splitting of the string at commas is abstracted, what is dropped or counted is
not.  A loop that copies some entries of a list is `Kept` of their positions
(`Positions`).  `SampleRoute` runs the deciding stages on one device and then follows
every byte through `ao_play`: `PlayDirect` (the caller's buffer),
`PlayConverted` (grow, zero, permute with or without swap) and `PlayRefused`.
What a driver's `open` does to `inter_matrix`, which the core has reconciled, is
its kind (`DriverOpen`): some leave it as it is, null copies the input's, au, oss
and five more say "L,R" for up to two channels and roar has a matrix per channel count (`RoarMatrices`) where none
is set, alsa drops it on a device that is neither "default" nor "surround...",
and pulse leaves it but hands `input_map` to its server as positions
(`PulseMatrix`, `ServerName`).  `StreamNames` is what the driver is then left to
believe, "L" and "R" where it has no matrix, for the core falls back to these.
The size product of `ao_play` wraps at `Wrap`; no instance reaches it.

**DriverTable.**  `ao_initialize` is split at the two files, at each plugin and
at the allocation of the table, any of which may be missing.  The system hands
out plugins in any order (`unread`).  `Holds` says which driver a shared library
has, or that a symbol is missing.  The sort compares priorities as the code
does, with `memcmp` on two integers in memory: low byte first on a little-endian
machine.  `EditConfig` lets the files change
between sessions.

**MacOpen, MacQueue.**  `MacOpen` has the options (`buffer_time` and its lower
bound, `dev` found or not), the three ways in which `ao_plugin_open` fails (no
output unit, a unit disposed of, a unit left for `close`), what CoreAudio makes
of the format asked for and what of it the code accepts, and the size of the
queue in an `unsigned int`.  `MacQueue` adds one ring per device of that size,
and one mutex and one condition variable for
all.  A critical section is one step, because none blocks except in
`pthread_cond_wait`; the callback signals after it unlocked, which is a step of
its own (`CallbackSignal`) and wakes any one waiter.  Wake-ups without a signal
are possible.  `HalTornDown` is the comment about programs that close in
`atexit`: CoreAudio stops by itself.  `AudioOutputUnitStop` may fail; the callback
that may run on then reads freed memory, and is followed no further.

**WmmRing.**  `data`, `sent`, `done`, `widx`, `ridx`, `sentBlocks` and
`fullBlocks` are the fields of the code.  Windows plays the headers in order.
`waveOutWrite` may fail; the code goes on from there and so does the model.

**OutputStream, EsdStream, NasStream, PlayStreams.**  One device of one of nine
drivers, from the end of its open (or its refusal) to the end of `close`.
`OutputStream` has the steps all share and the drivers that write without a
buffer: oss in pieces and again after a short write, the others with one call
whose short result (`Short`) sun, aixs, roar and sndio take for a success; irix
looks at no result.  `EsdStream` is `bugbuffer`, and `write4096` as a loop over
short writes.  A
socket that failed takes nothing more.  The daemon reads on.  Silence is byte 0
(for 8-bit samples the code writes 0 as well, which is not silence).
`NasStream` has the server's buffer, the events it sends when that starts, runs
low and runs dry, the queue they wait in, and `buf_free`.  An application does
not play on after a failed `ao_play`.

**AlsaOpen, AlsaPlay.**  `AlsaOpen` lets each attempt meet any hardware
(`supported`, `set`), and keeps what a failed attempt leaves in `format` and in
the device; `SetDev` and `SetId` say which names it tries.  `AlsaPlay` extends
it with play and close on what was found: the padding of a page follows from
the widths open has left, and from whether `padbuffer` could be allocated.  It works in frames; `EAGAIN` and `EINTR`, which only
repeat the call, are no steps.

**ArtsServer.**  The mutex makes each call one step, except that `play` gives it
up to sleep; a round of writes is a step.  The connection is a Boolean.

**DriverHandle.**  Eight plugins as eight records of what matters: what a fresh
structure holds, whether an early refusal leaves it untouched, what a later
failure does, which callbacks close, whether `close` forgets, which descriptor it
takes for none.  All devices of a
behaviour use one plugin.  The application opens and closes files in another
thread, and has descriptor 0.  `CloseCrashes` is the NULL `internal` that every
plugin reads in `close` when `device_init` failed.

**FileWriter.**  A stdio stream: what `fwrite` has put in its buffer (`pend`) and
what is on the disk, cell by cell; a cell is a header field or a sample byte.
`WriteOut` moves one cell at a time, so every state is one that a crash may leave
behind.  `fwrite`, `fseek` and `fclose` may fail at any cell.  `base` is where
standard output stands in its file when `ao_open_file` gets `"-"`, at most
`MaxStart` bytes in.

**SampleFifo** (abstract): bytes are positions in the device's stream; what is
delivered is a prefix of what was taken, and never more than `Capacity` behind.

## 4. The runs

| run | what it shows |
|---|---|
| device_formats | One device, formats with and without a matrix, options of every kind, every exit.  `FailureKeepsItsCode` at the end of `_open_device`; `CallersMatrixWins`; every call returns. |
| device_ownership | Two devices, three FILEs, a path that may exist and be unreadable.  Between calls the open FILEs are exactly those of the held devices; the callbacks keep `PluginContract`. |
| route | 1.45 million states: all input matrices up to three names and two of four, five driver matrices, three orders, the six kinds of drivers that keep, copy, set or drop the matrix, both byte orders, one and two byte samples.  Right speaker, right bytes, no remains of an earlier call. |
| table | Two sessions, every order and subset of plugins, two versions of each file, configuration by the application before and after. |
| mac | Options, an open that may fail anywhere, four formats that CoreAudio may change: the queue is a FIFO of whole frames in the format agreed on, and `play` and `close` return unless CoreAudio stopped by itself or the queue is smaller than one of its requests. |
| mac_wakeup (violated) | With two devices the one signal may wake the wrong thread: the other sleeps though its queue has space. |
| wmm | `sent_blocks` counts the blocks that are out; FIFO until `waveOutWrite` fails, with less than a block left out at the end, and never backwards after; calls return to an application that stops after a failed play. |
| streams | Nine drivers, short writes, broken connections, a server with events: esd sends whole blocks, silence last; oss, esd, nas and pulse are FIFOs that say when they lose something; the others lose but never repeat or reorder; calls return. |
| alsa_play | Open and play together.  Any of the six formats on each device, samples of either byte order.  Widths, format and byte order agree after any attempts, in the cases that `WidthsFit` and `ByteOrderFits` name; all whole frames written in order through short writes, underruns, suspends and failures; `play` comes back. |
| arts | In every history the count is the number of streams less the closes of devices that never opened, and the connection follows the count until a test cuts it; `play` gives up on a dead server. |
| handles | Eight plugins, two devices: nothing is leaked, however open ended; those plugins that start from NULL and keep no closed handle never touch a handle that is not theirs. |
| files | wav, au and raw on a file, a pipe and the middle of a file, disk full at any write: lengths are guesses or true, modulo 2^32, at every moment; samples in order, all of them if nothing failed. |

Every property of a passing run has a mutant in `PROJECT.json`: a definition of
the code changed the way a slip would (`Fault...` in the modules) which breaks
that property in that run.

### Bounds, and why they are enough

* Devices: two where they can interfere (ownership, handles, mac_wakeup), three
  for arts, because a wrong count needs one device too many and one that is
  refused; one where nothing is shared.
* Rings: three blocks of two bytes (wmm), one to four frames (mac), blocks of three (esd),
  with chunks smaller than, equal to and larger than a block, so that every
  index wraps around at least once before `MaxBytes` is reached.
* mac: sample rates of 12 Hz and an `unsigned int` that wraps at 8000 stand for
  the real ones: `buffer_time` is worth one, three, four frames or, wrapped,
  none.  A queue smaller than a request counts as too little data even when
  full; `CallsReturn` leaves those out.
* streams: a chunk of seven bytes spans two blocks of three and two fillings of
  a server's buffer of four; ten bytes in all.
* files: a modulus of seven wraps within nine bytes; a buffer of four cells
  holds the header but not a header and a chunk.
* route: up to four input channels and five driver channels give every relation
  between the two sides: fewer, more, equal, disjoint, permuted, with X and with
  unknown names.  Two frames need the swap buffer to grow, two calls show what
  the first leaves behind.
* table: two sessions, three libraries of which one is broken, two options.
* device runs: option lists of length one for the call and one for the globals,
  enough for precedence between the two.
* handles: three handles, one of them the application's standard input.
* alsa_play: a pad buffer of 256 bytes, which holds a single frame of eight
  channels where `padoutw` is 32, and more frames of all others; a hardware buffer of two frames, chunks of
  three.

`CHECK_DEADLOCK FALSE` is set where the instance really ends: after the bound on
sessions (table), on calls (route), on bytes or after close (mac, wmm, streams,
alsa_play, files), and after a crash (handles).  device_formats, device_ownership
and arts are checked for deadlock.

### Fairness

* AoDevice: `WF(Library)`.  A call in progress runs on; driver callbacks return,
  which is what the driver modules check.  Nothing forces the application.
* MacQueue: `WF(Thread(d))`, the threads are scheduled, and `WF(Callback(d))`,
  CoreAudio calls a running unit.  `HalTornDown` has none: it may happen.
* WmmRing: `WF(Thread)` and `WF(WindowsPlays)`: Windows plays what it has.
* PlayStreams: weak fairness of the steps inside `play` and `close` of each
  driver: what is written to is read, so a blocked `write` ends, with success
  or not; and `WF(NasPlays)`, a server plays what it has.  That nas's `play` is
  never left without an event is then a property and no assumption.
* AlsaPlay: `WF(Thread)`, `SF(HardwarePlays)` and `SF(Write)`.  The hardware may
  stop between any two steps, so that weak fairness would demand nothing; strong
  fairness says a device that is made to run again and again plays and accepts
  frames in the end.  Without it the code can recover for ever.
* ArtsServer: `WF(Round(d))`: a thread wakes from `usleep`.  The server need not
  take a byte: that is what the spin count is for.

## 5. What is proved

The eight proof modules are checked by tlapm to the last leaf, for every value of
the constants that satisfies the named assumption of the module they are about
(`DeviceAssumption`, `HandleAssumption`, `TableAssumption`, `ChannelMapAssumption`
and `RouteAssumption`, `MacOpenAssumption`, `NoStreamAssumption` and
`QueueAssumption`, `RingAssumption`, `AlsaAssumption` and `PlayAssumption`,
`StreamAssumption`, `EsdAssumption` and `NasAssumption`, `ArtsAssumption`,
`FileAssumption`), which TLC evaluates in the runs.  Where a theorem assumes more it says so.

**AoDevice_proofs**

* `TypeCorrect`: `Spec => []TypeOK`.
* `ContractKept`: `Spec => Contract!ContractSpec`; the refinement, step by step:
  each stage is a step of the contract or leaves `drv` alone.  The invariant says
  which life `drv[dev]` has at every `pc` (`LifeInv`) and that a call in progress
  has a device exactly where the code uses one (`CallInv`, `DevInv`).
* `FilesOwned`: `Spec => []OpenFilesAreHeld`.  The property speaks only of moments
  between calls, and is not inductive.  `FileInv` says what is true during a
  call: a FILE is open if a device has it, no two devices have the same, the call
  under way owns its FILE alone until `_open_device`'s tail, and an open FILE is
  some device's or the call's.
* `FailureCodeKept`: `Spec => []FailureKeepsItsCode`, by an invariant that ties
  `errno` and `errtemp` to the recorded cause at each stage of the exit.
* `MatrixWins`: `Spec => []CallersMatrixWins`, for option lists of any length.
  `LastOfBoth` and `LastOfTail` say what `LastMatrix` is on a concatenation and
  on a list without its head; they rest on the well-ordering of the naturals
  (`Least`).  The invariant (`LoadingInv`) says that while options are loaded
  either the rest of the list or the matrix already set decides.

**AudioOut_proofs** (`DriverTable`)

* `PluginsStayLoaded`: `Spec => []ListedPluginsAreLoaded`, from an invariant that
  counts the entries of the list per library (`ListInv`).
* `IdsMeanOneDriver`: `Distinct => (Spec => []IdsAgree)`.  `Distinct` says that no
  two drivers have the same `short_name`; two that do share an id, which is what
  `ao_driver_id` then answers for both.
* `SessionsAreFresh`: `Spec => []ConfigurationIsFresh`.  The options of a file are
  the lines at some positions, and reading a second file behind the first
  appends its positions (`LineKeysOfTwo`), while its last `default_driver` line
  wins (`DefaultOfTwo`).  `ConfInv` says which files have been read at each stage.
* `TheBestIsDefault`: `BytesOrder => (Spec => []DefaultIsBest)`.  `BytesOrder` says
  that on a little-endian machine no priority is above 255, as none in the source
  is (they are 0 to 50); section 6 shows a priority for which the sort errs.
  `TableInv` keeps the list sorted between the two initialisations.
* `TypeCorrect`: `Spec => []TypeOK`, which includes that an answer of
  `ao_default_driver_id` is an id of the list as it is.

**AudioOut_proofs** (`SampleRoute`)

* `RouteTypesCorrect`: `RouteSpec => []RouteTypeOK`.  `RouteInv` says how far the
  route is at each stage, and that once there is a stream each of its channels
  is fed as `InterPermute` says, whether the permutation was kept or released.
* `SlotsCarried`: `WellFormed => (RouteSpec => []SlotsCarryTheirSpeaker)`.
  `WellFormed` says that the mask has a bit for every location of an output
  matrix and that the matrix names none twice; every matrix of a driver in the
  source is of this kind.  A user's `matrix` option always has a bit per location
  (`_sanitize_matrix` keeps 32 of them), but may name a location twice, and is
  then outside the theorem.  All six kinds of drivers are covered: what alsa's or
  roar's `open` leaves in `inter_matrix` is what `StreamNames` says, and the
  permutation carries the samples accordingly; that alsa thereby silences channels
  is no exception to the theorem but a divergence (section 6).  The code goes from
  names to bits and back to names, the property from names to names: that both
  keep the same positions is `SlotsOfMask` and `SharedTokens`, that there are as
  many of them as bits is `MaskCount` and `TokenCount`.
* `SamplesArrive`: `WellFormed /\ FitsWord => (RouteSpec => []DriverGetsTheSamples)`.
  `FitsWord` says that the product of a buffer's bytes and the channels of the
  stream is below 2^32; above, `ao_play` converts a part of the buffer only.  The
  position of a byte in the swap buffer is taken apart into frame, channel and
  byte and put together in the other order (`Landing`, `ConvertedByte`).

**WmmRing_proofs**

* `TypeCorrect`, `SentCounted` (`[]SentAreCounted`) and `Delivers`
  (`Spec => DeliversInOrder`, the refinement of `SampleFifo` included).  The
  invariant follows the bytes from block to block: the blocks Windows has are
  full, each goes on where the one before it ends, and the block at `widx` goes
  on where the last one ends.  That a queue never holds more blocks than there
  are comes from their being distinct.  A weaker invariant (`RiseInv`) survives
  a `waveOutWrite` that fails.

**AlsaPlay_proofs**

* `TypeCorrect` and `Delivers` (`Spec => DeliversInOrder`): the frames are given to
  ALSA, still in the page, or not yet taken, and the three add up (`PlayInv`).
* `WidthsAgree` and `OrderAgrees` (`[]WidthsFit`, `[]ByteOrderFits`), for any
  hardware, any devices to try and samples of either order.  From one attempt to
  the next (`WidthInv`) an unpacked format is the one for `format->bits`, which is
  never less than was asked for, and a packed one agrees with it at least when 24
  bits were asked for; `driver_byte_format` is the client's until a packed format
  is chosen and that format's from then on (`OrderInv`).  The cases the code gets
  wrong are hypotheses of the properties; section 6 has them.

**MacQueue_proofs**

* `TypeCorrect` and `Delivers` (`Spec => DeliversInOrder`), for any number of devices
  and any interleaving.  The ring holds, from `first` on and round the end, the
  bytes that were taken and not yet given to CoreAudio (`RingInv`); what CoreAudio
  has is whole frames, or else everything, after `close` has begun (`FrameInv`).
  The size of the ring is any number that the option arithmetic leaves in an
  `unsigned int`, zero included: a ring without bytes is never read, since its
  `play` does not return (`UnitInv`).  The proof asks of CoreAudio's formats that
  none is the model value for "no stream" (`NoStreamAssumption`).

**Plugins_proofs** (`DriverHandle`)

* `HandleTypesCorrect`, `LeaksNothing` (`[]NothingLeaks`) and `StraysNever`
  (`[]NeverAstray`).  The inductive `HandleInv` adds: a device that is open has a
  real handle and owns it; whoever owns a handle has it in `internal` and has a
  close still ahead of it in which its plugin closes; a tidy plugin has in
  `internal` either nothing or a handle of its own.  The eight records enter only
  through a lemma per plugin (`Ways`), so a new plugin is one more case.
  `NothingLeaks` speaks of all handles but the ones `close` spares, which is
  descriptor 0 of aixs.

**Plugins_proofs** (`PlayStreams`)

* `TypeCorrect`, `BlocksAreWhole` (`[]WholeBlocks`) and `Delivers`
  (`Spec => DeliversInOrder`), for any set of the nine drivers.  For esd `EsdInv` says
  that the bytes the daemon has read, those being written and those in
  `bugbuffer` follow each other without a gap, up to the silence, and that what
  was sent is a multiple of the block at the end of every `write4096`; for the
  others `DirectInv` says that what went out is increasing and behind what is
  still to be written, and complete for the careful ones.

**ArtsServer_proofs**

* `TypeCorrect` and `CountFollows` (`[]ConnectionFollowsStreams`), for any finite
  set of devices and in every history, by the cardinality of the set of streams.
  The invariant adds that a test has cut a connection only under a positive count
  (`CutInv`): the next connection starts from zero.

**FileWriter_proofs**

* `TypeCorrect` and `HeadersAreTrue` (`Spec => []HeaderIsTrue`), for any buffer and
  any limit of a length field, hence for 2^32.  The invariant compares file and
  buffer with the file as it should become (`Content`): until `close` goes back
  the buffer goes on where the file ends (`Onward`); from then on it holds at most
  one length (`Correction`), and the file is as long as `ftell` said.
* `Delivers`: `Spec => DeliversInOrder`, wherever in its file the stream starts.
  This has an invariant of its own (`StreamInv`), for the other one speaks of a
  file that starts with the stream: behind the header the file is the samples
  in order (`SamplesInv`), and what is in the buffer either goes on where the file
  ends (`Ahead`) or is a length that lies before the samples (`Behind`).

Only model-checked are the liveness properties (`CallsReturn`, `PlayReturns`,
`PlayComesBack`) and the violated run: what must happen under fairness is beyond
the prover.

## 6. Divergences found while modelling

`mac_wakeup` is the one that has a run.  The others are stated as properties in
the modules (each comment says that the code does not keep it) or are instances
outside the checked ones; TLC finds each as soon as the line is added.

| property or instance | where | what the code does |
|---|---|---|
| `FileFailureKeepsItsCode` | `AoDevicePair.cfg` | after a failed `_open_device` that already closed the FILE, `ao_open_file` closes it again; `errno` may become the C library's |
| `RefusedOptionIsBadOption` | `AoDevicePair.cfg` | an option that is refused gives `AO_EOPENDEVICE`, `doc/ao_open_live.html` says `AO_EBADOPTION` |
| `ExistingFilesKept` | `AoDevicePair.cfg` | an existing file that cannot be read is overwritten without `overwrite` |
| `PlacedChannelsAreHeard` | `Route.cfg` | on a device that is neither "default" nor "surround...", alsa frees `inter_matrix` when there are more than two channels (`ao_alsa.c:693-704`); the core falls back to "L,R" and every other channel is silent, though it had a place, and though a `matrix` option asked for it ("devices must not override", `audio_out.c:932`) |
| `PulseNamesEverySlot` | `Route.cfg` | pulse reads `input_map` by output channel; it is indexed by input channel, and only where all of those have a place is it the same; with a `matrix` option it also hands over locations in that matrix as positions of its own |
| `NoUnaskedSharing`, `RefusedOnlyWhenBusy`, `TestKeepsConnection` | `ArtsServer.cfg` | the close of a device that was refused decrements a count it never incremented; the test frees a connection it does not own |
| `OneMeansWritten` | `WmmRing.cfg`, `MacQueue.cfg`, `PlayStreams.cfg`, `FileWriter.cfg` | `ao_close` returns 1 although bytes were dropped: a last block not sent, short writes, an `fclose` that failed |
| `EarlierContentKept` | `FileWriter.cfg` | on standard output in the middle of a file, `close` writes the lengths at offsets from the start of the file, even after an open that was refused before a header |
| `NeverOverfills` | `PlayStreams.cfg` | nas sets `buf_free` from an event that was sent before its last write; the space is counted twice and the server is given more than it has room for |
| `UnitGivenBack` | `MacQueue.cfg` | the output unit is disposed of only when it was started and is running: not after a failed open, nor when nothing was played, nor when it has stopped; if `AudioOutputUnitStop` fails, the callback goes on after `device_clear` |
| `WidthsAlwaysFit` | `AlsaPlay.cfg` | for the unpacked 24-bit format `padoutw` becomes 32, a width in bits where bytes are meant, and the width asked for is not restored; a packed format does not set `format->bits`, and left by a failed attempt it has no case in the switch: it is neither set nor refused, and the device keeps another; without memory for `padbuffer` samples go to wider hardware unpadded |
| `ByteOrderAlwaysFits` | `AlsaPlay.cfg` | `driver_byte_format` is the client's, also where the hardware has the machine's |
| `CallsReturn` without `~HoldsRequests` | `MacQueue.cfg` | `buffer_time * rate` wraps in an `unsigned int`; `play` on a queue of no bytes, or of fewer than CoreAudio asks for, waits for ever |
| `DefaultIsBest` with a priority of 256 | `DriverTable.cfg`, `MCPriority` | `memcmp` sees the low byte of 256, which is 0, first |

From reading alone: a matrix option that is bad on oss or sun closes descriptor
0, the application's standard input; oss, sun, nas and irix close twice after a
step of `open` that failed late (`NeverAstray` leaves these four out through
`Tidy`); nas starts with an uninitialised pointer; `_load_driver` keeps a
`dlopen` handle when a symbol is missing; `ao_driver_info_list` gives NULL with a
non-zero count when memory is short; `ao_open_file` may fail with
`AO_EBADFORMAT`, which its documentation does not list; `ao_open_file` closes
standard output when an open on `"-"` fails; `ao_aixs.c` does not
compile, and its `close` takes descriptor 0 for none and leaks it; esd's driver
test removes from the environment, and frees, the first variable whose name is a
prefix of `ESD_NO_SPAWN` (`ao_esd.c:83`), which need not be the one it put there;
pulse's `close` subtracts `static_delay` from an unsigned latency, and when the
result wraps `nanosleep` refuses it and the rest of the sound is cut off
(`ao_pulse.c:305`); on a little-endian machine macosx refuses every big-endian
format, for `kAudioFormatFlagsNativeEndian` is no flag there (`ao_macosx.c:527`),
and its search for a device by name passes an uninitialised pointer
(`ao_macosx.c:292`).

## 7. Not modelled, and why

`ao_null.c` has a byte counter that nobody reads and nothing else.  The parameters
of ioctls, the naming and searching of devices, the texts of messages and the
SIGPIPE handling of pulse wrap single calls and keep no state between them.  The
latency arithmetic of pulse's `close` needs a clock on both sides; the
environment variable of esd's driver test needs its strings one by one.  wmm's
query of formats asks Windows once and keeps nothing.  Build files,
documentation and the example program have no run-time state of the library;
properties are quoted from the documentation where a comment says so.
`ao_aixs.c` cannot be built as it stands; the models read the undeclared `id`
of its open as `internal->id`.
