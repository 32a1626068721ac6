# Verification of salsa-lib

TLA+ models of salsa-lib (the small ALSA library), the TLC configurations that
check them, and TLAPS proofs about them. File names are those under `src/` of the
repository; `PROJECT.json` maps every definition to its lines.

Contents: 1 the system, 2 inventory, 3 plan, 4 modules and code, 5 runs and
bounds, 6 proofs, 7 what disagrees with the code's own words, 8 what is not
modelled.

## 1. The system

salsa-lib is a C library linked into an application. It talks to the kernel's
sound drivers by `open`, `ioctl`, `mmap`, `poll` and `fcntl` only; it has no
threads and no daemon. Much of it is inline wrappers around one ioctl each, in
the `*_macros.h` headers.

What makes it hard is that everything it keeps is a copy of something the kernel
owns, and that the kernel (hardware interrupts, power management, card removal,
drivers, other processes) changes the original between any two calls. Four
parts carry such copies:

* the **PCM handle** copies ring geometry, thresholds and, without a mapped
  status page, the stream's state and pointers;
* the **configuration space** (`snd_pcm_hw_params_t`) is narrowed by turns in the
  library and in the kernel;
* the **control list and the mixer** are built from the device's controls and
  follow its events;
* the **asynchronous handlers** are walked by SIGIO while they are being changed.

Around them are parts with little state whose difficulty lies in their error
paths, in elements and cards that come and go between two calls, or in
arithmetic: opening and closing of devices, cards and names, the control
interface, dB tables, sample memory and channel maps. These are modelled too.
Text (control ids, outputs) is not.

## 2. Inventory

| component | code | state | operations | hard behaviour |
|---|---|---|---|---|
| PCM handle | `pcm.c`, `pcm_macros.h`, end of `pcm_params.c` | `snd_pcm_t`: `setup`, `buffer_size`, `sw_params`, mapping, `sync_ptr` copy of status and control | open/close, hw_params, hw_free, sw_params, prepare, reset, start, drop, drain, pause, resume, rewind, forward, transfers, avail, mmap_begin/commit, wait, recover | hardware moves, stops, sleeps or vanishes between two kernel calls; calls fail half way |
| configuration space | `pcm_params.c`, wrappers in `pcm_macros.h` | masks and intervals per parameter, `rmask` | any, set, test, set_min/max/minmax/near/first/last/integer/mask, choose | unsigned arithmetic on open bounds, restoring after a failure, dependent parameters |
| async handlers | `async.c`, ends in `pcm.c`, `control.c` | `async_list`, SIGIO's disposition, `O_ASYNC` and owner per file, `pcm->async` | add, delete, close | SIGIO between any two instructions |
| high-level control | `hcontrol.c` | list of elements | load, handle_events, free, close | controls come and go; listing and subscribing are two steps; events may be of an earlier time; controls are told apart by less than the kernel does |
| simple mixer | `mixer.c`, `mixer_macros.h` | elements with up to five items, back pointers, cached values | attach, load, handle_events, set volume/switch/enum, free, close | built in callbacks of the control list; two kinds of objects freed by different parties |
| control interface | `control.c`, `ctl_macros.h` | file, element lists | user elements, lock, read, write, TLV, events, wait, lists | processes that die between two ioctls, elements replaced under their name |
| TLV and dB | `control.c`, `mixer.c` | cached table per volume item | parse, convert to and from dB | tables of ranges, rounding, failures remembered |
| control texts | `control.c` | none | show and parse ids, parse values | quoting, refusal half way through a list |
| PCM formats, areas | `pcm_misc.c`, `pcm.c` | none | width, silence, copy, names | layouts, byte orders, two samples in a byte |
| channel maps | `pcm.c` | none | query, get, set, print, parse | several allocations, a second device to open and close |
| cards, names | `cards.c` | none | next card, find a card, name to device, preferred subdevice | cards plugged in and out during a search |
| raw MIDI | `rawmidi.c` | two handles on one file, count of users, parameters | open, close, params, requests | sharing and failing opens |
| hwdep, timer | `hwdep.c`, `timer.c` | file | open, close, one ioctl per call | error paths of open |
| output | `output.c` | growing buffer or FILE | open, attach, printf, puts, putc, flush, close | resizing, one field with two meanings |
| input, conf, seq | headers | none | stubs | none |

Correctness, component by component:

* PCM: the copies are true between calls, the application is never granted more
  of the ring than there is, a stream is stopped only for cause, errors name the
  state the stream is in, and calls that wait return.
* configuration space: a call leaves exactly what was asked for, or fails and
  leaves things as they were; the result is supported by the device.
* async: the signal handler meets only live handlers on live handles, and SIGIO
  never takes its default action once the first handler is installed.
* control list and mixer: when the events have been handled, both say what the
  device says; no pointer between control elements and mixer elements dangles.
* volumes and dB: what is set is what the device gets, rounded as asked, in
  whichever unit; bounds are those of the values.
* open and close: a call that fails leaves nothing behind, a file stays open for as
  long as a handle stands for it, and nobody else's file is closed.
* cards: what is there all the while is listed, and found under every kind of name
  that the search can match.
* control interface: no element is left with a value out of its range, an answer
  belongs to the element asked about, copies fit, and every wait ends.
* areas: a call changes the samples asked for and not one bit besides.
* channel maps: what was set or printed is what is read; nothing is lost when an
  allocation fails.

The hazards behind these, each at its line, are listed in `PROJECT.json`.

## 3. Plan

Order of work, most important behaviour first; done parts are marked.

1. `Pcm`: handle and kernel substream, with an inductive proof (done).
2. `Async`: handlers under signals, with an inductive proof (done).
3. `HControl`, `Mixer`: list and mixer under events, with an inductive proof (done).
4. `Interval`, `HwParams`: the configuration space, with proofs of the interval algebra
   and of the calls (done).
5. `Tlv`, `Volume`: volumes and gains; `Formats`, `Areas`: samples in memory (done).
6. `Handles`, an abstract specification of opening and closing, and `Devices`, which
   implements it; `Cards` (done).
7. `Control`, `Chmap` (done).
8. Proofs that `Devices` implements `Handles`, that `Control` keeps its elements in
   range and its answers true, that volumes and gains are right, that
   `Cards` and `Chmap` find and free what they should, that `Areas` changes the samples
   asked for and nothing else, and how near the value is that `set_near` finds (done).
9. `PcmLink`: two handles whose streams are linked; callbacks that call the library.

## 4. Modules and code

### Pcm

`k` is the kernel's substream (external: state, hardware and application pointer,
geometry, wrap point, thresholds, count of mapped frames), `h` the handle. A call
that makes one kernel call is one action; `snd_pcm_hw_params`,
`snd_pcm_avail_update`, `snd_pcm_wait`, `snd_pcm_recover` and interrupted
transfers are sequences of actions, one per kernel call, with `pc` the step
reached and `num` the C function's local variable. Between any two steps the
kernel may move the hardware pointer, stop the stream at its threshold, finish a
drain, suspend, wake up or disconnect. `ret` holds the last result, as long as the
application may rely on it.

The handle runs in one of two modes, chosen at open: status and control pages are
mapped and read directly, or (`sync`) exchanged by the SYNC_PTR ioctl
(`_snd_pcm_sync_ptr`), whose flags decide which side's application pointer wins.
`SyncK` and `SyncH` give the two sides after it. Frames are counted, not stored.

`PcmNoWrap` adds the assumption that no pointer reaches the kernel's wrap point:
`pcm->boundary` is never set, so that the handle's arithmetic is right only below
it.

### Async

The list is the set of handlers reachable from `async_list`; `heap` the allocated
ones. Every fcntl, sigaction, store to the list and free of
`snd_async_add_handler`, `snd_async_del_handler` and the close functions is an
action; `Sigio` may come between any two of them. `killed` records that it met the
default disposition, after which nothing happens.

### HControl and Mixer

`HControl` is the control list: the kernel gives every control that appears a new `numid`
and queues events (merged per control, as the kernel does) once the file is subscribed.
`snd_hctl_load` is three kinds of steps (listing, one announcement per element,
subscribing), `snd_hctl_handle_events` a read and a handling step per event. `Mixer` extends
it: each of its actions is an action of `HControl` together with the callback the code runs
inside it. Element addresses are reused after a free. What a control's name and type say
(element name, direction, both directions, kind) is the constant `Desc`; suffixes and
aliases are not spelled out. `Ident` says what `snd_hctl_find_elem` compares of a control:
several may share it (the "ELD" controls of HDMI outputs differ in their device only), and
then a REMOVE drops the first of them in the list and an ADD is refused while one is there.
Controls of one identity can get into the list only by one `snd_hctl_load`, which is why
their order is that of their numids (`First`). A set operation is three steps: cache, read,
write; the read for a VALUE event may fail, which loses the event (`UpdateMissed`). `synced`
and `stale` are history variables: they say whether the library has been told of every
change since the listing, and whose last set operation, or read for an event, failed.
`scenario`, fixed by `Init`, says which controls there are and what happens to them.

### Interval and HwParams

`Interval` has the masks and intervals as pure operators with the C functions'
return values; bounds wrap at `UMax` as unsigned integers do. What an interval
*means* (`Points`) is a definition of its own: the integers and the open stretches
between them that it contains. `HwParams` has one action per function an
application can call. The kernel's HW_REFINE is external: it narrows each parameter
to the smallest mask or interval containing the configurations left, out of a
fixed set `Device`. `Kind` says which of the library's parameters a parameter of
the instance is, and with it which functions there are for it (`rate_calls`,
`period_size_calls`, ...): with a direction or without, with `unsigned int` or
with `unsigned long`, whose upper half `Truncated` drops as `DEFINE_SET64` does.
`mask` is a mask the application builds bit by bit. `call` is the call that has
returned, kept for one step so that action properties can relate request, result, old and new space.

### Tlv and Volume

`Tlv` has the parser and the conversions as operators over a sequence of words;
what a value uninitialised in C makes of a comparison is a choice. `Volume` is one
volume item: `raw` and `usr` are the two halves of `vol[]`, `control` what the
device has. A set operation is a step per channel that stores, one that reads and
one that writes, and another process may change the control in between; an event is
handled by reading all channels (`Update`) or, if that fails, by nothing
(`UpdateMissed`); `stale` are the channels whose last write, or read for an event,
failed. `init_db_info` reads the table, or marks the item for good; `unread` says that
it was marked although there is a table. A table in a container makes it free a pointer
into its buffer: `init_db_info_frees` ends in the state `undefined`, from which the item
does nothing more. The functions on a control's id (`ControlCalls`) answer from `Stack`,
because `get_tlv_info` parses a buffer nothing was read into.

### Formats and Areas

`Formats` is the table of formats and the functions on it. `Areas` has a memory of
nibbles for two buffers of different layouts; a nibble nobody has written carries a
mark of its own, so that any stray write or copy is seen. The reference definitions
of the properties say where a sample lies, bit by bit, and share nothing with the
code's way of stepping through an area.

### Handles and Devices

`Handles` says what all open and close functions promise together: handles are
handed out for a file of their own, which stays open while one of them does; a
failing call leaves nothing. `Devices` has their system calls and allocations as
single steps of threads, a table of descriptors in which numbers are given out again
at once, and a rest of the program that opens and closes files of its own. `Promise`
instantiates `Handles` with the handles that have been returned to the application
and the files they stand for. `scenario`, fixed by `Init`, says how many threads
there are, which kinds of device they open and what may fail.

### Cards

Listing and searching look at one card per step while cards come and go
(`MaxChanges` times). A device name is a record of its prefix, its way of naming the
card and its numbers; reading it is one step after the card was found.

### Control

The kernel's elements are external: value, range, owner, lock, TLV. A process is at
a step of a call that takes two ioctls (`AddWrite`, `TlvLookup` and `TlvRead`, ...),
may die at any step, and the card may be unplugged. `half` are elements whose adding
process died before it could write the value. `scenario`, fixed by `Init`, says which
functions each process uses, the protocol's version and what TLV data there is.

### Chmap

A call in progress has the control device it has opened and the blocks it has
allocated (`heap`), and may have handed some to the application (`given`); every
open, ioctl and allocation may fail. A map as text is a word per channel, and a name
a sequence of letters, because reading back depends on which names begin with others.

## 5. Runs and bounds

| run | module, cfg | states | what it checks |
|---|---|---|---|
| `pcm_playback` | MCPcm, MCPcm_playback | 543 181 | all invariants and action properties of `Pcm` |
| `pcm_live` | MCPcm, MCPcm_live | 312 021 | capture: `CallsReturn` under fairness, and the ring |
| `pcm_wrap` | MCPcmWrap, MCPcmWrap | violation | what happens at the wrap point |
| `async` | MCAsync, MCAsync | 152 537 | the invariants of `Async` |
| `mixer` | MCMixer, MCMixer | 1 177 731 | list and mixer under controls that come, go and change; set operations |
| `mixer_global` | MCMixer, MCMixer_global | violation | a global item over an occupied slot |
| `hw_params` | MCHwParams, MCHwParams | 94 152 | all properties of `HwParams`, every function of every kind of parameter |
| `control` | MCControl, MCControl | 371 242 | user elements, values, TLV data, lists and waits of two processes |
| `devices` | MCDevices, MCDevices | 1 381 334 | opening, use and closing under failures; `Devices` implements `Handles` |
| `devices_subdev` | MCDevices, MCDevices_subdev | violation | names with a subdevice |
| `helpers` | MCHelpers, MCHelpers | 1 271 303 | volumes, gains, samples, formats, cards, channel maps |
| `volume_ranges` | MCVolume, MCVolume_ranges | violation | lists of ranges |

Two devices keep the number of runs small without mixing questions. Where a
component asks several questions that need different inputs, `Init` chooses a
`scenario`, which no step changes. `Helpers` puts four components that share no state
(`Volume`, `Areas`, `Cards`, `Chmap`) side by side; `part` says which one a behaviour is
of. Both make a run the union of the behaviours, never their product. `MCHelpers`
narrows the part `volume` to three kinds of behaviour, as told below.

Bounds, and why they are enough:

* `Pcm`: rings of 3 and 2 frames and positions up to `FrameLimit` = 4, so that the
  application and the hardware go round the ring and meet; a stop threshold equal
  to, above and (with the smaller ring) different from the buffer; `LongMax` = 63
  keeps the wrap point out of reach. Every configuration may follow every other in
  one behaviour. The proofs cover all sizes. `MCPcmWrap` has `LongMax` = 15, where
  a ring of 2 wraps at 8.
* `Async`: two PCMs, a control device and as many handlers; three is what it takes
  to have a first, a middle and a last handler. Deadlock is not checked: a killed
  process stops.
* `Mixer`: three controls of one name, two of them for the same slot, so that an
  element is shared, a second one is needed, and indexes are reused; four
  appearances, so that one control returns under a new numid while events of the
  old one are queued. In the second scenario two controls of one identity come and go
  beside one of its own, three times in all, so that the wrong one is removed and the
  right one refused. In the third one item for both directions and one for
  playback change between the values 0 and 1 and change their range (INFO).
* `HwParams`: a format, an integer parameter and one with values between integers,
  six configurations that make each depend on the others, two of which differ only in
  whether the period time is an integer or just above it; `UMax` = 15, so that
  every bound can be 0 and the maximum, and `INT_MAX` = 7 lies inside the range;
  `Longs` beyond `UMax`, one whose lower half is a small size and one whose lower half
  is `UMax` itself. All calls with all values and directions from every
  reachable space.
* `Control`: two processes and one name, which is what they compete for; two numids,
  so that an element is replaced once; TLV data shorter and longer than the buffers,
  and none; `NamesBuf` = 4 stands for the fixed buffer of the enumerated names.
* `Devices`: two handles and three descriptors, so that every number is used again
  at once. One scenario has two threads and the rest of the program; it leaves out the
  failure of the second of two raw MIDI handles, whose error path closes the file
  twice, because the second close may hit a file of others. The other has one thread,
  all remaining kinds of device, and all failures.
* `Volume`: two channels and a range of four values, so that a list has two ranges. There
  are three kinds of behaviour, told apart by the control's table. With that of
  `MCOneTable` both channels are set by volume, from the lowest of the range in use to
  one above it, in the device's range and in three of the application's: one wider than
  the device's, one that is narrower and begins below it, and one of a single value. With
  that of `MCGainTable` both channels are set to a gain between those of two values, in
  the device's range and a wider one. With any other table the first channel alone is
  used, in the device's range, by every function and with gains at, between and beyond
  those of the values. A control with a single value is in no run, but `SingleValues` has
  TLC evaluate its conversions, and the theorems include it.
* `Areas`: every format with samples of 4, 8, 16, 24 or 32 bits; two channels and three
  frames, so that a first, a middle and a last sample and its neighbours exist in both
  layouts.
* `Cards`: three numbers, two ids and two changes: a card may leave one number and
  appear at another, before and behind the search.
* `Chmap`: two channels, maps of one to four, names that begin with one another, and
  buffers one byte too short and just long enough; `MaxChannels` = 3 stands for 128 and
  `MaxParsed` = 2 for 64.

Symmetry is used for addresses (`Elems`, `Handlers`) and for the two PCMs, which
no property or constant tells apart, and only in runs without liveness.

**Fairness.** `FairSpec` of `Pcm` (`pcm_live` only): a thread inside a
call goes on (`WF(CallStep)`: the library has no locks, the scheduler runs it);
the hardware of a running stream moves or its interrupt stops it; a suspended
system wakes up. Nothing is assumed of the application, of timeouts, or of the
card staying. `CallsReturn` speaks of waits that the bound `FrameLimit` leaves room
to end. `FairSpec` of `Control` assumes that a process inside a call goes on, and
nothing else: that `WaitEnds` when an event is there or the card is gone is due to
what poll() reports then.

**Refinement.** `Promise` of `Devices` is the specification of `Handles` under the
mapping above, checked as a property of the run `devices`.

**Exceptions stated in properties.** Some properties hold except in windows that
the code leaves open; the property names the window and fails if it grows.
`DeathWindow`: SIGIO is fatal while the first handler is added. `CallbackTarget`:
a callback may meet a handler without `rec`, or a PCM without status pages.
`SetExact` and `NeverWidens`: requests beyond an unsigned value's range wrap
(`OutOfRange`: above `UINT_MAX`, below 0, and `set_near` at 0, which looks below it).
`NeverStuck`: `set_*_mask` does not restore on failure. `NearClose`: half a step,
and the early return when the values at or above the target make a single interval
(one integer, the stretch above it, or both: `snd_interval_single` counts `[5, 6)` as one
value), although one below may be nearer. `MixerTrue`:
a failed set leaves the cache wrong, and a failed read for an event leaves it old, with
no error (`mixer.c:700`). `ListTrue`: changes between listing and
subscribing are lost. Both: of controls that share an identity (`~Alone`) nothing is said
but that the list never holds one twice. `VolumesTrue`: the same failed write or read,
channel by channel. `ErrorTrue`: after a disconnection the SYNC_PTR copy of the
state is old, and `StaleCount`, a count of a ring that was never prepared, may be any
negative number. `NoEmptyElem`: an INFO event for a control that has gone leaves an
element without items, so that the property speaks of scenarios without INFO.
`SilenceExact` and `CopyExact`: 4-bit samples in the same half of a byte on both
sides. `WordSilent`: the word has the bytes of the silent sample in the order of memory,
the first as the most significant, which for a little-endian format is not the number the
sample stands for. `DeviceNamed`: the device number of a hwdep name is not read.
`CardFound`: an id or a path is found if nothing follows it; with a device number behind
it the search must fail, since the comparison takes in the rest of the name.
`DbKnown`, `DbGiven`, `BoundsTight`, `AnswersRounded` and `GainSet`: tables at the top of
the TLV, because after the free of a moved pointer nothing is claimed; an item may be
marked as having no table if reading it failed (`unread`), and then refuses everything.
`AnswersRounded`: gains converted by a list of ranges are `volume_ranges`' question.

Every property has a mutant: an operator `Bug...` beside the definition it
replaces, with a comment that says what is wrong with it, under which the run
finds the property violated.

## 6. Proofs

`PcmProofs` proves, for every stream direction, set of configurations, thresholds,
width of a long and bound on positions that satisfy `PcmConstants` and `NoWrap`:
`TypeOK`, `MapCoherent`, `ParamsCoherent`, `ControlCoherent`, `RingSafe`,
`GrantSafe`, `XrunJustified` and `ErrorTrue`. None of the interesting ones is inductive. `IInv`
adds

* `StepInv`: where a call in progress stands (no mapping exists between HW_FREE and
  the new mmap, the pending avail_min is positive, ...);
* `GeometryInv`: whenever the kernel is configured the handle is set up with the
  same ring, and, except while the default sw_params are pending, with the same
  thresholds; a suspended stream comes back to an active state;
* `CopyInv`: with SYNC_PTR the application pointer is exact and the hardware
  pointer is not ahead of the hardware, yet near enough that the application's
  position fits the ring seen from it. This is what makes a grant computed from an
  old copy safe: the hardware has only freed more since;
* `AvailInv`: the same for the number `snd_pcm_avail_update` carries from its first
  step to its last. `XrunJustified` follows from it: when the ioctl is made, the
  number is at least the handle's threshold, at most the kernel's count, and the
  thresholds are equal.

One lemma per action shows that it preserves `IInv`, one step per conjunct. `ErrorTrue`
needs one fact more, that only EINTR and EIO are handed to `correct_pcm_error`
(`CorrectInv`), and `AvailInv` again: a count is not negative while the ring is in use,
so that it is never taken for an error.

`AsyncProofs` proves `TypeOK` and the five other invariants of `Async` for any sets of files and
handlers. `IInv` says that the heap is the list and the one handler in transit
(`HeapInv`), that the handles' fields and the handlers' files are inverses
(`FieldInv`), which handlers lack `rec` (`RecInv`), that the disposition is the
library's as long as a signal can be sent (`DispositionInv`, `SignalInv`), and how
far a close has come (`CloseInv`).

`HwParamsProofs` first proves for every `UMax` that `snd_interval_refine_min`, `_max` and
`snd_interval_refine` deliver exactly the points asked for, or fail when there are
none, and report a change whenever there is one, unless a bound wraps around (the
hypotheses exclude an open bound at the edge of the range); and that
`snd_interval_refine_first` and `_last` settle an interval on its lowest or highest
points.

It then takes these up to the calls an application makes, for every device (any set of
configurations), every set of parameters, every `UMax` above 1 and any table of choices:
`SetsExactly`, `MasksExactly`, `NarrowsOnly`, `KeepsSome`, `ChoiceSupported` and
`NearestFound`. The invariant is `Sound`. Its part `Good` says that integer intervals have
closed bounds, that no bound is where a further refinement would wrap, and that an interval
without values is marked empty. Its part `Tight` says that, while a configuration is left,
the lowest and highest value of each interval and every bit of each mask are those of some
configuration left. `Tight` is what HW_REFINE (external) establishes, and what makes the
calls with a value of the library's own choosing safe: `set_first` may pick a lowest value
only because a configuration has it, and `snd_pcm_hw_params_choose` can ignore its errors
only because there are none. The chain of lemmas follows the code: an interval function
leaves exactly the wanted points (`Exact`), the common tail with HW_REFINE and the restoring
of the saved space turns that into exactly the wanted configurations (`Narrowed`) or none
(`Kept`), and one lemma per action carries it to the properties. The kernel's hull (least
and greatest values) and the walk over the table are inductions over sets of numbers, which
the well-foundedness of `<` gives without an operator parameter (`SetInduction`).

`NearestFound` counts values in half steps (`Place`), so that the two bounds that the
search compares are numbers, and by `Tight` values of configurations (`EdgesAre`).
`boundary_sub` and `boundary_lt` then reduce to integers: turns of the 32-bit clock do not
count (`WrapTurns`, `SignedTurns`), so that no difference is too large for them, and what is
compared is the distance rounded to whole steps, which is where the half step of
`NearClose` comes from (`NearerIs`). One hypothesis is needed, `SmallValues`: what the
device supports is below `INT_MAX`. At the target 0 the upper bound of the search wraps
around and cuts off nothing (`OutOfRange`); the lower bound then wins only because the
farthest value is small (`BelowZero`). With a value from `INT_MAX` up TLC finds that the
farthest one is returned. `MCHwParams` has TLC confirm the hypothesis for its device.

`DevicesProofs` proves that `Devices` implements `Handles` (`DevicesPromise`), that
nothing leaks, `OthersKept` and `HandlesTrue`, for any number of threads, handles and
descriptors. `IInv` says which descriptors a call in progress has and what is open
there (`StepInv`), which handles it has made and not handed out (`MadeInv`), what a
handle's file is and remembers (`LiveInv`), that no descriptor is anybody else's
(`ApartInv`), that the count of a raw MIDI file is that of its handles (`UsersInv`),
and that pages are mapped in pairs (`MapsInv`). The theorems have one hypothesis,
`Orderly`, on the scenario, which both scenarios of the run `devices` satisfy. Without
it they are false, in two ways that the code has: `_snd_open_subdev` returns `-errno`
when no call has failed (the subject of `devices_subdev`), and an `errno` of 0 is then
taken for descriptor 0, so that `Orderly` asks for another; and the error path of
`snd_rawmidi_open` closes its descriptor twice (`rawmidi.c:157`), so that where the
second allocation may fail there must be one thread and nobody else who opens files.

`MixerProofs` proves `ListTrue`, `ItemsLive`, `SidUnique`, `NoEmptyElem`, `PrivateLive` and
`MixerTrue` for any controls, names, types, numbers of appearances and addresses. `HInv`,
which the control interface keeps whatever the callbacks do, relates the list to the queue:
for a control that shares its identity with no other (`Alone`), the unread events, applied
in order, turn what the list has of it into what the device has, as long as no change was
lost (`FollowInv`). For the others it keeps only that the list has each control once
(`StepInv`). That depends on the shape of the queue: events of one control are of growing
numids, each but the last a removal; a removal is of a numid that is no more; the first
event of a control fits what the list has of it; and a control without events is in the list
as it is on the device. `Inv` adds for the mixer that every item sits in the slot that its
control's type says, in an element of its name, and that its control's `private_data` is
that element (`ItemsInv`); that capabilities cover the occupied slots (`CapsInv`); and that
elements have items unless INFO events occur (`FilledInv`). From `ItemsInv` follows
`ItemsLive`, global controls and INFO events included. The converse, `PrivateLive`, is false
in general and needs `LinkInv`, each listed control's `private_data` leads to a slot that
holds it, which is inductive under the hypothesis `Separate`: no two controls of one name
where one is global and covers the other's slot, and none under INFO events. `mixer_global`
shows why the first is needed. The second came out of the proof, see section 7. `MixerTrue`
is about the controls that are `Alone`, and also assumes that there is memory for an element
whenever one is asked for (`pelems # Elems`): a control whose element cannot be allocated is
not in the mixer.

`ControlProofs` proves `InRange`, `TlvTrue`, `BuffersFit` and the action property
`InitialOwn`, without further hypotheses. An element whose adder is between its two
ioctls has that process as its owner, so that nobody else removes or writes it (`AddInv`);
no two elements ever have the same numid (`NumidInv`), so that a lookup by name and a
read by numid are about one element; `had`, the data seen since a TLV call began,
contains the present data of the element it is about (`HadInv`). For the joined names of
an enumerated element the theorem covers the lists that the model has (`EnumNames`: up
to two names that just fit or just do not), for every size of the buffer.

`HelpersProofs` proves, first of a volume item alone, that the volumes told and kept are right
(`VolumeVolumesTrue`), and that no value out of range is written or reported
(`VolumeInRange`), for every range of the control and every range an application chooses
in which the minimum is not above the maximum, ranges of a single value included, and for
any number of channels. `VolumeInv` says of each channel that the user volume stands
for the raw one in the range chosen (`UserIn`, `StandsFor`), what a set operation in
progress has left to do (`JobOk`), and that apart from the channel it is at the cached
values are the device's, unless an event is waiting or the last write, or read for an
event, has failed (`InTune`).
What it rests on is arithmetic: `convert_from_user` and `convert_to_user`
keep the ends of the ranges and stay between them, whatever they round.

The invariant `GainInv` carries the gains, for every control and table: the bounds of
`get_dB_range` are those of the values that have a gain, `ask_dB_vol` with a positive
direction gives the lowest value that is loud enough, with another one a value within one of
the loudest that is not too loud, and a gain that was set is that one on all channels asked
for. `GainAt` puts the three simple kinds of table, scale, bounds, and bounds with a mute,
into one form, and the conversions are compared with it. The hypothesis `GradedTables` has
three parts. The table that the parser finds at the top of a TLV is the one the driver has
put in, and it finds none exactly if there is none (that is what `Tables` says of it; the
walk through containers is recursive and TLC checks it). Its gains lie above the one that
stands for silence. And the control has more than one value, each at least a hundredth of a
dB, the unit of gains, apart from the next. The last is needed: with finer steps two values
have the same gain, and the roundings of the two directions of conversion add up to more
than a value. TLC finds `AnswersRounded` and `GainSet` violated for gains from -0.01 to 0 dB
over four values. For a table in a container the code frees a pointer that malloc has not
returned, so that after `init_db_info_frees` there is no answer to speak of. `DbGiven` adds
when the item answers at all: not once it is marked, and always if there is one table and
reading it has not failed. `NoLists`, that no driver offers a list of ranges, is needed for
the bounds only (`VolumeGainsRounded` does without); how gains are converted by lists is the
question of `volume_ranges`, and the answer is that they are not. `DbTables`, an assumption
of `Volume`, says that a table in range has numbers for words.

The rest of `HelpersProofs` is about `AllSpec` of `Helpers`, the four components as the run
`helpers` has them (the run's `MCSpec` allows fewer behaviours still). A step of `Helpers`
is a step of its part or leaves the part's variables alone (`PartSteps`), so that the
invariants of the parts carry over; from `VolumeInv` and `GainInv` follow `VolumesTrue` and
`GainsTrue`. It proves `CardsFound` for any number of places for cards and of changes, any
ids and names: both that a steady card is found under a name that the search can match, and
that an id or a path with a device number behind it is not found. `CardsInv` says of a list
in progress that it is in order and has all cards below the position that were there all the
while (`steady`, `ListSoFar`), and of a search that no steady card below the position was
the one (`SearchSoFar`). `CardsConstants` is what the syntax of names gives: a subdevice
only after a device. It proves `MapsTrue` for any offer of the driver and any maps, channels
and buffer lengths. `ChmapInv` lists the calls that can be in progress, each with the blocks
it has and whether the control device is open (`CallIs`): a query that has copied `n` maps
has the array and the blocks 1 to `n`, and these maps are the first `n` of the driver's.
`GivenIs` says the same of what the application was given, `SetKept` that the kernel has the
map set last. `ChmapConstants` says that maps are sequences of channels with a named
position or a number, and that no two positions share a name, which is true of
`_snd_chmap_names` and what reading text back depends on.

`AreasProofs` proves the other two properties of that run: `SamplesExact`, for any number of
channels and frames, all offsets, lengths and layouts of both buffers, and `FormatsTrue`. A
call is compared with a memory `v` that holds what is wanted at the samples asked for:
silence, or what the buffer read from has. That there is one (`HoldsSome`) is where the
layouts matter: no nibble belongs to two samples (`Start`, where a sample begins, is
injective in channel, frame and nibble). `Written(m2, m, T, v)` says that `m2` is `m` with
the nibbles of `T` taken from `v`, and one lemma for each path of the code, down from
`snd_pcm_areas_silence` and `snd_pcm_areas_copy` to `memcpy`, says which `T` that path
writes: the rounds of a loop write the union of what each writes, as long as no round
changes what a later one reads (`LoopWritten`). So the shortcuts of the code come out equal
to sample by sample: one `memcpy` or `snd_pcm_format_set_silence` for samples that follow
each other, one call for all channels of an interleaved buffer. The loops over half bytes
carry the byte and the half they are at from round to round (`Placed`), and are right only
under the condition `Reached` of section 5. Loops are recursive functions, and what holds of
all their rounds follows from the least round for which it would not (`Least`,
`SetInduction`), since the prover's induction theorems cannot be used. `SamplesInv` says of
the last call what it has made of the memory `before` it, and is inductive with the type of
`mem`; `FormatsInv` that the functions on formats were asked about a format or name that
exists. For `FormatsTrue` the table of formats is gone through row by row (`Rows`), and
`snd_pcm_build_linear_format` shown to find each linear format again from its widths, sign
and byte order; and the words of silence have, row by row, the bytes of the table in the
order of memory (`WordIsSilent`), whichever byte order the format has. `AreasConstants` is
all that is assumed: one channel and frame at least, the three layouts, and formats whose
samples have 4, 8, 16, 24 or 32 bits in memory. It leaves out the two formats of 64 bits,
for which the buffers of the model, four bytes a sample, have no room, and the formats whose
samples have 3, 5 or no number of bits, which the loops over samples treat as half bytes or
cannot step through.

`TheoremsApply` of `MCHelpers` has TLC confirm that the constants of the run meet the
hypotheses of these theorems.

Model-checked only:

* liveness (`CallsReturn`, `WaitEnds`) and everything under fairness, which the prover
  does not handle;
* `BoundsTight` for lists of ranges, and the parser's walk through containers.

## 7. Where the code disagrees with its own words

Four runs are expected to fail; `PROJECT.json` quotes the lines.

* `pcm_wrap`: `pcm->boundary`, "pointers wrap point", is never set. Beyond the
  kernel's wrap point a healthy stream is stopped.
* `mixer_global`: a control for both directions overwrites the capture item of its
  element, and the element is later freed while a control still points to it.
* `devices_subdev`: `_snd_open_subdev` opens the device only if the kernel has refused
  the subdevice.
* `volume_ranges`: `tlv_from_dB_range` looks for the table of a range two words too
  far, and goes on with uninitialised bounds.

Met while modelling, stated as the exceptions of section 5 or as notes of hazards, and
without a run of their own:

* an element is not removed "after all items have been removed" (`mixer.c:580`) when
  its last item was lost while an INFO event was handled (`mixer.c:231`);
* `boundary_nearer` does not always say which bound is nearer: `boundary_sub` counts a
  difference of directions of 2 twice (`pcm_params.c:778`);
* `area_copy_4bit` does not move a sample to the other half of a byte (`pcm.c:671`);
* the device number of a hwdep name is not read (`cards.c:210`, `hwdep.c:41`);
* `init_db_info` frees the pointer that the parser has moved (`mixer.c:1013`, 1020 and
  1024): for a table in a container that is one malloc has not returned;
* `update_selem_item` returns 0 when a changed control cannot be read (`mixer.c:700`): the
  event is used up, the item keeps the old values, and the caller is told of no error;
* controls that differ in device or subdevice only are the same to `snd_hctl_find_elem`
  (`hcontrol.c:166`). `snd_hctl_load` takes them all (`hcontrol.c:193`), a later ADD of one
  is refused with `-EBUSY` while another is listed, and a REMOVE takes out and frees the
  first, so that the list keeps one that is gone and loses one that is there;
* a card's id or path with a device number behind it is never found, because
  `snd_card_get_index` is given the rest of the name (`cards.c:206`, `cards.c:150`), although
  `README.md:29` lists `hw:x,y,z` among the names accepted; with a number it works;
* `snd_pcm_format_silence_64` (`pcm_misc.c:205`) takes the first byte in memory as the most
  significant one, so that for little-endian formats the word is not the silent sample's
  number: `0x0080` for `U16_LE`;
* the dB functions on a control's id never read the control's TLV (`control.c:786`);
* `snd_rawmidi_open` closes a file twice when its second handle fails (`rawmidi.c:157`);
* an INFO event that is read after its control has vanished (`mixer.c:231`) takes the
  item out of the slot, fails to add it again and leaves `private_data`; if another
  control shares the element, removing that one frees it, and `private_data` dangles
  until the removal of the first is handled. Found when `PrivateLive` could not be
  proved for such scenarios, and confirmed with TLC;
* `_snd_pcm_hw_param_set_near` with a target of 0 tries an upper bound just below it,
  which wraps to `UINT_MAX` on an integer parameter (`pcm_params.c:280`), and a size whose
  lower 32 bits are `UINT_MAX` with a direction above it wraps a lower bound: the space may
  be wider afterwards. Found when `NarrowsOnly` could not be proved;
* when `snd_pcm_hw_params` sets up a smaller ring and its mmap fails, no PREPARE resets the
  pointers of the larger ring, and `snd_pcm_avail_update` (`pcm.c:988`) returns their
  negative difference, which with 32 frames reads as `-EPIPE`. Found when `ErrorTrue` could
  not be proved: rings of 3 frames do not show it;
* `snd_pcm_set_chmap` sets the channels a short map does not have to unknown.

## 8. Assumptions, and what is not modelled

* The handle and the configuration space are used by one thread at a time, as the
  library requires; SIGIO is the exception and has a module of its own.
* The kernel is modelled from how the library uses it: which ioctl is refused in
  which state, what it changes, and that a failing HW_REFINE leaves the space as
  it was and a succeeding one is exact per parameter.
* Application callbacks return no error and do not call back into the library (one
  that deletes its own handler frees the node whose successor `snd_async_handler`
  reads next, `async.c:68`);
  `mixer->compare` is not set, so that elements keep the order they were added in.
* Allocation fails in `Async` and in `Mixer` (no address left); elsewhere in
  `hcontrol.c` and `mixer.c` it succeeds.
* In `Mixer` a driver can read every control that exists when it is added; reads for VALUE
  events and reads and writes of set operations may fail. `Mixer` updates an item's value as
  a whole, `Volume` channel by channel.
* `snd_mixer_selem_set_*_volume_range` does not check the range it is given; `Volume` has
  ranges whose minimum is not above their maximum.
* Data is left out where no property looks at it: samples, names, channel numbers
  of a volume, time stamps, the text functions.
* The counts of `hw->opened` in raw MIDI are changed in one step; two threads that
  close the two handles of one file at the same instant are outside the model.
* In `Control` an application passes ids with a name or with a numid, never with both
  at odds; power states, card information and next-device queries are one ioctl each
  without state and left out, as are the accessors of structures in all headers.
* Control ids and values as text (`snd_ctl_ascii_*`) and outputs (`output.c`): sequential
  work on characters that no other component depends on.
* Linked streams (`snd_pcm_link`): two handles would square the state of `Pcm`.
  `snd_pcm_set_params` and `snd_pcm_get_params` are fixed sequences of calls that
  `HwParams` and `Pcm` have one by one.
* `snd_pcm_wait` polls again with the full timeout after a signal; there is no clock in
  the model, where a wait with a timeout may end by it at any step.
* dB tables of type linear need floating point (`--enable-float`) and are refused, as in
  the default build.
* Positions of a channel beyond the last name are not used in `Chmap`.
* Input, configuration and sequencer are stubs or declarations, and the ABI sources
  compile the same functions once more: neither has state or control of its own worth a module.
