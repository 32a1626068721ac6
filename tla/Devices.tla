------------------------------ MODULE Devices ------------------------------
(***************************************************************************)
(* Opening and closing the device files: snd_pcm_open, snd_ctl_open,       *)
(* snd_rawmidi_open, snd_hwdep_open, snd_timer_open and _snd_open_subdev,  *)
(* their error paths, and the handle's count of users that raw MIDI keeps. *)
(* Every system call and every allocation is a step of its own: between    *)
(* any two of them another thread may open or close files, and be given    *)
(* the number of a file that has just been closed.                         *)
(*                                                                         *)
(* Requests on the handles are forwarded to the file behind them, and what *)
(* they ask for stays with the stream.                                     *)
(***************************************************************************)
EXTENDS Integers, FiniteSets, FiniteSetsExt

CONSTANTS
    Threads,  \* threads that call the library
    Handle,   \* the memory for handles
    Fds,      \* descriptors the process may have, 0..n
    Scenarios \* what may happen: [threads that call the library; kinds of device
              \* that are opened; failing, the allocations and ioctls that may
              \* fail; subdevs that names ask for, -1 if none is named; errnos,
              \* what errno may hold when no call has failed; params for raw MIDI
              \* handles; modes that are asked for, TRUE, to block or to run, or
              \* FALSE; others, whether the rest of the program has files too]

ASSUME DevicesConstants ==
    /\ Fds \subseteq Nat /\ 0 \in Fds /\ Fds = 0 .. Max(Fds)
    /\ \A s \in Scenarios :
        /\ s.threads \subseteq Threads
        /\ s.kinds \subseteq {"pcm", "ctl", "rawmidi", "hwdep", "timer"}
        /\ s.failing \subseteq {"version", "select", "first", "second", "mmap", "params"}
        /\ s.subdevs \subseteq {-1, 0, 1}
        /\ s.modes \subseteq BOOLEAN /\ s.others \in BOOLEAN

VARIABLES
    scenario, \* the member of Scenarios that this behaviour is
    file,     \* kernel: descriptor -> the file, or Free
    theirs,   \* the descriptors the rest of the program takes for its own
    hw,       \* raw MIDI: descriptor -> hw->opened
    handle,   \* memory -> the handle in it, or None
    maps,     \* the status and control pages that are mapped, by handle
    call,     \* thread -> the open call it is in
    done      \* thread -> how its last open call ended, if a subdevice was granted to it

vars == <<scenario, file, theirs, hw, handle, maps, call, done>>

Free == [kind |-> "free"]
Foreign == [kind |-> "foreign"]
None == [kind |-> "none"]
Idle == [pc |-> "idle"]
NULL == -1

EBUSY == -16
EINVAL == -22
ENODEV == -19
ENOMEM == -12
EMFILE == -24

Default == "default"  \* params as new_rmidi asks for them

FreeFds == {fd \in Fds : file[fd] = Free}
Go(t, c) == call' = [call EXCEPT ![t] = c]
Ends(t, ret) ==
    /\ call' = [call EXCEPT ![t] = Idle]
    /\ done' = [done EXCEPT ![t] =
                    IF ~call[t].granted THEN "none" ELSE IF ret < 0 THEN "refused" ELSE "opened"]

\* open(): the lowest free number.
Opened(fd, f) == fd = Min(FreeFds) /\ file' = [file EXCEPT ![fd] = f]

\* close(): whatever has the number by then.
close(fd) == file' = [file EXCEPT ![fd] = Free]

Init ==
    /\ scenario \in Scenarios
    /\ file = [fd \in Fds |-> IF fd = 0 THEN Foreign ELSE Free]
    /\ theirs = {0}
    /\ hw = [fd \in Fds |-> 0]
    /\ handle = [h \in Handle |-> None]
    /\ maps = {}
    /\ call = [t \in Threads |-> Idle]
    /\ done = [t \in Threads |-> "none"]

-----------------------------------------------------------------------------
(* Opening: the file. *)

\* A name has been resolved.  If it gives a subdevice, that is dealt with first.
StartOpen(t, kind, want, subdev) ==
    /\ kind \in scenario.kinds /\ call[t] = Idle
    /\ Go(t, [pc |-> IF subdev >= 0 THEN "control" ELSE "open", kind |-> kind, want |-> want,
              subdev |-> subdev, granted |-> FALSE, fd |-> NULL, ctl |-> NULL, made |-> {}])
    /\ UNCHANGED <<scenario, file, theirs, hw, handle, maps, done>>

snd_pcm_open(t) == \E subdev \in scenario.subdevs : StartOpen(t, "pcm", {"one"}, subdev)
snd_rawmidi_open(t) ==
    \E want \in {{"in"}, {"out"}, {"in", "out"}}, subdev \in scenario.subdevs :
        StartOpen(t, "rawmidi", want, subdev)
snd_ctl_open(t) == StartOpen(t, "ctl", {"one"}, -1)
snd_hwdep_open(t) == StartOpen(t, "hwdep", {"one"}, -1)
snd_timer_open(t) == StartOpen(t, "timer", {"one"}, -1)

\* _snd_open_subdev: the card's control file, to state the preference through.
OpenControl(t) ==
    /\ call[t].pc = "control"
    /\ \/ \E fd \in FreeFds :
            /\ Opened(fd, [kind |-> "scratch"])
            /\ Go(t, [call[t] EXCEPT !.pc = "prefer", !.ctl = fd])
            /\ UNCHANGED done
       \/ UNCHANGED file /\ Ends(t, ENODEV)
    /\ UNCHANGED <<scenario, theirs, hw, handle, maps>>

\* _snd_open_subdev: the device is opened if the preference was refused.
PreferSubdev(t) ==
    /\ call[t].pc = "prefer"
    /\ \/ Go(t, [call[t] EXCEPT !.pc = "unprefer", !.granted = TRUE])
       \/ Go(t, [call[t] EXCEPT !.pc = "open"])
    /\ UNCHANGED <<scenario, file, theirs, hw, handle, maps, done>>

\* _snd_open_subdev: the control file is closed, and -errno returned, which no
\* call has set; zero would be taken for the descriptor of the device.
CloseControl(t) ==
    /\ call[t].pc = "unprefer"
    /\ close(call[t].ctl)
    /\ \E errno \in scenario.errnos :
        IF errno = 0
        THEN /\ Go(t, [call[t] EXCEPT !.pc = "subdev", !.fd = 0, !.ctl = NULL])
             /\ UNCHANGED done
        ELSE Ends(t, -errno)
    /\ UNCHANGED <<scenario, theirs, hw, handle, maps>>

\* The kernel gives the device file whichever subdevice is free.
OpenDevice(t) ==
    /\ call[t].pc = "open"
    /\ \E fd \in FreeFds, subdev \in {0, 1} :
         /\ Opened(fd, [kind |-> call[t].kind, subdev |-> subdev, nonblock |-> FALSE,
                        params |-> {}, active |-> {}])
         /\ Go(t, [call[t] EXCEPT !.fd = fd,
                                  !.pc = IF call[t].ctl # NULL THEN "control done" ELSE "subdev"])
    /\ UNCHANGED <<scenario, theirs, hw, handle, maps, done>>

OpenFails(t) ==
    /\ call[t].pc = "open"
    /\ IF call[t].ctl = NULL THEN UNCHANGED file ELSE close(call[t].ctl)
    /\ Ends(t, IF FreeFds = {} THEN EMFILE ELSE ENODEV)
    /\ UNCHANGED <<scenario, theirs, hw, handle, maps>>

DropControl(t) ==
    /\ call[t].pc = "control done"
    /\ close(call[t].ctl)
    /\ Go(t, [call[t] EXCEPT !.pc = "subdev", !.ctl = NULL])
    /\ UNCHANGED <<scenario, theirs, hw, handle, maps, done>>

\* get_pcm_subdev and get_rawmidi_subdev: the subdevice must be the one asked
\* for.  PCM asks for it even if the name says nothing.
CheckSubdev(t) ==
    /\ call[t].pc = "subdev"
    /\ LET f == file[call[t].fd]
           got == IF f.kind = call[t].kind THEN f.subdev ELSE -1
       IN  \/ /\ \/ call[t].subdev >= 0 /\ got # call[t].subdev
                 \/ "version" \in scenario.failing /\ (call[t].subdev >= 0 \/ call[t].kind = "pcm")
              /\ close(call[t].fd)
              /\ Ends(t, EBUSY)
           \/ /\ call[t].subdev \in {-1, got}
              /\ Go(t, [call[t] EXCEPT !.pc = "version"])
              /\ UNCHANGED <<file, done>>
    /\ UNCHANGED <<scenario, theirs, hw, handle, maps>>

\* As a plausible bug would have it: the error path leaves the file open.
BugAskVersion(t) ==
    /\ call[t].pc = "version"
    /\ \/ Go(t, [call[t] EXCEPT !.pc = "memory"]) /\ UNCHANGED done
       \/ Ends(t, EINVAL)
    /\ UNCHANGED <<scenario, file, theirs, hw, handle, maps>>

\* SNDRV_*_IOCTL_PVERSION, and for timers TREAD and SELECT.
AskVersion(t) ==
    /\ call[t].pc = "version"
    /\ \/ /\ Go(t, [call[t] EXCEPT !.pc = "memory"])
          /\ UNCHANGED <<file, done>>
       \/ /\ \/ "version" \in scenario.failing
             \/ "select" \in scenario.failing /\ call[t].kind = "timer"
          /\ close(call[t].fd)
          /\ Ends(t, EINVAL)
    /\ UNCHANGED <<scenario, theirs, hw, handle, maps>>

-----------------------------------------------------------------------------
(* Opening: the handles. *)

\* The next handle to make: raw MIDI makes that for input first.
NextStream(c) == IF "in" \in c.want \ {handle[h].stream : h \in c.made} THEN "in"
                 ELSE CHOOSE s \in c.want : s # "in"

\* calloc, and for raw MIDI the structure that counts its users.  The kernel
\* may refuse the params of a new raw MIDI handle: nobody asks.
NewHandle(t) ==
    /\ call[t].pc = "memory"
    /\ \E h \in Handle :
        LET c == call[t]
            s == NextStream(c)
            made == c.made \cup {h}
            complete == Cardinality(made) = Cardinality(c.want)
        IN  /\ handle[h] = None
            /\ \E known \in IF c.kind = "rawmidi" /\ "params" \in scenario.failing THEN BOOLEAN ELSE {TRUE} :
                 /\ handle' = [handle EXCEPT ![h] =
                        [kind |-> c.kind, stream |-> s, fd |-> c.fd, params |-> Default, known |-> known,
                         active |-> FALSE]]
                 /\ file' = IF c.kind = "rawmidi" /\ known
                            THEN [file EXCEPT ![c.fd].params =
                                    {p \in @ : p[1] # s} \cup {<<s, Default>>}]
                            ELSE file
            /\ hw' = IF c.kind = "rawmidi" THEN [hw EXCEPT ![c.fd] = @ + 1] ELSE hw
            /\ IF complete /\ c.kind # "pcm"
               THEN Ends(t, 0)
               ELSE /\ Go(t, [c EXCEPT !.made = made, !.pc = IF complete THEN "mmap" ELSE "memory"])
                    /\ UNCHANGED done
    /\ UNCHANGED <<scenario, theirs, maps>>

\* As a plausible bug would have it: every failure goes through both closes.
BugNewHandleFails(t) ==
    /\ call[t].pc = "memory"
    /\ close(call[t].fd)
    /\ handle' = [h \in Handle |-> IF h \in call[t].made THEN None ELSE handle[h]]
    /\ Go(t, [call[t] EXCEPT !.made = {}, !.pc = "error"])
    /\ UNCHANGED <<scenario, theirs, hw, maps, done>>

\* An allocation fails: the error path of snd_rawmidi_open closes the handle it
\* has made, which closes the file; then every one of the functions closes the
\* file.
NewHandleFails(t) ==
    /\ call[t].pc = "memory"
    /\ \/ /\ call[t].made = {} /\ "first" \in scenario.failing
          /\ close(call[t].fd)
          /\ Ends(t, ENOMEM)
          /\ UNCHANGED <<hw, handle>>
       \/ /\ call[t].made # {} /\ "second" \in scenario.failing
          /\ close(call[t].fd)
          /\ handle' = [h \in Handle |-> IF h \in call[t].made THEN None ELSE handle[h]]
          /\ hw' = [hw EXCEPT ![call[t].fd] = 0]
          /\ Go(t, [call[t] EXCEPT !.made = {}, !.pc = "error"])
          /\ UNCHANGED done
    /\ UNCHANGED <<scenario, theirs, maps>>

CloseAgain(t) ==
    /\ call[t].pc = "error"
    /\ close(call[t].fd)
    /\ Ends(t, ENOMEM)
    /\ UNCHANGED <<scenario, theirs, hw, handle, maps>>

\* snd_pcm_hw_mmap_status: the two pages, or a copy of them if one of the two
\* cannot be mapped.
MapStatus(t) ==
    /\ call[t].pc = "mmap"
    /\ \E h \in call[t].made :
        \/ maps' = maps \cup {<<h, "status">>, <<h, "control">>} /\ Ends(t, 0)
                /\ UNCHANGED <<file, handle>>
        \/ "mmap" \in scenario.failing /\ Ends(t, 0) /\ UNCHANGED <<file, handle, maps>>
        \/ /\ "mmap" \in scenario.failing
           /\ close(call[t].fd)
           /\ handle' = [handle EXCEPT ![h] = None]
           /\ Ends(t, ENOMEM)
           /\ UNCHANGED maps
    /\ UNCHANGED <<scenario, theirs, hw>>

-----------------------------------------------------------------------------
(* What is done with handles. *)

\* The handles an application has been given.
Making == UNION {call[t].made : t \in {u \in Threads : call[u] # Idle}}
Given == {h \in Handle : handle[h] # None} \ Making

\* The functions that close a handle with a file of its own.
CloseSingle(h, kind) ==
    /\ h \in Given /\ handle[h].kind = kind
    /\ close(handle[h].fd)
    /\ handle' = [handle EXCEPT ![h] = None]
    /\ UNCHANGED <<scenario, theirs, hw, call, done>>

\* With snd_pcm_hw_munmap_status.
snd_pcm_close(h) == CloseSingle(h, "pcm") /\ maps' = {m \in maps : m[1] # h}
snd_ctl_close(h) == CloseSingle(h, "ctl") /\ UNCHANGED maps
snd_hwdep_close(h) == CloseSingle(h, "hwdep") /\ UNCHANGED maps
snd_timer_close(h) == CloseSingle(h, "timer") /\ UNCHANGED maps

\* As a plausible bug would have it: the users are not counted.
Bugsnd_rawmidi_close(h) ==
    /\ h \in Given /\ handle[h].kind = "rawmidi"
    /\ close(handle[h].fd)
    /\ handle' = [handle EXCEPT ![h] = None]
    /\ UNCHANGED <<scenario, theirs, hw, maps, call, done>>

\* The two handles of one snd_rawmidi_open are closed one after the other.
snd_rawmidi_close(h) ==
    /\ h \in Given /\ handle[h].kind = "rawmidi"
    /\ LET fd == handle[h].fd
       IN  /\ hw' = [hw EXCEPT ![fd] = @ - 1]
           /\ IF hw[fd] = 1 THEN close(fd) ELSE UNCHANGED file
    /\ handle' = [handle EXCEPT ![h] = None]
    /\ UNCHANGED <<scenario, theirs, maps, call, done>>

\* snd_rawmidi_params: what the kernel has accepted is remembered.
snd_rawmidi_params(h, p) ==
    /\ h \in Given /\ handle[h].kind = "rawmidi"
    /\ LET fd == handle[h].fd
           s == handle[h].stream
       IN  file' = [file EXCEPT ![fd].params = {q \in @ : q[1] # s} \cup {<<s, p>>}]
    /\ handle' = [handle EXCEPT ![h].params = p, ![h].known = TRUE]
    /\ UNCHANGED <<scenario, theirs, hw, maps, call, done>>

\* What a stream is asked to do stays with it: a timer runs, bytes wait in a
\* buffer, until another request undoes it.
Request(h, on, stream) ==
    /\ file' = [file EXCEPT ![handle[h].fd].active = IF on THEN @ \cup {stream} ELSE @ \ {stream}]
    /\ handle' = [handle EXCEPT ![h].active = on]
    /\ UNCHANGED <<scenario, theirs, hw, maps, call, done>>

\* snd_rawmidi_write and snd_rawmidi_read; snd_rawmidi_drain and snd_rawmidi_drop,
\* which name the stream that is meant.
snd_rawmidi_request(h, on) ==
    h \in Given /\ handle[h].kind = "rawmidi" /\ Request(h, on, handle[h].stream)

\* snd_timer_start and snd_timer_continue, snd_timer_stop.
snd_timer_request(h, on) ==
    h \in Given /\ handle[h].kind = "timer" /\ Request(h, on, "one")

\* snd_hwdep_ioctl and the functions made of it.
snd_hwdep_request(h, on) ==
    h \in Given /\ handle[h].kind = "hwdep" /\ Request(h, on, "one")

\* _snd_set_nonblock.  A timer's handle keeps the mode too; nothing reads it.
snd_nonblock(h, nonblock) ==
    /\ h \in Given
    /\ file' = [file EXCEPT ![handle[h].fd].nonblock = nonblock]
    /\ UNCHANGED <<scenario, theirs, hw, handle, maps, call, done>>

\* The rest of the program: its own files.
OtherOpens ==
    /\ scenario.others
    /\ \E fd \in FreeFds : Opened(fd, Foreign) /\ theirs' = theirs \cup {fd}
    /\ UNCHANGED <<scenario, hw, handle, maps, call, done>>

OtherCloses ==
    /\ scenario.others
    /\ \E fd \in theirs : close(fd) /\ theirs' = theirs \ {fd}
    /\ UNCHANGED <<scenario, hw, handle, maps, call, done>>

OpenStep(t) ==
    \/ snd_pcm_open(t) \/ snd_rawmidi_open(t) \/ snd_ctl_open(t) \/ snd_hwdep_open(t)
    \/ snd_timer_open(t) \/ OpenControl(t) \/ PreferSubdev(t) \/ CloseControl(t)
    \/ OpenDevice(t) \/ OpenFails(t) \/ DropControl(t) \/ CheckSubdev(t) \/ AskVersion(t)
    \/ NewHandle(t) \/ NewHandleFails(t) \/ CloseAgain(t) \/ MapStatus(t)

Next ==
    \/ \E t \in scenario.threads : OpenStep(t)
    \/ \E h \in Handle :
        \/ snd_pcm_close(h) \/ snd_rawmidi_close(h) \/ snd_ctl_close(h)
        \/ snd_hwdep_close(h) \/ snd_timer_close(h)
    \/ \E h \in Handle, p \in scenario.params : snd_rawmidi_params(h, p)
    \/ \E h \in Handle, mode \in scenario.modes :
        \/ snd_nonblock(h, mode)
        \/ snd_rawmidi_request(h, mode) \/ snd_timer_request(h, mode) \/ snd_hwdep_request(h, mode)
    \/ OtherOpens \/ OtherCloses

Spec == Init /\ [][Next]_vars

-----------------------------------------------------------------------------
(* Properties. *)

\* No open or close function closes a file of the rest of the program, whose
\* descriptor it might have had before.
OthersKept == \A fd \in theirs : file[fd] = Foreign

\* What an application has asked of a handle is what its own stream has: requests
\* have reached the file the handle was opened for, and in it the stream of the
\* handle, whatever was asked of the handle that shares the file, and
\* snd_rawmidi_params_current answers with what the kernel has for that stream, if
\* the kernel has accepted any params.  The pages that snd_pcm_hw_mmap_status has
\* mapped, both or none, are those of a PCM handle that is there.
HandlesTrue ==
    /\ \A h \in Given :
        /\ file[handle[h].fd].kind = handle[h].kind
        /\ handle[h].active <=> handle[h].stream \in file[handle[h].fd].active
        /\ handle[h].kind = "rawmidi" /\ handle[h].known =>
             <<handle[h].stream, handle[h].params>> \in file[handle[h].fd].params
    /\ \A h \in Handle :
        LET pages == {m \in maps : m[1] = h}
        IN  pages # {} => Cardinality(pages) = 2 /\ h \in Given /\ handle[h].kind = "pcm"

\* A name that asks for a subdevice (hw:x,y,z), which the kernel grants, opens it.
SubdevOpened ==
    \A t \in Threads : done[t] # "refused"

\* The open and close functions implement the promise of Handles: a descriptor is
\* the library's from the step that hands out its handles to the one that closes
\* the last of them, and what a failing call has opened is closed by its end.
Busy == {call[t].fd : t \in {u \in Threads : call[u] # Idle}}
    \cup {call[t].ctl : t \in {u \in Threads : call[u] # Idle}}
H == INSTANCE Handles WITH
        held <- [h \in Given |-> handle[h].fd],
        files <- {fd \in Fds : file[fd] \notin {Free, Foreign}} \ Busy
Promise == H!Spec
=============================================================================
