-------------------------------- MODULE Pcm --------------------------------
(***************************************************************************)
(* One PCM handle of salsa-lib (src/pcm.c, src/pcm_macros.h and the        *)
(* hw/sw-params entry points of src/pcm_params.c) above one kernel PCM     *)
(* substream.                                                              *)
(*                                                                         *)
(* The handle keeps copies of what the kernel owns: the ring geometry, the *)
(* stop threshold, the mapping of the ring, and, when the status page      *)
(* cannot be mapped (pcm->sync_ptr # NULL), the stream state and the two   *)
(* ring pointers.  The module is about those copies staying true while the *)
(* hardware pointer moves, the stream under- or overruns, the system       *)
(* sleeps, or the card goes away between any two kernel calls.             *)
(***************************************************************************)
EXTENDS Integers

CONSTANTS
    Stream,      \* "PLAYBACK" or "CAPTURE"
    Configs,     \* what HW_PARAMS may settle on: records [buf, period, acc]
    SwChoices,   \* what an application passes to sw_params: [stop, amin]
    LongMax,     \* LONG_MAX
    FrameLimit   \* bound: no pointer is moved past this position

\* The hardware's configurations, the application's requests and the width of
\* a long are whatever the machine has; nothing more is needed.
ASSUME PcmConstants ==
    /\ Stream \in {"PLAYBACK", "CAPTURE"}
    /\ LongMax \in Nat \ {0}
    /\ FrameLimit \in Nat
    /\ Configs \subseteq [buf : 1..LongMax, period : 1..LongMax,
                          acc : {"RW", "MMAP"}]
    /\ SwChoices \subseteq [stop : 0..LongMax, amin : 0..LongMax]

VARIABLES
    k,     \* the kernel substream behind pcm->fd
    h,     \* the snd_pcm_t handle
    pc,    \* the step reached in the call in progress, "idle" between calls
    num,   \* that call's local variable (avail, err or timeout)
    ret    \* what the last call returned, where a property looks at it

vars == <<k, h, pc, num, ret>>

EINTR    == 4
EIO      == 5
ENODEV   == 19
EPIPE    == 32
EBADFD   == 77
ESTRPIPE == 86

States == {"OPEN", "SETUP", "PREPARED", "RUNNING", "XRUN", "DRAINING",
           "PAUSED", "SUSPENDED", "DISCONNECTED"}

\* The states between PREPARE and the next DROP: the ring is in use.
Active == {"PREPARED", "RUNNING", "XRUN", "DRAINING", "PAUSED", "SUSPENDED"}

Steps == {"idle", "hw_params.ioctl", "hw_params.sw", "hw_params.mmap",
          "hw_params.prepare", "avail.sync", "avail.state", "avail.xrun",
          "correct", "wait", "resume"}

-----------------------------------------------------------------------------
(* The kernel's side, as the library's ioctls meet it. *)

KClosed == [state |-> "OPEN", hw |-> 0, appl |-> 0, buf |-> 0, bnd |-> 0,
            stop |-> 0, amin |-> 0, maps |-> 0, susp |-> "OPEN",
            asleep |-> FALSE]

\* Frames the application may transfer, by the kernel's own pointers.
KAvail(kk) ==
    LET d == IF Stream = "PLAYBACK" THEN kk.hw + kk.buf - kk.appl
                                    ELSE kk.hw - kk.appl
    IN  IF d < 0 THEN d + kk.bnd
        ELSE IF Stream = "PLAYBACK" /\ d >= kk.bnd THEN d - kk.bnd
        ELSE d

\* The kernel moves its pointers modulo the boundary.
Wrapped(kk, p) == IF p >= kk.bnd THEN p - kk.bnd ELSE p

Running(kk) == \/ kk.state = "RUNNING"
               \/ kk.state = "DRAINING" /\ Stream = "PLAYBACK"

Prepared(kk) == [kk EXCEPT !.state = "PREPARED", !.hw = 0, !.appl = 0,
                           !.susp = "OPEN"]

CanPrepare(kk) == kk.state \notin {"OPEN", "DISCONNECTED"} /\ ~Running(kk)

-----------------------------------------------------------------------------
(* The handle. *)

HClosed == [open |-> FALSE, sync |-> FALSE, setup |-> FALSE, buf |-> 0,
            acc |-> "RW", stop |-> 0, want |-> 0, map |-> 0,
            st |-> "OPEN", hw |-> 0, appl |-> 0, amin |-> 0]

\* pcm->boundary is zeroed by calloc() in snd_pcm_open and assigned nowhere.
PcmBoundary == 0

\* mmap_status and mmap_control point into the kernel's pages, or, with
\* sync_ptr, into the handle's own copy of them.
PState(kk, hh) == IF hh.sync THEN hh.st ELSE kk.state
HwPtr(kk, hh) == IF hh.sync THEN hh.hw ELSE kk.hw
ApplPtr(kk, hh) == IF hh.sync THEN hh.appl ELSE kk.appl

\* A copy of status and control is exchanged with the kernel by SYNC_PTR: with
\* the flag APPL the kernel's appl_ptr is read, without it the handle's is
\* written; avail_min is always written.  The ioctl fails once the card is gone.
SyncOk(kk, hh) == hh.sync /\ kk.state # "DISCONNECTED"

SyncK(kk, hh, flag) ==
    IF SyncOk(kk, hh)
    THEN [kk EXCEPT !.amin = hh.amin,
                    !.appl = IF flag = "APPL" THEN kk.appl ELSE hh.appl]
    ELSE kk

SyncH(kk, hh, flag) ==
    IF SyncOk(kk, hh)
    THEN [hh EXCEPT !.st = kk.state, !.hw = kk.hw,
                    !.appl = IF flag = "APPL" THEN kk.appl ELSE hh.appl]
    ELSE hh

\* Stores through pcm->mmap_control.
SetAvailMinK(kk, hh, v) == IF hh.sync THEN kk ELSE [kk EXCEPT !.amin = v]
SetAvailMinH(hh, v) == IF hh.sync THEN [hh EXCEPT !.amin = v] ELSE hh
SetApplK(kk, hh, v) == IF hh.sync THEN kk ELSE [kk EXCEPT !.appl = v]
SetApplH(hh, v) == IF hh.sync THEN [hh EXCEPT !.appl = v] ELSE hh

\* A negative sframes value read as uframes.
Unsigned(x) == IF x < 0 THEN x + 2 * (LongMax + 1) ELSE x

\* snd_pcm_mmap_avail, as the signed value the two helpers compute.
MmapAvail(kk, hh) ==
    LET d == IF Stream = "PLAYBACK"
             THEN HwPtr(kk, hh) + hh.buf - ApplPtr(kk, hh)
             ELSE HwPtr(kk, hh) - ApplPtr(kk, hh)
    IN  IF d < 0 THEN d + PcmBoundary
        ELSE IF Stream = "PLAYBACK" /\ d >= PcmBoundary THEN d - PcmBoundary
        ELSE d

\* The boundary the kernel settles on, and snd_pcm_sw_params_default computes:
\* the buffer size doubled as long as it fits a long.
Boundary(buf) ==
    LET double[b \in 1..LongMax] ==
            IF 2 * b <= LongMax - buf THEN double[2 * b] ELSE b
    IN  double[buf]

MinOf(a, b) == IF a <= b THEN a ELSE b

-----------------------------------------------------------------------------
(* Bookkeeping of calls. *)

NoRet == [fn |-> "none", val |-> 0, off |-> 0]
Result(fn, val) == [fn |-> fn, val |-> val, off |-> 0]

\* A call may start: the handle is open and no other call is in progress.
Idle == h.open /\ pc = "idle"

Goto(step, n) == pc' = step /\ num' = n
Return(r) == Goto("idle", 0) /\ ret' = r

\* A call that is over in one step.
Finish(r) == UNCHANGED <<pc, num>> /\ ret' = r

Init == /\ k = KClosed
        /\ h = HClosed
        /\ pc = "idle"
        /\ num = 0
        /\ ret = NoRet

-----------------------------------------------------------------------------
(* Opening, configuring, closing. *)

\* snd_pcm_open: the status page is mapped, or SYNC_PTR used instead.
Open ==
    /\ ~h.open
    /\ \E sync \in BOOLEAN :
           LET h0 == [HClosed EXCEPT !.open = TRUE, !.sync = sync]
               k1 == SetAvailMinK(KClosed, h0, 1)
               h1 == SetAvailMinH(h0, 1)
           IN  k' = SyncK(k1, h1, "0") /\ h' = SyncH(k1, h1, "0")
    /\ Finish(NoRet)

\* HW_FREE, refused while the ring is mapped or the stream not stopped.
HwFreeOk(kk) == kk.state \in {"SETUP", "PREPARED"} /\ kk.maps = 0

\* _snd_pcm_munmap: how much is given back is computed anew from buffer_size.
UnmapK(kk, hh) == IF hh.map = 0 THEN kk
                  ELSE [kk EXCEPT !.maps = kk.maps - hh.buf]
UnmapH(hh) == [hh EXCEPT !.map = 0]

\* snd_pcm_hw_free: the ring is unmapped first, whatever HW_FREE answers.
FreeK(kk, hh) ==
    IF ~hh.setup THEN kk
    ELSE IF HwFreeOk(UnmapK(kk, hh))
    THEN [UnmapK(kk, hh) EXCEPT !.state = "OPEN"]
    ELSE UnmapK(kk, hh)

FreeH(kk, hh) ==
    IF ~hh.setup THEN hh
    ELSE IF HwFreeOk(UnmapK(kk, hh)) THEN [UnmapH(hh) EXCEPT !.setup = FALSE]
    ELSE UnmapH(hh)

HwFree ==
    /\ Idle
    /\ k' = FreeK(k, h)
    /\ h' = FreeH(k, h)
    /\ Finish(NoRet)

\* snd_pcm_drop as a state change.
CanDrop(kk) == kk.state \notin {"OPEN", "DISCONNECTED"}
DropK(kk) == IF CanDrop(kk) THEN [kk EXCEPT !.state = "SETUP", !.susp = "OPEN"]
             ELSE kk

\* snd_pcm_close: a configured stream is dropped and freed, a mapping that is
\* left is given back; close() releases the substream but no mapping.
BugCloseMaps == k.maps  \* mutant: no hw_free, no munmap
CloseMaps ==
    LET k1 == IF h.setup THEN FreeK(DropK(k), h) ELSE k
        h1 == IF h.setup THEN FreeH(DropK(k), h) ELSE h
    IN  UnmapK(k1, h1).maps

Close ==
    /\ Idle
    /\ h' = HClosed
    /\ k' = [KClosed EXCEPT !.maps = CloseMaps]
    /\ Finish(NoRet)

\* snd_pcm_hw_params up to its HW_FREE; a failing HW_REFINE changes nothing.
HwParamsFree ==
    /\ Idle
    /\ k' = FreeK(k, h)
    /\ h' = FreeH(k, h)
    /\ Goto("hw_params.ioctl", 0)
    /\ ret' = NoRet

HwParamsOk(kk) == kk.state \in {"OPEN", "SETUP", "PREPARED"} /\ kk.maps = 0

\* HW_PARAMS accepted with configuration c; the handle takes over the fields.
HwParamsIoctl ==
    /\ pc = "hw_params.ioctl"
    /\ HwParamsOk(k)
    /\ \E c \in Configs :
           /\ k' = [k EXCEPT !.state = "SETUP", !.buf = c.buf,
                             !.bnd = Boundary(c.buf),
                             !.stop = c.buf, !.amin = c.period]
           /\ h' = [h EXCEPT !.setup = TRUE, !.buf = c.buf, !.acc = c.acc]
           /\ Goto("hw_params.sw", c.period)
    /\ UNCHANGED ret

\* HW_PARAMS refused: by the state, or by the driver, which leaves OPEN.
HwParamsRefused ==
    /\ pc = "hw_params.ioctl"
    /\ \/ ~HwParamsOk(k) /\ k' = k
       \/ HwParamsOk(k) /\ k' = [k EXCEPT !.state = "OPEN"]
    /\ UNCHANGED h
    /\ Return(NoRet)

\* snd_pcm_sw_params as a state change; SW_PARAMS refuses avail_min = 0.
SwParamsOk(kk, amin) == kk.state \notin {"OPEN", "DISCONNECTED"} /\ amin > 0

SwParamsK(kk, hh, stop, amin) ==
    SetAvailMinK([kk EXCEPT !.stop = stop, !.amin = amin], hh, amin)
\* mutant: pcm->sw_params is not kept
BugSwParamsH(hh, stop, amin) == SetAvailMinH(hh, amin)
SwParamsH(hh, stop, amin) ==
    SetAvailMinH([hh EXCEPT !.stop = stop, !.want = amin], amin)

\* The default sw_params; an error of snd_pcm_sw_params is ignored here.
HwParamsSw ==
    /\ pc = "hw_params.sw"
    /\ \/ /\ SwParamsOk(k, num)
          /\ k' = SwParamsK(k, h, h.buf, num)
          /\ h' = SwParamsH(h, h.buf, num)
       \/ ~SwParamsOk(k, num) /\ UNCHANGED <<k, h>>
    /\ Goto("hw_params.mmap", 0)
    /\ UNCHANGED ret

\* _snd_pcm_mmap for the mmap access modes, then the SYNC_PTR.
HwParamsMmap ==
    /\ pc = "hw_params.mmap"
    /\ h.acc = "MMAP" => k.state # "DISCONNECTED"
    /\ LET k1 == IF h.acc = "RW" THEN k
                 ELSE [UnmapK(k, h) EXCEPT !.maps = @ + h.buf]
           h1 == IF h.acc = "RW" THEN h ELSE [h EXCEPT !.map = h.buf]
       IN  k' = SyncK(k1, h1, "0") /\ h' = SyncH(k1, h1, "0")
    /\ Goto("hw_params.prepare", 0)
    /\ UNCHANGED ret

\* The mapping fails: what was mapped is undone, the handle stays set up.
HwParamsMmapFails ==
    /\ pc = "hw_params.mmap"
    /\ h.acc = "MMAP"
    /\ k' = UnmapK(k, h)
    /\ h' = UnmapH(h)
    /\ Return(NoRet)

\* snd_pcm_prepare: PREPARE, then the pointers are read back.
PrepareK(kk, hh) ==
    IF CanPrepare(kk) THEN SyncK(Prepared(kk), hh, "APPL") ELSE kk
BugPrepareH(kk, hh) == hh  \* mutant: appl_ptr is not read back
PrepareH(kk, hh) ==
    IF CanPrepare(kk) THEN SyncH(Prepared(kk), hh, "APPL") ELSE hh

HwParamsPrepare ==
    /\ pc = "hw_params.prepare"
    /\ k' = PrepareK(k, h)
    /\ h' = PrepareH(k, h)
    /\ Return(NoRet)

\* snd_pcm_sw_params; when it is refused nothing changes.
SwParams ==
    /\ Idle
    /\ h.setup
    /\ \E c \in SwChoices :
           /\ SwParamsOk(k, c.amin)
           /\ k' = SwParamsK(k, h, c.stop, c.amin)
           /\ h' = SwParamsH(h, c.stop, c.amin)
    /\ Finish(NoRet)

-----------------------------------------------------------------------------
(* Stream control. *)

Prepare ==
    /\ Idle
    /\ k' = PrepareK(k, h)
    /\ h' = PrepareH(k, h)
    /\ Finish(NoRet)

\* snd_pcm_reset: while running the hardware position is kept modulo buf.
Reset ==
    /\ Idle
    /\ k.state \in {"PREPARED", "RUNNING", "PAUSED", "SUSPENDED"}
    /\ LET p  == IF k.state = "RUNNING" THEN k.hw % k.buf ELSE 0
           k1 == [k EXCEPT !.hw = p, !.appl = p]
       IN  k' = SyncK(k1, h, "APPL") /\ h' = SyncH(k1, h, "APPL")
    /\ Finish(NoRet)

\* snd_pcm_start: the handle's pointers are written first.
StartOk(kk) ==
    /\ kk.state = "PREPARED"
    /\ Stream = "PLAYBACK" => KAvail(kk) < kk.buf

Start ==
    /\ Idle
    /\ LET k1 == SyncK(k, h, "0")
       IN  k' = IF StartOk(k1) THEN [k1 EXCEPT !.state = "RUNNING"] ELSE k1
    /\ h' = SyncH(k, h, "0")
    /\ Finish(NoRet)

\* snd_pcm_drop
Drop ==
    /\ Idle
    /\ CanDrop(k)
    /\ k' = DropK(k)
    /\ UNCHANGED h
    /\ Finish(NoRet)

\* snd_pcm_drain: what is queued is played, what is recorded may be read.
Drain ==
    /\ Idle
    /\ k.state \in {"PREPARED", "RUNNING", "PAUSED", "XRUN"}
    /\ LET data == IF Stream = "PLAYBACK" THEN KAvail(k) < k.buf
                                          ELSE KAvail(k) > 0
           more == k.state \in {"PREPARED", "RUNNING", "PAUSED"} /\ data
       IN  k' = [k EXCEPT !.state = IF more THEN "DRAINING" ELSE "SETUP"]
    /\ UNCHANGED h
    /\ Finish(NoRet)

\* snd_pcm_pause
Pause ==
    /\ Idle
    /\ \/ k.state = "RUNNING" /\ k' = [k EXCEPT !.state = "PAUSED"]
       \/ k.state = "PAUSED" /\ k' = [k EXCEPT !.state = "RUNNING"]
    /\ UNCHANGED h
    /\ Finish(NoRet)

\* RESUME: EAGAIN until the driver is back, then the saved state.
ResumeOk(kk) == kk.state = "SUSPENDED" /\ ~kk.asleep
ResumedK(kk) == [kk EXCEPT !.state = kk.susp, !.susp = "OPEN"]

\* snd_pcm_resume
Resume ==
    /\ Idle
    /\ ResumeOk(k)
    /\ k' = ResumedK(k)
    /\ UNCHANGED h
    /\ Finish(NoRet)

\* snd_pcm_rewind and snd_pcm_forward: the kernel clips the distance, moves
\* appl_ptr, and the handle reads it back.
CanMove(kk) == kk.state \in {"PREPARED", "RUNNING", "DRAINING", "PAUSED"}

Rewind ==
    /\ Idle
    /\ CanMove(k)
    /\ \E n \in 1..MinOf(k.buf - KAvail(k), k.appl) :
           LET k1 == [k EXCEPT !.appl = k.appl - n]
           IN  k' = SyncK(k1, h, "APPL") /\ h' = SyncH(k1, h, "APPL")
    /\ Finish(NoRet)

Forward ==
    /\ Idle
    /\ CanMove(k)
    /\ \E n \in 1..MinOf(KAvail(k), FrameLimit - k.appl) :
           LET k1 == [k EXCEPT !.appl = Wrapped(k, k.appl + n)]
           IN  k' = SyncK(k1, h, "APPL") /\ h' = SyncH(k1, h, "APPL")
    /\ Finish(NoRet)

-----------------------------------------------------------------------------
(* Transfers. *)

\* The states in which the kernel moves frames.
CanTransfer(kk) == \/ kk.state \in {"PREPARED", "RUNNING", "PAUSED"}
                   \/ kk.state = "DRAINING" /\ Stream = "CAPTURE"

\* The ioctl may start a prepared stream, as the start threshold has it.
Started(kk) == IF kk.state = "PREPARED" THEN [kk EXCEPT !.state = "RUNNING"]
               ELSE kk

\* snd_pcm_writei/writen/readi/readn moving n frames.
Transfer ==
    /\ Idle
    /\ CanTransfer(k)
    /\ \E n \in 1..MinOf(MinOf(KAvail(k), k.buf), FrameLimit - k.appl),
          ks \in {k, Started(k)} :
           LET k1 == [ks EXCEPT !.appl = Wrapped(k, k.appl + n)]
           IN  k' = SyncK(k1, h, "APPL") /\ h' = SyncH(k1, h, "APPL")
    /\ Finish(NoRet)

\* The transfer is refused (XRUN -> EPIPE, SUSPENDED -> ESTRPIPE, ...), or has
\* nothing to move and returns EAGAIN; a read has started the capture by then.
\* Errors other than EINTR are returned without a look at the state.
TransferFails ==
    /\ Idle
    /\ CanTransfer(k) => KAvail(k) = 0
    /\ k' = IF CanTransfer(k) /\ Stream = "CAPTURE" THEN Started(k) ELSE k
    /\ UNCHANGED h
    /\ Finish(NoRet)

\* A signal ends the blocked ioctl: snd_pcm_check_error asks for the state.
TransferInterrupted ==
    /\ Idle
    /\ CanTransfer(k)
    /\ KAvail(k) = 0
    /\ Goto("correct", -EINTR)
    /\ ret' = NoRet
    /\ UNCHANGED <<k, h>>

\* correct_pcm_error
Corrected(st, err) == CASE st = "XRUN" -> -EPIPE
                        [] st = "SUSPENDED" -> -ESTRPIPE
                        [] st = "DISCONNECTED" -> -ENODEV
                        [] OTHER -> err

\* mutant: the state is looked at without asking the kernel
BugCorrectError ==
    /\ pc = "correct"
    /\ Return(Result("correct", Corrected(PState(k, h), num)))
    /\ UNCHANGED <<k, h>>

CorrectError ==
    /\ pc = "correct"
    /\ k' = SyncK(k, h, "APPL")
    /\ h' = SyncH(k, h, "APPL")
    /\ Return(Result("correct", Corrected(PState(k', h'), num)))

\* snd_pcm_avail_update up to the pointers, ...
AvailUpdate ==
    /\ Idle \/ pc = "avail.sync"
    /\ k' = SyncK(k, h, "0")
    /\ h' = SyncH(k, h, "0")
    /\ Goto("avail.state", MmapAvail(k', h'))
    /\ ret' = NoRet

\* ... its look at the state, ...
AvailState ==
    /\ pc = "avail.state"
    /\ k' = SyncK(k, h, "APPL")
    /\ h' = SyncH(k, h, "APPL")
    /\ LET st == PState(k', h')
       IN  \/ /\ st = "RUNNING" /\ Unsigned(num) >= h.stop
              /\ Goto("avail.xrun", num) /\ ret' = NoRet
           \/ /\ st = "XRUN"
              /\ Return(Result("avail", -EPIPE))
           \/ /\ st # "XRUN" /\ ~(st = "RUNNING" /\ Unsigned(num) >= h.stop)
              /\ Return(Result("avail", num))

\* ... and the XRUN ioctl.
AvailXrun ==
    /\ pc = "avail.xrun"
    /\ IF k.state \in {"RUNNING", "XRUN"}
       THEN /\ k' = [k EXCEPT !.state = "XRUN"]
            /\ Return(Result("avail", -EPIPE))
       ELSE UNCHANGED k /\ Return(Result("avail", -EBADFD))
    /\ UNCHANGED h

\* _snd_pcm_hwsync: by HWSYNC, or by SYNC_PTR with that flag.
HwsyncErr(kk) ==
    CASE kk.state = "XRUN" -> -EPIPE
      [] kk.state = "SUSPENDED" -> -ESTRPIPE
      [] kk.state \in {"PREPARED", "PAUSED"} \/ Running(kk) -> 0
      [] OTHER -> -EBADFD

\* snd_pcm_avail, and, with DELAY in HWSYNC's place, snd_pcm_avail_delay: an
\* error is returned, otherwise snd_pcm_avail_update follows.
Avail ==
    /\ Idle
    /\ HwsyncErr(k) = 0
    /\ k' = SyncK(k, h, "HWSYNC")
    /\ h' = SyncH(k, h, "HWSYNC")
    /\ Goto("avail.sync", 0)
    /\ ret' = NoRet

AvailFails ==
    /\ Idle
    /\ HwsyncErr(k) < 0
    /\ Finish(Result("avail", HwsyncErr(k)))
    /\ UNCHANGED <<k, h>>

\* snd_pcm_mmap_begin asked for the whole buffer, or for one frame.
\* mutant: no clipping at the end of the ring
BugBeginGrant(kk, hh, ask) ==
    [fn |-> "mmap_begin", off |-> ApplPtr(kk, hh) % hh.buf,
     val |-> MinOf(ask, MinOf(Unsigned(MmapAvail(kk, hh)), hh.buf))]

BeginGrant(kk, hh, ask) ==
    LET avail == MinOf(Unsigned(MmapAvail(kk, hh)), hh.buf)
        off   == ApplPtr(kk, hh) % hh.buf
    IN  [fn |-> "mmap_begin", off |-> off,
         val |-> MinOf(MinOf(ask, avail), hh.buf - off)]

MmapBegin ==
    /\ Idle
    /\ h.setup
    /\ \E ask \in {1, h.buf} : Finish(BeginGrant(k, h, ask))
    /\ UNCHANGED <<k, h>>

\* snd_pcm_mmap_commit of frames the last call granted.
CommitPtr(p, n) == IF p + n >= PcmBoundary THEN p + n - PcmBoundary ELSE p + n

MmapCommit ==
    /\ Idle
    /\ ret.fn = "mmap_begin"
    /\ h.map > 0
    /\ \E n \in 0..MinOf(ret.val, FrameLimit - ApplPtr(k, h)) :
           LET p  == CommitPtr(ApplPtr(k, h), n)
               k1 == SetApplK(k, h, p)
               h1 == SetApplH(h, p)
           IN  k' = SyncK(k1, h1, "0") /\ h' = SyncH(k1, h1, "0")
    /\ Finish(NoRet)

-----------------------------------------------------------------------------
(* Waiting and recovering. *)

\* What poll() reports of the stream.
PollReady(kk) == \/ /\ kk.state \in {"PREPARED", "RUNNING", "PAUSED"}
                    /\ KAvail(kk) >= kk.amin
                 \/ kk.state = "DRAINING" /\ Stream = "CAPTURE"
PollError(kk) == kk.state \in {"OPEN", "SETUP", "XRUN", "SUSPENDED",
                               "DISCONNECTED"}

\* snd_pcm_wait; a negative timeout waits for ever.
Wait ==
    /\ Idle
    /\ \E timeout \in {-1, 1} : Goto("wait", timeout)
    /\ ret' = NoRet
    /\ UNCHANGED <<k, h>>

WaitReturns ==
    /\ pc = "wait"
    /\ \/ PollReady(k) /\ Return(Result("wait", 1))
       \/ PollError(k) /\ Goto("correct", -EIO) /\ UNCHANGED ret
    /\ UNCHANGED <<k, h>>

WaitTimesOut ==
    /\ pc = "wait"
    /\ num > 0
    /\ Return(Result("wait", 0))
    /\ UNCHANGED <<k, h>>

\* snd_pcm_recover(-ESTRPIPE) loops on RESUME; for -EPIPE it is
\* snd_pcm_prepare (the action Prepare), and other errors it hands back.
Recover ==
    /\ Idle
    /\ Goto("resume", 0)
    /\ ret' = NoRet
    /\ UNCHANGED <<k, h>>

\* The loop ends with RESUME done, or failed for good and PREPARE instead.
RecoverResumed ==
    /\ pc = "resume"
    /\ ResumeOk(k)
    /\ k' = ResumedK(k)
    /\ Return(NoRet)
    /\ UNCHANGED h

\* mutant: RESUME is retried whatever its error
BugRecoverPrepares == pc = "resume" /\ UNCHANGED vars

RecoverPrepares ==
    /\ pc = "resume"
    /\ ~(k.state = "SUSPENDED" /\ k.asleep)
    /\ k' = PrepareK(k, h)
    /\ h' = PrepareH(k, h)
    /\ Return(NoRet)

-----------------------------------------------------------------------------
(* The kernel and the hardware, between any two steps of a call. *)

Moving == /\ k.state \in {"RUNNING", "DRAINING"}
          /\ k.state = "DRAINING" => Stream = "PLAYBACK" /\ KAvail(k) < k.buf

\* The hardware moves one frame.
Advance ==
    /\ Moving
    /\ k.state = "RUNNING" => KAvail(k) < k.stop
    /\ k.hw < FrameLimit
    /\ k' = [k EXCEPT !.hw = Wrapped(k, k.hw + 1)]
    /\ UNCHANGED <<h, pc, num, ret>>

\* The interrupt handler stops the stream at the stop threshold.
KernelXrun ==
    /\ k.state = "RUNNING"
    /\ KAvail(k) >= k.stop
    /\ k' = [k EXCEPT !.state = "XRUN"]
    /\ UNCHANGED <<h, pc, num, ret>>

DrainDone ==
    /\ k.state = "DRAINING"
    /\ IF Stream = "PLAYBACK" THEN KAvail(k) >= k.buf ELSE KAvail(k) = 0
    /\ k' = [k EXCEPT !.state = "SETUP"]
    /\ UNCHANGED <<h, pc, num, ret>>

Suspend ==
    /\ k.state \in Active \ {"SUSPENDED"}
    /\ k' = [k EXCEPT !.state = "SUSPENDED", !.susp = k.state, !.asleep = TRUE]
    /\ UNCHANGED <<h, pc, num, ret>>

Wake ==
    /\ k.asleep
    /\ k' = [k EXCEPT !.asleep = FALSE]
    /\ UNCHANGED <<h, pc, num, ret>>

Disconnect ==
    /\ h.open
    /\ k.state # "DISCONNECTED"
    /\ k' = [k EXCEPT !.state = "DISCONNECTED", !.asleep = FALSE]
    /\ UNCHANGED <<h, pc, num, ret>>

-----------------------------------------------------------------------------
Library ==
    \/ Open \/ Close \/ HwFree
    \/ HwParamsFree \/ HwParamsIoctl \/ HwParamsRefused \/ HwParamsSw
    \/ HwParamsMmap \/ HwParamsMmapFails \/ HwParamsPrepare \/ SwParams
    \/ Prepare \/ Reset \/ Start \/ Drop \/ Drain \/ Pause \/ Resume
    \/ Rewind \/ Forward
    \/ Transfer \/ TransferFails \/ TransferInterrupted
    \/ CorrectError
    \/ AvailUpdate \/ AvailState \/ AvailXrun \/ Avail \/ AvailFails
    \/ MmapBegin \/ MmapCommit
    \/ Wait \/ WaitReturns \/ WaitTimesOut
    \/ Recover \/ RecoverResumed \/ RecoverPrepares

Kernel == Advance \/ KernelXrun \/ DrainDone \/ Suspend \/ Wake \/ Disconnect

Next == Library \/ Kernel

Spec == Init /\ [][Next]_vars

-----------------------------------------------------------------------------
(* Properties. *)

KType == [state : States, hw : Nat, appl : Nat, buf : Nat, bnd : Nat,
          stop : Nat, amin : Nat, maps : Nat, susp : States,
          asleep : BOOLEAN]

HType == [open : BOOLEAN, sync : BOOLEAN, setup : BOOLEAN, buf : Nat,
          acc : {"RW", "MMAP"}, stop : Nat, want : Nat, map : Nat,
          st : States, hw : Nat, appl : Nat, amin : Nat]

RetType == [fn : {"none", "avail", "mmap_begin", "correct", "wait"},
            val : Int, off : Nat]

\* Every field keeps its C type; in particular no pointer of the kernel or of
\* the handle goes below zero and no mapping is given back twice.
TypeOK ==
    /\ k \in KType
    /\ h \in HType
    /\ pc \in Steps
    /\ num \in Int
    /\ ret \in RetType

\* The mapping the handle holds is the one the kernel counts, it exists only
\* while the handle is set up, it has the size of the ring it is indexed with,
\* and none is left behind by snd_pcm_close.
MapCoherent ==
    /\ h.map = k.maps
    /\ h.map > 0 => h.setup /\ h.map = h.buf

\* Between calls, the handle of a configured stream computes with the ring
\* size, stop threshold and avail_min that the kernel uses.
ParamsCoherent ==
    pc = "idle" /\ h.setup /\ k.state \notin {"OPEN", "DISCONNECTED"}
        => h.buf = k.buf /\ h.stop = k.stop /\ h.want = k.amin

\* Between calls, the copy of the control page that the next SYNC_PTR writes
\* back to the kernel holds the kernel's appl_ptr and avail_min.
ControlCoherent ==
    pc = "idle" /\ h.open /\ h.sync /\ k.state # "DISCONNECTED"
        => h.appl = k.appl /\ h.amin = k.amin

\* The application never owns more of the ring than there is: it is at most one
\* buffer ahead of the hardware in playback and never ahead of it in capture.
RingSafe ==
    k.state \in Active =>
        IF Stream = "PLAYBACK" THEN k.appl <= k.hw + k.buf ELSE k.appl <= k.hw

\* What snd_pcm_mmap_begin granted, and what avail_update reported, is still
\* there when the application uses it, however far the hardware has moved: the
\* frames are the application's, they start at its position in the ring and do
\* not run past the end of the mapping.
GrantSafe ==
    k.state \in Active =>
        /\ ret.fn \in {"avail", "mmap_begin"} => ret.val <= KAvail(k)
        /\ ret.fn = "mmap_begin" =>
               /\ ret.val >= 0
               /\ ret.off = k.appl % k.buf
               /\ ret.off + ret.val <= k.buf

\* snd_pcm_avail_update puts a running stream into XRUN only when the kernel's
\* own count has reached the kernel's stop threshold.
XrunJustified ==
    [][AvailXrun /\ k'.state # k.state => KAvail(k) >= k.stop]_vars

\* avail_update counts frames between pointers that no PREPARE has reset since a
\* smaller ring was set up: the count may be any negative number.
StaleCount == pc = "avail.state" /\ k.state \in {"OPEN", "SETUP"} /\ ret'.val = num

\* The error codes applications recover by name the stream's state at the time
\* they are returned, unless the card has gone (SYNC_PTR then leaves the copy
\* of the state as it was) or the number is a count of a ring never prepared.
\* (mmap_begin returns no error; its value is the frames it grants.)
ErrorTrue ==
    [][ret' # ret /\ ret'.fn # "mmap_begin" /\ k'.state # "DISCONNECTED" =>
           /\ ret'.val = -EPIPE => k'.state = "XRUN" \/ StaleCount
           /\ ret'.val = -ESTRPIPE => k'.state = "SUSPENDED" \/ StaleCount
           /\ ret'.fn = "correct" =>
                  ret'.val = Corrected(k'.state, ret'.val)]_vars

-----------------------------------------------------------------------------
(* Liveness.  A thread inside a call keeps running, the hardware of a running *)
(* stream keeps moving or is stopped by its interrupt, and a suspended system *)
(* wakes up. *)

CallStep ==
    \/ HwParamsIoctl \/ HwParamsRefused \/ HwParamsSw \/ HwParamsMmap
    \/ HwParamsMmapFails \/ HwParamsPrepare
    \/ (pc = "avail.sync" /\ AvailUpdate) \/ AvailState \/ AvailXrun
    \/ CorrectError \/ WaitReturns \/ RecoverResumed \/ RecoverPrepares

Fairness == /\ WF_vars(CallStep)
            /\ WF_vars(Advance \/ KernelXrun \/ DrainDone)
            /\ WF_vars(Wake)

FairSpec == Spec /\ Fairness

\* snd_pcm_recover(-ESTRPIPE) does not sleep for ever, and neither does
\* snd_pcm_wait on a running stream whose avail_min the ring can satisfy, before
\* the pointers reach the bound of the model.
CallsReturn ==
    /\ pc = "resume" ~> pc = "idle"
    /\ (pc = "wait" /\ k.state = "RUNNING" /\ k.amin <= k.buf /\ k.appl + k.amin <= FrameLimit)
            ~> pc = "idle"
============================================================================
