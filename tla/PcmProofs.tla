----------------------------- MODULE PcmProofs -----------------------------
(***************************************************************************)
(* Proofs about Pcm in the regime of PcmNoWrap, for every stream           *)
(* direction, every set of configurations and thresholds, every width of a *)
(* long and every bound on the positions.                                  *)
(***************************************************************************)
EXTENDS PcmNoWrap, TLAPS

Configured(kk) == kk.state \notin {"OPEN", "DISCONNECTED"}

\* Where a call in progress stands: only an open handle has one, HW_PARAMS and
\* what follows run without a mapping, and the default sw_params are pending
\* with the period as avail_min.
StepInv ==
    /\ pc # "idle" => h.open
    /\ ~h.open => ~h.setup /\ k.state = "OPEN" /\ ret.fn = "none"
    /\ pc \in {"hw_params.sw", "hw_params.mmap", "hw_params.prepare"} => h.setup
    /\ pc \in {"hw_params.ioctl", "hw_params.sw", "hw_params.mmap"} => h.map = 0
    /\ pc = "hw_params.sw" => /\ num \in Nat \ {0}
                              /\ k.state \in {"SETUP", "DISCONNECTED"}
    /\ ret.fn = "mmap_begin" => h.setup

\* The kernel has a geometry whenever it is configured, it is the handle's,
\* and no pointer can reach the wrap point.
GeometryInv ==
    /\ h.setup => h.buf > 0
    /\ Configured(k) => /\ h.setup /\ h.buf = k.buf
                        /\ FrameLimit + k.buf < k.bnd
    /\ Configured(k) /\ pc # "hw_params.sw" =>
           h.stop = k.stop /\ h.want = k.amin
    /\ k.state = "SUSPENDED" => k.susp \in Active \ {"SUSPENDED"}

\* The handle's copies of the control page are exact, and its copy of the
\* hardware pointer is not ahead of the hardware, nor too far behind for the
\* application's position to fit the ring.
CopyInv ==
    /\ k.hw <= FrameLimit /\ k.appl <= FrameLimit
    /\ h.appl <= FrameLimit
    /\ h.open /\ h.sync /\ k.state # "DISCONNECTED" =>
           /\ h.appl = k.appl
           /\ pc # "hw_params.sw" => h.amin = k.amin
    /\ h.sync /\ k.state \in Active =>
           /\ h.hw <= k.hw
           /\ IF Stream = "PLAYBACK" THEN h.appl <= h.hw + h.buf
                                     ELSE h.appl <= h.hw

\* What avail_update has computed is still there.
AvailInv ==
    /\ pc \in {"avail.state", "avail.xrun"} /\ k.state \in Active =>
           num >= 0 /\ num <= KAvail(k)
    /\ pc = "avail.xrun" => Unsigned(num) >= h.stop

IInv == /\ TypeOK /\ MapCoherent /\ StepInv /\ GeometryInv /\ CopyInv
        /\ AvailInv /\ RingSafe /\ GrantSafe

-----------------------------------------------------------------------------


\* SYNC_PTR copies fields between the two records without changing their types.
LEMMA SyncTypes ==
    ASSUME NEW kk \in KType, NEW hh \in HType, NEW flag
    PROVE  SyncK(kk, hh, flag) \in KType /\ SyncH(kk, hh, flag) \in HType
BY DEF SyncK, SyncH, KType, HType

\* A store through mmap_control keeps the types, wherever it points.
LEMMA SetTypes ==
    ASSUME NEW kk \in KType, NEW hh \in HType, NEW v \in Nat
    PROVE  /\ SetAvailMinK(kk, hh, v) \in KType
           /\ SetAvailMinH(hh, v) \in HType
           /\ SetApplK(kk, hh, v) \in KType
           /\ SetApplH(hh, v) \in HType
BY DEF SetAvailMinK, SetAvailMinH, SetApplK, SetApplH, KType, HType

\* A closed handle and a released substream are well typed.
LEMMA ClosedTypes == KClosed \in KType /\ HClosed \in HType
BY DEF KClosed, HClosed, KType, HType, States

\* snd_pcm_mmap_avail computes a number from any two well-typed records.
LEMMA AvailInt ==
    ASSUME NEW kk \in KType, NEW hh \in HType
    PROVE  MmapAvail(kk, hh) \in Int
BY DEF MmapAvail, HwPtr, ApplPtr, PcmBoundary, KType, HType

\* snd_pcm_hw_free gives back no more than is mapped.
LEMMA FreeTypes ==
    IInv => /\ UnmapK(k, h) \in KType /\ UnmapH(h) \in HType
            /\ FreeK(k, h) \in KType /\ FreeH(k, h) \in HType
<1> SUFFICES ASSUME IInv
             PROVE  /\ UnmapK(k, h) \in KType /\ UnmapH(h) \in HType
                    /\ FreeK(k, h) \in KType /\ FreeH(k, h) \in HType
  OBVIOUS
<1>1. k \in KType /\ h \in HType
  BY DEF IInv, TypeOK
<1>2. UnmapK(k, h) \in KType /\ UnmapH(h) \in HType
  <2>1. h.map # 0 => k.maps - h.buf \in Nat
    BY <1>1 DEF IInv, MapCoherent, KType
  <2> QED BY <1>1, <2>1 DEF UnmapK, UnmapH, KType, HType
<1>3. [UnmapK(k, h) EXCEPT !.state = "OPEN"] \in KType
  BY <1>2 DEF KType, States
<1>4. [UnmapH(h) EXCEPT !.setup = FALSE] \in HType
  BY <1>2 DEF HType
<1> QED BY <1>1, <1>2, <1>3, <1>4 DEF FreeK, FreeH

-----------------------------------------------------------------------------
(* Opening, configuring, closing. *)

\* snd_pcm_open keeps the invariant.
LEMMA OpenIInv == IInv /\ Open => IInv'
<1> SUFFICES ASSUME IInv, Open PROVE IInv'
  OBVIOUS
<1> USE PcmConstants DEF IInv, TypeOK
<1>1. k' \in KType /\ h' \in HType
  <2>1. PICK sync \in BOOLEAN :
          LET h0 == [HClosed EXCEPT !.open = TRUE, !.sync = sync]
              k1 == SetAvailMinK(KClosed, h0, 1)
              h1 == SetAvailMinH(h0, 1)
          IN  k' = SyncK(k1, h1, "0") /\ h' = SyncH(k1, h1, "0")
    BY DEF Open
  <2>2. [HClosed EXCEPT !.open = TRUE, !.sync = sync] \in HType
    BY ClosedTypes DEF HType
  <2> QED BY <2>1, <2>2, ClosedTypes, SetTypes, SyncTypes
<1> USE DEF Open, HClosed, SetAvailMinK, KClosed, SetAvailMinH, SyncK,
   SyncH, Finish, SyncOk
<1>2. pc' \in Steps /\ num' \in Int /\ ret' \in RetType
  BY DEF NoRet, RetType
<1>3. MapCoherent' /\ StepInv'
  BY DEF MapCoherent, StepInv, NoRet
<1>4. GeometryInv' /\ CopyInv'
  BY DEF GeometryInv, CopyInv, Configured
<1>5. AvailInv' /\ RingSafe' /\ GrantSafe'
  BY DEF StepInv, AvailInv, RingSafe, GrantSafe, Active
<1> QED BY <1>1, <1>2, <1>3, <1>4, <1>5

\* snd_pcm_close keeps the invariant.
LEMMA CloseIInv == IInv /\ Close => IInv'
<1> SUFFICES ASSUME IInv, Close PROVE IInv'
  OBVIOUS
<1> USE PcmConstants DEF IInv, TypeOK
<1>1. k' \in KType /\ h' \in HType
  <2>1. CloseMaps = 0
    BY DEF CloseMaps, UnmapK, FreeK, FreeH, DropK, CanDrop, HwFreeOk,
       UnmapH, KType, MapCoherent
  <2> QED BY <2>1, ClosedTypes DEF Close, KType
<1> USE DEF Close, Idle, HClosed, KClosed, CloseMaps, Finish, FreeK, DropK,
   FreeH, UnmapK, HwFreeOk, CanDrop, UnmapH
<1>2. pc' \in Steps /\ num' \in Int /\ ret' \in RetType
  BY DEF NoRet, RetType
<1>3. MapCoherent' /\ StepInv'
  BY DEF KType, MapCoherent, StepInv, NoRet
<1>4. GeometryInv' /\ CopyInv'
  BY DEF GeometryInv, CopyInv, Configured
<1>5. AvailInv' /\ RingSafe' /\ GrantSafe'
  BY DEF AvailInv, RingSafe, GrantSafe, Active
<1> QED BY <1>1, <1>2, <1>3, <1>4, <1>5

\* snd_pcm_hw_free keeps the invariant.
LEMMA HwFreeIInv == IInv /\ HwFree => IInv'
<1> SUFFICES ASSUME IInv, HwFree PROVE IInv'
  OBVIOUS
<1> USE PcmConstants DEF IInv, TypeOK
<1>1. k' \in KType /\ h' \in HType
  BY FreeTypes DEF HwFree
<1> USE DEF HwFree, Idle, FreeK, FreeH, Finish, HwFreeOk, UnmapK, UnmapH
<1>2. pc' \in Steps /\ num' \in Int /\ ret' \in RetType
  BY DEF NoRet, RetType
<1>3. MapCoherent' /\ StepInv'
  BY DEF KType, MapCoherent, StepInv, NoRet
<1>4. GeometryInv' /\ CopyInv'
  BY DEF GeometryInv, CopyInv, Configured, Active
<1>5. AvailInv' /\ RingSafe' /\ GrantSafe'
  BY DEF AvailInv, RingSafe, GrantSafe, Active, NoRet
<1> QED BY <1>1, <1>2, <1>3, <1>4, <1>5

\* snd_pcm_hw_params, its HW_FREE, keeps the invariant.
LEMMA HwParamsFreeIInv == IInv /\ HwParamsFree => IInv'
<1> SUFFICES ASSUME IInv, HwParamsFree PROVE IInv'
  OBVIOUS
<1> USE PcmConstants DEF IInv, TypeOK
<1>1. k' \in KType /\ h' \in HType
  BY FreeTypes DEF HwParamsFree
<1> USE DEF HwParamsFree, Idle, FreeK, FreeH, Goto, HwFreeOk, UnmapK, UnmapH
<1>2. pc' \in Steps /\ num' \in Int /\ ret' \in RetType
  BY DEF NoRet, RetType, Steps
<1>3. MapCoherent' /\ StepInv'
  BY DEF KType, MapCoherent, StepInv, NoRet
<1>4. GeometryInv' /\ CopyInv'
  BY DEF GeometryInv, CopyInv, Configured, Active
<1>5. AvailInv' /\ RingSafe' /\ GrantSafe'
  BY DEF AvailInv, RingSafe, GrantSafe, Active, NoRet
<1> QED BY <1>1, <1>2, <1>3, <1>4, <1>5

\* snd_pcm_hw_params, HW_PARAMS accepted, keeps the invariant.
LEMMA HwParamsIoctlIInv == IInv /\ HwParamsIoctl => IInv'
<1> SUFFICES ASSUME IInv, HwParamsIoctl PROVE IInv'
  OBVIOUS
<1> USE PcmConstants DEF IInv, TypeOK
<1>1. k' \in KType /\ h' \in HType
  <2>1. PICK c \in Configs :
          /\ k' = [k EXCEPT !.state = "SETUP", !.buf = c.buf,
                            !.bnd = Boundary(c.buf),
                            !.stop = c.buf, !.amin = c.period]
          /\ h' = [h EXCEPT !.setup = TRUE, !.buf = c.buf, !.acc = c.acc]
    BY DEF HwParamsIoctl
  <2>2. c.buf \in Nat /\ c.period \in Nat /\ c.acc \in {"RW", "MMAP"}
    OBVIOUS
  <2>3. Boundary(c.buf) \in Nat
    BY NoWrap
  <2> QED BY <2>1, <2>2, <2>3 DEF KType, HType, States
<1> USE DEF HwParamsIoctl, HwParamsOk, Goto
<1>2. pc' \in Steps /\ num' \in Int /\ ret' \in RetType
  BY DEF Steps
<1>3. MapCoherent' /\ StepInv'
  BY DEF MapCoherent, StepInv
<1>4. GeometryInv' /\ CopyInv'
  BY NoWrap DEF GeometryInv, CopyInv, Active
<1>5. AvailInv' /\ RingSafe' /\ GrantSafe'
  BY DEF AvailInv, RingSafe, GrantSafe, Active
<1> QED BY <1>1, <1>2, <1>3, <1>4, <1>5

\* snd_pcm_hw_params, HW_PARAMS refused, keeps the invariant.
LEMMA HwParamsRefusedIInv == IInv /\ HwParamsRefused => IInv'
<1> SUFFICES ASSUME IInv, HwParamsRefused PROVE IInv'
  OBVIOUS
<1> USE PcmConstants DEF IInv, TypeOK
<1>1. k' \in KType /\ h' \in HType
  BY DEF HwParamsRefused, HwParamsOk, KType, States
<1> USE DEF HwParamsRefused, HwParamsOk, Return, Goto
<1>2. pc' \in Steps /\ num' \in Int /\ ret' \in RetType
  BY DEF NoRet, RetType, Steps
<1>3. MapCoherent' /\ StepInv'
  BY DEF KType, MapCoherent, StepInv, NoRet
<1>4. GeometryInv' /\ CopyInv'
  BY DEF KType, GeometryInv, CopyInv, Configured, Active
<1>5. AvailInv' /\ RingSafe' /\ GrantSafe'
  BY DEF KType, AvailInv, RingSafe, GrantSafe, Active, NoRet
<1> QED BY <1>1, <1>2, <1>3, <1>4, <1>5

\* snd_pcm_hw_params, its default sw_params, keeps the invariant.
LEMMA HwParamsSwIInv == IInv /\ HwParamsSw => IInv'
<1> SUFFICES ASSUME IInv, HwParamsSw PROVE IInv'
  OBVIOUS
<1> USE PcmConstants DEF IInv, TypeOK
<1>1. k' \in KType /\ h' \in HType
  <2>1. ASSUME NEW s \in Nat, NEW a \in Nat
        PROVE  SwParamsK(k, h, s, a) \in KType /\ SwParamsH(h, s, a) \in HType
    <3>1. /\ [k EXCEPT !.stop = s, !.amin = a] \in KType
          /\ [h EXCEPT !.stop = s, !.want = a] \in HType
      BY DEF KType, HType
    <3> QED BY <3>1, SetTypes DEF SwParamsK, SwParamsH
  <2>2. h.buf \in Nat /\ num \in Nat
    BY DEF HwParamsSw, HType, StepInv
  <2> QED BY <2>1, <2>2 DEF HwParamsSw
<1> USE DEF HwParamsSw, SwParamsOk, SwParamsK, SwParamsH, Goto,
   SetAvailMinK, SetAvailMinH
<1>2. pc' \in Steps /\ num' \in Int /\ ret' \in RetType
  BY DEF Steps
<1>3. MapCoherent' /\ StepInv'
  BY DEF KType, HType, MapCoherent, StepInv
<1>4. GeometryInv' /\ CopyInv'
  <2>1. CASE SwParamsOk(k, num)
    <3>1. k' = SwParamsK(k, h, h.buf, num) /\ h' = SwParamsH(h, h.buf, num)
      BY <2>1
    <3>2. /\ k'.stop = h.buf /\ k'.amin = num /\ k'.state = k.state
          /\ k'.buf = k.buf /\ k'.bnd = k.bnd /\ k'.susp = k.susp
          /\ k'.hw = k.hw /\ k'.appl = k.appl
      BY <3>1
    <3>3. /\ h'.stop = h.buf /\ h'.want = num /\ h'.setup = h.setup
          /\ h'.buf = h.buf /\ h'.sync = h.sync /\ h'.open = h.open
          /\ h'.appl = h.appl /\ h'.hw = h.hw
          /\ h'.sync => h'.amin = num
      BY <3>1
    <3>4. GeometryInv'
      BY <3>2, <3>3 DEF GeometryInv, Configured
    <3>5. CopyInv'
      BY <3>2, <3>3 DEF CopyInv
    <3> QED BY <3>4, <3>5
  <2>2. CASE ~SwParamsOk(k, num)
    <3>1. k.state = "DISCONNECTED" /\ UNCHANGED <<k, h>>
      BY <2>2 DEF StepInv
    <3>2. GeometryInv'
      BY <3>1 DEF GeometryInv, Configured
    <3>3. CopyInv'
      BY <3>1 DEF CopyInv
    <3> QED BY <3>2, <3>3
  <2> QED BY <2>1, <2>2
<1>5. AvailInv' /\ RingSafe' /\ GrantSafe'
  <2>1. CASE SwParamsOk(k, num)
    BY <2>1 DEF KType, AvailInv, RingSafe, GrantSafe, KAvail
  <2>2. CASE ~SwParamsOk(k, num)
    BY <2>2 DEF AvailInv, RingSafe, GrantSafe
  <2> QED BY <2>1, <2>2
<1> QED BY <1>1, <1>2, <1>3, <1>4, <1>5

\* snd_pcm_hw_params, its mapping, keeps the invariant.
LEMMA HwParamsMmapIInv == IInv /\ HwParamsMmap => IInv'
<1> SUFFICES ASSUME IInv, HwParamsMmap PROVE IInv'
  OBVIOUS
<1> USE PcmConstants DEF IInv, TypeOK
<1>1. k' \in KType /\ h' \in HType
  <2>1. UnmapK(k, h) = k
    BY DEF HwParamsMmap, UnmapK, StepInv
  <2>2. /\ [k EXCEPT !.maps = @ + h.buf] \in KType
        /\ [h EXCEPT !.map = h.buf] \in HType
    BY DEF KType, HType
  <2> QED BY <2>1, <2>2, SyncTypes DEF HwParamsMmap
<1> USE DEF HwParamsMmap, UnmapK, SyncK, SyncH, Goto, SyncOk
<1>2. pc' \in Steps /\ num' \in Int /\ ret' \in RetType
  BY DEF Steps
<1>3. MapCoherent' /\ StepInv'
  BY DEF HType, MapCoherent, StepInv
<1>4. GeometryInv' /\ CopyInv'
  BY DEF KType, HType, StepInv, GeometryInv, CopyInv, Configured
<1>5. AvailInv' /\ RingSafe' /\ GrantSafe'
  BY DEF StepInv, CopyInv, AvailInv, RingSafe, GrantSafe, KAvail
<1> QED BY <1>1, <1>2, <1>3, <1>4, <1>5

\* snd_pcm_hw_params, its failed mapping, keeps the invariant.
LEMMA HwParamsMmapFailsIInv == IInv /\ HwParamsMmapFails => IInv'
<1> SUFFICES ASSUME IInv, HwParamsMmapFails PROVE IInv'
  OBVIOUS
<1> USE PcmConstants DEF IInv, TypeOK
<1>1. k' \in KType /\ h' \in HType
  BY FreeTypes DEF HwParamsMmapFails
<1> USE DEF HwParamsMmapFails, UnmapK, UnmapH, Return, Goto
<1>2. pc' \in Steps /\ num' \in Int /\ ret' \in RetType
  BY DEF NoRet, RetType, Steps
<1>3. MapCoherent' /\ StepInv'
  BY DEF MapCoherent, StepInv
<1>4. GeometryInv' /\ CopyInv'
  BY DEF StepInv, GeometryInv, CopyInv
<1>5. AvailInv' /\ RingSafe' /\ GrantSafe'
  BY DEF AvailInv, RingSafe, GrantSafe, NoRet
<1> QED BY <1>1, <1>2, <1>3, <1>4, <1>5

\* snd_pcm_hw_params, its PREPARE, keeps the invariant.
LEMMA HwParamsPrepareIInv == IInv /\ HwParamsPrepare => IInv'
<1> SUFFICES ASSUME IInv, HwParamsPrepare PROVE IInv'
  OBVIOUS
<1> USE PcmConstants DEF IInv, TypeOK
<1>1. k' \in KType /\ h' \in HType
  BY DEF HwParamsPrepare, PrepareK, PrepareH, CanPrepare, SyncK, Prepared,
     SyncH, Running, SyncOk, KType, HType, States
<1> USE DEF HwParamsPrepare, PrepareK, PrepareH, Return, CanPrepare, SyncK,
   Prepared, SyncH, Goto, Running, SyncOk
<1>2. pc' \in Steps /\ num' \in Int /\ ret' \in RetType
  BY DEF NoRet, RetType, Steps
<1>3. MapCoherent' /\ StepInv'
  BY DEF MapCoherent, StepInv
<1>4. GeometryInv' /\ CopyInv'
  BY DEF KType, StepInv, GeometryInv, CopyInv, Configured
<1>5. AvailInv' /\ RingSafe' /\ GrantSafe'
  BY DEF KType, AvailInv, RingSafe, GrantSafe, NoRet
<1> QED BY <1>1, <1>2, <1>3, <1>4, <1>5

\* snd_pcm_sw_params keeps the invariant.
LEMMA SwParamsIInv == IInv /\ SwParams => IInv'
<1> SUFFICES ASSUME IInv, SwParams PROVE IInv'
  OBVIOUS
<1> USE PcmConstants DEF IInv, TypeOK
<1>1. k' \in KType /\ h' \in HType
  <2>1. ASSUME NEW s \in Nat, NEW a \in Nat
        PROVE  SwParamsK(k, h, s, a) \in KType /\ SwParamsH(h, s, a) \in HType
    <3>1. /\ [k EXCEPT !.stop = s, !.amin = a] \in KType
          /\ [h EXCEPT !.stop = s, !.want = a] \in HType
      BY DEF KType, HType
    <3> QED BY <3>1, SetTypes DEF SwParamsK, SwParamsH
  <2>2. \A c \in SwChoices : c.stop \in Nat /\ c.amin \in Nat
    OBVIOUS
  <2> QED BY <2>1, <2>2 DEF SwParams
<1> USE DEF SwParams, Idle, SwParamsOk, SwParamsK, SwParamsH, Finish,
   SetAvailMinK, SetAvailMinH
<1>2. pc' \in Steps /\ num' \in Int /\ ret' \in RetType
  BY DEF NoRet, RetType
<1>3. MapCoherent' /\ StepInv'
  BY DEF MapCoherent, StepInv
<1>4. GeometryInv' /\ CopyInv'
  BY DEF GeometryInv, CopyInv, Configured
<1>5. AvailInv' /\ RingSafe' /\ GrantSafe'
  BY DEF AvailInv, RingSafe, GrantSafe, NoRet
<1> QED BY <1>1, <1>2, <1>3, <1>4, <1>5

-----------------------------------------------------------------------------
(* Stream control. *)

\* snd_pcm_prepare keeps the invariant.
LEMMA PrepareIInv == IInv /\ Prepare => IInv'
<1> SUFFICES ASSUME IInv, Prepare PROVE IInv'
  OBVIOUS
<1> USE PcmConstants DEF IInv, TypeOK
<1>1. k' \in KType /\ h' \in HType
  BY DEF Prepare, Idle, PrepareK, PrepareH, CanPrepare, SyncK, Prepared,
     SyncH, Running, SyncOk, KType, HType, States
<1> USE DEF Prepare, Idle, PrepareK, PrepareH, Finish, CanPrepare, SyncK,
   Prepared, SyncH, Running, SyncOk
<1>2. pc' \in Steps /\ num' \in Int /\ ret' \in RetType
  BY DEF NoRet, RetType
<1>3. MapCoherent' /\ StepInv'
  BY DEF MapCoherent, StepInv, NoRet
<1>4. GeometryInv' /\ CopyInv'
  BY DEF KType, GeometryInv, CopyInv, Configured
<1>5. AvailInv' /\ RingSafe' /\ GrantSafe'
  BY DEF KType, AvailInv, RingSafe, GrantSafe, NoRet
<1> QED BY <1>1, <1>2, <1>3, <1>4, <1>5

\* snd_pcm_reset keeps the invariant.
LEMMA ResetIInv == IInv /\ Reset => IInv'
<1> SUFFICES ASSUME IInv, Reset PROVE IInv'
  OBVIOUS
<1> USE PcmConstants DEF IInv, TypeOK
<1>1. k' \in KType /\ h' \in HType
  <2>1. k.hw % k.buf \in Nat
    BY DEF Reset, KType, GeometryInv, Configured
  <2>2. \A p \in Nat : [k EXCEPT !.hw = p, !.appl = p] \in KType
    BY DEF KType
  <2> QED BY <2>1, <2>2, SyncTypes DEF Reset
<1> USE DEF Reset, Idle, SyncK, SyncH, Finish, SyncOk
<1>2. pc' \in Steps /\ num' \in Int /\ ret' \in RetType
  BY DEF NoRet, RetType
<1>3. MapCoherent' /\ StepInv'
  BY DEF MapCoherent, StepInv, NoRet
<1>4. GeometryInv' /\ CopyInv'
  BY DEF KType, GeometryInv, CopyInv, Configured
<1>5. AvailInv' /\ RingSafe' /\ GrantSafe'
  BY DEF KType, GeometryInv, AvailInv, RingSafe, GrantSafe, Configured,
     NoRet
<1> QED BY <1>1, <1>2, <1>3, <1>4, <1>5

\* snd_pcm_start keeps the invariant.
LEMMA StartIInv == IInv /\ Start => IInv'
<1> SUFFICES ASSUME IInv, Start PROVE IInv'
  OBVIOUS
<1> USE PcmConstants DEF IInv, TypeOK
<1>1. k' \in KType /\ h' \in HType
  BY DEF Start, Idle, SyncK, StartOk, SyncH, SyncOk, KType, HType, States
<1> USE DEF Start, Idle, SyncK, StartOk, SyncH, Finish, SyncOk
<1>2. pc' \in Steps /\ num' \in Int /\ ret' \in RetType
  BY DEF NoRet, RetType
<1>3. MapCoherent' /\ StepInv'
  BY DEF MapCoherent, StepInv, NoRet
<1>4. GeometryInv' /\ CopyInv'
  BY DEF KType, HType, GeometryInv, CopyInv, Configured, Active
<1>5. AvailInv' /\ RingSafe' /\ GrantSafe'
  BY DEF CopyInv, AvailInv, RingSafe, GrantSafe, Active, NoRet
<1> QED BY <1>1, <1>2, <1>3, <1>4, <1>5

\* snd_pcm_drop keeps the invariant.
LEMMA DropIInv == IInv /\ Drop => IInv'
<1> SUFFICES ASSUME IInv, Drop PROVE IInv'
  OBVIOUS
<1> USE PcmConstants DEF IInv, TypeOK
<1>1. k' \in KType /\ h' \in HType
  BY DEF Drop, Idle, CanDrop, DropK, KType, States
<1> USE DEF Drop, Idle, CanDrop, DropK, Finish
<1>2. pc' \in Steps /\ num' \in Int /\ ret' \in RetType
  BY DEF NoRet, RetType
<1>3. MapCoherent' /\ StepInv'
  BY DEF MapCoherent, StepInv, NoRet
<1>4. GeometryInv' /\ CopyInv'
  BY DEF GeometryInv, CopyInv, Configured, Active
<1>5. AvailInv' /\ RingSafe' /\ GrantSafe'
  BY DEF AvailInv, RingSafe, GrantSafe, Active
<1> QED BY <1>1, <1>2, <1>3, <1>4, <1>5

\* snd_pcm_drain keeps the invariant.
LEMMA DrainIInv == IInv /\ Drain => IInv'
<1> SUFFICES ASSUME IInv, Drain PROVE IInv'
  OBVIOUS
<1> USE PcmConstants DEF IInv, TypeOK
<1>1. k' \in KType /\ h' \in HType
  BY DEF Drain, Idle, KType, States
<1> USE DEF Drain, Idle, Finish
<1>2. pc' \in Steps /\ num' \in Int /\ ret' \in RetType
  BY DEF NoRet, RetType
<1>3. MapCoherent' /\ StepInv'
  BY DEF MapCoherent, StepInv, NoRet
<1>4. GeometryInv' /\ CopyInv'
  BY DEF GeometryInv, CopyInv, Configured, Active
<1>5. AvailInv' /\ RingSafe' /\ GrantSafe'
  BY DEF AvailInv, RingSafe, GrantSafe, Active, NoRet
<1> QED BY <1>1, <1>2, <1>3, <1>4, <1>5

\* snd_pcm_pause keeps the invariant.
LEMMA PauseIInv == IInv /\ Pause => IInv'
<1> SUFFICES ASSUME IInv, Pause PROVE IInv'
  OBVIOUS
<1> USE PcmConstants DEF IInv, TypeOK
<1>1. k' \in KType /\ h' \in HType
  BY DEF Pause, Idle, KType, States
<1> USE DEF Pause, Idle, Finish
<1>2. pc' \in Steps /\ num' \in Int /\ ret' \in RetType
  BY DEF NoRet, RetType
<1>3. MapCoherent' /\ StepInv'
  BY DEF KType, MapCoherent, StepInv, NoRet
<1>4. GeometryInv' /\ CopyInv'
  BY DEF KType, GeometryInv, CopyInv, Configured, Active
<1>5. AvailInv' /\ RingSafe' /\ GrantSafe'
  BY DEF KType, AvailInv, RingSafe, GrantSafe, Active, NoRet
<1> QED BY <1>1, <1>2, <1>3, <1>4, <1>5

\* snd_pcm_resume keeps the invariant.
LEMMA ResumeIInv == IInv /\ Resume => IInv'
<1> SUFFICES ASSUME IInv, Resume PROVE IInv'
  OBVIOUS
<1> USE PcmConstants DEF IInv, TypeOK
<1>1. k' \in KType /\ h' \in HType
  BY DEF Resume, Idle, ResumeOk, ResumedK, KType, States
<1> USE DEF Resume, Idle, ResumeOk, ResumedK, Finish
<1>2. pc' \in Steps /\ num' \in Int /\ ret' \in RetType
  BY DEF NoRet, RetType
<1>3. MapCoherent' /\ StepInv'
  BY DEF MapCoherent, StepInv, NoRet
<1>4. GeometryInv' /\ CopyInv'
  BY DEF GeometryInv, CopyInv, Configured, Active
<1>5. AvailInv' /\ RingSafe' /\ GrantSafe'
  BY DEF AvailInv, RingSafe, GrantSafe, Active, NoRet
<1> QED BY <1>1, <1>2, <1>3, <1>4, <1>5

\* snd_pcm_rewind keeps the invariant.
LEMMA RewindIInv == IInv /\ Rewind => IInv'
<1> SUFFICES ASSUME IInv, Rewind PROVE IInv'
  OBVIOUS
<1> USE PcmConstants DEF IInv, TypeOK
<1>1. k' \in KType /\ h' \in HType
  <2>1. \A n \in 1..MinOf(k.buf - KAvail(k), k.appl) :
          [k EXCEPT !.appl = k.appl - n] \in KType
    BY DEF KType, MinOf, KAvail
  <2> QED BY <2>1, SyncTypes DEF Rewind
<1> USE DEF Rewind, Idle, CanMove, MinOf, SyncK, SyncH, Finish, SyncOk
<1>2. pc' \in Steps /\ num' \in Int /\ ret' \in RetType
  BY DEF NoRet, RetType
<1>3. MapCoherent' /\ StepInv'
  BY DEF MapCoherent, StepInv, NoRet
<1>4. GeometryInv' /\ CopyInv'
  BY DEF KType, HType, GeometryInv, CopyInv, Configured
<1>5. AvailInv' /\ RingSafe' /\ GrantSafe'
  BY DEF KType, AvailInv, RingSafe, GrantSafe, NoRet
<1> QED BY <1>1, <1>2, <1>3, <1>4, <1>5

\* snd_pcm_forward keeps the invariant.
LEMMA ForwardIInv == IInv /\ Forward => IInv'
<1> SUFFICES ASSUME IInv, Forward PROVE IInv'
  OBVIOUS
<1> USE PcmConstants DEF IInv, TypeOK
<1>1. k' \in KType /\ h' \in HType
  <2>1. \A n \in Nat : [k EXCEPT !.appl = Wrapped(k, k.appl + n)] \in KType
    BY DEF KType, Wrapped
  <2> QED BY <2>1, SyncTypes DEF Forward
<1> USE DEF Forward, Idle, CanMove, MinOf, Wrapped, SyncK, SyncH, Finish,
   SyncOk
<1>2. pc' \in Steps /\ num' \in Int /\ ret' \in RetType
  BY DEF NoRet, RetType
<1>3. MapCoherent' /\ StepInv'
  BY DEF MapCoherent, StepInv, NoRet
<1>4. GeometryInv' /\ CopyInv'
  BY DEF KType, HType, GeometryInv, CopyInv, KAvail, Configured
<1>5. AvailInv' /\ RingSafe' /\ GrantSafe'
  BY DEF KType, AvailInv, RingSafe, GrantSafe, KAvail, NoRet
<1> QED BY <1>1, <1>2, <1>3, <1>4, <1>5

-----------------------------------------------------------------------------
(* Transfers. *)

\* A read or write keeps the invariant.
LEMMA TransferIInv == IInv /\ Transfer => IInv'
<1> SUFFICES ASSUME IInv, Transfer PROVE IInv'
  OBVIOUS
<1> USE PcmConstants DEF IInv, TypeOK
<1>1. k' \in KType /\ h' \in HType
  <2>1. Started(k) \in KType
    BY DEF Started, KType, States
  <2>2. \A n \in Nat : Wrapped(k, k.appl + n) \in Nat
    BY DEF KType, Wrapped
  <2>3. \A n \in Nat, ks \in KType :
          [ks EXCEPT !.appl = Wrapped(k, k.appl + n)] \in KType
    BY <2>2 DEF KType
  <2> QED BY <2>1, <2>3, SyncTypes DEF Transfer
<1> USE DEF Transfer, Idle, CanTransfer, MinOf, Started, Wrapped, SyncK,
   SyncH, Finish, SyncOk
<1>2. pc' \in Steps /\ num' \in Int /\ ret' \in RetType
  BY DEF NoRet, RetType
<1>3. MapCoherent' /\ StepInv'
  BY DEF KType, MapCoherent, StepInv, NoRet
<1>4. GeometryInv' /\ CopyInv'
  BY DEF KType, HType, GeometryInv, CopyInv, KAvail, Configured, Active
<1>5. AvailInv' /\ RingSafe' /\ GrantSafe'
  BY DEF KType, AvailInv, RingSafe, GrantSafe, KAvail, Active, NoRet
<1> QED BY <1>1, <1>2, <1>3, <1>4, <1>5

\* A refused read or write keeps the invariant.
LEMMA TransferFailsIInv == IInv /\ TransferFails => IInv'
<1> SUFFICES ASSUME IInv, TransferFails PROVE IInv'
  OBVIOUS
<1> USE PcmConstants DEF IInv, TypeOK
<1>1. k' \in KType /\ h' \in HType
  BY DEF TransferFails, Idle, CanTransfer, Started, KType, States
<1> USE DEF TransferFails, Idle, CanTransfer, Started, Finish
<1>2. pc' \in Steps /\ num' \in Int /\ ret' \in RetType
  BY DEF NoRet, RetType
<1>3. MapCoherent' /\ StepInv'
  BY DEF MapCoherent, StepInv, NoRet
<1>4. GeometryInv' /\ CopyInv'
  BY DEF GeometryInv, CopyInv, Configured, Active
<1>5. AvailInv' /\ RingSafe' /\ GrantSafe'
  BY DEF KType, GeometryInv, CopyInv, AvailInv, RingSafe, GrantSafe, KAvail,
     Configured, NoRet
<1> QED BY <1>1, <1>2, <1>3, <1>4, <1>5

\* An interrupted read or write keeps the invariant.
LEMMA TransferInterruptedIInv == IInv /\ TransferInterrupted => IInv'
<1> SUFFICES ASSUME IInv, TransferInterrupted PROVE IInv'
  OBVIOUS
<1> USE PcmConstants DEF IInv, TypeOK
<1>1. k' \in KType /\ h' \in HType
  BY DEF TransferInterrupted, Idle, CanTransfer, EINTR
<1> USE DEF TransferInterrupted, Idle, CanTransfer, Goto, EINTR
<1>2. pc' \in Steps /\ num' \in Int /\ ret' \in RetType
  BY DEF NoRet, RetType, Steps
<1>3. MapCoherent' /\ StepInv'
  BY DEF MapCoherent, StepInv, NoRet
<1>4. GeometryInv' /\ CopyInv'
  BY DEF GeometryInv, CopyInv
<1>5. AvailInv' /\ RingSafe' /\ GrantSafe'
  BY DEF AvailInv, RingSafe, GrantSafe, NoRet
<1> QED BY <1>1, <1>2, <1>3, <1>4, <1>5

\* correct_pcm_error keeps the invariant.
LEMMA CorrectErrorIInv == IInv /\ CorrectError => IInv'
<1> SUFFICES ASSUME IInv, CorrectError PROVE IInv'
  OBVIOUS
<1> USE PcmConstants DEF IInv, TypeOK
<1>1. k' \in KType /\ h' \in HType
  BY DEF CorrectError, SyncK, SyncH, Corrected, PState, SyncOk, EPIPE,
     ESTRPIPE, ENODEV, KType, HType
<1> USE DEF CorrectError, SyncK, SyncH, Return, Corrected, PState, SyncOk,
   Goto, EPIPE, ESTRPIPE, ENODEV
<1>2. pc' \in Steps /\ num' \in Int /\ ret' \in RetType
  BY DEF Result, RetType, Steps
<1>3. MapCoherent' /\ StepInv'
  BY DEF MapCoherent, StepInv, Result
<1>4. GeometryInv' /\ CopyInv'
  BY DEF KType, HType, StepInv, GeometryInv, CopyInv, Configured
<1>5. AvailInv' /\ RingSafe' /\ GrantSafe'
  BY DEF AvailInv, RingSafe, GrantSafe, Result
<1> QED BY <1>1, <1>2, <1>3, <1>4, <1>5

\* snd_pcm_avail_update, reading the pointers, keeps the invariant.
LEMMA AvailUpdateIInv == IInv /\ AvailUpdate => IInv'
<1> SUFFICES ASSUME IInv, AvailUpdate PROVE IInv'
  OBVIOUS
<1> USE PcmConstants DEF IInv, TypeOK
<1>1. k' \in KType /\ h' \in HType
  BY DEF AvailUpdate, Idle, SyncK, SyncH, SyncOk, KType, HType
<1> USE DEF AvailUpdate, Idle, SyncK, SyncH, Goto, SyncOk
<1>2. pc' \in Steps /\ num' \in Int /\ ret' \in RetType
  <2>1. MmapAvail(k', h') \in Int
    BY <1>1, AvailInt
  <2> QED BY <2>1 DEF NoRet, RetType, Steps
<1>3. MapCoherent' /\ StepInv'
  BY DEF MapCoherent, StepInv, NoRet
<1>4. GeometryInv' /\ CopyInv'
  BY DEF KType, HType, StepInv, GeometryInv, CopyInv, Configured
<1>5. AvailInv' /\ RingSafe' /\ GrantSafe'
  <2>1. RingSafe'
    BY DEF RingSafe, CopyInv, StepInv
  <2>2. CASE k.state \in Active
    <3>1. /\ k'.state = k.state /\ k'.buf = k.buf /\ k'.bnd = k.bnd
          /\ k'.hw = k.hw /\ k'.appl = k.appl /\ h'.buf = k'.buf
          /\ h'.sync => h'.hw = k'.hw /\ h'.appl = k'.appl
      BY <2>2 DEF CopyInv, StepInv, GeometryInv, Configured, Active
    <3>2. MmapAvail(k', h') = KAvail(k') /\ KAvail(k') >= 0
      BY <2>2, <3>1, <1>1 DEF KType, MmapAvail, HwPtr, ApplPtr, PcmBoundary,
         KAvail, CopyInv, GeometryInv, RingSafe, Configured, Active
    <3>3. num' = KAvail(k') /\ num' >= 0 /\ pc' = "avail.state"
      BY <3>2
    <3> QED BY <1>1, <1>2, <2>1, <3>3 DEF AvailInv, GrantSafe, NoRet
  <2>3. CASE k.state \notin Active
    <3>1. k'.state = k.state
      OBVIOUS
    <3> QED BY <2>1, <2>3, <3>1 DEF AvailInv, GrantSafe
  <2> QED BY <2>2, <2>3
<1> QED BY <1>1, <1>2, <1>3, <1>4, <1>5

\* snd_pcm_avail_update, reading the state, keeps the invariant.
LEMMA AvailStateIInv == IInv /\ AvailState => IInv'
<1> SUFFICES ASSUME IInv, AvailState PROVE IInv'
  OBVIOUS
<1> USE PcmConstants DEF IInv, TypeOK
<1>1. k' \in KType /\ h' \in HType
  BY DEF AvailState, SyncK, SyncH, PState, EPIPE, SyncOk, KType, HType
<1> USE DEF AvailState, SyncK, SyncH, PState, Goto, Return, EPIPE, SyncOk
<1>2. pc' \in Steps /\ num' \in Int /\ ret' \in RetType
  BY DEF NoRet, Result, RetType, Steps
<1>3. MapCoherent' /\ StepInv'
  BY DEF MapCoherent, StepInv, NoRet, Result
<1>4. GeometryInv' /\ CopyInv'
  BY DEF KType, HType, StepInv, GeometryInv, CopyInv, Configured
<1>5. AvailInv' /\ RingSafe' /\ GrantSafe'
  BY DEF KType, AvailInv, RingSafe, GrantSafe, KAvail, NoRet, Result
<1> QED BY <1>1, <1>2, <1>3, <1>4, <1>5

\* snd_pcm_avail_update, its XRUN ioctl, keeps the invariant.
LEMMA AvailXrunIInv == IInv /\ AvailXrun => IInv'
<1> SUFFICES ASSUME IInv, AvailXrun PROVE IInv'
  OBVIOUS
<1> USE PcmConstants DEF IInv, TypeOK
<1>1. k' \in KType /\ h' \in HType
  BY DEF AvailXrun, EPIPE, EBADFD, KType, States
<1> USE DEF AvailXrun, Return, EPIPE, EBADFD, Goto
<1>2. pc' \in Steps /\ num' \in Int /\ ret' \in RetType
  BY DEF Result, RetType, Steps
<1>3. MapCoherent' /\ StepInv'
  BY DEF KType, MapCoherent, StepInv, Result
<1>4. GeometryInv' /\ CopyInv'
  BY DEF KType, GeometryInv, CopyInv, Configured, Active
<1>5. AvailInv' /\ RingSafe' /\ GrantSafe'
  BY DEF KType, AvailInv, RingSafe, GrantSafe, KAvail, Active, Result
<1> QED BY <1>1, <1>2, <1>3, <1>4, <1>5

\* snd_pcm_avail keeps the invariant.
LEMMA AvailIInv == IInv /\ Avail => IInv'
<1> SUFFICES ASSUME IInv, Avail PROVE IInv'
  OBVIOUS
<1> USE PcmConstants DEF IInv, TypeOK
<1>1. k' \in KType /\ h' \in HType
  BY DEF Avail, Idle, HwsyncErr, SyncK, SyncH, EPIPE, ESTRPIPE, Running,
     EBADFD, SyncOk, KType, HType
<1> USE DEF Avail, Idle, HwsyncErr, SyncK, SyncH, Goto, EPIPE, ESTRPIPE,
   Running, EBADFD, SyncOk
<1>2. pc' \in Steps /\ num' \in Int /\ ret' \in RetType
  BY DEF NoRet, RetType, Steps
<1>3. MapCoherent' /\ StepInv'
  BY DEF MapCoherent, StepInv, NoRet
<1>4. GeometryInv' /\ CopyInv'
  BY DEF KType, HType, GeometryInv, CopyInv, Configured
<1>5. AvailInv' /\ RingSafe' /\ GrantSafe'
  BY DEF CopyInv, AvailInv, RingSafe, GrantSafe, NoRet
<1> QED BY <1>1, <1>2, <1>3, <1>4, <1>5

\* A failing snd_pcm_avail keeps the invariant.
LEMMA AvailFailsIInv == IInv /\ AvailFails => IInv'
<1> SUFFICES ASSUME IInv, AvailFails PROVE IInv'
  OBVIOUS
<1> USE PcmConstants DEF IInv, TypeOK
<1>1. k' \in KType /\ h' \in HType
  BY DEF AvailFails, Idle, HwsyncErr, EPIPE, ESTRPIPE, Running, EBADFD
<1> USE DEF AvailFails, Idle, HwsyncErr, Finish, EPIPE, ESTRPIPE, Running,
   EBADFD
<1>2. pc' \in Steps /\ num' \in Int /\ ret' \in RetType
  BY DEF Result, RetType
<1>3. MapCoherent' /\ StepInv'
  BY DEF MapCoherent, StepInv, Result
<1>4. GeometryInv' /\ CopyInv'
  BY DEF GeometryInv, CopyInv
<1>5. AvailInv' /\ RingSafe' /\ GrantSafe'
  BY DEF KType, AvailInv, RingSafe, GrantSafe, KAvail, Result
<1> QED BY <1>1, <1>2, <1>3, <1>4, <1>5

\* snd_pcm_mmap_begin keeps the invariant.
LEMMA MmapBeginIInv == IInv /\ MmapBegin => IInv'
<1> SUFFICES ASSUME IInv, MmapBegin PROVE IInv'
  OBVIOUS
<1> USE PcmConstants DEF IInv, TypeOK
<1>1. k' \in KType /\ h' \in HType
  BY DEF MmapBegin, Idle, BeginGrant, MinOf, ApplPtr
<1> USE DEF MmapBegin, Idle, Finish, BeginGrant, MinOf, ApplPtr
<1>2. pc' \in Steps /\ num' \in Int /\ ret' \in RetType
  <2>1. PICK ask \in {1, h.buf} : ret' = BeginGrant(k, h, ask)
    OBVIOUS
  <2> DEFINE off == ApplPtr(k, h) % h.buf
             avail == MinOf(Unsigned(MmapAvail(k, h)), h.buf)
  <2>2. off \in 0..(h.buf - 1)
    BY DEF KType, HType, GeometryInv
  <2>3. Unsigned(MmapAvail(k, h)) \in Int
    BY AvailInt DEF Unsigned
  <2>4. h.buf \in Nat
    BY DEF HType
  <2> QED BY <2>1, <2>2, <2>3, <2>4 DEF RetType
<1>3. MapCoherent' /\ StepInv'
  BY DEF MapCoherent, StepInv
<1>4. GeometryInv' /\ CopyInv'
  BY DEF GeometryInv, CopyInv
<1>5. AvailInv' /\ RingSafe' /\ GrantSafe'
  <2>1. AvailInv' /\ RingSafe'
    BY DEF AvailInv, RingSafe
  <2>2. ASSUME k.state \in Active PROVE GrantSafe'
    <3>1. PICK ask \in {1, h.buf} : ret' = BeginGrant(k, h, ask)
      OBVIOUS
    <3>2. h.open /\ h.buf = k.buf /\ h.buf \in Nat \ {0}
      BY <2>2 DEF HType, GeometryInv, Configured, Active
    <3>3. /\ ApplPtr(k, h) = k.appl /\ HwPtr(k, h) <= k.hw
          /\ IF Stream = "PLAYBACK" THEN k.appl <= HwPtr(k, h) + k.buf
                                    ELSE k.appl <= HwPtr(k, h)
      BY <2>2, <3>2 DEF HwPtr, KType, CopyInv, RingSafe, Active
    <3>4. k.appl % k.buf \in 0..(k.buf - 1)
      BY <3>2 DEF KType
    <3>5. MmapAvail(k, h) \in Nat /\ MmapAvail(k, h) <= KAvail(k)
      <4>1. HwPtr(k, h) \in Nat
        BY DEF HwPtr, KType, HType
      <4>2. k.hw <= FrameLimit /\ FrameLimit + k.buf < k.bnd
        BY <2>2 DEF CopyInv, GeometryInv, Configured, Active
      <4> HIDE DEF ApplPtr
      <4> QED BY <3>2, <3>3, <4>1, <4>2 DEF MmapAvail, KAvail, PcmBoundary,
         KType
    <3> DEFINE off == k.appl % k.buf
               a   == MmapAvail(k, h)
               v   == MinOf(MinOf(ask, MinOf(Unsigned(a), k.buf)), k.buf - off)
    <3>6. /\ ret'.fn = "mmap_begin" /\ ret'.off = off /\ ret'.val = v
      BY <3>1, <3>2, <3>3
    <3>7. v <= a /\ v >= 0 /\ v <= k.buf - off
      <4> HIDE DEF a, off
      <4>1. a \in Nat /\ off \in 0..(k.buf - 1)
        BY <3>4, <3>5 DEF a, off
      <4> QED BY <4>1, <3>2 DEF Unsigned, MinOf
    <3>8. off + v <= k.buf
      <4> HIDE DEF a, off
      <4>1. a \in Nat /\ off \in 0..(k.buf - 1)
        BY <3>4, <3>5 DEF a, off
      <4> QED BY <4>1, <3>2 DEF Unsigned, MinOf
    <3>9. v <= KAvail(k)
      <4> HIDE DEF a, off
      <4>1. a \in Nat /\ off \in 0..(k.buf - 1) /\ a <= KAvail(k)
        BY <3>4, <3>5 DEF a, off
      <4>2. KAvail(k) \in Int
        BY DEF KAvail, KType
      <4> QED BY <4>1, <4>2, <3>2 DEF Unsigned, MinOf
    <3> HIDE DEF v
    <3> QED BY <3>6, <3>7, <3>8, <3>9 DEF GrantSafe
  <2> QED BY <2>1, <2>2 DEF GrantSafe
<1> QED BY <1>1, <1>2, <1>3, <1>4, <1>5

\* snd_pcm_mmap_commit keeps the invariant.
LEMMA MmapCommitIInv == IInv /\ MmapCommit => IInv'
<1> SUFFICES ASSUME IInv, MmapCommit PROVE IInv'
  OBVIOUS
<1> USE PcmConstants DEF IInv, TypeOK
<1>1. k' \in KType /\ h' \in HType
  <2>1. \A n \in Nat : CommitPtr(ApplPtr(k, h), n) \in Nat
    BY DEF CommitPtr, ApplPtr, PcmBoundary, KType, HType
  <2>2. MinOf(ret.val, FrameLimit - ApplPtr(k, h)) \in Int
    BY DEF MinOf, ApplPtr, KType, HType, RetType
  <2>3. PICK n \in Nat :
          LET p  == CommitPtr(ApplPtr(k, h), n)
              k1 == SetApplK(k, h, p)
              h1 == SetApplH(h, p)
          IN  k' = SyncK(k1, h1, "0") /\ h' = SyncH(k1, h1, "0")
    BY <2>2 DEF MmapCommit
  <2> QED BY <2>1, <2>3, SetTypes, SyncTypes
<1> USE DEF MmapCommit, Idle, MinOf, ApplPtr, CommitPtr, SetApplK, SetApplH,
   SyncK, SyncH, Finish, PcmBoundary, SyncOk
<1>2. pc' \in Steps /\ num' \in Int /\ ret' \in RetType
  BY DEF NoRet, RetType
<1>3. MapCoherent' /\ StepInv'
  BY DEF MapCoherent, StepInv
<1>4. GeometryInv' /\ CopyInv'
  <2>1. PICK n \in 0..MinOf(ret.val, FrameLimit - ApplPtr(k, h)) :
          LET p  == CommitPtr(ApplPtr(k, h), n)
              k1 == SetApplK(k, h, p)
              h1 == SetApplH(h, p)
          IN  k' = SyncK(k1, h1, "0") /\ h' = SyncH(k1, h1, "0")
    OBVIOUS
  <2>2. GeometryInv'
    BY <2>1 DEF GeometryInv, CopyInv, Configured
  <2>3. n \in Nat /\ n <= ret.val /\ ApplPtr(k, h) + n <= FrameLimit
    BY DEF KType, HType, RetType
  <2> DEFINE p == CommitPtr(ApplPtr(k, h), n)
  <2>4. p = ApplPtr(k, h) + n /\ p \in Nat /\ p <= FrameLimit
    BY <2>3 DEF KType, HType
  <2>5. /\ k' = SyncK(SetApplK(k, h, p), SetApplH(h, p), "0")
        /\ h' = SyncH(SetApplK(k, h, p), SetApplH(h, p), "0")
    BY <2>1
  <2> HIDE DEF p
  <2>6. /\ k'.hw = k.hw /\ k'.state = k.state /\ k'.buf = k.buf
        /\ h'.sync = h.sync /\ h'.open = h.open /\ h'.buf = h.buf
    BY <2>5 DEF KType, HType
  <2>7. k'.appl <= FrameLimit /\ h'.appl <= FrameLimit
    BY <2>4, <2>5 DEF KType, HType, CopyInv
  <2>8. h.sync /\ k.state # "DISCONNECTED" =>
          /\ h'.appl = p /\ k'.appl = p /\ h'.hw = k'.hw
          /\ h'.amin = k'.amin
    BY <2>5 DEF KType, HType
  <2>9. k.state \in Active /\ h.sync =>
          IF Stream = "PLAYBACK" THEN p <= k.hw + k.buf ELSE p <= k.hw
    <3> SUFFICES ASSUME k.state \in Active, h.sync
                 PROVE  IF Stream = "PLAYBACK" THEN p <= k.hw + k.buf
                                               ELSE p <= k.hw
      OBVIOUS
    <3>1. ApplPtr(k, h) = k.appl /\ n <= KAvail(k)
      BY <2>3 DEF KType, RetType, KAvail, CopyInv, GrantSafe, Active
    <3>2. k.hw <= FrameLimit /\ FrameLimit + k.buf < k.bnd
      BY DEF CopyInv, GeometryInv, Configured, Active
    <3> HIDE DEF ApplPtr
    <3> QED BY <2>3, <2>4, <3>1, <3>2 DEF KAvail, KType, RingSafe
  <2>10. CopyInv'
    BY <1>1, <2>6, <2>7, <2>8, <2>9 DEF KType, CopyInv, GeometryInv,
       Configured, Active
  <2> QED BY <2>2, <2>10
<1>5. AvailInv' /\ RingSafe' /\ GrantSafe'
  BY DEF KType, CopyInv, AvailInv, RingSafe, GrantSafe, KAvail, RetType,
     NoRet
<1> QED BY <1>1, <1>2, <1>3, <1>4, <1>5

-----------------------------------------------------------------------------
(* Waiting and recovering. *)

\* snd_pcm_wait keeps the invariant.
LEMMA WaitIInv == IInv /\ Wait => IInv'
<1> SUFFICES ASSUME IInv, Wait PROVE IInv'
  OBVIOUS
<1> USE PcmConstants DEF IInv, TypeOK
<1>1. k' \in KType /\ h' \in HType
  BY DEF Wait, Idle
<1> USE DEF Wait, Idle, Goto
<1>2. pc' \in Steps /\ num' \in Int /\ ret' \in RetType
  BY DEF NoRet, RetType, Steps
<1>3. MapCoherent' /\ StepInv'
  BY DEF MapCoherent, StepInv, NoRet
<1>4. GeometryInv' /\ CopyInv'
  BY DEF GeometryInv, CopyInv
<1>5. AvailInv' /\ RingSafe' /\ GrantSafe'
  BY DEF AvailInv, RingSafe, GrantSafe, NoRet
<1> QED BY <1>1, <1>2, <1>3, <1>4, <1>5

\* snd_pcm_wait, poll returning, keeps the invariant.
LEMMA WaitReturnsIInv == IInv /\ WaitReturns => IInv'
<1> SUFFICES ASSUME IInv, WaitReturns PROVE IInv'
  OBVIOUS
<1> USE PcmConstants DEF IInv, TypeOK
<1>1. k' \in KType /\ h' \in HType
  BY DEF WaitReturns, PollReady, PollError, EIO
<1> USE DEF WaitReturns, PollReady, Return, PollError, Goto, EIO
<1>2. pc' \in Steps /\ num' \in Int /\ ret' \in RetType
  BY DEF Result, RetType, Steps
<1>3. MapCoherent' /\ StepInv'
  BY DEF MapCoherent, StepInv, Result
<1>4. GeometryInv' /\ CopyInv'
  BY DEF GeometryInv, CopyInv
<1>5. AvailInv' /\ RingSafe' /\ GrantSafe'
  BY DEF AvailInv, RingSafe, GrantSafe, Result
<1> QED BY <1>1, <1>2, <1>3, <1>4, <1>5

\* snd_pcm_wait, timing out, keeps the invariant.
LEMMA WaitTimesOutIInv == IInv /\ WaitTimesOut => IInv'
<1> SUFFICES ASSUME IInv, WaitTimesOut PROVE IInv'
  OBVIOUS
<1> USE PcmConstants DEF IInv, TypeOK
<1>1. k' \in KType /\ h' \in HType
  BY DEF WaitTimesOut
<1> USE DEF WaitTimesOut, Return, Goto
<1>2. pc' \in Steps /\ num' \in Int /\ ret' \in RetType
  BY DEF Result, RetType, Steps
<1>3. MapCoherent' /\ StepInv'
  BY DEF MapCoherent, StepInv, Result
<1>4. GeometryInv' /\ CopyInv'
  BY DEF GeometryInv, CopyInv
<1>5. AvailInv' /\ RingSafe' /\ GrantSafe'
  BY DEF AvailInv, RingSafe, GrantSafe, Result
<1> QED BY <1>1, <1>2, <1>3, <1>4, <1>5

\* snd_pcm_recover keeps the invariant.
LEMMA RecoverIInv == IInv /\ Recover => IInv'
<1> SUFFICES ASSUME IInv, Recover PROVE IInv'
  OBVIOUS
<1> USE PcmConstants DEF IInv, TypeOK
<1>1. k' \in KType /\ h' \in HType
  BY DEF Recover, Idle
<1> USE DEF Recover, Idle, Goto
<1>2. pc' \in Steps /\ num' \in Int /\ ret' \in RetType
  BY DEF NoRet, RetType, Steps
<1>3. MapCoherent' /\ StepInv'
  BY DEF MapCoherent, StepInv, NoRet
<1>4. GeometryInv' /\ CopyInv'
  BY DEF GeometryInv, CopyInv
<1>5. AvailInv' /\ RingSafe' /\ GrantSafe'
  BY DEF AvailInv, RingSafe, GrantSafe, NoRet
<1> QED BY <1>1, <1>2, <1>3, <1>4, <1>5

\* snd_pcm_recover, resumed, keeps the invariant.
LEMMA RecoverResumedIInv == IInv /\ RecoverResumed => IInv'
<1> SUFFICES ASSUME IInv, RecoverResumed PROVE IInv'
  OBVIOUS
<1> USE PcmConstants DEF IInv, TypeOK
<1>1. k' \in KType /\ h' \in HType
  BY DEF RecoverResumed, ResumeOk, ResumedK, KType, States
<1> USE DEF RecoverResumed, ResumeOk, ResumedK, Return, Goto
<1>2. pc' \in Steps /\ num' \in Int /\ ret' \in RetType
  BY DEF NoRet, RetType, Steps
<1>3. MapCoherent' /\ StepInv'
  BY DEF MapCoherent, StepInv, NoRet
<1>4. GeometryInv' /\ CopyInv'
  BY DEF GeometryInv, CopyInv, Configured, Active
<1>5. AvailInv' /\ RingSafe' /\ GrantSafe'
  BY DEF AvailInv, RingSafe, GrantSafe, Active, NoRet
<1> QED BY <1>1, <1>2, <1>3, <1>4, <1>5

\* snd_pcm_recover, preparing, keeps the invariant.
LEMMA RecoverPreparesIInv == IInv /\ RecoverPrepares => IInv'
<1> SUFFICES ASSUME IInv, RecoverPrepares PROVE IInv'
  OBVIOUS
<1> USE PcmConstants DEF IInv, TypeOK
<1>1. k' \in KType /\ h' \in HType
  BY DEF RecoverPrepares, PrepareK, PrepareH, CanPrepare, SyncK, Prepared,
     SyncH, Running, SyncOk, KType, HType, States, Active
<1> USE DEF RecoverPrepares, PrepareK, PrepareH, Return, CanPrepare, SyncK,
   Prepared, SyncH, Goto, Running, SyncOk
<1>2. pc' \in Steps /\ num' \in Int /\ ret' \in RetType
  BY DEF NoRet, RetType, Steps
<1>3. MapCoherent' /\ StepInv'
  BY DEF MapCoherent, StepInv, NoRet
<1>4. GeometryInv' /\ CopyInv'
  BY DEF KType, StepInv, GeometryInv, CopyInv, Configured
<1>5. AvailInv' /\ RingSafe' /\ GrantSafe'
  BY DEF KType, AvailInv, RingSafe, GrantSafe, NoRet
<1> QED BY <1>1, <1>2, <1>3, <1>4, <1>5

-----------------------------------------------------------------------------
(* The kernel and the hardware. *)

\* The moving hardware pointer keeps the invariant.
LEMMA AdvanceIInv == IInv /\ Advance => IInv'
<1> SUFFICES ASSUME IInv, Advance PROVE IInv'
  OBVIOUS
<1> USE PcmConstants DEF IInv, TypeOK
<1>1. k' \in KType /\ h' \in HType
  BY DEF Advance, Moving, Wrapped, KType
<1> USE DEF Advance, Moving, Wrapped
<1>2. pc' \in Steps /\ num' \in Int /\ ret' \in RetType
  OBVIOUS
<1>3. MapCoherent' /\ StepInv'
  BY DEF MapCoherent, StepInv
<1>4. GeometryInv' /\ CopyInv'
  BY DEF KType, HType, GeometryInv, CopyInv, Configured
<1>5. AvailInv' /\ RingSafe' /\ GrantSafe'
  BY DEF KType, GeometryInv, AvailInv, RingSafe, GrantSafe, KAvail,
     Configured, RetType
<1> QED BY <1>1, <1>2, <1>3, <1>4, <1>5

\* The kernel's own XRUN keeps the invariant.
LEMMA KernelXrunIInv == IInv /\ KernelXrun => IInv'
<1> SUFFICES ASSUME IInv, KernelXrun PROVE IInv'
  OBVIOUS
<1> USE PcmConstants DEF IInv, TypeOK
<1>1. k' \in KType /\ h' \in HType
  BY DEF KernelXrun, KType, States
<1> USE DEF KernelXrun
<1>2. pc' \in Steps /\ num' \in Int /\ ret' \in RetType
  OBVIOUS
<1>3. MapCoherent' /\ StepInv'
  BY DEF MapCoherent, StepInv
<1>4. GeometryInv' /\ CopyInv'
  BY DEF GeometryInv, CopyInv, Configured, Active
<1>5. AvailInv' /\ RingSafe' /\ GrantSafe'
  BY DEF AvailInv, RingSafe, GrantSafe, KAvail, Active
<1> QED BY <1>1, <1>2, <1>3, <1>4, <1>5

\* The end of a drain keeps the invariant.
LEMMA DrainDoneIInv == IInv /\ DrainDone => IInv'
<1> SUFFICES ASSUME IInv, DrainDone PROVE IInv'
  OBVIOUS
<1> USE PcmConstants DEF IInv, TypeOK
<1>1. k' \in KType /\ h' \in HType
  BY DEF DrainDone, KType, States
<1> USE DEF DrainDone
<1>2. pc' \in Steps /\ num' \in Int /\ ret' \in RetType
  OBVIOUS
<1>3. MapCoherent' /\ StepInv'
  BY DEF MapCoherent, StepInv
<1>4. GeometryInv' /\ CopyInv'
  BY DEF GeometryInv, CopyInv, Configured, Active
<1>5. AvailInv' /\ RingSafe' /\ GrantSafe'
  BY DEF AvailInv, RingSafe, GrantSafe, Active
<1> QED BY <1>1, <1>2, <1>3, <1>4, <1>5

\* Suspending the system keeps the invariant.
LEMMA SuspendIInv == IInv /\ Suspend => IInv'
<1> SUFFICES ASSUME IInv, Suspend PROVE IInv'
  OBVIOUS
<1> USE PcmConstants DEF IInv, TypeOK
<1>1. k' \in KType /\ h' \in HType
  BY DEF Suspend, KType, States
<1> USE DEF Suspend
<1>2. pc' \in Steps /\ num' \in Int /\ ret' \in RetType
  OBVIOUS
<1>3. MapCoherent' /\ StepInv'
  BY DEF MapCoherent, StepInv, Active
<1>4. GeometryInv' /\ CopyInv'
  BY DEF GeometryInv, CopyInv, Configured, Active
<1>5. AvailInv' /\ RingSafe' /\ GrantSafe'
  BY DEF AvailInv, RingSafe, GrantSafe, KAvail
<1> QED BY <1>1, <1>2, <1>3, <1>4, <1>5

\* Waking up keeps the invariant.
LEMMA WakeIInv == IInv /\ Wake => IInv'
<1> SUFFICES ASSUME IInv, Wake PROVE IInv'
  OBVIOUS
<1> USE PcmConstants DEF IInv, TypeOK
<1>1. k' \in KType /\ h' \in HType
  BY DEF Wake, KType
<1> USE DEF Wake
<1>2. pc' \in Steps /\ num' \in Int /\ ret' \in RetType
  OBVIOUS
<1>3. MapCoherent' /\ StepInv'
  BY DEF MapCoherent, StepInv
<1>4. GeometryInv' /\ CopyInv'
  BY DEF GeometryInv, CopyInv, Configured
<1>5. AvailInv' /\ RingSafe' /\ GrantSafe'
  BY DEF AvailInv, RingSafe, GrantSafe, KAvail
<1> QED BY <1>1, <1>2, <1>3, <1>4, <1>5

\* Removing the card keeps the invariant.
LEMMA DisconnectIInv == IInv /\ Disconnect => IInv'
<1> SUFFICES ASSUME IInv, Disconnect PROVE IInv'
  OBVIOUS
<1> USE PcmConstants DEF IInv, TypeOK
<1>1. k' \in KType /\ h' \in HType
  BY DEF Disconnect, KType, States
<1> USE DEF Disconnect
<1>2. pc' \in Steps /\ num' \in Int /\ ret' \in RetType
  OBVIOUS
<1>3. MapCoherent' /\ StepInv'
  BY DEF MapCoherent, StepInv
<1>4. GeometryInv' /\ CopyInv'
  BY DEF GeometryInv, CopyInv, Configured, Active
<1>5. AvailInv' /\ RingSafe' /\ GrantSafe'
  BY DEF AvailInv, RingSafe, GrantSafe, Active
<1> QED BY <1>1, <1>2, <1>3, <1>4, <1>5

-----------------------------------------------------------------------------
(* The theorems. *)

\* No handle is open and nothing is mapped at first.
LEMMA InitIInv == Init => IInv
BY PcmConstants DEF Init, IInv, TypeOK, KType, HType, RetType, MapCoherent,
   StepInv, GeometryInv, CopyInv, AvailInv, RingSafe, GrantSafe, KClosed,
   HClosed, NoRet, States, Steps, Configured

\* Every step of the library, the kernel and the hardware keeps the invariant.
LEMMA NextIInv == IInv /\ [Next]_vars => IInv'
<1> SUFFICES ASSUME IInv, [Next]_vars PROVE IInv'
  OBVIOUS
<1>1. CASE \/ Open \/ Close \/ HwFree \/ HwParamsFree
     \/ HwParamsIoctl \/ HwParamsRefused \/ HwParamsSw \/ HwParamsMmap
     \/ HwParamsMmapFails \/ HwParamsPrepare \/ SwParams
  BY <1>1, OpenIInv, CloseIInv, HwFreeIInv, HwParamsFreeIInv,
     HwParamsIoctlIInv, HwParamsRefusedIInv, HwParamsSwIInv,
     HwParamsMmapIInv, HwParamsMmapFailsIInv, HwParamsPrepareIInv,
     SwParamsIInv
<1>2. CASE \/ Prepare \/ Reset \/ Start \/ Drop
     \/ Drain \/ Pause \/ Resume \/ Rewind
     \/ Forward
  BY <1>2, PrepareIInv, ResetIInv, StartIInv, DropIInv, DrainIInv,
     PauseIInv, ResumeIInv, RewindIInv, ForwardIInv
<1>3. CASE \/ Transfer \/ TransferFails \/ TransferInterrupted \/ CorrectError
     \/ AvailUpdate \/ AvailState \/ AvailXrun \/ Avail
     \/ AvailFails \/ MmapBegin \/ MmapCommit
  BY <1>3, TransferIInv, TransferFailsIInv, TransferInterruptedIInv,
     CorrectErrorIInv, AvailUpdateIInv, AvailStateIInv, AvailXrunIInv,
     AvailIInv, AvailFailsIInv, MmapBeginIInv, MmapCommitIInv
<1>4. CASE \/ Wait \/ WaitReturns \/ WaitTimesOut \/ Recover
     \/ RecoverResumed \/ RecoverPrepares
  BY <1>4, WaitIInv, WaitReturnsIInv, WaitTimesOutIInv, RecoverIInv,
     RecoverResumedIInv, RecoverPreparesIInv
<1>5. CASE \/ Advance \/ KernelXrun \/ DrainDone \/ Suspend
     \/ Wake \/ Disconnect
  BY <1>5, AdvanceIInv, KernelXrunIInv, DrainDoneIInv, SuspendIInv,
     WakeIInv, DisconnectIInv
<1>6. CASE UNCHANGED vars
  BY <1>6 DEF vars, IInv, TypeOK, MapCoherent, StepInv, GeometryInv,
     CopyInv, AvailInv, RingSafe, GrantSafe
<1> QED BY <1>1, <1>2, <1>3, <1>4, <1>5, <1>6 DEF Next, Library, Kernel

\* The invariant holds in every reachable state.
THEOREM Invariance == Spec => []IInv
BY InitIInv, NextIInv, PTL DEF Spec

\* No call leaves a pointer below zero or gives back a mapping twice (_snd_pcm_munmap).
THEOREM TypeCorrect == Spec => []TypeOK
<1>1. IInv => TypeOK
  BY DEF IInv
<1> QED BY <1>1, Invariance, PTL

\* The ring mapping of a handle is the kernel's, has the size the handle computes
\* with, and does not outlive snd_pcm_hw_free or snd_pcm_close.
THEOREM MappingSafe == Spec => []MapCoherent
<1>1. IInv => MapCoherent
  BY DEF IInv
<1> QED BY <1>1, Invariance, PTL

\* Between calls the handle's ring size and thresholds are the kernel's, whatever
\* snd_pcm_hw_params and snd_pcm_sw_params met on the way.
THEOREM ParametersSafe == Spec => []ParamsCoherent
<1>1. IInv => ParamsCoherent
  BY DEF IInv, GeometryInv, Configured, ParamsCoherent
<1> QED BY <1>1, Invariance, PTL

\* Between calls the next SYNC_PTR writes back the kernel's own appl_ptr and
\* avail_min.
THEOREM ControlSafe == Spec => []ControlCoherent
<1>1. IInv => ControlCoherent
  BY DEF IInv, CopyInv, ControlCoherent
<1> QED BY <1>1, Invariance, PTL

\* snd_pcm_mmap_commit, transfers, rewind and forward never claim more of the ring
\* than there is.
THEOREM RingIsSafe == Spec => []RingSafe
<1>1. IInv => RingSafe
  BY DEF IInv
<1> QED BY <1>1, Invariance, PTL

\* The frames of snd_pcm_mmap_begin stay the application's until it commits them.
THEOREM GrantsAreSafe == Spec => []GrantSafe
<1>1. IInv => GrantSafe
  BY DEF IInv
<1> QED BY <1>1, Invariance, PTL

\* snd_pcm_avail_update stops a running stream only at the kernel's threshold.
THEOREM XrunIsJustified == Spec => XrunJustified
<1>1. IInv /\ AvailXrun /\ k'.state # k.state => KAvail(k) >= k.stop
  <2> SUFFICES ASSUME IInv, AvailXrun, k'.state # k.state
               PROVE  KAvail(k) >= k.stop
    OBVIOUS
  <2>1. k.state = "RUNNING" /\ pc = "avail.xrun"
    BY DEF AvailXrun, IInv, TypeOK, KType
  <2>2. num \in Int /\ num >= 0 /\ num <= KAvail(k) /\ Unsigned(num) >= h.stop
    BY <2>1 DEF IInv, TypeOK, AvailInv, Active
  <2>3. h.stop = k.stop /\ k.stop \in Nat /\ KAvail(k) \in Int
    BY <2>1 DEF IInv, TypeOK, KType, GeometryInv, Configured, KAvail
  <2> QED BY <2>2, <2>3 DEF Unsigned
<1>2. IInv /\ [Next]_vars
        => [AvailXrun /\ k'.state # k.state => KAvail(k) >= k.stop]_vars
  BY <1>1
<1> QED BY <1>2, Invariance, PTL DEF Spec, XrunJustified

-----------------------------------------------------------------------------
(* Error codes. *)

\* correct_pcm_error is asked about EINTR and EIO only.
CorrectInv == pc = "correct" => num \in {-EINTR, -EIO}

\* An error that goes to correct_pcm_error is one of these two, whatever the kernel does
\* before it is looked at.
LEMMA CorrectsTwo == CorrectInv /\ [Next]_vars => CorrectInv'
<1> SUFFICES ASSUME CorrectInv, [Next]_vars PROVE CorrectInv'
  OBVIOUS
<1> USE DEF CorrectInv, Finish, Return, Goto
<1>1. CASE Open \/ Close \/ HwFree \/ SwParams
  <2>1. pc' = pc /\ num' = num
    BY <1>1, Zenon DEF Open, Close, HwFree, SwParams
  <2> QED BY <2>1
<1>2. CASE \/ HwParamsFree \/ HwParamsIoctl \/ HwParamsRefused \/ HwParamsSw
           \/ HwParamsMmap \/ HwParamsMmapFails \/ HwParamsPrepare
  <2>1. pc' \in {"hw_params.ioctl", "hw_params.sw", "hw_params.mmap", "hw_params.prepare", "idle"}
    BY <1>2, Zenon DEF HwParamsFree, HwParamsIoctl, HwParamsRefused, HwParamsSw, HwParamsMmap,
       HwParamsMmapFails, HwParamsPrepare
  <2> QED BY <2>1
<1>3. CASE \/ Prepare \/ Reset \/ Start \/ Drop \/ Drain \/ Pause \/ Resume
           \/ Rewind \/ Forward \/ Transfer \/ TransferFails
  BY <1>3 DEF Prepare, Reset, Start, Drop, Drain, Pause, Resume, Rewind, Forward,
     Transfer, TransferFails
<1>4. CASE TransferInterrupted \/ Wait \/ WaitReturns \/ WaitTimesOut
  BY <1>4 DEF TransferInterrupted, Wait, WaitReturns, WaitTimesOut
<1>5. CASE \/ CorrectError \/ AvailUpdate \/ AvailState \/ AvailXrun \/ Avail \/ AvailFails
           \/ MmapBegin \/ MmapCommit
  BY <1>5 DEF CorrectError, AvailUpdate, AvailState, AvailXrun, Avail, AvailFails,
     MmapBegin, MmapCommit
<1>6. CASE Recover \/ RecoverResumed \/ RecoverPrepares
  BY <1>6 DEF Recover, RecoverResumed, RecoverPrepares
<1>7. CASE Kernel
  BY <1>7 DEF Kernel, Advance, KernelXrun, DrainDone, Suspend, Wake, Disconnect
<1>8. CASE UNCHANGED vars
  BY <1>8 DEF vars
<1> QED BY <1>1, <1>2, <1>3, <1>4, <1>5, <1>6, <1>7, <1>8 DEF Next, Library

\* What ErrorTrue says of a step.
ErrorStep ==
    ret' # ret /\ ret'.fn # "mmap_begin" /\ k'.state # "DISCONNECTED" =>
        /\ ret'.val = -EPIPE => k'.state = "XRUN" \/ StaleCount
        /\ ret'.val = -ESTRPIPE => k'.state = "SUSPENDED" \/ StaleCount
        /\ ret'.fn = "correct" => ret'.val = Corrected(k'.state, ret'.val)

\* SYNC_PTR leaves the kernel's state alone, and shows it unless the card has gone.
LEMMA SyncShows ==
    ASSUME NEW kk \in KType, NEW hh \in HType, NEW flag
    PROVE  /\ SyncK(kk, hh, flag).state = kk.state
           /\ kk.state # "DISCONNECTED" =>
                  PState(SyncK(kk, hh, flag), SyncH(kk, hh, flag)) = kk.state
BY DEF SyncK, SyncH, SyncOk, PState, KType, HType

\* correct_pcm_error names the state, and leaves other errors than its own alone.
LEMMA CorrectErrorStep == IInv /\ CorrectInv /\ CorrectError => ErrorStep
<1> SUFFICES ASSUME IInv, CorrectInv, CorrectError, k'.state # "DISCONNECTED"
             PROVE  ErrorStep
  BY DEF ErrorStep
<1>1. k \in KType /\ h \in HType
  BY DEF IInv, TypeOK
<1>2. k'.state = k.state /\ PState(k', h') = k.state
  BY <1>1, SyncShows DEF CorrectError
<1>3. ret'.fn = "correct" /\ ret'.val = Corrected(k.state, num)
  BY <1>2 DEF CorrectError, Return, Result
<1>4. num \in {-EINTR, -EIO}
  BY DEF CorrectError, CorrectInv
<1> QED BY <1>2, <1>3, <1>4
        DEF ErrorStep, Corrected, EINTR, EIO, ENODEV, EPIPE, ESTRPIPE

\* The numbers of snd_pcm_avail_update: an error when the stream has stopped, a count
\* that is not negative while the ring is in use.
LEMMA AvailStateStep == IInv /\ AvailState => ErrorStep
<1> SUFFICES ASSUME IInv, AvailState, k'.state # "DISCONNECTED"
             PROVE  ErrorStep
  BY DEF ErrorStep
<1>1. k \in KType /\ h \in HType /\ num \in Int
  BY DEF IInv, TypeOK
<1>2. k'.state = k.state /\ PState(k', h') = k.state /\ pc = "avail.state"
  BY <1>1, SyncShows DEF AvailState
<1>3. \/ ret' = NoRet
      \/ k.state = "XRUN" /\ ret' = Result("avail", -EPIPE)
      \/ k.state # "XRUN" /\ ret' = Result("avail", num)
  BY <1>2 DEF AvailState, Return
<1>4. k.state \in Active => num >= 0
  BY <1>2 DEF IInv, AvailInv
<1>5. k.state \in Active \/ k.state \in {"OPEN", "SETUP"}
  BY <1>1, <1>2 DEF KType, States, Active
<1> QED BY <1>1, <1>2, <1>3, <1>4, <1>5
        DEF ErrorStep, StaleCount, NoRet, Result, EPIPE, ESTRPIPE

\* The error of HWSYNC is that of the state, and the XRUN ioctl makes it so.
LEMMA AvailErrorStep == IInv /\ (AvailXrun \/ AvailFails) => ErrorStep
<1>1. IInv /\ AvailXrun => ErrorStep
  BY DEF IInv, TypeOK, KType, AvailXrun, Return, Result, ErrorStep, EPIPE, EBADFD, ESTRPIPE
<1>2. IInv /\ AvailFails => ErrorStep
  BY DEF AvailFails, HwsyncErr, Finish, Result, ErrorStep, EPIPE, EBADFD, ESTRPIPE
<1> QED BY <1>1, <1>2

\* Most calls return nothing that is looked at, and a wait 0 or 1.
LEMMA OtherErrorStep ==
    ASSUME ret' \in {ret, NoRet, Result("wait", 0), Result("wait", 1)} \/ ret'.fn = "mmap_begin"
    PROVE  ErrorStep
BY DEF ErrorStep, NoRet, Result, EPIPE, ESTRPIPE

\* The error codes that snd_pcm_avail_update, snd_pcm_avail and, through
\* correct_pcm_error, transfers and snd_pcm_wait return name the state that the stream
\* is in, although pointers, state and error are read one after another.
THEOREM ErrorsAreTrue == Spec => ErrorTrue
<1>1. IInv /\ CorrectInv /\ Next => ErrorStep
  <2> SUFFICES ASSUME IInv, CorrectInv, Next PROVE ErrorStep
    OBVIOUS
  <2> USE DEF Finish, Return, Goto
  <2>1. CASE Open \/ Close \/ HwFree \/ SwParams
    <3>1. ret' = NoRet
      BY <2>1, Zenon DEF Open, Close, HwFree, SwParams
    <3> QED BY <3>1, OtherErrorStep
  <2>2. CASE \/ HwParamsFree \/ HwParamsIoctl \/ HwParamsRefused \/ HwParamsSw
             \/ HwParamsMmap \/ HwParamsMmapFails \/ HwParamsPrepare
    <3>1. ret' = NoRet \/ ret' = ret
      BY <2>2, Zenon DEF HwParamsFree, HwParamsIoctl, HwParamsRefused, HwParamsSw,
         HwParamsMmap, HwParamsMmapFails, HwParamsPrepare
    <3> QED BY <3>1, OtherErrorStep
  <2>3. CASE \/ Prepare \/ Reset \/ Start \/ Drop \/ Drain \/ Pause \/ Resume
             \/ Rewind \/ Forward \/ Transfer \/ TransferFails
    BY <2>3, OtherErrorStep DEF Prepare, Reset, Start, Drop, Drain, Pause, Resume, Rewind,
       Forward, Transfer, TransferFails
  <2>4. CASE TransferInterrupted \/ Wait \/ WaitReturns \/ WaitTimesOut
    BY <2>4, OtherErrorStep DEF TransferInterrupted, Wait, WaitReturns, WaitTimesOut
  <2>5. CASE AvailUpdate \/ Avail \/ MmapCommit
    BY <2>5, OtherErrorStep DEF AvailUpdate, Avail, MmapCommit
  <2>6. CASE MmapBegin
    BY <2>6, OtherErrorStep DEF MmapBegin, BeginGrant
  <2>7. CASE CorrectError \/ AvailState \/ AvailXrun \/ AvailFails
    BY <2>7, CorrectErrorStep, AvailStateStep, AvailErrorStep
  <2>8. CASE Recover \/ RecoverResumed \/ RecoverPrepares
    BY <2>8, OtherErrorStep DEF Recover, RecoverResumed, RecoverPrepares
  <2>9. CASE Kernel
    BY <2>9, OtherErrorStep DEF Kernel, Advance, KernelXrun, DrainDone, Suspend, Wake, Disconnect
  <2> QED BY <2>1, <2>2, <2>3, <2>4, <2>5, <2>6, <2>7, <2>8, <2>9 DEF Next, Library
<1>2. IInv /\ CorrectInv /\ [Next]_vars
        => [ret' # ret /\ ret'.fn # "mmap_begin" /\ k'.state # "DISCONNECTED" =>
              /\ ret'.val = -EPIPE => k'.state = "XRUN" \/ StaleCount
              /\ ret'.val = -ESTRPIPE => k'.state = "SUSPENDED" \/ StaleCount
              /\ ret'.fn = "correct" => ret'.val = Corrected(k'.state, ret'.val)]_vars
  BY <1>1 DEF ErrorStep
<1>3. Init => CorrectInv
  BY DEF Init, CorrectInv
<1> QED BY <1>2, <1>3, CorrectsTwo, Invariance, PTL DEF Spec, ErrorTrue
============================================================================
