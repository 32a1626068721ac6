------------------------------- MODULE Volume -------------------------------
(***************************************************************************)
(* A volume item of the simple mixer (src/mixer.c) and the dB functions on *)
(* it.  The item keeps every channel's volume twice: as the device has it  *)
(* (raw) and in the range the application has chosen (user).  It learns    *)
(* the device's dB table when that is first asked for and keeps it, or the *)
(* fact that there is none.  A table in a container is freed by a pointer  *)
(* that malloc has not returned; the model goes no further then.           *)
(*                                                                         *)
(* Another process may change the volume between the read and the write of *)
(* a set operation; the item follows when the event is handled.            *)
(***************************************************************************)
EXTENDS Tlv, FiniteSets

CONSTANTS
    Channels,    \* the item's channels, 0..head.channels - 1
    RawMin,      \* raw_min and raw_max: the control's range
    RawMax,
    Tables,      \* what the control may offer as TLV: [words, db]
    UserRanges,  \* ranges the application may set: [min, max]
    Gains,       \* gains the application may ask for, in 1/100 dB
    Stack        \* contents of a buffer that was never written to

Raws == RawMin .. RawMax
NONE == <<>>         \* item->db_info == NULL
INVALID == <<0, 0>>  \* INVALID_DB_INFO
FAULT == -1000       \* a call that reads through a null pointer

ASSUME VolumeConstants ==
    /\ RawMin \in Int /\ RawMax \in Int /\ RawMin <= RawMax
    /\ 0 \in Channels /\ Channels \subseteq Nat
    /\ \A r \in UserRanges : r \in [min : Int, max : Int] /\ r.min <= r.max
    /\ Gains \subseteq Int

VARIABLES
    control,  \* kernel: channel -> value
    tlv,      \* kernel: the control's TLV, a member of Tables
    changed,  \* kernel: a VALUE event is waiting to be read
    range,    \* item->min and max
    raw,      \* item->vol[RAW_IDX(channel)]
    usr,      \* item->vol[USR_IDX(channel)]
    db_info,  \* item->db_info
    unread,   \* the item has no db_info though there is a table
    stale,    \* channels whose last read or write failed
    pc,       \* the step reached in the set operation in progress
    job,      \* that operation: channels to do, and the value or gain asked for
    read,     \* the values its current step has read
    call      \* the call that has returned, until the application goes on

vars == <<control, tlv, changed, range, raw, usr, db_info, unread, stale, pc, job,
          read, call>>
kernel == <<control, tlv, changed>>
item == <<range, raw, usr, stale>>
info == <<db_info, unread>>

Xdirs == {-1, 1}
Plain == range = [min |-> RawMin, max |-> RawMax]

-----------------------------------------------------------------------------
(* The two ranges. *)

convert_from_user(r, val) ==
    IF r.min = RawMin /\ r.max = RawMax THEN val
    ELSE IF r.min = r.max THEN RawMin
    ELSE ((val - r.min) * (RawMax - RawMin)) \div (r.max - r.min) + RawMin

convert_to_user(r, val) ==
    IF r.min = RawMin /\ r.max = RawMax THEN val
    ELSE IF RawMin = RawMax THEN r.min
    ELSE ((val - RawMin) * (r.max - r.min)) \div (RawMax - RawMin) + r.min

-----------------------------------------------------------------------------
(* new_selem_vol_item *)

NoCall == [op |-> "none", channels |-> {}, arg |-> 0, xdir |-> 0, ret |-> 0,
           val |-> 0, max |-> 0]
NoJob == [op |-> "none", todo |-> {}, channels |-> {}, arg |-> 0, xdir |-> 0]

Init ==
    /\ control \in [Channels -> Raws]
    /\ tlv \in Tables
    /\ changed = FALSE
    /\ range = [min |-> RawMin, max |-> RawMax]
    /\ raw = control
    /\ usr = control
    /\ db_info = NONE
    /\ unread = FALSE
    /\ stale = {}
    /\ pc = "idle"
    /\ job = NoJob
    /\ read = [ch \in Channels |-> RawMin]
    /\ call = NoCall

Returns(op, channels, arg, xdir, ret, val, max) ==
    call' = [op |-> op, channels |-> channels, arg |-> arg, xdir |-> xdir,
             ret |-> ret, val |-> val, max |-> max]

Idle == pc = "idle" /\ call = NoCall

GoOn == call # NoCall /\ call' = NoCall
        /\ UNCHANGED <<kernel, item, info, pc, job, read>>

-----------------------------------------------------------------------------
(* The device, and other processes. *)

Varies(ch, v) ==
    /\ v # control[ch]
    /\ control' = [control EXCEPT ![ch] = v]
    /\ changed' = TRUE
    /\ UNCHANGED <<tlv, item, info, pc, job, read, call>>

\* mutant: only the first channel is looked at
BugUpdate ==
    /\ Idle
    /\ changed
    /\ changed' = FALSE
    /\ raw' = [raw EXCEPT ![0] = control[0]]
    /\ usr' = [usr EXCEPT ![0] = convert_to_user(range, control[0])]
    /\ stale' = {}
    /\ UNCHANGED <<control, tlv, range, info, pc, job, read, call>>

\* update_selem_item, in snd_mixer_handle_events, ...
Update ==
    /\ Idle
    /\ changed
    /\ changed' = FALSE
    /\ raw' = control
    /\ usr' = [ch \in Channels |-> convert_to_user(range, control[ch])]
    /\ stale' = {}
    /\ UNCHANGED <<control, tlv, range, info, pc, job, read, call>>

\* ... and where the value cannot be read: the event is used up all the same.
UpdateMissed ==
    /\ Idle
    /\ changed
    /\ changed' = FALSE
    /\ stale' = Channels
    /\ UNCHANGED <<control, tlv, range, raw, usr, info, pc, job, read, call>>

-----------------------------------------------------------------------------
(* set_volume_range, and setting a volume. *)

set_volume_range(r) ==
    /\ Idle
    /\ range' = r
    /\ usr' = [ch \in Channels |-> convert_to_user(r, raw[ch])]
    /\ UNCHANGED <<kernel, raw, stale, info, pc, job, read, call>>

\* _snd_mixer_selem_get_volume: a channel the item does not have is channel 0.
get_volume(ch) ==
    /\ Idle
    /\ Returns("get_volume", {}, ch, 0, 0, usr[IF ch \in Channels THEN ch ELSE 0], 0)
    /\ UNCHANGED <<kernel, item, info, pc, job, read>>

\* A set operation is a loop over channels.
Sets(op, channels, arg, xdir) ==
    /\ pc' = "update"
    /\ job' = [op |-> op, todo |-> channels, channels |-> channels, arg |-> arg,
               xdir |-> xdir]
    /\ UNCHANGED <<kernel, item, read, call>>

set_volume(channels, v) ==
    /\ Idle
    /\ Sets("set_volume", channels, v, 0)
    /\ UNCHANGED info

EndsWith(ret) ==
    /\ pc' = "idle"
    /\ job' = NoJob
    /\ Returns(job.op, job.channels, job.arg, job.xdir, ret, 0, 0)

\* The user values asked for: a volume, or what a gain converts to.
Asked == IF job.op = "set_volume" THEN {Got(job.arg)}
         ELSE {IF r.ret < 0 THEN r ELSE Got(convert_to_user(range, r.val)) :
               r \in snd_tlv_convert_from_dB(db_info, RawMin, RawMax, job.arg, job.xdir)}

NextChannel == CHOOSE ch \in job.todo : \A c \in job.todo : ch <= c

Stored(ch, v) ==
    /\ usr' = [usr EXCEPT ![ch] = v]
    /\ raw' = [raw EXCEPT ![ch] = convert_from_user(range, v)]
    /\ UNCHANGED <<range, stale>>

\* The early returns of _snd_selem_update_volume before anything is stored.
NothingToDo(ch, v) == v < range.min \/ v > range.max \/ v = usr[ch]

\* _snd_selem_update_volume for the next channel, up to its first ioctl, ...
UpdateVolume ==
    /\ pc = "update"
    /\ job.todo # {}
    /\ \E a \in Asked :
        IF a.ret < 0 THEN EndsWith(a.ret) /\ UNCHANGED item
        ELSE /\ UNCHANGED call
             /\ IF NothingToDo(NextChannel, a.val) THEN UNCHANGED item
                ELSE Stored(NextChannel, a.val)
             /\ IF \/ NothingToDo(NextChannel, a.val)
                   \/ convert_from_user(range, a.val) = raw[NextChannel]
                THEN pc' = pc /\ job' = [job EXCEPT !.todo = @ \ {NextChannel}]
                ELSE pc' = "read" /\ UNCHANGED job
    /\ UNCHANGED <<kernel, info, read>>

\* What was read is used once.
Forgotten == read' = [ch \in Channels |-> RawMin]

\* ... the read of all channels, ...
ReadValues ==
    /\ pc = "read"
    /\ read' = control
    /\ pc' = "write"
    /\ UNCHANGED <<kernel, item, info, job, call>>

\* ... and the write of all channels, one of them changed.
WriteValues ==
    LET written == [read EXCEPT ![NextChannel] = raw[NextChannel]]
    IN  /\ pc = "write"
        /\ control' = written
        /\ changed' = (changed \/ control # written)
        /\ stale' = stale \ {NextChannel}
        /\ job' = [job EXCEPT !.todo = @ \ {NextChannel}]
        /\ pc' = "update"
        /\ Forgotten
        /\ UNCHANGED <<tlv, range, raw, usr, info, call>>

\* Either ioctl fails: the loop ends, the item keeps the new value.
UpdateFails ==
    /\ pc \in {"read", "write"}
    /\ stale' = stale \cup {NextChannel}
    /\ EndsWith(EINVAL)
    /\ Forgotten
    /\ UNCHANGED <<kernel, range, raw, usr, info>>

UpdateEnds ==
    /\ pc = "update"
    /\ job.todo = {}
    /\ EndsWith(0)
    /\ UNCHANGED <<kernel, item, info, read>>

-----------------------------------------------------------------------------
(* dB. *)

\* The part of the TLV that holds dB information.
FoundDb(t, p) == SubSeq(t, p.at + 1, p.at + int_index(p.ret))

\* A table from which gains are converted to numbers, or refused.
Converts(t) ==
    \A g \in Gains, x \in Xdirs :
        \A r \in snd_tlv_convert_from_dB(t, RawMin, RawMax, g, x) :
            r.ret \in Int /\ (r.ret >= 0 => r.val \in Int)

\* Drivers offer such tables: their words are integers.
ASSUME DbTables ==
    \A t \in Tables :
        LET p == snd_tlv_parse_dB_info(t.words, 4096)
        IN  p.ret > 0 => Converts(FoundDb(t.words, p))

\* The part of the control's TLV that snd_tlv_parse_dB_info finds.
Parsed == snd_tlv_parse_dB_info(tlv.words, 4096)

\* init_db_info: the TLV is read into a buffer, parsed and copied.  Any error,
\* also one that would not occur again, marks the item for good.
init_db_info ==
    IF db_info # NONE THEN UNCHANGED info
    ELSE \/ /\ Parsed.ret > 0 /\ Parsed.at = 0
            /\ db_info' = FoundDb(tlv.words, Parsed) /\ UNCHANGED unread
         \/ db_info' = INVALID /\ unread' = (Parsed.ret > 0)

\* The parser has moved the pointer to the buffer to a table in a container, and
\* it is freed, also if the copy could not be allocated.  The process is aborted,
\* or goes on with a damaged heap: of that the model says nothing.
init_db_info_frees ==
    /\ Idle
    /\ db_info = NONE /\ Parsed.ret > 0 /\ Parsed.at > 0
    /\ pc' = "undefined"
    /\ UNCHANGED <<kernel, item, info, job, read, call>>

Known == db_info' # INVALID

Answers(op, arg, xdir, r) ==
    /\ Returns(op, {}, arg, xdir, r.ret, r.val, 0)
    /\ UNCHANGED <<kernel, item, pc, job, read>>

\* _snd_selem_vol_get_dB_range
get_dB_range ==
    /\ Idle
    /\ init_db_info
    /\ LET r == IF Known THEN snd_tlv_get_dB_range(db_info', RawMin, RawMax) ELSE NoBounds
       IN  Returns("get_dB_range", {}, 0, 0, r.ret, r.min, r.max)
    /\ UNCHANGED <<kernel, item, pc, job, read>>

\* _snd_selem_ask_vol_dB
ask_vol_dB(v) ==
    /\ Idle
    /\ init_db_info
    /\ Answers("ask_vol_dB", v, 0,
               IF Known THEN snd_tlv_convert_to_dB(db_info', RawMin, RawMax, v)
               ELSE Refused)

\* _snd_selem_vol_get_dB
get_dB(ch) ==
    /\ Idle
    /\ init_db_info
    /\ LET v == raw[IF ch \in Channels THEN ch ELSE 0]
       IN  Answers("get_dB", v, 0,
                   IF Known THEN snd_tlv_convert_to_dB(db_info', RawMin, RawMax, v)
                   ELSE Refused)

\* _snd_selem_ask_dB_vol
ask_dB_vol(g, xdir) ==
    /\ Idle
    /\ init_db_info
    /\ \E r \in IF Known
                THEN snd_tlv_convert_from_dB(db_info', RawMin, RawMax, g, xdir)
                ELSE {Refused} : Answers("ask_dB_vol", g, xdir, r)

\* _snd_selem_vol_set_dB, and _snd_selem_vol_set_dB_all for all channels
set_dB(channels, g, xdir) ==
    /\ Idle
    /\ init_db_info
    /\ IF Known THEN Sets("set_dB", channels, g, xdir)
       ELSE Answers("set_dB", g, xdir, Refused)

\* snd_ctl_get_dB_range, snd_ctl_convert_to_dB and snd_ctl_convert_from_dB:
\* get_tlv_info parses a buffer on the stack that nothing was read into.
FromStack(op, arg, xdir, answer(_)) ==
    /\ Idle
    /\ \E words \in Stack :
        LET p == snd_tlv_parse_dB_info(words, 16384)
        IN  IF p.ret < 0 THEN Answers(op, arg, xdir, [ret |-> p.ret, val |-> 0])
            ELSE IF p.ret = 0 THEN Answers(op, arg, xdir, [ret |-> FAULT, val |-> 0])
            ELSE \E r \in answer(From(words, p.at)) : Answers(op, arg, xdir, r)
    /\ UNCHANGED info

ctl_get_dB_range ==
    FromStack("ctl_get_dB_range", 0, 0,
              LAMBDA t : LET r == snd_tlv_get_dB_range(t, RawMin, RawMax)
                         IN  {[ret |-> r.ret, val |-> r.min]})

ctl_convert_to_dB(v) ==
    FromStack("ctl_to_dB", v, 0, LAMBDA t : {snd_tlv_convert_to_dB(t, RawMin, RawMax, v)})

ctl_convert_from_dB(g, xdir) ==
    FromStack("ctl_from_dB", g, xdir,
              LAMBDA t : snd_tlv_convert_from_dB(t, RawMin, RawMax, g, xdir))

-----------------------------------------------------------------------------
\* One channel, or all of them.
Some == {{ch} : ch \in Channels} \cup {Channels}

\* A channel the item has, or the first it does not have.
AnyChannel == Channels \cup {Cardinality(Channels)}

\* snd_mixer_selem_get_*_volume, snd_mixer_selem_set_*_volume*
VolumeCalls ==
    \/ \E r \in UserRanges : set_volume_range(r)
    \/ \E ch \in AnyChannel : get_volume(ch)
    \/ \E chs \in Some, v \in range.min - 1 .. range.max + 1 : set_volume(chs, v)

\* snd_mixer_selem_*_dB*: the functions of the item, for playback or capture
DbCalls ==
    \/ init_db_info_frees
    \/ get_dB_range
    \/ \E ch \in AnyChannel : get_dB(ch)
    \/ \E v \in Raws : ask_vol_dB(v)
    \/ \E g \in Gains, x \in Xdirs : \/ ask_dB_vol(g, x)
                                     \/ \E chs \in Some : set_dB(chs, g, x)

\* snd_ctl_*_dB*
ControlCalls ==
    \/ ctl_get_dB_range
    \/ \E v \in Raws : ctl_convert_to_dB(v)
    \/ \E g \in Gains, x \in Xdirs : ctl_convert_from_dB(g, x)

Next ==
    \/ GoOn
    \/ \E ch \in Channels, v \in Raws : Varies(ch, v)
    \/ Update \/ UpdateMissed
    \/ VolumeCalls \/ DbCalls \/ ControlCalls
    \/ UpdateVolume \/ ReadValues \/ WriteValues \/ UpdateFails \/ UpdateEnds

Spec == Init /\ [][Next]_vars

-----------------------------------------------------------------------------
(* Properties. *)

\* The volume the application is told stands for the device's: it would be set
\* to this value or a lower one, while the next higher, if the range has one,
\* would not be lower.
UserTrue ==
    \A ch \in Channels :
        /\ convert_from_user(range, usr[ch]) <= raw[ch]
        /\ usr[ch] < range.max => raw[ch] <= convert_from_user(range, usr[ch] + 1)

\* Once events have been handled the item has the device's value, channel by
\* channel, also if another process changed it between the read and the write of
\* a set operation, unless the last write of the channel failed, or the read for
\* the last event: such an event is lost.
DeviceTrue ==
    pc = "idle" /\ ~changed =>
        \A ch \in Channels \ stale : raw[ch] = control[ch]

\* The dB table the item keeps is the one the control offers; the item is marked as
\* having none only if there is none, or if reading it has failed once.
DbKnown ==
    /\ db_info \in {NONE, INVALID, tlv.db}
    /\ db_info = INVALID /\ ~unread => tlv.db = INVALID

\* Gains and bounds the driver's table gives, by its definition.
Gain(v) == snd_tlv_convert_to_dB(tlv.db, RawMin, RawMax, v)
HasGain == {v \in Raws : Gain(v).ret = 0}

\* The bounds reported for a control are the lowest and the highest gain that
\* any of its values is reported to have.
BoundsTight ==
    call.op = "get_dB_range" /\ call.ret = 0 =>
        /\ \A v \in HasGain : Gain(v).val \in call.val .. call.max
        /\ \E v \in HasGain : Gain(v).val = call.val
        /\ \E v \in HasGain : Gain(v).val = call.max

\* The least value that is not below gain g: what rounding up must give.
RoundedUp(g) ==
    LET enough == {v \in HasGain : Gain(v).val >= g}
    IN  IF enough = {} THEN RawMax ELSE CHOOSE v \in enough : \A w \in enough : v <= w

\* A value that is not above gain g, and not more than one short of the best.
RoundedDown(g, v) ==
    /\ v = RawMin \/ Gain(v).val <= g
    /\ \A w \in HasGain : Gain(w).val <= g => w <= v + 1

\* The conversion's comment: a gain is converted to the value that has it, and
\* rounded up if xdir > 0.
Rounds(g, xdir, v) == IF xdir > 0 THEN v = RoundedUp(g) ELSE RoundedDown(g, v)

Simple == tlv.db # INVALID /\ Word(tlv.db, 0) # TLVT_DB_RANGE

\* An item that is marked refuses every question about gains, and only such an item
\* does, if the control has one table: no failure is half remembered.
Questions == {"get_dB_range", "ask_vol_dB", "get_dB", "ask_dB_vol"}
DbGiven ==
    call.op \in Questions =>
        /\ db_info = INVALID => call.ret = EINVAL
        /\ Simple /\ ~unread => call.ret = 0

\* For tables that are no lists of ranges gains are rounded as asked, ...
AnswersRounded ==
    call.op = "ask_dB_vol" /\ call.ret = 0 /\ Simple => Rounds(call.arg, call.xdir, call.val)

\* ... and a gain that has been set, on one channel or on all, is the one asked
\* for, rounded as asked, if the application has not chosen a range of its own.
GainSet ==
    call.op = "set_dB" /\ call.ret = 0 /\ Simple /\ Plain =>
        \A ch \in call.channels : Rounds(call.arg, call.xdir, raw[ch])

\* The same for lists of ranges.
RangesRounded ==
    call.op = "ask_dB_vol" /\ call.ret = 0 => Rounds(call.arg, call.xdir, call.val)

-----------------------------------------------------------------------------
(* What the theorems about gains take the drivers' tables to be. *)

\* From Low on, gains grow by Span over the values of the control.
Steps == RawMax - RawMin
Low(t) == Word(t, 2)
Span(t) == IF Word(t, 0) = TLVT_DB_SCALE THEN Step(t) * Steps ELSE Word(t, 3) - Word(t, 2)

\* A table that is no list of ranges, whose gains are above the one that stands for
\* silence and grow by a hundredth of a dB or more from one value to the next.  A
\* control with a single value has no gains to round to.
Graded(t) ==
    /\ RawMin < RawMax
    /\ Word(t, 0) \in {TLVT_DB_SCALE, TLVT_DB_MINMAX, TLVT_DB_MINMAX_MUTE}
    /\ Word(t, 2) \in Int /\ Word(t, 3) \in Int
    /\ GAIN_MUTE <= Low(t) /\ Steps <= Span(t)

\* What a driver's table is taken to be: the one snd_tlv_parse_dB_info finds, graded
\* unless it is a list of ranges.
GradedTables ==
    \A t \in Tables :
        LET p == snd_tlv_parse_dB_info(t.words, 4096)
        IN  /\ p.ret > 0 /\ p.at = 0 => FoundDb(t.words, p) = t.db
            /\ p.ret > 0 <=> t.db # INVALID
            /\ t.db # NONE
            /\ t.db # INVALID /\ Word(t.db, 0) # TLVT_DB_RANGE => Graded(t.db)

\* No driver offers a list of ranges.
NoLists == \A t \in Tables : t.db # INVALID => Word(t.db, 0) # TLVT_DB_RANGE
=============================================================================
