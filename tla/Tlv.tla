-------------------------------- MODULE Tlv --------------------------------
(***************************************************************************)
(* The dB information of a control (snd_tlv_* in src/control.c).  A driver *)
(* describes the gain of a control's raw values by a table of words: a     *)
(* type, a size in bytes and the data.  A table may be a scale, a pair of  *)
(* bounds, a list of ranges with such a table each, or a container.        *)
(*                                                                         *)
(* Conversions on logarithms (TLVT_DB_LINEAR) need floating point, which   *)
(* is not configured by default; without it they are refused.              *)
(***************************************************************************)
EXTENDS Integers, Sequences

EINVAL == -22

TLVT_CONTAINER == 0
TLVT_DB_SCALE == 1
TLVT_DB_LINEAR == 2
TLVT_DB_RANGE == 3
TLVT_DB_MINMAX == 4
TLVT_DB_MINMAX_MUTE == 5

GAIN_MUTE == -9999999
MAX_TLV_RANGE_SIZE == 256

\* tlv[k] of the code, and tlv + k
Word(t, k) == t[k + 1]
From(t, k) == SubSeq(t, k + 1, Len(t))

int_index(size) == (size + 3) \div 4

\* The upper half of a scale's second word says that its lowest value mutes.
Step(t) == Word(t, 3) % 65536
Mute(t) == (Word(t, 3) \div 65536) % 2 = 1

Got(v) == [ret |-> 0, val |-> v]
Refused == [ret |-> EINVAL, val |-> 0]

-----------------------------------------------------------------------------
(* snd_tlv_parse_dB_info: the first table with dB information, as the place *)
(* it was found at and its size; none is 0 outside containers, an error in  *)
(* them, which also ends the search in the containers around.               *)

Nowhere(err) == [ret |-> err, at |-> -1]

snd_tlv_parse_dB_info(t, tlv_size) ==
    LET parse[what \in {"table", "list"}, pos \in Nat, left \in Int] ==
            LET size == Word(t, pos + 1)
                words == int_index(size) + 2
                first == parse["table", pos, left]
            IN  IF what = "list"
                THEN IF left <= 0 THEN Nowhere(EINVAL)
                     ELSE IF first.ret # 0 THEN first
                     ELSE parse["list", pos + words, left - 4 * words]
                ELSE IF size > left - 8 THEN Nowhere(EINVAL)
                ELSE IF Word(t, pos) = TLVT_CONTAINER
                THEN parse["list", pos + 2, 4 * int_index(size)]
                ELSE IF Word(t, pos) \in {TLVT_DB_SCALE, TLVT_DB_MINMAX,
                                          TLVT_DB_MINMAX_MUTE, TLVT_DB_RANGE}
                THEN [ret |-> size + 8, at |-> pos]
                ELSE Nowhere(0)
    IN  parse["table", 0, tlv_size]

-----------------------------------------------------------------------------
(* The gain of a raw value. *)

tlv_to_dB_scale(t, rangemin, volume) ==
    IF Mute(t) /\ volume = rangemin THEN GAIN_MUTE
    ELSE (volume - rangemin) * Step(t) + Word(t, 2)

tlv_to_dB_minmax(t, rangemin, rangemax, volume) ==
    IF volume <= rangemin \/ rangemax <= rangemin
    THEN IF Word(t, 0) = TLVT_DB_MINMAX_MUTE THEN GAIN_MUTE ELSE Word(t, 2)
    ELSE IF volume >= rangemax THEN Word(t, 3)
    ELSE ((Word(t, 3) - Word(t, 2)) * (volume - rangemin))
             \div (rangemax - rangemin) + Word(t, 2)

\* A table that is no list of ranges.
SimpleToDb(t, rangemin, rangemax, volume) ==
    CASE Word(t, 0) = TLVT_DB_SCALE -> Got(tlv_to_dB_scale(t, rangemin, volume))
      [] Word(t, 0) \in {TLVT_DB_MINMAX, TLVT_DB_MINMAX_MUTE} ->
             Got(tlv_to_dB_minmax(t, rangemin, rangemax, volume))
      [] OTHER -> Refused

\* The range that holds the value; a value between two ranges has no gain.
tlv_to_dB_range(t, rangemin, rangemax, volume) ==
    LET len == int_index(Word(t, 1))
        walk[pos \in Nat] ==
            IF pos + 4 > len THEN Refused
            ELSE IF volume \in Word(t, pos) .. Word(t, pos + 1)
            THEN SimpleToDb(From(t, pos + 2), Word(t, pos), Word(t, pos + 1), volume)
            ELSE walk[pos + 4 + int_index(Word(t, pos + 3))]
    IN  IF len > MAX_TLV_RANGE_SIZE THEN Refused ELSE walk[2]

snd_tlv_convert_to_dB(t, rangemin, rangemax, volume) ==
    IF Word(t, 0) = TLVT_DB_RANGE
    THEN tlv_to_dB_range(t, rangemin, rangemax, volume)
    ELSE SimpleToDb(t, rangemin, rangemax, volume)

-----------------------------------------------------------------------------
(* The lowest and the highest gain. *)

Bounds(lo, hi) == [ret |-> 0, min |-> lo, max |-> hi]
NoBounds == [ret |-> EINVAL, min |-> 0, max |-> 0]

SimpleRange(t, rangemin, rangemax) ==
    CASE Word(t, 0) = TLVT_DB_SCALE ->
             Bounds(IF Mute(t) THEN GAIN_MUTE ELSE Word(t, 2),
                    Word(t, 2) + Step(t) * (rangemax - rangemin))
      [] Word(t, 0) \in {TLVT_DB_MINMAX, TLVT_DB_LINEAR} -> Bounds(Word(t, 2), Word(t, 3))
      [] Word(t, 0) = TLVT_DB_MINMAX_MUTE -> Bounds(GAIN_MUTE, Word(t, 3))
      [] OTHER -> NoBounds

AtLeast(a, b) == IF a < b THEN b ELSE a
AtMost(a, b) == IF a < b THEN a ELSE b

\* The ranges up to the one that reaches the control's highest value.
tlv_range_dB_range(t, rangemin, rangemax) ==
    LET len == int_index(Word(t, 1))
        walk[pos \in Nat] ==
            LET submax == AtMost(rangemax, Word(t, pos + 1))
                sub == SimpleRange(From(t, pos + 2), Word(t, pos), submax)
                next == pos + 4 + int_index(Word(t, pos + 3))
                rest == walk[next]
            IN  IF sub.ret < 0 \/ submax = rangemax \/ next + 4 > len THEN sub
                ELSE IF rest.ret < 0 THEN rest
                ELSE Bounds(AtMost(sub.min, rest.min), AtLeast(sub.max, rest.max))
    IN  IF len > MAX_TLV_RANGE_SIZE THEN NoBounds ELSE walk[2]

snd_tlv_get_dB_range(t, rangemin, rangemax) ==
    IF Word(t, 0) = TLVT_DB_RANGE THEN tlv_range_dB_range(t, rangemin, rangemax)
    ELSE SimpleRange(t, rangemin, rangemax)

-----------------------------------------------------------------------------
(* The raw value for a gain, rounded up if xdir > 0. *)

\* mutant: rounding up adds one too much
Bug_tlv_from_dB_minmax(rangemin, rangemax, db_gain, xdir, min, max, have_mute) ==
    IF db_gain <= min
    THEN IF db_gain > GAIN_MUTE /\ xdir > 0 /\ have_mute THEN rangemin + 1 ELSE rangemin
    ELSE IF db_gain >= max THEN rangemax
    ELSE ((db_gain - min) * (rangemax - rangemin)
          + IF xdir > 0 THEN max - min ELSE 0) \div (max - min) + rangemin

_tlv_from_dB_minmax(rangemin, rangemax, db_gain, xdir, min, max, have_mute) ==
    IF db_gain <= min
    THEN IF db_gain > GAIN_MUTE /\ xdir > 0 /\ have_mute THEN rangemin + 1 ELSE rangemin
    ELSE IF db_gain >= max THEN rangemax
    ELSE ((db_gain - min) * (rangemax - rangemin)
          + IF xdir > 0 THEN max - min - 1 ELSE 0) \div (max - min) + rangemin

tlv_from_dB_scale(t, rangemin, rangemax, db_gain, xdir) ==
    _tlv_from_dB_minmax(rangemin, rangemax, db_gain, xdir, Word(t, 2),
                        Word(t, 2) + Step(t) * (rangemax - rangemin), Mute(t))

tlv_from_dB_minmax(t, rangemin, rangemax, db_gain, xdir) ==
    _tlv_from_dB_minmax(rangemin, rangemax, db_gain, xdir, Word(t, 2), Word(t, 3),
                        Word(t, 0) = TLVT_DB_MINMAX_MUTE)

SimpleFromDb(t, rangemin, rangemax, db_gain, xdir) ==
    CASE Word(t, 0) = TLVT_DB_SCALE ->
             Got(tlv_from_dB_scale(t, rangemin, rangemax, db_gain, xdir))
      [] Word(t, 0) \in {TLVT_DB_MINMAX, TLVT_DB_MINMAX_MUTE} ->
             Got(tlv_from_dB_minmax(t, rangemin, rangemax, db_gain, xdir))
      [] OTHER -> Refused

\* The results tlv_from_dB_range may give.  pos has passed the bounds of the
\* range already when pos + 2 is taken for its table and pos + 3 for its size:
\* both are two words too far.  If no table is there, dbmin is whatever is on
\* the stack, and the comparison with it may come out either way.
tlv_from_dB_range(t, rangemin, rangemax, db_gain, xdir) ==
    LET len == int_index(Word(t, 1))
        walk[pos \in Nat, prev_submax \in Int] ==
            LET submin == Word(t, pos)
                submax == AtMost(rangemax, Word(t, pos + 1))
                sub == From(t, pos + 4)
                db == IF sub = <<>> THEN NoBounds ELSE SimpleRange(sub, submin, submax)
                below == {Got(IF xdir > 0 THEN submin ELSE prev_submax)}
                on == IF rangemax = submax THEN {Got(submax)}
                      ELSE walk[pos + 6 + int_index(Word(t, pos + 5)), submax]
            IN  IF pos + 4 > len THEN {Got(prev_submax)}
                ELSE IF db.ret < 0 THEN below \cup on
                ELSE IF db_gain \in db.min .. db.max
                THEN {SimpleFromDb(sub, submin, submax, db_gain, xdir)}
                ELSE IF db_gain < db.min THEN below ELSE on
    IN  IF len < 6 \/ len > MAX_TLV_RANGE_SIZE THEN {Refused} ELSE walk[2, 0]

snd_tlv_convert_from_dB(t, rangemin, rangemax, db_gain, xdir) ==
    IF Word(t, 0) = TLVT_DB_RANGE
    THEN tlv_from_dB_range(t, rangemin, rangemax, db_gain, xdir)
    ELSE {SimpleFromDb(t, rangemin, rangemax, db_gain, xdir)}
=============================================================================
