------------------------------ MODULE MCVolume ------------------------------
(* Controls of a few values whose drivers describe their gains in all the    *)
(* ways there are, alone or in containers.                                   *)
EXTENDS Volume

Scale(min, step) == <<TLVT_DB_SCALE, 8, min, step>>
MuteScale(min, step) == <<TLVT_DB_SCALE, 8, min, 65536 + step>>
Minmax(min, max) == <<TLVT_DB_MINMAX, 8, min, max>>
MinmaxMute(min, max) == <<TLVT_DB_MINMAX_MUTE, 8, min, max>>
Other == <<257, 4, 9>>  \* a table without dB information

Bytes(t) == 4 * Len(t)
Ranges(t, u, cut) ==
    LET data == <<0, cut>> \o t \o <<cut + 1, RawMax>> \o u
    IN  <<TLVT_DB_RANGE, Bytes(data)>> \o data
Container(data) == <<TLVT_CONTAINER, Bytes(data)>> \o data

Bare(t) == [words |-> t, db |-> t]
In(data, t) == [words |-> Container(data), db |-> t]

MCSimple == {Bare(Scale(-30, 10)), Bare(MuteScale(-30, 10)), Bare(Minmax(-10, 0)),
             Bare(MinmaxMute(-10, 0)), Bare(Minmax(-7, 4))}

MCTables ==
    MCSimple \cup
    {[words |-> Other, db |-> INVALID], [words |-> Container(Other), db |-> INVALID],
     In(Scale(-30, 10), Scale(-30, 10)),
     In(Other \o Container(Other \o Minmax(-10, 0)) \o Scale(-30, 10), Minmax(-10, 0)),
     Bare(Ranges(Scale(-30, 10), Scale(-10, 5), 1)),
     Bare(Ranges(MuteScale(-30, 10), Minmax(-12, -5), 1))}

MCRanges == {Bare(Ranges(Scale(-30, 10), Scale(-10, 5), 1))}

Wide(lo, hi) == [min |-> lo, max |-> hi]

MCOneTable == {Bare(MuteScale(-25, 10))}

MCGainTable == {Bare(Scale(-25, 10))}

MCAllTables == MCOneTable \cup MCGainTable \cup MCTables

MCFewGains == {-10}

MCUserRanges == {Wide(0, 4), Wide(-1, 0), Wide(2, 2)}

MCGains == {GAIN_MUTE, -31, -30, -25, -15, -11, -10, -9, -7, -5, -1, 0, 4, 5}

MCStack == {Other, Scale(-30, 10), <<TLVT_DB_SCALE, 20000, 0, 0>>}
=============================================================================
