----------------------------- MODULE MCHelpers -----------------------------
(* The parts of Helpers, each on an instance of its own. *)
EXTENDS Helpers, MCVolume, TLC

\* Two channels and buffers of three frames, so that there are frames before, in
\* and after those of a call; every format whose samples have 4 to 32 bits.
LOCAL F == INSTANCE Formats
MCAreaFormats == {f \in F!AllFormats : F!snd_pcm_format_physical_width(f) \in {4, 8, 16, 24, 32}}

\* Three places for cards, two ids, and device names of every kind.
Name(prefix, by, value, dev, subdev) ==
    [prefix |-> prefix, by |-> by, value |-> value, dev |-> dev, subdev |-> subdev]
MCDevNames ==
    { Name("hw", "nothing", 0, -1, -1), Name("default", "nothing", 0, -1, -1),
      Name("plughw", "number", 0, -1, -1),
      Name("hw", "number", 1, -1, -1), Name("hw", "number", 1, 1, -1),
      Name("hw", "number", 1, 1, 2), Name("hw", "number", 1, 2, 0),
      Name("hw", "number", 3, 0, -1), Name("hw", "path", 2, -1, -1),
      Name("hw", "path", 2, 0, -1) }
    \cup {Name("sysdefault", "id", i, d, -1) : i \in Ids, d \in {-1, 1}}

\* Names that are prefixes of others; maps that are too long for the stream, and
\* for the control; offers with a type that applications do not know.
Ch(p, spec, inv) == [pos |-> p, spec |-> spec, inv |-> inv]
Offer(t) == [type |-> t, map |-> <<Ch(3, FALSE, t = "PAIRED")>>]
MCPosNames == 0 :> <<"U">> @@ 3 :> <<"F", "L">> @@ 12 :> <<"F", "L", "C">>
MCOffers == {<<>>, <<Offer("FIXED")>>, <<Offer("VAR"), Offer("PAIRED")>>,
             <<Offer("FIXED"), Offer("SCALE")>>}
MCMaps == {<<Ch(3, FALSE, FALSE)>>, <<Ch(12, FALSE, TRUE), Ch(3, FALSE, FALSE)>>,
           <<Ch(3, TRUE, TRUE), Ch(12, FALSE, FALSE)>>,
           <<Ch(3, FALSE, FALSE), Ch(12, FALSE, FALSE), Ch(3, TRUE, FALSE)>>,
           [i \in 1..4 |-> Ch(3, FALSE, FALSE)]}

\* The constants are ones that the theorems speak of.
ASSUME TheoremsApply ==
    GradedTables /\ A!AreasConstants /\ C!CardsConstants /\ M!ChmapConstants

\* A control with a single value, in any range of an application.
OneValue == INSTANCE Volume WITH RawMax <- RawMin

ASSUME SingleValues ==
    \A r \in MCUserRanges :
        /\ OneValue!convert_to_user(r, RawMin) = r.min
        /\ \A v \in r.min .. r.max : OneValue!convert_from_user(r, v) = RawMin

-----------------------------------------------------------------------------
(* Volumes and gains need large instances of different kinds.  An item with    *)
(* the table of MCOneTable uses two channels and user ranges, and is set by    *)
(* volume; one with that of MCGainTable uses two channels and one user range,  *)
(* and is set by gain; an item with any other table uses its first channel     *)
(* alone, no ranges, all of the gains and all of the functions on them.        *)

ByVolume == tlv \in MCOneTable
ByGain == tlv \in MCGainTable

MCInit == AllInit /\ (part = "volume" /\ ~ByVolume => control[1] = RawMin)

VolumeNext ==
    /\ call'.op \in {"none", "set_volume"}
    /\ job'.op # "none" => /\ job'.op = "set_volume"
                           /\ job'.arg \in range.min .. range.max + 1

GainNext ==
    /\ call'.op \in {"none", "set_dB"}
    /\ job'.op # "none" => job'.op = "set_dB" /\ job'.arg \in MCFewGains
    /\ range'.max \in {RawMax, RawMax + 1}

OneChannelNext == control'[1] = control[1] /\ range' = range /\ job'.channels \subseteq {0}

NarrowNext ==
    part = "volume" => IF ByVolume THEN VolumeNext ELSE IF ByGain THEN GainNext ELSE OneChannelNext

MCSpec == MCInit /\ [][AllNext /\ NarrowNext]_allVars
=============================================================================
