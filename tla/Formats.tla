------------------------------ MODULE Formats ------------------------------
(***************************************************************************)
(* The sample formats: the table _snd_pcm_formats of src/pcm_misc.c, the   *)
(* functions that answer from it, and the names of src/pcm.c.  A format is *)
(* named by the end of its SND_PCM_FORMAT_ constant; the build is one for  *)
(* a little-endian machine.                                                *)
(***************************************************************************)
EXTENDS Integers, Sequences, SequencesExt

NA == -22             \* -EINVAL: the table has no answer
UNKNOWN == "UNKNOWN"  \* SND_PCM_FORMAT_UNKNOWN

Entry(w, p, le, signd, silence) ==
    [width |-> w, phys |-> p, le |-> le, signd |-> signd, silence |-> silence]

\* Signed formats are silent at zero: their silence bytes are left out.
Signed(w, p, le) == Entry(w, p, le, 1, <<>>)
Unsigned(w, p, le, silence) == Entry(w, p, le, 0, silence)
Coded(w, p, le, silence) == Entry(w, p, le, NA, silence)

_snd_pcm_formats ==
  [ S8      |-> Signed(8, 8, NA),     U8      |-> Unsigned(8, 8, NA, <<128>>),
    S16_LE  |-> Signed(16, 16, 1),    U16_LE  |-> Unsigned(16, 16, 1, <<0, 128>>),
    S16_BE  |-> Signed(16, 16, 0),    U16_BE  |-> Unsigned(16, 16, 0, <<128, 0>>),
    S24_LE  |-> Signed(24, 32, 1),    U24_LE  |-> Unsigned(24, 32, 1, <<0, 0, 128, 0>>),
    S24_BE  |-> Signed(24, 32, 0),    U24_BE  |-> Unsigned(24, 32, 0, <<0, 128, 0, 0>>),
    S32_LE  |-> Signed(32, 32, 1),    U32_LE  |-> Unsigned(32, 32, 1, <<0, 0, 0, 128>>),
    S32_BE  |-> Signed(32, 32, 0),    U32_BE  |-> Unsigned(32, 32, 0, <<128, 0, 0, 0>>),
    S24_3LE |-> Signed(24, 24, 1),    U24_3LE |-> Unsigned(24, 24, 1, <<0, 0, 128>>),
    S24_3BE |-> Signed(24, 24, 0),    U24_3BE |-> Unsigned(24, 24, 0, <<128, 0, 0>>),
    S20_3LE |-> Signed(20, 24, 1),    U20_3LE |-> Unsigned(20, 24, 1, <<0, 0, 8>>),
    S20_3BE |-> Signed(20, 24, 0),    U20_3BE |-> Unsigned(20, 24, 0, <<8, 0, 0>>),
    S18_3LE |-> Signed(18, 24, 1),    U18_3LE |-> Unsigned(18, 24, 1, <<0, 0, 2>>),
    S18_3BE |-> Signed(18, 24, 0),    U18_3BE |-> Unsigned(18, 24, 0, <<2, 0, 0>>),
    FLOAT_LE   |-> Coded(32, 32, 1, <<>>),  FLOAT_BE   |-> Coded(32, 32, 0, <<>>),
    FLOAT64_LE |-> Coded(64, 64, 1, <<>>),  FLOAT64_BE |-> Coded(64, 64, 0, <<>>),
    IEC958_SUBFRAME_LE |-> Coded(32, 32, 1, <<>>),
    IEC958_SUBFRAME_BE |-> Coded(32, 32, 0, <<>>),
    MU_LAW     |-> Coded(8, 8, NA, <<127>>),
    A_LAW      |-> Coded(8, 8, NA, <<85>>),
    IMA_ADPCM  |-> Coded(4, 4, NA, <<>>),
    MPEG       |-> Coded(NA, NA, NA, <<>>),
    GSM        |-> Coded(NA, NA, NA, <<>>),
    SPECIAL    |-> Coded(NA, NA, NA, <<>>),
    G723_24    |-> Entry(3, 3, -1, -1, <<>>),  G723_24_1B |-> Entry(0, 0, 0, 0, <<>>),
    G723_40    |-> Entry(5, 5, -1, -1, <<>>),  G723_40_1B |-> Entry(0, 0, 0, 0, <<>>),
    DSD_U8     |-> Unsigned(8, 8, 1, <<105>>),
    DSD_U16_LE |-> Unsigned(16, 16, 1, <<105, 105>>),
    DSD_U16_BE |-> Unsigned(16, 16, 0, <<105, 105>>),
    DSD_U32_LE |-> Unsigned(32, 32, 1, <<105, 105, 105, 105>>),
    DSD_U32_BE |-> Unsigned(32, 32, 0, <<105, 105, 105, 105>>) ]

AllFormats == DOMAIN _snd_pcm_formats

-----------------------------------------------------------------------------
(* The functions that answer from the table. *)

\* silence[i], i from 0: the bytes the table leaves out are zero.
SilenceByte(f, i) ==
    LET s == _snd_pcm_formats[f].silence IN IF i < Len(s) THEN s[i + 1] ELSE 0

Not(val) == IF val < 0 THEN val ELSE IF val = 0 THEN 1 ELSE 0

snd_pcm_format_signed(f) == _snd_pcm_formats[f].signd
snd_pcm_format_unsigned(f) == Not(snd_pcm_format_signed(f))
snd_pcm_format_linear(f) == snd_pcm_format_signed(f) >= 0
snd_pcm_format_float(f) == f \in {"FLOAT_LE", "FLOAT_BE", "FLOAT64_LE", "FLOAT64_BE"}
snd_pcm_format_little_endian(f) == _snd_pcm_formats[f].le
snd_pcm_format_big_endian(f) == Not(snd_pcm_format_little_endian(f))
snd_pcm_format_width(f) == _snd_pcm_formats[f].width
snd_pcm_format_physical_width(f) == _snd_pcm_formats[f].phys

snd_pcm_format_size(f, samples) ==
    LET phys == snd_pcm_format_physical_width(f)
    IN  IF phys < 0 THEN NA ELSE (samples * phys) \div 8

\* The bytes of the 64-bit value, the most significant first: those of the
\* table's pattern, as many as the width fills, in the order they stand there.
snd_pcm_format_silence_64(f) ==
    LET w == snd_pcm_format_width(f) \div 8
    IN  [i \in 1 .. 8 |->
            IF snd_pcm_format_physical_width(f) > 0 /\ i > 8 - w
            THEN SilenceByte(f, i - (8 - w) - 1) ELSE 0]

\* snd_pcm_format_silence_32, _16 and snd_pcm_format_silence cut it to n bytes.
SilenceWord(f, n) == SubSeq(snd_pcm_format_silence_64(f), 9 - n, 8)

-----------------------------------------------------------------------------
(* The formats of linear samples, by their traits. *)

LinearFormats ==
  << << <<"S8", "S8">>,             <<"U8", "U8">> >>,
     << <<"S16_LE", "S16_BE">>,     <<"U16_LE", "U16_BE">> >>,
     << <<"S24_LE", "S24_BE">>,     <<"U24_LE", "U24_BE">> >>,
     << <<"S32_LE", "S32_BE">>,     <<"U32_LE", "U32_BE">> >> >>

Linear24Formats ==
  << << <<"S24_3LE", "S24_3BE">>,   <<"U24_3LE", "U24_3BE">> >>,
     << <<"S20_3LE", "S20_3BE">>,   <<"U20_3LE", "U20_3BE">> >>,
     << <<"S18_3LE", "S18_3BE">>,   <<"U18_3LE", "U18_3BE">> >> >>

\* unsignd and big_endian are 0 or 1.
\* As a plausible bug would have it: the two last indices are exchanged.
Bugsnd_pcm_build_linear_format(width, pwidth, unsignd, big_endian) ==
    LET widths == IF pwidth = 24 THEN <<24, 20, 18>> ELSE <<8, 16, 24, 32>>
        table == IF pwidth = 24 THEN Linear24Formats ELSE LinearFormats
    IN  IF Contains(widths, width)
        THEN table[SelectInSeq(widths, LAMBDA w : w = width)][big_endian + 1][unsignd + 1]
        ELSE UNKNOWN

snd_pcm_build_linear_format(width, pwidth, unsignd, big_endian) ==
    LET widths == IF pwidth = 24 THEN <<24, 20, 18>> ELSE <<8, 16, 24, 32>>
        table == IF pwidth = 24 THEN Linear24Formats ELSE LinearFormats
    IN  IF Contains(widths, width)
        THEN table[SelectInSeq(widths, LAMBDA w : w = width)][unsignd + 1][big_endian + 1]
        ELSE UNKNOWN

-----------------------------------------------------------------------------
(* Names.  The aliases stand at the constants of this machine's byte order, *)
(* and two descriptions are given to two formats each.                      *)

_snd_pcm_format_aliases ==
  [ S16_LE |-> "S16", U16_LE |-> "U16", S24_LE |-> "S24", U24_LE |-> "U24",
    S32_LE |-> "S32", U32_LE |-> "U32", FLOAT_LE |-> "FLOAT", FLOAT64_LE |-> "FLOAT64",
    IEC958_SUBFRAME_LE |-> "IEC958_SUBFRAME" ]

\* The description of a format, which all but four formats have to themselves.
_snd_pcm_format_descriptions ==
    [f \in AllFormats |->
        CASE f \in {"DSD_U16_LE", "DSD_U16_BE"} -> <<"description", "DSD_U16">>
          [] f \in {"DSD_U32_LE", "DSD_U32_BE"} -> <<"description", "DSD_U32">>
          [] OTHER -> <<"description", f>>]

\* The order of the constants matters where two formats answer to one name.
Before(f, g) == <<f, g>> \in {<<"DSD_U16_LE", "DSD_U16_BE">>, <<"DSD_U32_LE", "DSD_U32_BE">>}
FirstOf(S) == CHOOSE f \in S : \A g \in S \ {f} : ~Before(g, f)

Names ==
    {<<"name", f>> : f \in AllFormats}
        \cup {<<"name", _snd_pcm_format_aliases[f]>> : f \in DOMAIN _snd_pcm_format_aliases}
        \cup {_snd_pcm_format_descriptions[f] : f \in AllFormats}

snd_pcm_format_value(name) ==
    LET named == {f \in AllFormats :
                    \/ name = <<"name", f>>
                    \/ /\ f \in DOMAIN _snd_pcm_format_aliases
                       /\ name = <<"name", _snd_pcm_format_aliases[f]>>}
        described == {f \in AllFormats : name = _snd_pcm_format_descriptions[f]}
    IN  CASE named # {} -> FirstOf(named)
          [] named = {} /\ described # {} -> FirstOf(described)
          [] OTHER -> UNKNOWN
=============================================================================
