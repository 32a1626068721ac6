------------------------------- MODULE Areas -------------------------------
(***************************************************************************)
(* Silencing and copying samples in memory (src/pcm.c): an area says where *)
(* the samples of one channel lie, by an address, the offset of the first  *)
(* sample and the step from one to the next, both in bits.                 *)
(*                                                                         *)
(* The memory is a row of nibbles, two for a byte, the more significant    *)
(* first, so that the 4-bit formats can be told apart from the others.  A  *)
(* nibble is the set of its bits that are one; a nibble no call has        *)
(* written yet holds a mark of its own instead, so that a sample that goes *)
(* astray is seen.                                                         *)
(***************************************************************************)
EXTENDS Formats, FiniteSets

CONSTANTS
    Formats,   \* the formats that are used
    Channels,  \* the number of channels
    Frames,    \* the frames a buffer holds
    Layouts    \* how the areas may lie: "interleaved", "noninterleaved", "null"

SampleBytes == 4  \* the widest sample

VARIABLES
    mem,     \* nibble -> the set of its bits, or its mark
    before,  \* the memory as the call found it
    call     \* the call that has returned

vars == <<mem, before, call>>

BufferBytes == Channels * Frames * SampleBytes
Dst == 0            \* the buffer written to
Src == BufferBytes  \* the buffer read from
Nibbles == 0 .. (4 * BufferBytes) - 1
Idle == [op |-> "none"]

Bits(n) == {i \in 0 .. 3 : (n \div 2^i) % 2 = 1}
Mark(i) == {4 + i}
Fresh == [i \in Nibbles |-> Mark(i)]

NULL == -1

\* The areas an application describes its buffer with.
Area(base, layout, f, c) ==
    LET phys == snd_pcm_format_physical_width(f)
    IN  CASE layout = "interleaved" ->
               [addr |-> base, first |-> c * phys, step |-> Channels * phys]
          [] layout = "noninterleaved" ->
               [addr |-> base + c * Frames * SampleBytes, first |-> 0, step |-> phys]
          [] layout = "null" -> [addr |-> NULL, first |-> 0, step |-> 0]

-----------------------------------------------------------------------------
(* The memory functions. *)

snd_pcm_channel_area_addr(a, offset) == a.addr + (a.first + a.step * offset) \div 8

\* memcpy of n bytes; the two places do not overlap.
memcpy(m, to, from, n) ==
    [i \in DOMAIN m |-> IF i \in 2 * to .. 2 * (to + n) - 1 THEN m[i - 2 * to + 2 * from] ELSE m[i]]

\* Bytes(i), i < n, are written from byte to on.
Write(m, to, n, Byte(_)) ==
    [i \in DOMAIN m |->
        IF i \in 2 * to .. 2 * (to + n) - 1
        THEN LET b == Byte((i - 2 * to) \div 2)
             IN  Bits(IF i % 2 = 0 THEN b \div 16 ELSE b % 16)
        ELSE m[i]]

\* The memory after n rounds of a loop.
Loop(m, n, Round(_, _)) ==
    LET after[k \in 0 .. n] == IF k = 0 THEN m ELSE Round(after[k - 1], k - 1)
    IN  after[n]

snd_pcm_format_set_silence(m, f, data, samples) ==
    LET phys == snd_pcm_format_physical_width(f)
        width == phys \div 8
    IN  CASE samples = 0 \/ phys <= 0 -> m
          [] samples > 0 /\ phys > 0 /\ (snd_pcm_format_signed(f) = 1 \/ phys <= 8) ->
               Write(m, data, (samples * phys) \div 8, LAMBDA i : SilenceByte(f, 0))
          [] OTHER ->
               Loop(m, samples, LAMBDA mm, k :
                        Write(mm, data + k * width, width, LAMBDA i : SilenceByte(f, i)))

-----------------------------------------------------------------------------
(* Formats of less than a byte a sample. *)

\* The byte and the bit the loops stand at after k samples.
Place4(a, offset, n) ==
    LET at[k \in 0 .. n] ==
            IF k = 0 THEN [byte |-> snd_pcm_channel_area_addr(a, offset), bit |-> a.first % 8]
            ELSE LET byte == at[k - 1].byte + a.step \div 8
                     bit == at[k - 1].bit + (a.step % 8)
                 IN  IF bit = 8 THEN [byte |-> byte + 1, bit |-> 0]
                     ELSE [byte |-> byte, bit |-> bit]
    IN  at

\* The nibble that the masks 0x0f and 0xf0 choose.
Half(place) == 2 * place.byte + (IF place.bit # 0 THEN 1 ELSE 0)

area_silence_4bit(m, a, offset, samples) ==
    LET at == Place4(a, offset, samples)
    IN  Loop(m, samples, LAMBDA mm, k : [mm EXCEPT ![Half(at[k])] = {}])

\* The nibble read is not moved to the half it is to be written to.
area_copy_4bit(m, dst, dst_offset, src, src_offset, samples) ==
    LET to == Place4(dst, dst_offset, samples)
        from == Place4(src, src_offset, samples)
        Round(mm, k) ==
            LET srcval == mm[Half(from[k])]
                put == 2 * to[k].byte + (Half(from[k]) % 2)
            IN  [[mm EXCEPT ![Half(to[k])] = {}] EXCEPT ![put] = @ \cup srcval]
    IN  Loop(m, samples, Round)

-----------------------------------------------------------------------------
(* Areas. *)

snd_pcm_area_silence(m, dst, offset, samples, f) ==
    LET phys == snd_pcm_format_physical_width(f)
        data == snd_pcm_channel_area_addr(dst, offset)
    IN  CASE dst.addr = NULL -> m
          [] dst.addr # NULL /\ phys < 8 -> area_silence_4bit(m, dst, offset, samples)
          [] dst.addr # NULL /\ phys >= 8 /\ dst.step = phys ->
               snd_pcm_format_set_silence(m, f, data, samples)
          [] OTHER ->
               Loop(m, samples, LAMBDA mm, k :
                        snd_pcm_format_set_silence(mm, f, data + k * (dst.step \div 8), 1))

\* As a plausible bug would have it: only the destination is asked for its step.
Bugsnd_pcm_area_copy(m, dst, dst_offset, src, src_offset, samples, f) ==
    LET phys == snd_pcm_format_physical_width(f)
        to == snd_pcm_channel_area_addr(dst, dst_offset)
        from == snd_pcm_channel_area_addr(src, src_offset)
    IN  CASE dst.addr = NULL -> m
          [] dst.addr # NULL /\ src.addr = NULL ->
               snd_pcm_area_silence(m, dst, dst_offset, samples, f)
          [] OTHER ->
               IF dst.step = phys
               THEN memcpy(m, to, from, (samples * phys) \div 8)
               ELSE Loop(m, samples, LAMBDA mm, k :
                            memcpy(mm, to + k * (dst.step \div 8), from + k * (src.step \div 8),
                                   phys \div 8))

snd_pcm_area_copy(m, dst, dst_offset, src, src_offset, samples, f) ==
    LET phys == snd_pcm_format_physical_width(f)
        to == snd_pcm_channel_area_addr(dst, dst_offset)
        from == snd_pcm_channel_area_addr(src, src_offset)
    IN  CASE dst.addr = NULL -> m
          [] dst.addr # NULL /\ dst = src /\ dst_offset = src_offset -> m
          [] dst.addr # NULL /\ src.addr = NULL ->
               snd_pcm_area_silence(m, dst, dst_offset, samples, f)
          [] OTHER ->
               IF phys < 8
               THEN area_copy_4bit(m, dst, dst_offset, src, src_offset, samples)
               ELSE IF src.step = phys /\ dst.step = phys
               THEN memcpy(m, to, from, (samples * phys) \div 8)
               ELSE Loop(m, samples, LAMBDA mm, k :
                            memcpy(mm, to + k * (dst.step \div 8), from + k * (src.step \div 8),
                                   phys \div 8))

snd_pcm_frames_to_bytes(f, frames) ==
    (frames * snd_pcm_format_physical_width(f) * Channels) \div 8

-----------------------------------------------------------------------------
(* The calls. *)

Init == mem = Fresh /\ before = Fresh /\ call = Idle

Returns(m, c) == mem' = m /\ before' = mem /\ call' = c

snd_pcm_areas_silence(layout, offset, frames, f) ==
    Returns(Loop(mem, Channels, LAMBDA m, c :
                    snd_pcm_area_silence(m, Area(Dst, layout, f, c), offset, frames, f)),
            [op |-> "silence", dst |-> layout, dst_offset |-> offset, frames |-> frames,
             format |-> f])

\* With layout "same" the areas are copied onto themselves.
snd_pcm_areas_copy(dst, dst_offset, src, src_offset, frames, f) ==
    LET From(c) == IF src = "same" THEN Area(Dst, dst, f, c) ELSE Area(Src, src, f, c)
        m == IF frames = 0 THEN mem
             ELSE Loop(mem, Channels, LAMBDA mm, c :
                    snd_pcm_area_copy(mm, Area(Dst, dst, f, c), dst_offset, From(c),
                                      src_offset, frames, f))
    IN  Returns(m, [op |-> "copy", dst |-> dst, dst_offset |-> dst_offset, src |-> src,
                    src_offset |-> src_offset, frames |-> frames, format |-> f,
                    ret |-> IF frames = 0 THEN NA ELSE 0])

\* The ring buffer is the destination, the application's buffer, which begins
\* with the first frame to write, the source.  snd_pcm_mmap_begin has given
\* the offset and the frames there is room for.
snd_pcm_mmap_writei(offset, frames, f) ==
    LET areas == Area(Dst, "interleaved", f, 0)
    IN  Returns(memcpy(mem, snd_pcm_channel_area_addr(areas, offset), Src,
                       snd_pcm_frames_to_bytes(f, frames)),
                [op |-> "copy", dst |-> "interleaved", dst_offset |-> offset,
                 src |-> "interleaved", src_offset |-> 0, frames |-> frames, format |-> f,
                 ret |-> 0])

snd_pcm_mmap_readi(offset, frames, f) ==
    LET areas == Area(Src, "interleaved", f, 0)
    IN  Returns(memcpy(mem, Dst, snd_pcm_channel_area_addr(areas, offset),
                       snd_pcm_frames_to_bytes(f, frames)),
                [op |-> "copy", dst |-> "interleaved", dst_offset |-> 0,
                 src |-> "interleaved", src_offset |-> offset, frames |-> frames, format |-> f,
                 ret |-> 0])

\* The functions on formats change nothing.
FormatCalls ==
    /\ UNCHANGED <<mem, before>>
    /\ \/ \E name \in Names :
            call' = [op |-> "value", name |-> name, format |-> snd_pcm_format_value(name)]
       \/ \E f \in Formats :
            call' = [op |-> "word", format |-> f, size |-> snd_pcm_format_size(f, 2),
                     ret |-> snd_pcm_format_silence_64(f)]

\* The application fills its buffers anew.
Refill == call # Idle /\ mem' = Fresh /\ before' = Fresh /\ call' = Idle

Areas == Layouts \ {"null"}

Silences ==
    \E layout \in Layouts, f \in Formats, offset \in 0 .. Frames - 1 :
        \E frames \in 0 .. Frames - offset :
            snd_pcm_areas_silence(layout, offset, frames, f)

Copies ==
    \E dst \in Layouts, src \in Layouts \cup {"same"}, f \in Formats,
       dst_offset, src_offset \in 0 .. Frames - 1 :
        \E frames \in 0 .. Frames - Max({dst_offset, src_offset}) :
            /\ src = "same" => dst_offset = src_offset
            /\ snd_pcm_areas_copy(dst, dst_offset, src, src_offset, frames, f)

MmapCalls ==
    \E f \in Formats, offset \in 0 .. Frames - 1 :
        \E frames \in 0 .. Frames - offset :
            /\ snd_pcm_format_physical_width(f) >= 8
            /\ \/ snd_pcm_mmap_writei(offset, frames, f)
               \/ snd_pcm_mmap_readi(offset, frames, f)

Next ==
    \/ call = Idle /\ (Silences \/ Copies \/ MmapCalls \/ FormatCalls)
    \/ Refill

Spec == Init /\ [][Next]_vars

-----------------------------------------------------------------------------
(* What the calls promise. *)

\* The formats whose samples the memory has room for, half bytes and whole ones.
AreasConstants ==
    /\ Channels \in Nat \ {0} /\ Frames \in Nat \ {0}
    /\ Layouts \subseteq {"interleaved", "noninterleaved", "null"}
    /\ \A f \in Formats :
        f \in AllFormats /\ snd_pcm_format_physical_width(f) \in {4, 8, 16, 24, 32}

\* The nibbles of a sample, in their order in memory.
Sample(a, i, f) ==
    LET phys == snd_pcm_format_physical_width(f)
        from == 2 * a.addr + (a.first + a.step * i) \div 4
    IN  [n \in 0 .. (phys \div 4) - 1 |-> from + n]

\* The bytes of a silent sample of an unsigned linear format, found from the
\* format's traits: the middle of its range, in its byte order.
Midpoint(f, i) ==
    LET bytes == snd_pcm_format_physical_width(f) \div 8
        top == snd_pcm_format_width(f) - 1
        weight == IF snd_pcm_format_big_endian(f) = 1 THEN bytes - 1 - i ELSE i
    IN  IF weight = top \div 8 THEN 2^(top % 8) ELSE 0

\* The bytes of silence of the coded formats: no level of these is a number.
Patterns ==
    [DSD_U8 |-> 105, DSD_U16_LE |-> 105, DSD_U16_BE |-> 105, DSD_U32_LE |-> 105,
     DSD_U32_BE |-> 105, MU_LAW |-> 127, A_LAW |-> 85]

\* A silent sample, byte by byte.
SilentByte(f, i) ==
    IF f \in DOMAIN Patterns THEN Patterns[f]
    ELSE IF snd_pcm_format_unsigned(f) = 1 THEN Midpoint(f, i) ELSE 0

\* What nibble n of a silent sample holds.
SilentNibble(f, n) ==
    LET b == SilentByte(f, n \div 2) IN Bits(IF n % 2 = 0 THEN b \div 16 ELSE b % 16)

Touched(layout, offset, frames, f) ==
    IF layout = "null" THEN {}
    ELSE UNION {LET s == Sample(Area(Dst, layout, f, c), offset + i, f)
                IN  {s[n] : n \in DOMAIN s} :
                    c \in 0 .. Channels - 1, i \in 0 .. frames - 1}

OthersKept ==
    \A n \in Nibbles \ Touched(call.dst, call.dst_offset, call.frames, call.format) :
        mem[n] = before[n]

Silenced ==
    \A c \in 0 .. Channels - 1, i \in 0 .. call.frames - 1 :
        LET s == Sample(Area(Dst, call.dst, call.format, c), call.dst_offset + i, call.format)
        IN  \A n \in DOMAIN s : mem[s[n]] = SilentNibble(call.format, n)

\* The 4-bit loops take the half of the byte to begin with from the area alone,
\* and put a sample in the half it was found in.  They reach the samples asked for
\* only if these begin where the area does, and lie alike in both buffers.
Half4(layout, offset, c) ==
    LET a == Area(Dst, layout, "IMA_ADPCM", c) IN (a.first + a.step * offset) % 8
Begins(layout, offset) ==
    layout \in Areas => \A c \in 0 .. Channels - 1 : Half4(layout, offset, c) = Half4(layout, 0, c)
Reached ==
    \/ snd_pcm_format_physical_width(call.format) >= 8
    \/ /\ Begins(call.dst, call.dst_offset)
       /\ call.op = "copy" /\ {call.dst, call.src} \subseteq Areas =>
            call.dst = call.src /\ Begins(call.src, call.src_offset)

\* snd_pcm_areas_silence and snd_pcm_area_silence: every sample asked for holds
\* its format's silence, the middle of the range in the format's byte order, and
\* no bit outside of those samples has changed.
SilenceExact ==
    call.op = "silence" /\ Reached => OthersKept /\ (call.dst # "null" => Silenced)

\* snd_pcm_areas_copy and snd_pcm_mmap_writei/readi: every sample arrives in the
\* frame and the channel it was meant for, whatever the two layouts are; a null
\* source stands for silence; and no other bit has changed.
CopyExact ==
    call.op = "copy" /\ Reached =>
        /\ OthersKept
        /\ call.dst # "null" /\ call.src = "null" => Silenced
        /\ call.dst # "null" /\ call.src \in Areas =>
            \A c \in 0 .. Channels - 1, i \in 0 .. call.frames - 1 :
                LET d == Sample(Area(Dst, call.dst, call.format, c),
                                call.dst_offset + i, call.format)
                    s == Sample(Area(Src, call.src, call.format, c),
                                call.src_offset + i, call.format)
                IN  \A n \in DOMAIN d : mem[d[n]] = before[s[n]]
        /\ call.src = "same" => mem = before

\* snd_pcm_build_linear_format finds every linear format again from what the
\* snd_pcm_format_ functions say of it; DSD formats, which say the same of
\* themselves, and the two formats that have no entry in the table aside.
LinearFound ==
    call.op = "word" /\ snd_pcm_format_linear(call.format)
        /\ SilentByte(call.format, 0) # 105 /\ snd_pcm_format_width(call.format) > 0 =>
        call.format =
            snd_pcm_build_linear_format(
                snd_pcm_format_width(call.format),
                snd_pcm_format_physical_width(call.format),
                snd_pcm_format_unsigned(call.format),
                IF snd_pcm_format_big_endian(call.format) # 0 THEN 1 ELSE 0)

\* snd_pcm_format_silence_64 and the functions that cut its value: for a format
\* that fills its bytes the value has those of the silent sample as they follow
\* one another in memory, the first as the most significant one, nothing above
\* them, and the narrowest of the functions that holds a sample keeps all of them.
\* For a big-endian format that is the number the sample stands for; for a
\* little-endian one its bytes are exchanged: 0x0080 for U16_LE.
WordSilent ==
    call.op = "word"
        /\ snd_pcm_format_width(call.format) = snd_pcm_format_physical_width(call.format)
        /\ snd_pcm_format_width(call.format) % 8 = 0 =>
        LET bytes == snd_pcm_format_size(call.format, 1)
        IN  /\ SilenceWord(call.format, bytes) = [i \in 1 .. bytes |-> SilentByte(call.format, i - 1)]
            /\ \A i \in 1 .. 8 - bytes : call.ret[i] = 0

\* snd_pcm_format_value: every name, alias and description leads to a format that
\* goes by it, an alias to the one of this machine's byte order; the pairs of DSD
\* formats that share a description are told apart by nothing.
NameFound ==
    call.op = "value" =>
        /\ call.format \in AllFormats
        /\ \/ call.name = <<"name", call.format>>
           \/ call.name = _snd_pcm_format_descriptions[call.format]
           \/ /\ call.name = <<"name", _snd_pcm_format_aliases[call.format]>>
              /\ snd_pcm_format_little_endian(call.format) = 1
=============================================================================
