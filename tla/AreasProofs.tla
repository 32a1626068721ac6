---------------------------- MODULE AreasProofs ----------------------------
(***************************************************************************)
(* What Helpers promises of areas of samples and of formats, for any       *)
(* number of channels and frames.                                          *)
(*                                                                         *)
(* The argument: a memory v is found that holds what is to be written,     *)
(* where it is to be written (HoldsSome, which needs that no nibble        *)
(* belongs to two samples); every memory function is shown to write the    *)
(* nibbles of v at some places, and to leave the others; and loops over    *)
(* samples and over channels write what their rounds write (LoopWritten).  *)
(***************************************************************************)
EXTENDS Helpers, FiniteSetTheorems, SequenceTheorems, WellFoundedInduction, TLAPS

-----------------------------------------------------------------------------
(* Loops. *)

\* A set of numbers has a least one.
LEMMA Least ==
    ASSUME NEW S, S \subseteq Nat, S # {}
    PROVE  \E x \in S : \A y \in S : x <= y
<1>1. PICK x \in S : \A y \in S : ~(<<y, x>> \in OpToRel(<, Nat))
  BY WFMin, NatLessThanWellFounded, Zenon
<1>2. \A y \in S : ~(y < x)
  BY <1>1 DEF OpToRel
<1>3. \A y \in S : y \in Nat /\ x \in Nat
  OBVIOUS
<1> QED BY <1>2, <1>3

\* Induction, over sets of numbers: for the loops over the samples of an area.
LEMMA SetInduction ==
    ASSUME NEW S, 0 \in S, \A n \in Nat : n \in S => n + 1 \in S
    PROVE  Nat \subseteq S
<1> SUFFICES ASSUME Nat \ S # {} PROVE FALSE
  OBVIOUS
<1>1. PICK x \in Nat \ S : \A y \in Nat \ S : x <= y
  <2>1. Nat \ S \subseteq Nat
    OBVIOUS
  <2> QED BY <2>1, Least
<1>2. x # 0 /\ x - 1 \in Nat /\ (x - 1) + 1 = x
  BY <1>1
<1>3. x - 1 \in S
  BY <1>1, <1>2
<1> QED BY <1>1, <1>2, <1>3

\* h holds the values after 0, 1, ... n rounds of Q, beginning with m.
Runs(h, S, m, n, Q) ==
    h \in [0 .. n -> S] /\ h[0] = m /\ \A k \in 0 .. n - 1 : h[k + 1] = Q[<<h[k], k>>]

\* A loop that runs on values of S has its values after 0, 1, ... n rounds: what
\* Loop chooses exists.
LEMMA LoopRuns ==
    ASSUME NEW S, NEW m \in S, NEW n \in Nat, NEW Q \in [S \X (0 .. n - 1) -> S]
    PROVE  \E h : Runs(h, S, m, n, Q)
<1> DEFINE F(l, h) == h \in [0 .. l -> S] /\ h = [k \in 0 .. l |-> IF k = 0 THEN m ELSE Q[<<h[k - 1], k - 1>>]]
           T == {l \in Nat : l <= n => \E h : F(l, h)}
<1>1. 0 \in T
  <2>1. F(0, [k \in 0 .. 0 |-> m])
    OBVIOUS
  <2> QED BY <2>1
<1>2. ASSUME NEW l \in Nat, l \in T PROVE l + 1 \in T
  <2> SUFFICES ASSUME l + 1 <= n PROVE \E h : F(l + 1, h)
    OBVIOUS
  <2>1. PICK g : F(l, g)
    BY <1>2
  <2>2. PICK h : h = [k \in 0 .. (l + 1) |-> IF k = l + 1 THEN Q[<<g[l], l>>] ELSE g[k]]
    OBVIOUS
  <2>3. g[l] \in S /\ l \in 0 .. n - 1
    BY <2>1
  <2>4. Q[<<g[l], l>>] \in S
    BY <2>3
  <2>5. h \in [0 .. (l + 1) -> S]
    BY <2>1, <2>2, <2>4
  <2>6. ASSUME NEW k \in 0 .. (l + 1)
        PROVE  h[k] = IF k = 0 THEN m ELSE Q[<<h[k - 1], k - 1>>]
    <3>1. CASE k = l + 1
      <4>1. h[k] = Q[<<g[l], l>>] /\ k # 0 /\ k - 1 = l /\ h[l] = g[l]
        BY <2>2, <3>1
      <4> QED BY <4>1
    <3>2. CASE k # l + 1
      <4>1. h[k] = g[k] /\ k \in 0 .. l
        BY <2>2, <3>2
      <4>2. k # 0 => h[k - 1] = g[k - 1]
        BY <2>2, <3>2
      <4>3. g[k] = IF k = 0 THEN m ELSE Q[<<g[k - 1], k - 1>>]
        BY <2>1, <4>1
      <4> QED BY <4>1, <4>2, <4>3
    <3> QED BY <3>1, <3>2
  <2>7. h = [k \in 0 .. (l + 1) |-> IF k = 0 THEN m ELSE Q[<<h[k - 1], k - 1>>]]
    BY <2>2, <2>6
  <2> QED BY <2>5, <2>7
<1>3. Nat \subseteq T
  <2> HIDE DEF T
  <2> QED BY <1>1, <1>2, SetInduction
<1>4. \E h : F(n, h)
  <2> HIDE DEF F
  <2> QED BY <1>3
<1>5. PICK h : F(n, h)
  BY <1>4
<1>6. ASSUME NEW k \in 0 .. n - 1 PROVE h[k + 1] = Q[<<h[k], k>>]
  <2>1. k + 1 \in 0 .. n /\ k + 1 # 0 /\ (k + 1) - 1 = k
    OBVIOUS
  <2>2. h[k + 1] = IF k + 1 = 0 THEN m ELSE Q[<<h[(k + 1) - 1], (k + 1) - 1>>]
    BY <1>5, <2>1
  <2> QED BY <2>1, <2>2
<1>7. h[0] = m
  BY <1>5
<1>8. h \in [0 .. n -> S]
  BY <1>5
<1> QED BY <1>6, <1>7, <1>8 DEF Runs

\* What every round keeps, with the count of rounds, is so after the last.
LEMMA LoopKeeps ==
    ASSUME NEW n \in Nat, NEW g, NEW I, <<g[0], 0>> \in I,
           \A k \in 0 .. n - 1 : <<g[k], k>> \in I => <<g[k + 1], k + 1>> \in I
    PROVE  <<g[n], n>> \in I
<1> DEFINE T == {l \in Nat : l <= n => <<g[l], l>> \in I}
<1>1. 0 \in T
  OBVIOUS
<1>2. ASSUME NEW l \in Nat, l \in T PROVE l + 1 \in T
  <2> SUFFICES ASSUME l + 1 <= n PROVE <<g[l + 1], l + 1>> \in I
    OBVIOUS
  <2>1. l \in 0 .. n - 1 /\ <<g[l], l>> \in I
    BY <1>2
  <2> QED BY <2>1
<1>3. Nat \subseteq T
  <2> HIDE DEF T
  <2> QED BY <1>1, <1>2, SetInduction
<1> QED BY <1>3

\* Quotient and remainder are unique.
LEMMA Unique ==
    ASSUME NEW q \in Nat \ {0}, NEW a \in Int, NEW b \in Int, NEW r \in 0 .. q - 1, NEW s \in 0 .. q - 1,
           q * a + r = q * b + s
    PROVE  a = b /\ r = s
<1>1. q * (a - b) = s - r
  OBVIOUS
<1>2. a - b >= 1 => q * (a - b) >= q
  OBVIOUS
<1>3. b - a >= 1 => q * (b - a) >= q
  OBVIOUS
<1>4. q * (b - a) = r - s
  OBVIOUS
<1> QED BY <1>1, <1>2, <1>3, <1>4

\* The eighth of a multiple of eight, for the addresses that lie at whole bytes.
LEMMA Exact8 == \A x \in Int : (8 * x) \div 8 = x
  OBVIOUS

\* The fourth of a multiple of four, for the nibbles of an area.
LEMMA Exact4 == \A x \in Int : (4 * x) \div 4 = x
  OBVIOUS

-----------------------------------------------------------------------------
(* Where samples lie. *)

Mem == [A!Nibbles -> SUBSET Int]
Kinds == {"interleaved", "noninterleaved"}
Half == 8 * (AreaChannels * Frames)  \* the nibbles of one buffer

\* The nibbles of a sample, and from one sample of a channel to the next.
W(f) == A!snd_pcm_format_physical_width(f) \div 4
Stride(layout, f) == IF layout = "interleaved" THEN AreaChannels * W(f) ELSE W(f)

\* The first nibble of sample i of channel c, in the buffer at nibble b.
Start(b, layout, f, c, i) ==
    IF layout = "interleaved" THEN b + W(f) * (c + AreaChannels * i)
    ELSE b + (8 * Frames) * c + W(f) * i

\* The two buffers: the one written to has the nibbles from 0 on, the one read from those
\* from Half on.
LEMMA Constants ==
    ASSUME A!AreasConstants
    PROVE  /\ AreaChannels \in Nat \ {0} /\ Frames \in Nat \ {0}
           /\ A!BufferBytes \in Nat /\ Half = 2 * A!BufferBytes /\ Half \in Nat \ {0}
           /\ A!Dst = 0 /\ 2 * A!Src = Half /\ A!Src \in Nat \ {0} /\ A!Nibbles = 0 .. 2 * Half - 1
           /\ Half = AreaChannels * (8 * Frames)
<1>1. AreaChannels \in Nat \ {0} /\ Frames \in Nat \ {0}
  BY DEF A!AreasConstants
<1>2. AreaChannels * Frames \in Nat \ {0}
  BY <1>1
<1>3. A!BufferBytes = 4 * (AreaChannels * Frames)
  BY <1>1, <1>2 DEF A!BufferBytes, A!SampleBytes
<1>4. AreaChannels * (8 * Frames) = 8 * (AreaChannels * Frames)
  BY <1>1
<1> QED BY <1>1, <1>2, <1>3, <1>4 DEF Half, A!Dst, A!Src, A!Nibbles

\* The widths of samples.
LEMMA Width ==
    ASSUME A!AreasConstants, NEW f \in AreaFormats
    PROVE  /\ W(f) \in {1, 2, 4, 6, 8} /\ A!snd_pcm_format_physical_width(f) = 4 * W(f)
           /\ A!snd_pcm_format_physical_width(f) \div 4 = W(f)
  BY DEF A!AreasConstants, W

\* The three kinds of areas.
LEMMA AreaIs ==
    ASSUME NEW b, NEW f, NEW c
    PROVE  LET phys == A!snd_pcm_format_physical_width(f)
           IN  /\ A!Area(b, "interleaved", f, c) =
                    [addr |-> b, first |-> c * phys, step |-> AreaChannels * phys]
               /\ A!Area(b, "noninterleaved", f, c) =
                    [addr |-> b + c * Frames * A!SampleBytes, first |-> 0, step |-> phys]
               /\ A!Area(b, "null", f, c) = [addr |-> A!NULL, first |-> 0, step |-> 0]
<1>1. "interleaved" # "noninterleaved" /\ "interleaved" # "null" /\ "noninterleaved" # "null"
  OBVIOUS
<1> QED BY <1>1, Zenon DEF A!Area

\* In nibbles: the first of an area's sample i, and the step.
LEMMA AreaFields ==
    ASSUME A!AreasConstants, NEW b \in Nat, NEW f \in AreaFormats, NEW c \in Nat,
           NEW layout \in Kinds
    PROVE  LET a == A!Area(b, layout, f, c)
           IN  /\ a.addr \in Nat /\ a.first \in Nat /\ a.step \in Nat /\ a.addr # A!NULL
               /\ a.step = 4 * Stride(layout, f) /\ Stride(layout, f) \in Nat /\ Stride(layout, f) >= W(f)
               /\ Start(2 * b, layout, f, c, 0) - 2 * a.addr \in Nat
               /\ a.first = 4 * (Start(2 * b, layout, f, c, 0) - 2 * a.addr)
               /\ \A i \in Nat : Start(2 * b, layout, f, c, i) = Start(2 * b, layout, f, c, 0) + Stride(layout, f) * i
<1>0. AreaChannels \in Nat \ {0} /\ Frames \in Nat \ {0} /\ W(f) \in Nat \ {0}
      /\ A!snd_pcm_format_physical_width(f) = 4 * W(f)
  <2>1. W(f) \in {1, 2, 4, 6, 8} /\ A!snd_pcm_format_physical_width(f) = 4 * W(f)
    BY Width
  <2>2. \A x \in {1, 2, 4, 6, 8} : x \in Nat \ {0}
    OBVIOUS
  <2> QED BY <2>1, <2>2, Constants
<1> DEFINE a == A!Area(b, layout, f, c)
           w == W(f)
<1>1. CASE layout = "interleaved"
  <2>1. a.addr = b /\ a.first = c * (4 * w) /\ a.step = AreaChannels * (4 * w)
    BY <1>0, <1>1, AreaIs
  <2>2. a.first = 4 * (c * w) /\ c * w \in Nat /\ a.step = 4 * (AreaChannels * w) /\ AreaChannels * w \in Nat
        /\ AreaChannels * w >= w
    BY <1>0, <2>1
  <2>3. ASSUME NEW i \in Nat PROVE w * (c + AreaChannels * i) = c * w + (AreaChannels * w) * i
    BY <1>0
  <2>4. Stride(layout, f) = AreaChannels * w
    BY <1>1 DEF Stride
  <2>5. \A i \in Nat : Start(2 * b, layout, f, c, i) = 2 * a.addr + c * w + Stride(layout, f) * i
    <3> TAKE i \in Nat
    <3>1. Start(2 * b, layout, f, c, i) = 2 * b + w * (c + AreaChannels * i)
      BY <1>1 DEF Start
    <3>2. AreaChannels * i \in Nat /\ w * (c + AreaChannels * i) \in Nat /\ (AreaChannels * w) * i \in Nat
      BY <1>0
    <3> QED BY <2>1, <2>2, <2>3, <2>4, <3>1, <3>2
  <2>6. a.addr \in Nat /\ a.addr # A!NULL
    BY <2>1 DEF A!NULL
  <2>7. Start(2 * b, layout, f, c, 0) = 2 * a.addr + c * w
    <3>1. Start(2 * b, layout, f, c, 0) = 2 * a.addr + c * w + Stride(layout, f) * 0
      BY <2>5
    <3>2. Stride(layout, f) \in Nat
      BY <2>2, <2>4
    <3> HIDE DEF a, w
    <3> QED BY <2>2, <2>6, <3>1, <3>2
  <2> HIDE DEF a, w
  <2> QED BY <2>2, <2>4, <2>5, <2>6, <2>7 DEF a, w
<1>2. CASE layout = "noninterleaved"
  <2>1. a.addr = b + c * Frames * 4 /\ a.first = 0 /\ a.step = 4 * w
    BY <1>0, <1>2, AreaIs DEF A!SampleBytes
  <2>2. c * Frames * 4 \in Nat /\ 2 * (c * Frames * 4) = (8 * Frames) * c
    BY <1>0
  <2>3. Stride(layout, f) = w
    BY <1>2 DEF Stride
  <2>4. \A i \in Nat : Start(2 * b, layout, f, c, i) = 2 * a.addr + 0 + Stride(layout, f) * i
    <3> TAKE i \in Nat
    <3>1. Start(2 * b, layout, f, c, i) = 2 * b + (8 * Frames) * c + w * i
      BY <1>2 DEF Start
    <3>2. w * i \in Nat
      BY <1>0
    <3> QED BY <2>1, <2>2, <2>3, <3>1, <3>2
  <2>5. a.addr \in Nat /\ a.addr # A!NULL /\ a.first = 4 * 0 /\ 0 \in Nat
    BY <2>1, <2>2 DEF A!NULL
  <2>6. w \in Nat
    BY <1>0
  <2>7. Start(2 * b, layout, f, c, 0) = 2 * a.addr
    <3>1. Start(2 * b, layout, f, c, 0) = 2 * a.addr + 0 + Stride(layout, f) * 0
      BY <2>4
    <3> HIDE DEF a, w
    <3> QED BY <2>3, <2>5, <2>6, <3>1
  <2>8. Start(2 * b, layout, f, c, 0) - 2 * a.addr = 0
    <3> HIDE DEF a, w
    <3> QED BY <2>5, <2>7
  <2>9. \A i \in Nat : Start(2 * b, layout, f, c, i) = Start(2 * b, layout, f, c, 0) + Stride(layout, f) * i
    <3> TAKE i \in Nat
    <3>1. Start(2 * b, layout, f, c, i) = 2 * a.addr + 0 + Stride(layout, f) * i
      BY <2>4
    <3> HIDE DEF a, w
    <3> QED BY <2>3, <2>5, <2>6, <2>7, <3>1
  <2> HIDE DEF a, w
  <2> QED BY <2>1, <2>3, <2>5, <2>6, <2>8, <2>9 DEF a, w
<1> QED BY <1>1, <1>2 DEF Kinds

\* snd_pcm_channel_area_addr leads to the first byte of a sample of whole bytes.
LEMMA AddrIs ==
    ASSUME A!AreasConstants, NEW b \in Nat, NEW f \in AreaFormats, NEW c \in Nat,
           NEW layout \in Kinds, NEW i \in Nat, W(f) # 1
    PROVE  LET a == A!Area(b, layout, f, c)
           IN  /\ A!snd_pcm_channel_area_addr(a, i) \in Nat
               /\ 2 * A!snd_pcm_channel_area_addr(a, i) = Start(2 * b, layout, f, c, i)
               /\ a.step \div 8 \in Nat /\ 2 * (a.step \div 8) = Stride(layout, f)
<1>0. AreaChannels \in Nat \ {0} /\ Frames \in Nat \ {0}
  BY Constants
<1>1. PICK v \in Nat : W(f) = 2 * v /\ A!snd_pcm_format_physical_width(f) = 8 * v
  <2>1. W(f) \in {2, 4, 6, 8} /\ A!snd_pcm_format_physical_width(f) = 4 * W(f)
    BY Width
  <2>2. \E v \in {1, 2, 3, 4} : W(f) = 2 * v
    BY <2>1
  <2> QED BY <2>1, <2>2
<1> DEFINE a == A!Area(b, layout, f, c)
<1>2. CASE layout = "interleaved"
  <2>1. a.addr = b /\ a.first = c * (8 * v) /\ a.step = AreaChannels * (8 * v)
    BY <1>1, <1>2, AreaIs
  <2>2. a.first + a.step * i = 8 * (v * (c + AreaChannels * i)) /\ v * (c + AreaChannels * i) \in Nat
    BY <1>0, <2>1
  <2>3. a.step = 8 * (AreaChannels * v) /\ AreaChannels * v \in Nat
    BY <1>0, <2>1
  <2>4. A!snd_pcm_channel_area_addr(a, i) = b + v * (c + AreaChannels * i)
    <3>1. (8 * (v * (c + AreaChannels * i))) \div 8 = v * (c + AreaChannels * i)
      BY <2>2, Exact8
    <3> HIDE DEF a
    <3> QED BY <2>1, <2>2, <3>1 DEF A!snd_pcm_channel_area_addr
  <2>5. a.step \div 8 = AreaChannels * v
    BY <2>3, Exact8
  <2>6. Start(2 * b, layout, f, c, i) = 2 * b + 2 * (v * (c + AreaChannels * i))
    <3>1. (2 * v) * (c + AreaChannels * i) = 2 * (v * (c + AreaChannels * i))
      BY <1>0
    <3> QED BY <1>1, <1>2, <3>1 DEF Start
  <2>7. Stride(layout, f) = 2 * (AreaChannels * v)
    BY <1>0, <1>1, <1>2 DEF Stride
  <2> HIDE DEF a
  <2> QED BY <2>2, <2>3, <2>4, <2>5, <2>6, <2>7 DEF a
<1>3. CASE layout = "noninterleaved"
  <2>1. a.addr = b + c * Frames * 4 /\ a.first = 0 /\ a.step = 8 * v
    BY <1>1, <1>3, AreaIs DEF A!SampleBytes
  <2>2. a.first + a.step * i = 8 * (v * i) /\ v * i \in Nat
    BY <1>0, <2>1
  <2>3. c * Frames * 4 \in Nat /\ 2 * (c * Frames * 4) = (8 * Frames) * c
    BY <1>0
  <2>4. A!snd_pcm_channel_area_addr(a, i) = b + c * Frames * 4 + v * i
    <3>1. (8 * (v * i)) \div 8 = v * i
      BY <2>2, Exact8
    <3> HIDE DEF a
    <3> QED BY <2>1, <2>2, <3>1 DEF A!snd_pcm_channel_area_addr
  <2>5. a.step \div 8 = v
    BY <2>1, Exact8
  <2>6. Start(2 * b, layout, f, c, i) = 2 * b + (8 * Frames) * c + 2 * (v * i)
    <3>1. (2 * v) * i = 2 * (v * i)
      OBVIOUS
    <3> QED BY <1>1, <1>3, <3>1 DEF Start
  <2>7. Stride(layout, f) = 2 * v
    BY <1>1, <1>3 DEF Stride
  <2> HIDE DEF a
  <2> QED BY <2>2, <2>3, <2>4, <2>5, <2>6, <2>7 DEF a
<1> QED BY <1>2, <1>3 DEF Kinds

\* Samples begin at nibbles.
LEMMA StartNat ==
    ASSUME A!AreasConstants, NEW b \in Nat, NEW f \in AreaFormats, NEW c \in Nat,
           NEW layout \in Kinds, NEW i \in Nat
    PROVE  Start(2 * b, layout, f, c, i) \in Nat
<1>0. AreaChannels \in Nat \ {0} /\ Frames \in Nat \ {0} /\ W(f) \in Nat
  <2>1. \A x \in {1, 2, 4, 6, 8} : x \in Nat
    OBVIOUS
  <2> QED BY <2>1, Constants, Width
<1>1. W(f) * (c + AreaChannels * i) \in Nat /\ W(f) * i \in Nat /\ (8 * Frames) * c \in Nat
  BY <1>0
<1> QED BY <1>1 DEF Start

\* The nibbles of a sample, as the properties count them.
LEMMA SampleIs ==
    ASSUME A!AreasConstants, NEW b \in Nat, NEW f \in AreaFormats, NEW c \in Nat,
           NEW layout \in Kinds, NEW i \in Nat
    PROVE  LET s == A!Sample(A!Area(b, layout, f, c), i, f)
           IN  /\ DOMAIN s = 0 .. W(f) - 1
               /\ \A n \in 0 .. W(f) - 1 : s[n] = Start(2 * b, layout, f, c, i) + n
<1> DEFINE a == A!Area(b, layout, f, c)
<1>1. /\ a.addr \in Nat /\ a.step = 4 * Stride(layout, f) /\ Stride(layout, f) \in Nat
      /\ Start(2 * b, layout, f, c, 0) - 2 * a.addr \in Nat
      /\ a.first = 4 * (Start(2 * b, layout, f, c, 0) - 2 * a.addr)
      /\ Start(2 * b, layout, f, c, i) = Start(2 * b, layout, f, c, 0) + Stride(layout, f) * i
  BY AreaFields
<1> HIDE DEF a
<1>2. PICK x \in Nat : /\ a.first = 4 * x
                       /\ Start(2 * b, layout, f, c, i) = 2 * a.addr + x + Stride(layout, f) * i
  <2>1. PICK y : y = Start(2 * b, layout, f, c, 0) - 2 * a.addr
    OBVIOUS
  <2>2. y \in Nat /\ a.first = 4 * y
    BY <1>1, <2>1
  <2>3. Start(2 * b, layout, f, c, 0) \in Nat
    BY <1>1, StartNat
  <2>4. Start(2 * b, layout, f, c, 0) = 2 * a.addr + y
    BY <1>1, <2>1, <2>3
  <2> QED BY <1>1, <2>2, <2>4
<1>3. (a.first + a.step * i) \div 4 = x + Stride(layout, f) * i
  <2>1. Stride(layout, f) * i \in Nat /\ a.first + a.step * i = 4 * (x + Stride(layout, f) * i)
    BY <1>1, <1>2
  <2> QED BY <2>1, Exact4
<1>4. A!snd_pcm_format_physical_width(f) \div 4 = W(f)
  BY Width
<1>5. A!Sample(a, i, f) = [n \in 0 .. W(f) - 1 |-> 2 * a.addr + (a.first + a.step * i) \div 4 + n]
  BY <1>4 DEF A!Sample
<1>6. ASSUME NEW n \in 0 .. W(f) - 1
      PROVE  A!Sample(a, i, f)[n] = Start(2 * b, layout, f, c, i) + n
  <2>1. A!Sample(a, i, f)[n] = 2 * a.addr + (a.first + a.step * i) \div 4 + n
    BY <1>5
  <2>2. Stride(layout, f) * i \in Nat
    BY <1>1
  <2> QED BY <2>1, <2>2, <1>1, <1>2, <1>3
<1>7. DOMAIN A!Sample(a, i, f) = 0 .. W(f) - 1
  BY <1>5
<1> QED BY <1>6, <1>7 DEF a

\* From one sample to a later one of the same channel.
LEMMA StartLater ==
    ASSUME A!AreasConstants, NEW b \in Nat, NEW f \in AreaFormats, NEW c \in Nat,
           NEW layout \in Kinds, NEW i \in Nat, NEW k \in Nat
    PROVE  /\ Start(2 * b, layout, f, c, i) \in Nat
           /\ Start(2 * b, layout, f, c, i + k) = Start(2 * b, layout, f, c, i) + Stride(layout, f) * k
<1>0. AreaChannels \in Nat \ {0} /\ Frames \in Nat \ {0} /\ W(f) \in Nat
  <2>1. \A x \in {1, 2, 4, 6, 8} : x \in Nat
    OBVIOUS
  <2> QED BY <2>1, Constants, Width
<1>1. PICK w \in Nat : w = W(f)
  BY <1>0
<1>2. CASE layout = "interleaved"
  <2>1. w * (c + AreaChannels * (i + k)) = w * (c + AreaChannels * i) + (AreaChannels * w) * k
        /\ w * (c + AreaChannels * i) \in Nat /\ (AreaChannels * w) * k \in Nat
    BY <1>0
  <2>2. /\ Start(2 * b, layout, f, c, i) = 2 * b + w * (c + AreaChannels * i)
        /\ Start(2 * b, layout, f, c, i + k) = 2 * b + w * (c + AreaChannels * (i + k))
        /\ Stride(layout, f) = AreaChannels * w
    BY <1>1, <1>2 DEF Start, Stride
  <2> QED BY <2>1, <2>2
<1>3. CASE layout = "noninterleaved"
  <2>1. w * (i + k) = w * i + w * k /\ w * i \in Nat /\ w * k \in Nat /\ (8 * Frames) * c \in Nat
    BY <1>0
  <2>2. /\ Start(2 * b, layout, f, c, i) = 2 * b + (8 * Frames) * c + w * i
        /\ Start(2 * b, layout, f, c, i + k) = 2 * b + (8 * Frames) * c + w * (i + k)
        /\ Stride(layout, f) = w
    BY <1>1, <1>3 DEF Start, Stride
  <2> QED BY <2>1, <2>2
<1> QED BY <1>2, <1>3 DEF Kinds

\* Samples lie in their buffer, ...
LEMMA Within ==
    ASSUME A!AreasConstants, NEW f \in AreaFormats, NEW c \in 0 .. AreaChannels - 1,
           NEW layout \in Kinds, NEW i \in 0 .. Frames - 1, NEW j \in 0 .. W(f) - 1
    PROVE  /\ Start(0, layout, f, c, i) + j \in 0 .. Half - 1
           /\ Start(Half, layout, f, c, i) = Half + Start(0, layout, f, c, i)
<1>0. /\ AreaChannels \in Nat \ {0} /\ Frames \in Nat \ {0} /\ W(f) \in 1 .. 8
      /\ Half = AreaChannels * (8 * Frames) /\ Half \in Nat
  <2>1. \A x \in {1, 2, 4, 6, 8} : x \in 1 .. 8
    OBVIOUS
  <2> QED BY <2>1, Constants, Width
<1> DEFINE w == W(f)
<1>1. CASE layout = "interleaved"
  <2>1. c + AreaChannels * i \in 0 .. AreaChannels * Frames - 1
    <3>1. AreaChannels * i <= AreaChannels * (Frames - 1)
      BY <1>0
    <3>2. AreaChannels * (Frames - 1) = AreaChannels * Frames - AreaChannels
      BY <1>0
    <3>3. AreaChannels * i \in Nat /\ AreaChannels * Frames \in Nat
      BY <1>0
    <3> QED BY <1>0, <3>1, <3>2, <3>3
  <2>2. PICK u \in Int : u = c + AreaChannels * i
    BY <2>1
  <2>3. PICK t \in Nat : t = AreaChannels * Frames
    BY <1>0
  <2>4. w * u + j \in 0 .. 8 * t - 1
    <3>1. u \in 0 .. t - 1 /\ w \in 1 .. 8 /\ j \in 0 .. w - 1
      BY <1>0, <2>1, <2>2, <2>3
    <3>2. w * u <= w * (t - 1) /\ w * (t - 1) = w * t - w /\ w * t <= 8 * t /\ w * u >= 0 /\ w * u \in Int /\ w * t \in Int
      BY <3>1
    <3> QED BY <3>1, <3>2
  <2>5. Half = 8 * t
    BY <1>0, <2>3
  <2>6. Start(0, layout, f, c, i) = 0 + w * u /\ Start(Half, layout, f, c, i) = Half + w * u
    BY <1>1, <2>2 DEF Start
  <2>7. w * u \in Int
    BY <1>0
  <2> QED BY <1>0, <2>4, <2>5, <2>6, <2>7
<1>2. CASE layout = "noninterleaved"
  <2>1. w * i + j \in 0 .. 8 * Frames - 1
    <3>1. w * i <= w * (Frames - 1) /\ w * (Frames - 1) = w * Frames - w /\ w * Frames <= 8 * Frames
          /\ w * i >= 0 /\ w * i \in Int /\ w * Frames \in Int
      BY <1>0
    <3> QED BY <1>0, <3>1
  <2>2. (8 * Frames) * c <= (8 * Frames) * (AreaChannels - 1) /\ (8 * Frames) * c \in Nat
        /\ (8 * Frames) * (AreaChannels - 1) = AreaChannels * (8 * Frames) - 8 * Frames
    BY <1>0
  <2>3. Start(0, layout, f, c, i) = 0 + (8 * Frames) * c + w * i
        /\ Start(Half, layout, f, c, i) = Half + (8 * Frames) * c + w * i
    BY <1>2 DEF Start
  <2>4. w * i \in Int /\ AreaChannels * (8 * Frames) \in Int
    BY <1>0
  <2> QED BY <1>0, <2>1, <2>2, <2>3, <2>4
<1> QED BY <1>1, <1>2 DEF Kinds

\* ... and apart from each other.
LEMMA Apart ==
    ASSUME A!AreasConstants, NEW f \in AreaFormats, NEW layout \in Kinds,
           NEW c \in 0 .. AreaChannels - 1, NEW i \in 0 .. Frames - 1, NEW j \in 0 .. W(f) - 1,
           NEW d \in 0 .. AreaChannels - 1, NEW k \in 0 .. Frames - 1, NEW l \in 0 .. W(f) - 1,
           Start(0, layout, f, c, i) + j = Start(0, layout, f, d, k) + l
    PROVE  c = d /\ i = k /\ j = l
<1>0. /\ AreaChannels \in Nat \ {0} /\ Frames \in Nat \ {0} /\ W(f) \in 1 .. 8
  <2>1. \A x \in {1, 2, 4, 6, 8} : x \in 1 .. 8
    OBVIOUS
  <2> QED BY <2>1, Constants, Width
<1>1. CASE layout = "interleaved"
  <2>1. /\ Start(0, layout, f, c, i) = W(f) * (c + AreaChannels * i)
        /\ Start(0, layout, f, d, k) = W(f) * (d + AreaChannels * k)
    <3>1. /\ Start(0, layout, f, c, i) = 0 + W(f) * (c + AreaChannels * i)
          /\ Start(0, layout, f, d, k) = 0 + W(f) * (d + AreaChannels * k)
      BY <1>1 DEF Start
    <3>2. W(f) * (c + AreaChannels * i) \in Int /\ W(f) * (d + AreaChannels * k) \in Int
      BY <1>0
    <3> QED BY <3>1, <3>2
  <2>2. c + AreaChannels * i \in Int /\ d + AreaChannels * k \in Int
    BY <1>0
  <2>3. c + AreaChannels * i = d + AreaChannels * k /\ j = l
    <3>1. W(f) \in Nat \ {0} /\ W(f) * (c + AreaChannels * i) + j = W(f) * (d + AreaChannels * k) + l
      BY <1>0, <2>1
    <3> HIDE DEF W
    <3>2. ASSUME NEW p \in Int, NEW q \in Int, W(f) * p + j = W(f) * q + l PROVE p = q /\ j = l
      BY <3>1, <3>2, Unique
    <3> QED BY <2>2, <3>1, <3>2
  <2>4. i = k /\ c = d
    <3>1. AreaChannels * i + c = AreaChannels * k + d
      BY <1>0, <2>3
    <3>2. i \in Int /\ k \in Int
      OBVIOUS
    <3> QED BY <1>0, <3>1, <3>2, Unique
  <2> QED BY <2>3, <2>4
<1>2. CASE layout = "noninterleaved"
  <2>1. ASSUME NEW e \in 0 .. Frames - 1, NEW n \in 0 .. W(f) - 1
        PROVE  W(f) * e + n \in 0 .. 8 * Frames - 1
    <3>1. W(f) * e <= W(f) * (Frames - 1) /\ W(f) * (Frames - 1) = W(f) * Frames - W(f)
          /\ W(f) * Frames <= 8 * Frames /\ W(f) * e >= 0 /\ W(f) * e \in Int /\ W(f) * Frames \in Int
      BY <1>0
    <3> QED BY <1>0, <3>1
  <2>2. /\ W(f) * i + j \in 0 .. 8 * Frames - 1 /\ W(f) * k + l \in 0 .. 8 * Frames - 1
    BY <2>1
  <2>3. (8 * Frames) * c + (W(f) * i + j) = (8 * Frames) * d + (W(f) * k + l)
    <3>1. /\ Start(0, layout, f, c, i) = 0 + (8 * Frames) * c + W(f) * i
          /\ Start(0, layout, f, d, k) = 0 + (8 * Frames) * d + W(f) * k
      BY <1>2 DEF Start
    <3>2. W(f) * i \in Int /\ W(f) * k \in Int /\ (8 * Frames) * c \in Int /\ (8 * Frames) * d \in Int
      BY <1>0
    <3> QED BY <3>1, <3>2
  <2>4. c = d /\ W(f) * i + j = W(f) * k + l
    <3>1. 8 * Frames \in Nat \ {0} /\ c \in Int /\ d \in Int
      BY <1>0
    <3>2. PICK z \in Nat \ {0} : z = 8 * Frames
      BY <3>1
    <3>3. ASSUME NEW p \in 0 .. z - 1, NEW q \in 0 .. z - 1, z * c + p = z * d + q PROVE c = d /\ p = q
      BY <3>1, <3>3, Unique
    <3> QED BY <2>2, <2>3, <3>2, <3>3
  <2>5. i = k /\ j = l
    <3>1. W(f) \in Nat \ {0} /\ i \in Int /\ k \in Int
      BY <1>0
    <3> HIDE DEF W
    <3> QED BY <2>4, <3>1, Unique
  <2> QED BY <2>4, <2>5
<1> QED BY <1>1, <1>2 DEF Kinds

-----------------------------------------------------------------------------
(* The bytes of silence. *)

\* The unsigned formats of the table.
UnsignedFormats ==
    {"U8", "U16_LE", "U16_BE", "U24_LE", "U24_BE", "U32_LE", "U32_BE", "U24_3LE", "U24_3BE",
     "U20_3LE", "U20_3BE", "U18_3LE", "U18_3BE"}

\* The unsigned formats whose silence is no pattern, as _snd_pcm_formats has them.
LEMMA Unsigned8 ==
    ASSUME NEW f \in A!AllFormats, A!snd_pcm_format_signed(f) = 0,
           A!snd_pcm_format_physical_width(f) \in {8, 16, 24, 32}, f \notin DOMAIN A!Patterns
    PROVE  f \in UnsignedFormats
  BY SMTT(60) DEF UnsignedFormats, A!AllFormats, A!_snd_pcm_formats, A!Signed, A!Unsigned,
       A!Coded, A!Entry, A!NA,
     A!snd_pcm_format_signed, A!snd_pcm_format_physical_width, A!Patterns

\* All other formats without a pattern are silent at zero: _snd_pcm_formats has no bytes.
LEMMA NoPattern ==
    ASSUME NEW f \in A!AllFormats, A!snd_pcm_format_signed(f) # 0, f \notin DOMAIN A!Patterns
    PROVE  A!_snd_pcm_formats[f].silence = <<>>
  BY SMTT(60) DEF A!AllFormats, A!_snd_pcm_formats, A!Signed, A!Unsigned, A!Coded, A!Entry, A!NA,
     A!snd_pcm_format_signed, A!Patterns

Row(f, w, p, le, signd, silence) ==
    A!_snd_pcm_formats[f] =
        [width |-> w, phys |-> p, le |-> le, signd |-> signd, silence |-> silence]

\* The rows of _snd_pcm_formats that have bytes for silence.
LEMMA Rows ==
    /\ Row("U8", 8, 8, -22, 0, <<128>>)
    /\ Row("U16_LE", 16, 16, 1, 0, <<0, 128>>)
    /\ Row("U16_BE", 16, 16, 0, 0, <<128, 0>>)
    /\ Row("U24_LE", 24, 32, 1, 0, <<0, 0, 128, 0>>)
    /\ Row("U24_BE", 24, 32, 0, 0, <<0, 128, 0, 0>>)
    /\ Row("U32_LE", 32, 32, 1, 0, <<0, 0, 0, 128>>)
    /\ Row("U32_BE", 32, 32, 0, 0, <<128, 0, 0, 0>>)
    /\ Row("U24_3LE", 24, 24, 1, 0, <<0, 0, 128>>)
    /\ Row("U24_3BE", 24, 24, 0, 0, <<128, 0, 0>>)
    /\ Row("U20_3LE", 20, 24, 1, 0, <<0, 0, 8>>)
    /\ Row("U20_3BE", 20, 24, 0, 0, <<8, 0, 0>>)
    /\ Row("U18_3LE", 18, 24, 1, 0, <<0, 0, 2>>)
    /\ Row("U18_3BE", 18, 24, 0, 0, <<2, 0, 0>>)
    /\ Row("MU_LAW", 8, 8, -22, -22, <<127>>)
    /\ Row("A_LAW", 8, 8, -22, -22, <<85>>)
    /\ Row("DSD_U8", 8, 8, 1, 0, <<105>>)
    /\ Row("DSD_U16_LE", 16, 16, 1, 0, <<105, 105>>)
    /\ Row("DSD_U16_BE", 16, 16, 0, 0, <<105, 105>>)
    /\ Row("DSD_U32_LE", 32, 32, 1, 0, <<105, 105, 105, 105>>)
    /\ Row("DSD_U32_BE", 32, 32, 0, 0, <<105, 105, 105, 105>>)
  BY SMTT(150) DEF Row, A!_snd_pcm_formats, A!Signed, A!Unsigned, A!Coded, A!Entry, A!NA

\* The bytes _snd_pcm_formats has for an unsigned format are the middle of its range.
LEMMA UnsignedBytes ==
    ASSUME NEW f \in UnsignedFormats, NEW i \in 0 .. A!snd_pcm_format_physical_width(f) \div 8 - 1
    PROVE  A!SilenceByte(f, i) = A!Midpoint(f, i)
<1> USE DEF Row, A!SilenceByte, A!Midpoint, A!snd_pcm_format_physical_width,
        A!snd_pcm_format_width, A!snd_pcm_format_big_endian, A!snd_pcm_format_little_endian, A!Not
<1>1. CASE f = "U8"
  <2>1. Row("U8", 8, 8, -22, 0, <<128>>)
    BY Rows
  <2> QED BY <1>1, <2>1
<1>2. CASE f = "U16_LE"
  <2>1. Row("U16_LE", 16, 16, 1, 0, <<0, 128>>)
    BY Rows
  <2> QED BY <1>2, <2>1
<1>3. CASE f = "U16_BE"
  <2>1. Row("U16_BE", 16, 16, 0, 0, <<128, 0>>)
    BY Rows
  <2> QED BY <1>3, <2>1
<1>4. CASE f = "U24_LE"
  <2>1. Row("U24_LE", 24, 32, 1, 0, <<0, 0, 128, 0>>)
    BY Rows
  <2> QED BY <1>4, <2>1
<1>5. CASE f = "U24_BE"
  <2>1. Row("U24_BE", 24, 32, 0, 0, <<0, 128, 0, 0>>)
    BY Rows
  <2> QED BY <1>5, <2>1
<1>6. CASE f = "U32_LE"
  <2>1. Row("U32_LE", 32, 32, 1, 0, <<0, 0, 0, 128>>)
    BY Rows
  <2> QED BY <1>6, <2>1
<1>7. CASE f = "U32_BE"
  <2>1. Row("U32_BE", 32, 32, 0, 0, <<128, 0, 0, 0>>)
    BY Rows
  <2> QED BY <1>7, <2>1
<1>8. CASE f = "U24_3LE"
  <2>1. Row("U24_3LE", 24, 24, 1, 0, <<0, 0, 128>>)
    BY Rows
  <2> QED BY <1>8, <2>1
<1>9. CASE f = "U24_3BE"
  <2>1. Row("U24_3BE", 24, 24, 0, 0, <<128, 0, 0>>)
    BY Rows
  <2> QED BY <1>9, <2>1
<1>10. CASE f = "U20_3LE"
  <2>1. Row("U20_3LE", 20, 24, 1, 0, <<0, 0, 8>>)
    BY Rows
  <2> QED BY <1>10, <2>1
<1>11. CASE f = "U20_3BE"
  <2>1. Row("U20_3BE", 20, 24, 0, 0, <<8, 0, 0>>)
    BY Rows
  <2> QED BY <1>11, <2>1
<1>12. CASE f = "U18_3LE"
  <2>1. Row("U18_3LE", 18, 24, 1, 0, <<0, 0, 2>>)
    BY Rows
  <2> QED BY <1>12, <2>1
<1>13. CASE f = "U18_3BE"
  <2>1. Row("U18_3BE", 18, 24, 0, 0, <<2, 0, 0>>)
    BY Rows
  <2> QED BY <1>13, <2>1
<1> QED BY <1>1, <1>2, <1>3, <1>4, <1>5, <1>6, <1>7, <1>8, <1>9, <1>10, <1>11, <1>12,
     <1>13 DEF UnsignedFormats

\* The bytes _snd_pcm_formats has for a coded format are its pattern.
LEMMA PatternBytes ==
    ASSUME NEW f \in DOMAIN A!Patterns, NEW i \in 0 .. A!snd_pcm_format_physical_width(f) \div 8 - 1
    PROVE  A!SilenceByte(f, i) = A!Patterns[f]
<1> USE DEF Row, A!SilenceByte, A!Patterns, A!snd_pcm_format_physical_width
<1>1. CASE f = "MU_LAW"
  <2>1. Row("MU_LAW", 8, 8, -22, -22, <<127>>)
    BY Rows
  <2> QED BY <1>1, <2>1
<1>2. CASE f = "A_LAW"
  <2>1. Row("A_LAW", 8, 8, -22, -22, <<85>>)
    BY Rows
  <2> QED BY <1>2, <2>1
<1>3. CASE f = "DSD_U8"
  <2>1. Row("DSD_U8", 8, 8, 1, 0, <<105>>)
    BY Rows
  <2> QED BY <1>3, <2>1
<1>4. CASE f = "DSD_U16_LE"
  <2>1. Row("DSD_U16_LE", 16, 16, 1, 0, <<105, 105>>)
    BY Rows
  <2> QED BY <1>4, <2>1
<1>5. CASE f = "DSD_U16_BE"
  <2>1. Row("DSD_U16_BE", 16, 16, 0, 0, <<105, 105>>)
    BY Rows
  <2> QED BY <1>5, <2>1
<1>6. CASE f = "DSD_U32_LE"
  <2>1. Row("DSD_U32_LE", 32, 32, 1, 0, <<105, 105, 105, 105>>)
    BY Rows
  <2> QED BY <1>6, <2>1
<1>7. CASE f = "DSD_U32_BE"
  <2>1. Row("DSD_U32_BE", 32, 32, 0, 0, <<105, 105, 105, 105>>)
    BY Rows
  <2> QED BY <1>7, <2>1
<1> QED BY <1>1, <1>2, <1>3, <1>4, <1>5, <1>6, <1>7

\* The bytes of silence in _snd_pcm_formats are those of a silent sample; of a format that
\* is signed, or of one byte, they are all alike, which snd_pcm_format_set_silence relies on.
LEMMA SilenceIs ==
    ASSUME NEW f \in A!AllFormats, A!snd_pcm_format_physical_width(f) \in {8, 16, 24, 32},
           NEW i \in 0 .. A!snd_pcm_format_physical_width(f) \div 8 - 1
    PROVE  /\ A!SilenceByte(f, i) = A!SilentByte(f, i)
           /\ A!snd_pcm_format_signed(f) = 1 \/ A!snd_pcm_format_physical_width(f) <= 8 =>
                A!SilentByte(f, i) = A!SilenceByte(f, 0)
<1>1. CASE f \in DOMAIN A!Patterns
  <2>1. 0 \in 0 .. A!snd_pcm_format_physical_width(f) \div 8 - 1
    OBVIOUS
  <2> QED BY <1>1, <2>1, PatternBytes DEF A!SilentByte
<1>2. CASE f \notin DOMAIN A!Patterns /\ A!snd_pcm_format_signed(f) = 0
  <2>1. A!SilentByte(f, i) = A!Midpoint(f, i)
    BY <1>2 DEF A!SilentByte, A!snd_pcm_format_unsigned, A!Not
  <2>2. A!snd_pcm_format_physical_width(f) <= 8 => i = 0
    OBVIOUS
  <2>3. A!SilenceByte(f, i) = A!Midpoint(f, i)
    BY <1>2, Unsigned8, UnsignedBytes
  <2> QED BY <1>2, <2>1, <2>2, <2>3
<1>3. CASE f \notin DOMAIN A!Patterns /\ A!snd_pcm_format_signed(f) # 0
  <2>1. \A j \in {i, 0} : A!SilenceByte(f, j) = 0
    BY <1>3, NoPattern DEF A!SilenceByte
  <2>2. A!SilentByte(f, i) = 0
    BY <1>3 DEF A!SilentByte, A!snd_pcm_format_unsigned, A!Not
  <2> QED BY <2>1, <2>2
<1> QED BY <1>1, <1>2, <1>3

-----------------------------------------------------------------------------
(* What the memory functions write. *)

\* Of the nibbles of T, m2 has those of v, and of the others those of m.
Written(m2, m, T, v) == m2 = [x \in A!Nibbles |-> IF x \in T THEN v[x] ELSE m[x]]

\* What a memory function leaves is a memory.
LEMMA WrittenType ==
    ASSUME NEW m \in Mem, NEW v \in Mem, NEW T, NEW m2, Written(m2, m, T, v)
    PROVE  m2 \in Mem
  BY DEF Written, Mem

\* Two memory functions, one after the other, write what both of them write.
LEMMA WrittenAfter ==
    ASSUME NEW m \in Mem, NEW v \in Mem, NEW T, NEW U, NEW m1, NEW m2,
           Written(m1, m, T, v), Written(m2, m1, U, v)
    PROVE  Written(m2, m, T \cup U, v)
  BY DEF Written, Mem

\* A call that writes nothing leaves the memory as it was.
LEMMA WrittenNothing ==
    ASSUME NEW m \in Mem, NEW v, NEW T, T = {}
    PROVE  Written(m, m, T, v)
  BY DEF Written, Mem

\* A memory is written as said if each of its nibbles is.
LEMMA WrittenBy ==
    ASSUME NEW m, NEW v, NEW T, NEW m2, m2 = [x \in A!Nibbles |-> m2[x]],
           \A x \in A!Nibbles : m2[x] = IF x \in T THEN v[x] ELSE m[x]
    PROVE  Written(m2, m, T, v)
  BY DEF Written

\* What a byte b puts into nibble x.
Nibble(b, x) == A!Bits(IF x % 2 = 0 THEN b \div 16 ELSE b % 16)

\* Samples of whole bytes.
LEMMA WholeBytes ==
    ASSUME A!AreasConstants, NEW f \in AreaFormats, W(f) # 1
    PROVE  \E u \in 1 .. 4 : /\ W(f) = 2 * u /\ A!snd_pcm_format_physical_width(f) = 8 * u
                             /\ A!snd_pcm_format_physical_width(f) \div 8 = u
<1>1. W(f) \in {2, 4, 6, 8} /\ A!snd_pcm_format_physical_width(f) = 4 * W(f)
  BY Width
<1>2. \E u \in 1 .. 4 : W(f) = 2 * u
  BY <1>1
<1> QED BY <1>1, <1>2

\* The silent nibbles of such a sample are those of the bytes that are written.
LEMMA SilentIs ==
    ASSUME A!AreasConstants, NEW f \in AreaFormats, W(f) # 1, NEW j \in 0 .. W(f) - 1
    PROVE  /\ A!SilentNibble(f, j) =
                LET b == A!SilenceByte(f, j \div 2) IN A!Bits(IF j % 2 = 0 THEN b \div 16 ELSE b % 16)
           /\ A!snd_pcm_format_signed(f) = 1 \/ A!snd_pcm_format_physical_width(f) <= 8 =>
                A!SilentNibble(f, j) =
                    LET b == A!SilenceByte(f, 0) IN A!Bits(IF j % 2 = 0 THEN b \div 16 ELSE b % 16)
<1>1. PICK u \in 1 .. 4 : W(f) = 2 * u /\ A!snd_pcm_format_physical_width(f) = 8 * u
                          /\ A!snd_pcm_format_physical_width(f) \div 8 = u
  BY WholeBytes
<1>2. f \in A!AllFormats /\ A!snd_pcm_format_physical_width(f) \in {8, 16, 24, 32}
  BY <1>1 DEF A!AreasConstants
<1>3. j \div 2 \in 0 .. A!snd_pcm_format_physical_width(f) \div 8 - 1
  BY <1>1
<1>4. /\ A!SilenceByte(f, j \div 2) = A!SilentByte(f, j \div 2)
      /\ A!snd_pcm_format_signed(f) = 1 \/ A!snd_pcm_format_physical_width(f) <= 8 =>
            A!SilentByte(f, j \div 2) = A!SilenceByte(f, 0)
  BY <1>2, <1>3, SilenceIs
<1> QED BY <1>4 DEF A!SilentNibble

\* A place in a row of samples is in one of them.
LEMMA Split ==
    ASSUME NEW w \in Nat \ {0}, NEW n \in Nat, NEW q \in Int, NEW x \in q .. q + w * n - 1
    PROVE  \E k \in 0 .. n - 1, j \in 0 .. w - 1 : x = q + w * k + j
<1>1. w * n \in Nat
  OBVIOUS
<1> DEFINE k == (x - q) \div w
           j == (x - q) % w
<1>2. k \in Int /\ j \in 0 .. w - 1 /\ x - q = w * k + j /\ x - q \in 0 .. w * n - 1
  BY <1>1
<1>3. k >= 0
  <2> HIDE DEF k, j
  <2>1. k <= -1 => w * k <= -w
    BY <1>2
  <2> QED BY <1>2, <2>1
<1>4. k <= n - 1
  <2> HIDE DEF k, j
  <2>1. k >= n => w * k >= w * n
    BY <1>2
  <2> QED BY <1>1, <1>2, <2>1
<1>5. w * k \in Int
  BY <1>2
<1>6. x = q + w * k + j
  <2> HIDE DEF k, j
  <2> QED BY <1>2, <1>5
<1> HIDE DEF k, j
<1> QED BY <1>2, <1>3, <1>4, <1>6

\* snd_pcm_format_set_silence on n samples that lie side by side from byte p on.
LEMMA SetSilence ==
    ASSUME A!AreasConstants, NEW f \in AreaFormats, W(f) # 1, NEW m \in Mem, NEW v \in Mem,
           NEW p \in Nat, NEW n \in Nat, 2 * p + W(f) * n <= 2 * Half,
           \A k \in 0 .. n - 1, j \in 0 .. W(f) - 1 : v[2 * p + W(f) * k + j] = A!SilentNibble(f, j)
    PROVE  Written(A!snd_pcm_format_set_silence(m, f, p, n), m, 2 * p .. 2 * p + W(f) * n - 1, v)
<1> DEFINE phys == A!snd_pcm_format_physical_width(f)
           result == A!snd_pcm_format_set_silence(m, f, p, n)
<1>1. PICK u \in 1 .. 4 : W(f) = 2 * u /\ phys = 8 * u /\ phys \div 8 = u
  BY WholeBytes
<1>2. Half \in Nat /\ A!Nibbles = 0 .. 2 * Half - 1
  BY Constants
<1>3. DOMAIN m = A!Nibbles
  BY DEF Mem
<1>4. CASE n = 0
  <2>1. result = m
    <3>1. ~(n > 0)
      BY <1>4
    <3> QED BY <1>4, <3>1, Zenon DEF A!snd_pcm_format_set_silence
  <2>2. 2 * p .. 2 * p + W(f) * n - 1 = {}
    <3>1. W(f) * n = 0
      BY <1>1, <1>4
    <3> QED BY <3>1
  <2> QED BY <2>1, <2>2, WrittenNothing
<1>5. CASE n > 0 /\ (A!snd_pcm_format_signed(f) = 1 \/ phys <= 8)
  <2>1. phys > 0 /\ ~(n = 0 \/ phys <= 0)
    BY <1>1, <1>5
  <2>2. result = A!Write(m, p, (n * phys) \div 8, LAMBDA i : A!SilenceByte(f, 0))
    BY <1>5, <2>1, Zenon DEF A!snd_pcm_format_set_silence
  <2>3. (n * phys) \div 8 = n * u
    <3>1. n * phys = 8 * (n * u) /\ n * u \in Int
      BY <1>1
    <3> QED BY <3>1, Exact8
  <2>4. result = [x \in A!Nibbles |-> IF x \in 2 * p .. 2 * (p + n * u) - 1
                                      THEN Nibble(A!SilenceByte(f, 0), x) ELSE m[x]]
    <3>1. DOMAIN m = A!Nibbles
      BY DEF Mem
    <3> QED BY <2>2, <2>3, <3>1, Zenon DEF A!Write, Nibble
  <2>5. 2 * (p + n * u) - 1 = 2 * p + W(f) * n - 1
    <3>1. 2 * (p + n * u) = 2 * p + (2 * u) * n
      OBVIOUS
    <3>2. W(f) * n = (2 * u) * n
      BY <1>1
    <3> QED BY <3>1, <3>2
  <2>6. ASSUME NEW x \in 2 * p .. 2 * p + W(f) * n - 1
        PROVE  Nibble(A!SilenceByte(f, 0), x) = v[x]
    <3>1. W(f) \in Nat \ {0} /\ 2 * p \in Int
      BY <1>1
    <3>2. PICK k \in 0 .. n - 1, j \in 0 .. W(f) - 1 : x = 2 * p + W(f) * k + j
      <4> HIDE DEF W
      <4> QED BY <3>1, Split
    <3>3. x % 2 = j % 2
      <4>1. W(f) * k = 2 * (u * k) /\ u * k \in Int
        BY <1>1
      <4>2. \A y \in Int : (2 * y + j) % 2 = j % 2
        OBVIOUS
      <4>3. x = 2 * (p + u * k) + j /\ p + u * k \in Int
        BY <3>2, <4>1
      <4> QED BY <4>2, <4>3
    <3>4. A!SilentNibble(f, j) = Nibble(A!SilenceByte(f, 0), j)
      BY <1>5, SilentIs DEF Nibble
    <3>5. v[x] = A!SilentNibble(f, j)
      BY <3>2
    <3> QED BY <3>3, <3>4, <3>5 DEF Nibble
  <2> QED BY <2>4, <2>5, <2>6 DEF Written
<1>6. CASE n > 0 /\ ~(A!snd_pcm_format_signed(f) = 1 \/ phys <= 8)
  <2> DEFINE R(mm, k) == A!Write(mm, p + k * (phys \div 8), phys \div 8, LAMBDA i : A!SilenceByte(f, i))
             F(g) == g = [k \in 0 .. n |-> IF k = 0 THEN m ELSE R(g[k - 1], k - 1)]
             T(k) == 2 * p .. 2 * p + W(f) * k - 1
  <2>1. phys > 0 /\ ~(n = 0 \/ phys <= 0)
    BY <1>1, <1>6
  <2>2. result = A!Loop(m, n, LAMBDA mm, k : R(mm, k))
    BY <1>6, <2>1, Zenon DEF A!snd_pcm_format_set_silence
  <2>3. ASSUME NEW mm \in Mem, NEW k \in 0 .. n - 1
        PROVE  /\ Written(R(mm, k), mm, 2 * p + W(f) * k .. 2 * p + W(f) * (k + 1) - 1, v)
               /\ R(mm, k) \in Mem
    <3>1. DOMAIN mm = A!Nibbles
      BY DEF Mem
    <3>2. ASSUME NEW x \in A!Nibbles
          PROVE  R(mm, k)[x] =
                    IF x \in 2 * (p + k * u) .. 2 * (p + k * u + u) - 1
                    THEN Nibble(A!SilenceByte(f, (x - 2 * (p + k * u)) \div 2), x) ELSE mm[x]
      BY <1>1, <3>1, Zenon DEF A!Write, Nibble
    <3>6. R(mm, k) = [x \in A!Nibbles |-> R(mm, k)[x]]
      BY <3>1, Zenon DEF A!Write
    <3>3. 2 * (p + k * u) = 2 * p + W(f) * k /\ 2 * (p + k * u + u) = 2 * p + W(f) * (k + 1)
      <4>1. 2 * (p + k * u) = 2 * p + (2 * u) * k /\ 2 * (p + k * u + u) = 2 * p + (2 * u) * (k + 1)
        OBVIOUS
      <4> QED BY <1>1, <4>1
    <3>4. ASSUME NEW x \in 2 * p + W(f) * k .. 2 * p + W(f) * (k + 1) - 1
          PROVE  Nibble(A!SilenceByte(f, (x - 2 * (p + k * u)) \div 2), x) = v[x]
      <4>1. W(f) * (k + 1) = W(f) * k + W(f) /\ W(f) * k \in Int
        BY <1>1
      <4>2. PICK j \in 0 .. W(f) - 1 : x = 2 * p + W(f) * k + j
        <5>1. x - (2 * p + W(f) * k) \in 0 .. W(f) - 1 /\ x = 2 * p + W(f) * k + (x - (2 * p + W(f) * k))
          BY <1>1, <4>1
        <5> QED BY <5>1
      <4>3. x % 2 = j % 2
        <5>1. W(f) * k = 2 * (u * k) /\ u * k \in Int
          BY <1>1
        <5>2. \A y \in Int : (2 * y + j) % 2 = j % 2
          OBVIOUS
        <5>3. x = 2 * (p + u * k) + j /\ p + u * k \in Int
          BY <4>2, <5>1
        <5> QED BY <5>2, <5>3
      <4>4. A!SilentNibble(f, j) = Nibble(A!SilenceByte(f, j \div 2), j)
        BY SilentIs DEF Nibble
      <4>5. v[x] = A!SilentNibble(f, j)
        BY <4>2
      <4>6. x - 2 * (p + k * u) = j
        <5>1. x - (2 * p + W(f) * k) = j
          BY <4>1, <4>2
        <5> QED BY <5>1, <3>3
      <4> QED BY <4>3, <4>4, <4>5, <4>6 DEF Nibble
    <3>5. Written(R(mm, k), mm, 2 * p + W(f) * k .. 2 * p + W(f) * (k + 1) - 1, v)
      <4> HIDE DEF R, phys
      <4>2. 2 * (p + k * u) .. 2 * (p + k * u + u) - 1 = 2 * p + W(f) * k .. 2 * p + W(f) * (k + 1) - 1
        <5>1. W(f) * (k + 1) \in Int /\ W(f) * k \in Int
          BY <1>1
        <5>2. PICK e \in Int : e = W(f) * (k + 1)
          BY <5>1
        <5>3. 2 * p + W(f) * (k + 1) - 1 = 2 * (p + k * u + u) - 1
          <6>1. 2 * p + e - 1 = (2 * p + e) - 1
            OBVIOUS
          <6> QED BY <3>3, <5>2, <6>1, Zenon
        <5> QED BY <3>3, <5>3, Zenon
      <4>3. ASSUME NEW x \in A!Nibbles
            PROVE  R(mm, k)[x] = IF x \in 2 * p + W(f) * k .. 2 * p + W(f) * (k + 1) - 1 THEN v[x] ELSE mm[x]
        <5>1. CASE x \in 2 * p + W(f) * k .. 2 * p + W(f) * (k + 1) - 1
          <6>1. x \in 2 * (p + k * u) .. 2 * (p + k * u + u) - 1
            BY <4>2, <5>1, Zenon
          <6> QED BY <3>2, <3>4, <5>1, <6>1, Zenon
        <5>2. CASE x \notin 2 * p + W(f) * k .. 2 * p + W(f) * (k + 1) - 1
          <6>1. x \notin 2 * (p + k * u) .. 2 * (p + k * u + u) - 1
            BY <4>2, <5>2, Zenon
          <6> QED BY <3>2, <5>2, <6>1, Zenon
        <5> QED BY <5>1, <5>2
      <4> QED BY <3>6, <4>3, WrittenBy
    <3> HIDE DEF R
    <3> QED BY <3>5, WrittenType
  <2> HIDE DEF R
  <2>4. PICK g : F(g) /\ result = g[n]
    <3>1. PICK Q : Q = [s \in Mem \X (0 .. n - 1) |-> R(s[1], s[2])]
      OBVIOUS
    <3>2. Q \in [Mem \X (0 .. n - 1) -> Mem]
      <4> HIDE DEF R
      <4> QED BY <2>3, <3>1
    <3>3. PICK h : Runs(h, Mem, m, n, Q)
      BY <3>2, LoopRuns
    <3>4. F(h)
      <4>1. ASSUME NEW k \in 0 .. n, k # 0 PROVE h[k] = R(h[k - 1], k - 1)
        <5>1. k - 1 \in 0 .. n - 1 /\ k - 1 \in 0 .. n /\ (k - 1) + 1 = k
          BY <4>1
        <5>2. h[k - 1] \in Mem
          BY <3>3, <5>1 DEF Runs
        <5>3. h[k] = Q[<<h[k - 1], k - 1>>]
          BY <3>3, <5>1 DEF Runs
        <5> QED BY <3>1, <5>1, <5>2, <5>3
      <4>2. ASSUME NEW k \in 0 .. n PROVE h[k] = IF k = 0 THEN m ELSE R(h[k - 1], k - 1)
        BY <3>3, <4>1 DEF Runs
      <4>3. h = [k \in 0 .. n |-> h[k]]
        BY <3>3 DEF Runs
      <4> QED BY <4>2, <4>3
    <3>5. result = (CHOOSE g : F(g))[n]
      BY <2>2 DEF A!Loop
    <3> HIDE DEF F
    <3> QED BY <3>4, <3>5
  <2>5. g[0] = m /\ \A k \in 0 .. n - 1 : g[k + 1] = R(g[k], k)
    <3> HIDE DEF R
    <3> QED BY <2>4
  <2> DEFINE I == {s \in Mem \X (0 .. n) : Written(s[1], m, T(s[2]), v)}
  <2>6. <<g[0], 0>> \in I
    <3>1. T(0) = {}
      BY <1>1
    <3> HIDE DEF T
    <3> QED BY <2>5, <3>1 DEF Written, Mem
  <2>7. ASSUME NEW k \in 0 .. n - 1, <<g[k], k>> \in I PROVE <<g[k + 1], k + 1>> \in I
    <3>1. g[k] \in Mem /\ Written(g[k], m, T(k), v)
      BY <2>7
    <3>2. T(k) \cup (2 * p + W(f) * k .. 2 * p + W(f) * (k + 1) - 1) = T(k + 1)
      <4>1. W(f) * (k + 1) = W(f) * k + W(f) /\ W(f) * k \in Nat
        BY <1>1
      <4> QED BY <1>1, <4>1
    <3>3. g[k + 1] = R(g[k], k) /\ k + 1 \in 0 .. n
      BY <2>5
    <3> HIDE DEF R, T
    <3>4. /\ Written(g[k + 1], g[k], 2 * p + W(f) * k .. 2 * p + W(f) * (k + 1) - 1, v)
          /\ g[k + 1] \in Mem
      BY <2>3, <3>1, <3>3
    <3>5. Written(g[k + 1], m, T(k + 1), v)
      BY <3>1, <3>2, <3>4, WrittenAfter, ZenonT(30)
    <3> QED BY <3>3, <3>4, <3>5
  <2>8. <<g[n], n>> \in I
    <3> HIDE DEF I
    <3> QED BY <2>6, <2>7, LoopKeeps
  <2>9. Written(g[n], m, T(n), v)
    BY <2>8
  <2> HIDE DEF R, F
  <2> QED BY <2>4, <2>9
<1> QED BY <1>4, <1>5, <1>6

\* The memories that differ from m in nibbles of E alone.
Near(m, E) == {mm \in Mem : \A x \in A!Nibbles \ E : mm[x] = m[x]}

\* A round of a loop that writes in E alone changes nothing outside of it.
LEMMA WrittenNear ==
    ASSUME NEW m, NEW E, NEW D, D \subseteq E, NEW v \in Mem,
           NEW m1 \in Near(m, E), NEW m2, Written(m2, m1, D, v)
    PROVE  m2 \in Near(m, E)
  BY DEF Written, Near, Mem

\* A function for the rounds of a loop, and its values.
Values(h, S, m, n, Q) ==
    h \in [0 .. n -> S] /\ h = [k \in 0 .. n |-> IF k = 0 THEN m ELSE Q[<<h[k - 1], k - 1>>]]

\* The values that Loop chooses exist, if every round stays among the values.
LEMMA LoopExists ==
    ASSUME NEW S, NEW m \in S, NEW n \in Nat, NEW Q \in [S \X (0 .. n - 1) -> S]
    PROVE  \E h : Values(h, S, m, n, Q)
<1>1. PICK h : Runs(h, S, m, n, Q)
  BY LoopRuns
<1>2. h \in [0 .. n -> S]
  BY <1>1 DEF Runs
<1>3. ASSUME NEW k \in 0 .. n PROVE h[k] = IF k = 0 THEN m ELSE Q[<<h[k - 1], k - 1>>]
  <2>1. CASE k = 0
    BY <1>1, <2>1 DEF Runs
  <2>2. CASE k # 0
    <3>1. k - 1 \in 0 .. n - 1 /\ (k - 1) + 1 = k
      BY <2>2
    <3> QED BY <1>1, <2>2, <3>1 DEF Runs
  <2> QED BY <2>1, <2>2
<1>4. h = [k \in 0 .. n |-> IF k = 0 THEN m ELSE Q[<<h[k - 1], k - 1>>]]
  BY <1>2, <1>3
<1> QED BY <1>2, <1>4 DEF Values

\* Rounds each of which writes its own nibbles write, together, all of them.
Together(D, n) == UNION {D[k] : k \in 0 .. n - 1}

\* The rounds of a loop over samples or channels write all that each of them writes, and
\* nothing else.
LEMMA LoopWritten ==
    ASSUME NEW m \in Mem, NEW v \in Mem, NEW n \in Nat, NEW E, NEW g, NEW D, g[0] = m,
           \A k \in 0 .. n - 1 : D[k] \subseteq E,
           \A k \in 0 .. n - 1 : g[k] \in Near(m, E) => Written(g[k + 1], g[k], D[k], v)
    PROVE  Written(g[n], m, Together(D, n), v)
<1> DEFINE T(k) == UNION {D[l] : l \in 0 .. k - 1}
           I == {s \in Near(m, E) \X (0 .. n) : Written(s[1], m, T(s[2]), v)}
<1>1. <<g[0], 0>> \in I
  <2>1. T(0) = {}
    OBVIOUS
  <2>2. m \in Near(m, E)
    BY DEF Near
  <2> HIDE DEF T
  <2>3. Written(m, m, T(0), v)
    BY <2>1, WrittenNothing
  <2> QED BY <2>2, <2>3
<1>2. ASSUME NEW k \in 0 .. n - 1, <<g[k], k>> \in I PROVE <<g[k + 1], k + 1>> \in I
  <2>1. g[k] \in Near(m, E) /\ Written(g[k], m, T(k), v) /\ k + 1 \in 0 .. n
    <3> HIDE DEF T
    <3> QED BY <1>2
  <2>2. T(k) \cup D[k] = T(k + 1)
    <3>1. 0 .. (k + 1) - 1 = (0 .. k - 1) \cup {k}
      OBVIOUS
    <3> QED BY <3>1
  <2> HIDE DEF T
  <2>3. Written(g[k + 1], g[k], D[k], v)
    BY <2>1
  <2>4. g[k + 1] \in Near(m, E)
    BY <2>1, <2>3, WrittenNear
  <2>5. Written(g[k + 1], m, T(k + 1), v)
    BY <2>1, <2>2, <2>3, WrittenAfter DEF Near
  <2> QED BY <2>1, <2>4, <2>5
<1>3. <<g[n], n>> \in I
  <2> HIDE DEF I
  <2> QED BY <1>1, <1>2, LoopKeeps
<1> QED BY <1>3 DEF Together

\* The nibbles of n samples of a channel, from sample o on.
Cells(layout, f, c, o, n) ==
    UNION {Start(0, layout, f, c, o + k) .. Start(0, layout, f, c, o + k) + (W(f) - 1) : k \in 0 .. n - 1}

\* They lie in the buffer written to.
LEMMA CellsWithin ==
    ASSUME A!AreasConstants, NEW f \in AreaFormats, NEW c \in 0 .. AreaChannels - 1,
           NEW layout \in Kinds, NEW o \in 0 .. Frames - 1, NEW k \in Nat, o + k < Frames
    PROVE  /\ Start(0, layout, f, c, o + k) \in Nat
           /\ Start(0, layout, f, c, o + k) .. Start(0, layout, f, c, o + k) + (W(f) - 1)
                \subseteq 0 .. Half - 1
           /\ Start(0, layout, f, c, o + k) + W(f) <= Half
<1>1. o + k \in 0 .. Frames - 1 /\ W(f) \in 1 .. 8 /\ Half \in Nat
  <2>1. \A x \in {1, 2, 4, 6, 8} : x \in 1 .. 8
    OBVIOUS
  <2>2. W(f) \in 1 .. 8
    BY <2>1, Width
  <2>3. Half \in Nat /\ Frames \in Nat
    BY Constants
  <2> QED BY <2>2, <2>3
<1>2. \A j \in 0 .. W(f) - 1 : Start(0, layout, f, c, o + k) + j \in 0 .. Half - 1
  BY <1>1, Within
<1>3. Start(0, layout, f, c, o + k) \in Nat
  <2>1. 2 * 0 = 0
    OBVIOUS
  <2>2. c \in Nat /\ o + k \in Nat
    OBVIOUS
  <2> QED BY <2>1, <2>2, StartNat
<1>4. Start(0, layout, f, c, o + k) + 0 \in 0 .. Half - 1
      /\ Start(0, layout, f, c, o + k) + (W(f) - 1) \in 0 .. Half - 1
  BY <1>1, <1>2
<1> QED BY <1>1, <1>3, <1>4

\* Samples that lie side by side make one run of nibbles.
LEMMA CellsRun ==
    ASSUME A!AreasConstants, NEW f \in AreaFormats, NEW layout \in Kinds,
           NEW c \in 0 .. AreaChannels - 1, NEW o \in 0 .. Frames - 1, NEW n \in Nat, o + n <= Frames,
           Stride(layout, f) = W(f), NEW p \in Nat, 2 * p = Start(0, layout, f, c, o)
    PROVE  /\ Cells(layout, f, c, o, n) = 2 * p .. 2 * p + W(f) * n - 1
           /\ 2 * p + W(f) * n <= Half
           /\ \A k \in 0 .. n - 1 : Start(0, layout, f, c, o + k) = 2 * p + W(f) * k
<1> DEFINE S(k) == Start(0, layout, f, c, o + k)
<1>1. W(f) \in Nat \ {0}
  <2>1. \A x \in {1, 2, 4, 6, 8} : x \in Nat \ {0}
    OBVIOUS
  <2> QED BY <2>1, Width
<1>2. c \in Nat /\ o \in Nat /\ 0 \in Nat /\ 2 * 0 = 0 /\ Half \in Nat /\ Frames \in Nat
  BY Constants
<1>3. ASSUME NEW k \in Nat PROVE S(k) = 2 * p + W(f) * k
  <2>1. PICK b \in Nat : b = 0 /\ 2 * b = 0
    OBVIOUS
  <2>2. Start(2 * b, layout, f, c, o + k) = Start(2 * b, layout, f, c, o) + Stride(layout, f) * k
    <3> HIDE DEF S
    <3> QED BY <1>2, StartLater
  <2> QED BY <2>1, <2>2, Zenon
<1>4. ASSUME NEW k \in 0 .. n - 1 PROVE S(k) \in Nat /\ S(k) + W(f) <= Half
  <2>1. k \in Nat /\ o + k < Frames
    BY <1>2
  <2> QED BY <2>1, CellsWithin
<1>5. W(f) * n \in Nat
  BY <1>1
<1>6. ASSUME NEW k \in 0 .. n - 1
      PROVE  \E z \in Nat : z = W(f) * k /\ S(k) = 2 * p + z /\ z + W(f) <= W(f) * n
  <2>1. S(k) = 2 * p + W(f) * k
    BY <1>3
  <2>2. PICK w \in Nat \ {0} : w = W(f)
    BY <1>1
  <2>3. w * k \in Nat /\ w * k + w <= w * n
    <3>1. w * (k + 1) <= w * n /\ w * (k + 1) = w * k + w
      OBVIOUS
    <3> QED BY <3>1
  <2> HIDE DEF S
  <2> QED BY <2>1, <2>2, <2>3
<1>7. ASSUME NEW x \in 2 * p .. 2 * p + W(f) * n - 1 PROVE x \in Cells(layout, f, c, o, n)
  <2>1. PICK k \in 0 .. n - 1, j \in 0 .. W(f) - 1 : x = 2 * p + W(f) * k + j
    <3> HIDE DEF W, S
    <3>1. PICK q \in Int : q = 2 * p
      OBVIOUS
    <3>2. x \in q .. q + W(f) * n - 1
      BY <3>1
    <3>3. \E k \in 0 .. n - 1, j \in 0 .. W(f) - 1 : x = q + W(f) * k + j
      BY <1>1, <3>2, Split, ZenonT(30)
    <3> QED BY <3>1, <3>3
  <2>2. PICK z \in Nat : z = W(f) * k /\ S(k) = 2 * p + z
    BY <1>6
  <2>3. x \in S(k) .. S(k) + (W(f) - 1)
    <3>1. x = 2 * p + z + j
      BY <2>1, <2>2
    <3> HIDE DEF S
    <3> QED BY <1>1, <2>2, <3>1
  <2> QED BY <2>3 DEF Cells
<1>8. ASSUME NEW k \in 0 .. n - 1, NEW x \in S(k) .. S(k) + (W(f) - 1)
      PROVE  x \in 2 * p .. 2 * p + W(f) * n - 1
  <2>1. PICK z \in Nat : S(k) = 2 * p + z /\ z + W(f) <= W(f) * n
    BY <1>6
  <2>2. PICK t \in Nat : t = W(f) * n
    BY <1>5
  <2>3. x \in 2 * p + z .. 2 * p + z + (W(f) - 1)
    BY <2>1
  <2>4. x \in 2 * p .. 2 * p + t - 1
    <3> HIDE DEF S
    <3> QED BY <1>1, <2>1, <2>2, <2>3
  <2> QED BY <2>2, <2>4
<1>9. Cells(layout, f, c, o, n) = UNION {S(k) .. S(k) + (W(f) - 1) : k \in 0 .. n - 1}
  BY DEF Cells
<1>10. 2 * p + W(f) * n <= Half
  <2>1. CASE n = 0
    <3>1. o + 0 = o /\ o + 0 < Frames
      BY <1>2
    <3>2. Start(0, layout, f, c, o + 0) + W(f) <= Half
      BY <1>2, <3>1, CellsWithin
    <3>3. W(f) * n = 0
      BY <1>1, <2>1
    <3>4. Start(0, layout, f, c, o) + W(f) <= Half
      BY <3>1, <3>2
    <3> QED BY <1>1, <1>2, <3>3, <3>4
  <2>2. CASE n # 0
    <3>1. n - 1 \in 0 .. n - 1 /\ n - 1 \in Nat
      BY <2>2
    <3>2. PICK t \in Int : t = W(f) * (n - 1)
      BY <1>1
    <3>3. S(n - 1) + W(f) <= Half /\ S(n - 1) = 2 * p + t
      BY <1>3, <1>4, <3>1, <3>2
    <3>4. W(f) * n = t + W(f)
      BY <1>1, <3>2
    <3> HIDE DEF S
    <3> QED BY <1>1, <1>2, <3>3, <3>4
  <2> QED BY <2>1, <2>2
<1> HIDE DEF S
<1>11. Cells(layout, f, c, o, n) = 2 * p .. 2 * p + W(f) * n - 1
  <2>1. \A x \in Cells(layout, f, c, o, n) : x \in 2 * p .. 2 * p + W(f) * n - 1
    BY <1>8, <1>9
  <2>2. PICK X : X = 2 * p .. 2 * p + W(f) * n - 1
    OBVIOUS
  <2> QED BY <1>7, <2>1, <2>2
<1>12. \A k \in 0 .. n - 1 : S(k) = 2 * p + W(f) * k
  BY <1>3
<1> QED BY <1>10, <1>11, <1>12 DEF S

\* snd_pcm_area_silence, for a format of whole bytes: as one run where samples lie
\* side by side, else sample by sample.
LEMMA AreaSilence ==
    ASSUME A!AreasConstants, NEW f \in AreaFormats, W(f) # 1, NEW m \in Mem, NEW v \in Mem,
           NEW layout \in Kinds, NEW c \in 0 .. AreaChannels - 1,
           NEW o \in 0 .. Frames - 1, NEW n \in Nat, o + n <= Frames,
           \A k \in 0 .. n - 1, j \in 0 .. W(f) - 1 :
                v[Start(0, layout, f, c, o + k) + j] = A!SilentNibble(f, j)
    PROVE  Written(A!snd_pcm_area_silence(m, A!Area(A!Dst, layout, f, c), o, n, f),
                   m, Cells(layout, f, c, o, n), v)
<1> DEFINE a == A!Area(A!Dst, layout, f, c)
           phys == A!snd_pcm_format_physical_width(f)
           data == A!snd_pcm_channel_area_addr(a, o)
           result == A!snd_pcm_area_silence(m, a, o, n, f)
           S(k) == Start(0, layout, f, c, o + k)
<1>1. W(f) \in 2 .. 8 /\ phys = 4 * W(f) /\ phys >= 8 /\ ~(phys < 8)
  <2>1. W(f) \in {2, 4, 6, 8} /\ phys = 4 * W(f)
    BY Width
  <2> QED BY <2>1
<1>2. A!Dst = 0 /\ c \in Nat /\ o \in Nat /\ 0 \in Nat /\ 2 * 0 = 0 /\ Half \in Nat
  BY Constants
<1>3. /\ a.addr # A!NULL /\ a.step = 4 * Stride(layout, f) /\ Stride(layout, f) \in Nat
      /\ data \in Nat /\ 2 * data = Start(0, layout, f, c, o)
      /\ a.step \div 8 \in Nat /\ 2 * (a.step \div 8) = Stride(layout, f)
  <2>1. /\ A!Area(0, layout, f, c).addr # A!NULL
        /\ A!Area(0, layout, f, c).step = 4 * Stride(layout, f) /\ Stride(layout, f) \in Nat
    BY <1>2, AreaFields
  <2>2. /\ A!snd_pcm_channel_area_addr(A!Area(0, layout, f, c), o) \in Nat
        /\ 2 * A!snd_pcm_channel_area_addr(A!Area(0, layout, f, c), o) = Start(2 * 0, layout, f, c, o)
        /\ A!Area(0, layout, f, c).step \div 8 \in Nat
        /\ 2 * (A!Area(0, layout, f, c).step \div 8) = Stride(layout, f)
    <3>1. PICK b \in Nat : b = 0
      OBVIOUS
    <3>2. /\ A!snd_pcm_channel_area_addr(A!Area(b, layout, f, c), o) \in Nat
          /\ 2 * A!snd_pcm_channel_area_addr(A!Area(b, layout, f, c), o) = Start(2 * b, layout, f, c, o)
          /\ A!Area(b, layout, f, c).step \div 8 \in Nat
          /\ 2 * (A!Area(b, layout, f, c).step \div 8) = Stride(layout, f)
      <4> HIDE DEF a, phys, data, result, S
      <4>1. c \in Nat /\ o \in Nat
        BY <1>2
      <4>2. A!snd_pcm_channel_area_addr(A!Area(b, layout, f, c), o) \in Nat
        BY <4>1, AddrIs
      <4>3. 2 * A!snd_pcm_channel_area_addr(A!Area(b, layout, f, c), o) = Start(2 * b, layout, f, c, o)
        BY <4>1, AddrIs
      <4>4. A!Area(b, layout, f, c).step \div 8 \in Nat
        BY <4>1, AddrIs
      <4>5. 2 * (A!Area(b, layout, f, c).step \div 8) = Stride(layout, f)
        BY <4>1, AddrIs
      <4> QED BY <4>2, <4>3, <4>4, <4>5
    <3> QED BY <3>1, <3>2, Zenon
  <2> QED BY <1>2, <2>1, <2>2
<1>4. ASSUME NEW k \in Nat
      PROVE  S(k) = 2 * data + Stride(layout, f) * k /\ S(k) = 2 * (data + k * (a.step \div 8))
             /\ data + k * (a.step \div 8) \in Nat
  <2>1. Start(0, layout, f, c, o + k) = Start(0, layout, f, c, o) + Stride(layout, f) * k
    <3>1. Start(2 * 0, layout, f, c, o + k) = Start(2 * 0, layout, f, c, o) + Stride(layout, f) * k
      BY <1>2, StartLater
    <3> QED BY <1>2, <3>1
  <2>2. PICK st \in Nat : st = a.step \div 8 /\ Stride(layout, f) = 2 * st
    BY <1>3
  <2>3. PICK d \in Nat : d = data /\ 2 * d = Start(0, layout, f, c, o)
    BY <1>3
  <2>4. 2 * d + (2 * st) * k = 2 * (d + k * st) /\ d + k * st \in Nat
    OBVIOUS
  <2> HIDE DEF a, data
  <2> QED BY <2>1, <2>2, <2>3, <2>4
<1>5. ASSUME NEW k \in 0 .. n - 1
      PROVE  S(k) \in Nat /\ S(k) + W(f) <= Half
  <2>1. k \in Nat /\ o + k < Frames
    BY Constants
  <2> QED BY <2>1, CellsWithin
<1>6. CASE a.step = phys
  <2>1. result = A!snd_pcm_format_set_silence(m, f, data, n)
    BY <1>1, <1>3, <1>6, Zenon DEF A!snd_pcm_area_silence
  <2>2. Stride(layout, f) = W(f)
    BY <1>1, <1>3, <1>6
  <2>3. 2 * data + W(f) * n <= 2 * Half /\ Cells(layout, f, c, o, n) = 2 * data .. 2 * data + W(f) * n - 1
    <3>1. data \in Nat /\ 2 * data = Start(0, layout, f, c, o)
      BY <1>3
    <3> HIDE DEF data
    <3>2. PICK t \in Int : t = W(f) * n
      BY <1>1
    <3>3. 2 * data + t <= Half
      BY <2>2, <3>1, <3>2, CellsRun
    <3>4. 2 * data + t <= 2 * Half
      BY <1>2, <3>1, <3>3
    <3> QED BY <2>2, <3>1, <3>2, <3>4, CellsRun
  <2>4. ASSUME NEW k \in 0 .. n - 1, NEW j \in 0 .. W(f) - 1
        PROVE  v[2 * data + W(f) * k + j] = A!SilentNibble(f, j)
    <3>1. S(k) = 2 * data + W(f) * k
      BY <1>4, <2>2
    <3>2. v[S(k) + j] = A!SilentNibble(f, j)
      OBVIOUS
    <3> QED BY <3>1, <3>2
  <2>5. Written(result, m, 2 * data .. 2 * data + W(f) * n - 1, v)
    <3> HIDE DEF data, result, S
    <3>1. data \in Nat
      BY <1>3
    <3>2. Written(A!snd_pcm_format_set_silence(m, f, data, n), m, 2 * data .. 2 * data + W(f) * n - 1, v)
      BY <2>3, <2>4, <3>1, SetSilence
    <3> QED BY <2>1, <3>2
  <2> HIDE DEF data
  <2> QED BY <2>3, <2>5
<1>7. CASE a.step # phys
  <2> DEFINE R(mm, k) == A!snd_pcm_format_set_silence(mm, f, A!snd_pcm_channel_area_addr(a, o) + k * (a.step \div 8), 1)
             F(g) == g = [k \in 0 .. n |-> IF k = 0 THEN m ELSE R(g[k - 1], k - 1)]
             E == A!Nibbles
             D == [k \in 0 .. n - 1 |-> S(k) .. S(k) + (W(f) - 1)]
  <2>1. ~(a.addr = A!NULL) /\ ~(phys >= 8 /\ a.step = phys)
    BY <1>3, <1>7
  <2>2. result = A!Loop(m, n, LAMBDA mm, k : R(mm, k))
    BY <1>1, <2>1, Zenon DEF A!snd_pcm_area_silence
  <2>3. ASSUME NEW mm \in Mem, NEW k \in 0 .. n - 1
        PROVE  Written(R(mm, k), mm, D[k], v)
    <3>1. PICK p \in Nat : p = data + k * (a.step \div 8) /\ S(k) = 2 * p
      BY <1>4
    <3>2. R(mm, k) = A!snd_pcm_format_set_silence(mm, f, p, 1)
      BY <3>1, Zenon
    <3>3. S(k) \in Nat /\ S(k) + W(f) <= Half
      BY <1>5
    <3> HIDE DEF R, S, data
    <3>4. 2 * p + W(f) * 1 <= 2 * Half /\ 2 * p .. 2 * p + W(f) * 1 - 1 = S(k) .. S(k) + (W(f) - 1)
      <4>1. PICK w \in 2 .. 8 : w = W(f)
        BY <1>1
      <4>2. 2 * p + w * 1 <= 2 * Half
        BY <1>2, <3>1, <3>3, <4>1
      <4>3. w * 1 - 1 = w - 1
        OBVIOUS
      <4>4. 2 * p .. 2 * p + w * 1 - 1 = S(k) .. S(k) + (w - 1)
        BY <3>1, <4>3, Zenon
      <4> QED BY <4>1, <4>2, <4>4
    <3>5. ASSUME NEW l \in 0 .. 1 - 1, NEW j \in 0 .. W(f) - 1
          PROVE  v[2 * p + W(f) * l + j] = A!SilentNibble(f, j)
      <4>1. 2 * p + W(f) * l + j = S(k) + j
        <5>1. l = 0 /\ W(f) * 0 = 0
          BY <1>1
        <5> QED BY <3>1, <5>1
      <4>2. v[S(k) + j] = A!SilentNibble(f, j)
        BY DEF S
      <4> QED BY <4>1, <4>2
    <3>6. Written(A!snd_pcm_format_set_silence(mm, f, p, 1), mm, 2 * p .. 2 * p + W(f) * 1 - 1, v)
      <4>1. 1 \in Nat
        OBVIOUS
      <4> HIDE DEF D
      <4> QED BY <3>4, <3>5, <4>1, SetSilence
    <3> QED BY <3>2, <3>4, <3>6
  <2>4. ASSUME NEW k \in 0 .. n - 1 PROVE D[k] \subseteq E
    <3>1. S(k) \in Nat /\ S(k) + W(f) <= Half /\ E = 0 .. 2 * Half - 1
      BY <1>5, Constants
    <3> HIDE DEF S, E
    <3>2. D[k] = S(k) .. S(k) + (W(f) - 1)
      OBVIOUS
    <3>3. ASSUME NEW x \in S(k) .. S(k) + (W(f) - 1) PROVE x \in E
      <4>1. x \in 0 .. 2 * Half - 1
        <5>1. PICK w \in 2 .. 8 : w = W(f)
          BY <1>1
        <5>2. PICK y \in Nat : y = S(k) /\ y + w <= Half
          BY <3>1, <5>1
        <5>3. x \in y .. y + (w - 1)
          BY <5>1, <5>2
        <5> QED BY <1>2, <5>2, <5>3
      <4> QED BY <3>1, <4>1
    <3> HIDE DEF D
    <3> QED BY <3>2, <3>3
  <2>5. \A mm \in Near(m, E), k \in 0 .. n - 1 : Written(R(mm, k), mm, D[k], v) /\ R(mm, k) \in Near(m, E)
    <3> HIDE DEF R, D, E
    <3> QED BY <2>3, <2>4, WrittenNear DEF Near
  <2> HIDE DEF R, D, E
  <2>6. PICK g : F(g) /\ result = g[n]
    <3>1. PICK Q : Q = [s \in Near(m, E) \X (0 .. n - 1) |-> R(s[1], s[2])]
      OBVIOUS
    <3>2. Q \in [Near(m, E) \X (0 .. n - 1) -> Near(m, E)] /\ m \in Near(m, E)
      BY <2>5, <3>1 DEF Near
    <3>3. PICK h : Values(h, Near(m, E), m, n, Q)
      BY <3>2, LoopExists
    <3>4. ASSUME NEW k \in 0 .. n PROVE h[k] = IF k = 0 THEN m ELSE R(h[k - 1], k - 1)
      <4>1. h[k] = IF k = 0 THEN m ELSE Q[<<h[k - 1], k - 1>>]
        BY <3>3 DEF Values
      <4>2. CASE k # 0
        <5>1. k - 1 \in 0 .. n - 1 /\ k - 1 \in 0 .. n
          BY <4>2
        <5>2. h[k - 1] \in Near(m, E)
          BY <3>3, <5>1 DEF Values
        <5> QED BY <3>1, <4>1, <5>1, <5>2
      <4> QED BY <4>1, <4>2
    <3>5. F(h)
      BY <3>3, <3>4 DEF Values
    <3>6. result = (CHOOSE g : F(g))[n]
      BY <2>2 DEF A!Loop
    <3> HIDE DEF F
    <3> QED BY <3>5, <3>6
  <2>7. g[0] = m /\ \A k \in 0 .. n - 1 : g[k + 1] = R(g[k], k)
    BY <2>6
  <2>8. Written(g[n], m, Together(D, n), v)
    <3>1. \A k \in 0 .. n - 1 : g[k] \in Near(m, E) => Written(g[k + 1], g[k], D[k], v)
      BY <2>5, <2>7
    <3>2. g[0] = m /\ \A k \in 0 .. n - 1 : D[k] \subseteq E
      BY <2>4, <2>7
    <3> HIDE DEF F
    <3> QED BY <3>1, <3>2, LoopWritten
  <2>9. Together(D, n) = Cells(layout, f, c, o, n)
    BY DEF D, Cells, Together
  <2> HIDE DEF F
  <2> QED BY <2>6, <2>8, <2>9
<1> HIDE DEF a, phys, result
<1> QED BY <1>6, <1>7

-----------------------------------------------------------------------------
(* Samples of half a byte. *)

\* Samples of half a byte are those of one format.
LEMMA HalfBytes ==
    ASSUME A!AreasConstants, NEW f \in AreaFormats, W(f) = 1
    PROVE  f = "IMA_ADPCM" /\ A!SilentNibble(f, 0) = {}
<1>1. f \in A!AllFormats /\ A!snd_pcm_format_physical_width(f) = 4
  <2>1. f \in A!AllFormats /\ A!snd_pcm_format_physical_width(f) = 4 * W(f)
    BY Width DEF A!AreasConstants
  <2> QED BY <2>1
<1>2. f = "IMA_ADPCM"
  BY <1>1, SMTT(60) DEF A!AllFormats, A!_snd_pcm_formats, A!Signed, A!Unsigned, A!Coded,
       A!Entry, A!NA,
     A!snd_pcm_format_physical_width
<1>3. A!SilentByte(f, 0 \div 2) = 0
  <2>1. A!snd_pcm_format_signed(f) = -22
    BY <1>2, SMTT(60) DEF A!_snd_pcm_formats, A!Signed, A!Unsigned, A!Coded, A!Entry, A!NA,
         A!snd_pcm_format_signed
  <2>2. f \notin DOMAIN A!Patterns
    BY <1>2 DEF A!Patterns
  <2> QED BY <2>1, <2>2 DEF A!SilentByte, A!snd_pcm_format_unsigned, A!Not
<1>4. A!Bits(0) = {}
  <2>1. (0 \div 2^0) % 2 = 0 /\ (0 \div 2^1) % 2 = 0 /\ (0 \div 2^2) % 2 = 0 /\ (0 \div 2^3) % 2 = 0
    OBVIOUS
  <2>2. \A i \in 0 .. 3 : i = 0 \/ i = 1 \/ i = 2 \/ i = 3
    OBVIOUS
  <2>3. \A i \in 0 .. 3 : (0 \div 2^i) % 2 = 0
    BY <2>1, <2>2, Zenon
  <2>4. 0 # 1
    OBVIOUS
  <2>5. \A i \in 0 .. 3 : ~((0 \div 2^i) % 2 = 1)
    BY <2>3, <2>4, Zenon
  <2> QED BY <2>5, Zenon DEF A!Bits
<1>5. 0 % 2 = 0 /\ 0 \div 16 = 0
  OBVIOUS
<1>6. A!SilentNibble(f, 0) = A!Bits(0)
  BY <1>3, <1>5 DEF A!SilentNibble
<1> QED BY <1>2, <1>4, <1>6

\* The byte and the bit that area_silence_4bit and area_copy_4bit begin with.
LEMMA Halves ==
    ASSUME NEW d \in Nat, NEW x \in Nat, NEW e \in Nat, NEW p, NEW q,
           p = d + (4 * x + 8 * e) \div 8, q = (4 * x) % 8
    PROVE  q \in {0, 4} /\ p \in Nat /\ 2 * p + (IF q # 0 THEN 1 ELSE 0) = 2 * d + x + 2 * e
  OBVIOUS

\* From the first sample of a channel to any other.
LEMMA StartFrom ==
    ASSUME A!AreasConstants, NEW b \in Nat, NEW f \in AreaFormats, NEW c \in Nat,
           NEW layout \in Kinds, NEW i \in Nat
    PROVE  Start(2 * b, layout, f, c, i) = Start(2 * b, layout, f, c, 0) + Stride(layout, f) * i
<1> DEFINE a == A!Area(b, layout, f, c)
<1>1. /\ a.addr \in Nat /\ a.step = 4 * Stride(layout, f) /\ Stride(layout, f) \in Nat
      /\ Start(2 * b, layout, f, c, 0) - 2 * a.addr \in Nat
      /\ a.first = 4 * (Start(2 * b, layout, f, c, 0) - 2 * a.addr)
      /\ Start(2 * b, layout, f, c, i) = Start(2 * b, layout, f, c, 0) + Stride(layout, f) * i
  BY AreaFields
<1> QED BY <1>1

\* Where the loops over half bytes stand, in nibbles, if they begin in the half that
\* the area begins with.
LEMMA Placed ==
    ASSUME A!AreasConstants, NEW f \in AreaFormats, W(f) = 1, NEW b \in Nat,
           NEW layout \in Kinds, NEW c \in Nat, NEW o \in Nat, NEW n \in Nat,
           (Stride(layout, f) * o) % 2 = 0, NEW k \in 0 .. n
    PROVE  /\ A!Half(A!Place4(A!Area(b, layout, f, c), o, n)[k]) = Start(2 * b, layout, f, c, o + k)
           /\ A!Place4(A!Area(b, layout, f, c), o, n)[k].byte \in Nat
<1> DEFINE a == A!Area(b, layout, f, c)
           S == [byte : Nat, bit : {0, 4}]
           R(s, l) == LET byte == s.byte + a.step \div 8
                          bit == s.bit + (a.step % 8)
                      IN  IF bit = 8 THEN [byte |-> byte + 1, bit |-> 0] ELSE [byte |-> byte, bit |-> bit]
           at0 == [byte |-> A!snd_pcm_channel_area_addr(a, o), bit |-> a.first % 8]
           F(g) == g = [l \in 0 .. n |-> IF l = 0 THEN at0 ELSE R(g[l - 1], l - 1)]
           Y(l) == Start(2 * b, layout, f, c, o + l)
           st == Stride(layout, f)
<1>1. PICK x \in Nat : /\ a.first = 4 * x /\ a.step = 4 * st /\ st \in Nat /\ a.addr \in Nat
                       /\ Start(2 * b, layout, f, c, 0) = 2 * a.addr + x
  <2>1. /\ a.addr \in Nat /\ a.step = 4 * Stride(layout, f) /\ Stride(layout, f) \in Nat
        /\ Start(2 * b, layout, f, c, 0) - 2 * a.addr \in Nat
        /\ a.first = 4 * (Start(2 * b, layout, f, c, 0) - 2 * a.addr)
    <3>1. a.addr \in Nat
      BY AreaFields
    <3>2. a.step = 4 * Stride(layout, f) /\ Stride(layout, f) \in Nat
      BY AreaFields
    <3>3. Start(2 * b, layout, f, c, 0) - 2 * a.addr \in Nat
      BY AreaFields
    <3>4. a.first = 4 * (Start(2 * b, layout, f, c, 0) - 2 * a.addr)
      BY AreaFields
    <3> QED BY <3>1, <3>2, <3>3, <3>4
  <2>2. Start(2 * b, layout, f, c, 0) \in Nat
    BY StartNat
  <2>3. PICK y : y = Start(2 * b, layout, f, c, 0) - 2 * a.addr
    OBVIOUS
  <2>5. a.step = 4 * st /\ st \in Nat
    BY <2>1
  <2> HIDE DEF a, st
  <2>4. y \in Nat /\ a.first = 4 * y /\ Start(2 * b, layout, f, c, 0) = 2 * a.addr + y
    <3>1. PICK d \in Nat : d = a.addr
      BY <2>1
    <3>2. PICK z \in Nat : z = Start(2 * b, layout, f, c, 0)
      BY <2>2
    <3>3. y \in Nat /\ a.first = 4 * y
      BY <2>1, <2>3
    <3>4. y = z - 2 * d
      BY <2>3, <3>1, <3>2
    <3>5. z = 2 * d + y
      BY <3>3, <3>4
    <3> QED BY <3>1, <3>2, <3>3, <3>5
  <2> QED BY <2>1, <2>4, <2>5
<1>2. ASSUME NEW l \in Nat PROVE Y(l) = 2 * a.addr + x + st * o + st * l /\ st * o \in Nat /\ st * l \in Nat
  <2>1. \A i \in Nat : Start(2 * b, layout, f, c, i) = Start(2 * b, layout, f, c, 0) + Stride(layout, f) * i
    <3> TAKE i \in Nat
    <3> HIDE DEF a, st, Y, S, R, at0, F
    <3> QED BY StartFrom
  <2>2. o + l \in Nat
    OBVIOUS
  <2>3. Start(2 * b, layout, f, c, o + l) = Start(2 * b, layout, f, c, 0) + st * (o + l)
    BY <2>1, <2>2, Zenon
  <2>4. PICK t \in Nat : t = st
    BY <1>1
  <2>5. t * (o + l) = t * o + t * l /\ t * o \in Nat /\ t * l \in Nat
    OBVIOUS
  <2> HIDE DEF a, st
  <2> QED BY <1>1, <2>3, <2>4, <2>5
<1>3. at0 \in S /\ 2 * at0.byte + (IF at0.bit # 0 THEN 1 ELSE 0) = Y(0)
  <2>1. PICK y \in Nat : y = st * o /\ y % 2 = 0
    BY <1>1
  <2>2. a.step * o = 4 * y
    <3>1. \A s \in Nat : (4 * s) * o = 4 * (s * o)
      OBVIOUS
    <3> HIDE DEF a, st
    <3> QED BY <1>1, <2>1, <3>1
  <2>3. A!snd_pcm_channel_area_addr(a, o) = a.addr + (4 * x + 4 * y) \div 8
    <3> HIDE DEF a, st
    <3> QED BY <1>1, <2>2 DEF A!snd_pcm_channel_area_addr
  <2>4. Y(0) = 2 * a.addr + x + y
    <3>1. st * 0 = 0
      <4> HIDE DEF st
      <4> QED BY <1>1
    <3>2. Y(0) = 2 * a.addr + x + st * o + st * 0
      BY <1>2
    <3> HIDE DEF a, st, Y
    <3> QED BY <1>1, <2>1, <3>1, <3>2
  <2>5. at0.bit = (4 * x) % 8 /\ at0.byte = a.addr + (4 * x + 4 * y) \div 8
    <3> HIDE DEF a, st
    <3> QED BY <1>1, <2>3
  <2>6. at0.bit \in {0, 4} /\ at0.byte \in Nat /\ 2 * at0.byte + (IF at0.bit # 0 THEN 1 ELSE 0) = 2 * a.addr + x + y
    <3>1. PICK d \in Nat : d = a.addr
      BY <1>1
    <3> HIDE DEF a, at0
    <3>2. PICK p, q : p = d + (4 * x + 4 * y) \div 8 /\ q = (4 * x) % 8
      OBVIOUS
    <3>3. q \in {0, 4} /\ p \in Nat /\ 2 * p + (IF q # 0 THEN 1 ELSE 0) = 2 * d + x + y
      <4>1. PICK e \in Nat : y = 2 * e
        <5>1. y \div 2 \in Nat /\ y = 2 * (y \div 2)
          BY <2>1
        <5> QED BY <5>1
      <4>2. p = d + (4 * x + 8 * e) \div 8 /\ q = (4 * x) % 8
        <5>1. 4 * y = 8 * e
          BY <4>1
        <5> QED BY <3>2, <5>1
      <4> QED BY <4>1, <4>2, Halves
    <3>4. at0.byte = p /\ at0.bit = q
      BY <2>5, <3>1, <3>2
    <3> QED BY <3>1, <3>3, <3>4
  <2>7. at0 = [byte |-> at0.byte, bit |-> at0.bit]
    <3> HIDE DEF a
    <3> QED OBVIOUS
  <2> HIDE DEF at0
  <2> QED BY <2>4, <2>6, <2>7
<1>4. ASSUME NEW s \in S, NEW l \in 0 .. n - 1, 2 * s.byte + (IF s.bit # 0 THEN 1 ELSE 0) = Y(l)
      PROVE  2 * R(s, l).byte + (IF R(s, l).bit # 0 THEN 1 ELSE 0) = Y(l + 1)
  <2>1. Y(l + 1) = Y(l) + st /\ Y(l) \in Nat
    <3>1. /\ Y(l) = 2 * a.addr + x + st * o + st * l /\ st * o \in Nat /\ st * l \in Nat
          /\ Y(l + 1) = 2 * a.addr + x + st * o + st * (l + 1) /\ st * (l + 1) \in Nat
      BY <1>2
    <3>2. st * (l + 1) = st * l + st
      <4> HIDE DEF st
      <4> QED BY <1>1
    <3> HIDE DEF a, st, Y
    <3> QED BY <1>1, <3>1, <3>2
  <2>2. PICK t \in Nat : t = st /\ a.step = 4 * t
    BY <1>1
  <2>3. PICK p \in Nat, q \in {0, 4} : s = [byte |-> p, bit |-> q]
    OBVIOUS
  <2>4. R(s, l) = IF q + ((4 * t) % 8) = 8 THEN [byte |-> p + (4 * t) \div 8 + 1, bit |-> 0]
                  ELSE [byte |-> p + (4 * t) \div 8, bit |-> q + ((4 * t) % 8)]
    <3> HIDE DEF a, st, Y
    <3> QED BY <2>2, <2>3
  <2>5. 2 * p + (IF q # 0 THEN 1 ELSE 0) = Y(l)
    <3> HIDE DEF a, st, Y, R
    <3> QED BY <1>4, <2>3
  <2> HIDE DEF a, st, Y, R
  <2>6. PICK y \in Nat : y = Y(l)
    BY <2>1
  <2>7. Y(l + 1) = y + t /\ 2 * p + (IF q # 0 THEN 1 ELSE 0) = y
    BY <2>1, <2>2, <2>5, <2>6
  <2>8. (4 * t) \div 8 = t \div 2 /\ (4 * t) % 8 = 4 * (t % 2)
    OBVIOUS
  <2>9. CASE q + ((4 * t) % 8) = 8
    <3>1. R(s, l) = [byte |-> p + (4 * t) \div 8 + 1, bit |-> 0]
      BY <2>4, <2>9
    <3> QED BY <2>7, <2>8, <2>9, <3>1
  <2>10. CASE q + ((4 * t) % 8) # 8
    <3>1. R(s, l) = [byte |-> p + (4 * t) \div 8, bit |-> q + ((4 * t) % 8)]
      BY <2>4, <2>10
    <3> QED BY <2>7, <2>8, <2>10, <3>1
  <2> QED BY <2>9, <2>10
<1>5. ASSUME NEW s \in S, NEW l \in 0 .. n - 1 PROVE R(s, l) \in S
  <2>1. PICK t \in Nat : a.step = 4 * t
    BY <1>1
  <2> HIDE DEF a, st, Y
  <2> QED BY <2>1
<1> HIDE DEF R, at0, S
<1>6. PICK g : F(g) /\ A!Place4(a, o, n) = g
  <2>1. PICK Q : Q = [s \in S \X (0 .. n - 1) |-> R(s[1], s[2])]
    OBVIOUS
  <2>2. Q \in [S \X (0 .. n - 1) -> S]
    BY <1>5, <2>1
  <2>3. PICK h : Values(h, S, at0, n, Q)
    BY <1>3, <2>2, LoopExists
  <2>4. ASSUME NEW l \in 0 .. n PROVE h[l] = IF l = 0 THEN at0 ELSE R(h[l - 1], l - 1)
    <3>1. h[l] = IF l = 0 THEN at0 ELSE Q[<<h[l - 1], l - 1>>]
      BY <2>3 DEF Values
    <3>2. CASE l # 0
      <4>1. l - 1 \in 0 .. n - 1 /\ l - 1 \in 0 .. n
        BY <3>2
      <4>2. h[l - 1] \in S
        BY <2>3, <4>1 DEF Values
      <4> QED BY <2>1, <3>1, <4>1, <4>2
    <3> QED BY <3>1, <3>2
  <2>5. F(h)
    BY <2>3, <2>4 DEF Values
  <2>6. A!Place4(a, o, n) = CHOOSE g : F(g)
    BY DEF A!Place4, R, at0
  <2> HIDE DEF F
  <2> QED BY <2>5, <2>6
<1>7. g[0] = at0 /\ \A l \in 0 .. n - 1 : g[l + 1] = R(g[l], l)
  BY <1>6
<1> DEFINE I == {s \in S \X Nat : 2 * s[1].byte + (IF s[1].bit # 0 THEN 1 ELSE 0) = Y(s[2])}
<1> HIDE DEF Y
<1>8. <<g[0], 0>> \in I
  BY <1>3, <1>7
<1>9. \A l \in 0 .. n - 1 : <<g[l], l>> \in I => <<g[l + 1], l + 1>> \in I
  <2> TAKE l \in 0 .. n - 1
  <2> HAVE <<g[l], l>> \in I
  <2>1. g[l] \in S /\ 2 * g[l].byte + (IF g[l].bit # 0 THEN 1 ELSE 0) = Y(l)
    OBVIOUS
  <2>2. g[l + 1] = R(g[l], l) /\ l + 1 \in Nat
    BY <1>7
  <2> QED BY <1>4, <1>5, <2>1, <2>2
<1>10. <<g[k], k>> \in I
  <2>1. k \in Nat /\ \A l \in 0 .. k - 1 : l \in 0 .. n - 1
    OBVIOUS
  <2>2. \A l \in 0 .. k - 1 : <<g[l], l>> \in I => <<g[l + 1], l + 1>> \in I
    BY <1>9, <2>1
  <2> HIDE DEF I
  <2> QED BY <1>8, <2>1, <2>2, LoopKeeps
<1>11. 2 * g[k].byte + (IF g[k].bit # 0 THEN 1 ELSE 0) = Y(k) /\ g[k].byte \in Nat
  BY <1>10 DEF S
<1> QED BY <1>6, <1>11 DEF A!Half, Y

\* Placed, for the nibble alone, ...
LEMMA Places ==
    ASSUME A!AreasConstants, NEW f \in AreaFormats, W(f) = 1, NEW b \in Nat,
           NEW layout \in Kinds, NEW c \in Nat, NEW o \in Nat, NEW n \in Nat,
           (Stride(layout, f) * o) % 2 = 0, NEW k \in 0 .. n
    PROVE  A!Half(A!Place4(A!Area(b, layout, f, c), o, n)[k]) = Start(2 * b, layout, f, c, o + k)
  BY Placed, SMTT(60)

\* ... and for the byte alone.
LEMMA PlaceBytes ==
    ASSUME A!AreasConstants, NEW f \in AreaFormats, W(f) = 1, NEW b \in Nat,
           NEW layout \in Kinds, NEW c \in Nat, NEW o \in Nat, NEW n \in Nat,
           (Stride(layout, f) * o) % 2 = 0, NEW k \in 0 .. n
    PROVE  A!Place4(A!Area(b, layout, f, c), o, n)[k].byte \in Nat
  BY Placed

\* A run of loop rounds that each write the nibbles of one sample.
SampleSets(layout, f, c, o, n) ==
    [k \in 0 .. n - 1 |-> Start(0, layout, f, c, o + k) .. Start(0, layout, f, c, o + k) + (W(f) - 1)]

\* The samples that snd_pcm_area_silence and snd_pcm_area_copy go over, one by one.
LEMMA SampleSetsAre ==
    ASSUME A!AreasConstants, NEW f \in AreaFormats, NEW c \in 0 .. AreaChannels - 1,
           NEW layout \in Kinds, NEW o \in 0 .. Frames - 1, NEW n \in Nat, o + n <= Frames
    PROVE  /\ Together(SampleSets(layout, f, c, o, n), n) = Cells(layout, f, c, o, n)
           /\ \A k \in 0 .. n - 1 : SampleSets(layout, f, c, o, n)[k] \subseteq 0 .. Half - 1
           /\ 0 .. Half - 1 \subseteq A!Nibbles
<1>1. \A k \in 0 .. n - 1 : SampleSets(layout, f, c, o, n)[k] \subseteq 0 .. Half - 1
  <2> TAKE k \in 0 .. n - 1
  <2>1. k \in Nat /\ o + k < Frames
    BY Constants
  <2>2. Start(0, layout, f, c, o + k) .. Start(0, layout, f, c, o + k) + (W(f) - 1) \subseteq 0 .. Half - 1
    BY <2>1, CellsWithin
  <2> QED BY <2>2 DEF SampleSets
<1>2. 0 .. Half - 1 \subseteq A!Nibbles
  <2>1. Half \in Nat /\ A!Nibbles = 0 .. 2 * Half - 1
    BY Constants
  <2>2. \A x \in 0 .. Half - 1 : x \in 0 .. 2 * Half - 1
    BY <2>1
  <2> QED BY <2>1, <2>2
<1>3. Together(SampleSets(layout, f, c, o, n), n) = Cells(layout, f, c, o, n)
  BY DEF Together, SampleSets, Cells
<1> QED BY <1>1, <1>2, <1>3

\* area_silence_4bit, from a sample that begins in the half its area begins with.
LEMMA AreaSilence4 ==
    ASSUME A!AreasConstants, NEW f \in AreaFormats, W(f) = 1, NEW m \in Mem, NEW v \in Mem,
           NEW layout \in Kinds, NEW c \in 0 .. AreaChannels - 1,
           NEW o \in 0 .. Frames - 1, NEW n \in Nat, o + n <= Frames,
           (Stride(layout, f) * o) % 2 = 0,
           \A k \in 0 .. n - 1, j \in 0 .. W(f) - 1 :
                v[Start(0, layout, f, c, o + k) + j] = A!SilentNibble(f, j)
    PROVE  Written(A!snd_pcm_area_silence(m, A!Area(A!Dst, layout, f, c), o, n, f),
                   m, Cells(layout, f, c, o, n), v)
<1> DEFINE a == A!Area(A!Dst, layout, f, c)
           phys == A!snd_pcm_format_physical_width(f)
           result == A!snd_pcm_area_silence(m, a, o, n, f)
           R(mm, k) == [mm EXCEPT ![A!Half(A!Place4(a, o, n)[k])] = {}]
           F(g) == g = [k \in 0 .. n |-> IF k = 0 THEN m ELSE R(g[k - 1], k - 1)]
           E == A!Nibbles
           D == SampleSets(layout, f, c, o, n)
<1>1. phys = 4 /\ phys < 8 /\ ~(phys >= 8)
  <2>1. phys = 4 * W(f)
    BY Width
  <2> QED BY <2>1
<1>2. A!Dst = 0 /\ c \in Nat /\ o \in Nat /\ 0 \in Nat
  BY Constants
<1>3. a.addr # A!NULL
  BY <1>2, AreaFields
<1>4. result = A!Loop(m, n, LAMBDA mm, k : R(mm, k))
  <2>1. result = A!area_silence_4bit(m, a, o, n)
    BY <1>1, <1>3, Zenon DEF A!snd_pcm_area_silence
  <2>2. A!area_silence_4bit(m, a, o, n) = A!Loop(m, n, LAMBDA mm, k : R(mm, k))
    BY Zenon DEF A!area_silence_4bit
  <2> QED BY <2>1, <2>2, Zenon
<1>5. ASSUME NEW k \in 0 .. n - 1
      PROVE  A!Half(A!Place4(a, o, n)[k]) = Start(0, layout, f, c, o + k)
  <2>1. k \in 0 .. n
    OBVIOUS
  <2>2. PICK b \in Nat : b = 0
    OBVIOUS
  <2>3. A!Half(A!Place4(A!Area(b, layout, f, c), o, n)[k]) = Start(2 * b, layout, f, c, o + k)
    <3> HIDE DEF a, phys, result, R, F, E, D
    <3> QED BY <1>2, <2>1, Places
  <2>4. 2 * b = 0
    BY <2>2
  <2> QED BY <1>2, <2>2, <2>3, <2>4, Zenon
<1>6. \A k \in 0 .. n - 1 : D[k] = {Start(0, layout, f, c, o + k)}
                         /\ v[Start(0, layout, f, c, o + k)] = {}
  <2> TAKE k \in 0 .. n - 1
  <2>1. PICK s \in Nat : s = Start(0, layout, f, c, o + k)
    <3>1. k \in Nat /\ o + k < Frames
      BY Constants
    <3>2. Start(0, layout, f, c, o + k) \in Nat
      BY <3>1, CellsWithin
    <3> QED BY <3>2
  <2>2. s .. s + (1 - 1) = {s} /\ s + 0 = s /\ 0 \in 0 .. W(f) - 1
    OBVIOUS
  <2>3. v[Start(0, layout, f, c, o + k) + 0] = A!SilentNibble(f, 0)
    BY <2>2
  <2>4. v[s] = {}
    BY <2>1, <2>2, <2>3, HalfBytes
  <2>5. D[k] = Start(0, layout, f, c, o + k) .. Start(0, layout, f, c, o + k) + (W(f) - 1)
    BY DEF SampleSets
  <2> HIDE DEF D
  <2> QED BY <2>1, <2>2, <2>4, <2>5
<1>7. /\ \A k \in 0 .. n - 1 : D[k] \subseteq E
      /\ Together(D, n) = Cells(layout, f, c, o, n)
  BY SampleSetsAre
<1> HIDE DEF D, E
<1>8. ASSUME NEW mm \in Mem, NEW k \in 0 .. n - 1
      PROVE  Written(R(mm, k), mm, D[k], v)
  <2>1. R(mm, k) = [mm EXCEPT ![Start(0, layout, f, c, o + k)] = {}]
    BY <1>5
  <2> HIDE DEF R
  <2>2. R(mm, k) = [x \in A!Nibbles |-> R(mm, k)[x]]
    BY <2>1 DEF Mem
  <2>3. \A x \in A!Nibbles : R(mm, k)[x] = IF x \in D[k] THEN v[x] ELSE mm[x]
    <3> TAKE x \in A!Nibbles
    <3>1. R(mm, k)[x] = IF x = Start(0, layout, f, c, o + k) THEN {} ELSE mm[x]
      BY <2>1 DEF Mem
    <3>2. x \in D[k] <=> x = Start(0, layout, f, c, o + k)
      BY <1>6
    <3> QED BY <1>6, <3>1, <3>2
  <2> QED BY <2>2, <2>3, WrittenBy
<1> HIDE DEF R
<1>9. \A mm \in Near(m, E), k \in 0 .. n - 1 : Written(R(mm, k), mm, D[k], v) /\ R(mm, k) \in Near(m, E)
  BY <1>7, <1>8, WrittenNear DEF Near
<1>10. PICK g : F(g) /\ result = g[n]
  <2>1. PICK Q : Q = [s \in Near(m, E) \X (0 .. n - 1) |-> R(s[1], s[2])]
    OBVIOUS
  <2>2. Q \in [Near(m, E) \X (0 .. n - 1) -> Near(m, E)] /\ m \in Near(m, E)
    BY <1>9, <2>1 DEF Near
  <2>3. PICK h : Values(h, Near(m, E), m, n, Q)
    BY <2>2, LoopExists
  <2>4. ASSUME NEW k \in 0 .. n PROVE h[k] = IF k = 0 THEN m ELSE R(h[k - 1], k - 1)
    <3>1. h[k] = IF k = 0 THEN m ELSE Q[<<h[k - 1], k - 1>>]
      BY <2>3 DEF Values
    <3>2. CASE k # 0
      <4>1. k - 1 \in 0 .. n - 1 /\ k - 1 \in 0 .. n
        BY <3>2
      <4>2. h[k - 1] \in Near(m, E)
        BY <2>3, <4>1 DEF Values
      <4> QED BY <2>1, <3>1, <4>1, <4>2
    <3> QED BY <3>1, <3>2
  <2>5. F(h)
    BY <2>3, <2>4 DEF Values
  <2>6. result = (CHOOSE g : F(g))[n]
    BY <1>4 DEF A!Loop
  <2> HIDE DEF F
  <2> QED BY <2>5, <2>6
<1>11. g[0] = m /\ \A k \in 0 .. n - 1 : g[k + 1] = R(g[k], k)
  BY <1>10
<1>12. Written(g[n], m, Together(D, n), v)
  <2>1. \A k \in 0 .. n - 1 : g[k] \in Near(m, E) => Written(g[k + 1], g[k], D[k], v)
    BY <1>9, <1>11
  <2>2. g[0] = m /\ \A k \in 0 .. n - 1 : D[k] \subseteq E
    BY <1>7, <1>11
  <2> HIDE DEF F
  <2> QED BY <2>1, <2>2, LoopWritten
<1> HIDE DEF F, result
<1>13. Written(result, m, Cells(layout, f, c, o, n), v)
  BY <1>7, <1>10, <1>12
<1> QED BY <1>13 DEF result

-----------------------------------------------------------------------------
(* Copies. *)

\* memcpy writes what it has read.
LEMMA Copied ==
    ASSUME NEW m \in Mem, NEW p \in Nat, NEW q \in Nat, NEW l \in Nat, NEW v \in Mem, NEW X,
           X = 2 * p .. 2 * (p + l) - 1,
           \A x \in X : v[x] = m[x - 2 * p + 2 * q]
    PROVE  Written(A!memcpy(m, p, q, l), m, X, v)
<1>1. DOMAIN m = A!Nibbles
  BY DEF Mem
<1>2. A!memcpy(m, p, q, l) =
        [x \in A!Nibbles |-> IF x \in X THEN m[x - 2 * p + 2 * q] ELSE m[x]]
  BY <1>1 DEF A!memcpy
<1> HIDE DEF Mem
<1> QED BY <1>2 DEF Written

\* The areas of the two buffers are never the same.
LEMMA Different ==
    ASSUME A!AreasConstants, NEW f \in AreaFormats, NEW c \in 0 .. AreaChannels - 1,
           NEW dl \in Kinds, NEW sl \in Kinds
    PROVE  /\ A!Area(A!Dst, dl, f, c) # A!Area(A!Src, sl, f, c)
           /\ A!Area(A!Dst, dl, f, c).addr # A!NULL
           /\ A!Area(A!Src, sl, f, c).addr # A!NULL
<1>1. A!Dst = 0 /\ 2 * A!Src = Half /\ A!Src \in Nat \ {0} /\ Half \in Nat /\ c \in Nat /\ 0 \in Nat
      /\ Frames \in Nat \ {0} /\ AreaChannels \in Nat \ {0}
  BY Constants
<1>2. A!Area(A!Dst, dl, f, c).addr < A!Src
  <2>1. PICK b \in Nat : b = 0 /\ 2 * b = 0
    OBVIOUS
  <2> DEFINE a == A!Area(b, dl, f, c)
  <2>2. a.addr \in Nat /\ Start(2 * b, dl, f, c, 0) - 2 * a.addr \in Nat
    <3>1. a.addr \in Nat
      BY <1>1, AreaFields
    <3>2. Start(2 * b, dl, f, c, 0) - 2 * a.addr \in Nat
      BY <1>1, AreaFields
    <3> QED BY <3>1, <3>2
  <2>3. 0 \in 0 .. Frames - 1 /\ 0 < Frames /\ 0 + 0 = 0
    BY <1>1
  <2>4. Start(0, dl, f, c, 0) \in Nat /\ Start(0, dl, f, c, 0) + W(f) <= Half
    <3>1. Start(0, dl, f, c, 0 + 0) \in Nat /\ Start(0, dl, f, c, 0 + 0) + W(f) <= Half
      BY <2>3, CellsWithin, Zenon
    <3> QED BY <2>3, <3>1, Zenon
  <2>5. W(f) \in 1 .. 8
    <3>1. \A x \in {1, 2, 4, 6, 8} : x \in 1 .. 8
      OBVIOUS
    <3> QED BY <3>1, Width
  <2>6. Start(2 * b, dl, f, c, 0) = Start(0, dl, f, c, 0)
    BY <2>1, Zenon
  <2> HIDE DEF a
  <2>7. a.addr < A!Src
    <3>1. PICK z \in Nat : z = Start(0, dl, f, c, 0)
      BY <2>4
    <3>2. z - 2 * a.addr \in Nat
      BY <2>2, <2>6, <3>1
    <3> QED BY <1>1, <2>2, <2>4, <2>5, <3>1, <3>2
  <2>8. a = A!Area(A!Dst, dl, f, c)
    BY <1>1, <2>1, Zenon DEF a
  <2> QED BY <2>7, <2>8
<1>3. A!Area(A!Src, sl, f, c).addr >= A!Src
  <2>1. CASE sl = "interleaved"
    <3>1. A!Area(A!Src, sl, f, c).addr = A!Src
      BY <2>1, AreaIs
    <3> QED BY <1>1, <3>1
  <2>2. CASE sl = "noninterleaved"
    <3>1. A!Area(A!Src, sl, f, c).addr = A!Src + c * Frames * 4
      BY <2>2, AreaIs DEF A!SampleBytes
    <3>2. c * Frames * 4 \in Nat
      BY <1>1
    <3> QED BY <1>1, <3>1, <3>2
  <2> QED BY <2>1, <2>2 DEF Kinds
<1>4. A!Area(A!Dst, dl, f, c).addr # A!NULL
  BY <1>1, AreaFields
<1>5. A!Area(A!Src, sl, f, c).addr # A!NULL
  <2>1. A!Src \in Nat
    BY <1>1
  <2> QED BY <1>1, <2>1, AreaFields
<1>6. A!Area(A!Dst, dl, f, c).addr # A!Area(A!Src, sl, f, c).addr
  <2>1. A!Area(A!Dst, dl, f, c).addr \in Nat /\ A!Area(A!Src, sl, f, c).addr \in Nat
    BY <1>1, AreaFields
  <2> QED BY <1>1, <1>2, <1>3, <2>1
<1> QED BY <1>4, <1>5, <1>6

\* A byte address of a sample of whole bytes, and from there to a later one.
LEMMA AddrLater ==
    ASSUME A!AreasConstants, NEW f \in AreaFormats, W(f) # 1, NEW layout \in Kinds, NEW c \in Nat,
           NEW b \in Nat, NEW o \in Nat, NEW k \in Nat
    PROVE  LET a == A!Area(b, layout, f, c)
               data == A!snd_pcm_channel_area_addr(a, o)
           IN  /\ data \in Nat /\ 2 * data = Start(2 * b, layout, f, c, o)
               /\ data + k * (a.step \div 8) \in Nat
               /\ Start(2 * b, layout, f, c, o + k) = 2 * (data + k * (a.step \div 8))
<1> DEFINE a == A!Area(b, layout, f, c)
           data == A!snd_pcm_channel_area_addr(a, o)
<1>1. data \in Nat
  BY AddrIs
<1>2. 2 * data = Start(2 * b, layout, f, c, o)
  BY AddrIs
<1>3. a.step \div 8 \in Nat
  BY AddrIs
<1>4. 2 * (a.step \div 8) = Stride(layout, f)
  BY AddrIs
<1>5. Start(2 * b, layout, f, c, o + k) = Start(2 * b, layout, f, c, o) + Stride(layout, f) * k
  BY StartLater
<1>6. PICK s \in Nat : s = a.step \div 8
  BY <1>3
<1>7. PICK d \in Nat : d = data
  BY <1>1
<1>8. 2 * d + (2 * s) * k = 2 * (d + k * s) /\ d + k * s \in Nat
  OBVIOUS
<1> HIDE DEF a, data
<1>9. Start(2 * b, layout, f, c, o + k) = 2 * d + (2 * s) * k
  BY <1>2, <1>4, <1>5, <1>6, <1>7
<1> QED BY <1>1, <1>2, <1>6, <1>7, <1>8, <1>9 DEF a, data

\* The samples of the source lie in the other buffer.
LEMMA SourceWithin ==
    ASSUME A!AreasConstants, NEW f \in AreaFormats, NEW layout \in Kinds,
           NEW c \in 0 .. AreaChannels - 1, NEW o \in 0 .. Frames - 1, NEW k \in Nat, o + k < Frames,
           NEW j \in 0 .. W(f) - 1
    PROVE  Start(Half, layout, f, c, o + k) + j \in A!Nibbles \ (0 .. Half - 1)
<1>1. o + k \in 0 .. Frames - 1 /\ Half \in Nat /\ A!Nibbles = 0 .. 2 * Half - 1
  <2>1. Frames \in Nat /\ Half \in Nat /\ A!Nibbles = 0 .. 2 * Half - 1
    BY Constants
  <2> QED BY <2>1
<1>2. /\ Start(0, layout, f, c, o + k) + j \in 0 .. Half - 1
      /\ Start(Half, layout, f, c, o + k) = Half + Start(0, layout, f, c, o + k)
  <2>1. Start(0, layout, f, c, o + k) + j \in 0 .. Half - 1
    BY <1>1, Within
  <2>2. Start(Half, layout, f, c, o + k) = Half + Start(0, layout, f, c, o + k)
    BY <1>1, Within
  <2> QED BY <2>1, <2>2
<1>3. Start(0, layout, f, c, o + k) \in Nat
  BY CellsWithin
<1>4. PICK z \in Nat : z = Start(0, layout, f, c, o + k)
  BY <1>3
<1>5. Half + z + j \in 0 .. 2 * Half - 1 /\ Half + z + j \notin 0 .. Half - 1
  BY <1>1, <1>2, <1>4
<1> QED BY <1>1, <1>2, <1>4, <1>5

\* snd_pcm_area_copy, for a format of whole bytes: as one run where the samples of
\* both areas lie side by side, else sample by sample.
LEMMA AreaCopy ==
    ASSUME A!AreasConstants, NEW f \in AreaFormats, W(f) # 1, NEW m \in Mem, NEW v \in Mem,
           NEW dl \in Kinds, NEW sl \in Kinds, NEW c \in 0 .. AreaChannels - 1,
           NEW o \in 0 .. Frames - 1, NEW q \in 0 .. Frames - 1, NEW n \in Nat,
           o + n <= Frames, q + n <= Frames,
           \A k \in 0 .. n - 1, j \in 0 .. W(f) - 1 :
                v[Start(0, dl, f, c, o + k) + j] = m[Start(Half, sl, f, c, q + k) + j]
    PROVE  Written(A!snd_pcm_area_copy(m, A!Area(A!Dst, dl, f, c), o, A!Area(A!Src, sl, f, c), q, n, f),
                   m, Cells(dl, f, c, o, n), v)
<1> DEFINE dst == A!Area(A!Dst, dl, f, c)
           src == A!Area(A!Src, sl, f, c)
           phys == A!snd_pcm_format_physical_width(f)
           to == A!snd_pcm_channel_area_addr(dst, o)
           from == A!snd_pcm_channel_area_addr(src, q)
           result == A!snd_pcm_area_copy(m, dst, o, src, q, n, f)
           E == 0 .. Half - 1
           D == SampleSets(dl, f, c, o, n)
<1>1. PICK u \in 1 .. 4 : W(f) = 2 * u /\ phys = 8 * u /\ phys \div 8 = u
  BY WholeBytes
<1>2. A!Dst = 0 /\ 2 * A!Src = Half /\ A!Src \in Nat /\ c \in Nat /\ o \in Nat /\ q \in Nat /\ 0 \in Nat
      /\ Half \in Nat /\ Frames \in Nat
  BY Constants
<1>3. dst # src /\ dst.addr # A!NULL /\ src.addr # A!NULL
  BY Different
<1>4. ~(phys < 8) /\ ~(dst.addr = A!NULL) /\ ~(dst.addr # A!NULL /\ dst = src /\ o = q)
      /\ ~(dst.addr # A!NULL /\ src.addr = A!NULL)
  BY <1>1, <1>3
<1>5. ASSUME NEW k \in Nat
      PROVE  /\ to \in Nat /\ 2 * to = Start(0, dl, f, c, o)
             /\ to + k * (dst.step \div 8) \in Nat
             /\ Start(0, dl, f, c, o + k) = 2 * (to + k * (dst.step \div 8))
  <2>1. PICK b \in Nat : b = 0 /\ 2 * b = 0
    OBVIOUS
  <2> DEFINE a == A!Area(b, dl, f, c)
             data == A!snd_pcm_channel_area_addr(a, o)
  <2>2. data \in Nat /\ 2 * data = Start(2 * b, dl, f, c, o)
    <3>1. data \in Nat
      BY <1>2, AddrIs
    <3>2. 2 * data = Start(2 * b, dl, f, c, o)
      BY <1>2, AddrIs
    <3> QED BY <3>1, <3>2
  <2>3. data + k * (a.step \div 8) \in Nat
    BY <1>2, AddrLater
  <2>4. Start(2 * b, dl, f, c, o + k) = 2 * (data + k * (a.step \div 8))
    BY <1>2, AddrLater
  <2>5. a = dst
    BY <1>2, <2>1, Zenon
  <2> QED BY <2>1, <2>2, <2>3, <2>4, <2>5, Zenon
<1>6. ASSUME NEW k \in Nat
      PROVE  /\ from \in Nat /\ 2 * from = Start(Half, sl, f, c, q)
             /\ from + k * (src.step \div 8) \in Nat
             /\ Start(Half, sl, f, c, q + k) = 2 * (from + k * (src.step \div 8))
  <2>1. PICK b \in Nat : b = A!Src /\ 2 * b = Half
    BY <1>2
  <2> DEFINE a == A!Area(b, sl, f, c)
             data == A!snd_pcm_channel_area_addr(a, q)
  <2>2. data \in Nat /\ 2 * data = Start(2 * b, sl, f, c, q)
    <3>1. data \in Nat
      BY <1>2, AddrIs
    <3>2. 2 * data = Start(2 * b, sl, f, c, q)
      BY <1>2, AddrIs
    <3> QED BY <3>1, <3>2
  <2>3. data + k * (a.step \div 8) \in Nat
    BY <1>2, AddrLater
  <2>4. Start(2 * b, sl, f, c, q + k) = 2 * (data + k * (a.step \div 8))
    BY <1>2, AddrLater
  <2>5. a = src
    BY <1>2, <2>1, Zenon
  <2> QED BY <2>1, <2>2, <2>3, <2>4, <2>5, Zenon
<1>7. \A k \in 0 .. n - 1, j \in 0 .. W(f) - 1 : Start(Half, sl, f, c, q + k) + j \in A!Nibbles \ E
  <2> TAKE k \in 0 .. n - 1, j \in 0 .. W(f) - 1
  <2>1. k \in Nat /\ q + k < Frames
    BY <1>2
  <2> QED BY <2>1, SourceWithin
<1>8. CASE src.step = phys /\ dst.step = phys
  <2>1. result = A!memcpy(m, to, from, (n * phys) \div 8)
    BY <1>4, <1>8, Zenon DEF A!snd_pcm_area_copy
  <2>2. (n * phys) \div 8 = n * u /\ n * u \in Nat
    <3>1. n * phys = 8 * (n * u) /\ n * u \in Nat
      BY <1>1
    <3> QED BY <3>1, Exact8
  <2>3. Stride(dl, f) = W(f) /\ Stride(sl, f) = W(f)
    <3>1. dst.step = 4 * Stride(dl, f) /\ Stride(dl, f) \in Nat
      BY <1>2, AreaFields
    <3>2. src.step = 4 * Stride(sl, f) /\ Stride(sl, f) \in Nat
      BY <1>2, AreaFields
    <3> HIDE DEF dst, src
    <3> QED BY <1>1, <1>8, <3>1, <3>2
  <2>4. PICK p \in Nat : p = to /\ 2 * p = Start(0, dl, f, c, o)
    BY <1>2, <1>5
  <2>5. PICK r \in Nat : r = from /\ 2 * r = Start(Half, sl, f, c, q)
    BY <1>2, <1>6
  <2> HIDE DEF dst, src, phys, to, from, result, E, D
  <2>6. /\ Cells(dl, f, c, o, n) = 2 * p .. 2 * p + W(f) * n - 1
        /\ \A k \in 0 .. n - 1 : Start(0, dl, f, c, o + k) = 2 * p + W(f) * k
    <3>1. Cells(dl, f, c, o, n) = 2 * p .. 2 * p + W(f) * n - 1
      BY <2>3, <2>4, CellsRun
    <3>2. \A k \in 0 .. n - 1 : Start(0, dl, f, c, o + k) = 2 * p + W(f) * k
      <4> TAKE k \in 0 .. n - 1
      <4>1. PICK b \in Nat : b = 0 /\ 2 * b = 0
        OBVIOUS
      <4>2. k \in Nat
        OBVIOUS
      <4>3. Start(2 * b, dl, f, c, o + k) = Start(2 * b, dl, f, c, o) + Stride(dl, f) * k
        BY <1>2, <4>2, StartLater
      <4> QED BY <2>3, <2>4, <4>1, <4>3, Zenon
    <3> QED BY <3>1, <3>2
  <2>7. \A k \in 0 .. n - 1 : Start(Half, sl, f, c, q + k) = 2 * r + W(f) * k
    <3> TAKE k \in 0 .. n - 1
    <3>1. PICK b \in Nat : b = A!Src /\ 2 * b = Half
      BY <1>2
    <3>2. k \in Nat
      OBVIOUS
    <3>3. Start(2 * b, sl, f, c, q + k) = Start(2 * b, sl, f, c, q) + Stride(sl, f) * k
      BY <1>2, <3>2, StartLater
    <3> QED BY <2>3, <2>5, <3>1, <3>3, Zenon
  <2>8. 2 * p .. 2 * p + W(f) * n - 1 = 2 * p .. 2 * (p + n * u) - 1
    <3>1. PICK t \in Nat : t = n * u
      BY <2>2
    <3>2. W(f) * n = 2 * t
      <4>1. (2 * u) * n = 2 * (n * u)
        OBVIOUS
      <4> QED BY <1>1, <3>1, <4>1
    <3>3. 2 * p + 2 * t - 1 = 2 * (p + t) - 1
      OBVIOUS
    <3> QED BY <3>1, <3>2, <3>3, Zenon
  <2>9. ASSUME NEW x \in Cells(dl, f, c, o, n) PROVE v[x] = m[x - 2 * p + 2 * r]
    <3>1. x \in 2 * p .. 2 * p + W(f) * n - 1 /\ W(f) \in Nat \ {0}
      BY <1>1, <2>6
    <3>2. PICK k \in 0 .. n - 1, j \in 0 .. W(f) - 1 : x = 2 * p + W(f) * k + j
      <4>1. PICK d \in Int : d = 2 * p
        OBVIOUS
      <4>2. x \in d .. d + W(f) * n - 1
        BY <3>1, <4>1
      <4>3. \E k \in 0 .. n - 1, j \in 0 .. W(f) - 1 : x = d + W(f) * k + j
        BY <3>1, <4>2, Split, ZenonT(30)
      <4> QED BY <4>1, <4>3
    <3>3. PICK z \in Nat : z = W(f) * k
      BY <3>1
    <3>4. x = 2 * p + z + j /\ Start(0, dl, f, c, o + k) = 2 * p + z /\ Start(Half, sl, f, c, q + k) = 2 * r + z
      BY <2>6, <2>7, <3>2, <3>3
    <3>5. x = Start(0, dl, f, c, o + k) + j /\ x - 2 * p + 2 * r = Start(Half, sl, f, c, q + k) + j
      BY <3>4
    <3> QED BY <3>5
  <2>10. Written(A!memcpy(m, p, r, n * u), m, Cells(dl, f, c, o, n), v)
    <3>1. Cells(dl, f, c, o, n) = 2 * p .. 2 * (p + n * u) - 1
      BY <2>6, <2>8
    <3> QED BY <2>2, <2>9, <3>1, Copied
  <2>11. Written(result, m, Cells(dl, f, c, o, n), v)
    BY <2>1, <2>2, <2>4, <2>5, <2>10, Zenon
  <2> QED BY <2>11 DEF result, dst, src
<1>9. CASE ~(src.step = phys /\ dst.step = phys)
  <2> DEFINE R(mm, k) == A!memcpy(mm, to + k * (dst.step \div 8), from + k * (src.step \div 8), phys \div 8)
             F(g) == g = [k \in 0 .. n |-> IF k = 0 THEN m ELSE R(g[k - 1], k - 1)]
  <2>1. result = A!Loop(m, n, LAMBDA mm, k : R(mm, k))
    BY <1>4, <1>9, Zenon DEF A!snd_pcm_area_copy
  <2>2. ASSUME NEW mm \in Near(m, E), NEW k \in 0 .. n - 1
        PROVE  Written(R(mm, k), mm, D[k], v)
    <3>1. k \in Nat
      OBVIOUS
    <3>2. PICK p \in Nat : p = to + k * (dst.step \div 8) /\ Start(0, dl, f, c, o + k) = 2 * p
      BY <1>5, <3>1
    <3>3. PICK r \in Nat : r = from + k * (src.step \div 8) /\ Start(Half, sl, f, c, q + k) = 2 * r
      BY <1>6, <3>1
    <3>4. R(mm, k) = A!memcpy(mm, p, r, u)
      BY <1>1, <3>2, <3>3, Zenon
    <3>5. D[k] = 2 * p .. 2 * (p + u) - 1
      <4>1. D[k] = Start(0, dl, f, c, o + k) .. Start(0, dl, f, c, o + k) + (W(f) - 1)
        BY DEF SampleSets
      <4>2. 2 * p + (2 * u - 1) = 2 * (p + u) - 1
        OBVIOUS
      <4> QED BY <1>1, <3>2, <4>1, <4>2, Zenon
    <3> HIDE DEF R, to, from, phys, dst, src, result, D, E, F
    <3>6. ASSUME NEW x \in D[k] PROVE v[x] = mm[x - 2 * p + 2 * r]
      <4>1. PICK j \in 0 .. W(f) - 1 : x = 2 * p + j
        <5>1. x - 2 * p \in 0 .. 2 * u - 1 /\ x = 2 * p + (x - 2 * p)
          BY <3>5, SMTT(30)
        <5> QED BY <1>1, <5>1
      <4>2. x = Start(0, dl, f, c, o + k) + j /\ x - 2 * p + 2 * r = Start(Half, sl, f, c, q + k) + j
        BY <3>2, <3>3, <4>1
      <4>3. v[x] = m[Start(Half, sl, f, c, q + k) + j]
        BY <4>2
      <4>4. mm[Start(Half, sl, f, c, q + k) + j] = m[Start(Half, sl, f, c, q + k) + j]
        BY <1>7 DEF Near
      <4> QED BY <4>2, <4>3, <4>4
    <3>7. mm \in Mem /\ u \in Nat
      BY DEF Near
    <3>8. Written(A!memcpy(mm, p, r, u), mm, D[k], v)
      BY <3>5, <3>6, <3>7, Copied
    <3> QED BY <3>4, <3>8
  <2>3. /\ \A k \in 0 .. n - 1 : D[k] \subseteq E
        /\ Together(D, n) = Cells(dl, f, c, o, n)
    BY SampleSetsAre
  <2> HIDE DEF R, D, E
  <2>4. \A mm \in Near(m, E), k \in 0 .. n - 1 : Written(R(mm, k), mm, D[k], v) /\ R(mm, k) \in Near(m, E)
    BY <2>2, <2>3, WrittenNear
  <2>5. PICK g : F(g) /\ result = g[n]
    <3>1. PICK Q : Q = [s \in Near(m, E) \X (0 .. n - 1) |-> R(s[1], s[2])]
      OBVIOUS
    <3>2. Q \in [Near(m, E) \X (0 .. n - 1) -> Near(m, E)] /\ m \in Near(m, E)
      BY <2>4, <3>1 DEF Near
    <3>3. PICK h : Values(h, Near(m, E), m, n, Q)
      BY <3>2, LoopExists
    <3>4. ASSUME NEW k \in 0 .. n PROVE h[k] = IF k = 0 THEN m ELSE R(h[k - 1], k - 1)
      <4>1. h[k] = IF k = 0 THEN m ELSE Q[<<h[k - 1], k - 1>>]
        BY <3>3 DEF Values
      <4>2. CASE k # 0
        <5>1. k - 1 \in 0 .. n - 1 /\ k - 1 \in 0 .. n
          BY <4>2
        <5>2. h[k - 1] \in Near(m, E)
          BY <3>3, <5>1 DEF Values
        <5> QED BY <3>1, <4>1, <5>1, <5>2
      <4> QED BY <4>1, <4>2
    <3>5. F(h)
      BY <3>3, <3>4 DEF Values
    <3>6. result = (CHOOSE g : F(g))[n]
      BY <2>1 DEF A!Loop
    <3> HIDE DEF F
    <3> QED BY <3>5, <3>6
  <2>6. g[0] = m /\ \A k \in 0 .. n - 1 : g[k + 1] = R(g[k], k)
    BY <2>5
  <2>7. Written(g[n], m, Together(D, n), v)
    <3>1. \A k \in 0 .. n - 1 : g[k] \in Near(m, E) => Written(g[k + 1], g[k], D[k], v)
      BY <2>4, <2>6
    <3>2. g[0] = m /\ \A k \in 0 .. n - 1 : D[k] \subseteq E
      BY <2>3, <2>6
    <3> HIDE DEF F
    <3> QED BY <3>1, <3>2, LoopWritten
  <2> HIDE DEF F, result
  <2>8. Written(result, m, Cells(dl, f, c, o, n), v)
    BY <2>3, <2>5, <2>7
  <2> QED BY <2>8 DEF result
<1> QED BY <1>8, <1>9

\* Two even distances leave a nibble in the half of a byte it was in.
LEMMA SameParity ==
    ASSUME NEW z \in Nat, NEW x \in Nat, NEW y \in Nat, y % 2 = 0, NEW w \in Nat, w % 2 = 0, NEW t \in Nat
    PROVE  (2 * z + (x + w + t)) % 2 = (x + y + t) % 2
  OBVIOUS

\* area_copy_4bit, between areas that lie alike and from samples that begin in the
\* half their areas begin with.
LEMMA AreaCopy4 ==
    ASSUME A!AreasConstants, NEW f \in AreaFormats, W(f) = 1, NEW m \in Mem, NEW v \in Mem,
           NEW layout \in Kinds, NEW c \in 0 .. AreaChannels - 1,
           NEW o \in 0 .. Frames - 1, NEW q \in 0 .. Frames - 1, NEW n \in Nat,
           o + n <= Frames, q + n <= Frames,
           (Stride(layout, f) * o) % 2 = 0, (Stride(layout, f) * q) % 2 = 0,
           \A k \in 0 .. n - 1, j \in 0 .. W(f) - 1 :
                v[Start(0, layout, f, c, o + k) + j] = m[Start(Half, layout, f, c, q + k) + j]
    PROVE  Written(A!snd_pcm_area_copy(m, A!Area(A!Dst, layout, f, c), o,
                                       A!Area(A!Src, layout, f, c), q, n, f),
                   m, Cells(layout, f, c, o, n), v)
<1> DEFINE dst == A!Area(A!Dst, layout, f, c)
           src == A!Area(A!Src, layout, f, c)
           phys == A!snd_pcm_format_physical_width(f)
           result == A!snd_pcm_area_copy(m, dst, o, src, q, n, f)
           to == A!Place4(dst, o, n)
           from == A!Place4(src, q, n)
           R(mm, k) == LET srcval == mm[A!Half(from[k])]
                           put == 2 * to[k].byte + (A!Half(from[k]) % 2)
                       IN  [[mm EXCEPT ![A!Half(to[k])] = {}] EXCEPT ![put] = @ \cup srcval]
           F(g) == g = [k \in 0 .. n |-> IF k = 0 THEN m ELSE R(g[k - 1], k - 1)]
           E == 0 .. Half - 1
           D == SampleSets(layout, f, c, o, n)
           X(k) == Start(0, layout, f, c, o + k)
           Y(k) == Start(Half, layout, f, c, q + k)
<1>1. phys = 4 /\ phys < 8
  <2>1. phys = 4 * W(f)
    BY Width
  <2> QED BY <2>1
<1>2. A!Dst = 0 /\ 2 * A!Src = Half /\ A!Src \in Nat /\ c \in Nat /\ o \in Nat /\ q \in Nat /\ 0 \in Nat
      /\ Half \in Nat /\ Frames \in Nat
  BY Constants
<1>3. dst # src /\ dst.addr # A!NULL /\ src.addr # A!NULL
  BY Different
<1>4. result = A!Loop(m, n, LAMBDA mm, k : R(mm, k))
  <2>1. ~(dst.addr = A!NULL) /\ ~(dst.addr # A!NULL /\ dst = src /\ o = q)
        /\ ~(dst.addr # A!NULL /\ src.addr = A!NULL)
    BY <1>3
  <2>2. result = A!area_copy_4bit(m, dst, o, src, q, n)
    BY <1>1, <2>1, Zenon DEF A!snd_pcm_area_copy
  <2>3. A!area_copy_4bit(m, dst, o, src, q, n) = A!Loop(m, n, LAMBDA mm, k : R(mm, k))
    BY Zenon DEF A!area_copy_4bit
  <2> QED BY <2>2, <2>3, Zenon
<1>5. ASSUME NEW k \in 0 .. n - 1
      PROVE  A!Half(to[k]) = X(k) /\ to[k].byte \in Nat
  <2>1. k \in 0 .. n
    OBVIOUS
  <2>2. PICK b \in Nat : b = 0 /\ 2 * b = 0
    OBVIOUS
  <2>3. A!Half(A!Place4(A!Area(b, layout, f, c), o, n)[k]) = Start(2 * b, layout, f, c, o + k)
    <3> HIDE DEF dst, src, phys, result, R, F, E, D, X, Y, to, from
    <3> QED BY <1>2, <2>1, Places
  <2>4. A!Place4(A!Area(b, layout, f, c), o, n)[k].byte \in Nat
    <3> HIDE DEF dst, src, phys, result, R, F, E, D, X, Y, to, from
    <3> QED BY <1>2, <2>1, PlaceBytes
  <2> QED BY <1>2, <2>2, <2>3, <2>4, Zenon
<1>6. ASSUME NEW k \in 0 .. n - 1
      PROVE  A!Half(from[k]) = Y(k)
  <2>1. k \in 0 .. n
    OBVIOUS
  <2>2. PICK b \in Nat : b = A!Src /\ 2 * b = Half
    BY <1>2
  <2>3. A!Half(A!Place4(A!Area(b, layout, f, c), q, n)[k]) = Start(2 * b, layout, f, c, q + k)
    <3> HIDE DEF dst, src, phys, result, R, F, E, D, X, Y, to, from
    <3> QED BY <1>2, <2>1, Places
  <2> QED BY <1>2, <2>2, <2>3, Zenon
<1>7. ASSUME NEW k \in 0 .. n - 1
      PROVE  /\ X(k) \in Nat /\ D[k] = {X(k)} /\ X(k) \in A!Nibbles
             /\ Y(k) \in A!Nibbles \ E
             /\ v[X(k)] = m[Y(k)]
  <2>1. k \in Nat /\ o + k < Frames /\ q + k < Frames /\ 0 \in 0 .. W(f) - 1
    BY <1>2
  <2>2. PICK s \in Nat : s = X(k)
    <3>1. X(k) \in Nat
      BY <2>1, CellsWithin
    <3> QED BY <3>1
  <2>3. Y(k) + 0 \in A!Nibbles \ E
    BY <2>1, SourceWithin
  <2>4. Y(k) + 0 = Y(k)
    <3>1. Y(k) \in Int
      <4>1. PICK b \in Nat : b = A!Src /\ 2 * b = Half
        BY <1>2
      <4>2. q + k \in Nat
        BY <1>2, <2>1
      <4>3. Start(2 * b, layout, f, c, q + k) \in Nat
        BY <1>2, <4>2, StartNat
      <4> QED BY <4>1, <4>3
    <3> HIDE DEF Y
    <3> QED BY <3>1
  <2>5. s .. s + (1 - 1) = {s} /\ s + 0 = s
    OBVIOUS
  <2>6. D[k] = Start(0, layout, f, c, o + k) .. Start(0, layout, f, c, o + k) + (W(f) - 1)
    BY DEF SampleSets
  <2>7. v[X(k) + 0] = m[Y(k) + 0]
    BY <2>1
  <2>8. D[k] = {X(k)}
    BY <2>2, <2>5, <2>6, Zenon
  <2>9. D[k] \subseteq E /\ E \subseteq A!Nibbles
    BY SampleSetsAre
  <2> HIDE DEF D, X, Y, E
  <2> QED BY <2>2, <2>3, <2>4, <2>5, <2>7, <2>8, <2>9
<1>8. ASSUME NEW k \in 0 .. n - 1
      PROVE  2 * to[k].byte + (A!Half(from[k]) % 2) = X(k)
  <2>1. Y(k) % 2 = X(k) % 2
    <3>1. PICK x \in Nat, t \in Nat, y \in Nat, w \in Nat :
            X(k) = x + y + t /\ Y(k) = 2 * A!Src + (x + w + t) /\ y % 2 = 0 /\ w % 2 = 0
      <4>1. k \in Nat
        OBVIOUS
      <4>2. PICK st \in Nat : st = Stride(layout, f)
        BY <1>2, AreaFields
      <4>3. PICK b \in Nat : b = 0 /\ 2 * b = 0
        OBVIOUS
      <4>4. PICK x \in Nat : x = Start(0, layout, f, c, 0)
        <5>1. Start(2 * b, layout, f, c, 0) \in Nat
          BY <1>2, StartNat
        <5> QED BY <4>3, <5>1
      <4>5. X(k) = x + st * (o + k)
        <5>1. Start(2 * b, layout, f, c, o + k) = Start(2 * b, layout, f, c, 0) + Stride(layout, f) * (o + k)
          <6>1. o + k \in Nat
            BY <1>2, <4>1
          <6> QED BY <1>2, <6>1, StartFrom
        <5> QED BY <4>2, <4>3, <4>4, <5>1, Zenon
      <4>6. Y(k) = Half + (x + st * (q + k))
        <5>1. Start(2 * b, layout, f, c, q + k) = Start(2 * b, layout, f, c, 0) + Stride(layout, f) * (q + k)
          <6>1. q + k \in Nat
            BY <1>2, <4>1
          <6> QED BY <1>2, <6>1, StartFrom
        <5>2. Start(Half, layout, f, c, q + k) = Half + Start(0, layout, f, c, q + k)
          <6>1. q + k \in 0 .. Frames - 1 /\ 0 \in 0 .. W(f) - 1
            BY <1>2
          <6> QED BY <6>1, Within
        <5> QED BY <4>2, <4>3, <4>4, <5>1, <5>2, Zenon
      <4>7. st * (o + k) = st * o + st * k /\ st * (q + k) = st * q + st * k
            /\ st * o \in Nat /\ st * q \in Nat /\ st * k \in Nat
        BY <1>2, <4>1
      <4>8. PICK y \in Nat : y = st * o /\ y % 2 = 0
        BY <4>2, <4>7
      <4>9. PICK w \in Nat : w = st * q /\ w % 2 = 0
        BY <4>2, <4>7
      <4>10. PICK t \in Nat : t = st * k
        BY <4>7
      <4>11. X(k) = x + y + t
        <5>1. x + (y + t) = x + y + t
          OBVIOUS
        <5> QED BY <4>5, <4>7, <4>8, <4>10, <5>1, Zenon
      <4>12. Y(k) = 2 * A!Src + (x + w + t)
        <5>1. x + (w + t) = x + w + t
          OBVIOUS
        <5> QED BY <1>2, <4>6, <4>7, <4>9, <4>10, <5>1, Zenon
      <4> QED BY <4>8, <4>9, <4>11, <4>12
    <3>2. (2 * A!Src + (x + w + t)) % 2 = (x + y + t) % 2
      BY <1>2, <3>1, SameParity
    <3> QED BY <3>1, <3>2, Zenon
  <2>2. A!Half(to[k]) = X(k) /\ to[k].byte \in Nat /\ A!Half(from[k]) = Y(k)
    BY <1>5, <1>6
  <2>3. A!Half(to[k]) = 2 * to[k].byte + (IF to[k].bit # 0 THEN 1 ELSE 0)
    BY Zenon DEF A!Half
  <2>4. PICK e \in {0, 1} : A!Half(to[k]) = 2 * to[k].byte + e
    <3> HIDE DEF to
    <3> QED BY <2>3
  <2>5. PICK byte \in Nat : byte = to[k].byte
    BY <2>2
  <2> HIDE DEF to, from, X, Y
  <2>6. (2 * byte + e) % 2 = e
    OBVIOUS
  <2>7. X(k) % 2 = e /\ A!Half(from[k]) % 2 = X(k) % 2
    <3>1. X(k) = 2 * byte + e
      BY <2>2, <2>4, <2>5
    <3>2. X(k) % 2 = e
      BY <2>6, <3>1
    <3> QED BY <2>1, <2>2, <3>2, Zenon
  <2> QED BY <2>2, <2>4, <2>5, <2>7
<1>9. \A k \in 0 .. n - 1 : D[k] \subseteq E
  BY SampleSetsAre
<1>10. Together(D, n) = Cells(layout, f, c, o, n)
  BY SampleSetsAre
<1>11. ASSUME NEW mm \in Near(m, E), NEW k \in 0 .. n - 1
       PROVE  Written(R(mm, k), mm, D[k], v)
  <2>1. R(mm, k) = [[mm EXCEPT ![X(k)] = {}] EXCEPT ![X(k)] = @ \cup mm[Y(k)]]
    BY <1>5, <1>6, <1>8, Zenon
  <2>2. mm \in Mem /\ mm[Y(k)] = m[Y(k)]
    BY <1>7 DEF Near
  <2>3. X(k) \in A!Nibbles /\ D[k] = {X(k)} /\ v[X(k)] = m[Y(k)]
    BY <1>7
  <2> HIDE DEF R, D, E, X, Y, to, from, dst, src, F, result, phys
  <2>4. R(mm, k) = [x \in A!Nibbles |-> R(mm, k)[x]]
    BY <2>1, <2>2 DEF Mem
  <2>5. \A x \in A!Nibbles : R(mm, k)[x] = IF x \in D[k] THEN v[x] ELSE mm[x]
    <3> TAKE x \in A!Nibbles
    <3>1. R(mm, k)[x] = IF x = X(k) THEN {} \cup mm[Y(k)] ELSE mm[x]
      BY <2>1, <2>2, <2>3 DEF Mem
    <3>2. {} \cup mm[Y(k)] = mm[Y(k)]
      OBVIOUS
    <3> QED BY <2>2, <2>3, <3>1, <3>2
  <2> QED BY <2>4, <2>5, WrittenBy
<1> HIDE DEF R, D, E, X, Y, to, from, phys
<1>12. \A mm \in Near(m, E), k \in 0 .. n - 1 : Written(R(mm, k), mm, D[k], v) /\ R(mm, k) \in Near(m, E)
  BY <1>9, <1>11, WrittenNear
<1>13. PICK g : F(g) /\ result = g[n]
  <2>1. PICK P : P = [s \in Near(m, E) \X (0 .. n - 1) |-> R(s[1], s[2])]
    OBVIOUS
  <2>2. P \in [Near(m, E) \X (0 .. n - 1) -> Near(m, E)] /\ m \in Near(m, E)
    BY <1>12, <2>1 DEF Near
  <2>3. PICK h : Values(h, Near(m, E), m, n, P)
    BY <2>2, LoopExists
  <2>4. ASSUME NEW k \in 0 .. n PROVE h[k] = IF k = 0 THEN m ELSE R(h[k - 1], k - 1)
    <3>1. h[k] = IF k = 0 THEN m ELSE P[<<h[k - 1], k - 1>>]
      BY <2>3 DEF Values
    <3>2. CASE k # 0
      <4>1. k - 1 \in 0 .. n - 1 /\ k - 1 \in 0 .. n
        BY <3>2
      <4>2. h[k - 1] \in Near(m, E)
        BY <2>3, <4>1 DEF Values
      <4> QED BY <2>1, <3>1, <4>1, <4>2
    <3> QED BY <3>1, <3>2
  <2>5. F(h)
    BY <2>3, <2>4 DEF Values
  <2>6. result = (CHOOSE g : F(g))[n]
    BY <1>4 DEF A!Loop
  <2> HIDE DEF F
  <2> QED BY <2>5, <2>6
<1>14. g[0] = m /\ \A k \in 0 .. n - 1 : g[k + 1] = R(g[k], k)
  BY <1>13
<1>15. Written(g[n], m, Together(D, n), v)
  <2>1. \A k \in 0 .. n - 1 : g[k] \in Near(m, E) => Written(g[k + 1], g[k], D[k], v)
    BY <1>12, <1>14
  <2>2. g[0] = m /\ \A k \in 0 .. n - 1 : D[k] \subseteq E
    BY <1>9, <1>14
  <2> HIDE DEF F
  <2> QED BY <2>1, <2>2, LoopWritten
<1> HIDE DEF F, result
<1>16. Written(result, m, Cells(layout, f, c, o, n), v)
  BY <1>10, <1>13, <1>15
<1> QED BY <1>16 DEF result

\* Samples that begin in the half their area begins with: what the loops over half
\* bytes ask of the first.
LEMMA Even ==
    ASSUME A!AreasConstants, NEW f \in AreaFormats, W(f) = 1, NEW layout \in Kinds,
           NEW c \in Nat, NEW o \in Nat, A!Half4(layout, o, c) = A!Half4(layout, 0, c)
    PROVE  (Stride(layout, f) * o) % 2 = 0
<1>1. f = "IMA_ADPCM"
  BY HalfBytes
<1>2. PICK b \in Nat : b = A!Dst /\ b = 0
  BY Constants
<1> DEFINE a == A!Area(b, layout, f, c)
<1>3. (a.first + a.step * o) % 8 = (a.first + a.step * 0) % 8
  <2>1. /\ A!Half4(layout, o, c) = (A!Area(A!Dst, layout, "IMA_ADPCM", c).first + A!Area(A!Dst, layout, "IMA_ADPCM", c).step * o) % 8
        /\ A!Half4(layout, 0, c) = (A!Area(A!Dst, layout, "IMA_ADPCM", c).first + A!Area(A!Dst, layout, "IMA_ADPCM", c).step * 0) % 8
    BY Zenon DEF A!Half4
  <2>2. A!Area(A!Dst, layout, "IMA_ADPCM", c) = a
    BY <1>1, <1>2, Zenon
  <2>3. PICK r : r = A!Area(A!Dst, layout, "IMA_ADPCM", c)
    OBVIOUS
  <2>4. (r.first + r.step * o) % 8 = (r.first + r.step * 0) % 8
    BY <2>1, <2>3, Zenon
  <2>5. r = a
    BY <2>2, <2>3, Zenon
  <2> HIDE DEF a
  <2> QED BY <2>4, <2>5
<1>4. PICK st \in Nat : st = Stride(layout, f) /\ a.step = 4 * st
  <2>1. a.step = 4 * Stride(layout, f) /\ Stride(layout, f) \in Nat
    BY AreaFields
  <2> QED BY <2>1
<1>5. PICK x \in Nat : a.first = 4 * x
  <2>1. a.first = 4 * (Start(2 * b, layout, f, c, 0) - 2 * a.addr)
    BY AreaFields
  <2>2. Start(2 * b, layout, f, c, 0) - 2 * a.addr \in Nat
    BY AreaFields
  <2> HIDE DEF a
  <2> QED BY <2>1, <2>2
<1> HIDE DEF a
<1>6. PICK y \in Nat : y = st * o
  OBVIOUS
<1>7. a.step * o = 4 * y /\ a.step * 0 = 0
  <2>1. (4 * st) * o = 4 * (st * o)
    OBVIOUS
  <2> QED BY <1>4, <1>6, <2>1
<1>8. (4 * x + 4 * y) % 8 = (4 * x) % 8
  <2>1. 4 * x + 0 = 4 * x
    OBVIOUS
  <2> QED BY <1>3, <1>5, <1>7, <2>1
<1>9. y % 2 = 0
  BY <1>8
<1> QED BY <1>4, <1>6, <1>9

-----------------------------------------------------------------------------
(* All channels. *)

\* v holds u(c, i, j) in nibble j of sample i of channel c.
Holds(v, layout, f, u) ==
    \A c \in 0 .. AreaChannels - 1, i \in 0 .. Frames - 1, j \in 0 .. W(f) - 1 :
        v[Start(0, layout, f, c, i) + j] = u[<<c, i, j>>]

\* There is a memory that holds what one likes: no nibble belongs to two samples.
LEMMA HoldsSome ==
    ASSUME A!AreasConstants, NEW f \in AreaFormats, NEW layout \in Kinds,
           NEW u \in [(0 .. AreaChannels - 1) \X (0 .. Frames - 1) \X (0 .. W(f) - 1) -> SUBSET Int]
    PROVE  \E v \in Mem : Holds(v, layout, f, u)
<1> DEFINE Cs == 0 .. AreaChannels - 1
           I == 0 .. Frames - 1
           J == 0 .. W(f) - 1
           At(x, y) == \E c \in Cs, i \in I, j \in J : x = Start(0, layout, f, c, i) + j /\ y = u[<<c, i, j>>]
           V(x) == {y \in SUBSET Int : At(x, y)}
           v == [x \in A!Nibbles |-> IF V(x) = {} THEN {} ELSE CHOOSE y \in V(x) : TRUE]
<1>1. v \in Mem
  <2>1. ASSUME NEW x \in A!Nibbles PROVE (IF V(x) = {} THEN {} ELSE CHOOSE y \in V(x) : TRUE) \in SUBSET Int
    <3>1. V(x) # {} => (CHOOSE y \in V(x) : TRUE) \in V(x)
      BY Zenon
    <3>2. V(x) \subseteq SUBSET Int
      OBVIOUS
    <3> HIDE DEF V
    <3> QED BY <3>1, <3>2
  <2> HIDE DEF V
  <2> QED BY <2>1 DEF Mem
<1>2. ASSUME NEW c \in Cs, NEW i \in I, NEW j \in J
      PROVE  v[Start(0, layout, f, c, i) + j] = u[<<c, i, j>>]
  <2>1. PICK x : x = Start(0, layout, f, c, i) + j
    OBVIOUS
  <2>2. x \in A!Nibbles
    <3>1. x \in 0 .. Half - 1
      BY <2>1, Within
    <3>2. Half \in Nat /\ A!Nibbles = 0 .. 2 * Half - 1
      BY Constants
    <3> QED BY <3>1, <3>2
  <2>3. u[<<c, i, j>>] \in SUBSET Int
    OBVIOUS
  <2>4. u[<<c, i, j>>] \in V(x)
    <3>1. At(x, u[<<c, i, j>>])
      BY <2>1
    <3> QED BY <2>3, <3>1
  <2>5. ASSUME NEW y \in V(x) PROVE y = u[<<c, i, j>>]
    <3>1. PICK d \in Cs, k \in I, l \in J : x = Start(0, layout, f, d, k) + l /\ y = u[<<d, k, l>>]
      OBVIOUS
    <3>2. Start(0, layout, f, c, i) + j = Start(0, layout, f, d, k) + l
      BY <2>1, <3>1
    <3>3. c = d /\ i = k /\ j = l
      <4> HIDE DEF V
      <4> QED BY <3>2, Apart
    <3> QED BY <3>1, <3>3
  <2>6. v[x] = IF V(x) = {} THEN {} ELSE CHOOSE y \in V(x) : TRUE
    BY <2>2
  <2> HIDE DEF V, v
  <2>7. V(x) # {} /\ (CHOOSE y \in V(x) : TRUE) \in V(x)
    BY <2>4, Zenon
  <2> QED BY <2>1, <2>5, <2>6, <2>7
<1> HIDE DEF v
<1>3. Holds(v, layout, f, u)
  BY <1>2 DEF Holds
<1> QED BY <1>1, <1>3

\* The nibbles of channel c that a call writes: silence is copied from areas that
\* are "null", and areas that are copied onto themselves stay as they are.
Part(dl, sl, f, c, o, n) == IF dl = "null" \/ sl = "same" THEN {} ELSE Cells(dl, f, c, o, n)

\* What the loops over half bytes ask of the two areas.
Ready(dl, o, sl, q, f) ==
    W(f) = 1 =>
        /\ dl \in Kinds => (Stride(dl, f) * o) % 2 = 0
        /\ dl \in Kinds /\ sl \in Kinds => dl = sl /\ (Stride(sl, f) * q) % 2 = 0

\* v holds what is to be written, where it is to be written.
Wants(v, m, dl, o, sl, q, n, f) ==
    \A c \in 0 .. AreaChannels - 1, k \in 0 .. n - 1, j \in 0 .. W(f) - 1 :
        /\ dl \in Kinds /\ sl = "null" =>
            v[Start(0, dl, f, c, o + k) + j] = A!SilentNibble(f, j)
        /\ dl \in Kinds /\ sl \in Kinds =>
            v[Start(0, dl, f, c, o + k) + j] = m[Start(Half, sl, f, c, q + k) + j]

NotNull == "null" \notin Kinds /\ "same" \notin Kinds /\ "null" # "same"

\* The names of layouts are different.
LEMMA KindsAre == NotNull
  BY DEF NotNull, Kinds

\* The area of a "null" layout has no address.
LEMMA NullArea ==
    ASSUME NEW b, NEW f, NEW c
    PROVE  A!Area(b, "null", f, c).addr = A!NULL
  BY AreaIs

\* One round of snd_pcm_areas_silence.
LEMMA ChannelSilence ==
    ASSUME A!AreasConstants, NEW f \in AreaFormats, NEW m \in Mem, NEW v \in Mem, NEW mm \in Mem,
           NEW dl \in Kinds \cup {"null"}, NEW o \in 0 .. Frames - 1, NEW q \in 0 .. Frames - 1, NEW n \in Nat,
           o + n <= Frames, Ready(dl, o, "null", q, f), Wants(v, m, dl, o, "null", q, n, f),
           NEW c \in 0 .. AreaChannels - 1
    PROVE  Written(A!snd_pcm_area_silence(mm, A!Area(A!Dst, dl, f, c), o, n, f),
                   mm, Part(dl, "null", f, c, o, n), v)
<1>0. NotNull
  BY KindsAre
<1>1. CASE dl = "null"
  <2>1. A!Area(A!Dst, dl, f, c).addr = A!NULL
    BY <1>1, NullArea
  <2>2. A!snd_pcm_area_silence(mm, A!Area(A!Dst, dl, f, c), o, n, f) = mm
    BY <2>1, Zenon DEF A!snd_pcm_area_silence
  <2>3. Part(dl, "null", f, c, o, n) = {}
    BY <1>1 DEF Part
  <2> QED BY <2>2, <2>3, WrittenNothing
<1>2. CASE dl \in Kinds
  <2>1. \A k \in 0 .. n - 1, j \in 0 .. W(f) - 1 :
            v[Start(0, dl, f, c, o + k) + j] = A!SilentNibble(f, j)
    BY <1>2 DEF Wants
  <2>2. Part(dl, "null", f, c, o, n) = Cells(dl, f, c, o, n)
    BY <1>0, <1>2 DEF Part, NotNull
  <2>3. Written(A!snd_pcm_area_silence(mm, A!Area(A!Dst, dl, f, c), o, n, f), mm, Cells(dl, f, c, o, n), v)
    <3>1. CASE W(f) # 1
      BY <1>2, <2>1, <3>1, AreaSilence
    <3>2. CASE W(f) = 1
      <4>1. (Stride(dl, f) * o) % 2 = 0
        BY <1>2, <3>2 DEF Ready
      <4> QED BY <1>2, <2>1, <3>2, <4>1, AreaSilence4
    <3> QED BY <3>1, <3>2
  <2> QED BY <2>2, <2>3
<1> QED BY <1>1, <1>2

\* One round of snd_pcm_areas_copy.
LEMMA ChannelCopy ==
    ASSUME A!AreasConstants, NEW f \in AreaFormats, NEW m \in Mem, NEW v \in Mem,
           NEW mm \in Near(m, 0 .. Half - 1),
           NEW dl \in Kinds \cup {"null"}, NEW sl \in Kinds \cup {"null", "same"},
           NEW o \in 0 .. Frames - 1, NEW q \in 0 .. Frames - 1, NEW n \in Nat,
           o + n <= Frames, q + n <= Frames, sl = "same" => o = q,
           Ready(dl, o, sl, q, f), Wants(v, m, dl, o, sl, q, n, f),
           NEW c \in 0 .. AreaChannels - 1,
           NEW src, src = IF sl = "same" THEN A!Area(A!Dst, dl, f, c) ELSE A!Area(A!Src, sl, f, c)
    PROVE  Written(A!snd_pcm_area_copy(mm, A!Area(A!Dst, dl, f, c), o, src, q, n, f),
                   mm, Part(dl, sl, f, c, o, n), v)
<1> DEFINE dst == A!Area(A!Dst, dl, f, c)
           result == A!snd_pcm_area_copy(mm, dst, o, src, q, n, f)
<1>0. NotNull /\ mm \in Mem
  BY KindsAre DEF Near
<1>1. CASE dl = "null"
  <2>1. dst.addr = A!NULL
    BY <1>1, NullArea
  <2>2. result = mm
    BY <2>1, Zenon DEF A!snd_pcm_area_copy
  <2>3. Part(dl, sl, f, c, o, n) = {}
    BY <1>1 DEF Part
  <2> QED BY <1>0, <2>2, <2>3, WrittenNothing
<1>2. CASE dl \in Kinds
  <2>0. dst.addr # A!NULL
    BY <1>2, Different
  <2>1. CASE sl = "same"
    <3>1. dst = src /\ o = q
      BY <2>1
    <3>2. result = mm
      BY <2>0, <3>1, Zenon DEF A!snd_pcm_area_copy
    <3>3. Part(dl, sl, f, c, o, n) = {}
      BY <2>1 DEF Part
    <3> QED BY <1>0, <3>2, <3>3, WrittenNothing
  <2>2. CASE sl = "null"
    <3>1. src = A!Area(A!Src, "null", f, c)
      BY <2>2
    <3>2. src.addr = A!NULL
      BY <3>1, NullArea
    <3>3. ~(dst = src) /\ ~(dst.addr = A!NULL)
      BY <2>0, <3>2
    <3>4. result = A!snd_pcm_area_silence(mm, dst, o, n, f)
      BY <2>0, <3>2, <3>3, Zenon DEF A!snd_pcm_area_copy
    <3>5. Written(A!snd_pcm_area_silence(mm, dst, o, n, f), mm, Part(dl, "null", f, c, o, n), v)
      <4>1. Ready(dl, o, "null", q, f) /\ Wants(v, m, dl, o, "null", q, n, f)
        BY <2>2
      <4> QED BY <1>0, <4>1, ChannelSilence
    <3> QED BY <2>2, <3>4, <3>5
  <2>3. CASE sl \in Kinds
    <3>1. src = A!Area(A!Src, sl, f, c)
      BY <1>0, <2>3 DEF NotNull
    <3>2. \A k \in 0 .. n - 1, j \in 0 .. W(f) - 1 :
            v[Start(0, dl, f, c, o + k) + j] = mm[Start(Half, sl, f, c, q + k) + j]
      <4> TAKE k \in 0 .. n - 1, j \in 0 .. W(f) - 1
      <4>1. v[Start(0, dl, f, c, o + k) + j] = m[Start(Half, sl, f, c, q + k) + j]
        BY <1>2, <2>3 DEF Wants
      <4>2. k \in Nat /\ q + k < Frames
        BY Constants
      <4>3. Start(Half, sl, f, c, q + k) + j \in A!Nibbles \ (0 .. Half - 1)
        BY <2>3, <4>2, SourceWithin
      <4>4. mm[Start(Half, sl, f, c, q + k) + j] = m[Start(Half, sl, f, c, q + k) + j]
        BY <4>3 DEF Near
      <4> QED BY <4>1, <4>4
    <3>3. Part(dl, sl, f, c, o, n) = Cells(dl, f, c, o, n)
      BY <1>0, <1>2, <2>3 DEF Part, NotNull
    <3>4. Written(A!snd_pcm_area_copy(mm, A!Area(A!Dst, dl, f, c), o, A!Area(A!Src, sl, f, c), q, n, f),
                  mm, Cells(dl, f, c, o, n), v)
      <4>1. CASE W(f) # 1
        BY <1>0, <1>2, <2>3, <3>2, <4>1, AreaCopy
      <4>2. CASE W(f) = 1
        <5>1. (Stride(dl, f) * o) % 2 = 0 /\ dl = sl /\ (Stride(dl, f) * q) % 2 = 0
          BY <1>2, <2>3, <4>2 DEF Ready
        <5>2. \A k \in 0 .. n - 1, j \in 0 .. W(f) - 1 :
                v[Start(0, dl, f, c, o + k) + j] = mm[Start(Half, dl, f, c, q + k) + j]
          BY <3>2, <5>1
        <5>3. Written(A!snd_pcm_area_copy(mm, A!Area(A!Dst, dl, f, c), o, A!Area(A!Src, dl, f, c), q, n, f),
                  mm, Cells(dl, f, c, o, n), v)
          BY <1>0, <1>2, <4>2, <5>1, <5>2, AreaCopy4
        <5> QED BY <5>1, <5>3
      <4> QED BY <4>1, <4>2
    <3> QED BY <3>1, <3>3, <3>4
  <2> QED BY <2>1, <2>2, <2>3
<1> QED BY <1>1, <1>2

\* The nibbles that the loop over the channels writes.
Parts(dl, sl, f, o, n) == [c \in 0 .. AreaChannels - 1 |-> Part(dl, sl, f, c, o, n)]
Whole(dl, sl, f, o, n) == Together(Parts(dl, sl, f, o, n), AreaChannels)

\* What a channel has written for it lies in the buffer written to.
LEMMA PartsWithin ==
    ASSUME A!AreasConstants, NEW f \in AreaFormats,
           NEW dl \in Kinds \cup {"null"}, NEW sl, NEW o \in 0 .. Frames - 1, NEW n \in Nat, o + n <= Frames,
           NEW c \in 0 .. AreaChannels - 1
    PROVE  Parts(dl, sl, f, o, n)[c] \subseteq 0 .. Half - 1
<1>1. Parts(dl, sl, f, o, n)[c] = Part(dl, sl, f, c, o, n)
  BY DEF Parts
<1>2. CASE dl = "null" \/ sl = "same"
  BY <1>1, <1>2 DEF Part
<1>3. CASE ~(dl = "null" \/ sl = "same")
  <2>1. Parts(dl, sl, f, o, n)[c] = Cells(dl, f, c, o, n) /\ dl \in Kinds
    BY <1>1, <1>3 DEF Part
  <2>2. \A k \in 0 .. n - 1 : Start(0, dl, f, c, o + k) .. Start(0, dl, f, c, o + k) + (W(f) - 1) \subseteq 0 .. Half - 1
    <3> TAKE k \in 0 .. n - 1
    <3>1. k \in Nat /\ o + k < Frames
      BY Constants
    <3> QED BY <2>1, <3>1, CellsWithin
  <2>3. Cells(dl, f, c, o, n) \subseteq 0 .. Half - 1
    BY <2>2 DEF Cells
  <2> QED BY <2>1, <2>3
<1> QED BY <1>2, <1>3

\* The loops of snd_pcm_areas_silence and snd_pcm_areas_copy.
SilenceAll(m, dl, o, n, f) ==
    A!Loop(m, AreaChannels, LAMBDA mm, c : A!snd_pcm_area_silence(mm, A!Area(A!Dst, dl, f, c), o, n, f))

FromArea(dl, sl, f, c) == IF sl = "same" THEN A!Area(A!Dst, dl, f, c) ELSE A!Area(A!Src, sl, f, c)
CopyAll(m, dl, o, sl, q, n, f) ==
    A!Loop(m, AreaChannels, LAMBDA mm, c :
        A!snd_pcm_area_copy(mm, A!Area(A!Dst, dl, f, c), o, FromArea(dl, sl, f, c), q, n, f))

\* snd_pcm_areas_silence writes the silence of all of its channels.
LEMMA AllSilenced ==
    ASSUME A!AreasConstants, NEW f \in AreaFormats, NEW m \in Mem, NEW v \in Mem,
           NEW dl \in Kinds \cup {"null"}, NEW o \in 0 .. Frames - 1, NEW q \in 0 .. Frames - 1, NEW n \in Nat,
           o + n <= Frames, Ready(dl, o, "null", q, f), Wants(v, m, dl, o, "null", q, n, f)
    PROVE  Written(SilenceAll(m, dl, o, n, f), m, Whole(dl, "null", f, o, n), v)
<1> DEFINE N == AreaChannels
           result == SilenceAll(m, dl, o, n, f)
           R(mm, c) == A!snd_pcm_area_silence(mm, A!Area(A!Dst, dl, f, c), o, n, f)
           F(g) == g = [k \in 0 .. N |-> IF k = 0 THEN m ELSE R(g[k - 1], k - 1)]
           E == 0 .. Half - 1
           D == Parts(dl, "null", f, o, n)
<1>1. N \in Nat
  BY Constants
<1>2. result = A!Loop(m, N, LAMBDA mm, c : R(mm, c))
  BY Zenon DEF SilenceAll
<1>3. \A c \in 0 .. N - 1 : D[c] \subseteq E
  BY PartsWithin
<1>4. ASSUME NEW mm \in Near(m, E), NEW c \in 0 .. N - 1
      PROVE  Written(R(mm, c), mm, D[c], v)
  <2>1. mm \in Mem
    BY DEF Near
  <2>2. Written(R(mm, c), mm, Part(dl, "null", f, c, o, n), v)
    BY <2>1, ChannelSilence
  <2>3. D[c] = Part(dl, "null", f, c, o, n)
    BY DEF Parts
  <2> HIDE DEF R, D
  <2> QED BY <2>2, <2>3
<1> HIDE DEF R, D, E, N
<1>5. \A mm \in Near(m, E), c \in 0 .. N - 1 : Written(R(mm, c), mm, D[c], v) /\ R(mm, c) \in Near(m, E)
  BY <1>3, <1>4, WrittenNear
<1>6. PICK g : F(g) /\ result = g[N]
  <2>1. PICK P : P = [s \in Near(m, E) \X (0 .. N - 1) |-> R(s[1], s[2])]
    OBVIOUS
  <2>2. P \in [Near(m, E) \X (0 .. N - 1) -> Near(m, E)] /\ m \in Near(m, E)
    BY <1>5, <2>1 DEF Near
  <2>3. PICK h : Values(h, Near(m, E), m, N, P)
    BY <1>1, <2>2, LoopExists
  <2>4. ASSUME NEW k \in 0 .. N PROVE h[k] = IF k = 0 THEN m ELSE R(h[k - 1], k - 1)
    <3>1. h[k] = IF k = 0 THEN m ELSE P[<<h[k - 1], k - 1>>]
      BY <2>3 DEF Values
    <3>2. CASE k # 0
      <4>1. k - 1 \in 0 .. N - 1 /\ k - 1 \in 0 .. N
        BY <1>1, <3>2
      <4>2. h[k - 1] \in Near(m, E)
        BY <2>3, <4>1 DEF Values
      <4> QED BY <2>1, <3>1, <4>1, <4>2
    <3> QED BY <3>1, <3>2
  <2>5. F(h)
    BY <2>3, <2>4 DEF Values
  <2>6. result = (CHOOSE g : F(g))[N]
    BY <1>2 DEF A!Loop
  <2> HIDE DEF F
  <2> QED BY <2>5, <2>6
<1>7. g[0] = m /\ \A k \in 0 .. N - 1 : g[k + 1] = R(g[k], k)
  BY <1>1, <1>6
<1>8. Written(g[N], m, Together(D, N), v)
  <2>1. \A k \in 0 .. N - 1 : g[k] \in Near(m, E) => Written(g[k + 1], g[k], D[k], v)
    BY <1>5, <1>7
  <2>2. g[0] = m /\ \A k \in 0 .. N - 1 : D[k] \subseteq E
    BY <1>3, <1>7
  <2> HIDE DEF F
  <2> QED BY <1>1, <2>1, <2>2, LoopWritten
<1> HIDE DEF F, result
<1>9. Written(result, m, Together(D, N), v)
  BY <1>6, <1>8
<1> QED BY <1>9 DEF result, Whole, D, N

\* snd_pcm_areas_copy writes the samples of all of its channels.
LEMMA AllCopied ==
    ASSUME A!AreasConstants, NEW f \in AreaFormats, NEW m \in Mem, NEW v \in Mem,
           NEW dl \in Kinds \cup {"null"}, NEW sl \in Kinds \cup {"null", "same"},
           NEW o \in 0 .. Frames - 1, NEW q \in 0 .. Frames - 1, NEW n \in Nat,
           o + n <= Frames, q + n <= Frames, sl = "same" => o = q,
           Ready(dl, o, sl, q, f), Wants(v, m, dl, o, sl, q, n, f)
    PROVE  Written(CopyAll(m, dl, o, sl, q, n, f), m, Whole(dl, sl, f, o, n), v)
<1> DEFINE N == AreaChannels
           result == CopyAll(m, dl, o, sl, q, n, f)
           R(mm, c) == A!snd_pcm_area_copy(mm, A!Area(A!Dst, dl, f, c), o, FromArea(dl, sl, f, c), q, n, f)
           F(g) == g = [k \in 0 .. N |-> IF k = 0 THEN m ELSE R(g[k - 1], k - 1)]
           E == 0 .. Half - 1
           D == Parts(dl, sl, f, o, n)
<1>1. N \in Nat
  BY Constants
<1>2. result = A!Loop(m, N, LAMBDA mm, c : R(mm, c))
  BY Zenon DEF CopyAll
<1>3. \A c \in 0 .. N - 1 : D[c] \subseteq E
  BY PartsWithin
<1>4. ASSUME NEW mm \in Near(m, E), NEW c \in 0 .. N - 1
      PROVE  Written(R(mm, c), mm, D[c], v)
  <2>1. PICK src : src = FromArea(dl, sl, f, c)
    OBVIOUS
  <2>2. Written(A!snd_pcm_area_copy(mm, A!Area(A!Dst, dl, f, c), o, src, q, n, f), mm, Part(dl, sl, f, c, o, n), v)
    BY <2>1, ChannelCopy DEF FromArea
  <2>3. D[c] = Part(dl, sl, f, c, o, n)
    BY DEF Parts
  <2>4. R(mm, c) = A!snd_pcm_area_copy(mm, A!Area(A!Dst, dl, f, c), o, src, q, n, f)
    BY <2>1, Zenon
  <2> HIDE DEF R, D
  <2> QED BY <2>2, <2>3, <2>4
<1> HIDE DEF R, D, E, N
<1>5. \A mm \in Near(m, E), c \in 0 .. N - 1 : Written(R(mm, c), mm, D[c], v) /\ R(mm, c) \in Near(m, E)
  BY <1>3, <1>4, WrittenNear
<1>6. PICK g : F(g) /\ result = g[N]
  <2>1. PICK P : P = [s \in Near(m, E) \X (0 .. N - 1) |-> R(s[1], s[2])]
    OBVIOUS
  <2>2. P \in [Near(m, E) \X (0 .. N - 1) -> Near(m, E)] /\ m \in Near(m, E)
    BY <1>5, <2>1 DEF Near
  <2>3. PICK h : Values(h, Near(m, E), m, N, P)
    BY <1>1, <2>2, LoopExists
  <2>4. ASSUME NEW k \in 0 .. N PROVE h[k] = IF k = 0 THEN m ELSE R(h[k - 1], k - 1)
    <3>1. h[k] = IF k = 0 THEN m ELSE P[<<h[k - 1], k - 1>>]
      BY <2>3 DEF Values
    <3>2. CASE k # 0
      <4>1. k - 1 \in 0 .. N - 1 /\ k - 1 \in 0 .. N
        BY <1>1, <3>2
      <4>2. h[k - 1] \in Near(m, E)
        BY <2>3, <4>1 DEF Values
      <4> QED BY <2>1, <3>1, <4>1, <4>2
    <3> QED BY <3>1, <3>2
  <2>5. F(h)
    BY <2>3, <2>4 DEF Values
  <2>6. result = (CHOOSE g : F(g))[N]
    BY <1>2 DEF A!Loop
  <2> HIDE DEF F
  <2> QED BY <2>5, <2>6
<1>7. g[0] = m /\ \A k \in 0 .. N - 1 : g[k + 1] = R(g[k], k)
  BY <1>1, <1>6
<1>8. Written(g[N], m, Together(D, N), v)
  <2>1. \A k \in 0 .. N - 1 : g[k] \in Near(m, E) => Written(g[k + 1], g[k], D[k], v)
    BY <1>5, <1>7
  <2>2. g[0] = m /\ \A k \in 0 .. N - 1 : D[k] \subseteq E
    BY <1>3, <1>7
  <2> HIDE DEF F
  <2> QED BY <1>1, <2>1, <2>2, LoopWritten
<1> HIDE DEF F, result
<1>9. Written(result, m, Together(D, N), v)
  BY <1>6, <1>8
<1> QED BY <1>9 DEF result, Whole, D, N

\* There is a memory that holds what a call is to write: the silence of the format,
\* or the samples of the other buffer.
LEMMA WantedExists ==
    ASSUME A!AreasConstants, NEW f \in AreaFormats, NEW m \in Mem,
           NEW dl \in Kinds \cup {"null"}, NEW sl \in Kinds \cup {"null", "same"},
           NEW o \in 0 .. Frames - 1, NEW q \in 0 .. Frames - 1, NEW n \in Nat,
           o + n <= Frames, q + n <= Frames
    PROVE  \E v \in Mem : Wants(v, m, dl, o, sl, q, n, f)
<1> DEFINE Cs == 0 .. AreaChannels - 1
           I == 0 .. Frames - 1
           J == 0 .. W(f) - 1
<1>0. NotNull /\ Frames \in Nat
  BY KindsAre, Constants
<1>1. CASE dl \notin Kinds \/ sl = "same"
  BY <1>0, <1>1 DEF Wants, NotNull
<1>2. ASSUME dl \in Kinds, sl = "null" PROVE \E v \in Mem : Wants(v, m, dl, o, sl, q, n, f)
  <2>1. PICK u : u = [t \in Cs \X I \X J |-> A!SilentNibble(f, t[3])]
    OBVIOUS
  <2>2. ASSUME NEW j PROVE A!SilentNibble(f, j) \in SUBSET Int
    <3>1. \A b : A!Bits(b) \in SUBSET Int
      BY DEF A!Bits
    <3> QED BY <3>1 DEF A!SilentNibble
  <2>3. u \in [Cs \X I \X J -> SUBSET Int]
    BY <2>1, <2>2
  <2>4. PICK v \in Mem : Holds(v, dl, f, u)
    BY <1>2, <2>3, HoldsSome
  <2>5. ASSUME NEW c \in Cs, NEW k \in 0 .. n - 1, NEW j \in J
        PROVE  v[Start(0, dl, f, c, o + k) + j] = A!SilentNibble(f, j)
    <3>1. o + k \in I
      BY <1>0
    <3>2. v[Start(0, dl, f, c, o + k) + j] = u[<<c, o + k, j>>]
      BY <2>4, <3>1 DEF Holds
    <3>3. <<c, o + k, j>> \in Cs \X I \X J /\ <<c, o + k, j>>[3] = j
      BY <3>1
    <3>4. u[<<c, o + k, j>>] = A!SilentNibble(f, j)
      BY <2>1, <3>3
    <3> QED BY <3>2, <3>4
  <2>6. Wants(v, m, dl, o, sl, q, n, f)
    BY <1>0, <1>2, <2>5 DEF Wants, NotNull
  <2> QED BY <2>4, <2>6
<1>3. ASSUME dl \in Kinds, sl \in Kinds PROVE \E v \in Mem : Wants(v, m, dl, o, sl, q, n, f)
  <2> DEFINE Arrives(c, i, j) == IF i \in o .. o + n - 1 THEN m[Start(Half, sl, f, c, q + (i - o)) + j] ELSE {}
  <2>1. PICK u : u = [t \in Cs \X I \X J |-> Arrives(t[1], t[2], t[3])]
    OBVIOUS
  <2>2. ASSUME NEW c \in Cs, NEW i \in I, NEW j \in J PROVE Arrives(c, i, j) \in SUBSET Int
    <3>1. CASE i \in o .. o + n - 1
      <4>1. i - o \in Nat /\ q + (i - o) < Frames
        BY <1>0, <3>1
      <4>2. Start(Half, sl, f, c, q + (i - o)) + j \in A!Nibbles
        BY <1>3, <4>1, SourceWithin
      <4> QED BY <3>1, <4>2 DEF Mem
    <3> QED BY <3>1
  <2> HIDE DEF Arrives
  <2>3. u \in [Cs \X I \X J -> SUBSET Int]
    BY <2>1, <2>2
  <2>4. PICK v \in Mem : Holds(v, dl, f, u)
    BY <1>3, <2>3, HoldsSome
  <2>5. ASSUME NEW c \in Cs, NEW k \in 0 .. n - 1, NEW j \in J
        PROVE  v[Start(0, dl, f, c, o + k) + j] = m[Start(Half, sl, f, c, q + k) + j]
    <3>1. o + k \in I /\ (o + k) - o = k /\ o + k \in o .. o + n - 1
      BY <1>0
    <3>2. v[Start(0, dl, f, c, o + k) + j] = u[<<c, o + k, j>>]
      BY <2>4, <3>1 DEF Holds
    <3>3. u[<<c, o + k, j>>] = Arrives(c, o + k, j)
      BY <2>1, <3>1
    <3>4. Arrives(c, o + k, j) = m[Start(Half, sl, f, c, q + k) + j]
      BY <3>1 DEF Arrives
    <3> QED BY <3>2, <3>3, <3>4
  <2>6. Wants(v, m, dl, o, sl, q, n, f)
    BY <1>0, <1>3, <2>5 DEF Wants, NotNull
  <2> QED BY <2>4, <2>6
<1> QED BY <1>1, <1>2, <1>3

\* A sample of an area of the buffer written to, and of the one read from, in nibbles.
SampleFrom(s, at, f) == DOMAIN s = 0 .. W(f) - 1 /\ \A j \in 0 .. W(f) - 1 : s[j] = at + j

\* The samples that the properties speak of begin where the areas of either buffer say.
LEMMA SamplesAre ==
    ASSUME A!AreasConstants, NEW f \in AreaFormats, NEW c \in 0 .. AreaChannels - 1,
           NEW layout \in Kinds, NEW i \in Nat
    PROVE  /\ SampleFrom(A!Sample(A!Area(A!Dst, layout, f, c), i, f), Start(0, layout, f, c, i), f)
           /\ SampleFrom(A!Sample(A!Area(A!Src, layout, f, c), i, f), Start(Half, layout, f, c, i), f)
<1>0. A!Dst = 0 /\ 2 * A!Src = Half /\ A!Src \in Nat /\ c \in Nat
  BY Constants
<1>1. ASSUME NEW b \in Nat
      PROVE  SampleFrom(A!Sample(A!Area(b, layout, f, c), i, f), Start(2 * b, layout, f, c, i), f)
  <2>1. DOMAIN A!Sample(A!Area(b, layout, f, c), i, f) = 0 .. W(f) - 1
    BY <1>0, SampleIs
  <2>2. \A j \in 0 .. W(f) - 1 :
            A!Sample(A!Area(b, layout, f, c), i, f)[j] = Start(2 * b, layout, f, c, i) + j
    BY <1>0, SampleIs
  <2> QED BY <2>1, <2>2 DEF SampleFrom
<1>2. PICK b \in Nat : b = 0 /\ 2 * b = 0
  OBVIOUS
<1>3. SampleFrom(A!Sample(A!Area(A!Dst, layout, f, c), i, f), Start(0, layout, f, c, i), f)
  BY <1>0, <1>1, <1>2, Zenon
<1>4. SampleFrom(A!Sample(A!Area(A!Src, layout, f, c), i, f), Start(Half, layout, f, c, i), f)
  <2>1. PICK d \in Nat : d = A!Src /\ 2 * d = Half
    BY <1>0
  <2> QED BY <1>1, <2>1, Zenon
<1> QED BY <1>3, <1>4

\* What a call writes lies in the samples it is asked for.
LEMMA WholeTouched ==
    ASSUME A!AreasConstants, NEW f \in AreaFormats, NEW dl \in Kinds \cup {"null"},
           NEW sl, NEW o \in 0 .. Frames - 1, NEW n \in Nat, NEW x \in Whole(dl, sl, f, o, n)
    PROVE  x \in A!Touched(dl, o, n, f)
<1>0. AreaChannels \in Nat /\ Frames \in Nat
  BY Constants
<1>1. PICK c \in 0 .. AreaChannels - 1 : x \in Part(dl, sl, f, c, o, n)
  BY DEF Whole, Parts, Together
<1>2. dl # "null" /\ dl \in Kinds /\ x \in Cells(dl, f, c, o, n)
  BY <1>1 DEF Part
<1>3. PICK k \in 0 .. n - 1 : x \in Start(0, dl, f, c, o + k) .. Start(0, dl, f, c, o + k) + (W(f) - 1)
  BY <1>2 DEF Cells
<1> DEFINE s(cc, i) == A!Sample(A!Area(A!Dst, dl, f, cc), o + i, f)
<1>4. SampleFrom(s(c, k), Start(0, dl, f, c, o + k), f)
  <2>1. o + k \in Nat
    BY <1>0
  <2> QED BY <1>2, <2>1, SamplesAre
<1>5. PICK j \in 0 .. W(f) - 1 : x = Start(0, dl, f, c, o + k) + j
  <2>1. PICK a \in Nat : a = Start(0, dl, f, c, o + k)
    <3>1. PICK b \in Nat : b = 0 /\ 2 * b = 0
      OBVIOUS
    <3>2. o + k \in Nat /\ c \in Nat
      BY <1>0
    <3>3. Start(2 * b, dl, f, c, o + k) \in Nat
      BY <1>2, <3>2, StartNat
    <3> QED BY <3>1, <3>3
  <2>2. W(f) \in 1 .. 8
    <3>1. \A y \in {1, 2, 4, 6, 8} : y \in 1 .. 8
      OBVIOUS
    <3> QED BY <3>1, Width
  <2>3. x - a \in 0 .. W(f) - 1 /\ x = a + (x - a)
    BY <1>3, <2>1, <2>2
  <2> QED BY <2>1, <2>3
<1> HIDE DEF s
<1>6. x = s(c, k)[j] /\ j \in DOMAIN s(c, k)
  BY <1>4, <1>5 DEF SampleFrom
<1> DEFINE Set(cc, i) == {s(cc, i)[l] : l \in DOMAIN s(cc, i)}
<1>7. A!Touched(dl, o, n, f) = UNION {Set(cc, i) : cc \in 0 .. AreaChannels - 1, i \in 0 .. n - 1}
  BY <1>2 DEF A!Touched, s
<1>8. x \in Set(c, k)
  BY <1>6
<1> HIDE DEF Set
<1> QED BY <1>7, <1>8

\* What a call makes of the memory m: exactly what it is asked for.
Exact(m2, m, dl, o, sl, q, n, f) ==
    /\ \A x \in A!Nibbles \ A!Touched(dl, o, n, f) : m2[x] = m[x]
    /\ dl \in Kinds /\ sl = "null" =>
        \A c \in 0 .. AreaChannels - 1, i \in 0 .. n - 1 :
            LET s == A!Sample(A!Area(A!Dst, dl, f, c), o + i, f)
            IN  \A j \in DOMAIN s : m2[s[j]] = A!SilentNibble(f, j)
    /\ dl \in Kinds /\ sl \in Kinds =>
        \A c \in 0 .. AreaChannels - 1, i \in 0 .. n - 1 :
            LET d == A!Sample(A!Area(A!Dst, dl, f, c), o + i, f)
                s == A!Sample(A!Area(A!Src, sl, f, c), q + i, f)
            IN  \A j \in DOMAIN d : m2[d[j]] = m[s[j]]
    /\ sl = "same" => m2 = m

\* A call that has written what it was to write has done exactly what it promises.
LEMMA WrittenExact ==
    ASSUME A!AreasConstants, NEW f \in AreaFormats, NEW m \in Mem, NEW v \in Mem, NEW m2,
           NEW dl \in Kinds \cup {"null"}, NEW sl \in Kinds \cup {"null", "same"},
           NEW o \in 0 .. Frames - 1, NEW q \in 0 .. Frames - 1, NEW n \in Nat,
           o + n <= Frames, q + n <= Frames,
           Written(m2, m, Whole(dl, sl, f, o, n), v), Wants(v, m, dl, o, sl, q, n, f)
    PROVE  Exact(m2, m, dl, o, sl, q, n, f)
<1>0. NotNull /\ Frames \in Nat /\ AreaChannels \in Nat
  BY KindsAre, Constants
<1>1. m2 = [x \in A!Nibbles |-> IF x \in Whole(dl, sl, f, o, n) THEN v[x] ELSE m[x]]
  BY DEF Written
<1>2. ASSUME NEW x \in A!Nibbles \ A!Touched(dl, o, n, f) PROVE m2[x] = m[x]
  <2>1. x \notin Whole(dl, sl, f, o, n)
    BY WholeTouched
  <2> QED BY <1>1, <2>1
<1>3. ASSUME dl \in Kinds, sl # "same", NEW c \in 0 .. AreaChannels - 1, NEW i \in 0 .. n - 1,
             NEW d, d = A!Sample(A!Area(A!Dst, dl, f, c), o + i, f), NEW j \in DOMAIN d
      PROVE  /\ j \in 0 .. W(f) - 1 /\ d[j] = Start(0, dl, f, c, o + i) + j
             /\ m2[d[j]] = v[d[j]]
  <2>1. o + i \in Nat /\ i \in Nat /\ o + i < Frames
    BY <1>0
  <2>2. SampleFrom(d, Start(0, dl, f, c, o + i), f)
    BY <1>3, <2>1, SamplesAre
  <2>3. j \in 0 .. W(f) - 1 /\ d[j] = Start(0, dl, f, c, o + i) + j
    BY <2>2 DEF SampleFrom
  <2>4. PICK a \in Nat : a = Start(0, dl, f, c, o + i)
    <3>1. Start(0, dl, f, c, o + i) \in Nat
      BY <1>3, <2>1, CellsWithin
    <3> QED BY <3>1
  <2>5. W(f) \in 1 .. 8
    <3>1. \A y \in {1, 2, 4, 6, 8} : y \in 1 .. 8
      OBVIOUS
    <3> QED BY <3>1, Width
  <2>6. d[j] \in a .. a + (W(f) - 1)
    BY <2>3, <2>4, <2>5
  <2>7. d[j] \in A!Nibbles
    <3>1. a .. a + (W(f) - 1) \subseteq 0 .. Half - 1
      <4>1. Start(0, dl, f, c, o + i) .. Start(0, dl, f, c, o + i) + (W(f) - 1) \subseteq 0 .. Half - 1
        BY <1>3, <2>1, CellsWithin
      <4> QED BY <2>4, <4>1
    <3>2. Half \in Nat /\ A!Nibbles = 0 .. 2 * Half - 1
      BY Constants
    <3>3. d[j] \in 0 .. Half - 1
      BY <2>6, <3>1
    <3> QED BY <3>2, <3>3
  <2>8. d[j] \in Cells(dl, f, c, o, n)
    BY <2>4, <2>6 DEF Cells
  <2>9. d[j] \in Whole(dl, sl, f, o, n)
    <3>1. Part(dl, sl, f, c, o, n) = Cells(dl, f, c, o, n)
      BY <1>0, <1>3 DEF Part, NotNull
    <3> QED BY <2>8, <3>1 DEF Whole, Parts, Together
  <2> QED BY <1>1, <2>3, <2>7, <2>9
<1>4. ASSUME dl \in Kinds, sl = "null", NEW c \in 0 .. AreaChannels - 1, NEW i \in 0 .. n - 1,
             NEW s, s = A!Sample(A!Area(A!Dst, dl, f, c), o + i, f), NEW j \in DOMAIN s
      PROVE  m2[s[j]] = A!SilentNibble(f, j)
  <2>1. sl # "same"
    BY <1>0, <1>4 DEF NotNull
  <2>2. j \in 0 .. W(f) - 1 /\ s[j] = Start(0, dl, f, c, o + i) + j /\ m2[s[j]] = v[s[j]]
    BY <1>3, <1>4, <2>1
  <2>3. v[Start(0, dl, f, c, o + i) + j] = A!SilentNibble(f, j)
    BY <1>4, <2>2 DEF Wants
  <2> QED BY <2>2, <2>3
<1>5. ASSUME dl \in Kinds, sl \in Kinds, NEW c \in 0 .. AreaChannels - 1, NEW i \in 0 .. n - 1,
             NEW d, d = A!Sample(A!Area(A!Dst, dl, f, c), o + i, f),
             NEW s, s = A!Sample(A!Area(A!Src, sl, f, c), q + i, f), NEW j \in DOMAIN d
      PROVE  m2[d[j]] = m[s[j]]
  <2>1. sl # "same"
    BY <1>0, <1>5 DEF NotNull
  <2>2. j \in 0 .. W(f) - 1 /\ d[j] = Start(0, dl, f, c, o + i) + j /\ m2[d[j]] = v[d[j]]
    BY <1>3, <1>5, <2>1
  <2>3. v[Start(0, dl, f, c, o + i) + j] = m[Start(Half, sl, f, c, q + i) + j]
    BY <1>5, <2>2 DEF Wants
  <2>4. SampleFrom(s, Start(Half, sl, f, c, q + i), f)
    <3>1. q + i \in Nat
      BY <1>0
    <3> QED BY <1>5, <3>1, SamplesAre
  <2>5. s[j] = Start(Half, sl, f, c, q + i) + j
    BY <2>2, <2>4 DEF SampleFrom
  <2> QED BY <2>2, <2>3, <2>5
<1>6. ASSUME sl = "same" PROVE m2 = m
  <2>1. Whole(dl, sl, f, o, n) = {}
    BY <1>6 DEF Whole, Parts, Together, Part
  <2> QED BY <1>1, <2>1 DEF Mem
<1> HIDE DEF Written, Wants, Mem
<1>7. dl \in Kinds /\ sl = "null" =>
        \A c \in 0 .. AreaChannels - 1, i \in 0 .. n - 1 :
            LET s == A!Sample(A!Area(A!Dst, dl, f, c), o + i, f)
            IN  \A j \in DOMAIN s : m2[s[j]] = A!SilentNibble(f, j)
  BY <1>4, Zenon
<1>8. dl \in Kinds /\ sl \in Kinds =>
        \A c \in 0 .. AreaChannels - 1, i \in 0 .. n - 1 :
            LET d == A!Sample(A!Area(A!Dst, dl, f, c), o + i, f)
                s == A!Sample(A!Area(A!Src, sl, f, c), q + i, f)
            IN  \A j \in DOMAIN d : m2[d[j]] = m[s[j]]
  <2> SUFFICES ASSUME dl \in Kinds, sl \in Kinds, NEW c \in 0 .. AreaChannels - 1, NEW i \in 0 .. n - 1
               PROVE  LET d == A!Sample(A!Area(A!Dst, dl, f, c), o + i, f)
                          s == A!Sample(A!Area(A!Src, sl, f, c), q + i, f)
                      IN  \A j \in DOMAIN d : m2[d[j]] = m[s[j]]
    BY Zenon
  <2>1. PICK d : d = A!Sample(A!Area(A!Dst, dl, f, c), o + i, f)
    OBVIOUS
  <2>2. PICK s : s = A!Sample(A!Area(A!Src, sl, f, c), q + i, f)
    OBVIOUS
  <2>3. \A j \in DOMAIN d : m2[d[j]] = m[s[j]]
    BY <1>5, <2>1, <2>2
  <2> QED BY <2>1, <2>2, <2>3, Zenon
<1> QED BY <1>2, <1>6, <1>7, <1>8 DEF Exact

-----------------------------------------------------------------------------
(* Whole frames. *)

\* Interleaved samples follow each other, frame by frame and channel by channel.
LEMMA Interleaved ==
    ASSUME A!AreasConstants, NEW f \in AreaFormats, NEW b \in Nat, NEW c \in Nat, NEW o \in Nat, NEW k \in Nat
    PROVE  /\ Start(b, "interleaved", f, c, o + k)
                = Start(b, "interleaved", f, 0, o) + W(f) * (AreaChannels * k + c)
           /\ Start(b, "interleaved", f, 0, o) \in Nat
           /\ W(f) * (AreaChannels * k + c) \in Nat
<1>1. AreaChannels \in Nat \ {0} /\ W(f) \in Nat
  <2>1. \A x \in {1, 2, 4, 6, 8} : x \in Nat
    OBVIOUS
  <2> QED BY <2>1, Constants, Width
<1>2. PICK w \in Nat, h \in Nat : w = W(f) /\ h = AreaChannels
  BY <1>1
<1>3. w * (c + h * (o + k)) = w * (0 + h * o) + w * (h * k + c)
      /\ w * (0 + h * o) \in Nat /\ w * (h * k + c) \in Nat
  OBVIOUS
<1>4. /\ Start(b, "interleaved", f, c, o + k) = b + w * (c + h * (o + k))
      /\ Start(b, "interleaved", f, 0, o) = b + w * (0 + h * o)
  BY <1>2 DEF Start
<1> QED BY <1>2, <1>3, <1>4

\* x is in a row of n pieces of w from q on; in a run of n frames of h samples.
InRow(x, q, w, n) == \E k \in 0 .. n - 1, j \in 0 .. w - 1 : x = q + w * k + j
InFrames(x, q, w, h, n) ==
    \E c \in 0 .. h - 1, k \in 0 .. n - 1, j \in 0 .. w - 1 : x = q + w * (h * k + c) + j

\* A nibble of a row is in one of its pieces.
LEMMA RowSplit ==
    ASSUME NEW w \in Nat \ {0}, NEW n \in Nat, NEW q \in Int, NEW t, t = w * n,
           NEW x \in q .. q + t - 1
    PROVE  InRow(x, q, w, n)
<1>1. x \in q .. q + w * n - 1
  OBVIOUS
<1>2. \E k \in 0 .. n - 1, j \in 0 .. w - 1 : x = q + w * k + j
  BY <1>1, Split
<1> QED BY <1>2 DEF InRow

\* The samples of whole frames make one run.
LEMMA WholeRun ==
    ASSUME A!AreasConstants, NEW f \in AreaFormats, NEW o \in 0 .. Frames - 1, NEW n \in Nat,
           NEW p \in Nat, p = Start(0, "interleaved", f, 0, o),
           NEW x
    PROVE  /\ x \in p .. p + W(f) * (AreaChannels * n) - 1 =>
                InFrames(x, p, W(f), AreaChannels, n)
           /\ x \in Whole("interleaved", "interleaved", f, o, n) <=>
                x \in p .. p + W(f) * (AreaChannels * n) - 1
<1>1. AreaChannels \in Nat \ {0} /\ W(f) \in Nat \ {0} /\ Frames \in Nat
  <2>1. \A y \in {1, 2, 4, 6, 8} : y \in Nat \ {0}
    OBVIOUS
  <2> QED BY <2>1, Constants, Width
<1>2. PICK w \in Nat \ {0}, h \in Nat \ {0} : w = W(f) /\ h = AreaChannels
  BY <1>1
<1>3. ASSUME x \in p .. p + w * (h * n) - 1
      PROVE  \E c \in 0 .. h - 1, k \in 0 .. n - 1, j \in 0 .. w - 1 : x = p + w * (h * k + c) + j
  <2>1. PICK t \in Nat : t = h * n
    OBVIOUS
  <2>2. PICK y \in 0 .. t - 1, j \in 0 .. w - 1 : x = p + w * y + j
    <3>1. PICK a \in Nat : a = w * t
      OBVIOUS
    <3>2. PICK e \in Int : e = p
      OBVIOUS
    <3>3. x \in e .. e + a - 1
      BY <1>3, <2>1, <3>1, <3>2
    <3>4. InRow(x, e, w, t)
      BY <3>1, <3>3, RowSplit
    <3> QED BY <3>2, <3>4 DEF InRow
  <2>3. PICK k \in 0 .. n - 1, c \in 0 .. h - 1 : y = 0 + h * k + c
    <3>1. PICK z \in Int : z = 0
      OBVIOUS
    <3>2. y \in z .. z + t - 1
      BY <3>1
    <3>3. InRow(y, z, h, n)
      BY <2>1, <3>2, RowSplit
    <3> QED BY <3>1, <3>3 DEF InRow
  <2>4. y = h * k + c
    BY <2>3
  <2> QED BY <2>2, <2>4
<1>4. ASSUME x \in p .. p + w * (h * n) - 1 PROVE x \in Whole("interleaved", "interleaved", f, o, n)
  <2>1. PICK c \in 0 .. h - 1, k \in 0 .. n - 1, j \in 0 .. w - 1 : x = p + w * (h * k + c) + j
    BY <1>3, <1>4
  <2>2. Start(0, "interleaved", f, c, o + k) = p + w * (h * k + c) /\ w * (h * k + c) \in Nat
    <3>1. c \in Nat /\ o \in Nat /\ k \in Nat /\ 0 \in Nat
      OBVIOUS
    <3> QED BY <1>2, <3>1, Interleaved
  <2>3. PICK a \in Nat : a = p + w * (h * k + c)
    BY <2>2
  <2>4. x \in a .. a + (w - 1)
    BY <2>1, <2>3
  <2>5. x \in Cells("interleaved", f, c, o, n)
    BY <1>2, <2>2, <2>3, <2>4 DEF Cells
  <2> QED BY <1>2, <2>5 DEF Whole, Parts, Together, Part
<1>5. ASSUME x \in Whole("interleaved", "interleaved", f, o, n) PROVE x \in p .. p + w * (h * n) - 1
  <2>1. PICK c \in 0 .. h - 1 : x \in Part("interleaved", "interleaved", f, c, o, n)
    BY <1>2, <1>5 DEF Whole, Parts, Together
  <2>2. x \in Cells("interleaved", f, c, o, n)
    BY <2>1 DEF Part
  <2>3. PICK k \in 0 .. n - 1 : x \in Start(0, "interleaved", f, c, o + k) .. Start(0, "interleaved", f, c, o + k) + (w - 1)
    BY <1>2, <2>2 DEF Cells
  <2>4. Start(0, "interleaved", f, c, o + k) = p + w * (h * k + c)
    <3>1. c \in Nat /\ o \in Nat /\ k \in Nat /\ 0 \in Nat
      OBVIOUS
    <3> QED BY <1>2, <3>1, Interleaved
  <2>5. h * k + c \in 0 .. h * n - 1
    <3>1. h * k <= h * (n - 1) /\ h * (n - 1) = h * n - h /\ h * k \in Nat /\ h * n \in Int
      OBVIOUS
    <3> QED BY <3>1
  <2>6. PICK y \in Nat, t \in Nat : y = h * k + c /\ t = h * n /\ y <= t - 1
    BY <2>5
  <2>7. w * y <= w * (t - 1) /\ w * (t - 1) = w * t - w /\ w * y \in Nat /\ w * t \in Nat
    BY <2>6
  <2>8. x \in p + w * y .. p + w * y + (w - 1)
    BY <2>3, <2>4, <2>6
  <2>9. x \in p .. p + w * t - 1
    BY <2>7, <2>8
  <2> QED BY <2>6, <2>9
<1> QED BY <1>2, <1>3, <1>4, <1>5 DEF InFrames

\* snd_pcm_mmap_writei and snd_pcm_mmap_readi copy whole frames in one run.
LEMMA FramesCopied ==
    ASSUME A!AreasConstants, NEW f \in AreaFormats, W(f) # 1, NEW m \in Mem, NEW v \in Mem,
           NEW o \in 0 .. Frames - 1, NEW q \in 0 .. Frames - 1, NEW n \in Nat,
           o + n <= Frames, q + n <= Frames,
           Wants(v, m, "interleaved", o, "interleaved", q, n, f),
           NEW p \in Nat, 2 * p = Start(0, "interleaved", f, 0, o),
           NEW r \in Nat, 2 * r = Start(Half, "interleaved", f, 0, q)
    PROVE  Written(A!memcpy(m, p, r, A!snd_pcm_frames_to_bytes(f, n)),
                   m, Whole("interleaved", "interleaved", f, o, n), v)
<1>1. PICK u \in 1 .. 4 : W(f) = 2 * u /\ A!snd_pcm_format_physical_width(f) = 8 * u
  BY WholeBytes
<1>2. PICK h \in Nat \ {0} : h = AreaChannels
  BY Constants
<1>3. Half \in Nat /\ Frames \in Nat /\ "interleaved" \in Kinds
  BY Constants DEF Kinds
<1>4. PICK l \in Nat : l = u * (h * n)
  OBVIOUS
<1>5. A!snd_pcm_frames_to_bytes(f, n) = l
  <2>1. (n * (8 * u) * h) = 8 * (u * (h * n))
    OBVIOUS
  <2>2. (8 * l) \div 8 = l
    BY Exact8
  <2> QED BY <1>1, <1>2, <1>4, <2>1, <2>2 DEF A!snd_pcm_frames_to_bytes
<1>6. W(f) * (h * n) = 2 * l
  <2>1. (2 * u) * (h * n) = 2 * (u * (h * n))
    OBVIOUS
  <2> QED BY <1>1, <1>4, <2>1
<1>7. PICK d \in Nat : d = 2 * p
  OBVIOUS
<1>8. d .. d + W(f) * (h * n) - 1 = 2 * p .. 2 * (p + l) - 1
  <2>1. d + 2 * l - 1 = 2 * (p + l) - 1
    BY <1>7
  <2> QED BY <1>6, <1>7, <2>1, Zenon
<1>9. ASSUME NEW x
      PROVE  /\ x \in Whole("interleaved", "interleaved", f, o, n) <=> x \in d .. d + W(f) * (h * n) - 1
             /\ x \in d .. d + W(f) * (h * n) - 1 => InFrames(x, d, W(f), h, n)
  <2>1. d = Start(0, "interleaved", f, 0, o)
    BY <1>7
  <2>2. x \in Whole("interleaved", "interleaved", f, o, n) <=> x \in d .. d + W(f) * (h * n) - 1
    BY <1>2, <2>1, WholeRun
  <2>3. x \in d .. d + W(f) * (h * n) - 1 => InFrames(x, d, W(f), h, n)
    BY <1>2, <2>1, WholeRun
  <2> QED BY <2>2, <2>3
<1>10. Whole("interleaved", "interleaved", f, o, n) = 2 * p .. 2 * (p + l) - 1
  BY <1>8, <1>9
<1>11. ASSUME NEW x \in Whole("interleaved", "interleaved", f, o, n)
       PROVE  v[x] = m[x - 2 * p + 2 * r]
  <2>1. PICK c \in 0 .. h - 1, k \in 0 .. n - 1, j \in 0 .. W(f) - 1 : x = d + W(f) * (h * k + c) + j
    BY <1>9 DEF InFrames
  <2>2. v[Start(0, "interleaved", f, c, o + k) + j] = m[Start(Half, "interleaved", f, c, q + k) + j]
    BY <1>2, <1>3, <2>1 DEF Wants
  <2>3. /\ Start(0, "interleaved", f, c, o + k) = d + W(f) * (h * k + c)
        /\ Start(Half, "interleaved", f, c, q + k) = 2 * r + W(f) * (h * k + c)
        /\ W(f) * (h * k + c) \in Nat
    <3>1. c \in Nat /\ o \in Nat /\ q \in Nat /\ k \in Nat /\ 0 \in Nat
      BY <1>3
    <3>2. Start(0, "interleaved", f, c, o + k) = d + W(f) * (h * k + c)
      BY <1>2, <1>7, <3>1, Interleaved
    <3>3. Start(Half, "interleaved", f, c, q + k) = 2 * r + W(f) * (h * k + c)
      BY <1>2, <1>3, <3>1, Interleaved
    <3>4. W(f) * (h * k + c) \in Nat
      BY <1>2, <3>1, Interleaved
    <3> QED BY <3>2, <3>3, <3>4
  <2>4. PICK z \in Nat : z = W(f) * (h * k + c)
    BY <2>3
  <2>5. W(f) \in Nat
    BY <1>1
  <2>6. x - 2 * p + 2 * r = 2 * r + z + j
    BY <1>7, <2>1, <2>4, <2>5
  <2> QED BY <2>1, <2>2, <2>3, <2>4, <2>6
<1> QED BY <1>5, <1>10, <1>11, Copied

-----------------------------------------------------------------------------
(* The calls. *)

\* What a call that has returned has made of the memory.
SamplesInv ==
    /\ call = A!Idle => mem = A!Fresh
    /\ call.op \in {"silence", "copy"} => call.dst \in Kinds \cup {"null"}
    /\ call.op = "silence" /\ A!Reached =>
        Exact(mem, before, call.dst, call.dst_offset, "null", 0, call.frames, call.format)
    /\ call.op = "copy" /\ A!Reached =>
        Exact(mem, before, call.dst, call.dst_offset, call.src, call.src_offset, call.frames, call.format)

\* What the calls promise is in their invariant.
LEMMA SamplesInvExact ==
    ASSUME A!AreasConstants, SamplesInv
    PROVE  A!SilenceExact /\ A!CopyExact
<1>0. NotNull /\ A!Areas \subseteq Kinds
  BY KindsAre DEF A!Areas, A!AreasConstants, Kinds
<1>1. A!SilenceExact
  <2> SUFFICES ASSUME call.op = "silence", A!Reached
               PROVE  A!OthersKept /\ (call.dst # "null" => A!Silenced)
    BY DEF A!SilenceExact
  <2>1. Exact(mem, before, call.dst, call.dst_offset, "null", 0, call.frames, call.format)
        /\ call.dst \in Kinds \cup {"null"}
    BY DEF SamplesInv
  <2>2. A!OthersKept
    BY <2>1, Zenon DEF Exact, A!OthersKept
  <2>3. ASSUME call.dst # "null" PROVE A!Silenced
    <3>1. call.dst \in Kinds
      BY <2>1, <2>3
    <3> QED BY <2>1, <3>1, Zenon DEF Exact, A!Silenced
  <2> QED BY <2>2, <2>3
<1>2. A!CopyExact
  <2> SUFFICES ASSUME call.op = "copy", A!Reached
               PROVE  /\ A!OthersKept
                      /\ call.dst # "null" /\ call.src = "null" => A!Silenced
                      /\ call.dst # "null" /\ call.src \in A!Areas =>
                            \A c \in 0 .. AreaChannels - 1, i \in 0 .. call.frames - 1 :
                                LET d == A!Sample(A!Area(A!Dst, call.dst, call.format, c),
                                                  call.dst_offset + i, call.format)
                                    s == A!Sample(A!Area(A!Src, call.src, call.format, c),
                                                  call.src_offset + i, call.format)
                                IN  \A n \in DOMAIN d : mem[d[n]] = before[s[n]]
                      /\ call.src = "same" => mem = before
    BY Zenon DEF A!CopyExact
  <2>1. Exact(mem, before, call.dst, call.dst_offset, call.src, call.src_offset, call.frames, call.format)
        /\ call.dst \in Kinds \cup {"null"}
    BY DEF SamplesInv
  <2>2. A!OthersKept
    BY <2>1, Zenon DEF Exact, A!OthersKept
  <2>3. ASSUME call.dst # "null", call.src = "null" PROVE A!Silenced
    <3>1. call.dst \in Kinds
      BY <2>1, <2>3
    <3> QED BY <2>1, <2>3, <3>1, Zenon DEF Exact, A!Silenced
  <2>4. ASSUME call.dst # "null", call.src \in A!Areas
        PROVE  \A c \in 0 .. AreaChannels - 1, i \in 0 .. call.frames - 1 :
                  LET d == A!Sample(A!Area(A!Dst, call.dst, call.format, c),
                                    call.dst_offset + i, call.format)
                      s == A!Sample(A!Area(A!Src, call.src, call.format, c),
                                    call.src_offset + i, call.format)
                  IN  \A n \in DOMAIN d : mem[d[n]] = before[s[n]]
    <3>1. call.dst \in Kinds /\ call.src \in Kinds
      BY <1>0, <2>1, <2>4
    <3> QED BY <2>1, <3>1, Zenon DEF Exact
  <2>5. call.src = "same" => mem = before
    BY <2>1 DEF Exact
  <2> QED BY <2>2, <2>3, <2>4, <2>5
<1> QED BY <1>1, <1>2

\* Reached, for the loops over half bytes.
LEMMA ReadyIs ==
    ASSUME A!AreasConstants, NEW f \in AreaFormats, NEW dl \in Layouts, NEW sl,
           NEW o \in Nat, NEW q \in Nat, sl \in Layouts \cup {"same"},
           \/ A!snd_pcm_format_physical_width(f) >= 8
           \/ /\ A!Begins(dl, o)
              /\ {dl, sl} \subseteq A!Areas => dl = sl /\ A!Begins(sl, q)
    PROVE  Ready(dl, o, sl, q, f)
<1>0. NotNull /\ AreaChannels \in Nat \ {0}
  BY KindsAre, Constants
<1> SUFFICES ASSUME W(f) = 1
             PROVE  /\ dl \in Kinds => (Stride(dl, f) * o) % 2 = 0
                    /\ dl \in Kinds /\ sl \in Kinds => dl = sl /\ (Stride(sl, f) * q) % 2 = 0
  BY DEF Ready
<1>1. A!snd_pcm_format_physical_width(f) = 4
  BY Width
<1>2. A!Begins(dl, o) /\ ({dl, sl} \subseteq A!Areas => dl = sl /\ A!Begins(sl, q))
  BY <1>1
<1>3. 0 \in 0 .. AreaChannels - 1 /\ 0 \in Nat
  BY <1>0
<1>4. ASSUME NEW l \in Kinds, l \in A!Areas, NEW i \in Nat, A!Begins(l, i) PROVE (Stride(l, f) * i) % 2 = 0
  <2>1. A!Half4(l, i, 0) = A!Half4(l, 0, 0)
    BY <1>3, <1>4 DEF A!Begins
  <2> QED BY <1>3, <2>1, Even
<1>5. /\ dl \in Kinds => dl \in A!Areas
      /\ sl \in Kinds => sl \in A!Areas
  BY <1>0 DEF NotNull, A!Areas
<1>6. dl \in Kinds => (Stride(dl, f) * o) % 2 = 0
  BY <1>2, <1>4, <1>5
<1>7. ASSUME dl \in Kinds, sl \in Kinds PROVE dl = sl /\ (Stride(sl, f) * q) % 2 = 0
  <2>1. dl = sl /\ A!Begins(sl, q)
    BY <1>2, <1>5, <1>7
  <2> QED BY <1>4, <1>5, <1>7, <2>1
<1> QED BY <1>6, <1>7

\* The layouts an application may use.
LEMMA LayoutsAre ==
    ASSUME A!AreasConstants PROVE Layouts \subseteq Kinds \cup {"null"}
BY DEF A!AreasConstants, Kinds

\* snd_pcm_areas_silence.
LEMMA SilenceKeeps ==
    ASSUME A!AreasConstants, mem \in Mem, NEW f \in AreaFormats, NEW layout \in Layouts,
           NEW offset \in 0 .. Frames - 1, NEW frames \in 0 .. Frames - offset,
           A!snd_pcm_areas_silence(layout, offset, frames, f)
    PROVE  SamplesInv'
<1>0. Frames \in Nat \ {0} /\ NotNull
  BY KindsAre, Constants
<1>1. /\ mem' = SilenceAll(mem, layout, offset, frames, f)
      /\ before' = mem
      /\ call' = [op |-> "silence", dst |-> layout, dst_offset |-> offset, frames |-> frames, format |-> f]
  BY Zenon DEF A!snd_pcm_areas_silence, A!Returns, SilenceAll
<1>2. /\ call'.op = "silence" /\ call'.dst = layout /\ call'.dst_offset = offset
      /\ call'.frames = frames /\ call'.format = f /\ call' # A!Idle
  BY <1>1 DEF A!Idle
<1>3. layout \in Kinds \cup {"null"}
  BY LayoutsAre
<1>4. ASSUME A!Reached' PROVE Exact(mem', mem, layout, offset, "null", 0, frames, f)
  <2>1. A!snd_pcm_format_physical_width(f) >= 8 \/ A!Begins(layout, offset)
    BY <1>2, <1>4 DEF A!Reached
  <2>2. Ready(layout, offset, "null", 0, f)
    <3>1. {layout, "null"} \subseteq A!Areas => FALSE
      BY DEF A!Areas
    <3>2. 0 \in Nat /\ offset \in Nat
      OBVIOUS
    <3>3. ASSUME W(f) = 1, layout \in Kinds PROVE (Stride(layout, f) * offset) % 2 = 0
      <4>1. A!Begins(layout, offset)
        <5>1. A!snd_pcm_format_physical_width(f) = 4
          BY <3>3, Width
        <5> QED BY <2>1, <5>1
      <4>2. layout \in A!Areas
        BY <1>0, <3>3 DEF NotNull, A!Areas
      <4>3. AreaChannels \in Nat \ {0}
        BY Constants
      <4>4. 0 \in 0 .. AreaChannels - 1
        BY <4>3
      <4>5. A!Half4(layout, offset, 0) = A!Half4(layout, 0, 0)
        BY <4>1, <4>2, <4>4 DEF A!Begins
      <4> QED BY <3>2, <3>3, <4>5, Even
    <3> QED BY <1>0, <3>3 DEF Ready, NotNull
  <2>3. 0 \in 0 .. Frames - 1 /\ frames \in Nat /\ offset + frames <= Frames /\ 0 + frames <= Frames
    BY <1>0
  <2>4. "null" \in Kinds \cup {"null", "same"}
    OBVIOUS
  <2>5. PICK v \in Mem : Wants(v, mem, layout, offset, "null", 0, frames, f)
    BY <1>3, <2>3, <2>4, WantedExists
  <2>6. Written(mem', mem, Whole(layout, "null", f, offset, frames), v)
    BY <1>1, <1>3, <2>2, <2>3, <2>5, AllSilenced
  <2> QED BY <1>3, <2>3, <2>4, <2>5, <2>6, WrittenExact
<1> QED BY <1>1, <1>2, <1>3, <1>4 DEF SamplesInv

\* The frames that a copy may ask for fit in both buffers.
LEMMA Fits ==
    ASSUME A!AreasConstants, NEW o \in 0 .. Frames - 1, NEW q \in 0 .. Frames - 1,
           NEW n \in 0 .. Frames - A!Max({o, q})
    PROVE  n \in Nat /\ o + n <= Frames /\ q + n <= Frames
<1>1. Frames \in Nat
  BY Constants
<1>2. \E x \in {o, q} : \A y \in {o, q} : x >= y
  <2>1. o >= q \/ q >= o
    OBVIOUS
  <2> QED BY <2>1
<1>3. A!Max({o, q}) \in {o, q} /\ \A y \in {o, q} : A!Max({o, q}) >= y
  BY <1>2 DEF A!Max
<1>4. PICK x \in {o, q} : x = A!Max({o, q}) /\ x >= o /\ x >= q
  BY <1>3
<1> QED BY <1>1, <1>4

\* A copy of no frames leaves the memory as it was.
LEMMA NothingExact ==
    ASSUME NEW f, NEW m, NEW dl, NEW sl, NEW o, NEW q
    PROVE  Exact(m, m, dl, o, sl, q, 0, f)
<1>1. 0 .. 0 - 1 = {}
  OBVIOUS
<1> QED BY <1>1 DEF Exact

\* What a call on areas leaves behind, if it wrote what it was to write.
LEMMA CopyReturns ==
    ASSUME NEW dl, NEW o, NEW sl, NEW q, NEW n, NEW f, NEW r, dl \in Kinds \cup {"null"},
           call' = [op |-> "copy", dst |-> dl, dst_offset |-> o, src |-> sl,
                    src_offset |-> q, frames |-> n, format |-> f, ret |-> r],
           before' = mem,
           (\/ A!snd_pcm_format_physical_width(f) >= 8
            \/ /\ A!Begins(dl, o)
               /\ {dl, sl} \subseteq A!Areas => dl = sl /\ A!Begins(sl, q))
           => Exact(mem', mem, dl, o, sl, q, n, f)
    PROVE  SamplesInv'
<1>1. /\ call'.op = "copy" /\ call'.dst = dl /\ call'.dst_offset = o /\ call'.src = sl
      /\ call'.src_offset = q /\ call'.frames = n /\ call'.format = f /\ call' # A!Idle
  BY DEF A!Idle
<1>2. A!Reached' => Exact(mem', mem, dl, o, sl, q, n, f)
  BY <1>1 DEF A!Reached
<1> QED BY <1>1, <1>2 DEF SamplesInv

\* snd_pcm_areas_copy.
LEMMA CopyKeeps ==
    ASSUME A!AreasConstants, mem \in Mem, NEW f \in AreaFormats, NEW dl \in Layouts,
           NEW sl \in Layouts \cup {"same"}, NEW o \in 0 .. Frames - 1, NEW q \in 0 .. Frames - 1,
           NEW n \in 0 .. Frames - A!Max({o, q}), sl = "same" => o = q,
           A!snd_pcm_areas_copy(dl, o, sl, q, n, f)
    PROVE  SamplesInv'
<1>1. /\ mem' = IF n = 0 THEN mem ELSE CopyAll(mem, dl, o, sl, q, n, f)
      /\ before' = mem
      /\ \E r : call' = [op |-> "copy", dst |-> dl, dst_offset |-> o, src |-> sl,
                   src_offset |-> q, frames |-> n, format |-> f, ret |-> r]
  BY Zenon DEF A!snd_pcm_areas_copy, A!Returns, CopyAll, FromArea
<1>2. dl \in Kinds \cup {"null"} /\ sl \in Kinds \cup {"null", "same"}
  BY LayoutsAre
<1>3. n \in Nat /\ o + n <= Frames /\ q + n <= Frames
  <2>1. n \in Nat
    BY Fits
  <2>2. o + n <= Frames
    BY Fits
  <2>3. q + n <= Frames
    BY Fits
  <2> QED BY <2>1, <2>2, <2>3
<1>4. ASSUME \/ A!snd_pcm_format_physical_width(f) >= 8
             \/ /\ A!Begins(dl, o)
                /\ {dl, sl} \subseteq A!Areas => dl = sl /\ A!Begins(sl, q)
      PROVE  Exact(mem', mem, dl, o, sl, q, n, f)
  <2>1. CASE n = 0
    BY <1>1, <2>1, NothingExact
  <2>2. CASE n # 0
    <3>1. mem' = CopyAll(mem, dl, o, sl, q, n, f)
      BY <1>1, <2>2
    <3>2. Ready(dl, o, sl, q, f)
      <4>1. o \in Nat /\ q \in Nat
        OBVIOUS
      <4> QED BY <1>4, <4>1, ReadyIs
    <3>3. PICK v \in Mem : Wants(v, mem, dl, o, sl, q, n, f)
      BY <1>2, <1>3, WantedExists
    <3>4. Written(mem', mem, Whole(dl, sl, f, o, n), v)
      BY <1>2, <1>3, <3>1, <3>2, <3>3, AllCopied
    <3> QED BY <1>2, <1>3, <3>3, <3>4, WrittenExact
  <2> QED BY <2>1, <2>2
<1> QED BY <1>1, <1>2, <1>4, CopyReturns

\* snd_pcm_mmap_writei and snd_pcm_mmap_readi.
LEMMA RunExact ==
    ASSUME A!AreasConstants, NEW m \in Mem, NEW f \in AreaFormats,
           A!snd_pcm_format_physical_width(f) >= 8,
           NEW o \in 0 .. Frames - 1, NEW q \in 0 .. Frames - 1, NEW n \in Nat,
           o + n <= Frames, q + n <= Frames,
           NEW p \in Nat, 2 * p = Start(0, "interleaved", f, 0, o),
           NEW r \in Nat, 2 * r = Start(Half, "interleaved", f, 0, q),
           NEW m2, m2 = A!memcpy(m, p, r, A!snd_pcm_frames_to_bytes(f, n))
    PROVE  Exact(m2, m, "interleaved", o, "interleaved", q, n, f)
<1>1. W(f) # 1
  <2>1. A!snd_pcm_format_physical_width(f) = 4 * W(f)
    BY Width
  <2> QED BY <2>1
<1>2. "interleaved" \in Kinds \cup {"null"} /\ "interleaved" \in Kinds \cup {"null", "same"}
  BY DEF Kinds
<1>3. PICK v \in Mem : Wants(v, m, "interleaved", o, "interleaved", q, n, f)
  BY <1>2, WantedExists
<1>4. Written(m2, m, Whole("interleaved", "interleaved", f, o, n), v)
  BY <1>1, <1>3, FramesCopied
<1> QED BY <1>2, <1>3, <1>4, WrittenExact

\* The bytes where the first samples of the buffers lie.
LEMMA FirstBytes ==
    ASSUME A!AreasConstants, NEW f \in AreaFormats, W(f) # 1, NEW o \in Nat
    PROVE  /\ A!snd_pcm_channel_area_addr(A!Area(A!Dst, "interleaved", f, 0), o) \in Nat
           /\ 2 * A!snd_pcm_channel_area_addr(A!Area(A!Dst, "interleaved", f, 0), o)
                = Start(0, "interleaved", f, 0, o)
           /\ A!snd_pcm_channel_area_addr(A!Area(A!Src, "interleaved", f, 0), o) \in Nat
           /\ 2 * A!snd_pcm_channel_area_addr(A!Area(A!Src, "interleaved", f, 0), o)
                = Start(Half, "interleaved", f, 0, o)
           /\ 2 * A!Dst = Start(0, "interleaved", f, 0, 0)
           /\ 2 * A!Src = Start(Half, "interleaved", f, 0, 0)
<1>0. A!Dst = 0 /\ 2 * A!Src = Half /\ A!Src \in Nat /\ 0 \in Nat /\ "interleaved" \in Kinds
      /\ AreaChannels \in Nat /\ W(f) \in Nat /\ Half \in Nat
  <2>1. \A y \in {1, 2, 4, 6, 8} : y \in Nat
    OBVIOUS
  <2> QED BY <2>1, Constants, Width DEF Kinds
<1>1. ASSUME NEW b \in Nat
      PROVE  /\ A!snd_pcm_channel_area_addr(A!Area(b, "interleaved", f, 0), o) \in Nat
             /\ 2 * A!snd_pcm_channel_area_addr(A!Area(b, "interleaved", f, 0), o)
                  = Start(2 * b, "interleaved", f, 0, o)
  <2>1. A!snd_pcm_channel_area_addr(A!Area(b, "interleaved", f, 0), o) \in Nat
    BY <1>0, AddrIs
  <2>2. 2 * A!snd_pcm_channel_area_addr(A!Area(b, "interleaved", f, 0), o) = Start(2 * b, "interleaved", f, 0, o)
    BY <1>0, AddrIs
  <2> QED BY <2>1, <2>2
<1>2. PICK b \in Nat : b = A!Dst /\ 2 * b = 0
  BY <1>0
<1>3. PICK d \in Nat : d = A!Src /\ 2 * d = Half
  BY <1>0
<1>4. \A e \in Nat : Start(e, "interleaved", f, 0, 0) = e
  <2> TAKE e \in Nat
  <2>1. Start(e, "interleaved", f, 0, 0) = e + W(f) * (0 + AreaChannels * 0)
    BY DEF Start
  <2>2. PICK w \in Nat, h \in Nat : w = W(f) /\ h = AreaChannels
    BY <1>0
  <2>3. e + w * (0 + h * 0) = e
    OBVIOUS
  <2> QED BY <2>1, <2>2, <2>3
<1>5. /\ A!snd_pcm_channel_area_addr(A!Area(A!Dst, "interleaved", f, 0), o) \in Nat
      /\ 2 * A!snd_pcm_channel_area_addr(A!Area(A!Dst, "interleaved", f, 0), o)
           = Start(0, "interleaved", f, 0, o)
  BY <1>1, <1>2, Zenon
<1>6. /\ A!snd_pcm_channel_area_addr(A!Area(A!Src, "interleaved", f, 0), o) \in Nat
      /\ 2 * A!snd_pcm_channel_area_addr(A!Area(A!Src, "interleaved", f, 0), o)
           = Start(Half, "interleaved", f, 0, o)
  BY <1>1, <1>3, Zenon
<1>7. 2 * A!Dst = 0
  BY <1>0
<1> QED BY <1>0, <1>4, <1>5, <1>6, <1>7

\* snd_pcm_mmap_writei and snd_pcm_mmap_readi.
LEMMA MmapKeeps ==
    ASSUME A!AreasConstants, mem \in Mem, NEW f \in AreaFormats,
           A!snd_pcm_format_physical_width(f) >= 8,
           NEW offset \in 0 .. Frames - 1, NEW frames \in 0 .. Frames - offset,
           A!snd_pcm_mmap_writei(offset, frames, f) \/ A!snd_pcm_mmap_readi(offset, frames, f)
    PROVE  SamplesInv'
<1>0. Frames \in Nat \ {0} /\ A!Dst \in Nat /\ A!Src \in Nat /\ "interleaved" \in Kinds \cup {"null"}
  BY Constants DEF Kinds, A!Dst
<1>1. W(f) # 1
  <2>1. A!snd_pcm_format_physical_width(f) = 4 * W(f)
    BY Width
  <2> QED BY <2>1
<1>2. 0 \in 0 .. Frames - 1 /\ frames \in Nat /\ offset \in Nat /\ offset + frames <= Frames /\ 0 + frames <= Frames
  BY <1>0
<1>3. CASE A!snd_pcm_mmap_writei(offset, frames, f)
  <2>1. PICK p : p = A!snd_pcm_channel_area_addr(A!Area(A!Dst, "interleaved", f, 0), offset)
    OBVIOUS
  <2>2. /\ mem' = A!memcpy(mem, p, A!Src, A!snd_pcm_frames_to_bytes(f, frames))
        /\ before' = mem
        /\ call' = [op |-> "copy", dst |-> "interleaved", dst_offset |-> offset,
                    src |-> "interleaved", src_offset |-> 0, frames |-> frames, format |-> f, ret |-> 0]
    BY <1>3, <2>1, Zenon DEF A!snd_pcm_mmap_writei, A!Returns
  <2>3. p \in Nat /\ 2 * p = Start(0, "interleaved", f, 0, offset)
    <3>1. p \in Nat
      BY <1>1, <1>2, <2>1, FirstBytes
    <3>2. 2 * p = Start(0, "interleaved", f, 0, offset)
      BY <1>1, <1>2, <2>1, FirstBytes
    <3> QED BY <3>1, <3>2
  <2>4. 2 * A!Src = Start(Half, "interleaved", f, 0, 0)
    BY <1>1, <1>2, FirstBytes
  <2>5. Exact(mem', mem, "interleaved", offset, "interleaved", 0, frames, f)
    BY <1>0, <1>2, <2>2, <2>3, <2>4, RunExact
  <2> QED BY <1>0, <2>2, <2>5, CopyReturns
<1>4. CASE A!snd_pcm_mmap_readi(offset, frames, f)
  <2>1. PICK r : r = A!snd_pcm_channel_area_addr(A!Area(A!Src, "interleaved", f, 0), offset)
    OBVIOUS
  <2>2. /\ mem' = A!memcpy(mem, A!Dst, r, A!snd_pcm_frames_to_bytes(f, frames))
        /\ before' = mem
        /\ call' = [op |-> "copy", dst |-> "interleaved", dst_offset |-> 0,
                    src |-> "interleaved", src_offset |-> offset, frames |-> frames, format |-> f, ret |-> 0]
    BY <1>4, <2>1, Zenon DEF A!snd_pcm_mmap_readi, A!Returns
  <2>3. r \in Nat /\ 2 * r = Start(Half, "interleaved", f, 0, offset)
    <3>1. r \in Nat
      BY <1>1, <1>2, <2>1, FirstBytes
    <3>2. 2 * r = Start(Half, "interleaved", f, 0, offset)
      BY <1>1, <1>2, <2>1, FirstBytes
    <3> QED BY <3>1, <3>2
  <2>4. 2 * A!Dst = Start(0, "interleaved", f, 0, 0)
    BY <1>1, <1>2, FirstBytes
  <2>5. Exact(mem', mem, "interleaved", 0, "interleaved", offset, frames, f)
    BY <1>0, <1>2, <2>2, <2>3, <2>4, RunExact
  <2> QED BY <1>0, <2>2, <2>5, CopyReturns
<1> QED BY <1>3, <1>4

\* The application's buffers, when it has filled them.
LEMMA FreshIs ==
    ASSUME A!AreasConstants PROVE A!Fresh \in Mem
<1>1. \A i \in A!Nibbles : A!Mark(i) \in SUBSET Int
  <2>1. Half \in Nat /\ A!Nibbles = 0 .. 2 * Half - 1
    BY Constants
  <2> QED BY <2>1 DEF A!Mark
<1> QED BY <1>1 DEF A!Fresh, Mem

\* Calls that leave the memory alone.
LEMMA OtherKeeps ==
    ASSUME A!FormatCalls \/ A!Refill
    PROVE  SamplesInv'
<1>1. CASE A!FormatCalls
  <2>1. call'.op \in {"value", "word"}
    BY <1>1 DEF A!FormatCalls
  <2>2. call' # A!Idle
    BY <2>1 DEF A!Idle
  <2> QED BY <2>1, <2>2 DEF SamplesInv
<1>2. CASE A!Refill
  <2>1. mem' = A!Fresh /\ call' = A!Idle
    BY <1>2 DEF A!Refill
  <2>2. call'.op = "none"
    BY <2>1 DEF A!Idle
  <2> QED BY <2>1, <2>2 DEF SamplesInv
<1> QED BY <1>1, <1>2

\* Every call on areas keeps the invariant.
LEMMA SamplesStep ==
    ASSUME A!AreasConstants, SamplesInv, [A!Next]_(A!vars)
    PROVE  SamplesInv'
<1>1. CASE call = A!Idle /\ A!Silences
  <2>1. mem \in Mem
    BY <1>1, FreshIs DEF SamplesInv
  <2>2. PICK layout \in Layouts, f \in AreaFormats, offset \in 0 .. Frames - 1 :
            \E frames \in 0 .. Frames - offset : A!snd_pcm_areas_silence(layout, offset, frames, f)
    BY <1>1, Zenon DEF A!Silences
  <2> QED BY <2>1, <2>2, SilenceKeeps
<1>2. CASE call = A!Idle /\ A!Copies
  <2>1. mem \in Mem
    BY <1>2, FreshIs DEF SamplesInv
  <2>2. PICK dl \in Layouts, sl \in Layouts \cup {"same"}, f \in AreaFormats,
             o \in 0 .. Frames - 1, q \in 0 .. Frames - 1 :
            \E n \in 0 .. Frames - A!Max({o, q}) :
                (sl = "same" => o = q) /\ A!snd_pcm_areas_copy(dl, o, sl, q, n, f)
    BY <1>2, Zenon DEF A!Copies
  <2>3. PICK n \in 0 .. Frames - A!Max({o, q}) :
            (sl = "same" => o = q) /\ A!snd_pcm_areas_copy(dl, o, sl, q, n, f)
    BY <2>2
  <2> QED BY <2>1, <2>3, CopyKeeps
<1>3. CASE call = A!Idle /\ A!MmapCalls
  <2>1. mem \in Mem
    BY <1>3, FreshIs DEF SamplesInv
  <2>2. PICK f \in AreaFormats, offset \in 0 .. Frames - 1 : \E frames \in 0 .. Frames - offset :
            /\ A!snd_pcm_format_physical_width(f) >= 8
            /\ A!snd_pcm_mmap_writei(offset, frames, f) \/ A!snd_pcm_mmap_readi(offset, frames, f)
    BY <1>3, Zenon DEF A!MmapCalls
  <2> QED BY <2>1, <2>2, MmapKeeps
<1>4. CASE A!FormatCalls \/ A!Refill
  BY <1>4, OtherKeeps
<1>5. CASE UNCHANGED A!vars
  <2>1. mem' = mem /\ before' = before /\ call' = call
    BY <1>5 DEF A!vars
  <2>2. A!Reached' = A!Reached
    BY <2>1 DEF A!Reached
  <2> QED BY <2>1, <2>2 DEF SamplesInv
<1> QED BY <1>1, <1>2, <1>3, <1>4, <1>5 DEF A!Next

\* The invariant holds before the first call.
LEMMA SamplesStart ==
    ASSUME A!Init PROVE SamplesInv
<1>1. mem = A!Fresh /\ call = A!Idle
  BY DEF A!Init
<1>2. call.op = "none"
  BY <1>1 DEF A!Idle
<1> QED BY <1>1, <1>2 DEF SamplesInv

\* A step of the calls on areas and formats is one of theirs.
LEMMA AreasSteps ==
    ASSUME [AllNext]_allVars
    PROVE  part' = part /\ (part = "areas" => [A!Next]_(A!vars))
<1>1. CASE AllNext
  BY <1>1 DEF AllNext
<1>2. CASE UNCHANGED allVars
  BY <1>2 DEF allVars, areaVars, A!vars
<1> QED BY <1>1, <1>2

\* snd_pcm_areas_silence, snd_pcm_areas_copy and snd_pcm_mmap_writei/readi put every sample
\* where it belongs and change no other bit: for any number of channels and frames, all
\* offsets and lengths, all layouts of both buffers, and every format of half a byte to four.
THEOREM HelpersSamplesExact ==
    ASSUME A!AreasConstants
    PROVE  AllSpec => []SamplesExact
<1> DEFINE Inv == part = "areas" => SamplesInv
<1>1. AllInit => Inv
  BY SamplesStart DEF AllInit
<1>2. Inv /\ [AllNext]_allVars => Inv'
  BY AreasSteps, SamplesStep
<1>3. Inv => SamplesExact
  BY SamplesInvExact DEF SamplesExact
<1> QED BY <1>1, <1>2, <1>3, PTL DEF AllSpec

-----------------------------------------------------------------------------
(* Formats. *)

\* The signed formats of the table.
SignedFormats ==
    {"S8", "S16_LE", "S16_BE", "S24_LE", "S24_BE", "S32_LE", "S32_BE", "S24_3LE", "S24_3BE",
     "S20_3LE", "S20_3BE", "S18_3LE", "S18_3BE"}

\* The linear formats of _snd_pcm_formats.
LEMMA LinearAre ==
    ASSUME NEW f \in A!AllFormats, A!snd_pcm_format_linear(f), A!snd_pcm_format_width(f) > 0
    PROVE  f \in SignedFormats \cup UnsignedFormats
            \cup {"DSD_U8", "DSD_U16_LE", "DSD_U16_BE", "DSD_U32_LE", "DSD_U32_BE"}
  BY SMTT(60) DEF UnsignedFormats, SignedFormats, A!AllFormats, A!_snd_pcm_formats, A!Signed,
       A!Unsigned,
     A!Coded, A!Entry, A!NA, A!snd_pcm_format_signed, A!snd_pcm_format_linear, A!snd_pcm_format_width

\* The rows of _snd_pcm_formats of the signed formats.
LEMMA SignedRows ==
    /\ Row("S8", 8, 8, -22, 1, <<>>)
    /\ Row("S16_LE", 16, 16, 1, 1, <<>>)
    /\ Row("S16_BE", 16, 16, 0, 1, <<>>)
    /\ Row("S24_LE", 24, 32, 1, 1, <<>>)
    /\ Row("S24_BE", 24, 32, 0, 1, <<>>)
    /\ Row("S32_LE", 32, 32, 1, 1, <<>>)
    /\ Row("S32_BE", 32, 32, 0, 1, <<>>)
    /\ Row("S24_3LE", 24, 24, 1, 1, <<>>)
    /\ Row("S24_3BE", 24, 24, 0, 1, <<>>)
    /\ Row("S20_3LE", 20, 24, 1, 1, <<>>)
    /\ Row("S20_3BE", 20, 24, 0, 1, <<>>)
    /\ Row("S18_3LE", 18, 24, 1, 1, <<>>)
    /\ Row("S18_3BE", 18, 24, 0, 1, <<>>)
  BY SMTT(150) DEF Row, A!_snd_pcm_formats, A!Signed, A!Unsigned, A!Coded, A!Entry, A!NA

\* The place of a width among those of a table, and which table it is.
OnlyAt(ws, width, k) ==
    k \in 1 .. Len(ws) /\ ws[k] = width /\ \A i \in 1 .. Len(ws) : ws[i] = width => i = k
HasTable(pwidth, ws, table) ==
    \/ pwidth = 24 /\ ws = <<24, 20, 18>> /\ table = A!Linear24Formats
    \/ pwidth # 24 /\ ws = <<8, 16, 24, 32>> /\ table = A!LinearFormats
Select(ws, width) == A!SelectInSeq(ws, LAMBDA w : w = width)

\* The index that snd_pcm_build_linear_format finds for a width.
LEMMA PlaceOf ==
    ASSUME NEW ws \in Seq(Int), NEW width, NEW k \in 1 .. Len(ws), ws[k] = width,
           \A i \in 1 .. Len(ws) : ws[i] = width => i = k
    PROVE  A!Contains(ws, width) /\ Select(ws, width) = k
<1> DEFINE I == {i \in 1 .. Len(ws) : ws[i] = width}
<1>1. A!Contains(ws, width)
  BY DEF A!Contains
<1>2. I = {k}
  OBVIOUS
<1>3. Select(ws, width) = IF I # {} THEN A!Min(I) ELSE 0
  BY Zenon DEF Select, A!SelectInSeq
<1>4. A!Min({k}) = k
  BY DEF A!Min
<1> HIDE DEF I
<1>5. (IF I # {} THEN A!Min(I) ELSE 0) = k
  BY <1>2, <1>4
<1> QED BY <1>1, <1>3, <1>5

\* The format that snd_pcm_build_linear_format finds.
LEMMA Built ==
    ASSUME NEW width, NEW pwidth, NEW unsignd \in Int, NEW big_endian \in Int,
           NEW ws \in Seq(Int), NEW table, NEW k, OnlyAt(ws, width, k), HasTable(pwidth, ws, table)
    PROVE  A!snd_pcm_build_linear_format(width, pwidth, unsignd, big_endian)
                = table[k][unsignd + 1][big_endian + 1]
<1>1. A!Contains(ws, width) /\ Select(ws, width) = k
  <2>1. A!Contains(ws, width)
    BY PlaceOf DEF OnlyAt
  <2>2. Select(ws, width) = k
    BY PlaceOf DEF OnlyAt
  <2> QED BY <2>1, <2>2
<1>2. CASE pwidth = 24
  <2>1. ws = <<24, 20, 18>> /\ table = A!Linear24Formats
    BY <1>2 DEF HasTable
  <2> QED BY <1>1, <1>2, <2>1, Zenon DEF A!snd_pcm_build_linear_format, Select
<1>3. CASE pwidth # 24
  <2>1. ws = <<8, 16, 24, 32>> /\ table = A!LinearFormats
    BY <1>3 DEF HasTable
  <2> QED BY <1>1, <1>3, <2>1, Zenon DEF A!snd_pcm_build_linear_format, Select
<1> QED BY <1>2, <1>3

Found(f, width, pwidth, unsignd, big_endian) ==
    A!snd_pcm_build_linear_format(width, pwidth, unsignd, big_endian) = f

\* The rows of linear24_formats, by the width of their samples.
LEMMA Table24 ==
    ASSUME NEW u \in Int, NEW b \in Int
    PROVE  /\ A!snd_pcm_build_linear_format(24, 24, u, b) = A!Linear24Formats[1][u + 1][b + 1]
           /\ A!snd_pcm_build_linear_format(20, 24, u, b) = A!Linear24Formats[2][u + 1][b + 1]
           /\ A!snd_pcm_build_linear_format(18, 24, u, b) = A!Linear24Formats[3][u + 1][b + 1]
<1>1. PICK ws : ws = <<24, 20, 18>>
  OBVIOUS
<1>2. PICK table : table = A!Linear24Formats
  OBVIOUS
<1>3. ws \in Seq(Int) /\ Len(ws) = 3 /\ ws[1] = 24 /\ ws[2] = 20 /\ ws[3] = 18
  BY <1>1
<1>0. PICK p : p = 24 /\ HasTable(p, ws, table)
  BY <1>1, <1>2 DEF HasTable
<1>4. A!snd_pcm_build_linear_format(24, 24, u, b) = table[1][u + 1][b + 1]
  <2>1. PICK width, k : width = 24 /\ k = 1 /\ OnlyAt(ws, width, k)
    BY <1>3 DEF OnlyAt
  <2>2. A!snd_pcm_build_linear_format(width, p, u, b) = table[k][u + 1][b + 1]
    BY <1>0, <1>3, <2>1, Built
  <2> QED BY <1>0, <2>1, <2>2
<1>5. A!snd_pcm_build_linear_format(20, 24, u, b) = table[2][u + 1][b + 1]
  <2>1. PICK width, k : width = 20 /\ k = 2 /\ OnlyAt(ws, width, k)
    BY <1>3 DEF OnlyAt
  <2>2. A!snd_pcm_build_linear_format(width, p, u, b) = table[k][u + 1][b + 1]
    BY <1>0, <1>3, <2>1, Built
  <2> QED BY <1>0, <2>1, <2>2
<1>6. A!snd_pcm_build_linear_format(18, 24, u, b) = table[3][u + 1][b + 1]
  <2>1. PICK width, k : width = 18 /\ k = 3 /\ OnlyAt(ws, width, k)
    BY <1>3 DEF OnlyAt
  <2>2. A!snd_pcm_build_linear_format(width, p, u, b) = table[k][u + 1][b + 1]
    BY <1>0, <1>3, <2>1, Built
  <2> QED BY <1>0, <2>1, <2>2
<1> QED BY <1>2, <1>4, <1>5, <1>6

\* The rows of linear_formats, ...
LEMMA Table8 ==
    ASSUME NEW p, p # 24, NEW u \in Int, NEW b \in Int
    PROVE  /\ A!snd_pcm_build_linear_format(8, p, u, b) = A!LinearFormats[1][u + 1][b + 1]
           /\ A!snd_pcm_build_linear_format(16, p, u, b) = A!LinearFormats[2][u + 1][b + 1]
           /\ A!snd_pcm_build_linear_format(24, p, u, b) = A!LinearFormats[3][u + 1][b + 1]
           /\ A!snd_pcm_build_linear_format(32, p, u, b) = A!LinearFormats[4][u + 1][b + 1]
<1>1. PICK ws : ws = <<8, 16, 24, 32>>
  OBVIOUS
<1>2. PICK table : table = A!LinearFormats
  OBVIOUS
<1>3. ws \in Seq(Int) /\ Len(ws) = 4 /\ ws[1] = 8 /\ ws[2] = 16 /\ ws[3] = 24 /\ ws[4] = 32 /\ HasTable(p, ws, table)
  BY <1>1, <1>2 DEF HasTable
<1>4. A!snd_pcm_build_linear_format(8, p, u, b) = table[1][u + 1][b + 1]
  <2>1. PICK width, k : width = 8 /\ k = 1 /\ OnlyAt(ws, width, k)
    BY <1>3 DEF OnlyAt
  <2>2. A!snd_pcm_build_linear_format(width, p, u, b) = table[k][u + 1][b + 1]
    BY <1>3, <2>1, Built
  <2> QED BY <2>1, <2>2
<1>5. A!snd_pcm_build_linear_format(16, p, u, b) = table[2][u + 1][b + 1]
  <2>1. PICK width, k : width = 16 /\ k = 2 /\ OnlyAt(ws, width, k)
    BY <1>3 DEF OnlyAt
  <2>2. A!snd_pcm_build_linear_format(width, p, u, b) = table[k][u + 1][b + 1]
    BY <1>3, <2>1, Built
  <2> QED BY <2>1, <2>2
<1>6. A!snd_pcm_build_linear_format(24, p, u, b) = table[3][u + 1][b + 1]
  <2>1. PICK width, k : width = 24 /\ k = 3 /\ OnlyAt(ws, width, k)
    BY <1>3 DEF OnlyAt
  <2>2. A!snd_pcm_build_linear_format(width, p, u, b) = table[k][u + 1][b + 1]
    BY <1>3, <2>1, Built
  <2> QED BY <2>1, <2>2
<1>7. A!snd_pcm_build_linear_format(32, p, u, b) = table[4][u + 1][b + 1]
  <2>1. PICK width, k : width = 32 /\ k = 4 /\ OnlyAt(ws, width, k)
    BY <1>3 DEF OnlyAt
  <2>2. A!snd_pcm_build_linear_format(width, p, u, b) = table[k][u + 1][b + 1]
    BY <1>3, <2>1, Built
  <2> QED BY <2>1, <2>2
<1> QED BY <1>2, <1>4, <1>5, <1>6, <1>7

\* Every linear format is where its traits lead to.
LEMMA TableFinds ==
    /\ Found("S8", 8, 8, 0, 1)
    /\ Found("S16_LE", 16, 16, 0, 0)
    /\ Found("S16_BE", 16, 16, 0, 1)
    /\ Found("S24_LE", 24, 32, 0, 0)
    /\ Found("S24_BE", 24, 32, 0, 1)
    /\ Found("S32_LE", 32, 32, 0, 0)
    /\ Found("S32_BE", 32, 32, 0, 1)
    /\ Found("S24_3LE", 24, 24, 0, 0)
    /\ Found("S24_3BE", 24, 24, 0, 1)
    /\ Found("S20_3LE", 20, 24, 0, 0)
    /\ Found("S20_3BE", 20, 24, 0, 1)
    /\ Found("S18_3LE", 18, 24, 0, 0)
    /\ Found("S18_3BE", 18, 24, 0, 1)
    /\ Found("U8", 8, 8, 1, 1)
    /\ Found("U16_LE", 16, 16, 1, 0)
    /\ Found("U16_BE", 16, 16, 1, 1)
    /\ Found("U24_LE", 24, 32, 1, 0)
    /\ Found("U24_BE", 24, 32, 1, 1)
    /\ Found("U32_LE", 32, 32, 1, 0)
    /\ Found("U32_BE", 32, 32, 1, 1)
    /\ Found("U24_3LE", 24, 24, 1, 0)
    /\ Found("U24_3BE", 24, 24, 1, 1)
    /\ Found("U20_3LE", 20, 24, 1, 0)
    /\ Found("U20_3BE", 20, 24, 1, 1)
    /\ Found("U18_3LE", 18, 24, 1, 0)
    /\ Found("U18_3BE", 18, 24, 1, 1)
<1>1. Found("S8", 8, 8, 0, 1)
  <2>1. A!LinearFormats[1][0 + 1][1 + 1] = "S8"
    BY DEF A!LinearFormats
  <2>2. A!snd_pcm_build_linear_format(8, 8, 0, 1) = A!LinearFormats[1][0 + 1][1 + 1]
    BY Table8
  <2> QED BY <2>1, <2>2 DEF Found
<1>2. Found("S16_LE", 16, 16, 0, 0)
  <2>1. A!LinearFormats[2][0 + 1][0 + 1] = "S16_LE"
    BY DEF A!LinearFormats
  <2>2. A!snd_pcm_build_linear_format(16, 16, 0, 0) = A!LinearFormats[2][0 + 1][0 + 1]
    BY Table8
  <2> QED BY <2>1, <2>2 DEF Found
<1>3. Found("S16_BE", 16, 16, 0, 1)
  <2>1. A!LinearFormats[2][0 + 1][1 + 1] = "S16_BE"
    BY DEF A!LinearFormats
  <2>2. A!snd_pcm_build_linear_format(16, 16, 0, 1) = A!LinearFormats[2][0 + 1][1 + 1]
    BY Table8
  <2> QED BY <2>1, <2>2 DEF Found
<1>4. Found("S24_LE", 24, 32, 0, 0)
  <2>1. A!LinearFormats[3][0 + 1][0 + 1] = "S24_LE"
    BY DEF A!LinearFormats
  <2>2. A!snd_pcm_build_linear_format(24, 32, 0, 0) = A!LinearFormats[3][0 + 1][0 + 1]
    BY Table8
  <2> QED BY <2>1, <2>2 DEF Found
<1>5. Found("S24_BE", 24, 32, 0, 1)
  <2>1. A!LinearFormats[3][0 + 1][1 + 1] = "S24_BE"
    BY DEF A!LinearFormats
  <2>2. A!snd_pcm_build_linear_format(24, 32, 0, 1) = A!LinearFormats[3][0 + 1][1 + 1]
    BY Table8
  <2> QED BY <2>1, <2>2 DEF Found
<1>6. Found("S32_LE", 32, 32, 0, 0)
  <2>1. A!LinearFormats[4][0 + 1][0 + 1] = "S32_LE"
    BY DEF A!LinearFormats
  <2>2. A!snd_pcm_build_linear_format(32, 32, 0, 0) = A!LinearFormats[4][0 + 1][0 + 1]
    BY Table8
  <2> QED BY <2>1, <2>2 DEF Found
<1>7. Found("S32_BE", 32, 32, 0, 1)
  <2>1. A!LinearFormats[4][0 + 1][1 + 1] = "S32_BE"
    BY DEF A!LinearFormats
  <2>2. A!snd_pcm_build_linear_format(32, 32, 0, 1) = A!LinearFormats[4][0 + 1][1 + 1]
    BY Table8
  <2> QED BY <2>1, <2>2 DEF Found
<1>8. Found("S24_3LE", 24, 24, 0, 0)
  <2>1. A!Linear24Formats[1][0 + 1][0 + 1] = "S24_3LE"
    BY DEF A!Linear24Formats
  <2>2. A!snd_pcm_build_linear_format(24, 24, 0, 0) = A!Linear24Formats[1][0 + 1][0 + 1]
    BY Table24
  <2> QED BY <2>1, <2>2 DEF Found
<1>9. Found("S24_3BE", 24, 24, 0, 1)
  <2>1. A!Linear24Formats[1][0 + 1][1 + 1] = "S24_3BE"
    BY DEF A!Linear24Formats
  <2>2. A!snd_pcm_build_linear_format(24, 24, 0, 1) = A!Linear24Formats[1][0 + 1][1 + 1]
    BY Table24
  <2> QED BY <2>1, <2>2 DEF Found
<1>10. Found("S20_3LE", 20, 24, 0, 0)
  <2>1. A!Linear24Formats[2][0 + 1][0 + 1] = "S20_3LE"
    BY DEF A!Linear24Formats
  <2>2. A!snd_pcm_build_linear_format(20, 24, 0, 0) = A!Linear24Formats[2][0 + 1][0 + 1]
    BY Table24
  <2> QED BY <2>1, <2>2 DEF Found
<1>11. Found("S20_3BE", 20, 24, 0, 1)
  <2>1. A!Linear24Formats[2][0 + 1][1 + 1] = "S20_3BE"
    BY DEF A!Linear24Formats
  <2>2. A!snd_pcm_build_linear_format(20, 24, 0, 1) = A!Linear24Formats[2][0 + 1][1 + 1]
    BY Table24
  <2> QED BY <2>1, <2>2 DEF Found
<1>12. Found("S18_3LE", 18, 24, 0, 0)
  <2>1. A!Linear24Formats[3][0 + 1][0 + 1] = "S18_3LE"
    BY DEF A!Linear24Formats
  <2>2. A!snd_pcm_build_linear_format(18, 24, 0, 0) = A!Linear24Formats[3][0 + 1][0 + 1]
    BY Table24
  <2> QED BY <2>1, <2>2 DEF Found
<1>13. Found("S18_3BE", 18, 24, 0, 1)
  <2>1. A!Linear24Formats[3][0 + 1][1 + 1] = "S18_3BE"
    BY DEF A!Linear24Formats
  <2>2. A!snd_pcm_build_linear_format(18, 24, 0, 1) = A!Linear24Formats[3][0 + 1][1 + 1]
    BY Table24
  <2> QED BY <2>1, <2>2 DEF Found
<1>14. Found("U8", 8, 8, 1, 1)
  <2>1. A!LinearFormats[1][1 + 1][1 + 1] = "U8"
    BY DEF A!LinearFormats
  <2>2. A!snd_pcm_build_linear_format(8, 8, 1, 1) = A!LinearFormats[1][1 + 1][1 + 1]
    BY Table8
  <2> QED BY <2>1, <2>2 DEF Found
<1>15. Found("U16_LE", 16, 16, 1, 0)
  <2>1. A!LinearFormats[2][1 + 1][0 + 1] = "U16_LE"
    BY DEF A!LinearFormats
  <2>2. A!snd_pcm_build_linear_format(16, 16, 1, 0) = A!LinearFormats[2][1 + 1][0 + 1]
    BY Table8
  <2> QED BY <2>1, <2>2 DEF Found
<1>16. Found("U16_BE", 16, 16, 1, 1)
  <2>1. A!LinearFormats[2][1 + 1][1 + 1] = "U16_BE"
    BY DEF A!LinearFormats
  <2>2. A!snd_pcm_build_linear_format(16, 16, 1, 1) = A!LinearFormats[2][1 + 1][1 + 1]
    BY Table8
  <2> QED BY <2>1, <2>2 DEF Found
<1>17. Found("U24_LE", 24, 32, 1, 0)
  <2>1. A!LinearFormats[3][1 + 1][0 + 1] = "U24_LE"
    BY DEF A!LinearFormats
  <2>2. A!snd_pcm_build_linear_format(24, 32, 1, 0) = A!LinearFormats[3][1 + 1][0 + 1]
    BY Table8
  <2> QED BY <2>1, <2>2 DEF Found
<1>18. Found("U24_BE", 24, 32, 1, 1)
  <2>1. A!LinearFormats[3][1 + 1][1 + 1] = "U24_BE"
    BY DEF A!LinearFormats
  <2>2. A!snd_pcm_build_linear_format(24, 32, 1, 1) = A!LinearFormats[3][1 + 1][1 + 1]
    BY Table8
  <2> QED BY <2>1, <2>2 DEF Found
<1>19. Found("U32_LE", 32, 32, 1, 0)
  <2>1. A!LinearFormats[4][1 + 1][0 + 1] = "U32_LE"
    BY DEF A!LinearFormats
  <2>2. A!snd_pcm_build_linear_format(32, 32, 1, 0) = A!LinearFormats[4][1 + 1][0 + 1]
    BY Table8
  <2> QED BY <2>1, <2>2 DEF Found
<1>20. Found("U32_BE", 32, 32, 1, 1)
  <2>1. A!LinearFormats[4][1 + 1][1 + 1] = "U32_BE"
    BY DEF A!LinearFormats
  <2>2. A!snd_pcm_build_linear_format(32, 32, 1, 1) = A!LinearFormats[4][1 + 1][1 + 1]
    BY Table8
  <2> QED BY <2>1, <2>2 DEF Found
<1>21. Found("U24_3LE", 24, 24, 1, 0)
  <2>1. A!Linear24Formats[1][1 + 1][0 + 1] = "U24_3LE"
    BY DEF A!Linear24Formats
  <2>2. A!snd_pcm_build_linear_format(24, 24, 1, 0) = A!Linear24Formats[1][1 + 1][0 + 1]
    BY Table24
  <2> QED BY <2>1, <2>2 DEF Found
<1>22. Found("U24_3BE", 24, 24, 1, 1)
  <2>1. A!Linear24Formats[1][1 + 1][1 + 1] = "U24_3BE"
    BY DEF A!Linear24Formats
  <2>2. A!snd_pcm_build_linear_format(24, 24, 1, 1) = A!Linear24Formats[1][1 + 1][1 + 1]
    BY Table24
  <2> QED BY <2>1, <2>2 DEF Found
<1>23. Found("U20_3LE", 20, 24, 1, 0)
  <2>1. A!Linear24Formats[2][1 + 1][0 + 1] = "U20_3LE"
    BY DEF A!Linear24Formats
  <2>2. A!snd_pcm_build_linear_format(20, 24, 1, 0) = A!Linear24Formats[2][1 + 1][0 + 1]
    BY Table24
  <2> QED BY <2>1, <2>2 DEF Found
<1>24. Found("U20_3BE", 20, 24, 1, 1)
  <2>1. A!Linear24Formats[2][1 + 1][1 + 1] = "U20_3BE"
    BY DEF A!Linear24Formats
  <2>2. A!snd_pcm_build_linear_format(20, 24, 1, 1) = A!Linear24Formats[2][1 + 1][1 + 1]
    BY Table24
  <2> QED BY <2>1, <2>2 DEF Found
<1>25. Found("U18_3LE", 18, 24, 1, 0)
  <2>1. A!Linear24Formats[3][1 + 1][0 + 1] = "U18_3LE"
    BY DEF A!Linear24Formats
  <2>2. A!snd_pcm_build_linear_format(18, 24, 1, 0) = A!Linear24Formats[3][1 + 1][0 + 1]
    BY Table24
  <2> QED BY <2>1, <2>2 DEF Found
<1>26. Found("U18_3BE", 18, 24, 1, 1)
  <2>1. A!Linear24Formats[3][1 + 1][1 + 1] = "U18_3BE"
    BY DEF A!Linear24Formats
  <2>2. A!snd_pcm_build_linear_format(18, 24, 1, 1) = A!Linear24Formats[3][1 + 1][1 + 1]
    BY Table24
  <2> QED BY <2>1, <2>2 DEF Found
<1> QED BY <1>1, <1>2, <1>3, <1>4, <1>5, <1>6, <1>7, <1>8, <1>9, <1>10, <1>11, <1>12, <1>13,
     <1>14, <1>15, <1>16, <1>17, <1>18, <1>19, <1>20, <1>21, <1>22, <1>23, <1>24, <1>25, <1>26

\* snd_pcm_build_linear_format finds a linear format from its traits.
LEMMA LinearIsFound ==
    ASSUME NEW f \in A!AllFormats, A!snd_pcm_format_linear(f), A!snd_pcm_format_width(f) > 0,
           A!SilentByte(f, 0) # 105
    PROVE  f = A!snd_pcm_build_linear_format(
                   A!snd_pcm_format_width(f), A!snd_pcm_format_physical_width(f),
                   A!snd_pcm_format_unsigned(f),
                   IF A!snd_pcm_format_big_endian(f) # 0 THEN 1 ELSE 0)
<1> USE DEF Row, Found, A!snd_pcm_format_physical_width, A!snd_pcm_format_width, A!snd_pcm_format_signed,
        A!snd_pcm_format_unsigned, A!snd_pcm_format_big_endian, A!snd_pcm_format_little_endian, A!Not
<1>1. CASE f = "S8"
  <2>1. Row("S8", 8, 8, -22, 1, <<>>)
    BY SignedRows
  <2>2. Found("S8", 8, 8, 0, 1)
    BY TableFinds
  <2> QED BY <1>1, <2>1, <2>2
<1>2. CASE f = "S16_LE"
  <2>1. Row("S16_LE", 16, 16, 1, 1, <<>>)
    BY SignedRows
  <2>2. Found("S16_LE", 16, 16, 0, 0)
    BY TableFinds
  <2> QED BY <1>2, <2>1, <2>2
<1>3. CASE f = "S16_BE"
  <2>1. Row("S16_BE", 16, 16, 0, 1, <<>>)
    BY SignedRows
  <2>2. Found("S16_BE", 16, 16, 0, 1)
    BY TableFinds
  <2> QED BY <1>3, <2>1, <2>2
<1>4. CASE f = "S24_LE"
  <2>1. Row("S24_LE", 24, 32, 1, 1, <<>>)
    BY SignedRows
  <2>2. Found("S24_LE", 24, 32, 0, 0)
    BY TableFinds
  <2> QED BY <1>4, <2>1, <2>2
<1>5. CASE f = "S24_BE"
  <2>1. Row("S24_BE", 24, 32, 0, 1, <<>>)
    BY SignedRows
  <2>2. Found("S24_BE", 24, 32, 0, 1)
    BY TableFinds
  <2> QED BY <1>5, <2>1, <2>2
<1>6. CASE f = "S32_LE"
  <2>1. Row("S32_LE", 32, 32, 1, 1, <<>>)
    BY SignedRows
  <2>2. Found("S32_LE", 32, 32, 0, 0)
    BY TableFinds
  <2> QED BY <1>6, <2>1, <2>2
<1>7. CASE f = "S32_BE"
  <2>1. Row("S32_BE", 32, 32, 0, 1, <<>>)
    BY SignedRows
  <2>2. Found("S32_BE", 32, 32, 0, 1)
    BY TableFinds
  <2> QED BY <1>7, <2>1, <2>2
<1>8. CASE f = "S24_3LE"
  <2>1. Row("S24_3LE", 24, 24, 1, 1, <<>>)
    BY SignedRows
  <2>2. Found("S24_3LE", 24, 24, 0, 0)
    BY TableFinds
  <2> QED BY <1>8, <2>1, <2>2
<1>9. CASE f = "S24_3BE"
  <2>1. Row("S24_3BE", 24, 24, 0, 1, <<>>)
    BY SignedRows
  <2>2. Found("S24_3BE", 24, 24, 0, 1)
    BY TableFinds
  <2> QED BY <1>9, <2>1, <2>2
<1>10. CASE f = "S20_3LE"
  <2>1. Row("S20_3LE", 20, 24, 1, 1, <<>>)
    BY SignedRows
  <2>2. Found("S20_3LE", 20, 24, 0, 0)
    BY TableFinds
  <2> QED BY <1>10, <2>1, <2>2
<1>11. CASE f = "S20_3BE"
  <2>1. Row("S20_3BE", 20, 24, 0, 1, <<>>)
    BY SignedRows
  <2>2. Found("S20_3BE", 20, 24, 0, 1)
    BY TableFinds
  <2> QED BY <1>11, <2>1, <2>2
<1>12. CASE f = "S18_3LE"
  <2>1. Row("S18_3LE", 18, 24, 1, 1, <<>>)
    BY SignedRows
  <2>2. Found("S18_3LE", 18, 24, 0, 0)
    BY TableFinds
  <2> QED BY <1>12, <2>1, <2>2
<1>13. CASE f = "S18_3BE"
  <2>1. Row("S18_3BE", 18, 24, 0, 1, <<>>)
    BY SignedRows
  <2>2. Found("S18_3BE", 18, 24, 0, 1)
    BY TableFinds
  <2> QED BY <1>13, <2>1, <2>2
<1>14. CASE f = "U8"
  <2>1. Row("U8", 8, 8, -22, 0, <<128>>)
    BY Rows
  <2>2. Found("U8", 8, 8, 1, 1)
    BY TableFinds
  <2> QED BY <1>14, <2>1, <2>2
<1>15. CASE f = "U16_LE"
  <2>1. Row("U16_LE", 16, 16, 1, 0, <<0, 128>>)
    BY Rows
  <2>2. Found("U16_LE", 16, 16, 1, 0)
    BY TableFinds
  <2> QED BY <1>15, <2>1, <2>2
<1>16. CASE f = "U16_BE"
  <2>1. Row("U16_BE", 16, 16, 0, 0, <<128, 0>>)
    BY Rows
  <2>2. Found("U16_BE", 16, 16, 1, 1)
    BY TableFinds
  <2> QED BY <1>16, <2>1, <2>2
<1>17. CASE f = "U24_LE"
  <2>1. Row("U24_LE", 24, 32, 1, 0, <<0, 0, 128, 0>>)
    BY Rows
  <2>2. Found("U24_LE", 24, 32, 1, 0)
    BY TableFinds
  <2> QED BY <1>17, <2>1, <2>2
<1>18. CASE f = "U24_BE"
  <2>1. Row("U24_BE", 24, 32, 0, 0, <<0, 128, 0, 0>>)
    BY Rows
  <2>2. Found("U24_BE", 24, 32, 1, 1)
    BY TableFinds
  <2> QED BY <1>18, <2>1, <2>2
<1>19. CASE f = "U32_LE"
  <2>1. Row("U32_LE", 32, 32, 1, 0, <<0, 0, 0, 128>>)
    BY Rows
  <2>2. Found("U32_LE", 32, 32, 1, 0)
    BY TableFinds
  <2> QED BY <1>19, <2>1, <2>2
<1>20. CASE f = "U32_BE"
  <2>1. Row("U32_BE", 32, 32, 0, 0, <<128, 0, 0, 0>>)
    BY Rows
  <2>2. Found("U32_BE", 32, 32, 1, 1)
    BY TableFinds
  <2> QED BY <1>20, <2>1, <2>2
<1>21. CASE f = "U24_3LE"
  <2>1. Row("U24_3LE", 24, 24, 1, 0, <<0, 0, 128>>)
    BY Rows
  <2>2. Found("U24_3LE", 24, 24, 1, 0)
    BY TableFinds
  <2> QED BY <1>21, <2>1, <2>2
<1>22. CASE f = "U24_3BE"
  <2>1. Row("U24_3BE", 24, 24, 0, 0, <<128, 0, 0>>)
    BY Rows
  <2>2. Found("U24_3BE", 24, 24, 1, 1)
    BY TableFinds
  <2> QED BY <1>22, <2>1, <2>2
<1>23. CASE f = "U20_3LE"
  <2>1. Row("U20_3LE", 20, 24, 1, 0, <<0, 0, 8>>)
    BY Rows
  <2>2. Found("U20_3LE", 20, 24, 1, 0)
    BY TableFinds
  <2> QED BY <1>23, <2>1, <2>2
<1>24. CASE f = "U20_3BE"
  <2>1. Row("U20_3BE", 20, 24, 0, 0, <<8, 0, 0>>)
    BY Rows
  <2>2. Found("U20_3BE", 20, 24, 1, 1)
    BY TableFinds
  <2> QED BY <1>24, <2>1, <2>2
<1>25. CASE f = "U18_3LE"
  <2>1. Row("U18_3LE", 18, 24, 1, 0, <<0, 0, 2>>)
    BY Rows
  <2>2. Found("U18_3LE", 18, 24, 1, 0)
    BY TableFinds
  <2> QED BY <1>25, <2>1, <2>2
<1>26. CASE f = "U18_3BE"
  <2>1. Row("U18_3BE", 18, 24, 0, 0, <<2, 0, 0>>)
    BY Rows
  <2>2. Found("U18_3BE", 18, 24, 1, 1)
    BY TableFinds
  <2> QED BY <1>26, <2>1, <2>2
<1>27. ~(f \in {"DSD_U8", "DSD_U16_LE", "DSD_U16_BE", "DSD_U32_LE", "DSD_U32_BE"})
  BY DEF A!SilentByte, A!Patterns
<1>28. f \in SignedFormats \cup UnsignedFormats
  BY <1>27, LinearAre
<1> QED BY <1>1, <1>2, <1>3, <1>4, <1>5, <1>6, <1>7, <1>8, <1>9, <1>10, <1>11, <1>12, <1>13,
     <1>14, <1>15, <1>16, <1>17, <1>18, <1>19, <1>20, <1>21, <1>22, <1>23, <1>24, <1>25, <1>26,
     <1>28 DEF SignedFormats, UnsignedFormats

\* The bytes of snd_pcm_format_silence_64, and of the functions that cut its value to
\* those of a sample, are those of a silent sample in the order of memory, if the
\* format fills its bytes.
LEMMA WordIsSilent ==
    ASSUME A!AreasConstants, NEW f \in AreaFormats,
           A!snd_pcm_format_width(f) = A!snd_pcm_format_physical_width(f),
           A!snd_pcm_format_width(f) % 8 = 0
    PROVE  LET bytes == A!snd_pcm_format_size(f, 1)
           IN  /\ A!SilenceWord(f, bytes) = [i \in 1 .. bytes |-> A!SilentByte(f, i - 1)]
               /\ \A i \in 1 .. 8 - bytes : A!snd_pcm_format_silence_64(f)[i] = 0
<1>1. PICK n \in 1 .. 4 : /\ A!snd_pcm_format_physical_width(f) = 8 * n
                          /\ A!snd_pcm_format_width(f) = 8 * n
  <2>1. A!snd_pcm_format_physical_width(f) \in {4, 8, 16, 24, 32}
    BY DEF A!AreasConstants
  <2>2. \A x \in {4, 8, 16, 24, 32} : x % 8 = 0 => \E n \in 1 .. 4 : x = 8 * n
    <3>1. 8 = 8 * 1 /\ 16 = 8 * 2 /\ 24 = 8 * 3 /\ 32 = 8 * 4 /\ 4 % 8 # 0
      OBVIOUS
    <3> QED BY <3>1
  <2> QED BY <2>1, <2>2
<1>2. A!snd_pcm_format_size(f, 1) = n /\ A!snd_pcm_format_width(f) \div 8 = n
  <2>1. (1 * (8 * n)) \div 8 = n /\ (8 * n) \div 8 = n /\ ~(8 * n < 0)
    OBVIOUS
  <2> QED BY <1>1, <2>1 DEF A!snd_pcm_format_size
<1>3. A!snd_pcm_format_physical_width(f) > 0
  BY <1>1
<1> DEFINE s == A!snd_pcm_format_silence_64(f)
<1>4. s = [i \in 1 .. 8 |-> IF i > 8 - n THEN A!SilenceByte(f, i - (8 - n) - 1) ELSE 0]
  BY <1>2, <1>3, Zenon DEF A!snd_pcm_format_silence_64
<1>5. ASSUME NEW i \in 1 .. n PROVE s[i + (8 - n)] = A!SilentByte(f, i - 1)
  <2>1. i + (8 - n) \in 1 .. 8 /\ i + (8 - n) > 8 - n /\ i + (8 - n) - (8 - n) - 1 = i - 1
    OBVIOUS
  <2>2. s[i + (8 - n)] = A!SilenceByte(f, i - 1)
    BY <1>4, <2>1
  <2>3. f \in A!AllFormats /\ A!snd_pcm_format_physical_width(f) \in {8, 16, 24, 32}
        /\ i - 1 \in 0 .. A!snd_pcm_format_physical_width(f) \div 8 - 1
    <3>1. (8 * n) \div 8 = n /\ 8 * n \in {8, 16, 24, 32}
      OBVIOUS
    <3>2. f \in A!AllFormats
      BY DEF A!AreasConstants
    <3>3. i - 1 \in 0 .. n - 1
      OBVIOUS
    <3> QED BY <1>1, <3>1, <3>2, <3>3
  <2>4. A!SilenceByte(f, i - 1) = A!SilentByte(f, i - 1)
    BY <2>3, SilenceIs
  <2> QED BY <2>2, <2>4
<1>6. \A i \in 1 .. 8 - n : s[i] = 0
  BY <1>4
<1>7. A!SilenceWord(f, n) = [i \in 1 .. n |-> A!SilentByte(f, i - 1)]
  <2>1. PICK S : \A i \in 1 .. 8 : s[i] \in S
    <3>1. \A i \in 1 .. 8 : s[i] \in {s[j] : j \in 1 .. 8}
      OBVIOUS
    <3> HIDE DEF s
    <3> QED BY <3>1
  <2> HIDE DEF s
  <2>2. PICK a \in 1 .. 8 : a = 9 - n
    OBVIOUS
  <2>3. SubSeq(s, a, 8) = [i \in 1 .. n |-> s[i + (8 - n)]]
    <3>1. \A i \in a .. 8 : s[i] \in S
      BY <2>1
    <3>2. PICK t : t = SubSeq(s, a, 8)
      OBVIOUS
    <3>3. t \in Seq(S)
      BY <3>1, <3>2, SubSeqProperties
    <3>4. Len(t) = IF a <= 8 THEN 8 - a + 1 ELSE 0
      BY <3>1, <3>2, SubSeqProperties
    <3>5. \A i \in 1 .. 8 - a + 1 : t[i] = s[a + i - 1]
      BY <3>1, <3>2, SubSeqProperties
    <3>6. 8 - a + 1 = n /\ a <= 8 /\ \A i \in 1 .. n : a + i - 1 = i + (8 - n)
      BY <2>2
    <3>7. t = [i \in 1 .. n |-> t[i]]
      <4>1. t \in [1 .. Len(t) -> S]
        BY <3>3
      <4> QED BY <3>4, <3>6, <4>1
    <3> QED BY <3>2, <3>5, <3>6, <3>7
  <2>4. SubSeq(s, a, 8) = [i \in 1 .. n |-> A!SilentByte(f, i - 1)]
    BY <1>5, <2>3
  <2> QED BY <2>2, <2>4, Zenon DEF A!SilenceWord, s
<1> QED BY <1>2, <1>6, <1>7

\* An alias is that of a format of this machine's byte order.
LEMMA AliasesAre ==
    ASSUME NEW f \in DOMAIN A!_snd_pcm_format_aliases
    PROVE  f \in A!AllFormats /\ A!snd_pcm_format_little_endian(f) = 1
<1>1. /\ A!_snd_pcm_formats["S16_LE"].le = 1 /\ A!_snd_pcm_formats["U16_LE"].le = 1
      /\ A!_snd_pcm_formats["S24_LE"].le = 1 /\ A!_snd_pcm_formats["U24_LE"].le = 1
      /\ A!_snd_pcm_formats["S32_LE"].le = 1 /\ A!_snd_pcm_formats["U32_LE"].le = 1
      /\ A!_snd_pcm_formats["FLOAT_LE"].le = 1 /\ A!_snd_pcm_formats["FLOAT64_LE"].le = 1
      /\ A!_snd_pcm_formats["IEC958_SUBFRAME_LE"].le = 1
  BY SMTT(60) DEF A!_snd_pcm_formats, A!Signed, A!Unsigned, A!Coded, A!Entry, A!NA
<1>2. f \in {"S16_LE", "U16_LE", "S24_LE", "U24_LE", "S32_LE", "U32_LE", "FLOAT_LE", "FLOAT64_LE",
             "IEC958_SUBFRAME_LE"}
  BY DEF A!_snd_pcm_format_aliases
<1>3. f \in A!AllFormats
  BY <1>2 DEF A!AllFormats, A!_snd_pcm_formats
<1> QED BY <1>1, <1>2, <1>3 DEF A!snd_pcm_format_little_endian

\* The first of the formats that answer to a name is one of them.
LEMMA FirstOfIn ==
    ASSUME NEW S, S # {}
    PROVE  A!FirstOf(S) \in S
<1>1. \E f \in S : \A g \in S \ {f} : ~A!Before(g, f)
  <2>1. PICK f \in S : TRUE
    OBVIOUS
  <2>2. CASE \A g \in S \ {f} : ~A!Before(g, f)
    BY <2>1, <2>2
  <2>3. ASSUME NEW g \in S \ {f}, A!Before(g, f) PROVE \A h \in S \ {g} : ~A!Before(h, g)
    BY <2>3 DEF A!Before
  <2> QED BY <2>1, <2>2, <2>3
<1> QED BY <1>1, Zenon DEF A!FirstOf

\* snd_pcm_format_value: every name leads to a format that goes by it.
LEMMA NameIsFound ==
    ASSUME NEW name \in A!Names, NEW f, f = A!snd_pcm_format_value(name)
    PROVE  /\ f \in A!AllFormats
           /\ \/ name = <<"name", f>>
              \/ name = A!_snd_pcm_format_descriptions[f]
              \/ /\ name = <<"name", A!_snd_pcm_format_aliases[f]>>
                 /\ A!snd_pcm_format_little_endian(f) = 1
<1> DEFINE named == {g \in A!AllFormats :
                        \/ name = <<"name", g>>
                        \/ /\ g \in DOMAIN A!_snd_pcm_format_aliases
                           /\ name = <<"name", A!_snd_pcm_format_aliases[g]>>}
           described == {g \in A!AllFormats : name = A!_snd_pcm_format_descriptions[g]}
<1>1. CASE named # {}
  <2>1. f = A!FirstOf(named)
    BY <1>1, Zenon DEF A!snd_pcm_format_value
  <2>2. f \in named
    <3> HIDE DEF named
    <3> QED BY <1>1, <2>1, FirstOfIn
  <2> QED BY <2>2, AliasesAre
<1>2. CASE named = {} /\ described # {}
  <2>1. f = A!FirstOf(described)
    <3>1. ~(named # {})
      BY <1>2
    <3> QED BY <1>2, <3>1, Zenon DEF A!snd_pcm_format_value
  <2>2. f \in described
    <3> HIDE DEF described
    <3> QED BY <1>2, <2>1, FirstOfIn
  <2> QED BY <2>2
<1>3. CASE named = {} /\ described = {}
  <2>1. \/ \E g \in A!AllFormats : name = <<"name", g>>
        \/ \E g \in DOMAIN A!_snd_pcm_format_aliases : name = <<"name", A!_snd_pcm_format_aliases[g]>>
        \/ \E g \in A!AllFormats : name = A!_snd_pcm_format_descriptions[g]
    BY Zenon DEF A!Names
  <2>2. CASE \E g \in A!AllFormats : name = <<"name", g>>
    BY <1>3, <2>2
  <2>3. CASE \E g \in DOMAIN A!_snd_pcm_format_aliases : name = <<"name", A!_snd_pcm_format_aliases[g]>>
    BY <1>3, <2>3, AliasesAre
  <2>4. CASE \E g \in A!AllFormats : name = A!_snd_pcm_format_descriptions[g]
    BY <1>3, <2>4
  <2> QED BY <2>1, <2>2, <2>3, <2>4
<1> QED BY <1>1, <1>2, <1>3

\* What the functions on formats have been asked and have answered.
FormatsInv ==
    /\ call.op = "word" =>
        call.format \in AreaFormats /\ call.ret = A!snd_pcm_format_silence_64(call.format)
    /\ call.op = "value" =>
        call.name \in A!Names /\ call.format = A!snd_pcm_format_value(call.name)

\* No function has been called at first.
LEMMA FormatsStart ==
    ASSUME A!Init PROVE FormatsInv
BY DEF A!Init, A!Idle, FormatsInv

\* The functions on formats answer for a format or a name that exists.
LEMMA FormatsStep ==
    ASSUME FormatsInv, [A!Next]_(A!vars)
    PROVE  FormatsInv'
<1>1. CASE A!Silences \/ A!Copies \/ A!MmapCalls \/ A!Refill
  <2>1. call'.op \in {"silence", "copy", "none"}
    <3>1. CASE A!Silences
      <4>1. ASSUME NEW layout, NEW f, NEW o, NEW n, A!snd_pcm_areas_silence(layout, o, n, f)
            PROVE  call'.op = "silence"
        <5>1. call' = [op |-> "silence", dst |-> layout, dst_offset |-> o, frames |-> n, format |-> f]
          BY <4>1, Zenon DEF A!snd_pcm_areas_silence, A!Returns
        <5> QED BY <5>1
      <4> QED BY <3>1, <4>1 DEF A!Silences
    <3>2. CASE A!Copies
      <4>1. ASSUME NEW dl, NEW o, NEW sl, NEW q, NEW n, NEW f, A!snd_pcm_areas_copy(dl, o, sl, q, n, f)
            PROVE  call'.op = "copy"
        <5>1. PICK r : call' = [op |-> "copy", dst |-> dl, dst_offset |-> o, src |-> sl,
                                src_offset |-> q, frames |-> n, format |-> f, ret |-> r]
          BY <4>1, Zenon DEF A!snd_pcm_areas_copy, A!Returns
        <5> QED BY <5>1
      <4> QED BY <3>2, <4>1, Zenon DEF A!Copies
    <3>3. CASE A!MmapCalls
      BY <3>3 DEF A!MmapCalls, A!snd_pcm_mmap_writei, A!snd_pcm_mmap_readi, A!Returns
    <3>4. CASE A!Refill
      BY <3>4 DEF A!Refill, A!Idle
    <3> QED BY <1>1, <3>1, <3>2, <3>3, <3>4
  <2> QED BY <2>1 DEF FormatsInv
<1>2. CASE A!FormatCalls
  BY <1>2 DEF A!FormatCalls, FormatsInv
<1>3. CASE UNCHANGED A!vars
  BY <1>3 DEF A!vars, FormatsInv
<1> QED BY <1>1, <1>2, <1>3 DEF A!Next

\* What the functions on formats promise.
LEMMA FormatsInvTrue ==
    ASSUME A!AreasConstants, FormatsInv
    PROVE  A!LinearFound /\ A!WordSilent /\ A!NameFound
<1>1. A!LinearFound
  <2> SUFFICES ASSUME call.op = "word", A!snd_pcm_format_linear(call.format),
                      A!SilentByte(call.format, 0) # 105, A!snd_pcm_format_width(call.format) > 0
               PROVE  call.format =
                        A!snd_pcm_build_linear_format(
                            A!snd_pcm_format_width(call.format),
                            A!snd_pcm_format_physical_width(call.format),
                            A!snd_pcm_format_unsigned(call.format),
                            IF A!snd_pcm_format_big_endian(call.format) # 0 THEN 1 ELSE 0)
    BY Zenon DEF A!LinearFound
  <2>1. PICK f : f = call.format
    OBVIOUS
  <2>2. f \in A!AllFormats
    BY <2>1 DEF FormatsInv, A!AreasConstants
  <2> QED BY <2>1, <2>2, LinearIsFound
<1>2. A!WordSilent
  <2> SUFFICES ASSUME call.op = "word",
                      A!snd_pcm_format_width(call.format) = A!snd_pcm_format_physical_width(call.format),
                      A!snd_pcm_format_width(call.format) % 8 = 0
               PROVE  LET bytes == A!snd_pcm_format_size(call.format, 1)
                      IN  /\ A!SilenceWord(call.format, bytes)
                                = [i \in 1 .. bytes |-> A!SilentByte(call.format, i - 1)]
                          /\ \A i \in 1 .. 8 - bytes : call.ret[i] = 0
    BY Zenon DEF A!WordSilent
  <2>1. call.format \in AreaFormats /\ call.ret = A!snd_pcm_format_silence_64(call.format)
    BY DEF FormatsInv
  <2>2. PICK f \in AreaFormats : f = call.format
    BY <2>1
  <2>3. PICK bytes : bytes = A!snd_pcm_format_size(f, 1)
    OBVIOUS
  <2>4. A!SilenceWord(f, bytes) = [i \in 1 .. bytes |-> A!SilentByte(f, i - 1)]
    BY <2>2, <2>3, WordIsSilent
  <2>5. \A i \in 1 .. 8 - bytes : A!snd_pcm_format_silence_64(f)[i] = 0
    BY <2>2, <2>3, WordIsSilent
  <2> QED BY <2>1, <2>2, <2>3, <2>4, <2>5, Zenon
<1>3. A!NameFound
  BY NameIsFound DEF FormatsInv, A!NameFound
<1> QED BY <1>1, <1>2, <1>3

\* snd_pcm_build_linear_format finds every linear format from its traits, the value of
\* snd_pcm_format_silence_64 has the bytes of the silent sample in the order of memory,
\* the first as the most significant one (the sample's number for a big-endian format,
\* that number with its bytes exchanged for a little-endian one), and
\* snd_pcm_format_value finds for every name a format that goes by it.
THEOREM HelpersFormatsTrue ==
    ASSUME A!AreasConstants
    PROVE  AllSpec => []FormatsTrue
<1> DEFINE Inv == part = "areas" => FormatsInv
<1>1. AllInit => Inv
  BY FormatsStart DEF AllInit
<1>2. Inv /\ [AllNext]_allVars => Inv'
  BY AreasSteps, FormatsStep
<1>3. Inv => FormatsTrue
  BY FormatsInvTrue DEF FormatsTrue
<1> QED BY <1>1, <1>2, <1>3, PTL DEF AllSpec
=============================================================================
