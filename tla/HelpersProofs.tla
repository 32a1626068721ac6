--------------------------- MODULE HelpersProofs ---------------------------
(***************************************************************************)
(* What Helpers promises of volumes and gains, for all ranges of a         *)
(* control, all ranges an application chooses and any number of channels;  *)
(* and of cards and channel maps, for any number of places for cards and   *)
(* of changes, any ids and names, any offer of the driver and any maps.    *)
(* AreasProofs has the rest: samples and formats.                          *)
(***************************************************************************)
EXTENDS Helpers, FiniteSetTheorems, SequenceTheorems, WellFoundedInduction, TLAPS

-----------------------------------------------------------------------------
(* Arithmetic of the two conversions. *)

\* What integer division leaves is less than the divisor.
LEMMA Quotient ==
    ASSUME NEW a \in Int, NEW b \in Int, b > 0
    PROVE  a \div b \in Int /\ b * (a \div b) <= a /\ a < b * (a \div b) + b
OBVIOUS

\* A factor may be taken out of both sides of an inequality, ...
LEMMA CancelFactor ==
    ASSUME NEW a \in Int, NEW b \in Int, NEW c \in Int, c > 0, a * c < b * c
    PROVE  a < b
OBVIOUS

\* ... and put on both sides of it.
LEMMA AddFactor ==
    ASSUME NEW a \in Int, NEW b \in Int, NEW c \in Int, c >= 0, a <= b
    PROVE  a * c <= b * c /\ a * c \in Int /\ b * c \in Int
OBVIOUS

\* A quotient that is known from both sides: the greatest q with b * q <= a.
LEMMA QuotientIs ==
    ASSUME NEW a \in Int, NEW b \in Int, b > 0, NEW q \in Int
    PROVE  /\ q * b <= a => q <= a \div b
           /\ a <= q * b => a \div b <= q
<1> DEFINE d == a \div b
<1>1. d \in Int /\ b * d <= a /\ a < b * d + b
  BY Quotient
<1>2. b * d = d * b /\ b * d + b = (d + 1) * b
  BY <1>1
<1> HIDE DEF d
<1>3. ASSUME q * b <= a PROVE q <= d
  <2>1. q * b < (d + 1) * b
    BY <1>1, <1>2, <1>3, AddFactor
  <2>2. q < d + 1
    BY <1>1, <2>1, CancelFactor
  <2> QED BY <2>2, <1>1
<1>4. ASSUME a <= q * b PROVE d <= q
  <2>1. CASE d <= q
    BY <2>1
  <2>2. CASE q < d
    <3>1. (q + 1) * b <= d * b /\ (q + 1) * b = q * b + b
      BY <2>2, <1>1, AddFactor
    <3>2. FALSE
      BY <3>1, <1>1, <1>2, <1>4
    <3> QED BY <3>2
  <2> QED BY <2>1, <2>2, <1>1
<1> QED BY <1>3, <1>4 DEF d

\* Division by the same number keeps order.
LEMMA QuotientMonotone ==
    ASSUME NEW a \in Int, NEW b \in Int, NEW c \in Int, c > 0, a <= b
    PROVE  a \div c <= b \div c
<1>1. a \div c \in Int /\ c * (a \div c) <= a
  BY Quotient
<1>2. (a \div c) * c <= b
  BY <1>1
<1> QED BY <1>1, <1>2, QuotientIs

-----------------------------------------------------------------------------
(* The two ranges. *)

\* Ranges that volumes may have: the control's, or one of an application.
ItemRanges == {r \in [min : Int, max : Int] : r.min <= r.max}

\* A range is the control's own.
Own(r) == r.min = RawMin /\ r.max = RawMax

\* The conversions where one of the ranges has a single value, ...
LEMMA FlatUser ==
    ASSUME NEW r \in ItemRanges, NEW v \in Int
    PROVE  /\ Own(r) => convert_from_user(r, v) = v /\ convert_to_user(r, v) = v
           /\ ~Own(r) /\ r.min = r.max => convert_from_user(r, v) = RawMin
           /\ ~Own(r) /\ RawMin = RawMax => convert_to_user(r, v) = r.min
BY DEF Own, convert_from_user, convert_to_user

\* ... and convert_from_user and convert_to_user as multiplication and division
\* elsewhere, also for the control's own range, for which the code returns the
\* value as it is.
LEMMA FromUserIs ==
    ASSUME NEW r \in ItemRanges, NEW v \in Int, r.min < r.max
    PROVE  convert_from_user(r, v) =
             ((v - r.min) * (RawMax - RawMin)) \div (r.max - r.min) + RawMin
<1>0. r.min \in Int /\ r.max \in Int /\ RawMin \in Int /\ RawMax \in Int
  BY VolumeConstants DEF ItemRanges
<1>1. CASE r.min = RawMin /\ r.max = RawMax
  <2> DEFINE D == RawMax - RawMin
  <2>1. D \in Int /\ D > 0 /\ v - RawMin \in Int
    BY <1>0, <1>1
  <2> HIDE DEF D
  <2>2. ((v - RawMin) * D) \div D = v - RawMin
    BY <2>1, QuotientIs, Quotient
  <2>3. ((v - r.min) * (RawMax - RawMin)) \div (r.max - r.min) = v - RawMin
    BY <2>2, <1>1 DEF D
  <2> QED BY <2>3, <1>1, <1>0 DEF convert_from_user
<1>2. CASE ~(r.min = RawMin /\ r.max = RawMax)
  BY <1>0, <1>2 DEF convert_from_user
<1> QED BY <1>1, <1>2

\* The same for the other direction.
LEMMA ToUserIs ==
    ASSUME NEW r \in ItemRanges, NEW v \in Int, RawMin < RawMax
    PROVE  convert_to_user(r, v) =
             ((v - RawMin) * (r.max - r.min)) \div (RawMax - RawMin) + r.min
<1>0. r.min \in Int /\ r.max \in Int /\ RawMin \in Int /\ RawMax \in Int
  BY VolumeConstants DEF ItemRanges
<1>1. CASE r.min = RawMin /\ r.max = RawMax
  <2> DEFINE D == RawMax - RawMin
  <2>1. D \in Int /\ D > 0 /\ v - RawMin \in Int
    BY <1>0, <1>1
  <2> HIDE DEF D
  <2>2. ((v - RawMin) * D) \div D = v - RawMin
    BY <2>1, QuotientIs, Quotient
  <2>3. ((v - RawMin) * (r.max - r.min)) \div (RawMax - RawMin) = v - RawMin
    BY <2>2, <1>1 DEF D
  <2> QED BY <2>3, <1>1, <1>0 DEF convert_to_user
<1>2. CASE ~(r.min = RawMin /\ r.max = RawMax)
  BY <1>0, <1>2 DEF convert_to_user
<1> QED BY <1>1, <1>2

\* convert_from_user keeps order.
LEMMA FromUserMonotone ==
    ASSUME NEW r \in ItemRanges, NEW v \in Int, NEW w \in Int, v <= w
    PROVE  /\ convert_from_user(r, v) \in Int
           /\ convert_from_user(r, v) <= convert_from_user(r, w)
<1> DEFINE D == RawMax - RawMin
           E == r.max - r.min
           a == v - r.min
           b == w - r.min
<1>a. CASE Own(r)
  BY <1>a, FlatUser
<1>b. CASE ~Own(r) /\ r.min = r.max
  BY <1>b, FlatUser, VolumeConstants
<1>c. CASE r.min < r.max
  <2>1. D \in Int /\ D >= 0 /\ E \in Int /\ E > 0 /\ a \in Int /\ b \in Int /\ a <= b /\ RawMin \in Int
    BY <1>c, VolumeConstants DEF ItemRanges
  <2>2. /\ convert_from_user(r, v) = (a * D) \div E + RawMin
        /\ convert_from_user(r, w) = (b * D) \div E + RawMin
    BY <1>c, FromUserIs
  <2> HIDE DEF D, E, a, b
  <2>3. a * D \in Int /\ b * D \in Int /\ a * D <= b * D
    BY <2>1, AddFactor
  <2>4. (a * D) \div E \in Int /\ (b * D) \div E \in Int /\ (a * D) \div E <= (b * D) \div E
    BY <2>1, <2>3, QuotientMonotone, Quotient
  <2> QED BY <2>1, <2>2, <2>4
<1> QED BY <1>a, <1>b, <1>c DEF ItemRanges

\* The control's value for a volume in the range is one the control has.
LEMMA FromUserInRange ==
    ASSUME NEW r \in ItemRanges, NEW v \in r.min .. r.max
    PROVE  convert_from_user(r, v) \in Raws
<1>a. CASE Own(r)
  BY <1>a, FlatUser DEF Own, Raws, ItemRanges
<1>b. CASE ~Own(r) /\ r.min = r.max
  BY <1>b, FlatUser, VolumeConstants DEF Raws
<1>c. CASE r.min < r.max
  <2> DEFINE D == RawMax - RawMin
             E == r.max - r.min
             a == v - r.min
  <2>1. D \in Int /\ D >= 0 /\ E \in Int /\ E > 0 /\ a \in 0 .. E /\ RawMin \in Int /\ RawMax \in Int /\ v \in Int
    BY <1>c, VolumeConstants DEF ItemRanges
  <2>2. convert_from_user(r, v) = (a * D) \div E + RawMin
    BY <1>c, FromUserIs, <2>1
  <2>d. RawMax = RawMin + D
    BY <2>1, VolumeConstants
  <2> HIDE DEF D, E, a
  <2>3. 0 * E <= a * D /\ a * D <= D * E /\ a * D \in Int
    <3>1. 0 * D <= a * D /\ a * D <= E * D /\ a * D \in Int
      BY <2>1, AddFactor
    <3> QED BY <3>1, <2>1
  <2>4. (a * D) \div E \in 0 .. D
    BY <2>1, <2>3, QuotientIs, Quotient
  <2> QED BY <2>1, <2>2, <2>4, <2>d, VolumeConstants DEF Raws
<1> QED BY <1>a, <1>b, <1>c DEF ItemRanges

\* The volume for a value of the control is one in the range, ...
LEMMA ToUserInRange ==
    ASSUME NEW r \in ItemRanges, NEW v \in Raws
    PROVE  convert_to_user(r, v) \in r.min .. r.max
<1>a. CASE Own(r)
  BY <1>a, FlatUser DEF Own, Raws, ItemRanges
<1>b. CASE ~Own(r) /\ RawMin = RawMax
  BY <1>b, FlatUser, VolumeConstants DEF ItemRanges, Raws
<1>c. CASE RawMin < RawMax
  <2> DEFINE D == RawMax - RawMin
             E == r.max - r.min
             a == v - RawMin
  <2>1. D \in Int /\ D > 0 /\ E \in Int /\ E >= 0 /\ a \in 0 .. D /\ r.min \in Int /\ r.max \in Int /\ v \in Int
    BY <1>c, VolumeConstants DEF ItemRanges, Raws
  <2>2. convert_to_user(r, v) = (a * E) \div D + r.min
    BY <1>c, ToUserIs, <2>1
  <2>d. r.max = r.min + E
    BY <2>1
  <2> HIDE DEF D, E, a
  <2>3. 0 * D <= a * E /\ a * E <= E * D /\ a * E \in Int
    <3>1. 0 * E <= a * E /\ a * E <= D * E /\ a * E \in Int
      BY <2>1, AddFactor
    <3> QED BY <3>1, <2>1
  <2>4. (a * E) \div D \in 0 .. E
    BY <2>1, <2>3, QuotientIs, Quotient
  <2> QED BY <2>1, <2>2, <2>4, <2>d
<1> QED BY <1>a, <1>b, <1>c, VolumeConstants

\* Any volume a gain converts to is a number.
LEMMA ToUserInt ==
    ASSUME NEW r \in ItemRanges, NEW v \in Int
    PROVE  convert_to_user(r, v) \in Int
<1> DEFINE E == r.max - r.min
           D == RawMax - RawMin
           y == v - RawMin
<1>a. CASE Own(r) \/ RawMin = RawMax
  BY <1>a, FlatUser DEF ItemRanges
<1>c. CASE RawMin < RawMax
  <2>1. E \in Int /\ D \in Int /\ D > 0 /\ y \in Int /\ r.min \in Int
    BY <1>c, VolumeConstants DEF ItemRanges
  <2>2. convert_to_user(r, v) = (y * E) \div D + r.min
    BY <1>c, ToUserIs
  <2> HIDE DEF E, D, y
  <2>3. y * E \in Int
    BY <2>1
  <2>4. (y * E) \div D \in Int
    BY <2>1, <2>3, Quotient
  <2> QED BY <2>1, <2>2, <2>4
<1> QED BY <1>a, <1>c, VolumeConstants

\* A volume stands for a value of the control: the volume would be set to that
\* value or a lower one, the next volume, if the range has one, to none that is
\* lower.
StandsFor(r, u, v) ==
    convert_from_user(r, u) <= v /\ (u < r.max => v <= convert_from_user(r, u + 1))

\* ... and converted back it is not above that value, while the next volume is not
\* below it: where both ranges have more than one value, ...
LEMMA SteepStandsFor ==
    ASSUME NEW r \in ItemRanges, NEW v \in Raws, RawMin < RawMax, r.min < r.max
    PROVE  StandsFor(r, convert_to_user(r, v), v)
<1> DEFINE D == RawMax - RawMin
           E == r.max - r.min
           x == v - RawMin
           t == (x * E) \div D
           u == convert_to_user(r, v)
<1>1. D \in Int /\ D > 0 /\ E \in Int /\ E > 0 /\ x \in Int /\ r.min \in Int /\ v \in Int /\ RawMin \in Int
  BY VolumeConstants DEF ItemRanges, Raws
<1>2. u = t + r.min /\ v = x + RawMin
  BY ToUserIs, <1>1, VolumeConstants
<1>3. t \in Int /\ D * t <= x * E /\ x * E < D * t + D /\ x * E \in Int
  <2>1. x * E \in Int
    BY <1>1
  <2> QED BY <2>1, <1>1, Quotient
<1>4. u - r.min = t /\ (u + 1) - r.min = t + 1 /\ u \in Int
  BY <1>1, <1>2, <1>3
<1>5. /\ convert_from_user(r, u) = (t * D) \div E + RawMin
      /\ convert_from_user(r, u + 1) = ((t + 1) * D) \div E + RawMin
  BY <1>4, FromUserIs
<1> HIDE DEF D, E, x, t, u
<1>6. t * D <= x * E /\ x * E <= (t + 1) * D /\ t * D \in Int /\ (t + 1) * D \in Int
  BY <1>1, <1>3
<1>7. (t * D) \div E <= x /\ x <= ((t + 1) * D) \div E
  BY <1>1, <1>6, QuotientIs
<1>8. (t * D) \div E \in Int /\ ((t + 1) * D) \div E \in Int
  BY <1>1, <1>6, Quotient
<1>9. StandsFor(r, u, v)
  BY <1>1, <1>2, <1>5, <1>7, <1>8 DEF StandsFor
<1> QED BY <1>9 DEF u

\* ... and in any case.
LEMMA ToUserStandsFor ==
    ASSUME NEW r \in ItemRanges, NEW v \in Raws
    PROVE  StandsFor(r, convert_to_user(r, v), v)
<1>0. v \in Int /\ RawMin <= v /\ v <= RawMax /\ RawMin \in Int /\ RawMax \in Int
  BY VolumeConstants DEF Raws
<1>a. CASE Own(r)
  <2>1. convert_to_user(r, v) = v /\ convert_from_user(r, v) = v
    BY <1>a, <1>0, FlatUser
  <2>2. convert_from_user(r, v + 1) = v + 1
    BY <1>a, <1>0, FlatUser
  <2> QED BY <1>0, <2>1, <2>2 DEF StandsFor
<1>b. CASE ~Own(r) /\ r.min = r.max
  <2> DEFINE u == convert_to_user(r, v)
  <2>1. u \in Int /\ u \in r.min .. r.max
    BY <1>0, ToUserInt, ToUserInRange
  <2>2. convert_from_user(r, u) = RawMin /\ ~(u < r.max)
    BY <1>b, <2>1, FlatUser DEF ItemRanges
  <2> HIDE DEF u
  <2>3. StandsFor(r, u, v)
    BY <1>0, <2>2 DEF StandsFor
  <2> QED BY <2>3 DEF u
<1>c. CASE ~Own(r) /\ RawMin = RawMax /\ r.min < r.max
  <2> DEFINE u == convert_to_user(r, v)
             E == r.max - r.min
             x == (u - r.min) * (RawMax - RawMin)
             y == (u + 1 - r.min) * (RawMax - RawMin)
  <2>1. u = r.min /\ v = RawMin /\ r.min \in Int /\ r.max \in Int
    BY <1>c, <1>0, FlatUser DEF ItemRanges
  <2>2. E \in Int /\ E > 0
    BY <2>1, <1>c
  <2>3. /\ convert_from_user(r, u) = x \div E + RawMin
        /\ convert_from_user(r, u + 1) = y \div E + RawMin
    BY <1>c, <2>1, FromUserIs
  <2>4. x = 0 /\ y = 0
    BY <1>c, <1>0, <2>1
  <2> HIDE DEF u, E, x, y
  <2>5. 0 \div E = 0
    BY <2>2, Quotient, QuotientIs
  <2>6. StandsFor(r, u, v)
    BY <1>0, <2>1, <2>3, <2>4, <2>5 DEF StandsFor
  <2> QED BY <2>6 DEF u
<1>d. CASE RawMin < RawMax /\ r.min < r.max
  BY <1>d, SteepStandsFor
<1> QED BY <1>0, <1>a, <1>b, <1>c, <1>d DEF ItemRanges

\* A volume stands for the value it is set to.
LEMMA FromUserStandsFor ==
    ASSUME NEW r \in ItemRanges, NEW u \in Int
    PROVE  StandsFor(r, u, convert_from_user(r, u))
BY FromUserMonotone DEF StandsFor

-----------------------------------------------------------------------------
(* The inductive invariant. *)

\* The values there are: the control's, the item's, and what was read.
ValuesIn ==
    /\ control \in [Channels -> Raws]
    /\ raw \in [Channels -> Raws]
    /\ read \in [Channels -> Raws]
    /\ range \in ItemRanges
    /\ usr \in [Channels -> Int]
    /\ changed \in BOOLEAN

\* No volume is out of the range the application has chosen, and each stands for
\* the value of the item.
UserIn ==
    \A ch \in Channels : /\ usr[ch] \in range.min .. range.max
                          /\ StandsFor(range, usr[ch], raw[ch])

\* The set operation in progress: what is left to do, and what was asked for.
JobOk ==
    /\ pc \in {"idle", "update", "read", "write", "undefined"}
    /\ job.todo \subseteq Channels /\ "todo" \in DOMAIN job
    /\ pc \in {"read", "write"} => job.todo # {}
    /\ pc \in {"update", "read", "write"} =>
         \/ job.op = "set_volume" /\ job.arg \in Int
         \/ /\ job.op = "set_dB" /\ job.arg \in Gains /\ job.xdir \in Xdirs
            /\ Converts(db_info)

\* The dB table, once it is known.
DbOk == tlv \in Tables /\ (db_info \in {NONE, INVALID} \/ Converts(db_info))

\* With no event waiting, an item has the value of the device on every channel but
\* those whose last read or write failed and the one that is about to be written.
InTune ==
    ~changed => \A ch \in Channels \ stale :
                    \/ pc \in {"read", "write"} /\ ch = NextChannel
                    \/ raw[ch] = control[ch]

VolumeInv == ValuesIn /\ UserIn /\ JobOk /\ DbOk /\ InTune

\* Every set of channels has a first.
LEMMA First ==
    ASSUME NEW S, S \subseteq Nat, S # {}
    PROVE  \E x \in S : \A y \in S : x <= y
<1>1. PICK x \in S : \A y \in S : ~(<<y, x>> \in OpToRel(<, Nat))
  BY WFMin, NatLessThanWellFounded, Zenon
<1>2. \A y \in S : ~(y < x)
  BY <1>1 DEF OpToRel
<1>3. \A y \in S : y \in Nat /\ x \in Nat
  OBVIOUS
<1> QED BY <1>2, <1>3

\* The next channel is one that is left to do.
LEMMA NextIs ==
    ASSUME JobOk, job.todo # {}
    PROVE  NextChannel \in job.todo /\ NextChannel \in Channels
<1>1. job.todo \subseteq Nat /\ job.todo \subseteq Channels
  BY VolumeConstants DEF JobOk
<1>3. \E x \in job.todo : \A y \in job.todo : x <= y
  BY <1>1, First
<1>4. NextChannel \in job.todo
  BY <1>3 DEF NextChannel
<1> QED BY <1>1, <1>4

\* The control's own range is a range.
LEMMA PlainRange == [min |-> RawMin, max |-> RawMax] \in ItemRanges
BY VolumeConstants DEF ItemRanges

\* What is asked for is a number, or refused.
LEMMA AskedIs ==
    ASSUME ValuesIn, JobOk, pc = "update", NEW a \in Asked
    PROVE  a.ret \in Int /\ (a.ret >= 0 => a.val \in Int)
<1>1. CASE job.op = "set_volume"
  BY <1>1 DEF Asked, JobOk, Got
<1>2. CASE job.op # "set_volume"
  <2>0. job.arg \in Gains /\ job.xdir \in Xdirs /\ Converts(db_info)
    BY <1>2 DEF JobOk
  <2>1. PICK r \in snd_tlv_convert_from_dB(db_info, RawMin, RawMax, job.arg, job.xdir) :
             a = IF r.ret < 0 THEN r ELSE Got(convert_to_user(range, r.val))
    BY <1>2, Zenon DEF Asked
  <2>2. r.ret \in Int /\ (r.ret >= 0 => r.val \in Int)
    BY <2>0, Zenon DEF Converts
  <2>3. CASE r.ret < 0
    BY <2>1, <2>2, <2>3
  <2>4. CASE ~(r.ret < 0)
    <3>1. convert_to_user(range, r.val) \in Int
      BY <2>2, <2>4, ToUserInt DEF ValuesIn
    <3>2. a = Got(convert_to_user(range, r.val))
      BY <2>1, <2>4
    <3> QED BY <3>1, <3>2 DEF Got
  <2> QED BY <2>3, <2>4
<1> QED BY <1>1, <1>2

\* The table the item learns converts gains to numbers.
LEMMA DbLearnt ==
    ASSUME DbOk, init_db_info, tlv' = tlv
    PROVE  DbOk' /\ (Known => Converts(db_info'))
<1>1. CASE db_info # NONE
  BY <1>1 DEF DbOk, init_db_info, info, Converts, Known
<1>2. CASE db_info = NONE
  <2>1. Parsed.ret > 0 => Converts(FoundDb(tlv.words, Parsed))
    BY DbTables DEF DbOk, Parsed
  <2>2. \/ Parsed.ret > 0 /\ db_info' = FoundDb(tlv.words, Parsed)
        \/ db_info' = INVALID
    BY <1>2 DEF init_db_info
  <2>3. db_info' = INVALID \/ Converts(db_info')
    BY <2>1, <2>2
  <2>4. db_info' = INVALID \/ Converts(db_info)'
    BY <2>3 DEF Converts
  <2> QED BY <2>3, <2>4 DEF DbOk, Known
<1> QED BY <1>1, <1>2

\* A state whose values are kept: nothing but the call and the dB table differs.
LEMMA ValuesKept ==
    ASSUME VolumeInv, UNCHANGED <<kernel, item, pc, job, read>>, DbOk',
           pc = "idle" \/ UNCHANGED db_info
    PROVE  VolumeInv'
<1>1. ValuesIn' /\ UserIn'
  BY DEF VolumeInv, ValuesIn, UserIn, kernel, item, StandsFor, convert_from_user
<1>2. JobOk'
  BY DEF VolumeInv, JobOk, Converts
<1>3. InTune'
  BY DEF VolumeInv, InTune, kernel, item, NextChannel
<1> QED BY <1>1, <1>2, <1>3 DEF VolumeInv

\* A new item has the control's values in the control's range.
LEMMA VolumeInit ==
    ASSUME Init
    PROVE  VolumeInv
<1>1. ValuesIn
  <2>1. RawMin \in Raws
    BY VolumeConstants DEF Raws
  <2>2. Raws \subseteq Int
    BY VolumeConstants DEF Raws
  <2> QED BY <2>1, <2>2, PlainRange DEF Init, ValuesIn
<1>2. UserIn
  <2> SUFFICES ASSUME NEW ch \in Channels
               PROVE  /\ usr[ch] \in range.min .. range.max
                      /\ StandsFor(range, usr[ch], raw[ch])
    BY DEF UserIn
  <2>1. usr[ch] = raw[ch] /\ raw[ch] \in RawMin .. RawMax /\ range.min = RawMin /\ range.max = RawMax
    BY DEF Init, Raws
  <2> QED BY <2>1, VolumeConstants DEF StandsFor, convert_from_user
<1>3. JobOk
  BY DEF Init, JobOk, NoJob
<1>4. DbOk /\ InTune
  BY DEF Init, DbOk, InTune
<1> QED BY <1>1, <1>2, <1>3, <1>4 DEF VolumeInv

\* A channel is done, and the loop goes on.
LEMMA Shorter ==
    ASSUME JobOk, NEW n, job' = [job EXCEPT !.todo = @ \ {n}],
           pc \in {"update", "read", "write"}, pc' = "update",
           db_info' = db_info
    PROVE  JobOk'
<1>1. /\ job'.todo \subseteq Channels /\ job'.op = job.op /\ job'.arg = job.arg
      /\ job'.xdir = job.xdir
  BY DEF JobOk
<1>2. DOMAIN job' = DOMAIN job
  OBVIOUS
<1> QED BY <1>1, <1>2 DEF JobOk, Converts

\* Another process changes the value of a channel.
LEMMA VariesKeeps ==
    ASSUME VolumeInv, NEW ch \in Channels, NEW v \in Raws, Varies(ch, v)
    PROVE  VolumeInv'
<1>1. ValuesIn' /\ UserIn'
  BY DEF Varies, VolumeInv, ValuesIn, UserIn, item, StandsFor, convert_from_user
<1>2. JobOk' /\ DbOk'
  BY DEF Varies, VolumeInv, JobOk, DbOk, Converts, info
<1>3. InTune'
  BY DEF Varies, InTune
<1> QED BY <1>1, <1>2, <1>3 DEF VolumeInv

\* update_selem_vol_item: the item takes what the device has.
LEMMA UpdateKeeps ==
    ASSUME VolumeInv, Update
    PROVE  VolumeInv'
<1>0. ValuesIn /\ range \in ItemRanges /\ control \in [Channels -> Raws]
  BY DEF VolumeInv, ValuesIn
<1>1. \A ch \in Channels :
         /\ convert_to_user(range, control[ch]) \in range.min .. range.max
         /\ convert_to_user(range, control[ch]) \in Int
         /\ StandsFor(range, convert_to_user(range, control[ch]), control[ch])
  <2>1. \A ch \in Channels : control[ch] \in Raws
    BY <1>0
  <2>2. \A x \in range.min .. range.max : x \in Int
    OBVIOUS
  <2> QED BY <2>1, <2>2, <1>0, ToUserInRange, ToUserStandsFor
<1>2. /\ control' = control /\ raw' = control /\ range' = range /\ read' = read
      /\ usr' = [ch \in Channels |-> convert_to_user(range, control[ch])]
      /\ changed' = FALSE /\ pc' = pc /\ job' = job /\ db_info' = db_info /\ tlv' = tlv
  BY DEF Update, info
<1>3. ValuesIn'
  BY <1>0, <1>1, <1>2 DEF ValuesIn
<1>4. UserIn'
  <2> SUFFICES ASSUME NEW ch \in Channels
               PROVE  /\ usr'[ch] \in range.min .. range.max
                      /\ StandsFor(range, usr'[ch], control[ch])
    BY <1>2 DEF UserIn, StandsFor, convert_from_user
  <2>1. usr'[ch] = convert_to_user(range, control[ch])
    BY <1>2
  <2> QED BY <2>1, <1>1
<1>5. JobOk' /\ DbOk'
  BY <1>2 DEF VolumeInv, JobOk, DbOk, Converts
<1>6. InTune'
  BY <1>2 DEF InTune
<1> QED BY <1>3, <1>4, <1>5, <1>6 DEF VolumeInv

\* update_selem_item where the value cannot be read: no channel is known to be the
\* device's.
LEMMA UpdateMissedKeeps ==
    ASSUME VolumeInv, UpdateMissed
    PROVE  VolumeInv'
<1>1. /\ UNCHANGED <<control, tlv, range, raw, usr, db_info, pc, job, read>>
      /\ changed' = FALSE /\ stale' = Channels
  BY DEF UpdateMissed, info
<1>2. ValuesIn' /\ UserIn'
  BY <1>1 DEF VolumeInv, ValuesIn, UserIn, StandsFor, convert_from_user
<1>3. JobOk' /\ DbOk'
  BY <1>1 DEF VolumeInv, JobOk, DbOk, Converts
<1>4. InTune'
  BY <1>1 DEF InTune
<1> QED BY <1>2, <1>3, <1>4 DEF VolumeInv

\* set_volume_range: every volume is converted to the new range.
LEMMA SetRangeKeeps ==
    ASSUME VolumeInv, NEW r \in UserRanges, set_volume_range(r)
    PROVE  VolumeInv'
<1>0. ValuesIn /\ r \in ItemRanges /\ raw \in [Channels -> Raws]
  BY VolumeConstants DEF VolumeInv, ValuesIn, ItemRanges
<1>1. \A ch \in Channels :
         /\ convert_to_user(r, raw[ch]) \in r.min .. r.max
         /\ convert_to_user(r, raw[ch]) \in Int
         /\ StandsFor(r, convert_to_user(r, raw[ch]), raw[ch])
  <2>1. \A ch \in Channels : raw[ch] \in Raws
    BY <1>0
  <2>2. \A x \in r.min .. r.max : x \in Int
    OBVIOUS
  <2> QED BY <2>1, <2>2, <1>0, ToUserInRange, ToUserStandsFor
<1>2. /\ control' = control /\ raw' = raw /\ range' = r /\ read' = read /\ stale' = stale
      /\ usr' = [ch \in Channels |-> convert_to_user(r, raw[ch])]
      /\ changed' = changed /\ pc' = pc /\ job' = job /\ db_info' = db_info /\ tlv' = tlv
  BY DEF set_volume_range, kernel, info
<1>3. ValuesIn'
  BY <1>0, <1>1, <1>2 DEF ValuesIn
<1>4. UserIn'
  <2> SUFFICES ASSUME NEW ch \in Channels
               PROVE  /\ usr'[ch] \in r.min .. r.max
                      /\ StandsFor(r, usr'[ch], raw[ch])
    BY <1>2 DEF UserIn, StandsFor, convert_from_user
  <2>1. usr'[ch] = convert_to_user(r, raw[ch])
    BY <1>2
  <2> QED BY <2>1, <1>1
<1>5. JobOk' /\ DbOk'
  BY <1>2 DEF VolumeInv, JobOk, DbOk, Converts
<1>6. InTune'
  BY <1>2 DEF VolumeInv, InTune, NextChannel
<1> QED BY <1>3, <1>4, <1>5, <1>6 DEF VolumeInv

\* A set operation begins.
LEMMA SetsKeeps ==
    ASSUME VolumeInv, pc = "idle", DbOk', NEW op, NEW chs, chs \subseteq Channels,
           NEW arg, NEW xdir, Sets(op, chs, arg, xdir),
           \/ op = "set_volume" /\ arg \in Int
           \/ op = "set_dB" /\ arg \in Gains /\ xdir \in Xdirs /\ Converts(db_info')
    PROVE  VolumeInv'
<1>1. ValuesIn' /\ UserIn'
  BY DEF Sets, VolumeInv, ValuesIn, UserIn, kernel, item, StandsFor, convert_from_user
<1>2. JobOk'
  <2>1. /\ pc' = "update"
        /\ job' = [op |-> op, todo |-> chs, channels |-> chs, arg |-> arg, xdir |-> xdir]
    BY DEF Sets
  <2>2. job'.todo = chs /\ job'.op = op /\ job'.arg = arg /\ job'.xdir = xdir
    BY <2>1
  <2>3. Converts(db_info') => Converts(db_info)'
    BY DEF Converts
  <2> QED BY <2>1, <2>2, <2>3 DEF JobOk
<1>3. InTune'
  BY DEF Sets, VolumeInv, InTune, kernel, item
<1> QED BY <1>1, <1>2, <1>3 DEF VolumeInv

\* _snd_selem_update_volume up to its first ioctl: the item has the new volume and
\* the value it stands for, which is the device's or about to be written.
LEMMA UpdateVolumeKeeps ==
    ASSUME VolumeInv, UpdateVolume
    PROVE  VolumeInv'
<1> DEFINE n == NextChannel
<1>0. /\ ValuesIn /\ UserIn /\ JobOk /\ DbOk /\ InTune /\ range \in ItemRanges
      /\ n \in Channels /\ n \in job.todo /\ pc = "update"
  BY NextIs DEF VolumeInv, UpdateVolume, ValuesIn
<1>k. /\ control' = control /\ tlv' = tlv /\ changed' = changed /\ db_info' = db_info
      /\ read' = read
  BY DEF UpdateVolume, kernel, info
<1>1. PICK a \in Asked :
        IF a.ret < 0 THEN EndsWith(a.ret) /\ UNCHANGED item
        ELSE /\ UNCHANGED call
             /\ IF NothingToDo(n, a.val) THEN UNCHANGED item ELSE Stored(n, a.val)
             /\ IF NothingToDo(n, a.val) \/ convert_from_user(range, a.val) = raw[n]
                THEN pc' = pc /\ job' = [job EXCEPT !.todo = @ \ {n}]
                ELSE pc' = "read" /\ UNCHANGED job
  BY DEF UpdateVolume
<1>a. a.ret \in Int /\ (a.ret >= 0 => a.val \in Int)
  BY <1>0, AskedIs
<1> HIDE DEF n
<1>d. DbOk'
  BY <1>0, <1>k DEF DbOk, Converts
<1>2. CASE a.ret < 0
  <2>1. UNCHANGED item /\ pc' = "idle" /\ job' = NoJob
    BY <1>1, <1>2 DEF EndsWith
  <2>2. ValuesIn' /\ UserIn'
    BY <1>0, <1>k, <2>1 DEF ValuesIn, UserIn, item, StandsFor, convert_from_user
  <2>3. JobOk'
    BY <2>1 DEF JobOk, NoJob
  <2>4. InTune'
    BY <1>0, <1>k, <2>1 DEF InTune, item
  <2> QED BY <1>d, <2>2, <2>3, <2>4 DEF VolumeInv
<1>3. CASE ~(a.ret < 0) /\ NothingToDo(n, a.val)
  <2>1. UNCHANGED item /\ pc' = "update" /\ job' = [job EXCEPT !.todo = @ \ {n}]
    BY <1>0, <1>1, <1>3
  <2>2. ValuesIn' /\ UserIn'
    BY <1>0, <1>k, <2>1 DEF ValuesIn, UserIn, item, StandsFor, convert_from_user
  <2>3. InTune'
    BY <1>0, <1>k, <2>1 DEF InTune, item
  <2>4. JobOk'
    BY <1>0, <1>k, <2>1, Shorter
  <2> QED BY <1>d, <2>2, <2>3, <2>4 DEF VolumeInv
<1>4. CASE ~(a.ret < 0) /\ ~NothingToDo(n, a.val)
  <2> DEFINE v == a.val
             w == convert_from_user(range, v)
  <2>1. v \in Int /\ v \in range.min .. range.max
    BY <1>a, <1>0, <1>4 DEF NothingToDo, ItemRanges
  <2>2. w \in Raws /\ StandsFor(range, v, w)
    BY <2>1, <1>0, FromUserInRange, FromUserStandsFor
  <2>3. /\ usr' = [usr EXCEPT ![n] = v] /\ raw' = [raw EXCEPT ![n] = w]
        /\ range' = range /\ stale' = stale
    BY <1>1, <1>4 DEF Stored
  <2>4. IF w = raw[n] THEN pc' = "update" /\ job' = [job EXCEPT !.todo = @ \ {n}]
        ELSE pc' = "read" /\ job' = job
    BY <1>0, <1>1, <1>4
  <2> HIDE DEF v, w
  <2>5. ValuesIn'
    BY <1>0, <1>k, <2>1, <2>2, <2>3 DEF ValuesIn
  <2>6. UserIn'
    <3> SUFFICES ASSUME NEW ch \in Channels
                 PROVE  /\ usr'[ch] \in range.min .. range.max
                        /\ StandsFor(range, usr'[ch], raw'[ch])
      BY <2>3 DEF UserIn, StandsFor, convert_from_user
    <3>1. CASE ch = n
      BY <3>1, <1>0, <2>1, <2>2, <2>3 DEF ValuesIn
    <3>2. CASE ch # n
      BY <3>2, <1>0, <2>3 DEF ValuesIn, UserIn
    <3> QED BY <3>1, <3>2
  <2>7. CASE w = raw[n]
    <3>1. pc' = "update" /\ job' = [job EXCEPT !.todo = @ \ {n}] /\ raw' = raw
      BY <2>3, <2>4, <2>7, <1>0 DEF ValuesIn
    <3>2. JobOk'
      BY <1>0, <1>k, <3>1, Shorter
    <3>3. InTune'
      BY <1>0, <1>k, <2>3, <3>1 DEF InTune
    <3> QED BY <1>d, <2>5, <2>6, <3>2, <3>3 DEF VolumeInv
  <2>8. CASE w # raw[n]
    <3>1. pc' = "read" /\ job' = job
      BY <2>4, <2>8
    <3>2. JobOk'
      BY <1>0, <1>k, <3>1 DEF JobOk, Converts
    <3>3. NextChannel' = n
      BY <3>1 DEF NextChannel, n
    <3>4. InTune'
      BY <1>0, <1>k, <2>3, <3>1, <3>3 DEF InTune, ValuesIn
    <3> QED BY <1>d, <2>5, <2>6, <3>2, <3>4 DEF VolumeInv
  <2> QED BY <2>7, <2>8
<1> QED BY <1>2, <1>3, <1>4

\* The read of all channels.
LEMMA ReadKeeps ==
    ASSUME VolumeInv, ReadValues
    PROVE  VolumeInv'
<1>1. ValuesIn' /\ UserIn'
  BY DEF ReadValues, VolumeInv, ValuesIn, UserIn, kernel, item, StandsFor, convert_from_user
<1>2. JobOk' /\ DbOk'
  BY DEF ReadValues, VolumeInv, JobOk, DbOk, Converts, kernel, info
<1>3. InTune'
  BY DEF ReadValues, VolumeInv, InTune, kernel, item, NextChannel
<1> QED BY <1>1, <1>2, <1>3 DEF VolumeInv

\* The write of all channels: if another process has changed one since the read,
\* its value is overwritten, and the event of that write tells the item.
LEMMA WriteKeeps ==
    ASSUME VolumeInv, WriteValues
    PROVE  VolumeInv'
<1> DEFINE n == NextChannel
           written == [read EXCEPT ![n] = raw[n]]
<1>0. /\ ValuesIn /\ UserIn /\ JobOk /\ DbOk /\ InTune
      /\ n \in Channels /\ n \in job.todo
  BY NextIs DEF VolumeInv, WriteValues, JobOk
<1>1. /\ pc = "write" /\ control' = written /\ changed' = (changed \/ control # written)
      /\ stale' = stale \ {n} /\ job' = [job EXCEPT !.todo = @ \ {n}] /\ pc' = "update"
      /\ read' = [ch \in Channels |-> RawMin]
      /\ tlv' = tlv /\ range' = range /\ raw' = raw /\ usr' = usr /\ db_info' = db_info
  BY DEF WriteValues, Forgotten, info
<1>2. written \in [Channels -> Raws] /\ written[n] = raw[n] /\ RawMin \in Raws
  BY <1>0, VolumeConstants DEF ValuesIn, Raws
<1> HIDE DEF n, written
<1>3. ValuesIn'
  BY <1>0, <1>1, <1>2 DEF ValuesIn
<1>4. UserIn'
  BY <1>0, <1>1 DEF UserIn, StandsFor, convert_from_user
<1>5. JobOk'
  BY <1>0, <1>1, Shorter
<1>6. DbOk'
  BY <1>0, <1>1 DEF DbOk, Converts
<1>7. InTune'
  <2> SUFFICES ASSUME ~changed', NEW ch \in Channels \ stale'
               PROVE  raw'[ch] = control'[ch]
    BY DEF InTune
  <2>1. ~changed /\ control = written /\ control' = control
    BY <1>1
  <2>2. CASE ch = n
    BY <2>2, <1>1, <1>2
  <2>3. CASE ch # n
    BY <2>1, <2>3, <1>0, <1>1 DEF InTune, n
  <2> QED BY <2>2, <2>3
<1> QED BY <1>3, <1>4, <1>5, <1>6, <1>7 DEF VolumeInv

\* An ioctl fails: the item keeps a value the device does not have.
LEMMA FailKeeps ==
    ASSUME VolumeInv, UpdateFails
    PROVE  VolumeInv'
<1>0. /\ control' = control /\ tlv' = tlv /\ changed' = changed /\ range' = range
      /\ raw' = raw /\ usr' = usr /\ db_info' = db_info /\ pc' = "idle" /\ job' = NoJob
      /\ read' = [ch \in Channels |-> RawMin] /\ stale' = stale \cup {NextChannel}
  BY DEF UpdateFails, kernel, EndsWith, Forgotten, info
<1>1. ValuesIn' /\ UserIn'
  <2>1. RawMin \in Raws
    BY VolumeConstants DEF Raws
  <2> QED BY <1>0, <2>1 DEF VolumeInv, ValuesIn, UserIn, StandsFor, convert_from_user
<1>2. JobOk' /\ DbOk'
  BY <1>0 DEF VolumeInv, JobOk, DbOk, Converts, NoJob
<1>3. InTune'
  BY <1>0 DEF VolumeInv, InTune
<1> QED BY <1>1, <1>2, <1>3 DEF VolumeInv

\* The loop over the channels ends.
LEMMA EndKeeps ==
    ASSUME VolumeInv, UpdateEnds
    PROVE  VolumeInv'
<1>0. /\ UNCHANGED <<kernel, item, db_info, read>> /\ pc = "update" /\ pc' = "idle" /\ job' = NoJob
  BY DEF UpdateEnds, EndsWith, info
<1>1. ValuesIn' /\ UserIn'
  BY <1>0 DEF VolumeInv, ValuesIn, UserIn, kernel, item, StandsFor, convert_from_user
<1>2. JobOk' /\ DbOk'
  BY <1>0 DEF VolumeInv, JobOk, DbOk, Converts, NoJob, kernel
<1>3. InTune'
  BY <1>0 DEF VolumeInv, InTune, kernel, item
<1> QED BY <1>1, <1>2, <1>3 DEF VolumeInv

\* A table in a container is freed by a pointer into the buffer: whatever follows is
\* not a step of the model.
LEMMA FreesKeeps ==
    ASSUME VolumeInv, init_db_info_frees
    PROVE  VolumeInv'
<1>1. UNCHANGED <<kernel, item, info, job, read>> /\ pc = "idle" /\ pc' = "undefined"
  BY DEF init_db_info_frees, Idle
<1>2. ValuesIn' /\ UserIn'
  BY <1>1 DEF VolumeInv, ValuesIn, UserIn, kernel, item, StandsFor, convert_from_user
<1>3. JobOk' /\ DbOk'
  BY <1>1 DEF VolumeInv, JobOk, DbOk, Converts, kernel, info
<1>4. InTune'
  BY <1>1 DEF VolumeInv, InTune, kernel, item
<1> QED BY <1>2, <1>3, <1>4 DEF VolumeInv

\* The dB functions change nothing but what the item knows of the table, unless a
\* gain is set.
LEMMA DbCallsKeep ==
    ASSUME VolumeInv, DbCalls
    PROVE  VolumeInv'
<1>0. DbOk /\ (pc = "idle" /\ UNCHANGED <<kernel, item, pc, job, read>> /\ DbOk' => VolumeInv')
  BY ValuesKept DEF VolumeInv
<1>1. CASE get_dB_range
  <2>1. pc = "idle" /\ UNCHANGED <<kernel, item, pc, job, read>> /\ init_db_info /\ tlv' = tlv
    BY <1>1 DEF get_dB_range, Idle, kernel
  <2> QED BY <1>0, <2>1, DbLearnt
<1>2. ASSUME NEW ch \in AnyChannel, get_dB(ch) PROVE VolumeInv'
  <2>1. pc = "idle" /\ UNCHANGED <<kernel, item, pc, job, read>> /\ init_db_info /\ tlv' = tlv
    BY <1>2 DEF get_dB, Idle, kernel, Answers
  <2> QED BY <1>0, <2>1, DbLearnt
<1>3. ASSUME NEW v \in Raws, ask_vol_dB(v) PROVE VolumeInv'
  <2>1. pc = "idle" /\ UNCHANGED <<kernel, item, pc, job, read>> /\ init_db_info /\ tlv' = tlv
    BY <1>3 DEF ask_vol_dB, Idle, kernel, Answers
  <2> QED BY <1>0, <2>1, DbLearnt
<1>4. ASSUME NEW g \in Gains, NEW x \in Xdirs, ask_dB_vol(g, x) PROVE VolumeInv'
  <2>1. pc = "idle" /\ UNCHANGED <<kernel, item, pc, job, read>> /\ init_db_info /\ tlv' = tlv
    BY <1>4 DEF ask_dB_vol, Idle, kernel, Answers
  <2> QED BY <1>0, <2>1, DbLearnt
<1>5. ASSUME NEW g \in Gains, NEW x \in Xdirs, NEW chs \in Some, set_dB(chs, g, x)
      PROVE  VolumeInv'
  <2>0. chs \subseteq Channels
    BY DEF Some
  <2>1. pc = "idle" /\ init_db_info /\ tlv' = tlv
    BY <1>5 DEF set_dB, Idle, kernel, Sets, Answers
  <2>2. DbOk' /\ (Known => Converts(db_info'))
    BY <1>0, <2>1, DbLearnt
  <2>3. CASE Known
    <3>1. Sets("set_dB", chs, g, x)
      BY <1>5, <2>3 DEF set_dB
    <3> QED BY <2>0, <2>1, <2>2, <2>3, <3>1, SetsKeeps
  <2>4. CASE ~Known
    <3>1. UNCHANGED <<kernel, item, pc, job, read>>
      BY <1>5, <2>4 DEF set_dB, Answers
    <3> QED BY <1>0, <2>1, <2>2, <3>1
  <2> QED BY <2>3, <2>4
<1>6. CASE init_db_info_frees
  BY <1>6, FreesKeeps
<1> QED BY <1>1, <1>2, <1>3, <1>4, <1>5, <1>6 DEF DbCalls

\* The functions of the control interface do not touch the item.
LEMMA ControlCallsKeep ==
    ASSUME VolumeInv, ControlCalls
    PROVE  VolumeInv'
<1>1. UNCHANGED <<kernel, item, pc, job, read>> /\ db_info' = db_info
  <2>1. CASE ctl_get_dB_range
    BY <2>1 DEF ctl_get_dB_range, FromStack, Answers, info
  <2>2. ASSUME NEW v \in Raws, ctl_convert_to_dB(v)
        PROVE  UNCHANGED <<kernel, item, pc, job, read>> /\ db_info' = db_info
    BY <2>2 DEF ctl_convert_to_dB, FromStack, Answers, info
  <2>3. ASSUME NEW g \in Gains, NEW x \in Xdirs, ctl_convert_from_dB(g, x)
        PROVE  UNCHANGED <<kernel, item, pc, job, read>> /\ db_info' = db_info
    BY <2>3 DEF ctl_convert_from_dB, FromStack, Answers, info
  <2> QED BY <2>1, <2>2, <2>3 DEF ControlCalls
<1>2. DbOk'
  BY <1>1 DEF VolumeInv, DbOk, Converts, kernel
<1> QED BY <1>1, <1>2, ValuesKept

\* Reading a volume, choosing a range and setting a volume.
LEMMA VolumeCallsKeep ==
    ASSUME VolumeInv, VolumeCalls
    PROVE  VolumeInv'
<1>1. ASSUME NEW r \in UserRanges, set_volume_range(r) PROVE VolumeInv'
  BY <1>1, SetRangeKeeps
<1>2. ASSUME NEW ch \in AnyChannel, get_volume(ch) PROVE VolumeInv'
  <2>1. UNCHANGED <<kernel, item, pc, job, read>> /\ db_info' = db_info
    BY <1>2 DEF get_volume, info
  <2>2. DbOk'
    BY <2>1 DEF VolumeInv, DbOk, Converts, kernel
  <2> QED BY <2>1, <2>2, ValuesKept
<1>3. ASSUME NEW chs \in Some, NEW v \in range.min - 1 .. range.max + 1, set_volume(chs, v)
      PROVE  VolumeInv'
  <2>0. chs \subseteq Channels /\ v \in Int
    BY DEF Some
  <2>1. pc = "idle" /\ db_info' = db_info /\ tlv' = tlv /\ Sets("set_volume", chs, v, 0)
    BY <1>3 DEF set_volume, Idle, Sets, kernel, info
  <2>2. DbOk'
    BY <2>1 DEF VolumeInv, DbOk, Converts
  <2> QED BY <2>0, <2>1, <2>2, SetsKeeps
<1> QED BY <1>1, <1>2, <1>3 DEF VolumeCalls

\* Every step of the mixer's volume code keeps the invariant.
LEMMA VolumeStep ==
    ASSUME VolumeInv, [Next]_vars
    PROVE  VolumeInv'
<1>1. CASE GoOn \/ UNCHANGED vars
  <2>1. UNCHANGED <<kernel, item, pc, job, read>> /\ db_info' = db_info
    BY <1>1 DEF GoOn, vars, kernel, item, info
  <2>2. DbOk'
    BY <2>1 DEF VolumeInv, DbOk, Converts, kernel
  <2> QED BY <2>1, <2>2, ValuesKept
<1>2. ASSUME NEW ch \in Channels, NEW v \in Raws, Varies(ch, v) PROVE VolumeInv'
  BY <1>2, VariesKeeps
<1>3. CASE Update \/ UpdateMissed
  BY <1>3, UpdateKeeps, UpdateMissedKeeps
<1>4. CASE VolumeCalls \/ DbCalls \/ ControlCalls
  BY <1>4, VolumeCallsKeep, DbCallsKeep, ControlCallsKeep
<1>5. CASE UpdateVolume \/ ReadValues \/ WriteValues \/ UpdateFails \/ UpdateEnds
  BY <1>5, UpdateVolumeKeeps, ReadKeeps, WriteKeeps, FailKeeps, EndKeeps
<1> QED BY <1>1, <1>2, <1>3, <1>4, <1>5 DEF Next

\* The invariant of the volume item holds in every state: with no event waiting, the
\* item differs from the device only on channels whose last read or write failed, or
\* whose write is to come.
THEOREM VolumeInvariant == Spec => []VolumeInv
<1>1. Init => VolumeInv
  BY VolumeInit
<1>2. VolumeInv /\ [Next]_vars => VolumeInv'
  BY VolumeStep
<1> QED BY <1>1, <1>2, PTL DEF Spec

\* The invariant gives what a run checks of volumes.
LEMMA VolumesStand ==
    ASSUME VolumeInv
    PROVE  UserTrue /\ DeviceTrue
BY DEF VolumeInv, UserIn, StandsFor, InTune, UserTrue, DeviceTrue

\* The volume an application is told stands for the device's value in the range that
\* the application has chosen, and the item has the device's values once events are
\* handled, unless the read for the last event or the last write failed, also if another
\* process wrote between the read and the write of _snd_selem_update_volume: for every
\* range of the control and of the application whose minimum is not above its maximum,
\* ranges of a single value included, and for any number of channels, whatever
\* convert_to_user and convert_from_user round.
THEOREM VolumeVolumesTrue == Spec => [](UserTrue /\ DeviceTrue)
BY VolumeInvariant, VolumesStand, PTL

\* No value out of the control's range is written by _snd_selem_update_volume, and no
\* volume out of the application's is reported, whatever was asked for.
VolumesInRange ==
    /\ control \in [Channels -> Raws]
    /\ \A ch \in Channels : usr[ch] \in range.min .. range.max

\* VolumesInRange holds in every state.
THEOREM VolumeInRange == Spec => []VolumesInRange
<1>1. VolumeInv => VolumesInRange
  BY DEF VolumeInv, ValuesIn, UserIn, VolumesInRange
<1> QED BY <1>1, VolumeInvariant, PTL

-----------------------------------------------------------------------------
(* Gains.  Scales and pairs of bounds are one thing: from Low on, gains grow *)
(* by Span over the values of the control, rounded down to hundredths of a   *)
(* dB, and the lowest value may mute.                                        *)

Mutes(t) == IF Word(t, 0) = TLVT_DB_SCALE THEN Mute(t) ELSE Word(t, 0) = TLVT_DB_MINMAX_MUTE

\* The gain of the value that is x above the lowest.
GainAt(t, x) == IF Mutes(t) /\ x = 0 THEN GAIN_MUTE ELSE (Span(t) * x) \div Steps + Low(t)

\* The numbers of a table.
LEMMA GradedIs ==
    ASSUME NEW t, Graded(t)
    PROVE  /\ Steps \in Int /\ 0 < Steps /\ Span(t) \in Int /\ Steps <= Span(t)
           /\ Low(t) \in Int /\ GAIN_MUTE \in Int /\ GAIN_MUTE <= Low(t)
           /\ Step(t) \in Int
<1>1. Word(t, 3) % 65536 \in Int
  BY DEF Graded
<1>2. Steps \in Int /\ 0 < Steps
  BY VolumeConstants DEF Steps, Graded
<1>3. Step(t) \in Int
  BY <1>1 DEF Step
<1>4. Step(t) * Steps \in Int
  BY <1>2, <1>3
<1> QED BY <1>2, <1>3, <1>4 DEF Graded, Span, Low, GAIN_MUTE

\* A multiple, divided.
LEMMA Multiple ==
    ASSUME NEW a \in Int, NEW b \in Int, 0 < b
    PROVE  (a * b) \div b = a
<1>1. a * b \in Int
  OBVIOUS
<1>2. (a * b) \div b \in Int /\ a <= (a * b) \div b /\ (a * b) \div b <= a
  BY <1>1, QuotientIs, Quotient
<1> QED BY <1>2

\* snd_tlv_convert_to_dB gives a value its gain.
LEMMA ToDbIs ==
    ASSUME NEW t, Graded(t), NEW v \in Raws
    PROVE  /\ v - RawMin \in 0 .. Steps
           /\ snd_tlv_convert_to_dB(t, RawMin, RawMax, v) = Got(GainAt(t, v - RawMin))
<1> DEFINE x == v - RawMin
<1>0. /\ Steps \in Int /\ 0 < Steps /\ Span(t) \in Int /\ Low(t) \in Int /\ Step(t) \in Int
  BY GradedIs
<1>1. /\ x \in 0 .. Steps /\ RawMin \in Int /\ RawMax \in Int /\ v \in Int
      /\ (x = 0 <=> v = RawMin) /\ (x = Steps <=> v = RawMax)
      /\ (v <= RawMin <=> x = 0) /\ (v >= RawMax <=> x = Steps) /\ ~(RawMax <= RawMin)
  BY VolumeConstants DEF Raws, Steps, Graded
<1>2. snd_tlv_convert_to_dB(t, RawMin, RawMax, v) = SimpleToDb(t, RawMin, RawMax, v)
  BY DEF Graded, snd_tlv_convert_to_dB, TLVT_DB_SCALE, TLVT_DB_RANGE, TLVT_DB_MINMAX,
         TLVT_DB_MINMAX_MUTE
<1>3. CASE Word(t, 0) = TLVT_DB_SCALE
  <2>1. SimpleToDb(t, RawMin, RawMax, v) = Got(tlv_to_dB_scale(t, RawMin, v))
    BY <1>3 DEF SimpleToDb, TLVT_DB_SCALE, TLVT_DB_MINMAX, TLVT_DB_MINMAX_MUTE
  <2>2. Span(t) * x = (Step(t) * x) * Steps /\ Step(t) * x \in Int
    BY <1>0, <1>1, <1>3 DEF Span
  <2>3. (Span(t) * x) \div Steps = Step(t) * x
    BY <1>0, <2>2, Multiple
  <2>4. (v - RawMin) * Step(t) = Step(t) * x
    BY <1>0, <1>1
  <2>5. tlv_to_dB_scale(t, RawMin, v) = GainAt(t, x)
    BY <2>3, <2>4, <1>1, <1>3 DEF tlv_to_dB_scale, GainAt, Mutes, Low
  <2> QED BY <1>1, <1>2, <2>1, <2>5
<1>4. CASE Word(t, 0) # TLVT_DB_SCALE
  <2>1. SimpleToDb(t, RawMin, RawMax, v) = Got(tlv_to_dB_minmax(t, RawMin, RawMax, v))
    BY <1>4 DEF SimpleToDb, TLVT_DB_SCALE, TLVT_DB_MINMAX, TLVT_DB_MINMAX_MUTE, Graded
  <2>2. Span(t) = Word(t, 3) - Word(t, 2) /\ Word(t, 3) \in Int /\ Word(t, 2) \in Int
        /\ Low(t) = Word(t, 2) /\ (Mutes(t) <=> Word(t, 0) = TLVT_DB_MINMAX_MUTE)
    BY <1>4 DEF Span, Graded, Low, Mutes
  <2>3. CASE x = 0
    <3>1. Span(t) * x = 0 * Steps
      BY <2>3, <1>0
    <3>2. (Span(t) * x) \div Steps = 0
      BY <3>1, <1>0, Multiple
    <3>3. tlv_to_dB_minmax(t, RawMin, RawMax, v) =
            IF Word(t, 0) = TLVT_DB_MINMAX_MUTE THEN GAIN_MUTE ELSE Word(t, 2)
      BY <1>1, <2>3 DEF tlv_to_dB_minmax
    <3>4. GainAt(t, x) = IF Mutes(t) THEN GAIN_MUTE ELSE 0 + Word(t, 2)
      BY <2>2, <2>3, <3>2 DEF GainAt
    <3>5. tlv_to_dB_minmax(t, RawMin, RawMax, v) = GainAt(t, x)
      BY <3>3, <3>4, <2>2
    <3> QED BY <1>1, <1>2, <2>1, <3>5
  <2>4. CASE x = Steps
    <3>1. (Span(t) * x) \div Steps = Span(t)
      BY <2>4, <1>0, Multiple
    <3>2. x # 0
      BY <2>4, <1>0
    <3>3. tlv_to_dB_minmax(t, RawMin, RawMax, v) = Word(t, 3)
      BY <1>1, <2>4, <3>2 DEF tlv_to_dB_minmax
    <3>4. GainAt(t, x) = Span(t) + Low(t)
      BY <3>1, <3>2 DEF GainAt
    <3>5. tlv_to_dB_minmax(t, RawMin, RawMax, v) = GainAt(t, x)
      BY <3>3, <3>4, <2>2
    <3> QED BY <1>1, <1>2, <2>1, <3>5
  <2>5. CASE x # 0 /\ x # Steps
    <3>1. tlv_to_dB_minmax(t, RawMin, RawMax, v) = (Span(t) * x) \div Steps + Low(t)
      BY <1>1, <2>2, <2>5 DEF tlv_to_dB_minmax, Steps
    <3>2. tlv_to_dB_minmax(t, RawMin, RawMax, v) = GainAt(t, x)
      BY <3>1, <2>5 DEF GainAt
    <3> QED BY <1>1, <1>2, <2>1, <3>2
  <2> QED BY <2>3, <2>4, <2>5
<1> QED BY <1>3, <1>4

\* snd_tlv_convert_from_dB has one answer.
FromGain(t, g, x) ==
    _tlv_from_dB_minmax(RawMin, RawMax, g, x, Low(t), Low(t) + Span(t), Mutes(t))

\* A gain is converted by _tlv_from_dB_minmax, for a scale as for a pair of bounds.
LEMMA FromDbIs ==
    ASSUME NEW t, Graded(t), NEW g, NEW x
    PROVE  snd_tlv_convert_from_dB(t, RawMin, RawMax, g, x) = {Got(FromGain(t, g, x))}
<1>1. snd_tlv_convert_from_dB(t, RawMin, RawMax, g, x) = {SimpleFromDb(t, RawMin, RawMax, g, x)}
  BY DEF Graded, snd_tlv_convert_from_dB, TLVT_DB_SCALE, TLVT_DB_RANGE, TLVT_DB_MINMAX,
         TLVT_DB_MINMAX_MUTE
<1>2. CASE Word(t, 0) = TLVT_DB_SCALE
  <2>1. SimpleFromDb(t, RawMin, RawMax, g, x) = Got(tlv_from_dB_scale(t, RawMin, RawMax, g, x))
    BY <1>2 DEF SimpleFromDb, TLVT_DB_SCALE, TLVT_DB_MINMAX, TLVT_DB_MINMAX_MUTE
  <2>2. tlv_from_dB_scale(t, RawMin, RawMax, g, x) = FromGain(t, g, x)
    BY <1>2 DEF tlv_from_dB_scale, FromGain, Low, Span, Mutes, Steps
  <2> QED BY <1>1, <2>1, <2>2
<1>3. CASE Word(t, 0) # TLVT_DB_SCALE
  <2>1. SimpleFromDb(t, RawMin, RawMax, g, x) = Got(tlv_from_dB_minmax(t, RawMin, RawMax, g, x))
    BY <1>3 DEF SimpleFromDb, TLVT_DB_SCALE, TLVT_DB_MINMAX, TLVT_DB_MINMAX_MUTE, Graded
  <2>2. Low(t) + Span(t) = Word(t, 3)
    BY <1>3 DEF Low, Span, Graded
  <2>3. Mutes(t) = (Word(t, 0) = TLVT_DB_MINMAX_MUTE)
    BY <1>3 DEF Mutes
  <2>4. tlv_from_dB_minmax(t, RawMin, RawMax, g, x) = FromGain(t, g, x)
    BY <2>2, <2>3, Zenon DEF tlv_from_dB_minmax, FromGain, Low
  <2> QED BY <1>1, <2>1, <2>4
<1> QED BY <1>2, <1>3

\* A quotient is at least q when the dividend is at least q times the divisor, and
\* above q when it is not below the next multiple.
LEMMA QuotientAtLeast ==
    ASSUME NEW a \in Int, NEW b \in Int, 0 < b, NEW q \in Int
    PROVE  /\ a \div b \in Int
           /\ a \div b >= q <=> q * b <= a
<1> DEFINE d == a \div b
<1>1. d \in Int /\ b * d <= a /\ (q * b <= a => q <= d)
  BY Quotient, QuotientIs
<1> HIDE DEF d
<1>2. ASSUME q <= d PROVE q * b <= a
  <2>1. q * b <= d * b /\ d * b = b * d
    BY <1>1, <1>2, AddFactor
  <2> QED BY <2>1, <1>1
<1>3. d \in Int /\ (d >= q <=> q * b <= a)
  BY <1>1, <1>2
<1> QED BY <1>3 DEF d

\* The gains of a table: numbers between silence, or the lowest, and the highest.
LEMMA GainIn ==
    ASSUME NEW t, Graded(t), NEW x \in 0 .. Steps
    PROVE  /\ GainAt(t, x) \in Int
           /\ GainAt(t, x) <= Low(t) + Span(t)
           /\ GAIN_MUTE <= GainAt(t, x)
           /\ ~Mutes(t) => Low(t) <= GainAt(t, x)
           /\ GainAt(t, 0) = IF Mutes(t) THEN GAIN_MUTE ELSE Low(t)
           /\ GainAt(t, Steps) = Low(t) + Span(t)
<1> DEFINE R == Steps
           W == Span(t)
           L == Low(t)
           q == (W * x) \div R
<1>0. R \in Int /\ 0 < R /\ W \in Int /\ R <= W /\ L \in Int /\ GAIN_MUTE \in Int /\ GAIN_MUTE <= L
  BY GradedIs
<1>z. /\ GainAt(t, x) = IF Mutes(t) /\ x = 0 THEN GAIN_MUTE ELSE q + L
      /\ GainAt(t, 0) = IF Mutes(t) THEN GAIN_MUTE ELSE (W * 0) \div R + L
      /\ GainAt(t, R) = IF Mutes(t) /\ R = 0 THEN GAIN_MUTE ELSE (W * R) \div R + L
  BY DEF GainAt
<1>x. x \in Int /\ 0 <= x /\ x <= R
  BY <1>0
<1>1. (W * R) \div R = W /\ (W * 0) \div R = 0
  <2>1. W * 0 = 0 * R
    BY <1>0
  <2> QED BY <2>1, <1>0, Multiple
<1>2. W * x \in Int /\ 0 * R <= W * x /\ W * x <= W * R
  <2> HIDE DEF R, W, L
  <2>1. 0 * W <= x * W /\ x * W <= R * W
    BY <1>0, <1>x, AddFactor
  <2> QED BY <2>1, <1>0, <1>x
<1>3. q \in Int /\ 0 <= q /\ q <= W
  <2> HIDE DEF R, W, L
  <2> QED BY <1>0, <1>2, Quotient, QuotientIs
<1> HIDE DEF q, W, L, R
<1>4. /\ GainAt(t, x) \in Int /\ GainAt(t, x) <= L + W /\ GAIN_MUTE <= GainAt(t, x)
      /\ ~Mutes(t) => L <= GainAt(t, x)
      /\ GainAt(t, 0) = IF Mutes(t) THEN GAIN_MUTE ELSE L
      /\ GainAt(t, R) = L + W
  BY <1>0, <1>z, <1>x, <1>1, <1>3
<1> QED BY <1>4 DEF L, W, R

\* A gain between the bounds, and when a value has it.
LEMMA GainReached ==
    ASSUME NEW t, Graded(t), NEW x \in 0 .. Steps, NEW g \in Int, Low(t) < g
    PROVE  GainAt(t, x) >= g <=> (g - Low(t)) * Steps <= Span(t) * x
<1> DEFINE R == Steps
           W == Span(t)
           L == Low(t)
           q == (W * x) \div R
           G == g - L
<1>0. R \in Int /\ 0 < R /\ W \in Int /\ R <= W /\ L \in Int /\ GAIN_MUTE \in Int /\ GAIN_MUTE <= L
  BY GradedIs
<1>x. x \in Int /\ 0 <= x /\ x <= R /\ G \in Int /\ 0 < G /\ g = G + L
  BY <1>0
<1>z. GainAt(t, x) = IF Mutes(t) /\ x = 0 THEN GAIN_MUTE ELSE q + L
  BY DEF GainAt
<1> HIDE DEF R, W, L, G
<1>1. W * x \in Int
  BY <1>0, <1>x
<1>2. q \in Int /\ (q >= G <=> G * R <= W * x)
  BY <1>0, <1>1, <1>x, QuotientAtLeast
<1> HIDE DEF q
<1>3. CASE Mutes(t) /\ x = 0
  <2>1. W * x = 0 /\ 0 < G * R
    <3>1. 1 * R <= G * R
      BY <1>0, <1>x, AddFactor
    <3> QED BY <3>1, <1>0, <1>x, <1>3
  <2>2. ~(G * R <= W * x)
    BY <2>1, <1>0, <1>x
  <2>3. ~(GainAt(t, x) >= g)
    BY <1>z, <1>3, <1>0, <1>x
  <2> QED BY <2>2, <2>3 DEF G, R, W, L
<1>4. CASE ~(Mutes(t) /\ x = 0)
  <2>1. GainAt(t, x) >= g <=> q >= G
    BY <1>z, <1>4, <1>0, <1>x, <1>2
  <2> QED BY <2>1, <1>2 DEF G, R, W, L
<1> QED BY <1>3, <1>4

\* A gain is not below that of the lowest value but one, if it is not above the
\* lowest gain.
LEMMA SecondGain ==
    ASSUME NEW t, Graded(t), NEW x \in 0 .. Steps, x # 0
    PROVE  Low(t) < GainAt(t, x)
<1> DEFINE R == Steps
           W == Span(t)
           L == Low(t)
           q == (W * x) \div R
<1>0. R \in Int /\ 0 < R /\ W \in Int /\ R <= W /\ L \in Int
  BY GradedIs
<1>1. x \in Int /\ 1 <= x
  BY <1>0
<1>2. GainAt(t, x) = q + L
  BY <1>1 DEF GainAt
<1> HIDE DEF R, W, L
<1>3. W * x \in Int /\ 1 * R <= W * x
  <2>1. 1 * W <= x * W
    BY <1>0, <1>1, AddFactor
  <2> QED BY <2>1, <1>0, <1>1
<1>4. q \in Int /\ 1 <= q
  BY <1>0, <1>3, QuotientIs, Quotient
<1> HIDE DEF q
<1>5. L < GainAt(t, x)
  BY <1>0, <1>2, <1>4
<1> QED BY <1>5 DEF L

\* Products of integers.
LEMMA Products ==
    ASSUME NEW a \in Int, NEW b \in Int
    PROVE  a * b \in Int /\ a * b = b * a /\ (a + 1) * b = a * b + b
OBVIOUS

\* A quotient rounded up, by adding one less than the divisor: the least x with
\* G * R <= W * x.
LEMMA Ceiling ==
    ASSUME NEW G \in Int, NEW R \in Int, NEW W \in Int, 0 < G, G < W, 0 < R,
           NEW q, q = (G * R + (W - 1)) \div W
    PROVE  /\ q \in 0 .. R
           /\ G * R <= W * q
           /\ \A x \in Int : G * R <= W * x => q <= x
<1>1. PICK p \in Int : p = G * R
  OBVIOUS
<1>2. q \in Int /\ W * q <= p + (W - 1) /\ p + (W - 1) < W * q + W
  BY <1>1, Quotient
<1>3. PICK s \in Int : s = W * q /\ s = q * W
  BY <1>2
<1>4. p <= s /\ s < p + W
  BY <1>1, <1>2, <1>3
<1>5. PICK k \in Int : k = W * R /\ k = R * W
  OBVIOUS
<1>6. 0 < p /\ p + R <= k
  <2>1. (G + 1) * R <= W * R
    BY AddFactor
  <2>2. 1 * R <= G * R
    BY AddFactor
  <2> QED BY <2>1, <2>2, <1>1, <1>5
<1>7. ~(q < 0)
  <2> SUFFICES ASSUME q <= 0 - 1 PROVE FALSE
    BY <1>2
  <2>1. q * W <= (0 - 1) * W
    BY <1>2, AddFactor
  <2> QED BY <2>1, <1>3, <1>4, <1>6
<1>8. ~(R < q)
  <2> SUFFICES ASSUME R + 1 <= q PROVE FALSE
    BY <1>2
  <2>1. (R + 1) * W <= q * W
    BY <1>2, AddFactor
  <2>2. (R + 1) * W = k + W
    BY <1>5, Products
  <2> QED BY <2>1, <2>2, <1>3, <1>4, <1>6
<1>9. ASSUME NEW x \in Int, p <= W * x PROVE q <= x
  <2>1. (x + 1) * W = x * W + W /\ x * W = W * x /\ W * x \in Int
    BY Products
  <2>2. q * W < (x + 1) * W
    BY <2>1, <1>3, <1>4, <1>9
  <2>3. q < x + 1
    BY <2>2, <1>2, CancelFactor
  <2> QED BY <2>3, <1>2
<1> QED BY <1>1, <1>2, <1>3, <1>4, <1>7, <1>8, <1>9

\* A quotient rounded down, for a divisor that is not below R: the greatest or the one
\* before it of the x with W * x < (G + 1) * R.
LEMMA Floor ==
    ASSUME NEW G \in Int, NEW R \in Int, NEW W \in Int, 0 < G, G < W, 0 < R, R <= W,
           NEW q, q = (G * R) \div W
    PROVE  /\ q \in 0 .. R
           /\ \A x \in Int : ~((G + 1) * R <= W * x) => x <= q + 1
           /\ ~((G + 1) * R <= W * q)
<1>1. PICK p \in Int : p = G * R
  OBVIOUS
<1>2. q \in Int /\ W * q <= p /\ p < W * q + W
  BY <1>1, Quotient
<1>3. PICK s \in Int : s = W * q /\ s = q * W
  BY <1>2
<1>5. PICK k \in Int : k = W * R /\ k = R * W
  OBVIOUS
<1>6. 0 < p /\ p + R <= k /\ (G + 1) * R = p + R
  <2>1. (G + 1) * R <= W * R
    BY AddFactor
  <2>2. 1 * R <= G * R
    BY AddFactor
  <2> QED BY <2>1, <2>2, <1>1, <1>5
<1>7. ~(q < 0)
  <2> SUFFICES ASSUME q <= 0 - 1 PROVE FALSE
    BY <1>2
  <2>1. q * W <= (0 - 1) * W
    BY <1>2, AddFactor
  <2> QED BY <2>1, <1>2, <1>3, <1>6
<1>8. ~(R < q)
  <2> SUFFICES ASSUME R + 1 <= q PROVE FALSE
    BY <1>2
  <2>1. (R + 1) * W <= q * W
    BY <1>2, AddFactor
  <2>2. (R + 1) * W = k + W
    BY <1>5, Products
  <2> QED BY <2>1, <2>2, <1>2, <1>3, <1>6
<1>9. ASSUME NEW x \in Int, ~((G + 1) * R <= W * x) PROVE x <= q + 1
  <2>1. x * W = W * x /\ W * x \in Int
    BY Products
  <2>2. (q + 2) * W = s + W + W /\ (q + 2) * W \in Int
    BY <1>2, <1>3
  <2>3. x * W < (q + 2) * W
    BY <2>1, <2>2, <1>2, <1>3, <1>6, <1>9
  <2>4. x < q + 2
    BY <2>3, <1>2, CancelFactor
  <2> QED BY <2>4, <1>2
<1>10. ~((G + 1) * R <= W * q)
  BY <1>2, <1>3, <1>6
<1> QED BY <1>2, <1>7, <1>8, <1>9, <1>10

\* Only R steps reach the whole span.
LEMMA Topmost ==
    ASSUME NEW G \in Int, NEW R \in Int, NEW W \in Int, NEW x \in Int, 0 < R, 0 < W, W <= G,
           x <= R, G * R <= W * x
    PROVE  x = R
<1>1. PICK k \in Int : k = W * R /\ k = R * W
  OBVIOUS
<1>2. W * R <= G * R /\ G * R \in Int
  BY AddFactor
<1>3. W * x \in Int /\ W * x = x * W /\ (x + 1) * W = x * W + W
  BY Products
<1>4. CASE x + 1 <= R
  <2>1. (x + 1) * W <= R * W
    BY <1>4, AddFactor
  <2> QED BY <2>1, <1>1, <1>2, <1>3
<1> QED BY <1>4

\* Rounding up gives the lowest of the values whose gain is not below the one asked
\* for, and the highest value if there is none.
Upward(t, g, v) ==
    \/ /\ GainAt(t, v - RawMin) >= g
       /\ \A w \in Raws : GainAt(t, w - RawMin) >= g => v <= w
    \/ v = RawMax /\ \A w \in Raws : ~(GainAt(t, w - RawMin) >= g)

\* Rounding down gives the lowest value or one whose gain is not above the one asked
\* for, and no value but the next may also be so.
Downward(t, g, v) ==
    /\ v = RawMin \/ GainAt(t, v - RawMin) <= g
    /\ \A w \in Raws : GainAt(t, w - RawMin) <= g => w <= v + 1

\* _tlv_from_dB_minmax rounds up: adding one less than the divisor before the
\* division is enough and not too much.
LEMMA RoundsUp ==
    ASSUME NEW t, Graded(t), NEW g \in Int, NEW xdir \in Int, xdir > 0
    PROVE  FromGain(t, g, xdir) \in Raws /\ Upward(t, g, FromGain(t, g, xdir))
<1> DEFINE R == Steps
           W == Span(t)
           L == Low(t)
           G == g - L
           v == FromGain(t, g, xdir)
<1>0. /\ R \in Int /\ 0 < R /\ W \in Int /\ R <= W /\ L \in Int /\ GAIN_MUTE \in Int
      /\ GAIN_MUTE <= L /\ RawMin \in Int /\ RawMax = RawMin + R /\ Raws = RawMin .. RawMax
      /\ L = Low(t) /\ R = Steps /\ W = Span(t) /\ G = g - L /\ G \in Int
  BY GradedIs, VolumeConstants DEF Raws, Steps
<1>w. \A w \in Raws : w - RawMin \in 0 .. Steps
  BY <1>0
<1>v. v = IF g <= L
          THEN IF g > GAIN_MUTE /\ Mutes(t) THEN RawMin + 1 ELSE RawMin
          ELSE IF g >= L + W THEN RawMax
          ELSE (G * (RawMax - RawMin) + (((L + W) - L) - 1)) \div ((L + W) - L) + RawMin
  BY DEF FromGain, _tlv_from_dB_minmax
<1> HIDE DEF R, W, L, G, v
<1>1. CASE g <= L
  <2>1. CASE g > GAIN_MUTE /\ Mutes(t)
    <3>1. v = RawMin + 1 /\ v \in Raws
      BY <1>v, <1>1, <2>1, <1>0
    <3>2. v - RawMin \in 0 .. Steps /\ v - RawMin # 0
      BY <3>1, <1>0
    <3>3. GainAt(t, v - RawMin) \in Int /\ L < GainAt(t, v - RawMin)
      BY <3>2, <1>0, SecondGain, GainIn
    <3>4. ASSUME NEW w \in Raws, GainAt(t, w - RawMin) >= g PROVE v <= w
      <4>1. CASE w = RawMin
        <5>1. w - RawMin = 0 /\ 0 \in 0 .. Steps
          BY <4>1, <1>0
        <5>2. GainAt(t, 0) = GAIN_MUTE
          BY <2>1, <5>1, GainIn
        <5> QED BY <5>1, <5>2, <3>4, <2>1, <1>0
      <4>2. CASE w # RawMin
        BY <4>2, <3>1, <1>0
      <4> QED BY <4>1, <4>2
    <3>5. GainAt(t, v - RawMin) >= g
      BY <3>3, <1>1, <1>0
    <3> QED BY <3>1, <3>4, <3>5 DEF Upward, v
  <2>2. CASE ~(g > GAIN_MUTE /\ Mutes(t))
    <3>1. v = RawMin /\ v \in Raws /\ v - RawMin = 0 /\ 0 \in 0 .. Steps
      BY <1>v, <1>1, <2>2, <1>0
    <3>2. GainAt(t, v - RawMin) >= g
      <4>1. GainAt(t, 0) = IF Mutes(t) THEN GAIN_MUTE ELSE L
        BY <3>1, <1>0, GainIn
      <4> QED BY <4>1, <3>1, <2>2, <1>1, <1>0
    <3>3. \A w \in Raws : v <= w
      BY <3>1, <1>0
    <3> QED BY <3>1, <3>2, <3>3 DEF Upward, v
  <2> QED BY <2>1, <2>2
<1>2. CASE ~(g <= L) /\ g >= L + W
  <2>1. v = RawMax /\ v \in Raws
    BY <1>v, <1>2, <1>0
  <2>2. ASSUME NEW w \in Raws, GainAt(t, w - RawMin) >= g PROVE w = RawMax
    <3> DEFINE x == w - RawMin
    <3>1. x \in 0 .. Steps /\ x \in Int /\ x <= R /\ L < g
      BY <1>w, <1>0, <1>2
    <3>2. G * R <= W * x
      <4>1. (g - Low(t)) * Steps <= Span(t) * x
        BY <2>2, <3>1, <1>0, GainReached
      <4> QED BY <4>1, <1>0
    <3> HIDE DEF x
    <3>3. W <= G /\ 0 < W
      BY <1>2, <1>0
    <3>6. x = R
      BY <3>1, <3>2, <3>3, <1>0, Topmost
    <3> QED BY <3>6, <1>0 DEF x
  <2>3. CASE \E w \in Raws : GainAt(t, w - RawMin) >= g
    <3>1. GainAt(t, v - RawMin) >= g
      BY <2>1, <2>2, <2>3
    <3>2. \A w \in Raws : GainAt(t, w - RawMin) >= g => v <= w
      <4>1. v \in Int
        BY <2>1, <1>0
      <4> QED BY <4>1, <2>1, <2>2
    <3> QED BY <2>1, <3>1, <3>2 DEF Upward, v
  <2>4. CASE ~\E w \in Raws : GainAt(t, w - RawMin) >= g
    BY <2>1, <2>4 DEF Upward, v
  <2> QED BY <2>3, <2>4
<1>3. CASE ~(g <= L) /\ ~(g >= L + W)
  <2> DEFINE q == (G * R + (W - 1)) \div W
  <2>0. 0 < G /\ G < W /\ 0 < W /\ L < g
    BY <1>3, <1>0
  <2>1. RawMax - RawMin = R /\ (L + W) - L = W
    BY <1>0
  <2>2. v = q + RawMin
    BY <1>v, <1>3, <2>1
  <2>e. q = (G * R + (W - 1)) \div W
    OBVIOUS
  <2>i. G \in Int /\ R \in Int /\ W \in Int /\ 0 < R
    BY <1>0
  <2> HIDE DEF q
  <2>3. q \in 0 .. R /\ G * R <= W * q /\ \A x \in Int : G * R <= W * x => q <= x
    BY <2>0, <2>e, <2>i, Ceiling
  <2>7. v \in Raws /\ v - RawMin = q /\ q \in 0 .. Steps
    BY <2>2, <2>3, <1>0
  <2>8. GainAt(t, v - RawMin) >= g
    <3>1. (g - Low(t)) * Steps <= Span(t) * q
      BY <2>3, <1>0
    <3> QED BY <3>1, <2>7, <2>0, <1>0, GainReached
  <2>9. ASSUME NEW w \in Raws, GainAt(t, w - RawMin) >= g PROVE v <= w
    <3> DEFINE x == w - RawMin
    <3>1. x \in 0 .. Steps /\ x \in Int
      BY <1>w, <1>0
    <3>2. G * R <= W * x
      <4>1. (g - Low(t)) * Steps <= Span(t) * x
        BY <2>9, <3>1, <2>0, <1>0, GainReached
      <4> QED BY <4>1, <1>0
    <3>3. w = x + RawMin
      BY <1>0
    <3> HIDE DEF x
    <3>4. q <= x
      BY <3>1, <3>2, <2>3
    <3> QED BY <3>1, <3>3, <3>4, <2>2, <2>3, <1>0
  <2> QED BY <2>7, <2>8, <2>9 DEF Upward, v
<1> QED BY <1>1, <1>2, <1>3 DEF v

\* _tlv_from_dB_minmax rounds down, and misses the best value by one at most.
LEMMA RoundsDown ==
    ASSUME NEW t, Graded(t), NEW g \in Int, NEW xdir \in Int, ~(xdir > 0)
    PROVE  FromGain(t, g, xdir) \in Raws /\ Downward(t, g, FromGain(t, g, xdir))
<1> DEFINE R == Steps
           W == Span(t)
           L == Low(t)
           G == g - L
           v == FromGain(t, g, xdir)
<1>0. /\ R \in Int /\ 0 < R /\ W \in Int /\ R <= W /\ L \in Int /\ GAIN_MUTE \in Int
      /\ GAIN_MUTE <= L /\ RawMin \in Int /\ RawMax = RawMin + R /\ Raws = RawMin .. RawMax
      /\ L = Low(t) /\ R = Steps /\ W = Span(t) /\ G = g - L /\ G \in Int
  BY GradedIs, VolumeConstants DEF Raws, Steps
<1>w. \A w \in Raws : w - RawMin \in 0 .. Steps
  BY <1>0
<1>g. \A x \in 0 .. Steps : GainAt(t, x) \in Int
  BY GainIn
<1>v. v = IF g <= L THEN RawMin
          ELSE IF g >= L + W THEN RawMax
          ELSE (G * (RawMax - RawMin) + 0) \div ((L + W) - L) + RawMin
  BY DEF FromGain, _tlv_from_dB_minmax
<1> HIDE DEF R, W, L, G, v
<1>1. CASE g <= L
  <2>1. v = RawMin /\ v \in Raws
    BY <1>v, <1>1, <1>0
  <2>2. ASSUME NEW w \in Raws, GainAt(t, w - RawMin) <= g PROVE w <= v + 1
    <3>1. CASE w - RawMin = 0
      BY <3>1, <2>1, <1>0
    <3>2. CASE w - RawMin # 0
      <4>1. L < GainAt(t, w - RawMin) /\ GainAt(t, w - RawMin) \in Int
        BY <3>2, <1>w, <1>g, <1>0, SecondGain
      <4> QED BY <4>1, <2>2, <1>1, <1>0
    <3> QED BY <3>1, <3>2
  <2> QED BY <2>1, <2>2 DEF Downward, v
<1>2. CASE ~(g <= L) /\ g >= L + W
  <2>1. v = RawMax /\ v \in Raws /\ v - RawMin = Steps /\ Steps \in 0 .. Steps
    BY <1>v, <1>2, <1>0
  <2>2. GainAt(t, v - RawMin) <= g
    <3>1. GainAt(t, Steps) = L + W
      BY <2>1, <1>0, GainIn
    <3> QED BY <3>1, <2>1, <1>2, <1>0
  <2>3. \A w \in Raws : w <= v + 1
    BY <2>1, <1>0
  <2> QED BY <2>1, <2>2, <2>3 DEF Downward, v
<1>3. CASE ~(g <= L) /\ ~(g >= L + W)
  <2> DEFINE q == (G * R) \div W
  <2>0. 0 < G /\ G < W /\ 0 < W /\ L < g + 1 /\ g + 1 \in Int /\ (g + 1) - Low(t) = G + 1
    BY <1>3, <1>0, SMTT(30)
  <2>1. RawMax - RawMin = R /\ (L + W) - L = W /\ G * R + 0 = G * R
    BY <1>0
  <2>2. v = q + RawMin
    BY <1>v, <1>3, <2>1
  <2>3. /\ q \in 0 .. R /\ ~((G + 1) * R <= W * q)
        /\ \A x \in Int : ~((G + 1) * R <= W * x) => x <= q + 1
    BY <2>0, <1>0, Floor
  <2> HIDE DEF q
  <2>7. v \in Raws /\ v - RawMin = q /\ q \in 0 .. Steps
    BY <2>2, <2>3, <1>0
  <2>r. \A x \in 0 .. Steps : GainAt(t, x) <= g <=> ~((G + 1) * R <= W * x)
    <3> SUFFICES ASSUME NEW x \in 0 .. Steps
                 PROVE  GainAt(t, x) <= g <=> ~((G + 1) * R <= W * x)
      OBVIOUS
    <3>1. GainAt(t, x) >= g + 1 <=> ((g + 1) - Low(t)) * Steps <= Span(t) * x
      BY <2>0, <1>0, GainReached
    <3>2. GainAt(t, x) >= g + 1 <=> (G + 1) * R <= W * x
      BY <3>1, <2>0, <1>0
    <3>3. GainAt(t, x) <= g <=> ~(GainAt(t, x) >= g + 1)
      BY <1>g
    <3> QED BY <3>2, <3>3
  <2>8. GainAt(t, v - RawMin) <= g
    BY <2>r, <2>3, <2>7
  <2>9. ASSUME NEW w \in Raws, GainAt(t, w - RawMin) <= g PROVE w <= v + 1
    <3> DEFINE x == w - RawMin
    <3>1. x \in 0 .. Steps /\ x \in Int /\ w = x + RawMin
      BY <1>w, <1>0
    <3>2. ~((G + 1) * R <= W * x)
      BY <2>9, <3>1, <2>r
    <3> HIDE DEF x
    <3>4. x <= q + 1
      BY <3>1, <3>2, <2>3
    <3> QED BY <3>1, <3>4, <2>2, <2>3, <1>0
  <2> QED BY <2>7, <2>8, <2>9 DEF Downward, v
<1> QED BY <1>1, <1>2, <1>3 DEF v

-----------------------------------------------------------------------------
(* The dB functions of the item. *)

\* A table that is simple is graded.
LEMMA SimpleGraded ==
    ASSUME GradedTables, DbOk, Simple
    PROVE  Graded(tlv.db)
<1>1. tlv \in Tables
  BY DEF DbOk
<1> QED BY <1>1 DEF GradedTables, Simple

\* Every value of a control with a graded table has a gain.
LEMMA GainIs ==
    ASSUME Graded(tlv.db)
    PROVE  /\ HasGain = Raws
           /\ \A v \in Raws : /\ Gain(v).val = GainAt(tlv.db, v - RawMin)
                              /\ GainAt(tlv.db, v - RawMin) \in Int
<1>1. \A v \in Raws : Gain(v) = Got(GainAt(tlv.db, v - RawMin)) /\ v - RawMin \in 0 .. Steps
  BY ToDbIs DEF Gain
<1>2. \A v \in Raws : /\ Gain(v).ret = 0
                      /\ Gain(v).val = GainAt(tlv.db, v - RawMin)
                      /\ GainAt(tlv.db, v - RawMin) \in Int
  BY <1>1, GainIn DEF Got
<1> QED BY <1>2 DEF HasGain

\* The value snd_tlv_convert_from_dB answers is rounded as asked.
LEMMA AnswerRounds ==
    ASSUME Graded(tlv.db), NEW g \in Int, NEW xdir \in Xdirs
    PROVE  /\ FromGain(tlv.db, g, xdir) \in Raws
           /\ Rounds(g, xdir, FromGain(tlv.db, g, xdir))
<1> DEFINE v == FromGain(tlv.db, g, xdir)
<1>0. HasGain = Raws /\ Raws \subseteq Int /\ xdir \in Int
  BY GainIs, VolumeConstants DEF Raws, Xdirs
<1>g. \A w \in Raws : Gain(w).val = GainAt(tlv.db, w - RawMin) /\ GainAt(tlv.db, w - RawMin) \in Int
  BY GainIs
<1>1. CASE xdir > 0
  <2> DEFINE enough == {w \in HasGain : Gain(w).val >= g}
  <2>1. v \in Raws /\ Upward(tlv.db, g, v)
    BY <1>0, <1>1, RoundsUp
  <2> HIDE DEF v
  <2>2. enough = {w \in Raws : GainAt(tlv.db, w - RawMin) >= g} /\ enough \subseteq Int
    BY <1>0, <1>g
  <2>3. RoundedUp(g) = IF enough = {} THEN RawMax ELSE CHOOSE w \in enough : \A u \in enough : w <= u
    BY DEF RoundedUp
  <2> HIDE DEF enough
  <2>4. CASE GainAt(tlv.db, v - RawMin) >= g /\ \A w \in Raws : GainAt(tlv.db, w - RawMin) >= g => v <= w
    <3>1. v \in enough /\ \A w \in enough : v <= w
      BY <2>1, <2>2, <2>4
    <3>2. \A w \in enough : (\A u \in enough : w <= u) => w = v
      BY <3>1, <2>2
    <3>3. (CHOOSE w \in enough : \A u \in enough : w <= u) = v
      BY <3>1, <3>2
    <3> QED BY <3>1, <3>3, <2>1, <2>3, <1>1 DEF Rounds, v
  <2>5. CASE v = RawMax /\ \A w \in Raws : ~(GainAt(tlv.db, w - RawMin) >= g)
    <3>1. enough = {}
      BY <2>2, <2>5
    <3> QED BY <3>1, <2>1, <2>3, <2>5, <1>1 DEF Rounds, v
  <2> QED BY <2>1, <2>4, <2>5 DEF Upward
<1>2. CASE ~(xdir > 0)
  <2>1. v \in Raws /\ Downward(tlv.db, g, v)
    BY <1>0, <1>2, RoundsDown
  <2> HIDE DEF v
  <2>2. RoundedDown(g, v)
    BY <2>1, <1>0, <1>g DEF RoundedDown, Downward
  <2> QED BY <2>1, <2>2, <1>2 DEF Rounds, v
<1> QED BY <1>1, <1>2

\* The bounds that are reported are gains of values, and no gain is outside of them.
LEMMA BoundsAre ==
    ASSUME Graded(tlv.db), NEW r, r = snd_tlv_get_dB_range(tlv.db, RawMin, RawMax)
    PROVE  /\ r.ret = 0
           /\ \A v \in HasGain : Gain(v).val \in r.min .. r.max
           /\ \E v \in HasGain : Gain(v).val = r.min
           /\ \E v \in HasGain : Gain(v).val = r.max
<1> DEFINE t == tlv.db
           lo == IF Mutes(t) THEN GAIN_MUTE ELSE Low(t)
           hi == Low(t) + Span(t)
<1>0. /\ Steps \in Int /\ 0 < Steps /\ Span(t) \in Int /\ Steps <= Span(t)
      /\ Low(t) \in Int /\ GAIN_MUTE \in Int /\ Step(t) \in Int
  BY GradedIs
<1>1. r = SimpleRange(t, RawMin, RawMax)
  BY DEF Graded, snd_tlv_get_dB_range, TLVT_DB_SCALE, TLVT_DB_RANGE, TLVT_DB_MINMAX,
         TLVT_DB_MINMAX_MUTE
<1>2. SimpleRange(t, RawMin, RawMax) = Bounds(lo, hi)
  <2>0. TLVT_DB_SCALE \notin {TLVT_DB_MINMAX, TLVT_DB_LINEAR} /\ TLVT_DB_SCALE # TLVT_DB_MINMAX_MUTE
    BY DEF TLVT_DB_SCALE, TLVT_DB_MINMAX, TLVT_DB_MINMAX_MUTE, TLVT_DB_LINEAR
  <2>1. CASE Word(t, 0) = TLVT_DB_SCALE
    <3>1. SimpleRange(t, RawMin, RawMax) =
            Bounds(IF Mute(t) THEN GAIN_MUTE ELSE Word(t, 2), Word(t, 2) + Step(t) * (RawMax - RawMin))
      BY <2>1, <2>0, Zenon DEF SimpleRange
    <3> QED BY <3>1, <2>1 DEF Mutes, Low, Span, Steps
  <2>2. CASE Word(t, 0) = TLVT_DB_MINMAX
    <3>1. SimpleRange(t, RawMin, RawMax) = Bounds(Word(t, 2), Word(t, 3))
      BY <2>2 DEF SimpleRange, TLVT_DB_SCALE, TLVT_DB_MINMAX, TLVT_DB_MINMAX_MUTE, TLVT_DB_LINEAR
    <3>2. lo = Word(t, 2) /\ hi = Word(t, 3)
      BY <2>2 DEF Mutes, Low, Span, Graded, TLVT_DB_SCALE, TLVT_DB_MINMAX, TLVT_DB_MINMAX_MUTE
    <3> QED BY <3>1, <3>2
  <2>3. CASE Word(t, 0) = TLVT_DB_MINMAX_MUTE
    <3>1. SimpleRange(t, RawMin, RawMax) = Bounds(GAIN_MUTE, Word(t, 3))
      BY <2>3 DEF SimpleRange, TLVT_DB_SCALE, TLVT_DB_MINMAX, TLVT_DB_MINMAX_MUTE, TLVT_DB_LINEAR
    <3>2. lo = GAIN_MUTE /\ hi = Word(t, 3)
      BY <2>3 DEF Mutes, Low, Span, Graded, TLVT_DB_SCALE, TLVT_DB_MINMAX, TLVT_DB_MINMAX_MUTE
    <3> QED BY <3>1, <3>2
  <2> QED BY <2>1, <2>2, <2>3 DEF Graded
<1>3. r.ret = 0 /\ r.min = lo /\ r.max = hi
  BY <1>1, <1>2 DEF Bounds
<1>4. 0 \in 0 .. Steps /\ Steps \in 0 .. Steps
  BY <1>0
<1>5. \A x \in 0 .. Steps : GainAt(t, x) \in lo .. hi
  BY <1>0, GainIn
<1>6. GainAt(t, 0) = lo /\ GainAt(t, Steps) = hi
  BY <1>4, GainIn
<1>7. \A v \in Raws : v - RawMin \in 0 .. Steps
  BY VolumeConstants DEF Raws, Steps
<1>8. RawMin \in Raws /\ RawMax \in Raws /\ RawMin - RawMin = 0 /\ RawMax - RawMin = Steps
  BY VolumeConstants DEF Raws, Steps
<1>9. HasGain = Raws /\ \A v \in Raws : Gain(v).val = GainAt(t, v - RawMin)
  BY GainIs
<1> HIDE DEF lo, hi, t
<1> QED BY <1>3, <1>5, <1>6, <1>7, <1>8, <1>9

\* The table the item has learnt is the control's, and it has learnt none if there is
\* none, or if reading it has failed.
LEMMA LearntIs ==
    ASSUME GradedTables, DbOk, DbKnown, init_db_info, tlv' = tlv
    PROVE  DbKnown' /\ db_info' \in {INVALID, tlv.db}
<1>1. CASE db_info # NONE
  BY <1>1 DEF DbKnown, init_db_info, info
<1>2. CASE db_info = NONE
  <2>1. /\ Parsed.ret > 0 /\ Parsed.at = 0 => FoundDb(tlv.words, Parsed) = tlv.db
        /\ ~(Parsed.ret > 0) => tlv.db = INVALID
    BY DEF DbOk, GradedTables, Parsed
  <2>2. \/ /\ Parsed.ret > 0 /\ Parsed.at = 0
           /\ db_info' = FoundDb(tlv.words, Parsed) /\ unread' = unread
        \/ db_info' = INVALID /\ unread' = (Parsed.ret > 0)
    BY <1>2 DEF init_db_info
  <2>3. CASE /\ Parsed.ret > 0 /\ Parsed.at = 0
             /\ db_info' = FoundDb(tlv.words, Parsed) /\ unread' = unread
    BY <2>1, <2>3 DEF DbKnown
  <2>4. CASE db_info' = INVALID /\ unread' = (Parsed.ret > 0)
    BY <2>1, <2>4 DEF DbKnown
  <2> QED BY <2>2, <2>3, <2>4
<1> QED BY <1>1, <1>2

\* With the control's own range, volumes are the values of the item.
PlainSame == Plain => \A ch \in Channels : usr[ch] = raw[ch]

\* The channels of a set_dB that are done have the value the gain converts to, the
\* one in progress has it in the item.
SettingRight ==
    pc \in {"update", "read", "write"} =>
        /\ call = NoCall
        /\ job.op = "set_dB" => db_info = tlv.db
        /\ job.op = "set_dB" /\ Simple /\ Plain =>
             \A ch \in job.channels :
                 \/ ch \in job.todo /\ ~(pc \in {"read", "write"} /\ ch = NextChannel)
                 \/ raw[ch] = FromGain(tlv.db, job.arg, job.xdir)

\* What calls have answered.
AnswerIs ==
    call.op = "ask_dB_vol" /\ call.ret = 0 /\ Simple =>
        /\ call.arg \in Gains /\ call.xdir \in Xdirs
        /\ call.val = FromGain(tlv.db, call.arg, call.xdir)
SetIs ==
    call.op = "set_dB" /\ call.ret = 0 /\ Simple /\ Plain =>
        /\ call.arg \in Gains /\ call.xdir \in Xdirs
        /\ \A ch \in call.channels : raw[ch] = FromGain(tlv.db, call.arg, call.xdir)
BoundsIs ==
    call.op = "get_dB_range" /\ call.ret = 0 =>
        LET r == snd_tlv_get_dB_range(tlv.db, RawMin, RawMax)
        IN  tlv.db # INVALID /\ call.val = r.min /\ call.max = r.max
CallRight == AnswerIs /\ SetIs /\ BoundsIs /\ DbGiven

GainInv == VolumeInv /\ DbKnown /\ PlainSame /\ SettingRight /\ CallRight

\* No call has returned.
LEMMA NoAnswer ==
    ASSUME call = NoCall
    PROVE  CallRight
BY DEF NoCall, CallRight, AnswerIs, SetIs, BoundsIs, DbGiven, Questions

\* A call that answers in one step, and sets no gain.
LEMMA AnswerKeeps ==
    ASSUME GainInv, pc = "idle", UNCHANGED <<kernel, item, pc, job, read>>, DbKnown', CallRight'
    PROVE  PlainSame' /\ SettingRight'
BY DEF GainInv, PlainSame, SettingRight, Plain, item

\* A call that is none of those that gains are asked for or set by.
LEMMA OtherAnswer ==
    ASSUME call'.op \notin Questions \cup {"set_dB"}
    PROVE  CallRight'
BY DEF CallRight, AnswerIs, SetIs, BoundsIs, DbGiven, Questions

\* A call that returns an error.
LEMMA ErrorAnswer ==
    ASSUME call'.ret # 0, DbGiven'
    PROVE  CallRight'
BY DEF CallRight, AnswerIs, SetIs, BoundsIs

\* Answers, in the fields of the call.
LEMMA AnswersAre ==
    ASSUME NEW op, NEW chs, NEW arg, NEW xdir, NEW err, NEW val, NEW max,
           Returns(op, chs, arg, xdir, err, val, max)
    PROVE  /\ call'.op = op /\ call'.channels = chs /\ call'.arg = arg /\ call'.xdir = xdir
           /\ call'.ret = err /\ call'.val = val /\ call'.max = max
BY DEF Returns

\* An item that is marked refuses a question, ...
LEMMA RefusalGiven ==
    ASSUME DbKnown', ~Known, call'.ret = EINVAL
    PROVE  DbGiven'
BY DEF DbKnown, Known, DbGiven, Simple

\* ... and one that has a table answers it.
LEMMA AnswerGiven ==
    ASSUME Known, Simple' => call'.ret = 0
    PROVE  DbGiven'
BY DEF Known, DbGiven

\* A question about the gain of one of the item's values.
LEMMA GainAnswered ==
    ASSUME GradedTables, DbOk, tlv' = tlv, DbKnown', db_info' \in {INVALID, tlv.db},
           NEW op, op \in {"get_dB", "ask_vol_dB"}, NEW v \in Raws,
           Answers(op, v, 0, IF Known THEN snd_tlv_convert_to_dB(db_info', RawMin, RawMax, v)
                             ELSE Refused)
    PROVE  CallRight'
<1> DEFINE r == IF Known THEN snd_tlv_convert_to_dB(db_info', RawMin, RawMax, v) ELSE Refused
<1>1. call'.op = op /\ call'.ret = r.ret
  BY AnswersAre DEF Answers
<1>2. CASE Known
  <2>1. Simple => r = Got(GainAt(tlv.db, v - RawMin))
    BY <1>2, SimpleGraded, ToDbIs DEF Known
  <2>2. Simple' => call'.ret = 0
    BY <1>1, <2>1 DEF Simple, Got
  <2>3. DbGiven'
    BY <1>2, <2>2, AnswerGiven
  <2> QED BY <1>1, <2>3 DEF CallRight, AnswerIs, SetIs, BoundsIs
<1>3. CASE ~Known
  <2>1. call'.ret = EINVAL
    BY <1>1, <1>3 DEF Refused
  <2>2. DbGiven'
    BY <1>3, <2>1, RefusalGiven
  <2> QED BY <1>1, <2>2 DEF CallRight, AnswerIs, SetIs, BoundsIs
<1> QED BY <1>2, <1>3

\* The dB functions answer from the control's table.
LEMMA DbCallsRight ==
    ASSUME GradedTables, GainInv, DbCalls
    PROVE  GainInv'
<1>0. /\ VolumeInv' /\ DbOk /\ DbKnown /\ VolumeInv
      /\ (Simple => Graded(tlv.db))
  BY DbCallsKeep, SimpleGraded DEF GainInv, VolumeInv
<1>1. init_db_info /\ tlv' = tlv => DbKnown' /\ db_info' \in {INVALID, tlv.db}
  BY <1>0, LearntIs
<1>e. EINVAL # 0
  BY DEF EINVAL
<1>2. CASE get_dB_range
  <2>1. pc = "idle" /\ UNCHANGED <<kernel, item, pc, job, read>> /\ init_db_info /\ tlv' = tlv
    BY <1>2 DEF get_dB_range, Idle, kernel
  <2>2. DbKnown' /\ db_info' \in {INVALID, tlv.db}
    BY <2>1, <1>1
  <2> DEFINE r == IF Known THEN snd_tlv_get_dB_range(db_info', RawMin, RawMax) ELSE NoBounds
  <2>3. Returns("get_dB_range", {}, 0, 0, r.ret, r.min, r.max)
    BY <1>2 DEF get_dB_range
  <2>4. call'.op = "get_dB_range" /\ call'.ret = r.ret /\ call'.val = r.min /\ call'.max = r.max
    BY <2>3, AnswersAre
  <2>5. CASE Known
    <3>1. r = snd_tlv_get_dB_range(tlv.db, RawMin, RawMax) /\ tlv.db # INVALID
      BY <2>2, <2>5 DEF Known
    <3> HIDE DEF r
    <3>2. AnswerIs' /\ SetIs'
      BY <2>4 DEF AnswerIs, SetIs
    <3>3. BoundsIs'
      BY <2>1, <2>4, <3>1 DEF BoundsIs
    <3>4. Simple' => call'.ret = 0
      BY <1>0, <2>1, <2>4, <3>1, BoundsAre DEF Simple
    <3>5. DbGiven'
      BY <2>5, <3>4, AnswerGiven
    <3> QED BY <1>0, <2>1, <2>2, <3>2, <3>3, <3>5, AnswerKeeps DEF GainInv, CallRight
  <2>6. CASE ~Known
    <3>1. call'.ret = EINVAL
      BY <2>4, <2>6 DEF NoBounds
    <3>2. DbGiven'
      BY <2>2, <2>6, <3>1, RefusalGiven
    <3> QED BY <1>0, <1>e, <2>1, <2>2, <3>1, <3>2, ErrorAnswer, AnswerKeeps DEF GainInv
  <2> QED BY <2>5, <2>6
<1>3. ASSUME NEW ch \in AnyChannel, get_dB(ch) PROVE GainInv'
  <2>1. pc = "idle" /\ UNCHANGED <<kernel, item, pc, job, read>> /\ init_db_info /\ tlv' = tlv
    BY <1>3 DEF get_dB, Idle, kernel, Answers
  <2> DEFINE v == raw[IF ch \in Channels THEN ch ELSE 0]
  <2>2. v \in Raws
    BY <1>0, VolumeConstants DEF VolumeInv, ValuesIn
  <2>3. Answers("get_dB", v, 0, IF Known THEN snd_tlv_convert_to_dB(db_info', RawMin, RawMax, v)
                                ELSE Refused)
    BY <1>3 DEF get_dB
  <2> HIDE DEF v
  <2>4. CallRight'
    BY <1>0, <1>1, <2>1, <2>2, <2>3, GainAnswered
  <2> QED BY <1>0, <1>1, <2>1, <2>4, AnswerKeeps DEF GainInv
<1>4. ASSUME NEW v \in Raws, ask_vol_dB(v) PROVE GainInv'
  <2>1. pc = "idle" /\ UNCHANGED <<kernel, item, pc, job, read>> /\ init_db_info /\ tlv' = tlv
    BY <1>4 DEF ask_vol_dB, Idle, kernel, Answers
  <2>2. CallRight'
    BY <1>0, <1>1, <1>4, <2>1, GainAnswered DEF ask_vol_dB
  <2> QED BY <1>0, <1>1, <2>1, <2>2, AnswerKeeps DEF GainInv
<1>5. ASSUME NEW g \in Gains, NEW x \in Xdirs, ask_dB_vol(g, x) PROVE GainInv'
  <2>1. pc = "idle" /\ UNCHANGED <<kernel, item, pc, job, read>> /\ init_db_info /\ tlv' = tlv
    BY <1>5 DEF ask_dB_vol, Idle, kernel, Answers
  <2>2. DbKnown' /\ db_info' \in {INVALID, tlv.db}
    BY <2>1, <1>1
  <2>3. PICK r \in IF Known THEN snd_tlv_convert_from_dB(db_info', RawMin, RawMax, g, x)
                   ELSE {Refused} : Returns("ask_dB_vol", {}, g, x, r.ret, r.val, 0)
    BY <1>5 DEF ask_dB_vol, Answers
  <2>4. /\ call'.op = "ask_dB_vol" /\ call'.ret = r.ret /\ call'.val = r.val /\ call'.arg = g
        /\ call'.xdir = x
    BY <2>3, AnswersAre
  <2>5. CASE ~Known
    <3>1. call'.ret = EINVAL
      BY <2>3, <2>4, <2>5 DEF Refused
    <3>2. DbGiven'
      BY <2>2, <2>5, <3>1, RefusalGiven
    <3> QED BY <1>0, <1>e, <2>1, <2>2, <3>1, <3>2, ErrorAnswer, AnswerKeeps DEF GainInv
  <2>6. CASE Known
    <3>1. r \in snd_tlv_convert_from_dB(tlv.db, RawMin, RawMax, g, x)
      BY <2>2, <2>3, <2>6 DEF Known
    <3>2. Simple => r = Got(FromGain(tlv.db, g, x))
      BY <3>1, <1>0, FromDbIs
    <3>3. Simple => call'.val = FromGain(tlv.db, g, x)
      BY <3>2, <2>4 DEF Got
    <3>4. AnswerIs'
      BY <2>1, <2>4, <3>3 DEF AnswerIs, Simple
    <3>5. SetIs' /\ BoundsIs'
      BY <2>4 DEF SetIs, BoundsIs
    <3>6. Simple' => call'.ret = 0
      BY <2>1, <2>4, <3>2 DEF Simple, Got
    <3>7. DbGiven'
      BY <2>6, <3>6, AnswerGiven
    <3> QED BY <1>0, <2>1, <2>2, <3>4, <3>5, <3>7, AnswerKeeps DEF GainInv, CallRight
  <2> QED BY <2>5, <2>6
<1>6. ASSUME NEW g \in Gains, NEW x \in Xdirs, NEW chs \in Some, set_dB(chs, g, x)
      PROVE  GainInv'
  <2>1. pc = "idle" /\ init_db_info /\ tlv' = tlv /\ call = NoCall
    BY <1>6 DEF set_dB, Idle, kernel, Sets, Answers
  <2>2. DbKnown' /\ db_info' \in {INVALID, tlv.db}
    BY <2>1, <1>1
  <2>3. CASE Known
    <3>1. Sets("set_dB", chs, g, x)
      BY <1>6, <2>3 DEF set_dB
    <3>2. /\ UNCHANGED <<kernel, item, read, call>> /\ pc' = "update"
          /\ job' = [op |-> "set_dB", todo |-> chs, channels |-> chs, arg |-> g, xdir |-> x]
      BY <3>1 DEF Sets
    <3>3. job'.todo = job'.channels
      BY <3>2
    <3>4. SettingRight'
      BY <2>1, <2>2, <2>3, <3>2, <3>3 DEF SettingRight, Known
    <3>5. CallRight'
      BY <2>1, <3>2 DEF NoCall, CallRight, AnswerIs, SetIs, BoundsIs, DbGiven, Questions
    <3>6. PlainSame'
      BY <3>2 DEF GainInv, PlainSame, Plain, item
    <3> QED BY <1>0, <2>2, <3>4, <3>5, <3>6 DEF GainInv
  <2>4. CASE ~Known
    <3>1. UNCHANGED <<kernel, item, pc, job, read>> /\ Returns("set_dB", {}, g, x, Refused.ret, Refused.val, 0)
      BY <1>6, <2>4 DEF set_dB, Answers
    <3>2. call'.ret # 0
      <4>1. call'.ret = Refused.ret
        BY <3>1, AnswersAre
      <4> QED BY <4>1, <1>e DEF Refused
    <3>3. DbGiven'
      <4>1. call'.op = "set_dB"
        BY <3>1, AnswersAre
      <4> QED BY <4>1 DEF DbGiven, Questions
    <3> QED BY <1>0, <2>1, <2>2, <3>1, <3>2, <3>3, ErrorAnswer, AnswerKeeps DEF GainInv
  <2> QED BY <2>3, <2>4
<1>7. CASE init_db_info_frees
  <2>1. UNCHANGED <<kernel, item, info, job, read, call>> /\ pc' = "undefined" /\ call = NoCall
    BY <1>7 DEF init_db_info_frees, Idle
  <2>2. PlainSame' /\ DbKnown' /\ SettingRight'
    BY <2>1 DEF GainInv, PlainSame, DbKnown, SettingRight, Plain, kernel, item, info
  <2>3. CallRight'
    BY <2>1 DEF NoCall, CallRight, AnswerIs, SetIs, BoundsIs, DbGiven, Questions
  <2> QED BY <1>0, <2>2, <2>3 DEF GainInv
<1> QED BY <1>2, <1>3, <1>4, <1>5, <1>6, <1>7 DEF DbCalls

\* The functions of the control interface answer nothing of the item.
LEMMA ControlCallsRight ==
    ASSUME GainInv, ControlCalls
    PROVE  GainInv'
<1>0. VolumeInv'
  BY ControlCallsKeep DEF GainInv
<1>1. /\ pc = "idle" /\ UNCHANGED <<kernel, item, info, pc, job, read>>
      /\ call'.op \in {"ctl_get_dB_range", "ctl_to_dB", "ctl_from_dB"}
  <2>1. CASE ctl_get_dB_range
    BY <2>1 DEF ctl_get_dB_range, FromStack, Answers, Idle, Returns
  <2>2. ASSUME NEW v \in Raws, ctl_convert_to_dB(v)
        PROVE  /\ pc = "idle" /\ UNCHANGED <<kernel, item, info, pc, job, read>>
               /\ call'.op \in {"ctl_get_dB_range", "ctl_to_dB", "ctl_from_dB"}
    BY <2>2 DEF ctl_convert_to_dB, FromStack, Answers, Idle, Returns
  <2>3. ASSUME NEW g \in Gains, NEW x \in Xdirs, ctl_convert_from_dB(g, x)
        PROVE  /\ pc = "idle" /\ UNCHANGED <<kernel, item, info, pc, job, read>>
               /\ call'.op \in {"ctl_get_dB_range", "ctl_to_dB", "ctl_from_dB"}
    BY <2>3 DEF ctl_convert_from_dB, FromStack, Answers, Idle, Returns
  <2> QED BY <2>1, <2>2, <2>3 DEF ControlCalls
<1>2. DbKnown'
  BY <1>1 DEF GainInv, DbKnown, kernel, info
<1>3. CallRight'
  BY <1>1, OtherAnswer DEF Questions
<1> QED BY <1>0, <1>1, <1>2, <1>3, AnswerKeeps DEF GainInv

\* Volumes are read and set, and ranges chosen.
LEMMA VolumeCallsRight ==
    ASSUME GainInv, VolumeCalls
    PROVE  GainInv'
<1>0. VolumeInv' /\ VolumeInv
  BY VolumeCallsKeep DEF GainInv
<1>1. ASSUME NEW r \in UserRanges, set_volume_range(r) PROVE GainInv'
  <2>1. /\ pc = "idle" /\ pc' = pc /\ call = NoCall /\ call' = call /\ tlv' = tlv /\ UNCHANGED info
        /\ raw' = raw /\ range' = r /\ usr' = [ch \in Channels |-> convert_to_user(r, raw[ch])]
    BY <1>1 DEF set_volume_range, Idle, kernel
  <2>2. DbKnown' /\ SettingRight'
    BY <2>1 DEF GainInv, DbKnown, SettingRight, info
  <2>3. PlainSame'
    BY <2>1 DEF PlainSame, Plain, convert_to_user
  <2>4. CallRight'
    BY <2>1 DEF NoCall, CallRight, AnswerIs, SetIs, BoundsIs, DbGiven, Questions
  <2> QED BY <1>0, <2>2, <2>3, <2>4 DEF GainInv
<1>2. ASSUME NEW ch \in AnyChannel, get_volume(ch) PROVE GainInv'
  <2>1. pc = "idle" /\ UNCHANGED <<kernel, item, info, pc, job, read>>
    BY <1>2 DEF get_volume, Idle
  <2>2. call'.op = "get_volume"
    BY <1>2 DEF get_volume, Returns
  <2>3. DbKnown'
    BY <2>1 DEF GainInv, DbKnown, kernel, info
  <2>4. CallRight'
    BY <2>2, OtherAnswer DEF Questions
  <2> QED BY <1>0, <2>1, <2>3, <2>4, AnswerKeeps DEF GainInv
<1>3. ASSUME NEW chs \in Some, NEW v \in range.min - 1 .. range.max + 1, set_volume(chs, v)
      PROVE  GainInv'
  <2>1. /\ pc = "idle" /\ call = NoCall /\ UNCHANGED info /\ Sets("set_volume", chs, v, 0)
    BY <1>3 DEF set_volume, Idle
  <2>2. /\ UNCHANGED <<kernel, item, read, call>> /\ pc' = "update"
        /\ job' = [op |-> "set_volume", todo |-> chs, channels |-> chs, arg |-> v, xdir |-> 0]
    BY <2>1 DEF Sets
  <2>3. job'.op # "set_dB"
    BY <2>2
  <2>4. SettingRight'
    BY <2>1, <2>2, <2>3 DEF SettingRight
  <2>5. CallRight'
    BY <2>1, <2>2 DEF NoCall, CallRight, AnswerIs, SetIs, BoundsIs, DbGiven, Questions
  <2>6. PlainSame' /\ DbKnown'
    BY <2>1, <2>2 DEF GainInv, PlainSame, Plain, item, DbKnown, kernel, info
  <2> QED BY <1>0, <2>4, <2>5, <2>6 DEF GainInv
<1> QED BY <1>1, <1>2, <1>3 DEF VolumeCalls

\* Nothing is asked for by the events of the device, or before the next call.
LEMMA EventsRight ==
    ASSUME GainInv, GoOn \/ UNCHANGED vars \/ Update \/ UpdateMissed
           \/ (\E ch \in Channels, v \in Raws : Varies(ch, v))
    PROVE  GainInv'
<1>0. VolumeInv'
  <2>1. CASE GoOn \/ Update \/ UpdateMissed \/ (\E ch \in Channels, v \in Raws : Varies(ch, v))
    BY <2>1, VolumeStep DEF Next, GainInv
  <2>2. CASE UNCHANGED vars
    BY <2>2, VolumeStep DEF GainInv
  <2> QED BY <2>1, <2>2
<1>1. CASE GoOn
  <2>1. call' = NoCall /\ UNCHANGED <<kernel, item, info, pc, job, read>> /\ call # NoCall
    BY <1>1 DEF GoOn
  <2>2. PlainSame' /\ DbKnown'
    BY <2>1 DEF GainInv, PlainSame, DbKnown, kernel, item, info, Plain
  <2>3. SettingRight'
    BY <2>1 DEF GainInv, SettingRight
  <2>4. CallRight'
    BY <2>1 DEF NoCall, CallRight, AnswerIs, SetIs, BoundsIs, DbGiven, Questions
  <2> QED BY <1>0, <2>2, <2>3, <2>4 DEF GainInv
<1>2. CASE UNCHANGED vars \/ (\E ch \in Channels, v \in Raws : Varies(ch, v))
  <2>1. UNCHANGED <<tlv, range, raw, usr, stale, db_info, unread, pc, job, read, call>>
    BY <1>2 DEF vars, Varies, item, info
  <2>2. PlainSame' /\ DbKnown'
    BY <2>1 DEF GainInv, PlainSame, DbKnown, Plain
  <2>3. SettingRight'
    BY <2>1 DEF GainInv, SettingRight, Simple, Plain, NextChannel
  <2>4. CallRight'
    BY <2>1 DEF GainInv, CallRight, AnswerIs, SetIs, BoundsIs, DbGiven, Simple, Plain
  <2> QED BY <1>0, <2>2, <2>3, <2>4 DEF GainInv
<1>3. CASE Update
  <2>1. /\ pc = "idle" /\ call = NoCall /\ pc' = pc /\ call' = call /\ range' = range /\ raw' = control
        /\ usr' = [ch \in Channels |-> convert_to_user(range, control[ch])]
        /\ tlv' = tlv /\ UNCHANGED info
    BY <1>3 DEF Update, Idle
  <2>2. PlainSame'
    BY <2>1 DEF PlainSame, Plain, convert_to_user
  <2>3. SettingRight' /\ DbKnown'
    BY <2>1 DEF GainInv, SettingRight, DbKnown, info
  <2>4. CallRight'
    BY <2>1 DEF NoCall, CallRight, AnswerIs, SetIs, BoundsIs, DbGiven, Questions
  <2> QED BY <1>0, <2>2, <2>3, <2>4 DEF GainInv
<1>4. CASE UpdateMissed
  <2>1. /\ pc = "idle" /\ call = NoCall
        /\ UNCHANGED <<tlv, range, raw, usr, info, pc, job, call>>
    BY <1>4 DEF UpdateMissed, Idle
  <2>2. PlainSame' /\ SettingRight' /\ DbKnown'
    BY <2>1 DEF GainInv, PlainSame, SettingRight, DbKnown, Plain, info
  <2>3. CallRight'
    BY <2>1 DEF NoCall, CallRight, AnswerIs, SetIs, BoundsIs, DbGiven, Questions
  <2> QED BY <1>0, <2>2, <2>3 DEF GainInv
<1> QED BY <1>1, <1>2, <1>3, <1>4

\* What a loop that has done a channel goes on with.
LEMMA GoesOn ==
    ASSUME JobOk, NEW n, job' = [job EXCEPT !.todo = @ \ {n}]
    PROVE  /\ job'.todo = job.todo \ {n} /\ job'.channels = job.channels /\ job'.op = job.op
           /\ job'.arg = job.arg /\ job'.xdir = job.xdir
BY DEF JobOk

\* A channel of a set_dB: the item takes the value the gain converts to, or has it.
LEMMA UpdateVolumeRight ==
    ASSUME GradedTables, GainInv, UpdateVolume
    PROVE  GainInv'
<1> DEFINE n == NextChannel
<1>0. /\ VolumeInv' /\ VolumeInv /\ ValuesIn /\ UserIn /\ JobOk /\ DbOk /\ range \in ItemRanges
      /\ n \in Channels /\ n \in job.todo /\ pc = "update" /\ PlainSame /\ SettingRight
      /\ call = NoCall
  BY UpdateVolumeKeeps, NextIs DEF GainInv, VolumeInv, UpdateVolume, ValuesIn, SettingRight
<1>k. /\ control' = control /\ tlv' = tlv /\ changed' = changed /\ db_info' = db_info
      /\ read' = read
  BY DEF UpdateVolume, kernel, info
<1>d. DbKnown'
  BY <1>k DEF GainInv, DbKnown, UpdateVolume, info
<1>j. job.op \in {"set_volume", "set_dB"}
  BY <1>0 DEF JobOk
<1>1. PICK a \in Asked :
        IF a.ret < 0 THEN EndsWith(a.ret) /\ UNCHANGED item
        ELSE /\ UNCHANGED call
             /\ IF NothingToDo(n, a.val) THEN UNCHANGED item ELSE Stored(n, a.val)
             /\ IF NothingToDo(n, a.val) \/ convert_from_user(range, a.val) = raw[n]
                THEN pc' = pc /\ job' = [job EXCEPT !.todo = @ \ {n}]
                ELSE pc' = "read" /\ UNCHANGED job
  BY DEF UpdateVolume
<1>a. a.ret \in Int /\ (a.ret >= 0 => a.val \in Int)
  BY <1>0, AskedIs
<1> HIDE DEF n
<1>2. CASE a.ret < 0
  <2>1. /\ UNCHANGED item /\ pc' = "idle"
        /\ Returns(job.op, job.channels, job.arg, job.xdir, a.ret, 0, 0)
    BY <1>1, <1>2 DEF EndsWith
  <2>2. call'.ret # 0
    BY <2>1, <1>2, <1>a DEF Returns
  <2>3. PlainSame' /\ SettingRight'
    BY <1>0, <2>1 DEF PlainSame, Plain, item, SettingRight
  <2>4. DbGiven'
    BY <1>j, <2>1, AnswersAre DEF DbGiven, Questions
  <2> QED BY <1>0, <1>d, <2>2, <2>3, <2>4, ErrorAnswer DEF GainInv
<1>3. CASE ~(a.ret < 0)
  <2> DEFINE v == a.val
  <2>0. v \in Int /\ call' = NoCall
    BY <1>a, <1>0, <1>1, <1>3
  <2>c. CallRight'
    BY <2>0 DEF NoCall, CallRight, AnswerIs, SetIs, BoundsIs, DbGiven, Questions
  <2>p. Plain => convert_from_user(range, v) = v
    BY DEF Plain, convert_from_user
  <2>v. job.op = "set_dB" /\ Simple /\ Plain =>
          v = FromGain(tlv.db, job.arg, job.xdir) /\ v \in Raws
    <3> SUFFICES ASSUME job.op = "set_dB", Simple, Plain
                 PROVE  v = FromGain(tlv.db, job.arg, job.xdir) /\ v \in Raws
      OBVIOUS
    <3>1. Graded(tlv.db) /\ db_info = tlv.db /\ job.arg \in Gains /\ job.xdir \in Xdirs
      BY <1>0, SimpleGraded DEF SettingRight, JobOk
    <3>2. PICK r \in snd_tlv_convert_from_dB(db_info, RawMin, RawMax, job.arg, job.xdir) :
             a = IF r.ret < 0 THEN r ELSE Got(convert_to_user(range, r.val))
      BY Zenon DEF Asked
    <3>3. r = Got(FromGain(tlv.db, job.arg, job.xdir))
      BY <3>1, <3>2, FromDbIs
    <3>4. convert_to_user(range, r.val) = r.val
      BY DEF Plain, convert_to_user
    <3>5. r.ret = 0 /\ r.val = FromGain(tlv.db, job.arg, job.xdir)
      BY <3>3 DEF Got
    <3>6. a = Got(r.val)
      BY <3>2, <3>4, <3>5
    <3>7. v = FromGain(tlv.db, job.arg, job.xdir)
      BY <3>5, <3>6 DEF Got
    <3>8. job.arg \in Int
      BY <3>1, VolumeConstants
    <3> QED BY <3>1, <3>7, <3>8, AnswerRounds
  <2> HIDE DEF v
  <2>4. CASE NothingToDo(n, v)
    <3>1. UNCHANGED item /\ pc' = "update" /\ job' = [job EXCEPT !.todo = @ \ {n}]
      BY <1>0, <1>1, <1>3, <2>4 DEF v
    <3>2. PlainSame'
      BY <1>0, <3>1 DEF PlainSame, Plain, item
    <3>j. job'.todo = job.todo \ {n} /\ job'.channels = job.channels /\ job'.op = job.op
          /\ job'.arg = job.arg /\ job'.xdir = job.xdir
      BY <3>1, <1>0, GoesOn
    <3>3. job.op = "set_dB" /\ Simple /\ Plain => raw[n] = FromGain(tlv.db, job.arg, job.xdir)
      <4> SUFFICES ASSUME job.op = "set_dB", Simple, Plain
                   PROVE  raw[n] = FromGain(tlv.db, job.arg, job.xdir)
        OBVIOUS
      <4>1. v \in Raws /\ range.min = RawMin /\ range.max = RawMax
        BY <2>v DEF Plain
      <4>2. v = usr[n]
        BY <4>1, <2>4, VolumeConstants DEF NothingToDo, Raws
      <4> QED BY <4>2, <2>v, <1>0 DEF PlainSame
    <3>4. SettingRight'
      BY <1>0, <1>k, <2>0, <3>1, <3>3, <3>j DEF SettingRight, Simple, Plain, item
    <3> QED BY <1>0, <1>d, <2>c, <3>2, <3>4 DEF GainInv
  <2>5. CASE ~NothingToDo(n, v)
    <3> DEFINE w == convert_from_user(range, v)
    <3>1. /\ usr' = [usr EXCEPT ![n] = v] /\ raw' = [raw EXCEPT ![n] = w]
          /\ range' = range
      BY <1>1, <1>3, <2>5 DEF Stored, v
    <3>2. IF w = raw[n] THEN pc' = "update" /\ job' = [job EXCEPT !.todo = @ \ {n}]
          ELSE pc' = "read" /\ job' = job
      BY <1>0, <1>1, <1>3, <2>5 DEF v
    <3>w. Plain => w = v
      BY <2>p
    <3> HIDE DEF w
    <3>3. PlainSame'
      BY <1>0, <3>1, <3>w DEF PlainSame, Plain, ValuesIn
    <3>4. CASE w = raw[n]
      <4>1. pc' = "update" /\ job' = [job EXCEPT !.todo = @ \ {n}] /\ raw' = raw
        BY <3>1, <3>2, <3>4, <1>0 DEF ValuesIn
      <4>j. job'.todo = job.todo \ {n} /\ job'.channels = job.channels /\ job'.op = job.op
            /\ job'.arg = job.arg /\ job'.xdir = job.xdir
        BY <4>1, <1>0, GoesOn
      <4>2. SettingRight'
        BY <1>0, <1>k, <2>0, <2>v, <3>1, <3>4, <3>w, <4>1, <4>j DEF SettingRight, Simple, Plain
      <4> QED BY <1>0, <1>d, <2>c, <3>3, <4>2 DEF GainInv
    <3>5. CASE w # raw[n]
      <4>1. pc' = "read" /\ job' = job
        BY <3>2, <3>5
      <4>2. NextChannel' = n /\ raw'[n] = w
        BY <4>1, <3>1, <1>0 DEF NextChannel, n, ValuesIn
      <4>3. \A ch : ch # n => raw'[ch] = raw[ch]
        BY <3>1
      <4>4. SettingRight'
        BY <1>0, <1>k, <2>0, <2>v, <3>1, <3>w, <4>1, <4>2, <4>3 DEF SettingRight, Simple, Plain
      <4> QED BY <1>0, <1>d, <2>c, <3>3, <4>4 DEF GainInv
    <3> QED BY <3>4, <3>5
  <2> QED BY <2>4, <2>5
<1> QED BY <1>2, <1>3

\* The two ioctls, and the end of the loop.
LEMMA IoctlsRight ==
    ASSUME GainInv, ReadValues \/ WriteValues \/ UpdateFails \/ UpdateEnds
    PROVE  GainInv'
<1>0. VolumeInv' /\ VolumeInv /\ JobOk /\ SettingRight /\ PlainSame
  BY ReadKeeps, WriteKeeps, FailKeeps, EndKeeps DEF GainInv, VolumeInv
<1>1. tlv' = tlv /\ range' = range /\ raw' = raw /\ usr' = usr /\ UNCHANGED info
  BY DEF ReadValues, WriteValues, UpdateFails, UpdateEnds, kernel, item
<1>2. PlainSame' /\ DbKnown'
  BY <1>0, <1>1 DEF PlainSame, Plain, GainInv, DbKnown, info
<1>3. CASE ReadValues
  <2>1. pc = "read" /\ pc' = "write" /\ job' = job /\ call' = call
    BY <1>3 DEF ReadValues
  <2>2. SettingRight' /\ call' = NoCall
    BY <1>0, <1>1, <2>1 DEF SettingRight, Simple, Plain, NextChannel, info
  <2>3. CallRight'
    BY <2>2 DEF NoCall, CallRight, AnswerIs, SetIs, BoundsIs, DbGiven, Questions
  <2> QED BY <1>0, <1>2, <2>2, <2>3 DEF GainInv
<1>4. CASE WriteValues
  <2>1. pc = "write" /\ pc' = "update" /\ call' = call /\ job' = [job EXCEPT !.todo = @ \ {NextChannel}]
    BY <1>4 DEF WriteValues
  <2>j. job'.todo = job.todo \ {NextChannel} /\ job'.channels = job.channels /\ job'.op = job.op
        /\ job'.arg = job.arg /\ job'.xdir = job.xdir
    BY <2>1, <1>0, GoesOn
  <2>2. SettingRight' /\ call' = NoCall
    BY <1>0, <1>1, <2>1, <2>j DEF SettingRight, Simple, Plain, info
  <2>3. CallRight'
    BY <2>2 DEF NoCall, CallRight, AnswerIs, SetIs, BoundsIs, DbGiven, Questions
  <2> QED BY <1>0, <1>2, <2>2, <2>3 DEF GainInv
<1>5. CASE UpdateFails
  <2>1. pc' = "idle" /\ Returns(job.op, job.channels, job.arg, job.xdir, EINVAL, 0, 0)
    BY <1>5 DEF UpdateFails, EndsWith
  <2>2. SettingRight' /\ call'.ret # 0
    BY <2>1 DEF SettingRight, Returns, EINVAL
  <2>3. job.op \in {"set_volume", "set_dB"}
    BY <1>0, <1>5 DEF JobOk, UpdateFails
  <2>4. DbGiven'
    BY <2>1, <2>3, AnswersAre DEF DbGiven, Questions
  <2> QED BY <1>0, <1>2, <2>2, <2>4, ErrorAnswer DEF GainInv
<1>6. CASE UpdateEnds
  <2>1. /\ pc = "update" /\ job.todo = {} /\ pc' = "idle"
        /\ Returns(job.op, job.channels, job.arg, job.xdir, 0, 0, 0)
    BY <1>6 DEF UpdateEnds, EndsWith
  <2>2. /\ call'.op = job.op /\ call'.channels = job.channels /\ call'.arg = job.arg
        /\ call'.xdir = job.xdir
    BY <2>1, AnswersAre
  <2>3. job.op \in {"set_volume", "set_dB"}
    BY <1>0, <2>1 DEF JobOk
  <2>4. SetIs'
    BY <1>0, <1>1, <2>1, <2>2 DEF SetIs, SettingRight, JobOk, Simple, Plain
  <2>5. AnswerIs' /\ BoundsIs' /\ DbGiven'
    BY <2>2, <2>3 DEF AnswerIs, BoundsIs, DbGiven, Questions
  <2>6. SettingRight'
    BY <2>1 DEF SettingRight
  <2> QED BY <1>0, <1>2, <2>4, <2>5, <2>6 DEF GainInv, CallRight
<1> QED BY <1>3, <1>4, <1>5, <1>6

\* Nothing has been asked at the start, ...
LEMMA GainStart ==
    ASSUME GradedTables, Init
    PROVE  GainInv
<1>1. VolumeInv
  BY VolumeInit
<1>2. DbKnown /\ PlainSame /\ SettingRight /\ call = NoCall
  BY DEF Init, DbKnown, PlainSame, SettingRight, NONE, INVALID
<1> QED BY <1>1, <1>2, NoAnswer DEF GainInv

\* ... and every step of the item, of the device and of other processes keeps answers
\* and gains right.
LEMMA GainStep ==
    ASSUME GradedTables, GainInv, [Next]_vars
    PROVE  GainInv'
<1>1. CASE GoOn \/ UNCHANGED vars \/ Update \/ UpdateMissed
           \/ (\E ch \in Channels, v \in Raws : Varies(ch, v))
  BY <1>1, EventsRight
<1>2. CASE VolumeCalls
  BY <1>2, VolumeCallsRight
<1>3. CASE DbCalls
  BY <1>3, DbCallsRight
<1>4. CASE ControlCalls
  BY <1>4, ControlCallsRight
<1>5. CASE UpdateVolume
  BY <1>5, UpdateVolumeRight
<1>6. CASE ReadValues \/ WriteValues \/ UpdateFails \/ UpdateEnds
  BY <1>6, IoctlsRight
<1> QED BY <1>1, <1>2, <1>3, <1>4, <1>5, <1>6 DEF Next

\* GainInv holds in every state, for the tables drivers have.
LEMMA GainInvariant ==
    ASSUME GradedTables
    PROVE  Spec => []GainInv
BY GainStart, GainStep, PTL DEF Spec

\* The invariant gives what a run checks of gains, ...
LEMMA GainsRounded ==
    ASSUME GradedTables, GainInv
    PROVE  DbKnown /\ DbGiven /\ AnswersRounded /\ GainSet
<1>0. DbKnown /\ DbGiven /\ AnswerIs /\ SetIs /\ (Simple => Graded(tlv.db)) /\ Gains \subseteq Int
  BY SimpleGraded, VolumeConstants DEF GainInv, VolumeInv, CallRight
<1>1. AnswersRounded
  BY <1>0, AnswerRounds DEF AnswerIs, AnswersRounded
<1>2. GainSet
  <2> SUFFICES ASSUME call.op = "set_dB", call.ret = 0, Simple, Plain, NEW ch \in call.channels
               PROVE  Rounds(call.arg, call.xdir, raw[ch])
    BY DEF GainSet
  <2>1. /\ call.arg \in Int /\ call.xdir \in Xdirs /\ Graded(tlv.db)
        /\ raw[ch] = FromGain(tlv.db, call.arg, call.xdir)
    BY <1>0 DEF SetIs
  <2> QED BY <2>1, AnswerRounds
<1> QED BY <1>0, <1>1, <1>2

\* ... and of their bounds, where there are no lists of ranges.
LEMMA BoundsExact ==
    ASSUME GradedTables, NoLists, GainInv
    PROVE  BoundsTight
<1> SUFFICES ASSUME call.op = "get_dB_range", call.ret = 0
             PROVE  /\ \A v \in HasGain : Gain(v).val \in call.val .. call.max
                    /\ \E v \in HasGain : Gain(v).val = call.val
                    /\ \E v \in HasGain : Gain(v).val = call.max
  BY DEF BoundsTight
<1>1. tlv \in Tables /\ BoundsIs /\ DbOk
  BY DEF GainInv, VolumeInv, DbOk, CallRight
<1>2. Simple
  BY <1>1 DEF NoLists, Simple, BoundsIs
<1>3. Graded(tlv.db)
  BY <1>1, <1>2, SimpleGraded
<1> QED BY <1>1, <1>2, <1>3, BoundsAre DEF BoundsIs

\* A gain that is asked for, or set on any channels, is rounded as asked: up to the
\* lowest value that is loud enough, or down to within one value of the loudest that
\* is not too loud, whatever other processes do meanwhile (_snd_selem_ask_dB_vol,
\* _snd_selem_vol_set_dB).  A question is answered from the control's table, or refused
\* by an item that init_db_info has marked, which it marks only where there is no table
\* or could not be read.  With a table in a container nothing is claimed from the free
\* of an interior pointer on: init_db_info_frees is the last dB call then.
THEOREM VolumeGainsRounded ==
    ASSUME GradedTables
    PROVE  Spec => [](DbKnown /\ DbGiven /\ AnswersRounded /\ GainSet)
BY GainInvariant, GainsRounded, PTL

-----------------------------------------------------------------------------
(* Calls and what they return. *)

Kinds == {"pcm", "rawmidi", "hwdep", "ctl"}
NextCall == [op : {"next"}, at : Nat]
IndexCall == [op : {"index"}, name : DevNames, kind : Kinds, at : Nat]

\* The elements of a list that has grown by one.
LEMMA AppendSet ==
    ASSUME NEW S, NEW s \in Seq(S), NEW c \in S
    PROVE  /\ C!ToSet(Append(s, c)) = C!ToSet(s) \cup {c}
           /\ Append(s, c) \in Seq(S)
<1> DEFINE t == Append(s, c)
<1>1. t \in Seq(S) /\ Len(t) = Len(s) + 1 /\ t[Len(t)] = c /\ Len(s) \in Nat
  OBVIOUS
<1>2. \A i \in 1 .. Len(s) : t[i] = s[i]
  OBVIOUS
<1>3. DOMAIN t = 1 .. Len(t) /\ DOMAIN s = 1 .. Len(s)
  OBVIOUS
<1> HIDE DEF t
<1>4. \A i : i \in DOMAIN t <=> i \in DOMAIN s \/ i = Len(t)
  BY <1>1, <1>3
<1>5. C!ToSet(t) = C!ToSet(s) \cup {c}
  BY <1>1, <1>2, <1>3, <1>4 DEF C!ToSet
<1> QED BY <1>1, <1>5 DEF t

\* A list whose numbers grow.
Growing(s) == \A i, j \in 1 .. Len(s) : i < j => s[i] < s[j]

\* A growing list stays one when a number above all of its own is added.
LEMMA AppendGrowing ==
    ASSUME NEW s \in Seq(Nat), Growing(s), NEW c \in Nat, \A d \in C!ToSet(s) : d < c
    PROVE  Growing(Append(s, c))
<1> DEFINE t == Append(s, c)
<1>1. t \in Seq(Nat) /\ Len(t) = Len(s) + 1 /\ t[Len(t)] = c /\ Len(s) \in Nat
  OBVIOUS
<1>2. \A i \in 1 .. Len(s) : t[i] = s[i] /\ s[i] \in C!ToSet(s)
  BY DEF C!ToSet
<1> HIDE DEF t
<1>3. ASSUME NEW i \in 1 .. Len(t), NEW j \in 1 .. Len(t), i < j PROVE t[i] < t[j]
  <2>1. i \in 1 .. Len(s)
    BY <1>1, <1>3
  <2>2. CASE j = Len(t)
    BY <1>1, <1>2, <2>1, <2>2
  <2>3. CASE j # Len(t)
    <3>1. j \in 1 .. Len(s)
      BY <1>1, <2>3
    <3> QED BY <1>2, <1>3, <2>1, <3>1 DEF Growing
  <2> QED BY <2>2, <2>3
<1> QED BY <1>3 DEF Growing, t

-----------------------------------------------------------------------------
(* The inductive invariant. *)

\* The state of the kernel, of the application's list, and the call in progress.
StateIs ==
    /\ id \in [C!CardNumbers -> Ids \cup {C!NoCard}]
    /\ call \in {C!Idle} \cup NextCall \cup IndexCall /\ (call # C!Idle => ret = C!Idle)
    /\ rcard \in {-1} \cup C!CardNumbers
    /\ seen \in Seq(Nat) /\ Growing(seen)
    /\ steady \subseteq C!Cards

\* Where the list has got to, and with it every card that stays and is below.
Reached == IF call.op = "next" THEN call.at ELSE rcard + 1
ListSoFar ==
    call.op = "next" \/ rcard # -1 =>
        /\ \A c \in C!ToSet(seen) : c < Reached
        /\ \A c \in steady : c < Reached => c \in C!ToSet(seen)

\* No card that stays and is below the one a search is at has the id.
SearchSoFar ==
    call.op = "index" /\ call.name.by = "id" /\ C!Bare(call.name) =>
        \A c \in steady : c < call.at => id[c] # call.name.value

\* What is true of the devices found, whatever the list is at.
FoundTrue ==
    ret.op = "device" /\ C!KnownPrefix(ret.name) =>
        /\ ret.err = C!ENODEV /\ ret.name.by = "id" /\ C!Bare(ret.name) =>
             \A c \in steady : id[c] # ret.name.value
        /\ ret.err = C!ENODEV /\ ret.name.by = "path" /\ C!Bare(ret.name) =>
             ret.name.value \notin steady
        /\ ret.err = C!ENODEV /\ ret.name.by = "number" => ret.name.value \notin steady
        /\ ret.name.by \in {"id", "path"} /\ ~C!Bare(ret.name) => ret.err = C!ENODEV
        /\ ret.err = 0 /\ ret.name.by \in {"number", "path"} => ret.card = ret.name.value
        /\ ret.err = 0 /\ ret.name.by = "id" /\ ret.card \in steady =>
             id[ret.card] = ret.name.value

CardsInv == StateIs /\ ListSoFar /\ SearchSoFar /\ C!ListComplete /\ FoundTrue /\ C!DeviceNamed

\* What _snd_dev_get_device returns when the card is known.
LEMMA FoundIs ==
    ASSUME C!CardsConstants, NEW name \in DevNames, NEW kind \in Kinds, NEW c
    PROVE  LET f == C!Found(name, kind, c)
           IN  /\ f.op = "device" /\ f.name = name /\ f.kind = kind /\ f.err \in {0, C!EINVAL}
               /\ f.err = 0 =>
                    /\ f.card = c
                    /\ kind \in {"pcm", "rawmidi"} =>
                         /\ f.dev = (IF name.dev = C!None THEN 0 ELSE name.dev)
                         /\ f.dev \in 0 .. MaxDevices - 1
                         /\ f.subdev = name.subdev
<1> DEFINE n == C!Numbers(name, kind)
<1>0. C!EINVAL # 0 /\ name.dev \in Int /\ (name.dev = C!None => name.subdev = C!None) /\ MaxDevices \in Nat
  BY DEF C!EINVAL, C!CardsConstants, C!None
<1>1. n.dev \in Int
  BY <1>0 DEF C!Numbers
<1>2. kind \in {"pcm", "rawmidi"} =>
        n.dev = (IF name.dev = C!None THEN 0 ELSE name.dev) /\ n.subdev = name.subdev
  BY <1>0 DEF C!Numbers
<1> HIDE DEF n
<1>3. CASE n.dev < 0 \/ n.dev >= MaxDevices
  <2>1. C!Found(name, kind, c) = [op |-> "device", name |-> name, kind |-> kind, err |-> C!EINVAL]
    BY <1>3 DEF C!Found, n
  <2> QED BY <2>1, <1>0
<1>4. CASE ~(n.dev < 0 \/ n.dev >= MaxDevices)
  <2>1. C!Found(name, kind, c) = [op |-> "device", name |-> name, kind |-> kind, err |-> 0, card |-> c,
                                dev |-> n.dev, subdev |-> n.subdev]
    BY <1>4 DEF C!Found, n
  <2>2. n.dev \in 0 .. MaxDevices - 1
    BY <1>0, <1>1, <1>4
  <2> QED BY <2>1, <2>2, <1>2
<1> QED BY <1>3, <1>4

\* What it returns when there is none.
LEMMA FailedIs ==
    ASSUME NEW name, NEW kind, NEW err
    PROVE  LET f == C!Failed(name, kind, err)
           IN  f.op = "device" /\ f.name = name /\ f.kind = kind /\ f.err = err
BY DEF C!Failed

\* The error codes differ.
LEMMA Errors == C!ENODEV # 0 /\ C!EINVAL # 0 /\ C!ENODEV # C!EINVAL
BY DEF C!ENODEV, C!EINVAL

\* In the beginning nothing has been listed.
LEMMA CardsInit ==
    ASSUME C!CardsConstants, C!Init
    PROVE  CardsInv
<1>1. StateIs
  BY DEF C!Init, StateIs, Growing
<1>2. ListSoFar /\ SearchSoFar /\ C!ListComplete /\ FoundTrue /\ C!DeviceNamed
  BY DEF C!Init, C!Idle, ListSoFar, SearchSoFar, C!ListComplete, FoundTrue, C!DeviceNamed
<1> QED BY <1>1, <1>2 DEF CardsInv

\* A card is plugged in or out: it is no longer one that has stayed.
LEMMA ChangeKeeps ==
    ASSUME C!CardsConstants, CardsInv, NEW c \in C!CardNumbers, NEW new \in Ids \cup {C!NoCard}, C!Change(c, new)
    PROVE  CardsInv'
<1>1. /\ id' = [id EXCEPT ![c] = new] /\ steady' = steady \ {c}
      /\ call' = call /\ ret' = ret /\ rcard' = rcard /\ seen' = seen
  BY DEF C!Change
<1>2. id \in [C!CardNumbers -> Ids \cup {C!NoCard}] /\ steady \subseteq C!Cards
  BY DEF CardsInv, StateIs
<1>3. \A d \in steady' : d \in steady /\ id'[d] = id[d] /\ d \in C!CardNumbers
  BY <1>1, <1>2 DEF C!Cards
<1>4. StateIs'
  <2>1. id' \in [C!CardNumbers -> Ids \cup {C!NoCard}]
    BY <1>1, <1>2
  <2>2. steady' \subseteq C!Cards'
    BY <1>2, <1>3 DEF C!Cards
  <2> QED BY <1>1, <2>1, <2>2 DEF CardsInv, StateIs
<1>5. ListSoFar' /\ C!ListComplete' /\ C!DeviceNamed'
  BY <1>1, <1>3 DEF CardsInv, ListSoFar, Reached, C!ListComplete, C!DeviceNamed
<1>6. SearchSoFar' /\ FoundTrue'
  BY <1>1, <1>3 DEF CardsInv, SearchSoFar, FoundTrue
<1> QED BY <1>4, <1>5, <1>6 DEF CardsInv

\* The list begins, or goes on after the card it has got to.
LEMMA NextBeginsKeeps ==
    ASSUME C!CardsConstants, CardsInv, C!snd_card_next
    PROVE  CardsInv'
<1> DEFINE at == IF rcard < 0 THEN 0 ELSE rcard + 1
<1>0. /\ StateIs /\ ListSoFar /\ call = C!Idle /\ ret' = C!Idle /\ id' = id /\ rcard' = rcard
      /\ call' = [op |-> "next", at |-> at]
      /\ steady' = IF rcard < 0 THEN C!Cards ELSE steady
      /\ seen' = IF rcard < 0 THEN <<>> ELSE seen
  BY DEF CardsInv, C!snd_card_next
<1>1. rcard \in Int /\ at \in Nat /\ (rcard < 0 <=> rcard = -1) /\ C!Cards \subseteq Nat /\ C!Cards' = C!Cards
  BY <1>0 DEF StateIs, C!CardNumbers, C!CardsConstants, C!Cards
<1>2. call'.op = "next" /\ call'.at = at /\ call' \in NextCall
  BY <1>0, <1>1 DEF NextCall
<1>3. StateIs'
  BY <1>0, <1>1, <1>2 DEF StateIs, Growing
<1>4. ListSoFar'
  <2>1. CASE rcard < 0
    <3>1. C!ToSet(seen') = {} /\ Reached' = 0
      BY <2>1, <1>0, <1>2 DEF C!ToSet, Reached
    <3>2. \A c \in steady' : ~(c < 0)
      BY <2>1, <1>0, <1>1
    <3> QED BY <3>1, <3>2 DEF ListSoFar
  <2>2. CASE ~(rcard < 0)
    <3>1. Reached' = rcard + 1 /\ Reached = rcard + 1 /\ steady' = steady /\ seen' = seen
      BY <2>2, <1>0, <1>2 DEF Reached, C!Idle
    <3> QED BY <3>1, <2>2, <1>0, <1>1 DEF ListSoFar
  <2> QED BY <2>1, <2>2
<1>5. SearchSoFar' /\ C!ListComplete' /\ FoundTrue' /\ C!DeviceNamed'
  BY <1>0, <1>2 DEF C!Idle, SearchSoFar, C!ListComplete, FoundTrue, C!DeviceNamed
<1> QED BY <1>3, <1>4, <1>5 DEF CardsInv

\* With nothing returned, nothing is claimed of it.
LEMMA NothingReturned ==
    ASSUME ret' = C!Idle
    PROVE  C!ListComplete' /\ FoundTrue' /\ C!DeviceNamed'
BY DEF C!Idle, C!ListComplete, FoundTrue, C!DeviceNamed

\* A turn of the loop of snd_card_next.
LEMMA NextCardKeeps ==
    ASSUME C!CardsConstants, CardsInv, C!NextCard
    PROVE  CardsInv'
<1> DEFINE c == call.at
<1>0. /\ StateIs /\ ListSoFar /\ call.op = "next" /\ id' = id /\ steady' = steady
      /\ C!Cards' = C!Cards
  BY DEF CardsInv, C!NextCard, C!Cards
<1>1. call = [op |-> "next", at |-> c] /\ c \in Nat /\ call # C!Idle /\ ret = C!Idle
  BY <1>0 DEF StateIs, C!Idle, NextCall, IndexCall
<1>2. /\ steady \subseteq C!Cards /\ C!Cards \subseteq C!CardNumbers /\ C!CardNumbers \subseteq Nat
      /\ seen \in Seq(Nat) /\ Growing(seen) /\ MaxCards \in Nat
      /\ C!CardNumbers = {d \in Nat : d < MaxCards}
  BY <1>0 DEF StateIs, C!Cards, C!CardNumbers, C!CardsConstants
<1>3. /\ \A d \in C!ToSet(seen) : d < c
      /\ \A d \in steady : d < c => d \in C!ToSet(seen)
  BY <1>0 DEF ListSoFar, Reached
<1>n. \/ /\ c < MaxCards /\ C!snd_card_load(c)
         /\ rcard' = c /\ seen' = Append(seen, c) /\ call' = C!Idle /\ ret' = ret
      \/ /\ c < MaxCards /\ ~C!snd_card_load(c)
         /\ call' = [call EXCEPT !.at = c + 1] /\ rcard' = rcard /\ seen' = seen /\ ret' = ret
      \/ c >= MaxCards /\ rcard' = -1 /\ call' = C!Idle /\ ret' = [op |-> "list"] /\ seen' = seen
  BY DEF C!NextCard
<1> HIDE DEF c
<1>4. CASE /\ c < MaxCards /\ C!snd_card_load(c)
           /\ rcard' = c /\ seen' = Append(seen, c) /\ call' = C!Idle /\ ret' = ret
  <2>1. rcard' = c /\ seen' = Append(seen, c) /\ call' = C!Idle /\ ret' = C!Idle
    BY <1>4, <1>1
  <2>2. c \in C!CardNumbers
    BY <1>1, <1>2, <1>4
  <2>3. C!ToSet(seen') = C!ToSet(seen) \cup {c} /\ seen' \in Seq(Nat) /\ Growing(seen')
    BY <1>1, <1>2, <1>3, <2>1, AppendSet, AppendGrowing
  <2>4. StateIs'
    BY <1>0, <2>1, <2>2, <2>3 DEF StateIs, C!Idle
  <2>5. Reached' = c + 1
    BY <2>1 DEF Reached, C!Idle
  <2>6. C!ToSet(seen)' = C!ToSet(seen')
    OBVIOUS
  <2>7. ListSoFar'
    <3>1. \A d \in C!ToSet(seen') : d < c + 1
      <4>1. \A d \in C!ToSet(seen) : d \in Nat
        BY <1>2 DEF C!ToSet
      <4> QED BY <4>1, <1>1, <1>3, <2>3
    <3>2. \A d \in steady : d < c + 1 => d \in C!ToSet(seen')
      BY <1>1, <1>2, <1>3, <2>3
    <3> QED BY <1>0, <2>5, <3>1, <3>2 DEF ListSoFar
  <2>8. SearchSoFar'
    BY <2>1 DEF SearchSoFar, C!Idle
  <2> QED BY <2>1, <2>4, <2>7, <2>8, NothingReturned DEF CardsInv
<1>5. CASE /\ c < MaxCards /\ ~C!snd_card_load(c)
           /\ call' = [call EXCEPT !.at = c + 1] /\ rcard' = rcard /\ seen' = seen /\ ret' = ret
  <2>1. call' = [op |-> "next", at |-> c + 1] /\ rcard' = rcard /\ seen' = seen /\ ret' = C!Idle
    BY <1>5, <1>1
  <2>2. call'.op = "next" /\ call'.at = c + 1 /\ call' \in NextCall
    BY <1>1, <2>1 DEF NextCall
  <2>3. c \notin steady
    BY <1>2, <1>5 DEF C!snd_card_load, C!Cards
  <2>4. StateIs'
    BY <1>0, <2>1, <2>2 DEF StateIs
  <2>5. ListSoFar'
    <3>1. Reached' = c + 1
      BY <2>2 DEF Reached
    <3>2. \A d \in C!ToSet(seen) : d < c + 1
      <4>1. \A d \in C!ToSet(seen) : d \in Nat
        BY <1>2 DEF C!ToSet
      <4> QED BY <4>1, <1>1, <1>3
    <3>3. \A d \in steady : d < c + 1 => d \in C!ToSet(seen)
      BY <1>1, <1>2, <1>3, <2>3
    <3> QED BY <1>0, <2>1, <3>1, <3>2, <3>3 DEF ListSoFar
  <2>6. SearchSoFar'
    BY <2>2 DEF SearchSoFar
  <2> QED BY <2>1, <2>4, <2>5, <2>6, NothingReturned DEF CardsInv
<1>6. CASE c >= MaxCards /\ rcard' = -1 /\ call' = C!Idle /\ ret' = [op |-> "list"] /\ seen' = seen
  <2>1. rcard' = -1 /\ call' = C!Idle /\ ret' = [op |-> "list"] /\ seen' = seen
    BY <1>6
  <2>2. StateIs'
    BY <1>0, <2>1 DEF StateIs
  <2>3. ListSoFar' /\ SearchSoFar' /\ FoundTrue' /\ C!DeviceNamed'
    BY <2>1 DEF ListSoFar, SearchSoFar, FoundTrue, C!DeviceNamed, C!Idle
  <2>4. steady \subseteq C!ToSet(seen)
    BY <1>1, <1>2, <1>3, <1>6
  <2>5. C!ListComplete'
    BY <1>0, <1>2, <2>1, <2>4 DEF C!ListComplete, Growing
  <2> QED BY <2>2, <2>3, <2>5 DEF CardsInv
<1> QED BY <1>4, <1>5, <1>6, <1>n

\* A search for a device has ended: what the list has got to is as before.
LEMMA SearchEnds ==
    ASSUME CardsInv, call.op # "next", call' = C!Idle, ret'.op = "device", FoundTrue', C!DeviceNamed',
           UNCHANGED <<id, rcard, seen>>, steady' = steady \/ (rcard = -1 /\ steady' = C!Cards)
    PROVE  CardsInv'
<1>1. StateIs'
  BY DEF CardsInv, StateIs, C!Cards
<1>2. ListSoFar'
  BY DEF CardsInv, ListSoFar, Reached, C!Idle
<1>3. SearchSoFar' /\ C!ListComplete'
  BY DEF SearchSoFar, C!ListComplete, C!Idle
<1> QED BY <1>1, <1>2, <1>3 DEF CardsInv

\* _snd_dev_get_device with a name that selects no card, an unknown one, or a card to
\* be looked for.
LEMMA DeviceKeeps ==
    ASSUME C!CardsConstants, CardsInv, NEW name \in DevNames, NEW kind \in Kinds,
           C!_snd_dev_get_device(name, kind)
    PROVE  CardsInv'
<1>0. /\ call = C!Idle /\ UNCHANGED <<id, rcard, seen>> /\ C!Cards' = C!Cards
      /\ steady' = IF rcard < 0 THEN C!Cards ELSE steady
  BY DEF C!_snd_dev_get_device, C!Cards
<1>1. /\ call.op # "next" /\ StateIs /\ ListSoFar
      /\ steady' = steady \/ (rcard = -1 /\ steady' = C!Cards)
  BY <1>0 DEF C!Idle, CardsInv, StateIs, C!CardNumbers, C!CardsConstants
<1>2. CASE C!KnownPrefix(name) /\ name.by = "nothing" /\ C!Returns(C!Found(name, kind, 0))
  <2> DEFINE f == C!Found(name, kind, 0)
  <2>1. call' = C!Idle /\ ret' = f
    BY <1>2 DEF C!Returns
  <2>2. /\ f.op = "device" /\ f.name = name /\ f.kind = kind /\ f.err \in {0, C!EINVAL}
        /\ f.err = 0 /\ kind \in {"pcm", "rawmidi"} =>
             /\ f.dev = (IF name.dev = C!None THEN 0 ELSE name.dev)
             /\ f.dev \in 0 .. MaxDevices - 1
             /\ f.subdev = name.subdev
    BY FoundIs
  <2> HIDE DEF f
  <2>3. FoundTrue'
    BY <2>1, <2>2, <1>2, Errors DEF FoundTrue
  <2>4. C!DeviceNamed'
    BY <2>1, <2>2 DEF C!DeviceNamed
  <2> QED BY <1>0, <1>1, <2>1, <2>2, <2>3, <2>4, SearchEnds
<1>3. CASE ~C!KnownPrefix(name) /\ C!Returns(C!Failed(name, kind, C!EINVAL))
  <2>1. call' = C!Idle /\ ret'.op = "device" /\ ret'.name = name /\ ret'.err = C!EINVAL
    BY <1>3, FailedIs DEF C!Returns
  <2>2. FoundTrue' /\ C!DeviceNamed'
    BY <2>1, <1>3, Errors DEF FoundTrue, C!DeviceNamed, C!KnownPrefix
  <2> QED BY <1>0, <1>1, <2>1, <2>2, SearchEnds
<1>4. CASE call' = [op |-> "index", name |-> name, kind |-> kind, at |-> 0] /\ ret' = C!Idle
  <2>1. call'.op = "index" /\ call'.at = 0 /\ call' \in IndexCall
    BY <1>4 DEF IndexCall
  <2>2. StateIs'
    BY <1>0, <1>1, <1>4, <2>1 DEF StateIs
  <2>3. ListSoFar'
    BY <1>0, <1>1, <2>1 DEF ListSoFar, Reached
  <2>4. SearchSoFar'
    <3>1. \A c \in steady' : ~(c < 0)
      BY <2>2 DEF StateIs, C!Cards, C!CardNumbers, C!CardsConstants
    <3> QED BY <2>1, <3>1 DEF SearchSoFar
  <2> QED BY <1>4, <2>2, <2>3, <2>4, NothingReturned DEF CardsInv
<1> QED BY <1>2, <1>3, <1>4 DEF C!_snd_dev_get_device

\* snd_card_get_index with a number, or with the path of a control file.
LEMMA DirectKeeps ==
    ASSUME C!CardsConstants, CardsInv, C!IndexDirect
    PROVE  CardsInv'
<1> DEFINE name == call.name
           kind == call.kind
           c == name.value
           f == C!Found(name, kind, c)
<1>0. /\ call.op = "index" /\ name.by \in {"number", "path"}
      /\ UNCHANGED <<id, rcard, seen, steady>> /\ StateIs /\ call' = C!Idle
  BY DEF C!IndexDirect, CardsInv, C!Returns
<1>1. name \in DevNames /\ kind \in Kinds /\ steady \subseteq C!Cards /\ C!Cards \subseteq C!CardNumbers
  BY <1>0 DEF StateIs, C!Idle, NextCall, IndexCall, C!Cards
<1>2. \/ ret' = C!Failed(name, kind, C!ENODEV) /\ name.by = "path" /\ ~C!Bare(name)
      \/ ret' = C!Failed(name, kind, C!EINVAL) /\ name.by = "number"
      \/ ret' = f /\ ~(name.by = "path" /\ ~C!Bare(name))
      \/ ret' = C!Failed(name, kind, C!ENODEV) /\ ~(c \in C!CardNumbers /\ C!snd_card_load(c))
  BY <1>0, Zenon DEF C!IndexDirect, C!Returns
<1>f. /\ f.op = "device" /\ f.name = name /\ f.kind = kind /\ f.err \in {0, C!EINVAL}
      /\ f.err = 0 =>
           /\ f.card = c
           /\ kind \in {"pcm", "rawmidi"} =>
                /\ f.dev = (IF name.dev = C!None THEN 0 ELSE name.dev)
                /\ f.dev \in 0 .. MaxDevices - 1
                /\ f.subdev = name.subdev
  BY <1>1, FoundIs
<1> HIDE DEF f
<1>3. CASE ret' = f /\ ~(name.by = "path" /\ ~C!Bare(name))
  <2>1. FoundTrue' /\ C!DeviceNamed'
    BY <1>0, <1>3, <1>f, Errors DEF FoundTrue, C!DeviceNamed
  <2> QED BY <1>0, <1>3, <1>f, <2>1, SearchEnds
<1>4. CASE ret' = C!Failed(name, kind, C!EINVAL) /\ name.by = "number"
  <2>1. ret'.op = "device" /\ ret'.err = C!EINVAL /\ ret'.name = name
    BY <1>4, FailedIs
  <2>2. FoundTrue' /\ C!DeviceNamed'
    BY <1>4, <2>1, Errors DEF FoundTrue, C!DeviceNamed
  <2> QED BY <1>0, <2>1, <2>2, SearchEnds
<1>5. CASE /\ ret' = C!Failed(name, kind, C!ENODEV)
           /\ \/ name.by = "path" /\ ~C!Bare(name)
              \/ ~(c \in C!CardNumbers /\ C!snd_card_load(c))
  <2>1. ret'.op = "device" /\ ret'.err = C!ENODEV /\ ret'.name = name
    BY <1>5, FailedIs
  <2>2. name.by = "number" \/ C!Bare(name) => c \notin steady
    BY <1>0, <1>1, <1>5 DEF C!snd_card_load, C!Cards
  <2>3. FoundTrue' /\ C!DeviceNamed'
    BY <1>0, <2>1, <2>2, Errors DEF FoundTrue, C!DeviceNamed
  <2> QED BY <1>0, <2>1, <2>3, SearchEnds
<1> QED BY <1>2, <1>3, <1>4, <1>5

\* snd_card_get_index with an id: a turn of its loop.
LEMMA ByIdKeeps ==
    ASSUME C!CardsConstants, CardsInv, C!IndexById
    PROVE  CardsInv'
<1> DEFINE name == call.name
           kind == call.kind
           c == call.at
           f == C!Found(name, kind, c)
<1>0. /\ call.op = "index" /\ name.by = "id" /\ StateIs /\ ListSoFar /\ SearchSoFar
      /\ UNCHANGED <<id, rcard, seen, steady>> /\ C!Cards' = C!Cards
  BY DEF C!IndexById, CardsInv, C!Cards
<1>1. /\ name \in DevNames /\ kind \in Kinds /\ c \in Nat /\ call # C!Idle /\ ret = C!Idle
      /\ steady \subseteq C!Cards /\ C!Cards \subseteq C!CardNumbers
      /\ call = [op |-> "index", name |-> name, kind |-> kind, at |-> c]
  BY <1>0 DEF StateIs, C!Idle, NextCall, IndexCall, C!Cards
<1>2. C!CardNumbers = {d \in Nat : d < MaxCards} /\ MaxCards \in Nat
  BY DEF C!CardNumbers, C!CardsConstants
<1>s. C!Bare(name) => \A d \in steady : d < c => id[d] # name.value
  BY <1>0 DEF SearchSoFar
<1>f. /\ f.op = "device" /\ f.name = name /\ f.kind = kind /\ f.err \in {0, C!EINVAL}
      /\ f.err = 0 =>
           /\ f.card = c
           /\ kind \in {"pcm", "rawmidi"} =>
                /\ f.dev = (IF name.dev = C!None THEN 0 ELSE name.dev)
                /\ f.dev \in 0 .. MaxDevices - 1
                /\ f.subdev = name.subdev
  BY <1>1, FoundIs
<1>3. \/ C!Bare(name) /\ id[c] = name.value /\ call' = C!Idle /\ ret' = f
      \/ /\ c < MaxCards /\ ~(C!Bare(name) /\ id[c] = name.value)
         /\ call' = [call EXCEPT !.at = c + 1] /\ ret' = ret
      \/ c >= MaxCards /\ call' = C!Idle /\ ret' = C!Failed(name, kind, C!ENODEV)
  BY DEF C!IndexById, C!Returns
<1> HIDE DEF f, c, name, kind
<1>4. CASE C!Bare(name) /\ id[c] = name.value /\ call' = C!Idle /\ ret' = f
  <2>1. FoundTrue' /\ C!DeviceNamed'
    BY <1>0, <1>4, <1>f, Errors DEF FoundTrue, C!DeviceNamed
  <2> QED BY <1>0, <1>4, <1>f, <2>1, SearchEnds
<1>5. CASE /\ c < MaxCards /\ ~(C!Bare(name) /\ id[c] = name.value)
           /\ call' = [call EXCEPT !.at = c + 1] /\ ret' = ret
  <2>1. call' = [op |-> "index", name |-> name, kind |-> kind, at |-> c + 1]
    BY <1>1, <1>5
  <2>2. call'.op = "index" /\ call'.at = c + 1 /\ call'.name = name /\ call' \in IndexCall
    BY <1>1, <2>1 DEF IndexCall
  <2>3. StateIs'
    BY <1>0, <1>1, <1>5, <2>2 DEF StateIs
  <2>4. ListSoFar'
    BY <1>0, <2>2 DEF ListSoFar, Reached
  <2>5. SearchSoFar'
    <3>1. C!Bare(name) => \A d \in steady : d < c + 1 => id[d] # name.value
      BY <1>1, <1>2, <1>5, <1>s
    <3> QED BY <1>0, <2>2, <3>1 DEF SearchSoFar
  <2> QED BY <1>1, <1>5, <2>3, <2>4, <2>5, NothingReturned DEF CardsInv
<1>6. CASE c >= MaxCards /\ call' = C!Idle /\ ret' = C!Failed(name, kind, C!ENODEV)
  <2>1. ret'.op = "device" /\ ret'.err = C!ENODEV /\ ret'.name = name
    BY <1>6, FailedIs
  <2>2. C!Bare(name) => \A d \in steady : id[d] # name.value
    BY <1>1, <1>2, <1>6, <1>s
  <2>3. FoundTrue' /\ C!DeviceNamed'
    BY <1>0, <2>1, <2>2, Errors DEF FoundTrue, C!DeviceNamed, name
  <2> QED BY <1>0, <1>6, <2>1, <2>3, SearchEnds
<1> QED BY <1>3, <1>4, <1>5, <1>6

\* Every step of a search or a list, and every card that comes or goes.
LEMMA CardsStep ==
    ASSUME C!CardsConstants, CardsInv, [C!Next]_(C!vars)
    PROVE  CardsInv'
<1>1. CASE UNCHANGED C!vars
  BY <1>1 DEF C!vars, CardsInv, StateIs, ListSoFar, Reached, SearchSoFar, C!ListComplete, FoundTrue,
              C!DeviceNamed, C!Cards
<1>2. ASSUME NEW c \in C!CardNumbers, NEW new \in Ids \cup {C!NoCard}, C!Change(c, new)
      PROVE  CardsInv'
  BY <1>2, ChangeKeeps
<1>3. CASE C!snd_card_next \/ C!NextCard
  BY <1>3, NextBeginsKeeps, NextCardKeeps
<1>4. ASSUME NEW name \in DevNames, NEW kind \in Kinds, C!_snd_dev_get_device(name, kind)
      PROVE  CardsInv'
  BY <1>4, DeviceKeeps
<1>5. CASE C!IndexDirect \/ C!IndexById
  BY <1>5, DirectKeeps, ByIdKeeps
<1> QED BY <1>1, <1>2, <1>3, <1>4, <1>5 DEF C!Next, Kinds

\* The invariant gives what a run checks.
LEMMA CardsInvFound ==
    ASSUME CardsInv
    PROVE  C!CardsFound
BY DEF CardsInv, C!CardsFound, FoundTrue, C!CardFound

-----------------------------------------------------------------------------
(* Channel maps: the text of a map is read as that map, ... *)

\* A word leads to the channel it was printed for: no two positions have one name.
LEMMA WordRead ==
    ASSUME M!ChmapConstants, NEW c \in M!Channel
    PROVE  M!str_to_chmap(M!Word(c)) = c
<1> DEFINE w == M!Word(c)
           found == {p \in Positions : PosNames[p] = w.letters}
<1>1. /\ c = [pos |-> c.pos, spec |-> c.spec, inv |-> c.inv]
      /\ c.spec \in BOOLEAN /\ (c.spec \/ c.pos \in Positions)
  BY DEF M!Channel
<1>2. w.number = c.spec /\ w.pos = c.pos /\ w.inv = c.inv /\ (~c.spec => w.letters = PosNames[c.pos])
  BY <1>1 DEF M!Word
<1>3. M!str_to_chmap(w) =
        [pos |-> IF w.number THEN w.pos ELSE CHOOSE p \in found : \A q \in found : p <= q,
         spec |-> w.number, inv |-> w.inv]
  BY DEF M!str_to_chmap
<1> HIDE DEF w
<1>4. CASE c.spec
  BY <1>1, <1>2, <1>3, <1>4 DEF w
<1>5. CASE ~c.spec
  <2>1. found = {c.pos} /\ c.pos \in Int
    BY <1>1, <1>2, <1>5 DEF M!ChmapConstants
  <2> HIDE DEF found
  <2>2. (CHOOSE p \in found : \A q \in found : p <= q) = c.pos
    BY <2>1
  <2>3. ~w.number
    BY <1>2, <1>5
  <2>4. M!str_to_chmap(w) = [pos |-> c.pos, spec |-> c.spec, inv |-> c.inv]
    BY <2>2, <2>3, <1>2, <1>3
  <2> QED BY <2>4, <1>1 DEF w
<1> QED BY <1>1, <1>4, <1>5

\* The words of a map.
WordsOf(m) == [i \in 1 .. Len(m) |-> M!Word(m[i])]

\* ... as a whole.
LEMMA TextRead ==
    ASSUME M!ChmapConstants, NEW m \in Seq(M!Channel), NEW r,
           r = M!snd_pcm_chmap_parse_string(WordsOf(m)), r # M!Null
    PROVE  r.map = m
<1>1. Len(m) \in Nat /\ Len(WordsOf(m)) = Len(m) /\ m = [i \in 1 .. Len(m) |-> m[i]]
  BY DEF WordsOf
<1>2. \A i \in 1 .. Len(m) : m[i] \in M!Channel /\ WordsOf(m)[i] = M!Word(m[i])
  BY <1>1 DEF WordsOf
<1>3. r.map = [i \in 1 .. Len(WordsOf(m)) |-> M!str_to_chmap(WordsOf(m)[i])]
  BY DEF M!snd_pcm_chmap_parse_string
<1>4. \A i \in 1 .. Len(m) : M!str_to_chmap(WordsOf(m)[i]) = m[i]
  BY <1>2, WordRead
<1>5. r.map = [i \in 1 .. Len(m) |-> m[i]]
  BY <1>1, <1>3, <1>4
<1> QED BY <1>1, <1>5

\* What is printed is the words of the map, and has room.
LEMMA PrintedIs ==
    ASSUME M!ChmapConstants, NEW m \in Maps, NEW n \in MaxLens, NEW r,
           r = M!snd_pcm_chmap_print(m, n), r # M!Null
    PROVE  r.words = WordsOf(m) /\ r.len < n
<1>1. M!TextLength(m) \in Int /\ n \in Int
  BY DEF M!ChmapConstants
<1>2. ~(M!TextLength(m) >= n) /\ r = [op |-> "text", words |-> WordsOf(m), len |-> M!TextLength(m)]
  BY DEF M!snd_pcm_chmap_print, WordsOf
<1> QED BY <1>1, <1>2

-----------------------------------------------------------------------------
(* The inductive invariant. *)

\* The calls in progress.
Querying(at, maps) ==
    [op |-> "query", at |-> at, blocks |-> {}, failed |-> {M!Null}, maps |-> maps]
Getting(at) == [op |-> "get", at |-> at, blocks |-> {M!Single}, failed |-> {M!Null}]
Setting(at, m) == [op |-> "set", at |-> at, blocks |-> {}, failed |-> M!SetFailures, map |-> m]

\* The maps copied are the first of the driver's.
Copied(maps) ==
    /\ maps \in Seq([type : STRING, map : Seq(M!Channel)]) /\ Len(maps) <= Len(offer)
    /\ \A i \in 1 .. Len(maps) : maps[i] = offer[i]

\* The blocks a query has when it has copied n maps.
Blocks(n) == {M!Array} \cup 1 .. n

\* The kinds of maps in the offer are known.
KnownKinds == \A n \in 1 .. Len(offer) : M!IsChmapType(offer[n].type)

\* Each call, with what it has allocated and whether the control device is open.
IsIdle == call = M!Idle /\ ~ctl /\ heap = given
IsQuery ==
    /\ given = {}
    /\ \/ \E at \in {"open", "func", "count"} :
            call = Querying(at, <<>>) /\ heap = {} /\ (ctl <=> at = "func")
       \/ \E maps : /\ call = Querying("copy", maps) /\ Copied(maps) /\ KnownKinds
                    /\ heap = Blocks(Len(maps)) /\ ~ctl
IsGet ==
    /\ given = {} /\ heap = {M!Single}
    /\ \E at \in {"open", "func"} : call = Getting(at) /\ (ctl <=> at = "func")
IsSet ==
    /\ heap = given
    /\ \E at \in {"open", "func"}, m \in Maps : call = Setting(at, m) /\ (ctl <=> at = "func")
IsPrint ==
    /\ heap = given /\ ~ctl /\ call.op = "print" /\ call.at = "text"
    /\ call.map \in Maps /\ call.words = WordsOf(call.map) /\ call.len < call.maxlen

CallIs ==
    /\ offer \in Seq([type : STRING, map : Seq(M!Channel)]) /\ ctl \in BOOLEAN
    /\ IsIdle \/ IsQuery \/ IsGet \/ IsSet \/ IsPrint

\* The application has been given the map of a stream, or the maps of a query.
GivenIs ==
    /\ M!Single \in given => given = {M!Single}
    /\ ret.op = "query" => ret.maps = offer /\ given = Blocks(Len(offer)) /\ KnownKinds

\* The kernel has the map that was set last.
SetKept ==
    mine # M!NoMap => \A i \in 1 .. MapChannels : i <= Len(mine) => kmap[i] = mine[i]

ChmapInv == CallIs /\ GivenIs /\ SetKept /\ M!GetTrue /\ M!TextTrue

\* A result that tells nothing of maps.
NoNews(r) == r.op \in {"none", "null", "set"}

\* Errors tell nothing of maps.
LEMMA PlainResults ==
    NoNews(M!Idle) /\ NoNews(M!Null) /\ (\A r \in M!SetFailures : NoNews(r)) /\ \A e : NoNews([op |-> "set", err |-> e])
BY DEF NoNews, M!Idle, M!Null, M!SetFailures

\* A step that returns nothing of maps, or nothing at all.
LEMMA PlainKeeps ==
    ASSUME ChmapInv, CallIs', NoNews(ret'), UNCHANGED <<offer, kmap, mine>>,
           given' = given \/ given' = {} \/ given' = {M!Single}
    PROVE  ChmapInv'
<1>1. GivenIs'
  BY DEF ChmapInv, GivenIs, NoNews
<1>2. SetKept' /\ M!GetTrue' /\ M!TextTrue'
  BY DEF ChmapInv, SetKept, M!GetTrue, M!TextTrue, NoNews
<1> QED BY <1>1, <1>2 DEF ChmapInv

-----------------------------------------------------------------------------
(* Every step keeps it. *)

\* Before the first call nothing is allocated and nothing has been set.
LEMMA ChmapStart ==
    ASSUME M!ChmapConstants, M!Init
    PROVE  ChmapInv
<1>1. CallIs
  BY DEF M!Init, CallIs, IsIdle, M!ChmapConstants
<1>2. ret.op = "none"
  BY DEF M!Init, M!Idle
<1>3. GivenIs /\ SetKept /\ M!GetTrue /\ M!TextTrue
  BY <1>2 DEF M!Init, GivenIs, SetKept, M!GetTrue, M!TextTrue
<1> QED BY <1>1, <1>3 DEF ChmapInv

\* What the calls are, by their names and by where they are.
LEMMA CallFields ==
    /\ M!Idle.op = "none"
    /\ \A at, maps : /\ Querying(at, maps).op = "query" /\ Querying(at, maps).at = at
                     /\ Querying(at, maps).blocks = {} /\ Querying(at, maps).failed = {M!Null}
                     /\ Querying(at, maps).maps = maps
    /\ \A at : /\ Getting(at).op = "get" /\ Getting(at).at = at
               /\ Getting(at).blocks = {M!Single} /\ Getting(at).failed = {M!Null}
    /\ \A at, m : /\ Setting(at, m).op = "set" /\ Setting(at, m).at = at
                  /\ Setting(at, m).blocks = {} /\ Setting(at, m).failed = M!SetFailures
                  /\ Setting(at, m).map = m
BY DEF M!Idle, Querying, Getting, Setting

\* A call that moves on.
LEMMA CallMoves ==
    /\ \A at, to, maps : [Querying(at, maps) EXCEPT !.at = to] = Querying(to, maps)
    /\ \A at, to : [Getting(at) EXCEPT !.at = to] = Getting(to)
    /\ \A at, to, m : [Setting(at, m) EXCEPT !.at = to] = Setting(to, m)
    /\ \A maps, next : [Querying("copy", maps) EXCEPT !.maps = next] = Querying("copy", next)
<1>1. ASSUME NEW at, NEW to, NEW maps PROVE [Querying(at, maps) EXCEPT !.at = to] = Querying(to, maps)
  BY DEF Querying
<1>2. ASSUME NEW at, NEW to PROVE [Getting(at) EXCEPT !.at = to] = Getting(to)
  BY DEF Getting
<1>3. ASSUME NEW at, NEW to, NEW m PROVE [Setting(at, m) EXCEPT !.at = to] = Setting(to, m)
  BY DEF Setting
<1>4. ASSUME NEW maps, NEW next PROVE [Querying("copy", maps) EXCEPT !.maps = next] = Querying("copy", next)
  BY DEF Querying
<1> QED BY <1>1, <1>2, <1>3, <1>4

\* The call in progress is one of these.
LEMMA CallCases ==
    ASSUME ChmapInv, call # M!Idle
    PROVE  \/ IsQuery /\ call.op = "query"
           \/ IsGet /\ call.op = "get"
           \/ IsSet /\ call.op = "set"
           \/ IsPrint /\ call.op = "print"
BY CallFields DEF ChmapInv, CallIs, IsIdle, IsQuery, IsGet, IsSet, IsPrint

\* A call that fails has given its block back.
LEMMA MapsFailKeep ==
    ASSUME ChmapInv, NEW r, NoNews(r), call # M!Idle, heap' = heap \ call.blocks, M!Returns(r), ctl' = FALSE,
           call.at \in {"open", "func"}, UNCHANGED <<offer, kmap, given, mine>>
    PROVE  ChmapInv'
<1>1. heap' = given
  <2>1. CASE IsQuery
    BY <2>1, CallFields DEF IsQuery
  <2>2. CASE IsGet
    BY <2>2, CallFields DEF IsGet
  <2>3. CASE IsSet
    BY <2>3, CallFields DEF IsSet
  <2> QED BY <2>1, <2>2, <2>3, CallCases DEF IsPrint
<1>2. CallIs'
  BY <1>1 DEF CallIs, IsIdle, M!Returns, ChmapInv
<1> QED BY <1>2, PlainKeeps DEF M!Returns

\* The control device is opened, or the call fails.
LEMMA OpenCtlKeeps ==
    ASSUME ChmapInv, M!OpenCtl
    PROVE  ChmapInv'
<1>1. call # M!Idle /\ call.at = "open" /\ UNCHANGED <<offer, kmap, given, mine>>
  BY DEF M!OpenCtl
<1>2. CASE ctl' = TRUE /\ call' = [call EXCEPT !.at = "func"] /\ UNCHANGED <<heap, ret>>
  <2>1. CASE IsQuery
    <3>1. call = Querying("open", <<>>) /\ heap = {} /\ given = {}
      BY <1>1, <2>1, CallFields DEF IsQuery
    <3>2. call' = Querying("func", <<>>)
      BY <1>2, <3>1, CallMoves
    <3>3. CallIs'
      BY <1>1, <1>2, <3>1, <3>2 DEF CallIs, IsQuery, ChmapInv
    <3> QED BY <1>1, <1>2, <3>3 DEF ChmapInv, GivenIs, SetKept, M!GetTrue, M!TextTrue, KnownKinds
  <2>2. CASE IsGet
    <3>1. call = Getting("open") /\ heap = {M!Single} /\ given = {}
      BY <1>1, <2>2, CallFields DEF IsGet
    <3>2. call' = Getting("func")
      BY <1>2, <3>1, CallMoves
    <3>3. CallIs'
      BY <1>1, <1>2, <3>1, <3>2 DEF CallIs, IsGet, ChmapInv
    <3> QED BY <1>1, <1>2, <3>3 DEF ChmapInv, GivenIs, SetKept, M!GetTrue, M!TextTrue, KnownKinds
  <2>3. CASE IsSet
    <3>1. PICK m \in Maps : call = Setting("open", m)
      BY <1>1, <2>3, CallFields DEF IsSet
    <3>2. call' = Setting("func", m)
      BY <1>2, <3>1, CallMoves
    <3>3. CallIs'
      BY <1>1, <1>2, <2>3, <3>2 DEF CallIs, IsSet, ChmapInv
    <3> QED BY <1>1, <1>2, <3>3 DEF ChmapInv, GivenIs, SetKept, M!GetTrue, M!TextTrue, KnownKinds
  <2> QED BY <1>1, <2>1, <2>2, <2>3, CallCases DEF IsPrint
<1>3. ASSUME NEW r \in call.failed, heap' = heap \ call.blocks, M!Returns(r), UNCHANGED ctl
      PROVE  ChmapInv'
  <2>1. ctl = FALSE /\ NoNews(r)
    <3>1. CASE IsQuery
      BY <1>1, <1>3, <3>1, CallFields, PlainResults DEF IsQuery, ChmapInv, CallIs
    <3>2. CASE IsGet
      BY <1>1, <1>3, <3>2, CallFields, PlainResults DEF IsGet, ChmapInv, CallIs
    <3>3. CASE IsSet
      BY <1>1, <1>3, <3>3, CallFields, PlainResults DEF IsSet, ChmapInv, CallIs
    <3> QED BY <1>1, <3>1, <3>2, <3>3, CallCases DEF IsPrint
  <2> QED BY <1>1, <1>3, <2>1, MapsFailKeep
<1> QED BY <1>2, <1>3 DEF M!OpenCtl

\* The function called fails, and the device is closed.
LEMMA FuncFailsKeeps ==
    ASSUME ChmapInv, NEW r, NoNews(r), M!FuncFails(r), call # M!Idle
    PROVE  ChmapInv'
BY MapsFailKeep DEF M!FuncFails

\* A query begins.
LEMMA QueryKeeps ==
    ASSUME ChmapInv, M!snd_pcm_query_chmaps
    PROVE  ChmapInv'
<1>1. /\ call = M!Idle /\ given = {} /\ UNCHANGED <<offer, kmap, ctl, heap, given, mine>>
      /\ call' = Querying("open", <<>>) /\ ret' = M!Idle
  BY DEF M!snd_pcm_query_chmaps, M!Goto, Querying
<1>2. ~ctl /\ heap = {}
  BY <1>1, CallFields DEF ChmapInv, CallIs, IsIdle, IsQuery, IsGet, IsSet, IsPrint
<1>3. CallIs'
  BY <1>1, <1>2 DEF CallIs, IsQuery, ChmapInv
<1> QED BY <1>1, <1>3, PlainKeeps, PlainResults

\* The items of the driver are read.
LEMMA ReadTlvKeeps ==
    ASSUME ChmapInv, M!do_read_tlv
    PROVE  ChmapInv'
<1>1. call # M!Idle /\ call.op = "query" /\ call.at = "func"
  BY DEF M!do_read_tlv
<1>2. CASE M!FuncFails(M!Null)
  BY <1>1, <1>2, FuncFailsKeeps, PlainResults
<1>3. CASE /\ ctl' = FALSE /\ call' = [call EXCEPT !.at = "count"]
           /\ UNCHANGED <<offer, kmap, heap, given, ret, mine>>
  <2>1. call = Querying("func", <<>>) /\ heap = {} /\ given = {}
    BY <1>1, CallCases, CallFields DEF IsQuery
  <2>2. call' = Querying("count", <<>>)
    BY <1>3, <2>1, CallMoves
  <2>3. CallIs'
    BY <1>3, <2>1, <2>2 DEF CallIs, IsQuery, ChmapInv
  <2> QED BY <1>3, <2>3 DEF ChmapInv, GivenIs, SetKept, M!GetTrue, M!TextTrue, KnownKinds
<1> QED BY <1>2, <1>3 DEF M!do_read_tlv

\* The items are counted, and none of an unknown kind is copied.
LEMMA CountMapsKeeps ==
    ASSUME ChmapInv, M!CountMaps
    PROVE  ChmapInv'
<1>1. call # M!Idle /\ call.op = "query" /\ call.at = "count" /\ UNCHANGED <<offer, kmap, ctl, given, mine>>
  BY DEF M!CountMaps
<1>2. call = Querying("count", <<>>) /\ heap = {} /\ given = {} /\ ~ctl
  BY <1>1, CallCases, CallFields DEF IsQuery
<1>3. CASE M!Returns(M!Null) /\ UNCHANGED heap
  <2>1. CallIs'
    BY <1>1, <1>2, <1>3 DEF CallIs, IsIdle, M!Returns, ChmapInv
  <2> QED BY <1>1, <1>3, <2>1, PlainKeeps, PlainResults DEF M!Returns
<1>4. CASE /\ KnownKinds /\ heap' = heap \cup {M!Array} /\ call' = [call EXCEPT !.at = "copy"]
           /\ UNCHANGED ret
  <2>1. call' = Querying("copy", <<>>)
    BY <1>2, <1>4, CallMoves
  <2>2. offer \in Seq([type : STRING, map : Seq(M!Channel)])
    BY DEF ChmapInv, CallIs
  <2>3. Copied(<<>>)' /\ Len(<<>>) = 0
    BY <1>1, <2>2 DEF Copied
  <2>4. heap' = Blocks(Len(<<>>))
    BY <1>2, <1>4, <2>3 DEF Blocks
  <2>5. IsQuery'
    BY <1>1, <1>2, <1>4, <2>1, <2>3, <2>4 DEF IsQuery, KnownKinds, Blocks
  <2>6. CallIs'
    BY <1>1, <2>5 DEF CallIs, ChmapInv
  <2> QED BY <1>1, <1>4, <2>6 DEF ChmapInv, GivenIs, SetKept, M!GetTrue, M!TextTrue, KnownKinds
<1> QED BY <1>3, <1>4 DEF M!CountMaps, KnownKinds

\* One map is copied, or the maps before it freed, or all of them given.
LEMMA CopyMapKeeps ==
    ASSUME ChmapInv, M!CopyMap
    PROVE  ChmapInv'
<1>1. call # M!Idle /\ call.op = "query" /\ call.at = "copy" /\ UNCHANGED <<offer, kmap, ctl, mine>>
  BY DEF M!CopyMap
<1>2. PICK maps : call = Querying("copy", maps) /\ Copied(maps) /\ heap = Blocks(Len(maps))
  BY <1>1, CallCases, CallFields DEF IsQuery
<1>3. given = {} /\ KnownKinds /\ ~ctl /\ offer \in Seq([type : STRING, map : Seq(M!Channel)])
  BY <1>1, CallCases, CallFields DEF IsQuery, ChmapInv, CallIs
<1>4. call.maps = maps /\ maps \in Seq([type : STRING, map : Seq(M!Channel)]) /\ Len(maps) \in Nat
  BY <1>2, CallFields DEF Copied
<1>5. \/ /\ Len(maps) < Len(offer) /\ heap' = heap \cup {Len(maps) + 1}
         /\ call' = [call EXCEPT !.maps = Append(call.maps, M!Following(call.maps))]
         /\ UNCHANGED <<ret, given>>
      \/ heap' = heap \ heap /\ M!Returns(M!Null) /\ UNCHANGED given
      \/ /\ Len(maps) = Len(offer) /\ given' = heap
         /\ M!Returns([op |-> "query", maps |-> maps]) /\ UNCHANGED heap
  BY <1>4 DEF M!CopyMap, M!snd_pcm_free_chmaps
<1>6. CASE /\ Len(maps) < Len(offer) /\ heap' = heap \cup {Len(maps) + 1}
           /\ call' = [call EXCEPT !.maps = Append(call.maps, M!Following(call.maps))]
           /\ UNCHANGED <<ret, given>>
  <2> DEFINE Item == [type : STRING, map : Seq(M!Channel)]
  <2>1. PICK c : c = offer[Len(maps) + 1]
    OBVIOUS
  <2>2. PICK next : next = Append(maps, c)
    OBVIOUS
  <2>3. call' = Querying("copy", next)
    <3>1. next = Append(call.maps, M!Following(call.maps))
      BY <1>4, <2>1, <2>2 DEF M!Following
    <3>2. call' = [call EXCEPT !.maps = next]
      BY <1>6, <3>1, Zenon
    <3>3. call' = [Querying("copy", maps) EXCEPT !.maps = next]
      BY <1>2, <3>2, Zenon
    <3> QED BY <3>3, CallMoves, Zenon
  <2>4. Len(offer) \in Nat /\ \A i \in 1 .. Len(maps) : maps[i] = offer[i]
    BY <1>2, <1>3 DEF Copied
  <2>5. c \in Item
    <3>1. Len(maps) + 1 \in 1 .. Len(offer)
      BY <1>4, <1>6, <2>4
    <3>2. offer \in Seq(Item)
      BY <1>3
    <3> HIDE DEF Item
    <3> QED BY <2>1, <3>1, <3>2, ElementOfSeq
  <2> HIDE DEF Item
  <2>6. maps \in Seq(Item)
    BY <1>4 DEF Item
  <2>7. /\ next \in Seq(Item) /\ Len(next) = Len(maps) + 1
        /\ \A i \in 1 .. Len(maps) : next[i] = maps[i]
        /\ next[Len(maps) + 1] = c
    BY <2>2, <2>5, <2>6
  <2>8. \A i \in 1 .. Len(next) : next[i] = offer[i]
    BY <1>4, <2>1, <2>4, <2>7
  <2>9. Copied(next)'
    BY <1>1, <1>4, <1>6, <2>4, <2>7, <2>8 DEF Copied, Item
  <2>10. heap' = Blocks(Len(next))
    BY <1>2, <1>4, <1>6, <2>7 DEF Blocks, M!Array
  <2>11. KnownKinds' /\ given' = {} /\ ~ctl'
    BY <1>1, <1>3, <1>6 DEF KnownKinds
  <2>12. IsQuery'
    BY <2>3, <2>9, <2>10, <2>11 DEF IsQuery, Blocks
  <2>13. CallIs'
    BY <1>1, <2>12 DEF CallIs, ChmapInv
  <2> QED BY <1>1, <1>6, <2>13 DEF ChmapInv, GivenIs, SetKept, M!GetTrue, M!TextTrue, KnownKinds
<1>7. CASE heap' = heap \ heap /\ M!Returns(M!Null) /\ UNCHANGED given
  <2>1. CallIs'
    BY <1>1, <1>3, <1>7 DEF CallIs, IsIdle, M!Returns, ChmapInv
  <2> QED BY <1>1, <1>7, <2>1, PlainKeeps, PlainResults DEF M!Returns
<1>8. CASE /\ Len(maps) = Len(offer) /\ given' = heap
           /\ M!Returns([op |-> "query", maps |-> maps]) /\ UNCHANGED heap
  <2>1. CallIs'
    BY <1>1, <1>3, <1>8 DEF CallIs, IsIdle, M!Returns, ChmapInv
  <2>2. maps = offer
    <3>1. \A i \in 1 .. Len(maps) : maps[i] = offer[i]
      BY <1>2 DEF Copied
    <3> QED BY <1>3, <1>4, <1>8, <3>1, SeqEqual
  <2>3. ret'.op = "query" /\ ret'.maps = maps
    BY <1>8 DEF M!Returns
  <2>4. given' = Blocks(Len(offer)) /\ M!Single \notin given'
    BY <1>2, <1>3, <1>8 DEF Blocks, M!Single, M!Array
  <2>5. GivenIs'
    BY <1>1, <1>3, <2>2, <2>3, <2>4 DEF GivenIs, KnownKinds, Blocks
  <2>6. SetKept' /\ M!GetTrue' /\ M!TextTrue'
    BY <1>1, <2>3 DEF ChmapInv, SetKept, M!GetTrue, M!TextTrue
  <2> QED BY <2>1, <2>5, <2>6 DEF ChmapInv
<1> QED BY <1>5, <1>6, <1>7, <1>8

\* The application frees what it was given.
LEMMA FreeGivenKeeps ==
    ASSUME ChmapInv, M!FreeGiven
    PROVE  ChmapInv'
<1>1. /\ call = M!Idle /\ given' = {} /\ ret' = M!Idle /\ UNCHANGED <<offer, kmap, ctl, call, mine>>
      /\ heap' = heap \ (IF M!Single \in given THEN {M!Single} ELSE given)
  BY DEF M!FreeGiven, M!snd_pcm_free_chmaps
<1>2. ~ctl /\ heap = given /\ (M!Single \in given => given = {M!Single})
  BY <1>1, CallFields DEF ChmapInv, CallIs, GivenIs, IsIdle, IsQuery, IsGet, IsSet, IsPrint
<1>3. CallIs'
  BY <1>1, <1>2 DEF CallIs, IsIdle, ChmapInv
<1> QED BY <1>1, <1>3, PlainKeeps, PlainResults

\* The map of the stream is asked for, with a block to put it in.
LEMMA GetKeeps ==
    ASSUME ChmapInv, M!snd_pcm_get_chmap
    PROVE  ChmapInv'
<1>1. call = M!Idle /\ given = {} /\ UNCHANGED <<offer, kmap, ctl, given, mine>>
  BY DEF M!snd_pcm_get_chmap
<1>2. ~ctl /\ heap = given
  BY <1>1, CallFields DEF ChmapInv, CallIs, IsIdle, IsQuery, IsGet, IsSet, IsPrint
<1>3. CASE M!Returns(M!Null) /\ UNCHANGED heap
  <2>1. CallIs'
    BY <1>1, <1>2, <1>3 DEF CallIs, IsIdle, M!Returns, ChmapInv
  <2> QED BY <1>1, <1>3, <2>1, PlainKeeps, PlainResults DEF M!Returns
<1>4. CASE heap' = heap \cup {M!Single} /\ call' = Getting("open") /\ ret' = M!Idle
  <2>1. CallIs'
    BY <1>1, <1>2, <1>4 DEF CallIs, IsGet, ChmapInv
  <2> QED BY <1>1, <1>4, <2>1, PlainKeeps, PlainResults
<1> QED BY <1>3, <1>4 DEF M!snd_pcm_get_chmap, M!Goto, Getting

\* The map that is read is the one the kernel has.
LEMMA DoGetKeeps ==
    ASSUME ChmapInv, M!do_get_chmap
    PROVE  ChmapInv'
<1>1. call # M!Idle /\ call.op = "get" /\ call.at = "func"
  BY DEF M!do_get_chmap
<1>2. CASE M!FuncFails(M!Null)
  BY <1>1, <1>2, FuncFailsKeeps, PlainResults
<1>3. CASE /\ ctl' = FALSE /\ given' = {M!Single} /\ M!Returns([op |-> "get", map |-> kmap])
           /\ UNCHANGED <<offer, kmap, heap, mine>>
  <2>1. heap = {M!Single}
    BY <1>1, CallCases DEF IsGet
  <2>2. CallIs'
    BY <1>3, <2>1 DEF CallIs, IsIdle, M!Returns, ChmapInv
  <2>3. ret'.op = "get" /\ ret'.map = kmap
    BY <1>3 DEF M!Returns
  <2>4. GivenIs' /\ SetKept' /\ M!GetTrue' /\ M!TextTrue'
    BY <1>3, <2>3 DEF ChmapInv, GivenIs, SetKept, M!GetTrue, M!TextTrue
  <2> QED BY <2>2, <2>4 DEF ChmapInv
<1> QED BY <1>2, <1>3 DEF M!do_get_chmap

\* A map is to be set.
LEMMA SetKeeps ==
    ASSUME ChmapInv, NEW m \in Maps, M!snd_pcm_set_chmap(m)
    PROVE  ChmapInv'
<1>1. call = M!Idle /\ UNCHANGED <<offer, kmap, ctl, heap, given, mine>>
  BY DEF M!snd_pcm_set_chmap
<1>2. ~ctl /\ heap = given
  BY <1>1, CallFields DEF ChmapInv, CallIs, IsIdle, IsQuery, IsGet, IsSet, IsPrint
<1>3. CASE M!Returns([op |-> "set", err |-> M!EINVAL])
  <2>1. CallIs'
    BY <1>1, <1>2, <1>3 DEF CallIs, IsIdle, M!Returns, ChmapInv
  <2> QED BY <1>1, <1>3, <2>1, PlainKeeps, PlainResults DEF M!Returns
<1>4. CASE call' = Setting("open", m) /\ ret' = M!Idle
  <2>1. CallIs'
    BY <1>1, <1>2, <1>4 DEF CallIs, IsSet, ChmapInv
  <2> QED BY <1>1, <1>4, <2>1, PlainKeeps, PlainResults
<1> QED BY <1>3, <1>4 DEF M!snd_pcm_set_chmap, M!Goto, Setting

\* The kernel has the map that is set, and zeros for the channels it does not name.
LEMMA DoSetKeeps ==
    ASSUME ChmapInv, M!do_set_chmap
    PROVE  ChmapInv'
<1>1. call # M!Idle /\ call.op = "set" /\ call.at = "func"
  BY DEF M!do_set_chmap
<1>2. ASSUME NEW r \in M!SetFailures, M!FuncFails(r)
      PROVE  ChmapInv'
  BY <1>1, <1>2, FuncFailsKeeps, PlainResults
<1>3. CASE /\ ctl' = FALSE /\ kmap' = M!Padded(call.map) /\ mine' = call.map
           /\ M!Returns([op |-> "set", err |-> 0])
           /\ UNCHANGED <<offer, heap, given>>
  <2>1. heap = given
    BY <1>1, CallCases DEF IsSet
  <2>2. CallIs'
    BY <1>3, <2>1 DEF CallIs, IsIdle, M!Returns, ChmapInv
  <2>3. ret'.op = "set"
    BY <1>3 DEF M!Returns
  <2>4. SetKept'
    BY <1>3 DEF SetKept, M!Padded
  <2>5. GivenIs' /\ M!GetTrue' /\ M!TextTrue'
    BY <1>3, <2>3 DEF ChmapInv, GivenIs, M!GetTrue, M!TextTrue
  <2> QED BY <2>2, <2>4, <2>5 DEF ChmapInv
<1> QED BY <1>2, <1>3 DEF M!do_set_chmap

\* Another process sets the map: what this one has set is forgotten.
LEMMA OtherSetsKeeps ==
    ASSUME ChmapInv, NEW m \in Maps, M!OtherSets(m)
    PROVE  ChmapInv'
<1>1. mine' = M!NoMap /\ UNCHANGED <<offer, ctl, heap, given, call, ret>>
  BY DEF M!OtherSets
<1>2. CallIs'
  BY <1>1 DEF ChmapInv, CallIs, IsIdle, IsQuery, IsGet, IsSet, IsPrint, Copied, KnownKinds
<1>3. GivenIs' /\ SetKept' /\ M!GetTrue' /\ M!TextTrue'
  BY <1>1 DEF ChmapInv, GivenIs, SetKept, M!GetTrue, M!TextTrue, KnownKinds
<1> QED BY <1>2, <1>3 DEF ChmapInv

\* A map is printed, or has no room.
LEMMA PrintKeeps ==
    ASSUME M!ChmapConstants, ChmapInv, NEW m \in Maps, NEW n \in MaxLens, M!PrintMap(m, n)
    PROVE  ChmapInv'
<1> DEFINE r == M!snd_pcm_chmap_print(m, n)
<1>1. call = M!Idle /\ UNCHANGED <<offer, kmap, ctl, heap, given, mine>>
  BY DEF M!PrintMap
<1>2. ~ctl /\ heap = given
  BY <1>1, CallFields DEF ChmapInv, CallIs, IsIdle, IsQuery, IsGet, IsSet, IsPrint
<1>3. CASE M!Returns(M!Null)
  <2>1. CallIs'
    BY <1>1, <1>2, <1>3 DEF CallIs, IsIdle, M!Returns, ChmapInv
  <2> QED BY <1>1, <1>3, <2>1, PlainKeeps, PlainResults DEF M!Returns
<1>4. CASE /\ r # M!Null /\ ret' = M!Idle
           /\ call' = [op |-> "print", at |-> "text", map |-> m, words |-> r.words, len |-> r.len, maxlen |-> n]
  <2>1. r.words = WordsOf(m) /\ r.len < n
    BY <1>4, PrintedIs
  <2> HIDE DEF r
  <2>2. /\ call'.op = "print" /\ call'.at = "text" /\ call'.map = m /\ call'.words = r.words
        /\ call'.len = r.len /\ call'.maxlen = n
    BY <1>4
  <2>3. IsPrint'
    BY <1>1, <1>2, <2>1, <2>2 DEF IsPrint, WordsOf, M!Word
  <2>4. CallIs'
    BY <1>1, <2>3 DEF CallIs, ChmapInv
  <2> QED BY <1>1, <1>4, <2>4, PlainKeeps, PlainResults
<1> QED BY <1>3, <1>4 DEF M!PrintMap, M!Goto

\* The text that was printed is read as the map it was printed for.
LEMMA ParseKeeps ==
    ASSUME M!ChmapConstants, ChmapInv, M!Parse
    PROVE  ChmapInv'
<1> DEFINE r == M!snd_pcm_chmap_parse_string(call.words)
<1>1. call # M!Idle /\ call.op = "print" /\ UNCHANGED <<offer, kmap, ctl, heap, given, mine>>
  BY DEF M!Parse
<1>2. IsPrint
  BY <1>1, CallCases
<1>3. ~ctl /\ heap = given /\ call.words = WordsOf(call.map) /\ call.map \in Seq(M!Channel)
  BY <1>2 DEF IsPrint, M!ChmapConstants
<1>4. call' = M!Idle => CallIs'
  BY <1>1, <1>3 DEF CallIs, IsIdle, ChmapInv
<1>5. CASE M!Returns(M!Null)
  BY <1>1, <1>4, <1>5, PlainKeeps, PlainResults DEF M!Returns
<1>6. CASE r # M!Null /\ M!Returns([op |-> "map", map |-> r.map, was |-> call.map])
  <2>1. r.map = call.map
    BY <1>3, <1>6, TextRead
  <2> HIDE DEF r
  <2>2. ret'.op = "map" /\ ret'.map = ret'.was
    BY <1>6, <2>1 DEF M!Returns
  <2>3. GivenIs' /\ SetKept' /\ M!GetTrue' /\ M!TextTrue'
    BY <1>1, <2>2 DEF ChmapInv, GivenIs, SetKept, M!GetTrue, M!TextTrue
  <2> QED BY <1>4, <1>6, <2>3 DEF ChmapInv, M!Returns
<1> QED BY <1>5, <1>6 DEF M!Parse

\* Every step of the calls on channel maps, and a step of anything else.
LEMMA ChmapStep ==
    ASSUME M!ChmapConstants, ChmapInv, [M!Next]_(M!vars)
    PROVE  ChmapInv'
<1>1. CASE UNCHANGED M!vars
  <2>1. UNCHANGED <<offer, kmap, ctl, heap, given, call, ret, mine>>
    BY <1>1 DEF M!vars
  <2>2. CallIs'
    BY <2>1 DEF ChmapInv, CallIs, IsIdle, IsQuery, IsGet, IsSet, IsPrint, Copied, KnownKinds
  <2>3. GivenIs' /\ SetKept' /\ M!GetTrue' /\ M!TextTrue'
    BY <2>1 DEF ChmapInv, GivenIs, SetKept, M!GetTrue, M!TextTrue, KnownKinds
  <2> QED BY <2>2, <2>3 DEF ChmapInv
<1>2. CASE M!Next
  BY <1>2, OpenCtlKeeps, QueryKeeps, ReadTlvKeeps, CountMapsKeeps, CopyMapKeeps, FreeGivenKeeps,
     GetKeeps, DoGetKeeps, DoSetKeeps, SetKeeps, OtherSetsKeeps, PrintKeeps, ParseKeeps DEF M!Next
<1> QED BY <1>1, <1>2

\* The invariant gives what a run checks: the blocks of a query are the array and
\* one for each map.
LEMMA ChmapInvTrue ==
    ASSUME ChmapInv
    PROVE  M!MapsTrue
<1>1. M!NothingLeft
  BY CallFields DEF ChmapInv, CallIs, IsIdle, IsQuery, IsGet, IsSet, IsPrint, M!NothingLeft
<1>2. M!QueryTrue
  <2> SUFFICES ASSUME ret.op = "query"
               PROVE  /\ ret.maps = offer /\ Cardinality(given) = Len(offer) + 1
                      /\ \A n \in 1 .. Len(offer) : M!IsChmapType(offer[n].type)
    <3>1. M!Cardinality(given) = Cardinality(given)
      BY DEF M!Cardinality, Cardinality
    <3> QED BY <3>1 DEF M!QueryTrue
  <2>1. ret.maps = offer /\ given = Blocks(Len(offer)) /\ KnownKinds /\ Len(offer) \in Nat
    BY DEF ChmapInv, GivenIs, CallIs
  <2>2. given = 0 .. Len(offer)
    BY <2>1 DEF Blocks, M!Array
  <2>3. Cardinality(0 .. Len(offer)) = Len(offer) + 1
    BY <2>1, FS_Interval
  <2> QED BY <2>1, <2>2, <2>3 DEF KnownKinds
<1>3. M!TextFits
  BY CallFields DEF ChmapInv, CallIs, IsIdle, IsQuery, IsGet, IsSet, IsPrint, M!TextFits
<1> QED BY <1>1, <1>2, <1>3 DEF M!MapsTrue, ChmapInv

-----------------------------------------------------------------------------
(* The parts together. *)

\* A step of a part, or of none, is one of that part's next-state relation.
LEMMA PartSteps ==
    ASSUME [AllNext]_allVars
    PROVE  /\ part' = part
           /\ part = "volume" => [Next]_vars
           /\ part = "cards" => [C!Next]_(C!vars)
           /\ part = "maps" => [M!Next]_(M!vars)
<1>1. CASE AllNext
  BY <1>1 DEF AllNext
<1>2. CASE UNCHANGED allVars
  BY <1>2 DEF allVars, volumeVars, cardVars, mapVars, vars, C!vars, M!vars
<1> QED BY <1>1, <1>2

\* A part begins in one of its initial states.
LEMMA PartStarts ==
    ASSUME AllInit
    PROVE  /\ part = "volume" => Init
           /\ part = "cards" => C!Init
           /\ part = "maps" => M!Init
BY DEF AllInit

\* The volume an application is told stands for the item's value in the range it has
\* chosen, and the item has the device's on every channel whose last read and write
\* have not failed (_snd_selem_update_volume, set_volume_range, update_selem_item), for
\* all ranges whose minimum is not above the maximum.
THEOREM HelpersVolumesTrue == AllSpec => []VolumesTrue
<1> DEFINE Inv == part = "volume" => VolumeInv
<1>1. AllInit => Inv
  BY PartStarts, VolumeInit
<1>2. Inv /\ [AllNext]_allVars => Inv'
  BY PartSteps, VolumeStep
<1>3. Inv => VolumesTrue
  BY VolumesStand DEF VolumesTrue
<1> QED BY <1>1, <1>2, <1>3, PTL DEF AllSpec

\* The dB functions answer from the driver's table, or refuse because there is none or it
\* could not be read: the bounds are those of the values there are, and gains that are
\* asked for or set are rounded as asked.  It holds for all controls whose tables are no
\* lists of ranges: any range of values, any scale or pair of bounds, with or without a
\* value that mutes.  Only a table at the start of the TLV is ever kept; for one in a
\* container nothing is claimed once init_db_info has freed an interior pointer.
THEOREM HelpersGainsTrue ==
    ASSUME GradedTables, NoLists
    PROVE  AllSpec => []GainsTrue
<1> DEFINE Inv == part = "volume" => GainInv
<1>1. AllInit => Inv
  BY PartStarts, GainStart
<1>2. Inv /\ [AllNext]_allVars => Inv'
  BY PartSteps, GainStep
<1>3. Inv => GainsTrue
  BY GainsRounded, BoundsExact DEF GainsTrue
<1> QED BY <1>1, <1>2, <1>3, PTL DEF AllSpec

\* The invariant of the search for cards (snd_card_next, snd_card_get_index): whatever
\* comes and goes, every card that has stayed is behind the list's position only if it is
\* in the list, and behind a search's only if it is not the card searched for.
THEOREM CardsInvariant ==
    ASSUME C!CardsConstants
    PROVE  AllSpec => [](part = "cards" => CardsInv)
<1> DEFINE Inv == part = "cards" => CardsInv
<1>1. AllInit => Inv
  BY PartStarts, CardsInit
<1>2. Inv /\ [AllNext]_allVars => Inv'
  BY PartSteps, CardsStep
<1> QED BY <1>1, <1>2, PTL DEF AllSpec

\* snd_card_next lists every card that stays, once and in order, snd_card_get_index
\* finds one by its number, and by its id or the path of its control file if no device
\* number follows (with one it never does), and a name that is found leads to the device
\* it names, however often other cards are plugged in and out between two ioctls.
THEOREM HelpersCardsFound ==
    ASSUME C!CardsConstants
    PROVE  AllSpec => []CardsFound
<1>1. (part = "cards" => CardsInv) => CardsFound
  BY CardsInvFound DEF CardsFound
<1> QED BY <1>1, CardsInvariant, PTL

\* Between any two steps of the calls on channel maps (snd_pcm_query_chmaps_from_hw,
\* snd_pcm_get_chmap, snd_pcm_set_chmap and the text functions) the call in progress
\* holds exactly the blocks and the control device it will give back.
THEOREM ChmapInvariant ==
    ASSUME M!ChmapConstants
    PROVE  AllSpec => [](part = "maps" => ChmapInv)
<1> DEFINE Inv == part = "maps" => ChmapInv
<1>1. AllInit => Inv
  BY PartStarts, ChmapStart
<1>2. Inv /\ [AllNext]_allVars => Inv'
  BY PartSteps, ChmapStep
<1> QED BY <1>1, <1>2, PTL DEF AllSpec

\* Whatever allocation or ioctl fails, a call on channel maps leaves no memory and no
\* control device behind (do_ctl_chmap, snd_pcm_free_chmaps); the maps it returns are
\* all of the driver's, or the one that was set; and text that was printed reads as
\* the same map: for every offer of the driver, every map and every length.
THEOREM HelpersMapsTrue ==
    ASSUME M!ChmapConstants
    PROVE  AllSpec => []MapsTrue
<1>1. (part = "maps" => ChmapInv) => MapsTrue
  BY ChmapInvTrue DEF MapsTrue
<1> QED BY <1>1, ChmapInvariant, PTL
=============================================================================
