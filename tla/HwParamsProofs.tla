--------------------------- MODULE HwParamsProofs ---------------------------
(***************************************************************************)
(* What the refinements of Interval compute, for every UINT_MAX: the       *)
(* points left are exactly those that meet the request, and an error means *)
(* that there are none.  And what the calls on a configuration space do,   *)
(* for every device and every set of parameters.                           *)
(***************************************************************************)
EXTENDS HwParams, WellFoundedInduction, TLAPS

-----------------------------------------------------------------------------
(* Intervals. *)

\* Sums and differences that do not leave the range do not wrap.
LEMMA WrapInRange == ASSUME NEW n \in Uint PROVE Wrap(n) = n
BY UMaxAssumption DEF Wrap, Uint

\* An interval is empty by its bounds exactly when it has no points, provided
\* that an integer interval has had its lower bound closed, ...
LEMMA NoneLeftLow ==
    ASSUME NEW i \in Intervals, ~i.empty, ~(i.integer /\ i.openmin)
    PROVE  NoneLeft(i) <=> Points(i) = {}
<1> DEFINE p == [val |-> i.min, up |-> i.openmin]
<1>1. p \in Positions
  BY DEF Intervals, Positions
<1>2. ASSUME ~NoneLeft(i) PROVE p \in Points(i)
  BY <1>1, <1>2, UMaxAssumption
     DEF Points, Above, Below, NoneLeft, Intervals, Uint
<1>3. ASSUME NEW q \in Points(i) PROVE ~NoneLeft(i)
  BY UMaxAssumption DEF Points, Positions, Above, Below, NoneLeft, Intervals, Uint
<1> QED
  BY <1>2, <1>3

\* ... or its upper one.
LEMMA NoneLeftHigh ==
    ASSUME NEW i \in Intervals, ~i.empty, ~(i.integer /\ i.openmax)
    PROVE  NoneLeft(i) <=> Points(i) = {}
<1> DEFINE p == IF i.openmax THEN [val |-> i.max - 1, up |-> TRUE]
                ELSE [val |-> i.max, up |-> FALSE]
<1>1. ASSUME ~NoneLeft(i) PROVE p \in Points(i)
  <2>1. p \in Positions
    BY <1>1, UMaxAssumption DEF Intervals, Positions, NoneLeft, Uint
  <2> QED
    BY <1>1, <2>1, UMaxAssumption
       DEF Points, Above, Below, NoneLeft, Intervals, Uint
<1>2. ASSUME NEW q \in Points(i) PROVE ~NoneLeft(i)
  BY UMaxAssumption DEF Points, Positions, Above, Below, NoneLeft, Intervals, Uint
<1> QED
  BY <1>1, <1>2

\* Closing a bound of an integer interval changes none of its points, unless
\* the bound wraps around.
LEMMA CloseMinSame ==
    ASSUME NEW i \in Intervals, i.openmin => i.min < UMax
    PROVE  /\ CloseMin(i) \in Intervals
           /\ Points(CloseMin(i)) = Points(i)
           /\ CloseMin(i).empty = i.empty
           /\ ~(CloseMin(i).integer /\ CloseMin(i).openmin)
<1>1. CASE i.integer /\ i.openmin
  <2>1. Wrap(i.min + 1) = i.min + 1
    BY <1>1, WrapInRange, UMaxAssumption DEF Intervals, Uint
  <2>2. CloseMin(i) = [i EXCEPT !.min = i.min + 1, !.openmin = FALSE]
    BY <1>1, <2>1 DEF CloseMin
  <2>3. i.min + 1 \in Uint
    BY <1>1, UMaxAssumption DEF Intervals, Uint
  <2>4. CloseMin(i) \in Intervals
    BY <2>2, <2>3 DEF Intervals
  <2> QED
    BY <1>1, <2>2, <2>4, UMaxAssumption
       DEF Points, Positions, Above, Below, Intervals, Uint
<1>2. CASE ~(i.integer /\ i.openmin)
  BY <1>2 DEF CloseMin
<1> QED
  BY <1>1, <1>2

LEMMA CloseMaxSame ==
    ASSUME NEW i \in Intervals, i.openmax => i.max > 0
    PROVE  /\ CloseMax(i) \in Intervals
           /\ Points(CloseMax(i)) = Points(i)
           /\ CloseMax(i).empty = i.empty
           /\ ~(CloseMax(i).integer /\ CloseMax(i).openmax)
<1>1. CASE i.integer /\ i.openmax
  <2>1. Wrap(i.max - 1) = i.max - 1
    BY <1>1, WrapInRange, UMaxAssumption DEF Intervals, Uint
  <2>2. CloseMax(i) = [i EXCEPT !.max = i.max - 1, !.openmax = FALSE]
    BY <1>1, <2>1 DEF CloseMax
  <2>3. i.max - 1 \in Uint
    BY <1>1, UMaxAssumption DEF Intervals, Uint
  <2>4. CloseMax(i) \in Intervals
    BY <2>2, <2>3 DEF Intervals
  <2> QED
    BY <1>1, <2>2, <2>4, UMaxAssumption
       DEF Points, Positions, Above, Below, Intervals, Uint
<1>2. CASE ~(i.integer /\ i.openmax)
  BY <1>2 DEF CloseMax
<1> QED
  BY <1>1, <1>2

-----------------------------------------------------------------------------
\* The points of i that a lower bound leaves, and those an upper bound leaves.
Raised(i, min, openmin, integer) ==
    {p \in Points(i) : Above(p, min, openmin) /\ (integer => ~p.up)}

Lowered(i, max, openmax, integer) ==
    {p \in Points(i) : Below(p, max, openmax) /\ (integer => ~p.up)}

\* What a refinement promises: a proper interval with just the points wanted,
\* an error if there are none, and 0 only if nothing has changed.
Delivers(res, i, wanted) ==
    /\ res.i \in Intervals
    /\ res.ret \in {EINVAL, 0, 1}
    /\ res.ret < 0 <=> wanted = {}
    /\ res.ret >= 0 => Points(res.i) = wanted /\ ~res.i.empty
    /\ res.ret = 0 => Points(res.i) = Points(i)

\* The check at the end of a refinement to k delivers, if k has the points
\* wanted and changed is set whenever it should be.
LEMMA CheckEmptyDelivers ==
    ASSUME NEW i, NEW k \in Intervals, NEW changed \in BOOLEAN, NEW wanted,
           ~k.empty, Points(k) = wanted, NoneLeft(k) <=> wanted = {},
           ~changed => Points(k) = Points(i)
    PROVE  Delivers(CheckEmpty(k, changed), i, wanted)
<1>1. CASE NoneLeft(k)
  <2> DEFINE e == [k EXCEPT !.empty = TRUE]
  <2>1. e \in Intervals
    BY DEF Intervals
  <2>2. CheckEmpty(k, changed) = [i |-> e, ret |-> EINVAL]
    BY <1>1 DEF CheckEmpty
  <2> HIDE DEF e
  <2> QED
    BY <1>1, <2>1, <2>2 DEF Delivers, EINVAL
<1>2. CASE ~NoneLeft(k)
  <2>1. CheckEmpty(k, changed) = [i |-> k, ret |-> Flag(changed)]
    BY <1>2 DEF CheckEmpty
  <2>2. Flag(changed) \in {0, 1} /\ (Flag(changed) = 0 => ~changed)
    BY DEF Flag
  <2> QED
    BY <1>2, <2>1, <2>2 DEF Delivers, EINVAL
<1> QED
  BY <1>1, <1>2

\* snd_interval_refine_min leaves exactly the points at or above the bound, and
\* fails exactly when there are none.
THEOREM RefineMinExact ==
    ASSUME NEW i \in Intervals, ~i.empty, i.openmin => i.min < UMax,
           NEW min \in Uint, NEW openmin \in BOOLEAN, NEW integer \in BOOLEAN,
           openmin => min < UMax
    PROVE  Delivers(RefineMin(i, min, openmin, integer), i,
                    Raised(i, min, openmin, integer))
<1> DEFINE higher == i.min < min
           opens  == i.min = min /\ ~i.openmin /\ openmin
           j == [i EXCEPT !.min = IF higher THEN min ELSE @,
                          !.openmin = IF higher THEN openmin ELSE @ \/ opens,
                          !.integer = @ \/ integer]
           changed == higher \/ opens \/ (integer /\ ~i.integer)
           wanted == Raised(i, min, openmin, integer)
<1>1. j \in Intervals /\ ~j.empty /\ (j.openmin => j.min < UMax)
  BY UMaxAssumption DEF Intervals, Uint
<1>2. Points(j) = wanted
  BY <1>1, UMaxAssumption
     DEF Points, Positions, Raised, Above, Below, Intervals, Uint
<1>3. ~changed => Points(j) = Points(i)
  BY DEF Intervals, Points
<1> DEFINE k == CloseMin(j)
<1>4. /\ k \in Intervals /\ Points(k) = wanted /\ ~k.empty
      /\ ~(k.integer /\ k.openmin)
  BY <1>1, <1>2, CloseMinSame
<1> HIDE DEF k
<1>5. NoneLeft(k) <=> wanted = {}
  BY <1>4, NoneLeftLow
<1>6. RefineMin(i, min, openmin, integer) = CheckEmpty(k, changed)
  BY DEF RefineMin, k
<1>7. changed \in BOOLEAN
  BY DEF Intervals
<1>8. Points(k) = wanted /\ (~changed => Points(k) = Points(i))
  BY <1>2, <1>3, <1>4
<1> HIDE DEF j, wanted, changed
<1> QED
  BY <1>4, <1>5, <1>6, <1>7, <1>8, CheckEmptyDelivers DEF wanted

\* snd_interval_refine_max leaves exactly the points at or below the bound, and
\* fails exactly when there are none; the bound may not be open at 0, where it
\* would wrap around.
THEOREM RefineMaxExact ==
    ASSUME NEW i \in Intervals, ~i.empty, i.openmax => i.max > 0,
           NEW max \in Uint, NEW openmax \in BOOLEAN, NEW integer \in BOOLEAN,
           openmax => max > 0
    PROVE  Delivers(RefineMax(i, max, openmax, integer), i,
                    Lowered(i, max, openmax, integer))
<1> DEFINE lower == i.max > max
           opens == i.max = max /\ ~i.openmax /\ openmax
           j == [i EXCEPT !.max = IF lower THEN max ELSE @,
                          !.openmax = IF lower THEN openmax ELSE @ \/ opens,
                          !.integer = @ \/ integer]
           changed == lower \/ opens \/ (integer /\ ~i.integer)
           wanted == Lowered(i, max, openmax, integer)
<1>1. j \in Intervals /\ ~j.empty /\ (j.openmax => j.max > 0)
  BY UMaxAssumption DEF Intervals, Uint
<1>2. Points(j) = wanted
  BY <1>1, UMaxAssumption
     DEF Points, Positions, Lowered, Above, Below, Intervals, Uint
<1>3. ~changed => Points(j) = Points(i)
  BY DEF Intervals, Points
<1> DEFINE k == CloseMax(j)
<1>4. /\ k \in Intervals /\ Points(k) = wanted /\ ~k.empty
      /\ ~(k.integer /\ k.openmax)
  BY <1>1, <1>2, CloseMaxSame
<1> HIDE DEF k
<1>5. NoneLeft(k) <=> wanted = {}
  BY <1>4, NoneLeftHigh
<1>6. RefineMax(i, max, openmax, integer) = CheckEmpty(k, changed)
  BY DEF RefineMax, k
<1>7. changed \in BOOLEAN
  BY DEF Intervals
<1>8. Points(k) = wanted /\ (~changed => Points(k) = Points(i))
  BY <1>2, <1>3, <1>4
<1> HIDE DEF j, wanted, changed
<1> QED
  BY <1>4, <1>5, <1>6, <1>7, <1>8, CheckEmptyDelivers DEF wanted

-----------------------------------------------------------------------------
\* Giving a single closed point the integer flag changes nothing.
LEMMA SharpenSame ==
    ASSUME NEW i \in Intervals
    PROVE  /\ Sharpen(i) \in Intervals
           /\ Points(Sharpen(i)) = Points(i)
           /\ Sharpen(i).empty = i.empty
<1>1. Sharpen(i) \in Intervals /\ Sharpen(i).empty = i.empty
  BY DEF Sharpen, Intervals
<1>2. Points(Sharpen(i)) = Points(i)
  BY UMaxAssumption
     DEF Sharpen, Points, Positions, Above, Below, Intervals, Uint
<1> QED
  BY <1>1, <1>2

\* Bounds that no step of a refinement can take out of the unsigned range.
NoWrap(i) == (i.openmin => i.min < UMax) /\ (i.openmax => i.max > 0)

\* Raising the lower bound leaves the upper one alone.
LEMMA RefineMinKeepsMax ==
    ASSUME NEW i \in Intervals, NEW min \in Uint, NEW openmin \in BOOLEAN,
           NEW integer \in BOOLEAN, ~i.empty
    PROVE  LET j == RefineMin(i, min, openmin, integer).i
           IN  j.max = i.max /\ j.openmax = i.openmax
BY DEF RefineMin, CloseMin, CheckEmpty, Intervals

\* snd_interval_refine leaves exactly the points that both intervals have, and
\* fails exactly when there are none.
THEOREM RefineExact ==
    ASSUME NEW i \in Intervals, NEW v \in Intervals, ~i.empty, ~v.empty,
           NoWrap(i), NoWrap(v)
    PROVE  Delivers(Refine(i, v), i, Points(i) \cap Points(v))
<1> DEFINE a == RefineMin(i, v.min, v.openmin, v.integer)
           b == RefineMax(a.i, v.max, v.openmax, v.integer)
           mid == Raised(i, v.min, v.openmin, v.integer)
           wanted == Points(i) \cap Points(v)
<1>1. /\ v.min \in Uint /\ v.max \in Uint
      /\ v.openmin \in BOOLEAN /\ v.openmax \in BOOLEAN /\ v.integer \in BOOLEAN
  BY DEF Intervals
<1>2. Delivers(a, i, mid)
  BY <1>1, RefineMinExact DEF NoWrap
<1>3. a.i.openmax => a.i.max > 0
  BY <1>1, RefineMinKeepsMax DEF NoWrap
<1>4. wanted = {p \in mid : Below(p, v.max, v.openmax) /\ (v.integer => ~p.up)}
  BY DEF Raised, Points
<1>5. CASE a.ret < 0
  <2>1. Refine(i, v) = a
    BY <1>5 DEF Refine
  <2>2. mid = {} /\ wanted = {}
    BY <1>2, <1>4, <1>5 DEF Delivers
  <2> HIDE DEF a, mid, wanted
  <2> QED
    BY <1>2, <2>1, <2>2 DEF Delivers, wanted
<1>6. CASE a.ret >= 0
  <2>1. a.i \in Intervals /\ ~a.i.empty /\ Points(a.i) = mid
    BY <1>2, <1>6 DEF Delivers
  <2>2. Lowered(a.i, v.max, v.openmax, v.integer) = wanted
    BY <1>4, <2>1 DEF Lowered
  <2>3. Delivers(b, a.i, wanted)
    <3> HIDE DEF a, wanted
    <3> QED
      BY <1>1, <1>3, <2>1, <2>2, RefineMaxExact DEF NoWrap
  <2>4. a.ret \in {0, 1} /\ (a.ret = 0 => Points(a.i) = Points(i))
    BY <1>2, <1>6 DEF Delivers, EINVAL
  <2>5. CASE b.ret < 0
    <3>1. Refine(i, v) = b
      BY <1>6, <2>4, <2>5 DEF Refine
    <3> HIDE DEF a, b, wanted
    <3> QED
      BY <2>3, <2>5, <3>1 DEF Delivers, wanted
  <2>6. CASE b.ret >= 0
    <3>1. Refine(i, v) = [i |-> Sharpen(b.i), ret |-> Flag(a.ret = 1 \/ b.ret = 1)]
      BY <1>6, <2>4, <2>6, <2>3 DEF Refine, Delivers, EINVAL
    <3>2. /\ b.i \in Intervals /\ ~b.i.empty /\ Points(b.i) = wanted
          /\ wanted # {} /\ b.ret \in {0, 1}
          /\ b.ret = 0 => Points(b.i) = Points(a.i)
      BY <2>3, <2>6 DEF Delivers, EINVAL
    <3> DEFINE c == Sharpen(b.i)
               ret == Flag(a.ret = 1 \/ b.ret = 1)
    <3>3. c \in Intervals /\ Points(c) = wanted /\ ~c.empty
      BY <3>2, SharpenSame
    <3>4. ret \in {0, 1} /\ (ret = 0 => a.ret = 0 /\ b.ret = 0)
      BY <2>4, <3>2 DEF Flag
    <3>5. ret = 0 => Points(c) = Points(i)
      BY <2>4, <3>2, <3>3, <3>4
    <3> HIDE DEF a, b, c, ret, wanted
    <3>6. Refine(i, v) = [i |-> c, ret |-> ret]
      BY <3>1 DEF c, ret
    <3> QED
      BY <3>2, <3>3, <3>4, <3>5, <3>6 DEF Delivers, EINVAL, wanted
  <2> QED
    BY <2>3, <2>5, <2>6 DEF Delivers, EINVAL
<1> QED
  BY <1>2, <1>5, <1>6 DEF Delivers, EINVAL

\* interval_is_single: the points of a single interval lie on, or just above, one
\* integer.
LEMMA SingleValue ==
    ASSUME NEW i \in Intervals, IsSingle(i)
    PROVE  \A p, q \in Points(i) : p.val <= q.val
<1>1. i.min = i.max \/ (i.min + 1 = i.max /\ i.openmax) \/ i.min > i.max
  <2>1. i.min + 1 \in Uint \/ i.min >= i.max
    BY UMaxAssumption DEF Intervals, Uint
  <2> QED
    BY <2>1, WrapInRange DEF IsSingle, Intervals, Uint
<1> QED
  BY <1>1 DEF Points, Positions, Above, Below, Intervals, Uint

\* snd_interval_refine_first and snd_interval_refine_last settle an interval that
\* has points, on its lowest or highest ones, provided an integer interval has had the bound
\* in question closed, as the kernel leaves it.
THEOREM FirstSettles ==
    ASSUME NEW i \in Intervals, ~i.empty, Points(i) # {}, NoWrap(i),
           ~(i.integer /\ i.openmin)
    PROVE  LET j == RefineFirst(i).i
           IN  /\ j \in Intervals /\ IsSingle(j)
               /\ Points(j) # {} /\ Points(j) \subseteq Points(i)
               /\ \A p \in Points(j), q \in Points(i) : p.val <= q.val
<1>1. ~NoneLeft(i)
  BY NoneLeftLow
<1>2. CASE IsSingle(i)
  <2>1. RefineFirst(i).i = i
    BY <1>2 DEF RefineFirst
  <2>2. \A p, q \in Points(i) : p.val <= q.val
    BY <1>2, SingleValue
  <2> QED
    BY <1>2, <2>1, <2>2
<1>3. CASE ~IsSingle(i)
  <2> DEFINE j == [i EXCEPT !.max = IF i.openmin THEN i.min + 1 ELSE i.min,
                            !.openmax = i.openmin]
  <2>1. i.openmin => Wrap(i.min + 1) = i.min + 1
    BY WrapInRange, UMaxAssumption DEF NoWrap, Intervals, Uint
  <2>2. RefineFirst(i).i = j
    BY <1>3, <2>1 DEF RefineFirst
  <2>3. j \in Intervals /\ ~j.empty /\ ~NoneLeft(j) /\ ~(j.integer /\ j.openmin)
    <3>1. (IF i.openmin THEN i.min + 1 ELSE i.min) \in Uint
      BY UMaxAssumption DEF NoWrap, Intervals, Uint
    <3>2. j \in Intervals
      BY <3>1 DEF Intervals
    <3> QED
      BY <3>2 DEF NoneLeft, Intervals, Uint
  <2>4. IsSingle(j)
    BY <2>1 DEF IsSingle, Intervals
  <2>5. Points(j) \subseteq Points(i)
    <3>1. i.min < i.max
      BY <1>1, <1>3 DEF NoneLeft, IsSingle, Intervals, Uint
    <3> QED
      BY <2>3, <3>1, UMaxAssumption
         DEF Points, Positions, Above, Below, Intervals, Uint
  <2>6. Points(j) # {}
    BY <2>3, NoneLeftLow
  <2>7. \A p \in Points(j), q \in Points(i) : p.val <= q.val
    BY <2>3, UMaxAssumption DEF Points, Positions, Above, Below, Intervals, Uint
  <2> QED
    BY <2>2, <2>3, <2>4, <2>5, <2>6, <2>7
<1> QED
  BY <1>2, <1>3

THEOREM LastSettles ==
    ASSUME NEW i \in Intervals, ~i.empty, Points(i) # {}, NoWrap(i),
           ~(i.integer /\ i.openmax)
    PROVE  LET j == RefineLast(i).i
           IN  /\ j \in Intervals /\ IsSingle(j)
               /\ Points(j) # {} /\ Points(j) \subseteq Points(i)
               /\ \A p \in Points(j), q \in Points(i) : q.val <= p.val
<1>1. ~NoneLeft(i)
  BY NoneLeftHigh
<1>2. CASE IsSingle(i)
  <2>1. RefineLast(i).i = i
    BY <1>2 DEF RefineLast
  <2>2. \A p, q \in Points(i) : q.val <= p.val
    BY <1>2, SingleValue
  <2> QED
    BY <1>2, <2>1, <2>2
<1>3. CASE ~IsSingle(i)
  <2> DEFINE j == [i EXCEPT !.min = IF i.openmax THEN i.max - 1 ELSE i.max,
                            !.openmin = i.openmax]
  <2>1. i.openmax => Wrap(i.max - 1) = i.max - 1
    BY WrapInRange, UMaxAssumption DEF NoWrap, Intervals, Uint
  <2>2. RefineLast(i).i = j
    BY <1>3, <2>1 DEF RefineLast
  <2>3. j \in Intervals /\ ~j.empty /\ ~NoneLeft(j) /\ ~(j.integer /\ j.openmax)
    <3>1. (IF i.openmax THEN i.max - 1 ELSE i.max) \in Uint
      BY UMaxAssumption DEF NoWrap, Intervals, Uint
    <3>2. j \in Intervals
      BY <3>1 DEF Intervals
    <3> QED
      BY <3>2 DEF NoneLeft, Intervals, Uint
  <2>4. IsSingle(j)
    <3>1. i.openmax => Wrap(j.min + 1) = i.max
      BY WrapInRange, UMaxAssumption DEF Intervals, Uint
    <3> QED
      BY <3>1 DEF IsSingle, Intervals
  <2>5. Points(j) \subseteq Points(i)
    <3>1. i.min < i.max /\ (i.openmax => i.min < i.max - 1)
      <4>1. i.min + 1 \in Uint \/ i.min >= i.max
        BY UMaxAssumption DEF Intervals, Uint
      <4> QED
        BY <1>1, <1>3, <4>1, WrapInRange DEF NoneLeft, IsSingle, Intervals, Uint
    <3> QED
      BY <2>3, <3>1, UMaxAssumption
         DEF Points, Positions, Above, Below, Intervals, Uint
  <2>6. Points(j) # {}
    BY <2>3, NoneLeftHigh
  <2>7. \A p \in Points(j), q \in Points(i) : q.val <= p.val
    BY <2>3, UMaxAssumption DEF Points, Positions, Above, Below, Intervals, Uint
  <2> QED
    BY <2>2, <2>3, <2>4, <2>5, <2>6, <2>7
<1> QED
  BY <1>2, <1>3

-----------------------------------------------------------------------------
(* Configuration spaces. *)

\* A set of numbers has a least one, ...
LEMMA Least ==
    ASSUME NEW S, S \subseteq Nat, S # {}
    PROVE  \E x \in S : \A y \in S : x <= y
<1>1. PICK x \in S : \A y \in S : ~(<<y, x>> \in OpToRel(<, Nat))
  BY WFMin, NatLessThanWellFounded, Zenon
<1>2. \A y \in S : ~(y < x)
  BY <1>1 DEF OpToRel
<1>3. \A y \in S : y \in Nat /\ x \in Nat
  OBVIOUS
<1> QED BY <1>2, <1>3

\* ... and a greatest one if it is bounded.
LEMMA Greatest ==
    ASSUME NEW b \in Nat, NEW S, S \subseteq 0..b, S # {}
    PROVE  \E x \in S : \A y \in S : x >= y
<1> DEFINE T == {b - x : x \in S}
<1>0. \A x \in S : x \in Int /\ x <= b /\ b - x \in Nat
  OBVIOUS
<1>1. T \subseteq Nat /\ T # {}
  BY <1>0
<1>2. PICK t \in T : \A y \in T : t <= y
  <2> HIDE DEF T
  <2> QED BY <1>1, Least
<1>3. PICK x \in S : t = b - x
  OBVIOUS
<1>4. ASSUME NEW y \in S PROVE x >= y
  <2>1. b - x <= b - y
    BY <1>2, <1>3
  <2>2. x \in Int /\ y \in Int
    OBVIOUS
  <2> QED BY <2>1, <2>2
<1> QED BY <1>4

\* Induction, over sets of numbers.
LEMMA SetInduction ==
    ASSUME NEW S, 0 \in S, \A n \in Nat : n \in S => n + 1 \in S
    PROVE  Nat \subseteq S
<1> SUFFICES ASSUME Nat \ S # {} PROVE FALSE
  OBVIOUS
<1>1. PICK x \in Nat \ S : \A y \in Nat \ S : x <= y
  <2>1. Nat \ S \subseteq Nat
    OBVIOUS
  <2> QED BY <2>1, Least
<1>2. x # 0 /\ x - 1 \in Nat
  BY <1>1
<1>3. x - 1 \in S
  BY <1>1, <1>2
<1>4. (x - 1) + 1 = x
  BY <1>1
<1> QED BY <1>1, <1>2, <1>3, <1>4

-----------------------------------------------------------------------------
(* The kernel's answer. *)

\* An integer interval has closed bounds, no step of a refinement can take the bounds
\* out of the unsigned range, and an interval without points is marked as empty.
Closed(i) == i.integer => ~i.openmin /\ ~i.openmax

\* An interval of the space: consistent, within UINT_MAX, and marked empty when it is.
GoodI(i) == i \in Intervals /\ NoWrap(i) /\ Closed(i) /\ (Points(i) = {} => i.empty)

\* The values that the mask or interval x of parameter v stands for.
In(x, v) == IF v \in MVars THEN x ELSE Points(x)

\* A field of hw_params, mask or interval by the parameter.
GoodV(x, v) == IF v \in MVars THEN x \subseteq Bits ELSE GoodI(x)

\* A space all of whose fields are good.
Good(s) == s = [v \in Vars |-> s[v]] /\ \A v \in Vars : GoodV(s[v], v)

\* The lowest and the highest value of a parameter, and each bit of a mask, are those
\* of some configuration that is left.
TightV(s, v) ==
    /\ v \in MVars => \A x \in s[v] : \E d \in Space(s) : d[v] = x
    /\ v \in IVars => /\ \E d \in Space(s) : \A p \in Points(s[v]) : AtMost(d[v], p)
                      /\ \E d \in Space(s) : \A p \in Points(s[v]) : AtMost(p, d[v])

\* Every field of the space is as narrow as the configurations in it allow.
Tight(s) == \A v \in Vars : TightV(s, v)

\* The configurations of a space, without the help of Allowed.
LEMMA SpaceIs ==
    ASSUME NEW s
    PROVE  Space(s) = {d \in Device : \A v \in Vars : d[v] \in In(s[v], v)}
BY DEF Space, Allowed, In

\* A set of positions has a lowest one and a highest one.
LEMMA Extremes ==
    ASSUME NEW ps, ps \subseteq Positions, ps # {}
    PROVE  /\ \E lo \in ps : \A p \in ps : AtMost(lo, p)
           /\ \E hi \in ps : \A p \in ps : AtMost(p, hi)
<1> DEFINE R(p) == 2 * p.val + Flag(p.up)
           S == {R(p) : p \in ps}
<1>0. UMax \in Nat
  BY UMaxAssumption
<1>1. \A p \in ps : p.val \in Uint /\ p.up \in BOOLEAN /\ R(p) \in 0..(2 * UMax + 1)
  BY <1>0 DEF Positions, Flag, Uint
<1>2. \A p, q \in ps : R(p) <= R(q) => AtMost(p, q)
  <2> SUFFICES ASSUME NEW p \in ps, NEW q \in ps, R(p) <= R(q) PROVE AtMost(p, q)
    OBVIOUS
  <2>1. p.val \in Int /\ q.val \in Int /\ p.up \in BOOLEAN /\ q.up \in BOOLEAN
    BY <1>0, <1>1 DEF Uint
  <2>2. 2 * p.val + Flag(p.up) <= 2 * q.val + Flag(q.up)
    OBVIOUS
  <2> QED BY <2>1, <2>2 DEF AtMost, Flag
<1>3. S \subseteq 0..(2 * UMax + 1) /\ S # {} /\ 2 * UMax + 1 \in Nat
  BY <1>0, <1>1
<1>4. S \subseteq Nat
  BY <1>3
<1>5. PICK x \in S : \A y \in S : x <= y
  <2> HIDE DEF S
  <2> QED BY <1>3, <1>4, Least
<1>6. PICK z \in S : \A y \in S : z >= y
  <2> HIDE DEF S
  <2> QED BY <1>3, Greatest
<1>7. PICK lo \in ps : x = R(lo)
  OBVIOUS
<1>8. PICK hi \in ps : z = R(hi)
  OBVIOUS
<1>9. \A p \in ps : R(lo) <= R(p)
  BY <1>5, <1>7
<1>10. \A p \in ps : R(p) <= R(hi)
  <2>1. \A p \in ps : R(hi) >= R(p)
    BY <1>6, <1>8
  <2> QED BY <1>0, <1>1, <2>1
<1> HIDE DEF R
<1> QED BY <1>2, <1>9, <1>10

\* The kernel's hull of some points of an interval: it has them, nothing beyond the
\* interval, and its ends are among them.
LEMMA HullIs ==
    ASSUME NEW i \in Intervals, NEW ps, ps \subseteq Points(i), ps # {}, NEW integer \in BOOLEAN,
           integer => \A p \in ps : ~p.up, i.integer => integer
    PROVE  /\ GoodI(Hull(ps, integer)) /\ ~Hull(ps, integer).empty
           /\ ps \subseteq Points(Hull(ps, integer)) /\ Points(Hull(ps, integer)) \subseteq Points(i)
           /\ \E lo \in ps : \A p \in Points(Hull(ps, integer)) : AtMost(lo, p)
           /\ \E hi \in ps : \A p \in Points(Hull(ps, integer)) : AtMost(p, hi)
           /\ IsSingle(i) => IsSingle(Hull(ps, integer))
<1> DEFINE lo == CHOOSE p \in ps : \A q \in ps : AtMost(p, q)
           hi == CHOOSE p \in ps : \A q \in ps : AtMost(q, p)
<1>0. UMax \in Nat
  BY UMaxAssumption
<1>1. ps \subseteq Positions
  BY DEF Points
<1>2. /\ lo \in ps /\ \A q \in ps : AtMost(lo, q)
      /\ hi \in ps /\ \A q \in ps : AtMost(q, hi)
  BY <1>1, Extremes
<1>3. PICK a, b : a = lo /\ b = hi
  OBVIOUS
<1>4. /\ a \in ps /\ b \in ps /\ \A q \in ps : AtMost(a, q) /\ AtMost(q, b)
      /\ a \in Points(i) /\ b \in Points(i)
      /\ a.val \in Uint /\ a.up \in BOOLEAN /\ b.val \in Uint /\ b.up \in BOOLEAN
  BY <1>1, <1>2, <1>3 DEF Positions
<1>5. PICK j : j = [min |-> a.val, openmin |-> a.up,
                    max |-> IF b.up THEN b.val + 1 ELSE b.val, openmax |-> b.up,
                    integer |-> integer, empty |-> FALSE]
  OBVIOUS
<1>6. Hull(ps, integer) = Sharpen(j)
  BY <1>3, <1>5 DEF Hull
<1> HIDE DEF lo, hi
<1>7. i.min \in Uint /\ i.max \in Uint /\ i.openmin \in BOOLEAN /\ i.openmax \in BOOLEAN
      /\ i.integer \in BOOLEAN
  BY DEF Intervals
<1>8. b.up => b.val < UMax
  BY <1>0, <1>4, <1>7 DEF Points, Below, Uint
<1>9. /\ j.min = a.val /\ j.openmin = a.up /\ j.openmax = b.up /\ j.integer = integer /\ ~j.empty
      /\ j.max = IF b.up THEN b.val + 1 ELSE b.val
  BY <1>5
<1>10. j \in Intervals
  <2>1. (IF b.up THEN b.val + 1 ELSE b.val) \in Uint
    BY <1>0, <1>4, <1>8 DEF Uint
  <2> QED BY <1>4, <1>5, <2>1 DEF Intervals
<1>11. a.up => a.val < UMax
  BY <1>0, <1>4, <1>7 DEF Points, Below, Uint
<1>12. NoWrap(j) /\ Closed(j)
  BY <1>0, <1>4, <1>9, <1>11 DEF NoWrap, Closed, Uint
<1>13. /\ Sharpen(j) \in Intervals /\ NoWrap(Sharpen(j)) /\ Closed(Sharpen(j))
       /\ ~Sharpen(j).empty /\ Points(Sharpen(j)) = Points(j)
  <2>1. /\ Sharpen(j).openmin = j.openmin /\ Sharpen(j).openmax = j.openmax
        /\ Sharpen(j).min = j.min /\ Sharpen(j).max = j.max
        /\ (Sharpen(j).integer => j.integer \/ (~j.openmin /\ ~j.openmax))
    BY <1>10 DEF Sharpen, Intervals
  <2> QED BY <1>9, <1>10, <1>12, <2>1, SharpenSame DEF GoodI, NoWrap, Closed
<1>14. \A p \in Positions : p \in Points(j) <=> /\ p.val > a.val \/ (p.val = a.val /\ (a.up => p.up))
                                                /\ p.val < b.val \/ (p.val = b.val /\ (p.up => b.up))
                                                /\ integer => ~p.up
  <2> SUFFICES ASSUME NEW p \in Positions
               PROVE  p \in Points(j) <=> /\ p.val > a.val \/ (p.val = a.val /\ (a.up => p.up))
                                          /\ p.val < b.val \/ (p.val = b.val /\ (p.up => b.up))
                                          /\ integer => ~p.up
    OBVIOUS
  <2>1. p.val \in Int /\ a.val \in Int /\ b.val \in Int /\ p.up \in BOOLEAN
    BY <1>0, <1>4 DEF Positions, Uint
  <2>2. Above(p, j.min, j.openmin) <=> p.val > a.val \/ (p.val = a.val /\ (a.up => p.up))
    BY <1>9 DEF Above
  <2>3. Below(p, j.max, j.openmax) <=> p.val < b.val \/ (p.val = b.val /\ (p.up => b.up))
    BY <1>4, <1>9, <2>1 DEF Below
  <2> QED BY <1>9, <2>2, <2>3 DEF Points
<1>15. ps \subseteq Points(j)
  <2> SUFFICES ASSUME NEW p \in ps PROVE p \in Points(j)
    OBVIOUS
  <2>1. p \in Positions /\ AtMost(a, p) /\ AtMost(p, b) /\ (integer => ~p.up)
    BY <1>1, <1>4
  <2>2. p.val \in Int /\ a.val \in Int /\ b.val \in Int
    BY <1>0, <1>4, <2>1 DEF Positions, Uint
  <2> QED BY <1>14, <2>1, <2>2 DEF AtMost
<1>16. Points(j) \subseteq Points(i)
  <2> SUFFICES ASSUME NEW p \in Points(j) PROVE p \in Points(i)
    OBVIOUS
  <2>1. p \in Positions
    BY DEF Points
  <2>2. p.val \in Int /\ a.val \in Int /\ b.val \in Int /\ i.min \in Int /\ i.max \in Int
    BY <1>0, <1>4, <1>7, <2>1 DEF Positions, Uint
  <2>3. /\ Above(a, i.min, i.openmin) /\ Below(b, i.max, i.openmax) /\ ~i.empty
    BY <1>4 DEF Points
  <2>4. Above(p, i.min, i.openmin)
    BY <1>14, <2>1, <2>2, <2>3 DEF Above
  <2>5. Below(p, i.max, i.openmax)
    BY <1>14, <2>1, <2>2, <2>3 DEF Below
  <2>6. i.integer => ~p.up
    BY <1>14, <2>1
  <2> QED BY <2>1, <2>3, <2>4, <2>5, <2>6 DEF Points
<1>17. \A p \in Points(j) : AtMost(a, p) /\ AtMost(p, b)
  <2> SUFFICES ASSUME NEW p \in Points(j) PROVE AtMost(a, p) /\ AtMost(p, b)
    OBVIOUS
  <2>1. p \in Positions
    BY DEF Points
  <2>2. p.val \in Int /\ a.val \in Int /\ b.val \in Int
    BY <1>0, <1>4, <2>1 DEF Positions, Uint
  <2> QED BY <1>14, <2>1, <2>2 DEF AtMost
<1>18. IsSingle(i) => IsSingle(Sharpen(j))
  <2> SUFFICES ASSUME IsSingle(i) PROVE IsSingle(Sharpen(j))
    OBVIOUS
  <2>1. a.val = b.val
    <3>1. a.val <= b.val /\ b.val <= a.val
      BY <1>4, SingleValue
    <3> QED BY <1>0, <1>4, <3>1 DEF Uint
  <2>2. b.up => Wrap(b.val + 1) = b.val + 1
    BY <1>0, <1>4, <1>8, WrapInRange DEF Uint
  <2>3. IsSingle(j)
    BY <1>4, <1>9, <2>1, <2>2 DEF IsSingle
  <2>4. Sharpen(j).min = j.min /\ Sharpen(j).max = j.max /\ Sharpen(j).openmax = j.openmax
    BY <1>10 DEF Sharpen, Intervals
  <2> QED BY <2>3, <2>4 DEF IsSingle
<1>19. GoodI(Sharpen(j))
  BY <1>13, <1>15 DEF GoodI
<1> QED BY <1>4, <1>6, <1>13, <1>15, <1>16, <1>17, <1>18, <1>19

\* A space of masks and intervals.
ShapeV(x, v) == IF v \in MVars THEN x \subseteq Bits ELSE x \in Intervals

\* What HW_REFINE needs of the space it is given: fields of the right kinds.
Shape(s) == s = [v \in Vars |-> s[v]] /\ \A v \in Vars : ShapeV(s[v], v)

\* What is settled in the space s is settled in t.
Settled(s, t) == \A v \in Vars : Single(s[v], v) => Single(t[v], v)

\* What the kernel answers if configurations are left.
Answered(s, k) ==
    /\ k.ret = 0 /\ k.r = {}
    /\ Good(k.s) /\ Tight(k.s) /\ Space(k.s) = Space(s)
    /\ \A v \in Vars : ~IsEmpty(k.s, v)
    /\ Settled(s, k.s)

\* A good space is one that HW_REFINE can be given.
LEMMA GoodShape == ASSUME NEW s, Good(s) PROVE Shape(s)
BY DEF Good, Shape, GoodV, ShapeV, GoodI

\* SNDRV_PCM_IOCTL_HW_REFINE on a space with configurations in it keeps these, makes
\* the space tight, and unsettles nothing.
LEMMA HwRefineIs ==
    ASSUME NEW s, Shape(s), NEW r, Space(s) # {}
    PROVE  Answered(s, HwRefine(s, r))
<1> DEFINE vals(v) == {d[v] : d \in Space(s)}
           integer(v) == s[v].integer \/ v \in IntegerVars
           t == [v \in Vars |-> IF v \in MVars THEN vals(v) ELSE Hull(vals(v), integer(v))]
<1>1. HwRefine(s, r) = State(t, {}, 0)
  BY DEF HwRefine
<1>2. /\ HwRefine(s, r).ret = 0 /\ HwRefine(s, r).r = {} /\ HwRefine(s, r).s = t
  BY <1>1 DEF State
<1>3. ASSUME NEW v \in Vars
      PROVE  /\ vals(v) # {} /\ vals(v) \subseteq In(s[v], v)
  BY SpaceIs
<1>4. ASSUME NEW v \in MVars
      PROVE  /\ GoodV(t[v], v) /\ ~IsEmpty(t, v)
             /\ vals(v) \subseteq In(t[v], v) /\ In(t[v], v) \subseteq In(s[v], v)
             /\ t[v] = vals(v)
             /\ Single(s[v], v) => Single(t[v], v)
  <2>1. v \in Vars
    BY DEF Vars
  <2>2. t[v] = vals(v)
    BY <2>1
  <2>3. ShapeV(s[v], v)
    BY <2>1 DEF Shape
  <2> HIDE DEF t, vals
  <2>4. vals(v) # {} /\ vals(v) \subseteq s[v] /\ s[v] \subseteq Bits
    BY <1>3, <2>1, <2>3 DEF In, ShapeV
  <2> QED BY <2>2, <2>4 DEF GoodV, IsEmpty, In, Single, MaskSingle
<1>5. ASSUME NEW v \in IVars
      PROVE  /\ v \notin MVars
             /\ GoodV(t[v], v) /\ ~IsEmpty(t, v)
             /\ vals(v) \subseteq In(t[v], v) /\ In(t[v], v) \subseteq In(s[v], v)
             /\ \E x \in vals(v) : \A p \in Points(t[v]) : AtMost(x, p)
             /\ \E x \in vals(v) : \A p \in Points(t[v]) : AtMost(p, x)
             /\ Single(s[v], v) => Single(t[v], v)
  <2>1. v \in Vars /\ v \notin MVars
    BY HwParamsConstants DEF Vars
  <2>2. t[v] = Hull(vals(v), integer(v))
    BY <2>1
  <2>3. s[v] \in Intervals
    BY <2>1 DEF Shape, ShapeV
  <2>4. integer(v) \in BOOLEAN /\ (s[v].integer => integer(v))
    BY <2>3 DEF Intervals
  <2>5. \A d \in Space(s) : d[v] \in Points(s[v]) /\ d \in Device
    BY <2>1, SpaceIs DEF In
  <2>6. integer(v) => \A p \in vals(v) : ~p.up
    BY <2>5, HwParamsConstants DEF Points
  <2>7. vals(v) # {} /\ vals(v) \subseteq Points(s[v])
    BY <1>3, <2>1 DEF In
  <2> HIDE DEF t, vals, integer
  <2>8. PICK n \in BOOLEAN : n = integer(v)
    BY <2>4
  <2>8a. PICK ps : ps = vals(v)
    OBVIOUS
  <2>9. PICK i \in Intervals : i = s[v]
    BY <2>3
  <2>10. /\ GoodI(Hull(ps, n)) /\ ~Hull(ps, n).empty
         /\ ps \subseteq Points(Hull(ps, n)) /\ Points(Hull(ps, n)) \subseteq Points(i)
         /\ \E lo \in ps : \A p \in Points(Hull(ps, n)) : AtMost(lo, p)
         /\ \E hi \in ps : \A p \in Points(Hull(ps, n)) : AtMost(p, hi)
         /\ IsSingle(i) => IsSingle(Hull(ps, n))
    BY <2>4, <2>6, <2>7, <2>8, <2>8a, <2>9, HullIs
  <2> QED BY <2>1, <2>2, <2>8, <2>8a, <2>9, <2>10 DEF GoodV, IsEmpty, In, Single
<1>6. \A v \in Vars : v \in MVars \/ v \in IVars
  BY DEF Vars
<1>7. t = [v \in Vars |-> t[v]]
  OBVIOUS
<1>8. \A v \in Vars : In(t[v], v) \subseteq In(s[v], v) /\ vals(v) \subseteq In(t[v], v)
  <2> HIDE DEF t, vals
  <2> QED BY <1>4, <1>5, <1>6
<1>9. Good(t) /\ Settled(s, t) /\ \A v \in Vars : ~IsEmpty(t, v)
  <2> HIDE DEF t, vals
  <2> QED BY <1>4, <1>5, <1>6, <1>7 DEF Good, Settled
<1>10. Space(t) = Space(s)
  <2>1. ASSUME NEW d \in Space(s) PROVE d \in Space(t)
    <3>1. d \in Device /\ \A v \in Vars : d[v] \in vals(v)
      BY SpaceIs
    <3> HIDE DEF t, vals
    <3>2. \A v \in Vars : d[v] \in In(t[v], v)
      BY <1>8, <3>1
    <3> QED BY <3>1, <3>2, SpaceIs
  <2>2. ASSUME NEW d \in Space(t) PROVE d \in Space(s)
    <3> HIDE DEF t, vals
    <3>1. d \in Device /\ \A v \in Vars : d[v] \in In(t[v], v)
      BY SpaceIs
    <3> QED BY <1>8, <3>1, SpaceIs
  <2> QED BY <2>1, <2>2
<1>11. ASSUME NEW v \in Vars PROVE TightV(t, v)
  <2>1. ASSUME v \in MVars, NEW x \in t[v] PROVE \E d \in Space(t) : d[v] = x
    <3>1. x \in vals(v)
      BY <2>1
    <3>2. PICK d \in Space(s) : d[v] = x
      BY <3>1
    <3> QED BY <1>10, <3>2
  <2>2. ASSUME v \in IVars
        PROVE /\ \E d \in Space(t) : \A p \in Points(t[v]) : AtMost(d[v], p)
              /\ \E d \in Space(t) : \A p \in Points(t[v]) : AtMost(p, d[v])
    <3>1. /\ \E x \in vals(v) : \A p \in Points(t[v]) : AtMost(x, p)
          /\ \E x \in vals(v) : \A p \in Points(t[v]) : AtMost(p, x)
      <4> HIDE DEF t, vals
      <4> QED BY <1>5, <2>2
    <3> HIDE DEF t
    <3>2. PICK d \in Space(s) : \A p \in Points(t[v]) : AtMost(d[v], p)
      BY <3>1
    <3>3. PICK e \in Space(s) : \A p \in Points(t[v]) : AtMost(p, e[v])
      BY <3>1
    <3> QED BY <1>10, <3>2, <3>3
  <2> HIDE DEF t
  <2> QED BY <2>1, <2>2 DEF TightV
<1> HIDE DEF t
<1> QED BY <1>2, <1>9, <1>10, <1>11 DEF Answered, Tight

-----------------------------------------------------------------------------
(* One parameter refined. *)

\* A refinement of the value x of parameter v gives a value of the same kind, and says
\* that nothing has changed only if that is so.
Tame(res, x, v) ==
    /\ res.ret \in {EINVAL, ENOENT, 0, 1}
    /\ res.ret >= 0 => ShapeV(res.i, v)
    /\ res.ret = 0 => GoodV(res.i, v) /\ In(res.i, v) = In(x, v)

\* It keeps exactly the values wanted, and fails only if there are none.
Exact(res, x, v, wanted) ==
    /\ res.ret >= 0 => In(res.i, v) = In(x, v) \cap wanted
    /\ res.ret < 0 => In(x, v) \cap wanted = {}

\* The positions at or above, or at or below, a place.
From(n) == {p \in Positions : 2 * p.val + Flag(p.up) >= n}

\* The values an upper bound admits, counted in half steps.
UpTo(n) == {p \in Positions : 2 * p.val + Flag(p.up) <= n}

\* Arithmetic on unsigned int stays in unsigned int.
LEMMA WrapUint == ASSUME NEW n \in Int PROVE Wrap(n) \in Uint
BY UMaxAssumption DEF Wrap, Uint

\* snd_interval_refine_min and snd_interval_refine_max give intervals, whatever the
\* bound, and 0 only for the interval that they were given.
LEMMA RefineMinTyped ==
    ASSUME NEW i \in Intervals, NEW min \in Uint, NEW openmin \in BOOLEAN, NEW integer \in BOOLEAN
    PROVE  LET a == RefineMin(i, min, openmin, integer)
           IN  /\ a.i \in Intervals /\ a.ret \in {EINVAL, ENOENT, 0, 1}
               /\ a.ret = 0 /\ Closed(i) => a.i = i
<1> DEFINE higher == i.min < min
           opens  == i.min = min /\ ~i.openmin /\ openmin
           j == [i EXCEPT !.min = IF higher THEN min ELSE @,
                          !.openmin = IF higher THEN openmin ELSE @ \/ opens,
                          !.integer = @ \/ integer]
           changed == higher \/ opens \/ (integer /\ ~i.integer)
           a == RefineMin(i, min, openmin, integer)
<1>1. a = IF i.empty THEN [i |-> i, ret |-> ENOENT] ELSE CheckEmpty(CloseMin(j), changed)
  BY DEF RefineMin
<1>2. j \in Intervals /\ changed \in BOOLEAN
  BY DEF Intervals
<1>3. ~changed => j = i
  BY DEF Intervals
<1> HIDE DEF a, j, changed
<1>4. CloseMin(j) \in Intervals
  <2>1. Wrap(j.min + 1) \in Uint
    <3>1. j.min + 1 \in Int
      BY <1>2, UMaxAssumption DEF Intervals, Uint
    <3> QED BY <3>1, WrapUint
  <2> QED BY <1>2, <2>1 DEF CloseMin, Intervals
<1>5. PICK k \in Intervals : k = CloseMin(j)
  BY <1>4
<1>6. a = IF i.empty THEN [i |-> i, ret |-> ENOENT] ELSE CheckEmpty(k, changed)
  BY <1>1, <1>5
<1>7. [k EXCEPT !.empty = TRUE] \in Intervals
  BY DEF Intervals
<1>8. a.i \in Intervals /\ a.ret \in {EINVAL, ENOENT, 0, 1}
  BY <1>2, <1>6, <1>7 DEF CheckEmpty, Flag
<1>9. ASSUME a.ret = 0 PROVE ~changed /\ a.i = k
  BY <1>2, <1>6, <1>9 DEF CheckEmpty, Flag, EINVAL, ENOENT
<1>10. ASSUME Closed(i), ~changed PROVE k = i
  BY <1>3, <1>5, <1>10 DEF CloseMin, Closed
<1>11. a = RefineMin(i, min, openmin, integer)
  BY DEF a
<1> QED BY <1>8, <1>9, <1>10, <1>11

\* The same for snd_interval_refine_max.
LEMMA RefineMaxTyped ==
    ASSUME NEW i \in Intervals, NEW max \in Uint, NEW openmax \in BOOLEAN, NEW integer \in BOOLEAN
    PROVE  LET a == RefineMax(i, max, openmax, integer)
           IN  /\ a.i \in Intervals /\ a.ret \in {EINVAL, ENOENT, 0, 1}
               /\ a.ret = 0 /\ Closed(i) => a.i = i
<1> DEFINE lower == i.max > max
           opens == i.max = max /\ ~i.openmax /\ openmax
           j == [i EXCEPT !.max = IF lower THEN max ELSE @,
                          !.openmax = IF lower THEN openmax ELSE @ \/ opens,
                          !.integer = @ \/ integer]
           changed == lower \/ opens \/ (integer /\ ~i.integer)
           a == RefineMax(i, max, openmax, integer)
<1>1. a = IF i.empty THEN [i |-> i, ret |-> ENOENT] ELSE CheckEmpty(CloseMax(j), changed)
  BY DEF RefineMax
<1>2. j \in Intervals /\ changed \in BOOLEAN
  BY DEF Intervals
<1>3. ~changed => j = i
  BY DEF Intervals
<1> HIDE DEF a, j, changed
<1>4. CloseMax(j) \in Intervals
  <2>1. Wrap(j.max - 1) \in Uint
    <3>1. j.max - 1 \in Int
      BY <1>2, UMaxAssumption DEF Intervals, Uint
    <3> QED BY <3>1, WrapUint
  <2> QED BY <1>2, <2>1 DEF CloseMax, Intervals
<1>5. PICK k \in Intervals : k = CloseMax(j)
  BY <1>4
<1>6. a = IF i.empty THEN [i |-> i, ret |-> ENOENT] ELSE CheckEmpty(k, changed)
  BY <1>1, <1>5
<1>7. [k EXCEPT !.empty = TRUE] \in Intervals
  BY DEF Intervals
<1>8. a.i \in Intervals /\ a.ret \in {EINVAL, ENOENT, 0, 1}
  BY <1>2, <1>6, <1>7 DEF CheckEmpty, Flag
<1>9. ASSUME a.ret = 0 PROVE ~changed /\ a.i = k
  BY <1>2, <1>6, <1>9 DEF CheckEmpty, Flag, EINVAL, ENOENT
<1>10. ASSUME Closed(i), ~changed PROVE k = i
  BY <1>3, <1>5, <1>10 DEF CloseMax, Closed
<1>11. a = RefineMax(i, max, openmax, integer)
  BY DEF a
<1> QED BY <1>8, <1>9, <1>10, <1>11

\* Parameters with an interval have no mask.
LEMMA IVar == ASSUME NEW v \in IVars PROVE v \notin MVars /\ v \in Vars
BY HwParamsConstants DEF Vars

\* hw_param_set_min: the bound that it passes on, and the places at or above it.
PassesMin(a, x, val, dir) ==
    \E min \in Uint, open \in BOOLEAN :
        /\ a = RefineMin(x, min, open, FALSE)
        /\ ~(val = UMax /\ dir > 0) =>
              /\ open => min < UMax
              /\ \A p \in Positions : Above(p, min, open) <=> p \in From(2 * val + dir)

\* hw_param_set_min turns value and direction into a bound and an open flag.
LEMMA SetMinIs ==
    ASSUME NEW v \in IVars, NEW x, NEW val \in Uint, NEW dir \in {-1, 0, 1}
    PROVE  PassesMin(hw_param_set_min(x, v, val, dir), x, val, dir)
<1>0. v \notin MVars /\ UMax \in Nat /\ val \in Int /\ val >= 0 /\ val <= UMax
  BY IVar, UMaxAssumption DEF Uint
<1>1. PICK min \in Uint : min = IF dir < 0 /\ val > 0 THEN val - 1 ELSE val
  BY <1>0 DEF Uint
<1>2. PICK open \in BOOLEAN : open <=> (dir < 0 /\ val > 0) \/ dir > 0
  OBVIOUS
<1>2a. dir \in Int /\ min \in Int /\ (open <=> (dir < 0 /\ val > 0) \/ dir > 0)
  BY <1>0, <1>2 DEF Uint
<1>3. hw_param_set_min(x, v, val, dir) = RefineMin(x, min, open, FALSE)
  <2>1. CASE dir < 0 /\ val > 0
    <3>1. open = TRUE
      BY <1>2, <2>1
    <3> QED BY <1>0, <1>1, <2>1, <3>1 DEF hw_param_set_min
  <2>2. CASE ~(dir < 0 /\ val > 0)
    <3>1. open = (dir > 0)
      BY <1>2, <2>2
    <3> QED BY <1>0, <1>1, <2>2, <3>1 DEF hw_param_set_min
  <2> QED BY <2>1, <2>2
<1>4. ASSUME ~(val = UMax /\ dir > 0)
      PROVE  /\ open => min < UMax
             /\ \A p \in Positions : Above(p, min, open) <=> p \in From(2 * val + dir)
  <2>1. open => min < UMax
    BY <1>0, <1>1, <1>2a, <1>4
  <2>2. ASSUME NEW p \in Positions
        PROVE  Above(p, min, open) <=> 2 * p.val + Flag(p.up) >= 2 * val + dir
    <3>1. p.val \in Int /\ p.val >= 0 /\ p.up \in BOOLEAN
      BY <1>0 DEF Positions, Uint
    <3> QED BY <1>0, <1>1, <1>2a, <3>1 DEF Above, Flag
  <2> QED BY <2>1, <2>2 DEF From
<1> QED BY <1>2, <1>3, <1>4 DEF PassesMin

\* hw_param_set_max: the bound that it passes on, and the places at or below it.
PassesMax(a, x, val, dir) ==
    \E max \in Uint, open \in BOOLEAN :
        /\ a = RefineMax(x, max, open, FALSE)
        /\ ~(val = UMax /\ dir > 0) /\ ~(val = 0 /\ dir < 0) =>
              /\ open => max > 0
              /\ \A p \in Positions : Below(p, max, open) <=> p \in UpTo(2 * val + dir)

\* hw_param_set_max does so too, one up and open for a positive direction.
LEMMA SetMaxIs ==
    ASSUME NEW v \in IVars, NEW x, NEW val \in Uint, NEW dir \in {-1, 0, 1}
    PROVE  PassesMax(hw_param_set_max(x, v, val, dir), x, val, dir)
<1>0. v \notin MVars /\ UMax \in Nat /\ val \in Int /\ val >= 0 /\ val <= UMax /\ val + 1 \in Int
  BY IVar, UMaxAssumption DEF Uint
<1>1. PICK max \in Uint : max = IF dir > 0 THEN Wrap(val + 1) ELSE val
  BY <1>0, WrapUint DEF Uint
<1>2. PICK open \in BOOLEAN : open <=> dir # 0
  OBVIOUS
<1>2a. dir \in Int /\ max \in Int /\ (open <=> dir # 0)
  BY <1>0, <1>2 DEF Uint
<1>3. hw_param_set_max(x, v, val, dir) = RefineMax(x, max, open, FALSE)
  BY <1>0, <1>1, <1>2 DEF hw_param_set_max
<1>4. ASSUME ~(val = UMax /\ dir > 0), ~(val = 0 /\ dir < 0)
      PROVE  /\ open => max > 0
             /\ \A p \in Positions : Below(p, max, open) <=> p \in UpTo(2 * val + dir)
  <2>0. dir > 0 => Wrap(val + 1) = val + 1
    <3>1. dir > 0 => val + 1 \in Uint
      BY <1>0, <1>4 DEF Uint
    <3> QED BY <3>1, WrapInRange
  <2>1. open => max > 0
    BY <1>0, <1>1, <1>2a, <1>4, <2>0
  <2>2. ASSUME NEW p \in Positions
        PROVE  Below(p, max, open) <=> 2 * p.val + Flag(p.up) <= 2 * val + dir
    <3>1. p.val \in Int /\ p.val >= 0 /\ p.up \in BOOLEAN
      BY <1>0 DEF Positions, Uint
    <3>2. max \in Int /\ max = IF dir > 0 THEN val + 1 ELSE val
      BY <1>0, <1>1, <2>0
    <3> QED BY <1>0, <1>2a, <3>1, <3>2 DEF Below, Flag
  <2> QED BY <2>1, <2>2 DEF UpTo
<1> QED BY <1>2, <1>3, <1>4 DEF PassesMax

\* An interval, an error or a flag, and nothing changed if the flag is 0.
Typed(res, x) ==
    /\ res.i \in Intervals /\ res.ret \in {EINVAL, ENOENT, 0, 1}
    /\ res.ret = 0 /\ Closed(x) => res.i = x

\* The points wanted, or an error if there are none.
Left(res, wanted) ==
    /\ res.ret < 0 => wanted = {}
    /\ res.ret >= 0 => Points(res.i) = wanted /\ ~res.i.empty

\* What hw_param_set_min makes of an interval: the values from the bound on.
LEMMA SetMinDoes ==
    ASSUME NEW v \in IVars, NEW x \in Intervals, NEW val \in Uint, NEW dir \in {-1, 0, 1}
    PROVE  LET a == hw_param_set_min(x, v, val, dir)
           IN  /\ Typed(a, x)
               /\ ~x.empty => a.i.max = x.max /\ a.i.openmax = x.openmax
               /\ ~x.empty /\ (x.openmin => x.min < UMax) /\ ~(val = UMax /\ dir > 0)
                     => Left(a, Points(x) \cap From(2 * val + dir))
<1> DEFINE a == hw_param_set_min(x, v, val, dir)
<1>0. PassesMin(a, x, val, dir)
  BY SetMinIs
<1>1. PICK min \in Uint, open \in BOOLEAN :
              /\ a = RefineMin(x, min, open, FALSE)
              /\ ~(val = UMax /\ dir > 0) =>
                    /\ open => min < UMax
                    /\ \A p \in Positions : Above(p, min, open) <=> p \in From(2 * val + dir)
  <2> HIDE DEF a
  <2> QED BY <1>0 DEF PassesMin
<1> HIDE DEF a
<1>2. Typed(a, x)
  BY <1>1, RefineMinTyped DEF Typed
<1>3. ~x.empty => a.i.max = x.max /\ a.i.openmax = x.openmax
  BY <1>1, RefineMinKeepsMax
<1>4. ASSUME ~x.empty, x.openmin => x.min < UMax, ~(val = UMax /\ dir > 0)
      PROVE  Left(a, Points(x) \cap From(2 * val + dir))
  <2>1. Raised(x, min, open, FALSE) = Points(x) \cap From(2 * val + dir)
    BY <1>1, <1>4 DEF Raised, Points, From
  <2>2. Delivers(a, x, Raised(x, min, open, FALSE))
    BY <1>1, <1>4, RefineMinExact
  <2> QED BY <2>1, <2>2 DEF Delivers, Left
<1> QED BY <1>2, <1>3, <1>4 DEF a

\* What hw_param_set_max makes of one: the values up to the bound, unless it wraps.
LEMMA SetMaxDoes ==
    ASSUME NEW v \in IVars, NEW x \in Intervals, NEW val \in Uint, NEW dir \in {-1, 0, 1}
    PROVE  LET a == hw_param_set_max(x, v, val, dir)
           IN  /\ Typed(a, x)
               /\ (~x.empty /\ (x.openmax => x.max > 0) /\ ~(val = UMax /\ dir > 0) /\ ~(val = 0 /\ dir < 0))
                     => Left(a, Points(x) \cap UpTo(2 * val + dir))
<1> DEFINE a == hw_param_set_max(x, v, val, dir)
<1>0. PassesMax(a, x, val, dir)
  BY SetMaxIs
<1>1. PICK max \in Uint, open \in BOOLEAN :
              /\ a = RefineMax(x, max, open, FALSE)
              /\ ~(val = UMax /\ dir > 0) /\ ~(val = 0 /\ dir < 0) =>
                    /\ open => max > 0
                    /\ \A p \in Positions : Below(p, max, open) <=> p \in UpTo(2 * val + dir)
  <2> HIDE DEF a
  <2> QED BY <1>0 DEF PassesMax
<1> HIDE DEF a
<1>2. Typed(a, x)
  BY <1>1, RefineMaxTyped DEF Typed
<1>3. ASSUME ~x.empty, x.openmax => x.max > 0, ~(val = UMax /\ dir > 0), ~(val = 0 /\ dir < 0)
      PROVE  Left(a, Points(x) \cap UpTo(2 * val + dir))
  <2>1. Lowered(x, max, open, FALSE) = Points(x) \cap UpTo(2 * val + dir)
    BY <1>1, <1>3 DEF Lowered, Points, UpTo
  <2>2. Delivers(a, x, Lowered(x, max, open, FALSE))
    BY <1>1, <1>3, RefineMaxExact
  <2> QED BY <2>1, <2>2 DEF Delivers, Left
<1>4. a = hw_param_set_max(x, v, val, dir)
  BY DEF a
<1> QED BY <1>2, <1>3, <1>4

\* An empty interval stays one.
LEMMA EmptyStays ==
    ASSUME NEW v \in IVars, NEW x, x.empty, NEW val, NEW dir
    PROVE  /\ hw_param_set_min(x, v, val, dir) = [i |-> x, ret |-> ENOENT]
           /\ hw_param_set_max(x, v, val, dir) = [i |-> x, ret |-> ENOENT]
BY IVar DEF hw_param_set_min, hw_param_set_max, RefineMin, RefineMax

\* What the lemmas above say of one bound is what the calls need.
LEMMA TypedTame ==
    ASSUME NEW v \in IVars, NEW x, GoodI(x), NEW res, Typed(res, x)
    PROVE  Tame(res, x, v)
BY IVar DEF Typed, Tame, GoodI, GoodV, ShapeV, In

\* Exactness stated for intervals is exactness stated for parameters.
LEMMA LeftExact ==
    ASSUME NEW v \in IVars, NEW x, NEW res, NEW wanted, Left(res, Points(x) \cap wanted)
    PROVE  Exact(res, x, v, wanted)
BY IVar DEF Left, Exact, In

\* hw_param_set_min, hw_param_set_max: ...
LEMMA SetMinGood ==
    ASSUME NEW v \in IVars, NEW x, GoodI(x), NEW val \in Uint, NEW dir \in {-1, 0, 1}
    PROVE  LET a == hw_param_set_min(x, v, val, dir)
           IN  /\ Tame(a, x, v)
               /\ ~(val = UMax /\ dir > 0) => Exact(a, x, v, From(2 * val + dir))
<1> DEFINE a == hw_param_set_min(x, v, val, dir)
<1>1. x \in Intervals /\ (x.openmin => x.min < UMax)
  BY DEF GoodI, NoWrap
<1>2. Typed(a, x) /\ (~x.empty /\ ~(val = UMax /\ dir > 0) => Left(a, Points(x) \cap From(2 * val + dir)))
  BY <1>1, SetMinDoes
<1>3. Tame(a, x, v)
  BY <1>2, TypedTame
<1>4. ASSUME x.empty PROVE Exact(a, x, v, From(2 * val + dir))
  <2>1. a = [i |-> x, ret |-> ENOENT] /\ Points(x) = {}
    BY <1>4, EmptyStays DEF Points
  <2> HIDE DEF a
  <2> QED BY <2>1, IVar DEF Exact, In, ENOENT
<1>5. ASSUME ~x.empty, ~(val = UMax /\ dir > 0) PROVE Exact(a, x, v, From(2 * val + dir))
  <2> HIDE DEF a
  <2> QED BY <1>2, <1>5, LeftExact
<1> QED BY <1>3, <1>4, <1>5

\* hw_param_set_max leaves a good interval of exactly the wanted values, unless it wraps.
LEMMA SetMaxGood ==
    ASSUME NEW v \in IVars, NEW x, GoodI(x), NEW val \in Uint, NEW dir \in {-1, 0, 1}
    PROVE  LET a == hw_param_set_max(x, v, val, dir)
           IN  /\ Tame(a, x, v)
               /\ ~(val = UMax /\ dir > 0) /\ ~(val = 0 /\ dir < 0) => Exact(a, x, v, UpTo(2 * val + dir))
<1> DEFINE a == hw_param_set_max(x, v, val, dir)
<1>1. x \in Intervals /\ (x.openmax => x.max > 0)
  BY DEF GoodI, NoWrap
<1>2. /\ Typed(a, x)
      /\ ~x.empty /\ ~(val = UMax /\ dir > 0) /\ ~(val = 0 /\ dir < 0)
            => Left(a, Points(x) \cap UpTo(2 * val + dir))
  BY <1>1, SetMaxDoes
<1>3. Tame(a, x, v)
  BY <1>2, TypedTame
<1>4. ASSUME x.empty PROVE Exact(a, x, v, UpTo(2 * val + dir))
  <2>1. a = [i |-> x, ret |-> ENOENT] /\ Points(x) = {}
    BY <1>4, EmptyStays DEF Points
  <2> HIDE DEF a
  <2> QED BY <2>1, IVar DEF Exact, In, ENOENT
<1>5. ASSUME ~x.empty, ~(val = UMax /\ dir > 0), ~(val = 0 /\ dir < 0)
      PROVE Exact(a, x, v, UpTo(2 * val + dir))
  <2> HIDE DEF a
  <2> QED BY <1>2, <1>5, LeftExact
<1> QED BY <1>3, <1>4, <1>5

\* ... hw_param_set_minmax ...
LEMMA SetMinmaxGood ==
    ASSUME NEW v \in IVars, NEW x, GoodI(x), NEW lo \in Uint, NEW hi \in Uint, NEW dir \in {-1, 0, 1}
    PROVE  LET m == hw_param_set_minmax(x, v, lo, dir, hi, dir)
           IN  /\ Tame(m, x, v)
               /\ ~(UMax \in {lo, hi} /\ dir > 0) /\ ~(hi = 0 /\ dir < 0)
                     => Exact(m, x, v, From(2 * lo + dir) \cap UpTo(2 * hi + dir))
<1> DEFINE m == hw_param_set_minmax(x, v, lo, dir, hi, dir)
           wanted == From(2 * lo + dir) \cap UpTo(2 * hi + dir)
<1>1. PICK a : a = hw_param_set_min(x, v, lo, dir)
  OBVIOUS
<1>2. PICK b : b = hw_param_set_max(a.i, v, hi, dir)
  OBVIOUS
<1>3. m = IF a.ret < 0 THEN a ELSE IF b.ret < 0 THEN b
          ELSE [b EXCEPT !.ret = Flag(a.ret = 1 \/ b.ret = 1)]
  BY <1>1, <1>2 DEF hw_param_set_minmax
<1>4. /\ x \in Intervals /\ Closed(x)
      /\ (x.openmin => x.min < UMax) /\ (x.openmax => x.max > 0)
  BY DEF GoodI, NoWrap
<1>5. /\ Typed(a, x)
      /\ ~x.empty => a.i.max = x.max /\ a.i.openmax = x.openmax
      /\ ~x.empty /\ ~(lo = UMax /\ dir > 0) => Left(a, Points(x) \cap From(2 * lo + dir))
  BY <1>1, <1>4, SetMinDoes
<1>6. a.i \in Intervals /\ a.ret \in {EINVAL, ENOENT, 0, 1} /\ (a.ret = 0 => a.i = x)
  BY <1>4, <1>5 DEF Typed
<1>7. /\ Typed(b, a.i)
      /\ (~a.i.empty /\ (a.i.openmax => a.i.max > 0) /\ ~(hi = UMax /\ dir > 0) /\ ~(hi = 0 /\ dir < 0))
            => Left(b, Points(a.i) \cap UpTo(2 * hi + dir))
  BY <1>2, <1>6, SetMaxDoes
<1>8. b = [i |-> b.i, ret |-> b.ret]
  <2>1. PICK max \in Uint, open \in BOOLEAN : b = RefineMax(a.i, max, open, FALSE)
    <3>1. PassesMax(b, a.i, hi, dir)
      BY <1>2, SetMaxIs
    <3> QED BY <3>1 DEF PassesMax
  <2> QED BY <2>1 DEF RefineMax, CheckEmpty
<1>9. b.i \in Intervals /\ b.ret \in {EINVAL, ENOENT, 0, 1} /\ (a.ret = 0 /\ b.ret = 0 => b.i = x)
  BY <1>4, <1>6, <1>7 DEF Typed
<1>10. /\ a.ret >= 0 /\ b.ret >= 0 => m.i = b.i /\ m.ret = Flag(a.ret = 1 \/ b.ret = 1)
       /\ a.ret >= 0 /\ b.ret < 0 => m = b
       /\ a.ret < 0 => m = a
       /\ Flag(a.ret = 1 \/ b.ret = 1) \in {0, 1}
  <2> HIDE DEF m
  <2> QED BY <1>3, <1>6, <1>8, <1>9 DEF EINVAL, ENOENT, Flag
<1> HIDE DEF m
<1>11. Typed(m, x)
  BY <1>4, <1>6, <1>9, <1>10 DEF Typed, Flag, EINVAL, ENOENT
<1>12. ASSUME ~x.empty, ~(UMax \in {lo, hi} /\ dir > 0), ~(hi = 0 /\ dir < 0)
       PROVE  Exact(m, x, v, wanted)
  <2>1. Left(a, Points(x) \cap From(2 * lo + dir))
    BY <1>5, <1>12
  <2>2. ASSUME a.ret >= 0 PROVE Left(b, Points(x) \cap wanted)
    <3>1. ~a.i.empty /\ Points(a.i) = Points(x) \cap From(2 * lo + dir)
      BY <2>1, <2>2 DEF Left
    <3>2. Left(b, Points(a.i) \cap UpTo(2 * hi + dir))
      BY <1>4, <1>5, <1>7, <1>12, <3>1
    <3>3. Points(a.i) \cap UpTo(2 * hi + dir) = Points(x) \cap wanted
      BY <3>1
    <3> QED BY <3>2, <3>3
  <2>3. Left(m, Points(x) \cap wanted)
    <3> HIDE DEF wanted
    <3>1. CASE a.ret < 0
      <4>1. Points(x) \cap From(2 * lo + dir) = {} /\ m = a
        BY <1>10, <2>1, <3>1 DEF Left
      <4> QED BY <1>6, <3>1, <4>1 DEF Left, wanted, EINVAL, ENOENT
    <3>2. CASE a.ret >= 0
      <4>1. Left(b, Points(x) \cap wanted)
        BY <2>2, <3>2
      <4>2. m.i = b.i /\ (m.ret < 0 <=> b.ret < 0) /\ m.ret \in Int /\ b.ret \in Int
        BY <1>6, <1>9, <1>10, <3>2 DEF EINVAL, ENOENT, Flag
      <4> QED BY <4>1, <4>2 DEF Left
    <3> QED BY <1>6, <3>1, <3>2 DEF EINVAL, ENOENT
  <2> HIDE DEF wanted
  <2> QED BY <2>3, LeftExact
<1>13. ASSUME x.empty PROVE Exact(m, x, v, wanted)
  <2>1. a = [i |-> x, ret |-> ENOENT] /\ Points(x) = {}
    BY <1>1, <1>13, EmptyStays DEF Points
  <2>2. m = a
    BY <1>10, <2>1 DEF ENOENT
  <2> HIDE DEF wanted
  <2> QED BY <2>1, <2>2, IVar DEF Exact, In, ENOENT
<1>14. Tame(m, x, v)
  BY <1>11, TypedTame
<1> QED BY <1>12, <1>13, <1>14 DEF m

\* snd_interval_refine, whatever the other interval.
LEMMA RefineTame ==
    ASSUME NEW v \in IVars, NEW x, GoodI(x), NEW w \in Intervals
    PROVE  Tame(Refine(x, w), x, v)
<1>1. PICK a : a = RefineMin(x, w.min, w.openmin, w.integer)
  OBVIOUS
<1>2. PICK b : b = RefineMax(a.i, w.max, w.openmax, w.integer)
  OBVIOUS
<1>3. PICK m : m = Refine(x, w)
  OBVIOUS
<1>4. m = IF a.ret < 0 THEN a ELSE IF b.ret < 0 THEN b
          ELSE [i |-> Sharpen(b.i), ret |-> Flag(a.ret = 1 \/ b.ret = 1)]
  BY <1>1, <1>2, <1>3 DEF Refine
<1>5. /\ w.min \in Uint /\ w.max \in Uint
      /\ w.openmin \in BOOLEAN /\ w.openmax \in BOOLEAN /\ w.integer \in BOOLEAN
  BY DEF Intervals
<1>6. x \in Intervals /\ Closed(x)
  BY DEF GoodI
<1>7. a.i \in Intervals /\ a.ret \in {EINVAL, ENOENT, 0, 1} /\ (a.ret = 0 => a.i = x)
  BY <1>1, <1>5, <1>6, RefineMinTyped
<1>8. b.i \in Intervals /\ b.ret \in {EINVAL, ENOENT, 0, 1} /\ (b.ret = 0 /\ Closed(a.i) => b.i = a.i)
  BY <1>2, <1>5, <1>7, RefineMaxTyped
<1>9. Sharpen(b.i) \in Intervals
  BY <1>8, SharpenSame
<1>10. m.ret \in {EINVAL, ENOENT, 0, 1} /\ (m.ret >= 0 => m.i = Sharpen(b.i))
  BY <1>4, <1>7, <1>8 DEF Flag, EINVAL, ENOENT
<1>11. m.ret = 0 => m.i = Sharpen(x)
  BY <1>4, <1>6, <1>7, <1>8 DEF Flag, EINVAL, ENOENT
<1>12. GoodI(Sharpen(x)) /\ Points(Sharpen(x)) = Points(x)
  <2>1. /\ Sharpen(x).openmin = x.openmin /\ Sharpen(x).openmax = x.openmax
        /\ Sharpen(x).min = x.min /\ Sharpen(x).max = x.max
        /\ (Sharpen(x).integer => x.integer \/ (~x.openmin /\ ~x.openmax))
    BY <1>6 DEF Sharpen, Intervals
  <2> QED BY <1>6, <2>1, SharpenSame DEF GoodI, NoWrap, Closed
<1> QED BY <1>3, <1>9, <1>10, <1>11, <1>12, IVar DEF Tame, ShapeV, GoodV, In

\* snd_interval_refine leaves a good interval of the values both intervals have.
LEMMA RefineGood ==
    ASSUME NEW v \in IVars, NEW x, GoodI(x), NEW w \in Intervals, ~w.empty, NoWrap(w)
    PROVE  Exact(Refine(x, w), x, v, Points(w))
<1>1. x \in Intervals /\ NoWrap(x)
  BY DEF GoodI
<1>2. CASE x.empty
  <2>1. Refine(x, w) = [i |-> x, ret |-> ENOENT] /\ Points(x) = {}
    BY <1>2 DEF Refine, RefineMin, Points, ENOENT
  <2> QED BY <2>1, IVar DEF Exact, In, ENOENT
<1>3. CASE ~x.empty
  <2>1. Delivers(Refine(x, w), x, Points(x) \cap Points(w))
    BY <1>1, <1>3, RefineExact
  <2> QED BY <2>1, IVar DEF Delivers, Exact, In
<1> QED BY <1>2, <1>3

\* ... and hw_param_set leave the values asked for.
LEMMA SetGood ==
    ASSUME NEW v \in IVars, NEW x, GoodI(x), NEW val \in Uint, NEW dir \in {-1, 0, 1}
    PROVE  LET a == hw_param_set(x, v, val, dir)
           IN  /\ Tame(a, x, v)
               /\ ~(val = UMax /\ dir > 0)
                     => Exact(a, x, v, From(2 * val + dir) \cap UpTo(2 * val + dir))
<1>0. v \notin MVars /\ UMax \in Nat /\ val \in Int /\ val >= 0 /\ val <= UMax /\ dir \in Int
      /\ val - 1 \in Int /\ val + 1 \in Int
  BY IVar, UMaxAssumption DEF Uint
<1>1. PICK a : a = hw_param_set(x, v, val, dir)
  OBVIOUS
<1>2. PICK wanted : wanted = From(2 * val + dir) \cap UpTo(2 * val + dir)
  OBVIOUS
<1>3. CASE val = 0 /\ dir < 0
  <2>1. a.ret = EINVAL
    BY <1>0, <1>1, <1>3 DEF hw_param_set
  <2>2. \A p \in Positions : p \notin UpTo(2 * val + dir)
    <3> SUFFICES ASSUME NEW p \in Positions PROVE ~(2 * p.val + Flag(p.up) <= 2 * val + dir)
      BY DEF UpTo
    <3>1. p.val \in Int /\ p.val >= 0
      BY <1>0 DEF Positions, Uint
    <3> QED BY <1>0, <1>3, <3>1 DEF Flag
  <2>3. wanted = {}
    BY <1>2, <2>2 DEF From
  <2> QED BY <1>1, <1>2, <2>1, <2>3 DEF Tame, Exact, EINVAL, ENOENT
<1>4. CASE ~(val = 0 /\ dir < 0)
  <2>1. PICK w : w = IF dir = 0 THEN [min |-> val, max |-> val, openmin |-> FALSE, openmax |-> FALSE,
                                      integer |-> TRUE, empty |-> FALSE]
                     ELSE Stretch(val, dir)
    OBVIOUS
  <2>2. a = Refine(x, w)
    BY <1>0, <1>1, <1>4, <2>1 DEF hw_param_set, RefineSet
  <2>3. /\ w.min = IF dir < 0 THEN Wrap(val - 1) ELSE val
        /\ w.max = IF dir > 0 THEN Wrap(val + 1) ELSE val
        /\ (w.openmin <=> dir # 0) /\ (w.openmax <=> dir # 0) /\ (w.integer <=> dir = 0) /\ ~w.empty
    <3>1. CASE dir = 0
      BY <1>0, <2>1, <3>1
    <3>2. CASE dir # 0
      <4>1. w = Stretch(val, dir)
        BY <2>1, <3>2
      <4> QED BY <1>0, <3>2, <4>1 DEF Stretch
    <3> QED BY <3>1, <3>2
  <2>4. Wrap(val - 1) \in Uint /\ Wrap(val + 1) \in Uint
    BY <1>0, WrapUint
  <2>5. w \in Intervals
    <3>1. CASE dir = 0
      BY <2>1, <3>1 DEF Intervals
    <3>2. CASE dir # 0
      BY <2>1, <2>4, <3>2 DEF Intervals, Stretch
    <3> QED BY <3>1, <3>2
  <2>6. Tame(a, x, v)
    BY <2>2, <2>5, RefineTame
  <2>7. ASSUME ~(val = UMax /\ dir > 0) PROVE Exact(a, x, v, wanted)
    <3>1. (dir < 0 => val - 1 \in Uint) /\ (dir > 0 => val + 1 \in Uint)
      BY <1>0, <1>4, <2>7 DEF Uint
    <3>2. (dir < 0 => Wrap(val - 1) = val - 1) /\ (dir > 0 => Wrap(val + 1) = val + 1)
      BY <3>1, WrapInRange
    <3>3. /\ w.min = IF dir < 0 THEN val - 1 ELSE val
          /\ w.max = IF dir > 0 THEN val + 1 ELSE val
          /\ (w.openmin <=> dir # 0) /\ (w.openmax <=> dir # 0) /\ (w.integer <=> dir = 0) /\ ~w.empty
      BY <2>3, <3>2
    <3>4. NoWrap(w)
      BY <1>0, <1>4, <2>7, <3>3 DEF NoWrap
    <3>5. Points(w) = wanted
      <4> SUFFICES ASSUME NEW p \in Positions
                   PROVE  p \in Points(w) <=> 2 * p.val + Flag(p.up) = 2 * val + dir
        <5>1. Points(w) \subseteq Positions /\ wanted \subseteq Positions
          BY <1>2 DEF Points, From
        <5>2. \A q \in Positions : q \in wanted <=> 2 * q.val + Flag(q.up) = 2 * val + dir
          <6> SUFFICES ASSUME NEW q \in Positions
                       PROVE  q \in wanted <=> 2 * q.val + Flag(q.up) = 2 * val + dir
            OBVIOUS
          <6>1. 2 * q.val + Flag(q.up) \in Int /\ 2 * val + dir \in Int
            BY <1>0 DEF Positions, Uint, Flag
          <6> QED BY <1>2, <6>1 DEF From, UpTo
        <5> QED BY <5>1, <5>2
      <4>1. p.val \in Int /\ p.val >= 0 /\ p.up \in BOOLEAN
        BY <1>0 DEF Positions, Uint
      <4>2. p \in Points(w) <=> Above(p, w.min, w.openmin) /\ Below(p, w.max, w.openmax) /\ (w.integer => ~p.up)
        BY <3>3 DEF Points
      <4> QED BY <1>0, <3>3, <4>1, <4>2 DEF Above, Below, Flag
    <3>6. Exact(Refine(x, w), x, v, Points(w))
      BY <2>5, <3>3, <3>4, RefineGood
    <3> QED BY <2>2, <3>5, <3>6
  <2> QED BY <1>1, <1>2, <2>6, <2>7
<1> QED BY <1>3, <1>4

\* hw_param_set on a mask leaves the one bit, if it was there.
LEMMA MaskSetGood ==
    ASSUME NEW v \in MVars, NEW x, x \subseteq Bits, NEW val \in Uint
    PROVE  LET a == hw_param_set(x, v, val, 0)
           IN  Tame(a, x, v) /\ Exact(a, x, v, {val})
<1>1. PICK a : a = hw_param_set(x, v, val, 0)
  OBVIOUS
<1>2. val + 0 = val
  BY UMaxAssumption DEF Uint
<1>3. a = MaskRefineSet(x, val)
  BY <1>1, <1>2 DEF hw_param_set
<1>4. CASE x = {}
  BY <1>1, <1>3, <1>4 DEF MaskRefineSet, Tame, Exact, In, ENOENT
<1>5. CASE x # {}
  <2>1. a = [i |-> x \cap {val}, ret |-> IF x \cap {val} = {} THEN EINVAL ELSE Flag(~MaskSingle(x))]
    BY <1>3, <1>5 DEF MaskRefineSet, Masked
  <2>2. a.i = x \cap {val} /\ a.ret = IF x \cap {val} = {} THEN EINVAL ELSE Flag(~MaskSingle(x))
    BY <2>1
  <2>3. a.ret \in {EINVAL, 0, 1} /\ (a.ret < 0 <=> x \cap {val} = {})
    BY <2>2 DEF Flag, EINVAL
  <2>4. ASSUME a.ret = 0 PROVE x \cap {val} = x
    <3>1. MaskSingle(x) /\ val \in x
      BY <2>2, <2>4 DEF Flag, EINVAL
    <3> QED BY <3>1 DEF MaskSingle
  <2>5. Tame(a, x, v)
    BY <2>2, <2>3, <2>4 DEF Tame, ShapeV, GoodV, In
  <2>6. Exact(a, x, v, {val})
    BY <2>2, <2>3 DEF Exact, In, EINVAL
  <2> QED BY <1>1, <2>5, <2>6
<1> QED BY <1>4, <1>5

-----------------------------------------------------------------------------
(* The kernel asked for the rest. *)

\* What holds of the space between calls.
Sound(s) == Good(s) /\ (Space(s) # {} => Tight(s))

\* The configurations left if parameter v has the values of y.
Rest(s, v, y) == {d \in Device : /\ d[v] \in In(y, v)
                                 /\ \A w \in Vars : w # v => d[w] \in In(s[w], w)}

\* A space with the value of one parameter replaced.
With(s, v, y) == [s EXCEPT ![v] = y]

\* A space with one field replaced: what the replacement touches and what it leaves.
LEMMA Replaced ==
    ASSUME NEW s, Shape(s), NEW v \in Vars, NEW y, NEW t, t = With(s, v, y)
    PROVE  /\ t = [w \in Vars |-> t[w]] /\ t[v] = y /\ \A w \in Vars : w # v => t[w] = s[w]
           /\ ShapeV(y, v) => Shape(t)
           /\ Good(s) /\ GoodV(y, v) => Good(t)
           /\ Space(t) = Rest(s, v, y)
<1>1. PICK f : f = [w \in Vars |-> s[w]] /\ s = f
  BY DEF Shape
<1>2. t = [w \in Vars |-> IF w = v THEN y ELSE f[w]]
  BY <1>1 DEF With
<1>3. t = [w \in Vars |-> t[w]] /\ t[v] = y /\ \A w \in Vars : w # v => t[w] = s[w]
  BY <1>1, <1>2
<1>4. ShapeV(y, v) => Shape(t)
  BY <1>3 DEF Shape
<1>5. Good(s) /\ GoodV(y, v) => Good(t)
  BY <1>3 DEF Good
<1>6. Space(t) = {d \in Device : \A w \in Vars : d[w] \in In(t[w], w)}
  BY SpaceIs
<1>7. \A d : (\A w \in Vars : d[w] \in In(t[w], w))
              <=> d[v] \in In(y, v) /\ \A w \in Vars : w # v => d[w] \in In(s[w], w)
  BY <1>3
<1>8. Space(t) = Rest(s, v, y)
  BY <1>6, <1>7 DEF Rest
<1> QED BY <1>3, <1>4, <1>5, <1>8

\* The configurations of a space whose value of a parameter is among the wanted ones.
Wanted(s, v, wanted) == {d \in Space(s) : d[v] \in wanted}

\* The configurations left if the new value keeps those wanted, or all.
LEMMA ReplacedLeft ==
    ASSUME NEW s, Shape(s), NEW v \in Vars, NEW y, NEW t, t = With(s, v, y), NEW wanted
    PROVE  /\ In(y, v) = In(s[v], v) \cap wanted => Space(t) = Wanted(s, v, wanted)
           /\ In(y, v) \subseteq In(s[v], v) => Space(t) \subseteq Space(s)
           /\ In(y, v) = In(s[v], v) => Space(t) = Space(s) /\ (Tight(s) => Tight(t))
<1>1. /\ t[v] = y /\ \A w \in Vars : w # v => t[w] = s[w]
      /\ Space(t) = Rest(s, v, y)
  BY Replaced
<1>2. Space(s) = {d \in Device : \A w \in Vars : d[w] \in In(s[w], w)}
  BY SpaceIs
<1>3. Space(s) = {d \in Device : d[v] \in In(s[v], v) /\ \A w \in Vars : w # v => d[w] \in In(s[w], w)}
  BY <1>2
<1>4. In(y, v) = In(s[v], v) \cap wanted => Space(t) = {d \in Space(s) : d[v] \in wanted}
  BY <1>1, <1>3 DEF Rest
<1>5. In(y, v) \subseteq In(s[v], v) => Space(t) \subseteq Space(s)
  BY <1>1, <1>3 DEF Rest
<1>6. ASSUME In(y, v) = In(s[v], v) PROVE Space(t) = Space(s) /\ (Tight(s) => Tight(t))
  <2>1. Space(t) = Space(s)
    BY <1>1, <1>3, <1>6 DEF Rest
  <2>2. ASSUME Tight(s), NEW w \in Vars PROVE TightV(t, w)
    <3>1. TightV(s, w)
      BY <2>2 DEF Tight
    <3>2. In(t[w], w) = In(s[w], w)
      BY <1>1, <1>6
    <3>3. w \in MVars => t[w] = s[w]
      BY <3>2 DEF In
    <3>4. w \in IVars => Points(t[w]) = Points(s[w])
      BY <3>2, IVar DEF In
    <3> QED BY <2>1, <3>1, <3>3, <3>4 DEF TightV
  <2> QED BY <2>1, <2>2 DEF Tight
<1> QED BY <1>4, <1>5, <1>6 DEF Wanted

\* The four ways in which hw_param_update_var can end.
Ends(u, s, r, t, res) ==
    \/ res.ret < 0 /\ u = State(t, r, res.ret)
    \/ res.ret = 0 /\ u = State(t, {}, 0)
    \/ res.ret >= 0 /\ Space(t) = {} /\ u.s = t /\ u.ret = EINVAL
    \/ res.ret >= 0 /\ Space(t) # {} /\ Answered(t, u)

\* The common tail of the set functions: rmask is marked, and the kernel refines if it is not empty.
LEMMA UpdateEnds ==
    ASSUME NEW s, Shape(s), NEW r, NEW v \in Vars, NEW res, res.ret \in {EINVAL, ENOENT, 0, 1},
           res.ret >= 0 => ShapeV(res.i, v), NEW t, t = With(s, v, res.i)
    PROVE  Ends(UpdateVar(s, r, v, res), s, r, t, res)
<1>1. PICK r1 : r1 = IF res.ret = 1 THEN r \cup {v} ELSE r
  OBVIOUS
<1>2. PICK k : k = HwRefine(t, r1)
  OBVIOUS
<1>3. PICK u : u = UpdateVar(s, r, v, res)
  OBVIOUS
<1>4. u = IF res.ret < 0 THEN State(t, r, res.ret)
          ELSE IF r1 = {} THEN State(t, r1, 0)
          ELSE IF k.ret < 0 THEN k
          ELSE IF IsEmpty(k.s, v) THEN State(k.s, k.r, ENOENT)
          ELSE k
  BY <1>1, <1>2, <1>3 DEF UpdateVar, With
<1>5. CASE res.ret < 0
  BY <1>3, <1>4, <1>5 DEF Ends
<1>6. CASE res.ret >= 0 /\ r1 = {}
  <2>1. res.ret # 1
    BY <1>1, <1>6
  <2>2. res.ret = 0 /\ ~(res.ret < 0)
    BY <1>6, <2>1 DEF EINVAL, ENOENT
  <2>3. u = State(t, {}, 0)
    BY <1>4, <1>6, <2>2
  <2> QED BY <1>3, <2>2, <2>3 DEF Ends
<1>7. CASE res.ret >= 0 /\ r1 # {} /\ Space(t) = {}
  <2>1. k = State(t, r1, EINVAL)
    BY <1>2, <1>7 DEF HwRefine
  <2>2. k.s = t /\ k.ret = EINVAL /\ k.ret < 0
    BY <2>1 DEF State, EINVAL
  <2>3. u = k
    BY <1>4, <1>7, <2>2 DEF EINVAL, ENOENT
  <2> QED BY <1>3, <1>7, <2>2, <2>3 DEF Ends
<1>8. CASE res.ret >= 0 /\ r1 # {} /\ Space(t) # {}
  <2>1. Shape(t)
    BY <1>8, Replaced
  <2>2. Answered(t, k)
    BY <1>2, <1>8, <2>1, HwRefineIs
  <2>3. k.ret = 0 /\ ~IsEmpty(k.s, v)
    BY <2>2 DEF Answered
  <2>4. u = k
    BY <1>4, <1>8, <2>3 DEF EINVAL, ENOENT
  <2> QED BY <1>3, <1>8, <2>2, <2>4 DEF Ends
<1>9. res.ret < 0 \/ res.ret >= 0
  BY DEF EINVAL, ENOENT
<1> QED BY <1>5, <1>6, <1>7, <1>8, <1>9

\* What a call that puts the space back on an error does, for any request ...
Kept(u, s) ==
    /\ u.ret \in {EINVAL, ENOENT, 0}
    /\ u.ret < 0 => u.s = s
    /\ Sound(u.s)
    /\ Space(s) # {} => Space(u.s) # {}

\* ... and for one that can be met exactly.
Narrowed(u, s, v, wanted) ==
    /\ u.ret = 0 => Space(u.s) = Wanted(s, v, wanted)
    /\ Space(s) # {} => (u.ret = 0 <=> Wanted(s, v, wanted) # {})

\* Whatever a set function asked, what it leaves is sound and has a configuration if there was one.
LEMMA SetKeeps ==
    ASSUME NEW s, Sound(s), NEW r, NEW v \in Vars, NEW res, Tame(res, s[v], v)
    PROVE  Kept(OrSaved(UpdateVar(s, r, v, res), s, r), s)
<1>1. Good(s) /\ Shape(s)
  BY GoodShape DEF Sound
<1>2. PICK t : t = With(s, v, res.i)
  OBVIOUS
<1>3. PICK u : u = UpdateVar(s, r, v, res)
  OBVIOUS
<1>4. PICK o : o = OrSaved(u, s, r)
  OBVIOUS
<1>5. Ends(u, s, r, t, res)
  <2>1. res.ret \in {EINVAL, ENOENT, 0, 1} /\ (res.ret >= 0 => ShapeV(res.i, v))
    BY DEF Tame
  <2> QED BY <1>1, <1>2, <1>3, <2>1, UpdateEnds
<1>6. ASSUME u.ret \in {EINVAL, ENOENT} PROVE Kept(o, s)
  <2>1. o = State(s, r, u.ret)
    BY <1>4, <1>6 DEF OrSaved, EINVAL, ENOENT
  <2> QED BY <1>6, <2>1 DEF State, Kept
<1>7. ASSUME u.ret = 0, Sound(u.s), Space(s) # {} => Space(u.s) # {} PROVE Kept(o, s)
  <2>1. o = u
    BY <1>4, <1>7 DEF OrSaved
  <2> QED BY <1>7, <2>1 DEF Kept
<1>8. CASE res.ret < 0 /\ u = State(t, r, res.ret)
  <2>1. u.ret \in {EINVAL, ENOENT}
    BY <1>8 DEF Tame, State
  <2> QED BY <1>3, <1>4, <1>6, <2>1
<1>9. CASE res.ret = 0 /\ u = State(t, {}, 0)
  <2>1. GoodV(res.i, v) /\ In(res.i, v) = In(s[v], v)
    BY <1>9 DEF Tame
  <2>2. Good(t)
    BY <1>1, <1>2, <2>1, Replaced
  <2>3. Space(t) = Space(s) /\ (Tight(s) => Tight(t))
    BY <1>1, <1>2, <2>1, ReplacedLeft
  <2>4. u.s = t /\ u.ret = 0
    BY <1>9 DEF State
  <2>5. Sound(t)
    BY <2>2, <2>3 DEF Sound
  <2> QED BY <1>3, <1>4, <1>7, <2>3, <2>4, <2>5
<1>10. CASE u.s = t /\ u.ret = EINVAL
  BY <1>3, <1>4, <1>6, <1>10
<1>11. CASE Space(t) # {} /\ Answered(t, u)
  <2>1. u.ret = 0 /\ Sound(u.s) /\ Space(u.s) # {}
    BY <1>11 DEF Answered, Sound
  <2> QED BY <1>3, <1>4, <1>7, <2>1
<1> QED BY <1>5, <1>8, <1>9, <1>10, <1>11 DEF Ends

\* A set function that reports success has kept exactly the wanted configurations; one that
\* fails has left the space as it was, and none was wanted.
LEMMA SetNarrows ==
    ASSUME NEW s, Sound(s), NEW r, NEW v \in Vars, NEW res, Tame(res, s[v], v),
           NEW wanted, Exact(res, s[v], v, wanted)
    PROVE  Narrowed(OrSaved(UpdateVar(s, r, v, res), s, r), s, v, wanted)
<1>1. Good(s) /\ Shape(s)
  BY GoodShape DEF Sound
<1>2. PICK t : t = With(s, v, res.i)
  OBVIOUS
<1>3. PICK u : u = UpdateVar(s, r, v, res)
  OBVIOUS
<1>4. PICK o : o = OrSaved(u, s, r)
  OBVIOUS
<1>5. PICK W : W = {d \in Space(s) : d[v] \in wanted}
  OBVIOUS
<1>6. Ends(u, s, r, t, res)
  <2>1. res.ret \in {EINVAL, ENOENT, 0, 1} /\ (res.ret >= 0 => ShapeV(res.i, v))
    BY DEF Tame
  <2> QED BY <1>1, <1>2, <1>3, <2>1, UpdateEnds
<1>7. ASSUME u.ret \in {EINVAL, ENOENT}, W = {} PROVE Narrowed(o, s, v, wanted)
  <2>1. o.ret \in {EINVAL, ENOENT}
    BY <1>4, <1>7 DEF OrSaved, State
  <2> QED BY <1>5, <1>7, <2>1 DEF Narrowed, Wanted, EINVAL, ENOENT
<1>8. ASSUME u.ret = 0, Space(u.s) = W, Space(s) # {} => W # {} PROVE Narrowed(o, s, v, wanted)
  <2>1. o = u
    BY <1>4, <1>8 DEF OrSaved
  <2> QED BY <1>5, <1>8, <2>1 DEF Narrowed, Wanted
<1>9. ASSUME res.ret >= 0 PROVE Space(t) = W
  <2>1. In(res.i, v) = In(s[v], v) \cap wanted
    BY <1>9 DEF Exact
  <2>2. Space(t) = Wanted(s, v, wanted)
    BY <1>1, <1>2, <2>1, ReplacedLeft
  <2> QED BY <1>5, <2>2 DEF Wanted
<1>10. CASE res.ret < 0 /\ u = State(t, r, res.ret)
  <2>1. u.ret \in {EINVAL, ENOENT}
    BY <1>10 DEF Tame, State
  <2>2. In(s[v], v) \cap wanted = {}
    BY <1>10 DEF Exact
  <2>3. W = {}
    BY <1>5, <2>2, SpaceIs
  <2> QED BY <1>3, <1>4, <1>7, <2>1, <2>3
<1>11. CASE res.ret = 0 /\ u = State(t, {}, 0)
  <2>1. In(res.i, v) = In(s[v], v)
    BY <1>11 DEF Tame
  <2>2. Space(t) = Space(s) /\ Space(t) = W
    <3>1. Space(t) = Space(s)
      BY <1>1, <1>2, <2>1, ReplacedLeft
    <3> QED BY <1>9, <1>11, <3>1
  <2>3. u.s = t /\ u.ret = 0
    BY <1>11 DEF State
  <2> QED BY <1>3, <1>4, <1>8, <2>2, <2>3
<1>12. CASE res.ret >= 0 /\ Space(t) = {} /\ u.s = t /\ u.ret = EINVAL
  BY <1>3, <1>4, <1>7, <1>9, <1>12
<1>13. CASE res.ret >= 0 /\ Space(t) # {} /\ Answered(t, u)
  <2>1. u.ret = 0 /\ Space(u.s) = W /\ W # {}
    BY <1>9, <1>13 DEF Answered
  <2> QED BY <1>3, <1>4, <1>8, <2>1
<1> QED BY <1>6, <1>10, <1>11, <1>12, <1>13 DEF Ends

-----------------------------------------------------------------------------
(* The first or the last value taken. *)

\* A parameter is settled on some of its values; nothing is done if there are none, or
\* if it is settled already.
Settles(res, x, v) ==
    /\ res.ret \in {ENOENT, 0, 1}
    /\ GoodV(res.i, v) /\ In(res.i, v) \subseteq In(x, v)
    /\ res.ret = 0 => res.i = x
    /\ In(x, v) # {} => res.ret >= 0 /\ Single(res.i, v)

\* The lowest and the highest bit.
LEMMA MaskMinIs ==
    ASSUME NEW m, m \subseteq Bits, m # {}
    PROVE  MaskMin(m) \in m
<1>1. m \subseteq Nat
  <2>1. m \subseteq Uint
    BY HwParamsConstants
  <2> QED BY <2>1, UMaxAssumption DEF Uint
<1>2. \E x \in m : \A y \in m : x <= y
  BY <1>1, Least
<1> QED BY <1>2 DEF MaskMin

\* The highest bit of a mask is a bit of it.
LEMMA MaskMaxIs ==
    ASSUME NEW m, m \subseteq Bits, m # {}
    PROVE  MaskMax(m) \in m
<1>1. m \subseteq 0..UMax /\ UMax \in Nat
  BY HwParamsConstants, UMaxAssumption DEF Uint
<1>2. \E x \in m : \A y \in m : x >= y
  BY <1>1, Greatest
<1> QED BY <1>2 DEF MaskMax

\* snd_mask_refine_first and snd_mask_refine_last.
LEMMA MaskToSettles ==
    ASSUME NEW v \in MVars, NEW m, m \subseteq Bits, NEW b, m # {} => b \in m
    PROVE  Settles(MaskRefineTo(m, b), m, v)
<1>1. CASE m = {}
  BY <1>1 DEF Settles, MaskRefineTo, GoodV, In, ENOENT
<1>2. CASE m # {}
  <2>1. PICK a : a = MaskRefineTo(m, b)
    OBVIOUS
  <2>2. a.i = {b} /\ a.ret = Flag(~MaskSingle(m))
    BY <1>2, <2>1 DEF MaskRefineTo
  <2>3. a.ret \in {0, 1} /\ (a.ret = 0 => MaskSingle(m))
    BY <2>2 DEF Flag
  <2>4. a.ret = 0 => a.i = m
    BY <1>2, <2>2, <2>3 DEF MaskSingle
  <2> QED BY <1>2, <2>1, <2>2, <2>3, <2>4 DEF Settles, GoodV, In, Single, MaskSingle, ENOENT
<1> QED BY <1>1, <1>2

\* snd_interval_refine_first ...
LEMMA FirstGood ==
    ASSUME NEW v \in IVars, NEW i, GoodI(i)
    PROVE  Settles(RefineFirst(i), i, v)
<1>0. i \in Intervals /\ NoWrap(i) /\ Closed(i) /\ v \notin MVars /\ UMax \in Nat
  BY IVar, UMaxAssumption DEF GoodI
<1>1. CASE i.empty
  <2>1. RefineFirst(i) = [i |-> i, ret |-> ENOENT] /\ Points(i) = {}
    BY <1>1 DEF RefineFirst, Points
  <2> QED BY <1>0, <2>1 DEF Settles, GoodV, In, ENOENT
<1>2. CASE ~i.empty
  <2>1. Points(i) # {}
    BY <1>2 DEF GoodI
  <2>2. PICK a : a = RefineFirst(i)
    OBVIOUS
  <2>3. /\ a.i \in Intervals /\ IsSingle(a.i) /\ Points(a.i) # {} /\ Points(a.i) \subseteq Points(i)
    BY <1>0, <1>2, <2>1, <2>2, FirstSettles DEF Closed
  <2>4. a.ret \in {0, 1} /\ (a.ret = 0 => a.i = i) /\ (a.ret = 0 <=> IsSingle(i))
    BY <1>2, <2>2 DEF RefineFirst
  <2>5. NoWrap(a.i) /\ Closed(a.i)
    <3>1. CASE IsSingle(i)
      BY <1>0, <2>4, <3>1
    <3>2. CASE ~IsSingle(i)
      <4>1. /\ a.i.min = i.min /\ a.i.openmin = i.openmin /\ a.i.integer = i.integer
            /\ a.i.max = IF i.openmin THEN Wrap(i.min + 1) ELSE i.min
            /\ a.i.openmax = i.openmin
        BY <1>0, <1>2, <2>2, <3>2 DEF RefineFirst, Intervals
      <4>2. i.openmin => Wrap(i.min + 1) = i.min + 1 /\ i.min + 1 > 0
        <5>1. i.openmin => i.min + 1 \in Uint /\ i.min + 1 > 0
          BY <1>0 DEF NoWrap, Intervals, Uint
        <5> QED BY <5>1, WrapInRange
      <4> QED BY <1>0, <4>1, <4>2 DEF NoWrap, Closed
    <3> QED BY <3>1, <3>2
  <2>6. GoodI(a.i) /\ ~a.i.empty
    BY <2>3, <2>5 DEF GoodI, Points
  <2> QED BY <1>0, <2>2, <2>3, <2>4, <2>6 DEF Settles, GoodV, In, Single, ENOENT
<1> QED BY <1>1, <1>2

\* ... and snd_interval_refine_last.
LEMMA LastGood ==
    ASSUME NEW v \in IVars, NEW i, GoodI(i)
    PROVE  Settles(RefineLast(i), i, v)
<1>0. i \in Intervals /\ NoWrap(i) /\ Closed(i) /\ v \notin MVars /\ UMax \in Nat
  BY IVar, UMaxAssumption DEF GoodI
<1>1. CASE i.empty
  <2>1. RefineLast(i) = [i |-> i, ret |-> ENOENT] /\ Points(i) = {}
    BY <1>1 DEF RefineLast, Points
  <2> QED BY <1>0, <2>1 DEF Settles, GoodV, In, ENOENT
<1>2. CASE ~i.empty
  <2>1. Points(i) # {}
    BY <1>2 DEF GoodI
  <2>2. PICK a : a = RefineLast(i)
    OBVIOUS
  <2>3. /\ a.i \in Intervals /\ IsSingle(a.i) /\ Points(a.i) # {} /\ Points(a.i) \subseteq Points(i)
    BY <1>0, <1>2, <2>1, <2>2, LastSettles DEF Closed
  <2>4. a.ret \in {0, 1} /\ (a.ret = 0 => a.i = i) /\ (a.ret = 0 <=> IsSingle(i))
    BY <1>2, <2>2 DEF RefineLast
  <2>5. NoWrap(a.i) /\ Closed(a.i)
    <3>1. CASE IsSingle(i)
      BY <1>0, <2>4, <3>1
    <3>2. CASE ~IsSingle(i)
      <4>1. /\ a.i.max = i.max /\ a.i.openmax = i.openmax /\ a.i.integer = i.integer
            /\ a.i.min = IF i.openmax THEN Wrap(i.max - 1) ELSE i.max
            /\ a.i.openmin = i.openmax
        BY <1>0, <1>2, <2>2, <3>2 DEF RefineLast, Intervals
      <4>2. i.openmax => Wrap(i.max - 1) = i.max - 1 /\ i.max - 1 < UMax
        <5>1. i.openmax => i.max - 1 \in Uint /\ i.max - 1 < UMax
          BY <1>0 DEF NoWrap, Intervals, Uint
        <5> QED BY <5>1, WrapInRange
      <4> QED BY <1>0, <4>1, <4>2 DEF NoWrap, Closed
    <3> QED BY <3>1, <3>2
  <2>6. GoodI(a.i) /\ ~a.i.empty
    BY <2>3, <2>5 DEF GoodI, Points
  <2> QED BY <1>0, <2>2, <2>3, <2>4, <2>6 DEF Settles, GoodV, In, Single, ENOENT
<1> QED BY <1>1, <1>2

\* The lowest point of an interval survives its being settled on the first, and the
\* highest one its being settled on the last.
LEMMA LowestStays ==
    ASSUME NEW i, GoodI(i), NEW p \in Points(i), \A q \in Points(i) : AtMost(p, q)
    PROVE  p \in Points(RefineFirst(i).i)
<1>0. i \in Intervals /\ NoWrap(i) /\ Closed(i) /\ UMax \in Nat /\ ~i.empty /\ Points(i) # {}
  BY UMaxAssumption DEF GoodI, Points
<1>1. CASE IsSingle(i)
  BY <1>0, <1>1 DEF RefineFirst
<1>2. CASE ~IsSingle(i)
  <2>1. PICK j : j = RefineFirst(i).i
    OBVIOUS
  <2>2. /\ j.min = i.min /\ j.openmin = i.openmin /\ j.integer = i.integer /\ ~j.empty
    BY <1>0, <1>2, <2>1 DEF RefineFirst, Intervals
  <2>3. /\ j \in Intervals /\ Points(j) # {} /\ Points(j) \subseteq Points(i)
        /\ \A x \in Points(j), q \in Points(i) : x.val <= q.val
    BY <1>0, <2>1, FirstSettles DEF Closed
  <2>4. PICK x \in Points(j) : TRUE
    BY <2>3
  <2>5. /\ x \in Positions /\ p \in Positions /\ x.val <= p.val /\ AtMost(p, x)
    BY <2>3, <2>4 DEF Points
  <2>6. x.val \in Int /\ p.val \in Int /\ x.up \in BOOLEAN /\ p.up \in BOOLEAN /\ j.max \in Int
    BY <1>0, <2>3, <2>5 DEF Positions, Uint, Intervals
  <2>7. p.val = x.val /\ (p.up => x.up)
    BY <2>5, <2>6 DEF AtMost
  <2>8. Below(p, j.max, j.openmax)
    BY <2>4, <2>6, <2>7 DEF Below, Points
  <2>9. Above(p, i.min, i.openmin) /\ (i.integer => ~p.up)
    BY DEF Points
  <2> QED BY <2>1, <2>2, <2>5, <2>8, <2>9 DEF Points
<1> QED BY <1>1, <1>2

\* snd_interval_refine_last keeps the highest value of a good interval.
LEMMA HighestStays ==
    ASSUME NEW i, GoodI(i), NEW p \in Points(i), \A q \in Points(i) : AtMost(q, p)
    PROVE  p \in Points(RefineLast(i).i)
<1>0. i \in Intervals /\ NoWrap(i) /\ Closed(i) /\ UMax \in Nat /\ ~i.empty /\ Points(i) # {}
  BY UMaxAssumption DEF GoodI, Points
<1>1. CASE IsSingle(i)
  BY <1>0, <1>1 DEF RefineLast
<1>2. CASE ~IsSingle(i)
  <2>1. PICK j : j = RefineLast(i).i
    OBVIOUS
  <2>2. /\ j.max = i.max /\ j.openmax = i.openmax /\ j.integer = i.integer /\ ~j.empty
    BY <1>0, <1>2, <2>1 DEF RefineLast, Intervals
  <2>3. /\ j \in Intervals /\ Points(j) # {} /\ Points(j) \subseteq Points(i)
        /\ \A x \in Points(j), q \in Points(i) : q.val <= x.val
    BY <1>0, <2>1, LastSettles DEF Closed
  <2>4. PICK x \in Points(j) : TRUE
    BY <2>3
  <2>5. /\ x \in Positions /\ p \in Positions /\ p.val <= x.val /\ AtMost(x, p)
    BY <2>3, <2>4 DEF Points
  <2>6. x.val \in Int /\ p.val \in Int /\ x.up \in BOOLEAN /\ p.up \in BOOLEAN /\ j.min \in Int
    BY <1>0, <2>3, <2>5 DEF Positions, Uint, Intervals
  <2>7. p.val = x.val /\ (x.up => p.up)
    BY <2>5, <2>6 DEF AtMost
  <2>8. Above(p, j.min, j.openmin)
    BY <2>4, <2>6, <2>7 DEF Above, Points
  <2>9. Below(p, i.max, i.openmax) /\ (i.integer => ~p.up)
    BY DEF Points
  <2> QED BY <2>1, <2>2, <2>5, <2>8, <2>9 DEF Points
<1> QED BY <1>1, <1>2

\* What setting the first or last value does to a space, even if it fails.
Lessened(u, s) == Sound(u.s) /\ Space(u.s) \subseteq Space(s) /\ u.ret \in {EINVAL, ENOENT, 0}

\* What it does to a space with configurations in it.
Fixed(u, s, v) == u.ret = 0 /\ Space(u.s) # {} /\ Single(u.s[v], v) /\ Settled(s, u.s)

\* snd_pcm_hw_param_set_first and _last add no configuration, and settle the parameter if
\* the value they choose has a configuration.
LEMMA SettleLessens ==
    ASSUME NEW s, Sound(s), NEW r, NEW v \in Vars, NEW res, Settles(res, s[v], v)
    PROVE  /\ Lessened(Got(UpdateVar(s, r, v, res), v), s)
           /\ (\E d \in Space(s) : d[v] \in In(res.i, v))
                 => Fixed(Got(UpdateVar(s, r, v, res), v), s, v)
<1>1. Good(s) /\ Shape(s)
  BY GoodShape DEF Sound
<1>2. PICK t : t = With(s, v, res.i)
  OBVIOUS
<1>3. PICK u : u = UpdateVar(s, r, v, res)
  OBVIOUS
<1>4. PICK g : g = Got(u, v)
  OBVIOUS
<1>5. /\ res.ret \in {EINVAL, ENOENT, 0, 1} /\ GoodV(res.i, v) /\ ShapeV(res.i, v)
      /\ In(res.i, v) \subseteq In(s[v], v)
  BY DEF Settles, GoodV, ShapeV, GoodI
<1>6. Ends(u, s, r, t, res)
  BY <1>1, <1>2, <1>3, <1>5, UpdateEnds
<1>7. /\ Good(t) /\ t[v] = res.i /\ \A w \in Vars : w # v => t[w] = s[w]
  BY <1>1, <1>2, <1>5, Replaced
<1>8. Space(t) \subseteq Space(s)
  BY <1>1, <1>2, <1>5, ReplacedLeft
<1>9. ASSUME u.ret \in {EINVAL, ENOENT, 0}
      PROVE  g.s = u.s /\ g.ret \in {EINVAL, ENOENT, 0} /\ (u.ret = 0 /\ Single(u.s[v], v) => g.ret = 0)
  <2>1. CASE u.ret = 0 /\ ~Single(u.s[v], v)
    <3>1. g = [u EXCEPT !.ret = EINVAL]
      BY <1>4, <2>1 DEF Got
    <3>2. u = [s |-> u.s, r |-> u.r, ret |-> u.ret]
      <4>1. PICK r1 : r1 = IF res.ret = 1 THEN r \cup {v} ELSE r
        OBVIOUS
      <4>2. PICK k : k = HwRefine(t, r1)
        OBVIOUS
      <4>3. \E a, b, c : k = State(a, b, c)
        BY <4>2 DEF HwRefine
      <4>4. u = IF res.ret < 0 THEN State(t, r, res.ret)
                ELSE IF r1 = {} THEN State(t, r1, 0)
                ELSE IF k.ret < 0 THEN k
                ELSE IF IsEmpty(k.s, v) THEN State(k.s, k.r, ENOENT)
                ELSE k
        BY <1>2, <1>3, <4>1, <4>2 DEF UpdateVar, With
      <4>5. \E a, b, c : u = State(a, b, c)
        BY <4>3, <4>4
      <4>6. PICK a, b, c : u = State(a, b, c)
        BY <4>5
      <4> QED BY <4>6 DEF State
    <3>3. g.s = u.s /\ g.ret = EINVAL
      BY <3>1, <3>2
    <3> QED BY <2>1, <3>3
  <2>2. CASE ~(u.ret = 0 /\ ~Single(u.s[v], v))
    <3>1. g = u
      BY <1>4, <2>2 DEF Got
    <3> QED BY <1>9, <3>1
  <2> QED BY <2>1, <2>2
<1>10. ASSUME u.ret \in {EINVAL, ENOENT, 0}, Sound(u.s), Space(u.s) \subseteq Space(s),
              (\E d \in Space(s) : d[v] \in In(res.i, v))
                 => u.ret = 0 /\ Space(u.s) # {} /\ Single(u.s[v], v) /\ Settled(s, u.s)
       PROVE  /\ Lessened(g, s)
              /\ (\E d \in Space(s) : d[v] \in In(res.i, v)) => Fixed(g, s, v)
  BY <1>9, <1>10 DEF Lessened, Fixed
<1>11. (\E d \in Space(s) : d[v] \in In(res.i, v))
          => /\ Space(t) # {} /\ res.ret >= 0 /\ Single(t[v], v) /\ Settled(s, t)
  <2> SUFFICES ASSUME NEW d \in Space(s), d[v] \in In(res.i, v)
               PROVE  Space(t) # {} /\ res.ret >= 0 /\ Single(t[v], v) /\ Settled(s, t)
    OBVIOUS
  <2>1. In(s[v], v) # {}
    BY <1>5
  <2>2. res.ret >= 0 /\ Single(t[v], v)
    BY <1>7, <2>1 DEF Settles
  <2>3. Settled(s, t)
    BY <1>7, <2>2 DEF Settled
  <2>4. d \in Space(t)
    <3>1. d \in Device /\ \A w \in Vars : d[w] \in In(s[w], w)
      BY SpaceIs
    <3>2. Space(t) = Rest(s, v, res.i)
      BY <1>1, <1>2, Replaced
    <3> QED BY <3>1, <3>2 DEF Rest
  <2> QED BY <2>2, <2>3, <2>4
<1>12. CASE res.ret < 0 /\ u = State(t, r, res.ret)
  <2>1. In(s[v], v) = {}
    BY <1>12 DEF Settles, ENOENT
  <2>2. Space(s) = {}
    BY <2>1, SpaceIs
  <2>3. u.s = t /\ u.ret = res.ret
    BY <1>12 DEF State
  <2>4. Sound(t) /\ Space(t) = {}
    BY <1>7, <1>8, <2>2 DEF Sound
  <2>5. u.ret \in {EINVAL, ENOENT, 0}
    BY <1>5, <1>12, <2>3
  <2> QED BY <1>3, <1>4, <1>8, <1>10, <2>2, <2>3, <2>4, <2>5
<1>13. CASE res.ret = 0 /\ u = State(t, {}, 0)
  <2>1. res.i = s[v]
    BY <1>13 DEF Settles
  <2>2. Space(t) = Space(s) /\ (Tight(s) => Tight(t))
    BY <1>1, <1>2, <2>1, ReplacedLeft
  <2>3. u.s = t /\ u.ret = 0
    BY <1>13 DEF State
  <2>4. Sound(t)
    BY <1>7, <2>2 DEF Sound
  <2> QED BY <1>3, <1>4, <1>8, <1>10, <1>11, <2>3, <2>4
<1>14. CASE res.ret >= 0 /\ Space(t) = {} /\ u.s = t /\ u.ret = EINVAL
  <2>1. Sound(t)
    BY <1>7, <1>14 DEF Sound
  <2> QED BY <1>3, <1>4, <1>8, <1>10, <1>11, <1>14, <2>1
<1>15. CASE res.ret >= 0 /\ Space(t) # {} /\ Answered(t, u)
  <2>1. /\ u.ret = 0 /\ Sound(u.s) /\ Space(u.s) = Space(t) /\ Settled(t, u.s)
    BY <1>15 DEF Answered, Sound
  <2>2. Single(t[v], v) => Single(u.s[v], v)
    BY <2>1 DEF Settled
  <2>3. Settled(s, t) => Settled(s, u.s)
    BY <2>1 DEF Settled
  <2> QED BY <1>3, <1>4, <1>8, <1>10, <1>11, <1>15, <2>1, <2>2, <2>3
<1> QED BY <1>6, <1>12, <1>13, <1>14, <1>15 DEF Ends

\* _snd_pcm_hw_param_set_first and _snd_pcm_hw_param_set_last.
LEMMA FirstIs ==
    ASSUME NEW s, Sound(s), NEW r, NEW v \in Vars
    PROVE  /\ Lessened(ParamSetFirst(s, r, v), s)
           /\ Space(s) # {} => Fixed(ParamSetFirst(s, r, v), s, v)
<1>1. GoodV(s[v], v)
  BY DEF Sound, Good
<1>2. PICK res : res = hw_param_set_first(s[v], v)
  OBVIOUS
<1>3. PICK g : g = ParamSetFirst(s, r, v)
  OBVIOUS
<1>4. g = Got(UpdateVar(s, r, v, res), v)
  BY <1>2, <1>3 DEF ParamSetFirst
<1>5. v \in MVars \/ v \in IVars
  BY DEF Vars
<1>6. CASE v \in MVars
  <2>1. res = MaskRefineTo(s[v], MaskMin(s[v])) /\ s[v] \subseteq Bits
    BY <1>1, <1>2, <1>6 DEF hw_param_set_first, GoodV
  <2>2. s[v] # {} => MaskMin(s[v]) \in s[v]
    BY <2>1, MaskMinIs
  <2>3. Settles(res, s[v], v)
    BY <1>6, <2>1, <2>2, MaskToSettles
  <2>4. Space(s) # {} => \E d \in Space(s) : d[v] \in In(res.i, v)
    <3> SUFFICES ASSUME Space(s) # {} PROVE \E d \in Space(s) : d[v] \in In(res.i, v)
      OBVIOUS
    <3>1. s[v] # {}
      BY <1>6, SpaceIs DEF In
    <3>2. MaskMin(s[v]) \in s[v] /\ res.i = s[v] \cap {MaskMin(s[v])}
      BY <2>1, <2>2, <3>1 DEF MaskRefineTo
    <3>3. TightV(s, v)
      BY DEF Sound, Tight
    <3>4. PICK d \in Space(s) : d[v] = MaskMin(s[v])
      BY <1>6, <3>2, <3>3 DEF TightV
    <3> QED BY <1>6, <3>2, <3>4 DEF In
  <2> QED BY <1>3, <1>4, <2>3, <2>4, SettleLessens
<1>7. CASE v \in IVars
  <2>1. res = RefineFirst(s[v]) /\ GoodI(s[v]) /\ v \notin MVars
    BY <1>1, <1>2, <1>7, IVar DEF hw_param_set_first, GoodV
  <2>2. Settles(res, s[v], v)
    BY <1>7, <2>1, FirstGood
  <2>3. Space(s) # {} => \E d \in Space(s) : d[v] \in In(res.i, v)
    <3> SUFFICES ASSUME Space(s) # {} PROVE \E d \in Space(s) : d[v] \in In(res.i, v)
      OBVIOUS
    <3>1. TightV(s, v)
      BY DEF Sound, Tight
    <3>2. PICK d \in Space(s) : \A p \in Points(s[v]) : AtMost(d[v], p)
      BY <1>7, <3>1 DEF TightV
    <3>3. d[v] \in Points(s[v])
      BY <2>1, SpaceIs DEF In
    <3>4. d[v] \in Points(res.i)
      BY <2>1, <3>2, <3>3, LowestStays
    <3> QED BY <2>1, <3>4 DEF In
  <2> QED BY <1>3, <1>4, <2>2, <2>3, SettleLessens
<1> QED BY <1>5, <1>6, <1>7

\* snd_pcm_hw_param_set_last settles the parameter on its highest value.
LEMMA LastIs ==
    ASSUME NEW s, Sound(s), NEW r, NEW v \in Vars
    PROVE  /\ Lessened(ParamSetLast(s, r, v), s)
           /\ Space(s) # {} => Fixed(ParamSetLast(s, r, v), s, v)
<1>1. GoodV(s[v], v)
  BY DEF Sound, Good
<1>2. PICK res : res = hw_param_set_last(s[v], v)
  OBVIOUS
<1>3. PICK g : g = ParamSetLast(s, r, v)
  OBVIOUS
<1>4. g = Got(UpdateVar(s, r, v, res), v)
  BY <1>2, <1>3 DEF ParamSetLast
<1>5. v \in MVars \/ v \in IVars
  BY DEF Vars
<1>6. CASE v \in MVars
  <2>1. res = MaskRefineTo(s[v], MaskMax(s[v])) /\ s[v] \subseteq Bits
    BY <1>1, <1>2, <1>6 DEF hw_param_set_last, GoodV
  <2>2. s[v] # {} => MaskMax(s[v]) \in s[v]
    BY <2>1, MaskMaxIs
  <2>3. Settles(res, s[v], v)
    BY <1>6, <2>1, <2>2, MaskToSettles
  <2>4. Space(s) # {} => \E d \in Space(s) : d[v] \in In(res.i, v)
    <3> SUFFICES ASSUME Space(s) # {} PROVE \E d \in Space(s) : d[v] \in In(res.i, v)
      OBVIOUS
    <3>1. s[v] # {}
      BY <1>6, SpaceIs DEF In
    <3>2. MaskMax(s[v]) \in s[v] /\ res.i = s[v] \cap {MaskMax(s[v])}
      BY <2>1, <2>2, <3>1 DEF MaskRefineTo
    <3>3. TightV(s, v)
      BY DEF Sound, Tight
    <3>4. PICK d \in Space(s) : d[v] = MaskMax(s[v])
      BY <1>6, <3>2, <3>3 DEF TightV
    <3> QED BY <1>6, <3>2, <3>4 DEF In
  <2> QED BY <1>3, <1>4, <2>3, <2>4, SettleLessens
<1>7. CASE v \in IVars
  <2>1. res = RefineLast(s[v]) /\ GoodI(s[v]) /\ v \notin MVars
    BY <1>1, <1>2, <1>7, IVar DEF hw_param_set_last, GoodV
  <2>2. Settles(res, s[v], v)
    BY <1>7, <2>1, LastGood
  <2>3. Space(s) # {} => \E d \in Space(s) : d[v] \in In(res.i, v)
    <3> SUFFICES ASSUME Space(s) # {} PROVE \E d \in Space(s) : d[v] \in In(res.i, v)
      OBVIOUS
    <3>1. TightV(s, v)
      BY DEF Sound, Tight
    <3>2. PICK d \in Space(s) : \A p \in Points(s[v]) : AtMost(p, d[v])
      BY <1>7, <3>1 DEF TightV
    <3>3. d[v] \in Points(s[v])
      BY <2>1, SpaceIs DEF In
    <3>4. d[v] \in Points(res.i)
      BY <2>1, <3>2, <3>3, HighestStays
    <3> QED BY <2>1, <3>4 DEF In
  <2> QED BY <1>3, <1>4, <2>2, <2>3, SettleLessens
<1> QED BY <1>5, <1>6, <1>7

-----------------------------------------------------------------------------
(* The other calls. *)

\* A call that narrows, or fails and puts the space back, brings nothing back.
LEMMA NarrowedLess ==
    ASSUME NEW u, NEW s, Kept(u, s), NEW v, NEW wanted, Narrowed(u, s, v, wanted)
    PROVE  Lessened(u, s)
<1>1. u.ret = 0 \/ (u.ret < 0 /\ u.s = s)
  BY DEF Kept, EINVAL, ENOENT
<1>2. Wanted(s, v, wanted) \subseteq Space(s)
  BY DEF Wanted
<1>3. Space(u.s) \subseteq Space(s)
  BY <1>1, <1>2 DEF Narrowed
<1> QED BY <1>3 DEF Kept, Lessened

\* _snd_pcm_hw_param_set_integer.
LEMMA IntegerIs ==
    ASSUME NEW s, Sound(s), NEW r, NEW v \in IVars
    PROVE  /\ Lessened(ParamSetInteger(s, r, v), s)
           /\ Space(s) # {} => Space(ParamSetInteger(s, r, v).s) # {}
<1>0. /\ Good(s) /\ Shape(s) /\ v \in Vars /\ v \notin MVars /\ GoodI(s[v]) /\ s[v] \in Intervals
  BY GoodShape, IVar DEF Sound, Good, GoodV, GoodI
<1>1. PICK u : u = ParamSetInteger(s, r, v)
  OBVIOUS
<1>2. PICK i \in Intervals : i = s[v]
  BY <1>0
<1>3. CASE i.integer
  <2>1. u = State(s, r, 0)
    BY <1>1, <1>2, <1>3 DEF ParamSetInteger
  <2>2. u.s = s /\ u.ret = 0
    BY <2>1 DEF State
  <2> QED BY <1>1, <2>2 DEF Lessened
<1>4. CASE ~i.integer /\ NoneLeft(i)
  <2>1. PICK y : y = [i EXCEPT !.empty = TRUE]
    OBVIOUS
  <2>2. u = State([s EXCEPT ![v].empty = TRUE], r, EINVAL)
    BY <1>1, <1>2, <1>4 DEF ParamSetInteger
  <2>3. [s EXCEPT ![v].empty = TRUE] = With(s, v, y)
    BY <1>2, <2>1 DEF With
  <2>4. PICK t : t = With(s, v, y)
    OBVIOUS
  <2>5. u.s = t /\ u.ret = EINVAL
    BY <2>2, <2>3, <2>4 DEF State
  <2>6. y \in Intervals /\ y.empty /\ y.openmin = i.openmin /\ y.openmax = i.openmax
        /\ y.min = i.min /\ y.max = i.max /\ y.integer = i.integer
    BY <2>1 DEF Intervals
  <2>7. GoodV(y, v)
    BY <1>0, <1>2, <2>6 DEF GoodV, GoodI, NoWrap, Closed
  <2>8. In(y, v) = {}
    BY <1>0, <2>6 DEF In, Points
  <2>9. Points(i) = {}
    <3>1. ~i.empty => Points(i) = {}
      BY <1>4, NoneLeftLow
    <3> QED BY <3>1 DEF Points
  <2>10. In(s[v], v) = {} /\ Space(s) = {}
    BY <1>0, <1>2, <2>9, SpaceIs DEF In
  <2>11. Good(t)
    BY <1>0, <2>4, <2>7, Replaced
  <2>12. Space(t) = {}
    <3>1. Space(t) = Rest(s, v, y)
      BY <1>0, <2>4, Replaced
    <3> QED BY <2>8, <3>1 DEF Rest
  <2> QED BY <1>1, <2>5, <2>10, <2>11, <2>12 DEF Lessened, Sound
<1>5. CASE ~i.integer /\ ~NoneLeft(i)
  <2>1. PICK y : y = [i EXCEPT !.integer = TRUE]
    OBVIOUS
  <2>2. PICK res : res = [i |-> y, ret |-> 1]
    OBVIOUS
  <2>3. u = OrSaved(UpdateVar(s, r, v, res), s, r)
    BY <1>1, <1>2, <1>5, <2>1, <2>2 DEF ParamSetInteger
  <2>4. PICK wanted : wanted = {p \in Positions : ~p.up}
    OBVIOUS
  <2>5. y \in Intervals /\ y.integer /\ y.openmin = i.openmin /\ y.openmax = i.openmax
        /\ y.min = i.min /\ y.max = i.max /\ y.empty = i.empty
    BY <2>1 DEF Intervals
  <2>6. Points(y) = Points(i) \cap wanted
    BY <1>5, <2>4, <2>5 DEF Points
  <2>7. res.i = y /\ res.ret = 1
    BY <2>2
  <2>8. Tame(res, s[v], v)
    BY <1>0, <2>5, <2>7 DEF Tame, ShapeV
  <2>9. Exact(res, s[v], v, wanted)
    BY <1>0, <1>2, <2>6, <2>7 DEF Exact, In
  <2>10. Kept(u, s)
    BY <1>0, <2>3, <2>8, SetKeeps
  <2>11. Narrowed(u, s, v, wanted)
    BY <1>0, <2>3, <2>8, <2>9, SetNarrows
  <2>12. Lessened(u, s)
    BY <2>10, <2>11, NarrowedLess
  <2> QED BY <1>1, <2>10, <2>12 DEF Kept
<1> QED BY <1>3, <1>4, <1>5

\* _snd_pcm_hw_param_set_mask.
LEMMA MaskIs ==
    ASSUME NEW s, Sound(s), NEW r, NEW v \in MVars, NEW m
    PROVE  LET u == ParamSetMask(s, r, v, m)
           IN  /\ Sound(u.s) /\ u.ret \in {EINVAL, 0}
               /\ Space(u.s) = Wanted(s, v, m)
               /\ Space(s) # {} => (u.ret < 0 <=> Wanted(s, v, m) = {})
<1>0. /\ Good(s) /\ Shape(s) /\ v \in Vars /\ s[v] \subseteq Bits
  BY GoodShape DEF Sound, Good, GoodV, Vars
<1>1. PICK u : u = ParamSetMask(s, r, v, m)
  OBVIOUS
<1>2. PICK n : n = s[v] \cap m
  OBVIOUS
<1>3. PICK t : t = With(s, v, n)
  OBVIOUS
<1>4. PICK r1 : r1 = IF n # s[v] \/ n = {} THEN r \cup {v} ELSE r
  OBVIOUS
<1>5. u = IF r1 # {} THEN HwRefine(t, r1) ELSE State(t, r1, 0)
  BY <1>1, <1>2, <1>3, <1>4 DEF ParamSetMask, With
<1>6. GoodV(n, v) /\ In(n, v) = In(s[v], v) \cap m
  BY <1>0, <1>2 DEF GoodV, In
<1>7. Good(t)
  BY <1>0, <1>3, <1>6, Replaced
<1>8. Space(t) = Wanted(s, v, m)
  BY <1>0, <1>3, <1>6, ReplacedLeft
<1>9. CASE r1 = {}
  <2>1. n = s[v] /\ In(n, v) = In(s[v], v)
    BY <1>4, <1>9
  <2>2. Space(t) = Space(s) /\ (Tight(s) => Tight(t))
    BY <1>0, <1>3, <2>1, ReplacedLeft
  <2>3. u.s = t /\ u.ret = 0
    BY <1>5, <1>9 DEF State
  <2>4. Sound(t)
    BY <1>7, <2>2 DEF Sound
  <2> QED BY <1>1, <1>8, <2>2, <2>3, <2>4
<1>10. CASE r1 # {} /\ Space(t) = {}
  <2>1. u.s = t /\ u.ret = EINVAL
    BY <1>5, <1>10 DEF HwRefine, State
  <2>2. Sound(t)
    BY <1>7, <1>10 DEF Sound
  <2> QED BY <1>1, <1>8, <1>10, <2>1, <2>2 DEF EINVAL
<1>11. CASE r1 # {} /\ Space(t) # {}
  <2>1. Shape(t)
    BY <1>7, GoodShape
  <2>2. Answered(t, u)
    BY <1>5, <1>11, <2>1, HwRefineIs
  <2>3. u.ret = 0 /\ Sound(u.s) /\ Space(u.s) = Space(t)
    BY <2>2 DEF Answered, Sound
  <2> QED BY <1>1, <1>8, <1>11, <2>3
<1> QED BY <1>9, <1>10, <1>11

\* snd_pcm_hw_params_choose, up to line m of the table.
Chosen(u, s, m) ==
    /\ u.ret = 0 /\ Sound(u.s) /\ Space(u.s) # {} /\ Space(u.s) \subseteq Space(s)
    /\ \A n \in 1..m : Single(u.s[Choice[n].var], Choice[n].var)

\* The table names parameters.
LEMMA TableVar ==
    /\ Len(Choice) \in Nat /\ DOMAIN Choice = 1..Len(Choice)
    /\ \A n \in DOMAIN Choice : Choice[n].var \in Vars
<1>1. PICK S : S = [var : Vars, last : BOOLEAN]
  OBVIOUS
<1>2. Choice \in Seq(S)
  BY <1>1, HwParamsConstants
<1>3. /\ Len(Choice) \in Nat /\ DOMAIN Choice = 1..Len(Choice)
      /\ \A n \in 1..Len(Choice) : Choice[n] \in S
  BY <1>2
<1>4. \A c \in S : c.var \in Vars
  BY <1>1
<1> QED BY <1>3, <1>4

\* One more parameter of snd_pcm_hw_params_choose is settled, and those before it stay so.
LEMMA ChooseOneIs ==
    ASSUME NEW s, NEW u, NEW m \in Nat, Chosen(u, s, m), m + 1 \in DOMAIN Choice
    PROVE  Chosen(ChooseOne(u, Choice[m + 1]), s, m + 1)
<1>1. PICK c : c = Choice[m + 1]
  OBVIOUS
<1>3. c.var \in Vars
  BY <1>1, TableVar
<1>4. PICK x : x = ChooseOne(u, c)
  OBVIOUS
<1>5. x = IF c.last THEN ParamSetLast(u.s, u.r, c.var) ELSE ParamSetFirst(u.s, u.r, c.var)
  BY <1>4 DEF ChooseOne, Chosen
<1>6. Lessened(x, u.s) /\ Fixed(x, u.s, c.var)
  BY <1>3, <1>5, FirstIs, LastIs DEF Chosen
<1>7. /\ x.ret = 0 /\ Sound(x.s) /\ Space(x.s) # {} /\ Space(x.s) \subseteq Space(s)
  BY <1>6 DEF Lessened, Fixed, Chosen
<1>8. ASSUME NEW n \in 1..(m + 1) PROVE Single(x.s[Choice[n].var], Choice[n].var)
  <2>1. CASE n = m + 1
    BY <1>1, <1>6, <2>1 DEF Fixed
  <2>2. CASE n # m + 1
    <3>1. n \in 1..m
      BY <2>2
    <3>2. Single(u.s[Choice[n].var], Choice[n].var)
      BY <3>1 DEF Chosen
    <3>3. Choice[n].var \in Vars
      <4>1. n \in DOMAIN Choice
        BY <3>1, TableVar
      <4> QED BY <4>1, TableVar
    <3> QED BY <1>6, <3>2, <3>3 DEF Fixed, Settled
  <2> QED BY <2>1, <2>2
<1> QED BY <1>1, <1>4, <1>7, <1>8 DEF Chosen

\* snd_pcm_hw_params_choose settles every parameter of its list.
LEMMA ChooseIs ==
    ASSUME NEW s, Sound(s), Space(s) # {}, NEW r
    PROVE  Chosen(Choose(s, r), s, Len(Choice))
<1> DEFINE Step(u, n) == IF n = 0 THEN State(s, r, 0) ELSE ChooseOne(u, Choice[n])
           F(m, g) == g = [n \in 0..m |-> IF n = 0 THEN State(s, r, 0) ELSE ChooseOne(g[n - 1], Choice[n])]
           L == Len(Choice)
           S == {m \in Nat : \E g : F(m, g)}
<1>0. L \in Nat /\ DOMAIN Choice = 1..L
  BY TableVar
<1> HIDE DEF L
<1>1. 0 \in S
  <2>1. F(0, [n \in 0..0 |-> State(s, r, 0)])
    OBVIOUS
  <2> QED BY <2>1
<1>2. ASSUME NEW m \in Nat, m \in S PROVE m + 1 \in S
  <2>1. PICK g : F(m, g)
    BY <1>2
  <2>2. PICK h : h = [n \in 0..(m + 1) |-> IF n = m + 1 THEN ChooseOne(g[m], Choice[m + 1]) ELSE g[n]]
    OBVIOUS
  <2>3. ASSUME NEW n \in 0..(m + 1)
        PROVE  h[n] = IF n = 0 THEN State(s, r, 0) ELSE ChooseOne(h[n - 1], Choice[n])
    <3>1. CASE n = m + 1
      <4>1. h[n] = ChooseOne(g[m], Choice[n]) /\ n # 0 /\ n - 1 = m /\ h[m] = g[m]
        BY <2>2, <3>1
      <4> QED BY <4>1
    <3>2. CASE n # m + 1
      <4>1. h[n] = g[n] /\ n \in 0..m
        BY <2>2, <3>2
      <4>2. n # 0 => h[n - 1] = g[n - 1]
        BY <2>2, <3>2
      <4>3. g[n] = IF n = 0 THEN State(s, r, 0) ELSE ChooseOne(g[n - 1], Choice[n])
        BY <2>1, <4>1
      <4> QED BY <4>1, <4>2, <4>3
    <3> QED BY <3>1, <3>2
  <2>4. F(m + 1, h)
    BY <2>2, <2>3
  <2>5. m + 1 \in Nat
    OBVIOUS
  <2> HIDE DEF F
  <2> QED BY <2>4, <2>5
<1>3. \E g : F(L, g)
  <2>1. Nat \subseteq S
    <3> HIDE DEF S
    <3> QED BY <1>1, <1>2, SetInduction
  <2> HIDE DEF F
  <2> QED BY <1>0, <2>1
<1>4. Choose(s, r) = (CHOOSE g : F(L, g))[L]
  BY DEF Choose, L
<1>5. PICK h : F(L, h) /\ Choose(s, r) = h[L]
  BY <1>3, <1>4
<1>6. \A n \in 0..L : h[n] = IF n = 0 THEN State(s, r, 0) ELSE ChooseOne(h[n - 1], Choice[n])
  BY <1>5
<1> DEFINE T == {m \in Nat : m <= L => Chosen(h[m], s, m)}
<1>7. 0 \in T
  <2>1. h[0] = State(s, r, 0)
    BY <1>0, <1>6
  <2>2. h[0].ret = 0 /\ h[0].s = s
    BY <2>1 DEF State
  <2>3. Chosen(h[0], s, 0)
    BY <2>2 DEF Chosen
  <2> QED BY <2>3
<1>8. ASSUME NEW m \in Nat, m \in T PROVE m + 1 \in T
  <2> SUFFICES ASSUME m + 1 <= L PROVE Chosen(h[m + 1], s, m + 1)
    OBVIOUS
  <2>1. m <= L /\ m + 1 \in 0..L /\ m + 1 \in 1..L /\ m + 1 # 0 /\ (m + 1) - 1 = m
    BY <1>0
  <2>2. Chosen(h[m], s, m)
    BY <1>8, <2>1
  <2>3. PICK k : k = m + 1
    OBVIOUS
  <2>4. h[k] = IF k = 0 THEN State(s, r, 0) ELSE ChooseOne(h[k - 1], Choice[k])
    BY <1>6, <2>1, <2>3
  <2>5. h[m + 1] = ChooseOne(h[m], Choice[m + 1])
    BY <2>1, <2>3, <2>4
  <2> QED BY <1>0, <2>1, <2>2, <2>5, ChooseOneIs
<1>9. L \in T
  <2>1. Nat \subseteq T
    <3> HIDE DEF T
    <3> QED BY <1>7, <1>8, SetInduction
  <2> QED BY <1>0, <2>1
<1>10. Chosen(h[L], s, L)
  BY <1>0, <1>9
<1> QED BY <1>5, <1>10 DEF L

-----------------------------------------------------------------------------
(* The functions that set bounds and values. *)

\* snd_pcm_hw_param_set_min on a sound space.
LEMMA MinIs ==
    ASSUME NEW s, Sound(s), NEW r, NEW v \in IVars, NEW val \in Uint, NEW dir \in {-1, 0, 1}
    PROVE  LET u == ParamSetMin(s, r, v, val, dir)
           IN  /\ Kept(u, s)
               /\ ~(val = UMax /\ dir > 0) => Narrowed(u, s, v, From(2 * val + dir))
<1>1. v \in Vars /\ GoodI(s[v])
  BY IVar DEF Sound, Good, GoodV
<1>2. PICK res : res = hw_param_set_min(s[v], v, val, dir)
  OBVIOUS
<1>3. PICK u : u = ParamSetMin(s, r, v, val, dir)
  OBVIOUS
<1>4. u = OrSaved(UpdateVar(s, r, v, res), s, r)
  BY <1>2, <1>3 DEF ParamSetMin
<1>5. PICK wanted : wanted = From(2 * val + dir)
  OBVIOUS
<1>6. Tame(res, s[v], v) /\ (~(val = UMax /\ dir > 0) => Exact(res, s[v], v, wanted))
  BY <1>1, <1>2, <1>5, SetMinGood
<1>7. Kept(u, s)
  BY <1>1, <1>4, <1>6, SetKeeps
<1>8. ~(val = UMax /\ dir > 0) => Narrowed(u, s, v, wanted)
  BY <1>1, <1>4, <1>6, SetNarrows
<1> QED BY <1>3, <1>5, <1>7, <1>8

\* snd_pcm_hw_param_set_max on a sound space.
LEMMA MaxIs ==
    ASSUME NEW s, Sound(s), NEW r, NEW v \in IVars, NEW val \in Uint, NEW dir \in {-1, 0, 1}
    PROVE  LET u == ParamSetMax(s, r, v, val, dir)
           IN  /\ Kept(u, s)
               /\ ~(val = UMax /\ dir > 0) /\ ~(val = 0 /\ dir < 0) => Narrowed(u, s, v, UpTo(2 * val + dir))
<1>1. v \in Vars /\ GoodI(s[v])
  BY IVar DEF Sound, Good, GoodV
<1>2. PICK res : res = hw_param_set_max(s[v], v, val, dir)
  OBVIOUS
<1>3. PICK u : u = ParamSetMax(s, r, v, val, dir)
  OBVIOUS
<1>4. u = OrSaved(UpdateVar(s, r, v, res), s, r)
  BY <1>2, <1>3 DEF ParamSetMax
<1>5. PICK wanted : wanted = UpTo(2 * val + dir)
  OBVIOUS
<1>6. /\ Tame(res, s[v], v)
      /\ ~(val = UMax /\ dir > 0) /\ ~(val = 0 /\ dir < 0) => Exact(res, s[v], v, wanted)
  BY <1>1, <1>2, <1>5, SetMaxGood
<1>7. Kept(u, s)
  BY <1>1, <1>4, <1>6, SetKeeps
<1>8. ~(val = UMax /\ dir > 0) /\ ~(val = 0 /\ dir < 0) => Narrowed(u, s, v, wanted)
  BY <1>1, <1>4, <1>6, SetNarrows
<1> QED BY <1>3, <1>5, <1>7, <1>8

\* snd_pcm_hw_param_set_minmax on a sound space.
LEMMA MinmaxIs ==
    ASSUME NEW s, Sound(s), NEW r, NEW v \in IVars, NEW lo \in Uint, NEW hi \in Uint, NEW dir \in {-1, 0, 1}
    PROVE  LET u == ParamSetMinmax(s, r, v, lo, dir, hi, dir)
           IN  /\ Kept(u, s)
               /\ ~(UMax \in {lo, hi} /\ dir > 0) /\ ~(hi = 0 /\ dir < 0)
                     => Narrowed(u, s, v, From(2 * lo + dir) \cap UpTo(2 * hi + dir))
<1>1. v \in Vars /\ GoodI(s[v])
  BY IVar DEF Sound, Good, GoodV
<1>2. PICK res : res = hw_param_set_minmax(s[v], v, lo, dir, hi, dir)
  OBVIOUS
<1>3. PICK u : u = ParamSetMinmax(s, r, v, lo, dir, hi, dir)
  OBVIOUS
<1>4. u = OrSaved(UpdateVar(s, r, v, res), s, r)
  BY <1>2, <1>3 DEF ParamSetMinmax
<1>5. PICK wanted : wanted = From(2 * lo + dir) \cap UpTo(2 * hi + dir)
  OBVIOUS
<1>6. /\ Tame(res, s[v], v)
      /\ ~(UMax \in {lo, hi} /\ dir > 0) /\ ~(hi = 0 /\ dir < 0) => Exact(res, s[v], v, wanted)
  BY <1>1, <1>2, <1>5, SetMinmaxGood
<1>7. Kept(u, s)
  BY <1>1, <1>4, <1>6, SetKeeps
<1>8. ~(UMax \in {lo, hi} /\ dir > 0) /\ ~(hi = 0 /\ dir < 0) => Narrowed(u, s, v, wanted)
  BY <1>1, <1>4, <1>6, SetNarrows
<1> QED BY <1>3, <1>5, <1>7, <1>8

\* snd_pcm_hw_param_set on an interval of a sound space.
LEMMA SetIs ==
    ASSUME NEW s, Sound(s), NEW r, NEW v \in IVars, NEW val \in Uint, NEW dir \in {-1, 0, 1}
    PROVE  LET u == ParamSet(s, r, v, val, dir)
           IN  /\ Kept(u, s)
               /\ ~(val = UMax /\ dir > 0)
                     => Narrowed(u, s, v, From(2 * val + dir) \cap UpTo(2 * val + dir))
<1>1. v \in Vars /\ GoodI(s[v])
  BY IVar DEF Sound, Good, GoodV
<1>2. PICK res : res = hw_param_set(s[v], v, val, dir)
  OBVIOUS
<1>3. PICK u : u = ParamSet(s, r, v, val, dir)
  OBVIOUS
<1>4. u = OrSaved(UpdateVar(s, r, v, res), s, r)
  BY <1>2, <1>3 DEF ParamSet
<1>5. PICK wanted : wanted = From(2 * val + dir) \cap UpTo(2 * val + dir)
  OBVIOUS
<1>6. Tame(res, s[v], v) /\ (~(val = UMax /\ dir > 0) => Exact(res, s[v], v, wanted))
  BY <1>1, <1>2, <1>5, SetGood
<1>7. Kept(u, s)
  BY <1>1, <1>4, <1>6, SetKeeps
<1>8. ~(val = UMax /\ dir > 0) => Narrowed(u, s, v, wanted)
  BY <1>1, <1>4, <1>6, SetNarrows
<1> QED BY <1>3, <1>5, <1>7, <1>8

\* snd_pcm_hw_param_set on a mask of a sound space.
LEMMA MaskSetIs ==
    ASSUME NEW s, Sound(s), NEW r, NEW v \in MVars, NEW val \in Uint
    PROVE  Kept(ParamSet(s, r, v, val, 0), s) /\ Narrowed(ParamSet(s, r, v, val, 0), s, v, {val})
<1>1. v \in Vars /\ s[v] \subseteq Bits
  BY DEF Vars, Sound, Good, GoodV
<1>2. PICK res : res = hw_param_set(s[v], v, val, 0)
  OBVIOUS
<1>3. ParamSet(s, r, v, val, 0) = OrSaved(UpdateVar(s, r, v, res), s, r)
  BY <1>2 DEF ParamSet
<1>4. PICK wanted : wanted = {val}
  OBVIOUS
<1>5. Tame(res, s[v], v) /\ Exact(res, s[v], v, wanted)
  BY <1>1, <1>2, <1>4, MaskSetGood
<1> QED BY <1>1, <1>3, <1>4, <1>5, SetKeeps, SetNarrows

\* What snd_pcm_hw_param_set_near leaves of the space.
NearLeaves(t, s, val, dir) ==
    /\ Sound(t)
    /\ Space(s) # {} => Space(t) # {}
    /\ ~(val = 0 /\ dir <= 0) => Space(t) \subseteq Space(s)

\* _snd_pcm_hw_param_set_near: what it leaves it has found by narrowing, unless its
\* upper bound is below 0.
LEMMA NearIs ==
    ASSUME NEW s, Sound(s), NEW r, NEW v \in IVars, NEW val \in Uint, NEW dir \in {-1, 0, 1}
    PROVE  NearLeaves(ParamSetNear(s, r, v, val, dir).st.s, s, val, dir)
<1>0. /\ v \in Vars /\ UMax \in Nat /\ UMax > 1 /\ val \in Int /\ val >= 0 /\ val <= UMax /\ dir \in Int
  BY IVar, UMaxAssumption, HwParamsConstants DEF Uint
<1>1. IMax \in Nat /\ IMax < UMax /\ IMax > 0
  BY <1>0 DEF IMax
<1>2. PICK best \in Uint : best = IF val > IMax THEN IMax ELSE val
  BY <1>0, <1>1 DEF Uint
<1>3. best \in Int /\ best < UMax /\ best >= 0 /\ (val # 0 => best > 0) /\ best - 1 \in Int
  BY <1>0, <1>1, <1>2
<1>4. PICK a : a = ParamSetMin(s, r, v, best, dir)
  OBVIOUS
<1>5. PICK bv \in Uint : bv = IF dir < 0 THEN Wrap(best - 1) ELSE best
  BY <1>3, WrapUint
<1>6. PICK bd \in {-1, 0, 1} : bd = IF dir > 0 THEN 0 ELSE IF dir = 0 THEN -1 ELSE 1
  OBVIOUS
<1>7. PICK b : b = ParamSetMax(s, r, v, bv, bd)
  OBVIOUS
<1>8. Kept(a, s) /\ Narrowed(a, s, v, From(2 * best + dir))
  BY <1>3, <1>4, MinIs
<1>9. Kept(b, s)
  BY <1>7, MaxIs
<1>10. ~(val = 0 /\ dir <= 0) => Narrowed(b, s, v, UpTo(2 * bv + bd))
  <2> SUFFICES ASSUME ~(val = 0 /\ dir <= 0) PROVE ~(bv = UMax /\ bd > 0) /\ ~(bv = 0 /\ bd < 0)
    BY <1>7, MaxIs
  <2>1. dir < 0 => bv = best - 1
    <3>1. dir < 0 => best - 1 \in Uint
      BY <1>0, <1>3 DEF Uint
    <3> QED BY <1>5, <3>1, WrapInRange
  <2> QED BY <1>0, <1>3, <1>5, <1>6, <2>1
<1>11. PICK fst, lst : fst = ParamSetFirst(a.s, a.r, v) /\ lst = ParamSetLast(b.s, b.r, v)
  OBVIOUS
<1>12. ParamSetNear(s, r, v, val, dir).st \in {State(a.s, a.r, 0), fst, b, lst}
  <2>1. PICK n : n = ParamSetNear(s, r, v, val, dir)
    OBVIOUS
  <2>2. \E x, y, z : n = IF Single(a.s[v], v) THEN Reported(State(a.s, a.r, 0), v)
                        ELSE IF a.ret = 0 THEN IF x THEN Reported(lst, v) ELSE Reported(fst, v)
                        ELSE IF b.ret < 0 THEN [st |-> b, out |-> z]
                        ELSE Reported(lst, v)
    BY <1>2, <1>4, <1>5, <1>6, <1>7, <1>11, <2>1 DEF ParamSetNear
  <2>3. n.st \in {State(a.s, a.r, 0), fst, b, lst}
    BY <2>2 DEF Reported
  <2> QED BY <2>1, <2>3
<1>13. Sound(a.s) /\ Sound(b.s) /\ (Space(s) # {} => Space(a.s) # {} /\ Space(b.s) # {})
  BY <1>8, <1>9 DEF Kept
<1>14. /\ Lessened(fst, a.s) /\ (Space(a.s) # {} => Fixed(fst, a.s, v))
  BY <1>0, <1>11, <1>13, FirstIs
<1>15. /\ Lessened(lst, b.s) /\ (Space(b.s) # {} => Fixed(lst, b.s, v))
  BY <1>0, <1>11, <1>13, LastIs
<1>16. Lessened(a, s)
  BY <1>8, NarrowedLess
<1>17. ~(val = 0 /\ dir <= 0) => Lessened(b, s)
  BY <1>9, <1>10, NarrowedLess
<1>18. State(a.s, a.r, 0).s = a.s
  BY DEF State
<1>19. ASSUME NEW u \in {State(a.s, a.r, 0), fst, b, lst}
       PROVE  /\ Sound(u.s)
              /\ Space(s) # {} => Space(u.s) # {}
              /\ ~(val = 0 /\ dir <= 0) => Space(u.s) \subseteq Space(s)
  BY <1>13, <1>14, <1>15, <1>16, <1>17, <1>18 DEF Lessened, Fixed
<1>20. PICK u : u = ParamSetNear(s, r, v, val, dir).st
  OBVIOUS
<1> QED BY <1>12, <1>19, <1>20 DEF NearLeaves

-----------------------------------------------------------------------------
(* The steps. *)

\* The configurations that meet the request c.
Asks(s, c) == {d \in Space(s) : Meets(c, d)}

\* What is to be shown of every step.
StepFine ==
    /\ Sound(params')
    /\ SetExact /\ MaskExact /\ NeverWidens /\ NeverStuck /\ ChosenSupported

\* What a request for a bound or a value asks for, in terms of positions and bits.
LEMMA AsksMin ==
    ASSUME NEW s, NEW c, c.op = "set_min", c.var \in IVars, c.val \in Int, c.dir \in Int
    PROVE  Asks(s, c) = Wanted(s, c.var, From(2 * c.val + c.dir))
<1>1. ASSUME NEW d \in Space(s) PROVE Meets(c, d) <=> d[c.var] \in From(2 * c.val + c.dir)
  <2>1. d[c.var] \in Positions /\ c.var \notin MVars
    BY HwParamsConstants, IVar DEF Space
  <2>2. Meets(c, d) <=> Rank(c.var, d[c.var]) >= Asked(c, c.val)
    BY DEF Meets
  <2> QED BY <2>1, <2>2 DEF Rank, Asked, From
<1> QED BY <1>1 DEF Asks, Wanted

\* What set_max asks for, as a set of values.
LEMMA AsksMax ==
    ASSUME NEW s, NEW c, c.op = "set_max", c.var \in IVars, c.hi \in Int, c.dir \in Int
    PROVE  Asks(s, c) = Wanted(s, c.var, UpTo(2 * c.hi + c.dir))
<1>1. ASSUME NEW d \in Space(s) PROVE Meets(c, d) <=> d[c.var] \in UpTo(2 * c.hi + c.dir)
  <2>1. d[c.var] \in Positions /\ c.var \notin MVars
    BY HwParamsConstants, IVar DEF Space
  <2>2. Meets(c, d) <=> Rank(c.var, d[c.var]) <= Asked(c, c.hi)
    BY DEF Meets
  <2> QED BY <2>1, <2>2 DEF Rank, Asked, UpTo
<1> QED BY <1>1 DEF Asks, Wanted

\* What set_minmax, set and test ask for.
LEMMA AsksBoth ==
    ASSUME NEW s, NEW c, c.op \in {"set_minmax", "set", "test"}, c.var \in IVars,
           c.val \in Int, c.hi \in Int, c.dir \in Int
    PROVE  Asks(s, c) = Wanted(s, c.var, From(2 * c.val + c.dir) \cap UpTo(2 * c.hi + c.dir))
<1>1. ASSUME NEW d \in Space(s)
      PROVE  Meets(c, d) <=> d[c.var] \in From(2 * c.val + c.dir) \cap UpTo(2 * c.hi + c.dir)
  <2>1. d[c.var] \in Positions /\ c.var \notin MVars
    BY HwParamsConstants, IVar DEF Space
  <2>2. Meets(c, d) <=> /\ Rank(c.var, d[c.var]) >= Asked(c, c.val)
                        /\ Rank(c.var, d[c.var]) <= Asked(c, c.hi)
    BY DEF Meets
  <2> QED BY <2>1, <2>2 DEF Rank, Asked, From, UpTo
<1> QED BY <1>1 DEF Asks, Wanted

\* What set and test on a mask ask for.
LEMMA AsksBit ==
    ASSUME NEW s, NEW c, c.op \in {"set", "test"}, c.var \in MVars,
           c.val \in Int, c.hi = c.val, c.dir = 0
    PROVE  Asks(s, c) = Wanted(s, c.var, {c.val})
<1>1. ASSUME NEW d \in Space(s) PROVE Meets(c, d) <=> d[c.var] \in {c.val}
  <2>0. d[c.var] \in Bits /\ Bits \subseteq Uint /\ c.var \notin IVars
    BY HwParamsConstants DEF Space
  <2>0a. PICK x \in Uint : x = d[c.var]
    BY <2>0
  <2>0b. x \in Int
    BY UMaxAssumption DEF Uint
  <2>1. d[c.var] \in Int /\ c.var \notin IVars
    BY <2>0, <2>0a, <2>0b
  <2>2. Meets(c, d) <=> /\ Rank(c.var, d[c.var]) >= Asked(c, c.val)
                        /\ Rank(c.var, d[c.var]) <= Asked(c, c.hi)
    BY DEF Meets
  <2> QED BY <2>1, <2>2 DEF Rank, Asked
<1> QED BY <1>1 DEF Asks, Wanted

\* A call has returned: what the application sees, and the new space.
LEMMA ReturnsIs ==
    ASSUME NEW op, NEW v, NEW val, NEW hi, NEW dir, NEW u, NEW out, Returns(op, v, val, hi, dir, u, out)
    PROVE  /\ params' = u.s /\ call'.op = op /\ call'.var = v /\ call'.val = val /\ call'.hi = hi
           /\ call'.dir = dir /\ call'.ret = u.ret
BY DEF Returns

\* The calls that set a bound or a value.
LEMMA SetStep ==
    ASSUME Sound(params), NEW u, Kept(u, params), params' = u.s, call'.ret = u.ret,
           call'.op \in {"set_min", "set_max", "set_minmax", "set"},
           NEW v, call'.var = v, NEW wanted,
           ~OutOfRange(call') => /\ Narrowed(u, params, v, wanted)
                                 /\ call'.val <= UMax => Asks(params, call') = Wanted(params, v, wanted)
    PROVE  StepFine
<1>1. u.ret \in {EINVAL, ENOENT, 0} /\ Sound(u.s) /\ (u.ret < 0 => u.s = params)
      /\ (Space(params) # {} => Space(u.s) # {})
  BY DEF Kept
<1>2. u.ret = 0 \/ u.ret < 0
  BY <1>1 DEF EINVAL, ENOENT
<1>3. SetExact
  <2> SUFFICES ASSUME Space(params) # {}, ~OutOfRange(call'), call'.val <= UMax
               PROVE  IF Asks(params, call') = {} THEN call'.ret < 0 /\ params' = params
                      ELSE call'.ret = 0 /\ Space(params') = Asks(params, call')
    BY DEF SetExact, Asks
  <2>1. /\ Asks(params, call') = Wanted(params, v, wanted)
        /\ u.ret = 0 => Space(u.s) = Wanted(params, v, wanted)
        /\ u.ret = 0 <=> Wanted(params, v, wanted) # {}
    BY DEF Narrowed
  <2> QED BY <1>1, <1>2, <2>1
<1>4. NeverWidens
  <2> SUFFICES ASSUME ~OutOfRange(call') PROVE Space(params') \subseteq Space(params)
    BY DEF NeverWidens
  <2>1. Lessened(u, params)
    BY NarrowedLess
  <2> QED BY <2>1 DEF Lessened
<1>5. NeverStuck
  BY <1>1 DEF NeverStuck
<1>6. MaskExact /\ ChosenSupported
  BY DEF MaskExact, ChosenSupported
<1> QED BY <1>1, <1>3, <1>4, <1>5, <1>6 DEF StepFine

\* Testing a value.
LEMMA TestStep ==
    ASSUME Sound(params), NEW u, Kept(u, params), params' = params, call'.ret = u.ret, call'.op = "test",
           NEW v, call'.var = v, NEW wanted,
           ~OutOfRange(call') => /\ Narrowed(u, params, v, wanted)
                                 /\ call'.val <= UMax => Asks(params, call') = Wanted(params, v, wanted)
    PROVE  StepFine
<1>1. u.ret \in {EINVAL, ENOENT, 0}
  BY DEF Kept
<1>2. u.ret = 0 \/ u.ret < 0
  BY <1>1 DEF EINVAL, ENOENT
<1>3. SetExact
  <2> SUFFICES ASSUME Space(params) # {}, ~OutOfRange(call'), call'.val <= UMax
               PROVE  IF Asks(params, call') = {} THEN call'.ret < 0 /\ params' = params
                      ELSE call'.ret = 0 /\ params' = params
    BY DEF SetExact, Asks
  <2>1. /\ Asks(params, call') = Wanted(params, v, wanted)
        /\ u.ret = 0 <=> Wanted(params, v, wanted) # {}
    BY DEF Narrowed
  <2> QED BY <1>2, <2>1
<1>4. NeverWidens /\ NeverStuck
  BY DEF NeverWidens, NeverStuck
<1>5. MaskExact /\ ChosenSupported
  BY DEF MaskExact, ChosenSupported
<1> QED BY <1>3, <1>4, <1>5 DEF StepFine

\* The other calls on one parameter.
LEMMA OtherStep ==
    ASSUME Sound(params), Sound(params'),
           call'.op \notin {"set_min", "set_max", "set_minmax", "set", "test", "set_mask", "hw_params"},
           call'.op = "any" \/ OutOfRange(call') \/ Space(params') \subseteq Space(params),
           Space(params) # {} => Space(params') # {}
    PROVE  StepFine
<1>1. SetExact /\ MaskExact /\ ChosenSupported
  BY DEF SetExact, MaskExact, ChosenSupported
<1>2. NeverWidens /\ NeverStuck
  BY DEF NeverWidens, NeverStuck
<1> QED BY <1>1, <1>2 DEF StepFine

\* What an unsigned int holds of an argument.
LEMMA Truncates ==
    ASSUME NEW val \in Nat
    PROVE  /\ Truncated(val) \in Uint /\ Truncated(val) \in Int
           /\ val <= UMax => Truncated(val) = val
<1>1. Wrap(val) \in Uint
  BY WrapUint
<1>2. val <= UMax => Wrap(val) = val
  <2>1. val <= UMax => val \in Uint
    BY UMaxAssumption DEF Uint
  <2> QED BY <2>1, WrapInRange
<1> QED BY <1>1, <1>2, UMaxAssumption DEF Truncated, Uint

\* snd_pcm_hw_param_set_min as a step of the application.
LEMMA SetMinStep ==
    ASSUME Sound(params), NEW v \in IVars, NEW val \in Nat, NEW dir \in {-1, 0, 1}, SetMin(v, val, dir)
    PROVE  StepFine
<1>1. PICK tv \in Uint : tv = Truncated(val) /\ (val <= UMax => tv = val)
  BY Truncates
<1>2. PICK u : u = ParamSetMin(params, rmask, v, tv, dir)
  OBVIOUS
<1>3. Returns("set_min", v, val, val, dir, u, GetMin(u.s[v], v))
  BY <1>1, <1>2 DEF SetMin
<1>4. /\ params' = u.s /\ call'.op = "set_min" /\ call'.var = v /\ call'.val = val /\ call'.hi = val
      /\ call'.dir = dir /\ call'.ret = u.ret
  BY <1>3, ReturnsIs
<1>5. PICK wanted : wanted = From(2 * tv + dir)
  OBVIOUS
<1>6. /\ Kept(u, params)
      /\ ~(tv = UMax /\ dir > 0) => Narrowed(u, params, v, wanted)
  BY <1>2, <1>5, MinIs
<1>7. ~OutOfRange(call') => ~(tv = UMax /\ dir > 0)
  BY <1>1, <1>4 DEF OutOfRange
<1>8. val <= UMax => Asks(params, call') = Wanted(params, v, wanted)
  BY <1>1, <1>4, <1>5, AsksMin
<1> QED BY <1>4, <1>6, <1>7, <1>8, SetStep

\* snd_pcm_hw_param_set_max as a step.
LEMMA SetMaxStep ==
    ASSUME Sound(params), NEW v \in IVars, NEW val \in Nat, NEW dir \in {-1, 0, 1}, SetMax(v, val, dir)
    PROVE  StepFine
<1>1. PICK tv \in Uint : tv = Truncated(val) /\ (val <= UMax => tv = val)
  BY Truncates
<1>2. PICK u : u = ParamSetMax(params, rmask, v, tv, dir)
  OBVIOUS
<1>3. Returns("set_max", v, val, val, dir, u, GetMax(u.s[v], v))
  BY <1>1, <1>2 DEF SetMax
<1>4. /\ params' = u.s /\ call'.op = "set_max" /\ call'.var = v /\ call'.val = val /\ call'.hi = val
      /\ call'.dir = dir /\ call'.ret = u.ret
  BY <1>3, ReturnsIs
<1>5. PICK wanted : wanted = UpTo(2 * tv + dir)
  OBVIOUS
<1>6. /\ Kept(u, params)
      /\ ~(tv = UMax /\ dir > 0) /\ ~(tv = 0 /\ dir < 0) => Narrowed(u, params, v, wanted)
  BY <1>2, <1>5, MaxIs
<1>7. ~OutOfRange(call') => ~(tv = UMax /\ dir > 0) /\ ~(tv = 0 /\ dir < 0)
  BY <1>1, <1>4 DEF OutOfRange
<1>8. val <= UMax => Asks(params, call') = Wanted(params, v, wanted)
  BY <1>1, <1>4, <1>5, AsksMax
<1> QED BY <1>4, <1>6, <1>7, <1>8, SetStep

\* snd_pcm_hw_param_set_minmax as a step.
LEMMA SetMinmaxStep ==
    ASSUME Sound(params), NEW v \in IVars, NEW val \in Nat, NEW hi \in Uint, NEW dir \in {-1, 0, 1},
           SetMinmax(v, val, hi, dir)
    PROVE  StepFine
<1>0. hi \in Nat /\ hi <= UMax
  BY UMaxAssumption DEF Uint
<1>1. PICK tv \in Uint : tv = Truncated(val) /\ (val <= UMax => tv = val)
  BY Truncates
<1>1a. Truncated(hi) = hi
  BY <1>0, Truncates
<1>2. PICK u : u = ParamSetMinmax(params, rmask, v, tv, dir, hi, dir)
  OBVIOUS
<1>3. Returns("set_minmax", v, val, hi, dir, u, GetMin(u.s[v], v))
  BY <1>1, <1>1a, <1>2 DEF SetMinmax
<1>4. /\ params' = u.s /\ call'.op = "set_minmax" /\ call'.var = v /\ call'.val = val /\ call'.hi = hi
      /\ call'.dir = dir /\ call'.ret = u.ret
  BY <1>3, ReturnsIs
<1>5. PICK wanted : wanted = From(2 * tv + dir) \cap UpTo(2 * hi + dir)
  OBVIOUS
<1>6. /\ Kept(u, params)
      /\ ~(UMax \in {tv, hi} /\ dir > 0) /\ ~(hi = 0 /\ dir < 0) => Narrowed(u, params, v, wanted)
  BY <1>2, <1>5, MinmaxIs
<1>7. ~OutOfRange(call') => ~(UMax \in {tv, hi} /\ dir > 0) /\ ~(hi = 0 /\ dir < 0)
  BY <1>1, <1>1a, <1>4 DEF OutOfRange
<1>8. val <= UMax => Asks(params, call') = Wanted(params, v, wanted)
  BY <1>0, <1>1, <1>4, <1>5, AsksBoth
<1> QED BY <1>4, <1>6, <1>7, <1>8, SetStep

\* Setting or testing a value, of a parameter with an interval ...
LEMMA SetValueStep ==
    ASSUME Sound(params), NEW v \in IVars, NEW val \in Nat, NEW dir \in {-1, 0, 1},
           Set(v, val, dir) \/ Test(v, val, dir)
    PROVE  StepFine
<1>1. PICK tv \in Uint : tv = Truncated(val) /\ (val <= UMax => tv = val)
  BY Truncates
<1>2. PICK u : u = ParamSet(params, rmask, v, tv, dir)
  OBVIOUS
<1>3. PICK wanted : wanted = From(2 * tv + dir) \cap UpTo(2 * tv + dir)
  OBVIOUS
<1>4. /\ Kept(u, params)
      /\ ~(tv = UMax /\ dir > 0) => Narrowed(u, params, v, wanted)
  BY <1>2, <1>3, SetIs
<1>5. ASSUME call'.op \in {"set", "test"}, call'.var = v, call'.val = val, call'.hi = val, call'.dir = dir
      PROVE  ~OutOfRange(call') => /\ Narrowed(u, params, v, wanted)
                                   /\ call'.val <= UMax => Asks(params, call') = Wanted(params, v, wanted)
  <2>1. ~OutOfRange(call') => ~(tv = UMax /\ dir > 0)
    BY <1>1, <1>5 DEF OutOfRange
  <2>2. val <= UMax => Asks(params, call') = Wanted(params, v, wanted)
    <3>1. PICK c : c = call'
      OBVIOUS
    <3>2. /\ c.op \in {"set_minmax", "set", "test"} /\ c.var \in IVars
          /\ c.val \in Int /\ c.hi \in Int /\ c.dir \in Int
      BY <1>5, <3>1
    <3>3. Asks(params, c) = Wanted(params, c.var, From(2 * c.val + c.dir) \cap UpTo(2 * c.hi + c.dir))
      BY <3>2, AsksBoth
    <3> QED BY <1>1, <1>3, <1>5, <3>1, <3>3
  <2> QED BY <1>4, <1>5, <2>1, <2>2
<1>6. CASE Set(v, val, dir)
  <2>1. Returns("set", v, val, val, dir, u, NoCall.out)
    BY <1>1, <1>2, <1>6 DEF Set
  <2>2. /\ params' = u.s /\ call'.op = "set" /\ call'.var = v /\ call'.val = val /\ call'.hi = val
        /\ call'.dir = dir /\ call'.ret = u.ret
    BY <2>1, ReturnsIs
  <2> QED BY <1>4, <1>5, <2>2, SetStep
<1>7. CASE Test(v, val, dir)
  <2>1. Returns("test", v, val, val, dir, State(params, rmask, u.ret), NoCall.out)
    BY <1>1, <1>2, <1>7 DEF Test
  <2>2. State(params, rmask, u.ret).s = params /\ State(params, rmask, u.ret).ret = u.ret
    BY DEF State
  <2>3. /\ params' = params /\ call'.op = "test" /\ call'.var = v /\ call'.val = val /\ call'.hi = val
        /\ call'.dir = dir /\ call'.ret = u.ret
    BY <2>1, <2>2, ReturnsIs
  <2> QED BY <1>4, <1>5, <2>3, TestStep
<1> QED BY <1>6, <1>7

\* ... and of one with a mask.
LEMMA SetBitStep ==
    ASSUME Sound(params), NEW v \in MVars, NEW val \in Uint, Set(v, val, 0) \/ Test(v, val, 0)
    PROVE  StepFine
<1>1. Truncated(val) = val /\ val \in Int /\ v \notin IVars
  BY Truncates, UMaxAssumption, HwParamsConstants DEF Uint
<1>2. PICK u : u = ParamSet(params, rmask, v, val, 0)
  OBVIOUS
<1>3. PICK wanted : wanted = {val}
  OBVIOUS
<1>4. Kept(u, params) /\ Narrowed(u, params, v, wanted)
  BY <1>2, <1>3, MaskSetIs
<1>5. ASSUME call'.op \in {"set", "test"}, call'.var = v, call'.val = val, call'.hi = val, call'.dir = 0
      PROVE  Asks(params, call') = Wanted(params, v, wanted)
  BY <1>1, <1>3, <1>5, AsksBit
<1>6. CASE Set(v, val, 0)
  <2>1. Returns("set", v, val, val, 0, u, NoCall.out)
    BY <1>1, <1>2, <1>6 DEF Set
  <2>2. /\ params' = u.s /\ call'.op = "set" /\ call'.var = v /\ call'.val = val /\ call'.hi = val
        /\ call'.dir = 0 /\ call'.ret = u.ret
    BY <2>1, ReturnsIs
  <2> QED BY <1>4, <1>5, <2>2, SetStep
<1>7. CASE Test(v, val, 0)
  <2>1. Returns("test", v, val, val, 0, State(params, rmask, u.ret), NoCall.out)
    BY <1>1, <1>2, <1>7 DEF Test
  <2>2. State(params, rmask, u.ret).s = params /\ State(params, rmask, u.ret).ret = u.ret
    BY DEF State
  <2>3. /\ params' = params /\ call'.op = "test" /\ call'.var = v /\ call'.val = val /\ call'.hi = val
        /\ call'.dir = 0 /\ call'.ret = u.ret
    BY <2>1, <2>2, ReturnsIs
  <2> QED BY <1>4, <1>5, <2>3, TestStep
<1> QED BY <1>6, <1>7

\* A mask set, the first or last value taken, a parameter made integer.
LEMMA SetMaskStep ==
    ASSUME Sound(params), NEW v \in MVars, SetMask(v, mask)
    PROVE  StepFine
<1>1. PICK u : u = ParamSetMask(params, rmask, v, mask)
  OBVIOUS
<1>2. Returns("set_mask", v, 0, 0, 0, u, NoCall.out)
  BY <1>1 DEF SetMask
<1>3. params' = u.s /\ call'.op = "set_mask" /\ call'.var = v /\ call'.ret = u.ret
  BY <1>2, ReturnsIs
<1>4. /\ Sound(u.s) /\ u.ret \in {EINVAL, 0}
      /\ Space(u.s) = Wanted(params, v, mask)
      /\ Space(params) # {} => (u.ret < 0 <=> Wanted(params, v, mask) = {})
  BY <1>1, MaskIs
<1>5. MaskExact
  BY <1>3, <1>4 DEF MaskExact, Wanted
<1>6. NeverWidens
  BY <1>3, <1>4 DEF NeverWidens, Wanted
<1>7. NeverStuck
  BY <1>3, <1>4 DEF NeverStuck
<1>8. SetExact /\ ChosenSupported
  BY <1>3 DEF SetExact, ChosenSupported
<1> QED BY <1>3, <1>4, <1>5, <1>6, <1>7, <1>8 DEF StepFine

\* snd_pcm_hw_param_set_first and _last as steps.
LEMMA SettleStep ==
    ASSUME Sound(params), NEW v \in Vars, SetFirst(v) \/ SetLast(v)
    PROVE  StepFine
<1>1. CASE SetFirst(v)
  <2>1. PICK u : u = ParamSetFirst(params, rmask, v)
    OBVIOUS
  <2>2. Returns("set_first", v, 0, 0, 0, u, GetMin(u.s[v], v))
    BY <1>1, <2>1 DEF SetFirst
  <2>3. params' = u.s /\ call'.op = "set_first"
    BY <2>2, ReturnsIs
  <2>4. Lessened(u, params) /\ (Space(params) # {} => Fixed(u, params, v))
    BY <2>1, FirstIs
  <2> QED BY <2>3, <2>4, OtherStep DEF Lessened, Fixed
<1>2. CASE SetLast(v)
  <2>1. PICK u : u = ParamSetLast(params, rmask, v)
    OBVIOUS
  <2>2. Returns("set_last", v, 0, 0, 0, u, GetMin(u.s[v], v))
    BY <1>2, <2>1 DEF SetLast
  <2>3. params' = u.s /\ call'.op = "set_last"
    BY <2>2, ReturnsIs
  <2>4. Lessened(u, params) /\ (Space(params) # {} => Fixed(u, params, v))
    BY <2>1, LastIs
  <2> QED BY <2>3, <2>4, OtherStep DEF Lessened, Fixed
<1> QED BY <1>1, <1>2

\* snd_pcm_hw_param_set_integer as a step.
LEMMA SetIntegerStep ==
    ASSUME Sound(params), NEW v \in IVars, SetInteger(v)
    PROVE  StepFine
<1>1. PICK u : u = ParamSetInteger(params, rmask, v)
  OBVIOUS
<1>2. Returns("set_integer", v, 0, 0, 0, u, NoCall.out)
  BY <1>1 DEF SetInteger
<1>3. params' = u.s /\ call'.op = "set_integer"
  BY <1>2, ReturnsIs
<1>4. Lessened(u, params) /\ (Space(params) # {} => Space(u.s) # {})
  BY <1>1, IntegerIs
<1> QED BY <1>3, <1>4, OtherStep DEF Lessened

\* snd_pcm_hw_param_set_near as a step.
LEMMA SetNearStep ==
    ASSUME Sound(params), NEW v \in IVars, NEW val \in Nat, NEW dir \in {-1, 0, 1}, SetNear(v, val, dir)
    PROVE  StepFine
<1>1. PICK tv \in Uint : tv = Truncated(val)
  BY Truncates
<1>2. PICK n : n = ParamSetNear(params, rmask, v, tv, dir)
  OBVIOUS
<1>3. Returns("set_near", v, val, val, dir, n.st, n.out)
  BY <1>1, <1>2 DEF SetNear
<1>4. params' = n.st.s /\ call'.op = "set_near" /\ call'.var = v /\ call'.val = val /\ call'.dir = dir
  BY <1>3, ReturnsIs
<1>5. /\ Sound(n.st.s)
      /\ Space(params) # {} => Space(n.st.s) # {}
      /\ ~(tv = 0 /\ dir <= 0) => Space(n.st.s) \subseteq Space(params)
  <2>1. NearLeaves(n.st.s, params, tv, dir)
    BY <1>2, NearIs
  <2> QED BY <2>1 DEF NearLeaves
<1>6. OutOfRange(call') \/ ~(tv = 0 /\ dir <= 0)
  BY <1>1, <1>4 DEF OutOfRange
<1> QED BY <1>4, <1>5, <1>6, OtherStep

\* snd_pcm_hw_params_any: every configuration that can be left at all is there again.
LEMMA AnyStep ==
    ASSUME Sound(params), ParamsAny
    PROVE  StepFine
<1>1. PICK all : all = [v \in Vars |-> IF v \in MVars THEN Bits ELSE interval_any]
  OBVIOUS
<1>2. PICK u : u = HwRefine(all, Vars)
  OBVIOUS
<1>3. Returns("any", NoCall.var, 0, 0, 0, u, NoCall.out)
  BY <1>1, <1>2 DEF ParamsAny
<1>4. params' = u.s /\ call'.op = "any"
  BY <1>3, ReturnsIs
<1>5. /\ interval_any \in Intervals /\ ~interval_any.openmin /\ ~interval_any.openmax
      /\ interval_any.min = 0 /\ interval_any.max = UMax /\ ~interval_any.integer /\ ~interval_any.empty
  BY UMaxAssumption DEF interval_any, Intervals, Uint
<1>6. \A i \in Intervals : Points(i) \subseteq Points(interval_any)
  <2> SUFFICES ASSUME NEW i \in Intervals, NEW p \in Points(i) PROVE p \in Points(interval_any)
    OBVIOUS
  <2>1. p \in Positions /\ p.val \in Uint /\ p.up \in BOOLEAN /\ i.max \in Uint
    BY DEF Points, Positions, Intervals
  <2>2. Below(p, i.max, i.openmax)
    BY DEF Points
  <2>3. p.val >= 0 /\ p.val \in Int /\ (p.val < UMax \/ (p.val = UMax /\ ~p.up))
    BY <2>1, <2>2, UMaxAssumption DEF Below, Uint
  <2>4. /\ Above(p, interval_any.min, interval_any.openmin)
        /\ Below(p, interval_any.max, interval_any.openmax)
    BY <1>5, <2>3 DEF Above, Below
  <2> QED BY <1>5, <2>1, <2>4 DEF Points
<1>7. GoodI(interval_any)
  <2>1. [val |-> 0, up |-> FALSE] \in Points(interval_any)
    <3>1. [val |-> 0, up |-> FALSE] \in Positions
      BY UMaxAssumption DEF Positions, Uint
    <3> QED BY <1>5, <3>1, UMaxAssumption DEF Points, Above, Below
  <2> QED BY <1>5, <2>1 DEF GoodI, NoWrap, Closed
<1>8. Good(all)
  <2>1. \A v \in Vars : GoodV(all[v], v)
    BY <1>1, <1>7 DEF GoodV
  <2>2. all = [v \in Vars |-> all[v]]
    BY <1>1
  <2> QED BY <2>1, <2>2 DEF Good
<1>9. Shape(all)
  BY <1>8, GoodShape
<1>10. Space(params) \subseteq Space(all)
  <2> SUFFICES ASSUME NEW d \in Space(params) PROVE d \in Space(all)
    OBVIOUS
  <2>1. d \in Device /\ \A v \in Vars : d[v] \in In(params[v], v)
    BY SpaceIs
  <2>2. ASSUME NEW v \in Vars PROVE d[v] \in In(all[v], v)
    <3>1. GoodV(params[v], v)
      BY DEF Sound, Good
    <3>2. CASE v \in MVars
      BY <1>1, <2>1, <3>1, <3>2 DEF In, GoodV
    <3>3. CASE v \notin MVars
      <4>1. params[v] \in Intervals /\ d[v] \in Points(params[v])
        BY <2>1, <3>1, <3>3 DEF In, GoodV, GoodI
      <4>2. d[v] \in Points(interval_any)
        BY <1>6, <4>1
      <4> QED BY <1>1, <3>3, <4>2 DEF In
    <3> QED BY <3>2, <3>3
  <2> QED BY <2>1, <2>2, SpaceIs
<1>11. Sound(u.s) /\ Space(u.s) = Space(all)
  <2>1. CASE Space(all) = {}
    <3>1. u.s = all
      BY <1>2, <2>1 DEF HwRefine, State
    <3> QED BY <1>8, <2>1, <3>1 DEF Sound
  <2>2. CASE Space(all) # {}
    <3>1. Answered(all, u)
      BY <1>2, <1>9, <2>2, HwRefineIs
    <3> QED BY <3>1 DEF Answered, Sound
  <2> QED BY <2>1, <2>2
<1> QED BY <1>4, <1>10, <1>11, OtherStep

\* snd_pcm_hw_params.
LEMMA HwParamsStep ==
    ASSUME Sound(params), HwParams
    PROVE  StepFine
<1>1. PICK k : k = HwRefine(params, rmask)
  OBVIOUS
<1>2. PICK c : c = Choose(k.s, k.r)
  OBVIOUS
<1>3. PICK u : u = IF k.ret < 0 THEN k ELSE State(c.s, c.r, 0)
  OBVIOUS
<1>4. Returns("hw_params", NoCall.var, 0, 0, 0, u, NoCall.out)
  BY <1>1, <1>2, <1>3 DEF HwParams
<1>5. params' = u.s /\ call'.op = "hw_params" /\ call'.ret = u.ret
  BY <1>4, ReturnsIs
<1>6. SetExact /\ MaskExact
  BY <1>5 DEF SetExact, MaskExact
<1>7. CASE Space(params) = {}
  <2>1. k = State(params, rmask, EINVAL)
    BY <1>1, <1>7 DEF HwRefine
  <2>2. u.s = params
    BY <1>3, <2>1 DEF State, EINVAL
  <2>3. NeverWidens /\ NeverStuck /\ ChosenSupported
    BY <1>5, <1>7, <2>2 DEF NeverWidens, NeverStuck, ChosenSupported
  <2> QED BY <1>5, <1>6, <2>2, <2>3 DEF StepFine
<1>8. CASE Space(params) # {}
  <2>1. Shape(params)
    BY GoodShape DEF Sound
  <2>2. Answered(params, k)
    BY <1>1, <1>8, <2>1, HwRefineIs
  <2>3. k.ret = 0 /\ Sound(k.s) /\ Space(k.s) = Space(params)
    BY <2>2 DEF Answered, Sound
  <2>4. Chosen(c, k.s, Len(Choice))
    BY <1>2, <1>8, <2>3, ChooseIs
  <2>5. u.s = c.s /\ u.ret = 0
    BY <1>3, <2>3 DEF State
  <2>6. /\ Sound(params') /\ Space(params') # {} /\ Space(params') \subseteq Space(params)
    BY <1>5, <2>3, <2>4, <2>5 DEF Chosen
  <2>7. ChosenSupported
    <3>1. \A n \in DOMAIN Choice : Single(params'[Choice[n].var], Choice[n].var)
      BY <1>5, <2>4, <2>5, TableVar DEF Chosen
    <3> QED BY <1>5, <2>5, <2>6, <3>1 DEF ChosenSupported
  <2>8. NeverWidens /\ NeverStuck
    BY <2>6 DEF NeverWidens, NeverStuck
  <2> QED BY <1>6, <2>6, <2>7, <2>8 DEF StepFine
<1> QED BY <1>7, <1>8

\* The calls that leave the space alone.
LEMMA QuietStep ==
    ASSUME Sound(params), params' = params, call' = NoCall
    PROVE  StepFine
<1>1. call'.op = "none"
  BY DEF NoCall
<1> QED BY <1>1, OtherStep

\* The functions that a parameter has: those of a mask, ...
LEMMA MaskKindCalls ==
    ASSUME NEW v \in MVars, NEW name \in Kind[v]
    PROVE  Calls[name] = MaskCalls
<1>1. name \in MaskKinds
  BY HwParamsConstants DEF Vars
<1>2. name = "access" \/ name = "format" \/ name = "subformat"
  BY <1>1 DEF MaskKinds
<1> QED BY <1>2 DEF Calls, access_calls, format_calls, subformat_calls

\* ... or those of an interval, with a direction and a value that may be cut off.
IntervalCalls(c) ==
    /\ c.names \subseteq ParamCalls.names \cup {"set_integer"}
    /\ c.vals \subseteq Nat /\ c.dirs \subseteq {-1, 0, 1}

\* The functions of an interval parameter are those for intervals.
LEMMA IntervalKindCalls ==
    ASSUME NEW v \in IVars, NEW name \in Kind[v]
    PROVE  IntervalCalls(Calls[name])
<1>1. name \in IntervalKinds
  BY HwParamsConstants, IVar
<1>2. Uint \subseteq Nat /\ Uint \cup Longs \subseteq Nat /\ Dirs \subseteq {-1, 0, 1} /\ {0} \subseteq {-1, 0, 1}
  BY HwParamsConstants, UMaxAssumption DEF Uint
<1>3. PICK N : N = ParamCalls.names
  OBVIOUS
<1>4. ParamCalls = [names |-> N, vals |-> Uint, dirs |-> Dirs]
  BY <1>3 DEF ParamCalls
<1>5. IntervalCalls(ParamCalls)
  BY <1>2, <1>3, <1>4 DEF IntervalCalls
<1>6. IntervalCalls([ParamCalls EXCEPT !.dirs = {0}])
  BY <1>2, <1>3, <1>4 DEF IntervalCalls
<1>7. IntervalCalls([ParamCalls EXCEPT !.names = @ \cup {"set_integer"}, !.vals = @ \cup Longs])
  BY <1>2, <1>3, <1>4 DEF IntervalCalls
<1>8. IntervalCalls([ParamCalls EXCEPT !.names = @ \cup {"set_integer"}])
  BY <1>2, <1>3, <1>4 DEF IntervalCalls
<1>9. IntervalCalls([ParamCalls EXCEPT !.vals = @ \cup Longs, !.dirs = {0}])
  BY <1>2, <1>3, <1>4 DEF IntervalCalls
<1>10. \/ name = "channels" \/ name = "rate" \/ name = "period_time" \/ name = "period_size"
       \/ name = "periods" \/ name = "buffer_time" \/ name = "buffer_size" \/ name = "tick_time"
  BY <1>1 DEF IntervalKinds
<1>11. /\ Calls["channels"] = channels_calls /\ Calls["rate"] = rate_calls
       /\ Calls["period_time"] = period_time_calls /\ Calls["period_size"] = period_size_calls
       /\ Calls["periods"] = periods_calls /\ Calls["buffer_time"] = buffer_time_calls
       /\ Calls["buffer_size"] = buffer_size_calls /\ Calls["tick_time"] = tick_time_calls
  BY DEF Calls
<1>12. /\ IntervalCalls(channels_calls) /\ IntervalCalls(rate_calls) /\ IntervalCalls(period_time_calls)
       /\ IntervalCalls(period_size_calls) /\ IntervalCalls(periods_calls)
       /\ IntervalCalls(buffer_time_calls) /\ IntervalCalls(buffer_size_calls) /\ IntervalCalls(tick_time_calls)
  BY <1>5, <1>6, <1>7, <1>8, <1>9
     DEF channels_calls, rate_calls, period_time_calls, period_size_calls, periods_calls,
         buffer_time_calls, buffer_size_calls, tick_time_calls
<1> QED BY <1>10, <1>11, <1>12

\* A call on a parameter with a mask ...
LEMMA MaskCallStep ==
    ASSUME Sound(params), NEW v \in MVars, Call(v, MaskCalls)
    PROVE  StepFine
<1>1. /\ MaskCalls.names = {"set", "test", "set_first", "set_last", "set_mask", "get_mask"}
      /\ MaskCalls.vals = Bits /\ MaskCalls.dirs = {0}
  BY DEF MaskCalls
<1>2. \/ SetFirst(v) \/ SetLast(v) \/ SetMask(v, mask) \/ GetMask(v)
      \/ \E val \in Bits : Set(v, val, 0) \/ Test(v, val, 0)
  BY <1>1 DEF Call
<1>3. v \in Vars /\ Bits \subseteq Uint
  BY HwParamsConstants DEF Vars
<1>4. CASE SetFirst(v) \/ SetLast(v)
  BY <1>3, <1>4, SettleStep
<1>5. CASE SetMask(v, mask)
  BY <1>5, SetMaskStep
<1>6. CASE GetMask(v)
  <2>1. params' = params /\ call' = NoCall
    BY <1>6 DEF GetMask
  <2> QED BY <2>1, QuietStep
<1>7. ASSUME NEW val \in Bits, Set(v, val, 0) \/ Test(v, val, 0) PROVE StepFine
  BY <1>3, <1>7, SetBitStep
<1> QED BY <1>2, <1>4, <1>5, <1>6, <1>7

\* ... and on one with an interval.
LEMMA IntervalCallStep ==
    ASSUME Sound(params), NEW v \in IVars, NEW c, IntervalCalls(c), Call(v, c)
    PROVE  StepFine
<1>1. /\ "set_mask" \notin c.names /\ "get_mask" \notin c.names
      /\ c.vals \subseteq Nat /\ c.dirs \subseteq {-1, 0, 1}
  BY DEF IntervalCalls, ParamCalls
<1>2. \/ SetFirst(v) \/ SetLast(v) \/ SetInteger(v)
      \/ \E val \in c.vals, dir \in c.dirs :
            \/ Set(v, val, dir) \/ Test(v, val, dir) \/ SetMin(v, val, dir) \/ SetMax(v, val, dir)
            \/ \E hi \in Uppers(val) : SetMinmax(v, val, hi, dir)
            \/ SetNear(v, val, dir)
  BY <1>1 DEF Call
<1>3. CASE SetFirst(v) \/ SetLast(v)
  BY <1>3, IVar, SettleStep
<1>4. CASE SetInteger(v)
  BY <1>4, SetIntegerStep
<1>5. ASSUME NEW val \in c.vals, NEW dir \in c.dirs,
             \/ Set(v, val, dir) \/ Test(v, val, dir) \/ SetMin(v, val, dir) \/ SetMax(v, val, dir)
             \/ \E hi \in Uppers(val) : SetMinmax(v, val, hi, dir)
             \/ SetNear(v, val, dir)
      PROVE  StepFine
  <2>1. val \in Nat /\ dir \in {-1, 0, 1}
    BY <1>1
  <2>2. CASE Set(v, val, dir) \/ Test(v, val, dir)
    BY <2>1, <2>2, SetValueStep
  <2>3. CASE SetMin(v, val, dir)
    BY <2>1, <2>3, SetMinStep
  <2>4. CASE SetMax(v, val, dir)
    BY <2>1, <2>4, SetMaxStep
  <2>5. ASSUME NEW hi \in Uppers(val), SetMinmax(v, val, hi, dir) PROVE StepFine
    <3>1. hi \in Uint
      BY DEF Uppers
    <3> QED BY <2>1, <2>5, <3>1, SetMinmaxStep
  <2>6. CASE SetNear(v, val, dir)
    BY <2>1, <2>6, SetNearStep
  <2> QED BY <1>5, <2>2, <2>3, <2>4, <2>5, <2>6
<1> QED BY <1>2, <1>3, <1>4, <1>5

\* Every step of the application is as it should be.
LEMMA StepIsFine ==
    ASSUME Sound(params), Next
    PROVE  StepFine
<1>1. CASE GoOn
  <2>1. params' = params /\ call' = NoCall
    BY <1>1 DEF GoOn
  <2> QED BY <2>1, QuietStep
<1>2. CASE ParamsAny
  BY <1>2, AnyStep
<1>3. CASE HwParams
  BY <1>3, HwParamsStep
<1>4. CASE _snd_mask_none \/ _snd_mask_any \/ \E b \in Bits : _snd_mask_set(b) \/ _snd_mask_reset(b)
  <2>1. params' = params /\ call' = NoCall
    BY <1>4 DEF _snd_mask_none, _snd_mask_any, _snd_mask_set, _snd_mask_reset
  <2> QED BY <2>1, QuietStep
<1>5. ASSUME NEW v \in Vars, NEW name \in Kind[v], Call(v, Calls[name]) PROVE StepFine
  <2>1. CASE v \in MVars
    <3>1. Call(v, MaskCalls)
      BY <1>5, <2>1, MaskKindCalls
    <3> QED BY <2>1, <3>1, MaskCallStep
  <2>2. CASE v \in IVars
    <3>1. PICK c : c = Calls[name]
      OBVIOUS
    <3>2. IntervalCalls(c) /\ Call(v, c)
      BY <1>5, <2>2, <3>1, IntervalKindCalls
    <3> QED BY <2>2, <3>2, IntervalCallStep
  <2> QED BY <2>1, <2>2 DEF Vars
<1> QED BY <1>1, <1>2, <1>3, <1>4, <1>5 DEF Next

\* The zeroed space that snd_pcm_hw_params_malloc hands out: one point at most.
LEMMA InitSound ==
    ASSUME Init
    PROVE  Sound(params)
<1>1. PICK z : z = [interval_any EXCEPT !.max = 0]
  OBVIOUS
<1>2. /\ z \in Intervals /\ ~z.openmin /\ ~z.openmax /\ z.min = 0 /\ z.max = 0 /\ ~z.integer /\ ~z.empty
  <2>1. z = [min |-> 0, max |-> 0, openmin |-> FALSE, openmax |-> FALSE, integer |-> FALSE, empty |-> FALSE]
    BY <1>1 DEF interval_any
  <2>2. 0 \in Uint
    BY UMaxAssumption DEF Uint
  <2> QED BY <2>1, <2>2 DEF Intervals
<1>3. params = [v \in Vars |-> IF v \in MVars THEN {} ELSE z]
  BY <1>1 DEF Init
<1>4. PICK o : o = [val |-> 0, up |-> FALSE]
  OBVIOUS
<1>5. Points(z) = {o}
  <2>1. o \in Positions /\ o.val = 0 /\ ~o.up
    BY <1>4, UMaxAssumption DEF Positions, Uint
  <2>2. o \in Points(z)
    <3>1. Above(o, z.min, z.openmin)
      BY <1>2, <2>1, Zenon DEF Above
    <3>2. Below(o, z.max, z.openmax)
      BY <1>2, <2>1, Zenon DEF Below
    <3> QED BY <1>2, <2>1, <3>1, <3>2 DEF Points
  <2>3. ASSUME NEW p \in Points(z) PROVE p = o
    <3>1. p \in Positions /\ Above(p, z.min, z.openmin) /\ Below(p, z.max, z.openmax)
      BY DEF Points
    <3>2. p.val \in Int /\ p.up \in BOOLEAN /\ p = [val |-> p.val, up |-> p.up]
      BY <3>1, UMaxAssumption DEF Positions, Uint
    <3>3. p.val = 0 /\ p.up = FALSE
      BY <1>2, <3>1, <3>2 DEF Above, Below
    <3> QED BY <1>4, <3>2, <3>3
  <2> QED BY <2>2, <2>3
<1>6. GoodI(z)
  BY <1>2, <1>5 DEF GoodI, NoWrap, Closed
<1>7. Good(params)
  <2>1. \A v \in Vars : GoodV(params[v], v)
    BY <1>3, <1>6 DEF GoodV
  <2>2. params = [v \in Vars |-> params[v]]
    BY <1>3
  <2> QED BY <2>1, <2>2 DEF Good
<1>8. ASSUME NEW d \in Space(params), NEW v \in Vars PROVE TightV(params, v)
  <2>1. d[v] \in In(params[v], v)
    BY <1>8, SpaceIs
  <2>2. CASE v \in MVars
    <3>1. params[v] = {} /\ v \notin IVars
      BY <1>3, <2>2, HwParamsConstants DEF Vars
    <3> QED BY <3>1 DEF TightV
  <2>3. CASE v \in IVars
    <3>1. v \notin MVars /\ Points(params[v]) = {o}
      BY <1>3, <1>5, <1>8, <2>3, IVar
    <3>2. d[v] = o
      BY <2>1, <3>1 DEF In
    <3>3. AtMost(o, o)
      BY <1>4 DEF AtMost
    <3>4. \A p \in Points(params[v]) : AtMost(d[v], p) /\ AtMost(p, d[v])
      BY <3>1, <3>2, <3>3
    <3> QED BY <3>1, <3>4 DEF TightV
  <2> QED BY <2>2, <2>3 DEF Vars
<1> QED BY <1>7, <1>8 DEF Sound, Tight

-----------------------------------------------------------------------------
(* The search for the nearest value. *)

\* The values as a search for the nearest counts them, in half steps, and the lowest
\* and highest that an interval admits.
Place(p) == 2 * p.val + Flag(p.up)
Lo(i) == 2 * i.min + Flag(i.openmin)
Hi(i) == 2 * i.max - Flag(i.openmax)

\* The bounds that _snd_pcm_hw_param_get_min and _get_max report are those of the
\* configurations left.
Edged(s, v) ==
    /\ \A d \in Space(s) : /\ d[v] \in Points(s[v]) /\ Place(d[v]) \in Nat
                           /\ Lo(s[v]) <= Place(d[v]) /\ Place(d[v]) <= Hi(s[v])
    /\ \E d \in Space(s) : Place(d[v]) = Lo(s[v])
    /\ \E d \in Space(s) : Place(d[v]) = Hi(s[v])

\* The bounds of an interval are the places of configurations that are left.
LEMMA EdgesAre ==
    ASSUME NEW s, Sound(s), Space(s) # {}, NEW v \in IVars
    PROVE  Edged(s, v)
<1>1. PICK i : i = s[v]
  OBVIOUS
<1>2. GoodI(i) /\ v \notin MVars /\ v \in Vars /\ TightV(s, v) /\ UMax \in Nat
  BY <1>1, IVar, UMaxAssumption DEF Sound, Good, GoodV, Tight
<1>3. i \in Intervals /\ NoWrap(i) /\ Closed(i)
  BY <1>2 DEF GoodI
<1>4. \A d \in Space(s) : d[v] \in Points(i)
  BY <1>1, <1>2, SpaceIs DEF In
<1>5. \A p \in Points(i) : /\ p \in Positions /\ Place(p) \in Nat
                           /\ Lo(i) <= Place(p) /\ Place(p) <= Hi(i)
  BY <1>2, <1>3 DEF Points, Positions, Above, Below, Lo, Hi, Place, Flag, Intervals, Uint
<1>6. PICK p \in Points(i) : TRUE
  BY <1>4
<1>7. ~i.empty /\ Above(p, i.min, i.openmin) /\ Below(p, i.max, i.openmax) /\ p.val \in Uint /\ p.up \in BOOLEAN
  BY <1>6 DEF Points, Positions
<1>8. [val |-> i.min, up |-> i.openmin] \in Points(i)
  BY <1>2, <1>3, <1>7 DEF Points, Positions, Above, Below, Intervals, Uint, Closed
<1>9. [val |-> IF i.openmax THEN i.max - 1 ELSE i.max, up |-> i.openmax] \in Points(i)
  BY <1>2, <1>3, <1>7 DEF Points, Positions, Above, Below, Intervals, Uint, Closed, NoWrap
<1>10. \E d \in Space(s) : Place(d[v]) = Lo(i)
  <2>1. PICK d \in Space(s) : \A q \in Points(i) : AtMost(d[v], q)
    BY <1>1, <1>2 DEF TightV
  <2>2. PICK q : q = [val |-> i.min, up |-> i.openmin]
    OBVIOUS
  <2>3. AtMost(d[v], q) /\ Lo(i) <= Place(d[v]) /\ d[v] \in Positions /\ q \in Positions /\ Place(q) = Lo(i)
    BY <1>4, <1>5, <1>8, <2>1, <2>2 DEF Points, Place, Lo
  <2>4. Place(d[v]) <= Place(q)
    BY <1>2, <2>3 DEF AtMost, Place, Positions, Flag, Uint
  <2>5. Place(d[v]) \in Nat /\ Lo(i) \in Int
    BY <1>2, <1>3, <1>4, <1>5 DEF Lo, Flag, Intervals, Uint
  <2> QED BY <2>3, <2>4, <2>5
<1>11. \E d \in Space(s) : Place(d[v]) = Hi(i)
  <2>1. PICK d \in Space(s) : \A q \in Points(i) : AtMost(q, d[v])
    BY <1>1, <1>2 DEF TightV
  <2>2. PICK q : q = [val |-> IF i.openmax THEN i.max - 1 ELSE i.max, up |-> i.openmax]
    OBVIOUS
  <2>3. AtMost(q, d[v]) /\ Place(d[v]) <= Hi(i) /\ d[v] \in Positions /\ q \in Positions
    BY <1>4, <1>5, <1>9, <2>1, <2>2 DEF Points
  <2>4. Place(q) = Hi(i)
    BY <1>2, <1>3, <2>2 DEF Place, Hi, Flag, Intervals, Uint
  <2>5. Place(q) <= Place(d[v])
    BY <1>2, <2>3 DEF AtMost, Place, Positions, Flag, Uint
  <2>6. Place(d[v]) \in Nat /\ Hi(i) \in Int
    BY <1>2, <1>3, <1>4, <1>5 DEF Hi, Flag, Intervals, Uint
  <2> QED BY <2>3, <2>4, <2>5, <2>6
<1> QED BY <1>1, <1>4, <1>5, <1>10, <1>11 DEF Edged

\* The values of a single interval lie on one integer or just above it.
LEMMA SinglePlaces ==
    ASSUME NEW i, GoodI(i), IsSingle(i), NEW p \in Points(i)
    PROVE  Place(p) \in {2 * i.min, 2 * i.min + 1} /\ Place(p) \in {Lo(i), Lo(i) + 1}
<1>1. i \in Intervals /\ NoWrap(i) /\ Closed(i) /\ UMax \in Nat
  BY UMaxAssumption DEF GoodI
<1>2. p \in Positions /\ ~i.empty /\ Above(p, i.min, i.openmin) /\ Below(p, i.max, i.openmax)
  BY DEF Points
<1>3. [val |-> i.min, up |-> i.openmin] \in Points(i)
  BY <1>1, <1>2 DEF Points, Positions, Above, Below, Intervals, Uint, Closed
<1>4. p.val <= i.min
  <2>1. PICK q : q = [val |-> i.min, up |-> i.openmin]
    OBVIOUS
  <2>2. p.val <= q.val
    BY <1>1, <1>3, <2>1, SingleValue
  <2> QED BY <2>1, <2>2
<1>5. p.val = i.min
  BY <1>1, <1>2, <1>4 DEF Above, Intervals, Positions, Uint
<1> QED BY <1>1, <1>2, <1>5 DEF Place, Lo, Flag, Above, Intervals, Positions, Uint

\* snd_interval_refine_first leaves the lowest value alone, ...
LEMMA FirstPlace ==
    ASSUME NEW i, GoodI(i), ~IsSingle(i), NEW p \in Points(RefineFirst(i).i)
    PROVE  Place(p) = Lo(i)
<1>1. i \in Intervals /\ NoWrap(i) /\ UMax \in Nat
  BY UMaxAssumption DEF GoodI
<1>2. ~i.empty
  BY DEF RefineFirst, Points
<1>3. i.openmin => Wrap(i.min + 1) = i.min + 1
  BY <1>1, WrapInRange DEF NoWrap, Intervals, Uint
<1>4. PICK j : j = [i EXCEPT !.max = IF i.openmin THEN i.min + 1 ELSE i.min, !.openmax = i.openmin]
  OBVIOUS
<1>5. p \in Points(j)
  BY <1>2, <1>3, <1>4 DEF RefineFirst
<1>6. j.min = i.min /\ j.openmin = i.openmin /\ j.openmax = i.openmin
      /\ j.max = IF i.openmin THEN i.min + 1 ELSE i.min
  BY <1>1, <1>4 DEF Intervals
<1> QED BY <1>1, <1>5, <1>6 DEF Points, Above, Below, Place, Lo, Flag, Intervals, Positions, Uint

\* ... and snd_interval_refine_last the highest, unless it is single already.
LEMMA LastPlace ==
    ASSUME NEW i, GoodI(i), NEW p \in Points(RefineLast(i).i), NEW h \in Points(i), Place(h) = Hi(i)
    PROVE  Place(p) \in {Hi(i) - 1, Hi(i)}
<1>1. i \in Intervals /\ NoWrap(i) /\ UMax \in Nat
  BY UMaxAssumption DEF GoodI
<1>2. ~i.empty
  BY DEF RefineLast, Points
<1>3. CASE IsSingle(i)
  <2>1. p \in Points(i)
    BY <1>2, <1>3 DEF RefineLast
  <2>2. Place(p) \in {Lo(i), Lo(i) + 1} /\ Place(h) \in {Lo(i), Lo(i) + 1}
    BY <1>3, <2>1, SinglePlaces
  <2>3. Place(p) <= Hi(i) /\ Lo(i) \in Int
    BY <1>1, <2>1 DEF Points, Below, Place, Hi, Lo, Flag, Intervals, Positions, Uint
  <2> QED BY <2>2, <2>3
<1>4. CASE ~IsSingle(i)
  <2>1. i.openmax => Wrap(i.max - 1) = i.max - 1
    BY <1>1, WrapInRange DEF NoWrap, Intervals, Uint
  <2>2. PICK j : j = [i EXCEPT !.min = IF i.openmax THEN i.max - 1 ELSE i.max, !.openmin = i.openmax]
    OBVIOUS
  <2>3. p \in Points(j)
    BY <1>2, <1>4, <2>1, <2>2 DEF RefineLast
  <2>4. j.max = i.max /\ j.openmax = i.openmax /\ j.openmin = i.openmax
        /\ j.min = IF i.openmax THEN i.max - 1 ELSE i.max
    BY <1>1, <2>2 DEF Intervals
  <2>5. Place(p) = Hi(i)
    BY <1>1, <2>3, <2>4 DEF Points, Above, Below, Place, Hi, Flag, Intervals, Positions, Uint
  <2> QED BY <2>5
<1> QED BY <1>3, <1>4

\* Integer division and what it leaves.
LEMMA Remainder ==
    ASSUME NEW a \in Int, NEW b \in Int, b > 0
    PROVE  /\ a \div b \in Int /\ a % b \in Int
           /\ a = b * (a \div b) + (a % b) /\ 0 <= a % b /\ a % b < b
OBVIOUS

\* Arithmetic modulo UINT_MAX + 1: turns of the clock do not count, ...
LEMMA WrapTurns ==
    ASSUME NEW n \in Uint, NEW k \in Int
    PROVE  Wrap(n + k * (UMax + 1)) = n
<1>1. PICK q \in Nat : q = UMax + 1 /\ q > 0
  BY UMaxAssumption
<1>2. n \in Int /\ 0 <= n /\ n < q
  BY <1>1, UMaxAssumption DEF Uint
<1>3. PICK m \in Int : m = n + k * q
  BY <1>2
<1>4. m \div q \in Int /\ m % q \in Int /\ m = q * (m \div q) + (m % q) /\ 0 <= m % q /\ m % q < q
  <2>1. m \in Int /\ q \in Int /\ q > 0
    BY <1>1
  <2>2. m \div q \in Int /\ m % q \in Int
    BY <2>1, Remainder
  <2>3. m = q * (m \div q) + (m % q)
    BY <2>1, Remainder
  <2>4. 0 <= m % q /\ m % q < q
    BY <2>1, Remainder
  <2> QED BY <2>2, <2>3, <2>4
<1>41. PICK e \in Int : e = m \div q
  BY <1>4
<1>42. PICK r \in Int : r = m % q
  BY <1>4
<1>5. m = q * e + r /\ 0 <= r /\ r < q
  BY <1>4, <1>41, <1>42
<1>6. PICK t \in Int : t = e - k
  OBVIOUS
<1>7. q * t + r = n
  <2>1. q * t = q * e - k * q
    BY <1>6
  <2>2. PICK u, w \in Int : u = q * e /\ w = k * q
    OBVIOUS
  <2> QED BY <1>2, <1>3, <1>5, <2>1, <2>2
<1>8. t = 0
  <2>1. CASE t >= 1
    <3>1. q * t >= q
      BY <2>1
    <3> QED BY <1>2, <1>5, <1>7, <3>1
  <2>2. CASE t <= -1
    <3>1. q * t <= -q
      <4>1. q * (-t) >= q
        BY <2>2
      <4> QED BY <4>1
    <3> QED BY <1>2, <1>5, <1>7, <3>1
  <2> QED BY <2>1, <2>2
<1>9. r = n
  BY <1>7, <1>8
<1> QED BY <1>1, <1>3, <1>42, <1>9 DEF Wrap

\* ... and the conversion to int makes some.
LEMMA SignedTurns ==
    ASSUME NEW n \in Int
    PROVE  \E k \in Int : Signed(n) = n + k * (UMax + 1)
<1>1. PICK q \in Nat : q = UMax + 1 /\ q > 0
  BY UMaxAssumption
<1>2. PICK e \in Int : e = n \div q
  BY <1>1, Remainder
<1>3. Wrap(n) = n - q * e
  <2>1. n = q * (n \div q) + (n % q) /\ n % q \in Int
    BY <1>1, Remainder
  <2> QED BY <1>1, <1>2, <2>1 DEF Wrap
<1>4. Signed(n) = IF Wrap(n) > IMax THEN Wrap(n) - q ELSE Wrap(n)
  BY <1>1, UMaxAssumption DEF Signed, Wrap
<1>5. Signed(n) = n + (-e - 1) * q \/ Signed(n) = n + (-e) * q
  <2>1. q * e \in Int /\ (-e) * q = -(q * e) /\ (-e - 1) * q = -(q * e) - q
    OBVIOUS
  <2> QED BY <1>3, <1>4, <2>1
<1>6. -e \in Int /\ -e - 1 \in Int
  BY <1>2
<1> QED BY <1>1, <1>5, <1>6

\* What boundary_sub makes of two bounds: the carry from the directions, and turns.
Carry(d) == IF d = 2 THEN 1 ELSE IF d = -2 THEN -1 ELSE 0
SubIs(a, x, b, y, k) ==
    BoundarySub(a, x, b, y) = [val |-> a - b + Carry(x - y) + k * (UMax + 1), dir |-> x - y]

\* boundary_sub, with the turns that its conversions to int make.
LEMMA SubTurns ==
    ASSUME NEW a \in Int, NEW b \in Int, NEW x \in Int, NEW y \in Int
    PROVE  \E k \in Int : SubIs(a, x, b, y, k)
<1>1. PICK q \in Nat : q = UMax + 1
  BY UMaxAssumption
<1>2. PICK k1 \in Int : Signed(a) = a + k1 * q
  BY <1>1, SignedTurns
<1>3. PICK k2 \in Int : Signed(b) = b + k2 * q
  BY <1>1, SignedTurns
<1>4. PICK e \in Int : e = Carry(x - y)
  BY DEF Carry
<1>5. PICK m \in Int : m = Signed(a) - Signed(b) + e
  BY <1>2, <1>3
<1>6. PICK k3 \in Int : Signed(m) = m + k3 * q
  BY <1>1, SignedTurns
<1>7. BoundarySub(a, x, b, y) = [val |-> Signed(m), dir |-> x - y]
  BY <1>4, <1>5 DEF BoundarySub, Carry
<1>8. Signed(m) = a - b + e + (k1 - k2 + k3) * q
  <2>1. (k1 - k2 + k3) * q = k1 * q - k2 * q + k3 * q
    OBVIOUS
  <2>2. PICK u, w, z \in Int : u = k1 * q /\ w = k2 * q /\ z = k3 * q
    OBVIOUS
  <2> QED BY <1>2, <1>3, <1>5, <1>6, <2>1, <2>2
<1>9. k1 - k2 + k3 \in Int
  OBVIOUS
<1> QED BY <1>1, <1>4, <1>7, <1>8, <1>9 DEF SubIs

\* What boundary_lt compares first.
Key(x) == Wrap(IF x.dir < 0 THEN x.val - 1 ELSE x.val)

\* The distance n of two bounds, a with direction x and b with y, up to j turns.
Counts(a, x, b, y, n, j) ==
    a - b + (IF x - y = 2 THEN 1 ELSE IF x - y = -1 THEN -1 ELSE 0) = n + j * (UMax + 1)

\* boundary_lt compares the distances themselves, if they are in range.
LEMMA SubKey ==
    ASSUME NEW a \in Int, NEW b \in Int, NEW x \in Int, NEW y \in Int, x - y \in -1..2,
           NEW n \in Uint, NEW j \in Int, Counts(a, x, b, y, n, j)
    PROVE  Key(BoundarySub(a, x, b, y)) = n
<1>1. PICK q \in Nat : q = UMax + 1
  BY UMaxAssumption
<1>2. PICK z : z = BoundarySub(a, x, b, y)
  OBVIOUS
<1>3. PICK k \in Int : SubIs(a, x, b, y, k)
  BY SubTurns
<1>4. z = [val |-> a - b + Carry(x - y) + k * q, dir |-> x - y]
  BY <1>1, <1>2, <1>3 DEF SubIs
<1>5. z.dir = x - y /\ z.val = a - b + Carry(x - y) + k * q
  BY <1>4
<1>6. PICK t \in Int, w \in Int : t = k * q /\ w = j * q
  OBVIOUS
<1>7. (IF z.dir < 0 THEN z.val - 1 ELSE z.val) = n + w + t
  BY <1>1, <1>5, <1>6 DEF Uint, Carry, Counts
<1>8. Wrap(n + (j + k) * q) = n
  BY <1>1, WrapTurns
<1>9. n + (j + k) * q = n + w + t
  BY <1>6 DEF Uint
<1> QED BY <1>2, <1>7, <1>8, <1>9 DEF Key

\* boundary_nearer takes the upper bound of the values below the target (max) only if it
\* is at least as near as the lower bound (min) of those above, and leaves it only if it
\* is no nearer than that by more than half a step.
NearerMeans(hi, hd, best, dir, lo, ld) ==
    IF BoundaryNearer([val |-> hi, dir |-> hd], [val |-> best, dir |-> dir], [val |-> lo, dir |-> ld])
    THEN (2 * best + dir) - (2 * hi + hd) <= (2 * lo + ld) - (2 * best + dir)
    ELSE (2 * lo + ld) - (2 * best + dir) <= (2 * best + dir) - (2 * hi + hd) + 1

\* boundary_nearer, for bounds on either side of the target.
LEMMA NearerIs ==
    ASSUME NEW best \in Int, NEW dir \in {-1, 0, 1}, NEW hi \in Int, NEW hd \in {-1, 0},
           NEW lo \in Int, NEW ld \in {0, 1},
           best \in Uint, hi \in Uint, lo \in Uint,
           hd = -1 => hi > 0, ld = 1 => lo < UMax,
           2 * hi + hd <= 2 * best + dir, 2 * best + dir <= 2 * lo + ld
    PROVE  NearerMeans(hi, hd, best, dir, lo, ld)
<1>0. UMax \in Nat /\ dir \in Int /\ hd \in Int /\ ld \in Int
  BY UMaxAssumption
<1>1. PICK x, y : x = BoundarySub(best, dir, hi, hd) /\ y = BoundarySub(lo, ld, best, dir)
  OBVIOUS
<1>2. dir - hd \in -1..2 /\ ld - dir \in -1..2
  OBVIOUS
<1>3. PICK n \in Int : n = best - hi + (IF dir - hd = 2 THEN 1 ELSE IF dir - hd = -1 THEN -1 ELSE 0)
  OBVIOUS
<1>4. PICK k \in Int : k = lo - best + (IF ld - dir = 2 THEN 1 ELSE IF ld - dir = -1 THEN -1 ELSE 0)
  OBVIOUS
<1>5. n >= 0 /\ k >= 0
  BY <1>0, <1>3, <1>4
<1>6. CASE n <= UMax /\ k <= UMax
  <2>1. n \in Uint /\ k \in Uint
    BY <1>0, <1>5, <1>6 DEF Uint
  <2>0. 0 * (UMax + 1) = 0
    BY <1>0
  <2>2. Key(x) = n
    <3>1. Counts(best, dir, hi, hd, n, 0)
      BY <1>3, <2>0 DEF Counts
    <3> QED BY <1>0, <1>1, <1>2, <2>1, <3>1, SubKey
  <2>3. Key(y) = k
    <3>1. Counts(lo, ld, best, dir, k, 0)
      BY <1>4, <2>0 DEF Counts
    <3> QED BY <1>0, <1>1, <1>2, <2>1, <3>1, SubKey
  <2>4. x.dir = dir - hd /\ y.dir = ld - dir
    BY <1>1 DEF BoundarySub
  <2>5. BoundaryLt(x, y) <=> n < k \/ (n = k /\ dir - hd = 0 /\ ld - dir # 0)
    BY <2>2, <2>3, <2>4 DEF BoundaryLt, Key
  <2>6. BoundaryNearer([val |-> hi, dir |-> hd], [val |-> best, dir |-> dir], [val |-> lo, dir |-> ld])
          <=> BoundaryLt(x, y)
    BY <1>1 DEF BoundaryNearer
  <2>7. PICK lt \in BOOLEAN : lt <=> (n < k \/ (n = k /\ dir - hd = 0 /\ ld - dir # 0))
    OBVIOUS
  <2>8. IF lt THEN (2 * best + dir) - (2 * hi + hd) <= (2 * lo + ld) - (2 * best + dir)
        ELSE (2 * lo + ld) - (2 * best + dir) <= (2 * best + dir) - (2 * hi + hd) + 1
    <3>1. CASE dir = -1
      BY <1>3, <1>4, <2>7, <3>1
    <3>2. CASE dir = 0
      BY <1>3, <1>4, <2>7, <3>2
    <3>3. CASE dir = 1
      BY <1>3, <1>4, <2>7, <3>3
    <3> QED BY <3>1, <3>2, <3>3
  <2>9. BoundaryNearer([val |-> hi, dir |-> hd], [val |-> best, dir |-> dir], [val |-> lo, dir |-> ld]) <=> lt
    BY <2>5, <2>6, <2>7
  <2> QED BY <2>8, <2>9 DEF NearerMeans
<1>7. n <= UMax /\ k <= UMax
  BY <1>0, <1>3, <1>4 DEF Uint
<1> QED BY <1>6, <1>7

\* If the target is 0 or just below, the upper bound below it wraps around: the search
\* then takes the upper bound of what is left only if that is 0, and so is the target.
LEMMA BelowZero ==
    ASSUME NEW dir \in {-1, 0}, NEW hi \in Uint, NEW hd \in {-1, 0}, NEW lo \in Uint, NEW ld \in {0, 1},
           hd = -1 => hi > 0, 2 * hi + hd < 2 * IMax, lo < IMax,
           BoundaryNearer([val |-> hi, dir |-> hd], [val |-> 0, dir |-> dir], [val |-> lo, dir |-> ld])
    PROVE  hi = 0 /\ hd = 0 /\ dir = 0
<1>0. /\ UMax \in Nat /\ UMax > 1 /\ dir \in Int /\ hd \in Int /\ ld \in Int
      /\ hi \in Int /\ hi >= 0 /\ lo \in Int /\ lo >= 0
  BY UMaxAssumption, HwParamsConstants DEF Uint
<1>1. PICK h \in Nat : h = IMax /\ 2 * h <= UMax /\ h < UMax
  BY <1>0 DEF IMax
<1>2. PICK x, y : x = BoundarySub(0, dir, hi, hd) /\ y = BoundarySub(lo, ld, 0, dir)
  OBVIOUS
<1>3. BoundaryLt(x, y)
  BY <1>2 DEF BoundaryNearer
<1>4. PICK k \in Int : k = lo - 0 + (IF ld - dir = 2 THEN 1 ELSE IF ld - dir = -1 THEN -1 ELSE 0)
  BY <1>0
<1>5. k \in Uint /\ k <= h
  BY <1>0, <1>1, <1>4 DEF Uint
<1>6. 0 * (UMax + 1) = 0 /\ (-1) * (UMax + 1) = -UMax - 1
  BY <1>0
<1>7. Key(y) = k
  <2>1. Counts(lo, ld, 0, dir, k, 0)
    BY <1>4, <1>6 DEF Counts
  <2>2. ld - dir \in -1..2 /\ 0 \in Int
    BY <1>0
  <2> QED BY <1>0, <1>2, <1>5, <2>1, <2>2, SubKey
<1>8. Key(x) < k \/ (Key(x) = k /\ x.dir = 0)
  BY <1>3, <1>7 DEF BoundaryLt, Key
<1>9. dir - hd \in -1..2
  BY <1>0
<1>10. ASSUME NEW n \in Uint, n > k,
              Counts(0, dir, hi, hd, n, -1)
       PROVE  FALSE
  <2>1. Key(x) = n
    <3>1. 0 \in Int /\ -1 \in Int
      OBVIOUS
    <3> QED BY <1>0, <1>2, <1>9, <1>10, <3>1, SubKey
  <2>2. n \in Int
    BY <1>0 DEF Uint
  <2> QED BY <1>8, <1>10, <2>1, <2>2
<1>11. hi = 0
  <2> SUFFICES ASSUME hi > 0 PROVE FALSE
    BY <1>0
  <2>1. PICK n \in Int : n = UMax + 1 - hi + (IF dir - hd = 2 THEN 1 ELSE IF dir - hd = -1 THEN -1 ELSE 0)
    BY <1>0
  <2>2. n \in Uint /\ n > k
    BY <1>0, <1>1, <1>5, <2>1 DEF Uint
  <2>3. Counts(0, dir, hi, hd, n, -1)
    BY <1>0, <1>6, <2>1 DEF Counts
  <2> QED BY <1>10, <2>2, <2>3
<1>12. hd = 0
  BY <1>11
<1>13. dir = 0
  <2> SUFFICES ASSUME dir = -1 PROVE FALSE
    OBVIOUS
  <2>1. UMax \in Uint /\ UMax > k
    BY <1>0, <1>1, <1>5 DEF Uint
  <2>2. Counts(0, dir, hi, hd, UMax, -1)
    BY <1>0, <1>6, <1>11, <1>12 DEF Counts
  <2> QED BY <1>10, <2>1, <2>2
<1> QED BY <1>11, <1>12, <1>13

\* hw_param_update_var returns a space, a set of changed parameters and a result.
LEMMA UpdateState ==
    ASSUME NEW s, NEW r, NEW v, NEW res
    PROVE  \E a, b, c : UpdateVar(s, r, v, res) = State(a, b, c)
<1>1. PICK t : t = With(s, v, res.i)
  OBVIOUS
<1>2. PICK r1 : r1 = IF res.ret = 1 THEN r \cup {v} ELSE r
  OBVIOUS
<1>3. PICK k : k = HwRefine(t, r1)
  OBVIOUS
<1>4. \E a, b, c : k = State(a, b, c)
  BY <1>3 DEF HwRefine
<1>5. PICK u : u = UpdateVar(s, r, v, res)
  OBVIOUS
<1>6. u = IF res.ret < 0 THEN State(t, r, res.ret)
          ELSE IF r1 = {} THEN State(t, r1, 0)
          ELSE IF k.ret < 0 THEN k
          ELSE IF IsEmpty(k.s, v) THEN State(k.s, k.r, ENOENT)
          ELSE k
  BY <1>1, <1>2, <1>3, <1>5 DEF UpdateVar, With
<1>7. \E a, b, c : u = State(a, b, c)
  BY <1>4, <1>6
<1> QED BY <1>5, <1>7

\* A call that settles a parameter and succeeds leaves only values that it settled on.
LEMMA SettledOn ==
    ASSUME NEW s, Sound(s), NEW r, NEW v \in Vars, NEW res, Settles(res, s[v], v),
           NEW g, g = Got(UpdateVar(s, r, v, res), v), g.ret = 0
    PROVE  \A d \in Space(g.s) : d[v] \in In(res.i, v)
<1>1. Shape(s)
  BY GoodShape DEF Sound
<1>2. PICK t : t = With(s, v, res.i)
  OBVIOUS
<1>3. PICK u : u = UpdateVar(s, r, v, res)
  OBVIOUS
<1>4. PICK a, b, c : u = State(a, b, c)
  BY <1>3, UpdateState
<1>5. u = [s |-> a, r |-> b, ret |-> c]
  BY <1>4 DEF State
<1>6. g = u /\ u.ret = 0
  <2>1. CASE u.ret = 0 /\ ~Single(u.s[v], v)
    <3>1. g = [u EXCEPT !.ret = EINVAL]
      BY <1>3, <2>1 DEF Got
    <3>2. g.ret = EINVAL
      BY <1>5, <3>1
    <3> QED BY <3>2 DEF EINVAL
  <2>2. CASE ~(u.ret = 0 /\ ~Single(u.s[v], v))
    BY <1>3, <2>2 DEF Got
  <2> QED BY <2>1, <2>2
<1>7. /\ res.ret \in {EINVAL, ENOENT, 0, 1} /\ ShapeV(res.i, v)
  BY DEF Settles, GoodV, ShapeV, GoodI
<1>8. Ends(u, s, r, t, res)
  BY <1>1, <1>2, <1>3, <1>7, UpdateEnds
<1>9. Space(t) = Rest(s, v, res.i)
  BY <1>1, <1>2, Replaced
<1>10. \A d \in Space(t) : d[v] \in In(res.i, v)
  BY <1>9 DEF Rest
<1>11. Space(u.s) = Space(t)
  <2>1. CASE res.ret < 0 /\ u = State(t, r, res.ret)
    BY <1>6, <2>1 DEF State
  <2>2. CASE res.ret = 0 /\ u = State(t, {}, 0)
    BY <2>2 DEF State
  <2>3. CASE res.ret >= 0 /\ Space(t) = {} /\ u.s = t /\ u.ret = EINVAL
    BY <2>3
  <2>4. CASE res.ret >= 0 /\ Space(t) # {} /\ Answered(t, u)
    BY <2>4 DEF Answered
  <2> QED BY <1>8, <2>1, <2>2, <2>3, <2>4 DEF Ends
<1> QED BY <1>6, <1>10, <1>11

\* All values of a parameter in a space lie in places.
Within(t, v, places) == \A d \in Space(t) : Place(d[v]) \in places

\* What _snd_pcm_hw_param_set_first leaves is the lowest value ...
LEMMA FirstFinds ==
    ASSUME NEW s, Sound(s), Space(s) # {}, NEW r, NEW v \in IVars, ~IsSingle(s[v])
    PROVE  Within(ParamSetFirst(s, r, v).s, v, {Lo(s[v])})
<1>1. v \in Vars /\ v \notin MVars /\ GoodI(s[v])
  BY IVar DEF Sound, Good, GoodV
<1>2. PICK res : res = RefineFirst(s[v])
  OBVIOUS
<1>3. PICK g : g = ParamSetFirst(s, r, v)
  OBVIOUS
<1>4. g = Got(UpdateVar(s, r, v, res), v)
  BY <1>1, <1>2, <1>3 DEF ParamSetFirst, hw_param_set_first
<1>5. Settles(res, s[v], v)
  BY <1>1, <1>2, FirstGood
<1>6. g.ret = 0
  BY <1>1, <1>3, FirstIs DEF Fixed
<1>7. \A d \in Space(g.s) : d[v] \in In(res.i, v)
  BY <1>1, <1>4, <1>5, <1>6, SettledOn
<1>8. \A d \in Space(g.s) : d[v] \in Points(res.i)
  BY <1>1, <1>7 DEF In
<1>9. \A d \in Space(g.s) : Place(d[v]) = Lo(s[v])
  BY <1>1, <1>2, <1>8, FirstPlace
<1> QED BY <1>3, <1>9 DEF Within

\* ... and _snd_pcm_hw_param_set_last the highest, and perhaps the one before it.
LEMMA LastFinds ==
    ASSUME NEW s, Sound(s), Space(s) # {}, NEW r, NEW v \in IVars
    PROVE  Within(ParamSetLast(s, r, v).s, v, {Hi(s[v]) - 1, Hi(s[v])})
<1>1. v \in Vars /\ v \notin MVars /\ GoodI(s[v])
  BY IVar DEF Sound, Good, GoodV
<1>2. PICK res : res = RefineLast(s[v])
  OBVIOUS
<1>3. PICK g : g = ParamSetLast(s, r, v)
  OBVIOUS
<1>4. g = Got(UpdateVar(s, r, v, res), v)
  BY <1>1, <1>2, <1>3 DEF ParamSetLast, hw_param_set_last
<1>5. Settles(res, s[v], v)
  BY <1>1, <1>2, LastGood
<1>6. g.ret = 0
  BY <1>1, <1>3, LastIs DEF Fixed
<1>7. \A d \in Space(g.s) : d[v] \in In(res.i, v)
  BY <1>1, <1>4, <1>5, <1>6, SettledOn
<1>8. \A d \in Space(g.s) : d[v] \in Points(res.i)
  BY <1>1, <1>7 DEF In
<1>9. PICK e \in Space(s) : e[v] \in Points(s[v]) /\ Place(e[v]) = Hi(s[v])
  <2>1. Edged(s, v)
    BY EdgesAre
  <2> QED BY <2>1 DEF Edged
<1>10. \A d \in Space(g.s) : Place(d[v]) \in {Hi(s[v]) - 1, Hi(s[v])}
  BY <1>1, <1>2, <1>8, <1>9, LastPlace
<1> QED BY <1>3, <1>10 DEF Within

\* The value that a search returns, in half steps.
Returned(n) == 2 * n.out.val + n.out.dir

\* The answer of a search: the parameter is settled on the value that is returned.
Answer(n, v) ==
    /\ n.st.ret = 0 /\ Space(n.st.s) # {}
    /\ Within(n.st.s, v, {Returned(n), Returned(n) + 1})
    /\ \E d \in Space(n.st.s) : Place(d[v]) = Returned(n)

\* What _snd_pcm_hw_param_get reports of a settled parameter is its answer.
LEMMA ReportedIs ==
    ASSUME NEW u, u.ret = 0, Sound(u.s), Space(u.s) # {}, NEW v \in IVars, Single(u.s[v], v)
    PROVE  Answer(Reported(u, v), v)
<1>1. PICK t : t = u.s
  OBVIOUS
<1>2. PICK n : n = Reported(u, v)
  OBVIOUS
<1>3. v \in Vars /\ v \notin MVars /\ GoodI(t[v]) /\ IsSingle(t[v])
  BY <1>1, IVar DEF Sound, Good, GoodV, Single
<1>4. n.st = u /\ n.out = [val |-> t[v].min, dir |-> Flag(t[v].openmin)]
  BY <1>1, <1>2, <1>3 DEF Reported, GetMin
<1>5. Returned(n) = Lo(t[v])
  BY <1>4 DEF Returned, Lo
<1>6. Edged(t, v)
  BY <1>1, EdgesAre
<1>7. \A d \in Space(t) : d[v] \in Points(t[v])
  BY <1>6 DEF Edged
<1>8. \A d \in Space(t) : Place(d[v]) \in {Lo(t[v]), Lo(t[v]) + 1}
  BY <1>3, <1>7, SinglePlaces
<1>9. \E d \in Space(t) : Place(d[v]) = Lo(t[v])
  BY <1>6 DEF Edged
<1> QED BY <1>1, <1>2, <1>4, <1>5, <1>8, <1>9 DEF Answer, Within

\* What is left of a space at or above a target, or at or below it; a call that finds
\* nothing there leaves the space as it was.
CutFrom(u, s, v, target) ==
    IF u.ret = 0 THEN Space(u.s) = {d \in Space(s) : Place(d[v]) >= target}
    ELSE u.ret < 0 /\ u.s = s /\ \A d \in Space(s) : Place(d[v]) < target

CutUpTo(u, s, v, target) ==
    IF u.ret = 0 THEN Space(u.s) = {d \in Space(s) : Place(d[v]) <= target}
    ELSE u.ret < 0 /\ u.s = s /\ \A d \in Space(s) : Place(d[v]) > target

\* The values that the device supports have places.
LEMMA Placed ==
    ASSUME NEW s, NEW d \in Space(s), NEW v \in IVars
    PROVE  d \in Device /\ d[v] \in Positions /\ Place(d[v]) \in Nat
<1>1. d \in Device /\ d[v] \in Positions
  BY HwParamsConstants DEF Space
<1> QED BY <1>1, UMaxAssumption DEF Positions, Place, Flag, Uint

\* snd_pcm_hw_param_set_min cuts the space at the target from below ...
LEMMA CutsFrom ==
    ASSUME NEW s, Space(s) # {}, NEW u, NEW v \in IVars, NEW target \in Int,
           Kept(u, s), Narrowed(u, s, v, From(target))
    PROVE  CutFrom(u, s, v, target)
<1>1. \A d \in Space(s) : d[v] \in From(target) <=> Place(d[v]) >= target
  BY Placed DEF From, Place
<1>2. Wanted(s, v, From(target)) = {d \in Space(s) : Place(d[v]) >= target}
  BY <1>1 DEF Wanted
<1>3. /\ u.ret = 0 => Space(u.s) = Wanted(s, v, From(target))
      /\ u.ret = 0 <=> Wanted(s, v, From(target)) # {}
  BY DEF Narrowed
<1>4. u.ret = 0 \/ (u.ret # 0 /\ u.ret < 0 /\ u.s = s)
  BY DEF Kept, EINVAL, ENOENT
<1>5. ASSUME u.ret # 0, NEW d \in Space(s) PROVE Place(d[v]) < target
  <2>1. ~(Place(d[v]) >= target)
    BY <1>2, <1>3, <1>5
  <2>2. Place(d[v]) \in Nat
    BY Placed
  <2> QED BY <2>1, <2>2
<1> QED BY <1>2, <1>3, <1>4, <1>5 DEF CutFrom

\* ... and snd_pcm_hw_param_set_max from above.
LEMMA CutsUpTo ==
    ASSUME NEW s, Space(s) # {}, NEW u, NEW v \in IVars, NEW target \in Int,
           Kept(u, s), Narrowed(u, s, v, UpTo(target))
    PROVE  CutUpTo(u, s, v, target)
<1>1. \A d \in Space(s) : d[v] \in UpTo(target) <=> Place(d[v]) <= target
  BY Placed DEF UpTo, Place
<1>2. Wanted(s, v, UpTo(target)) = {d \in Space(s) : Place(d[v]) <= target}
  BY <1>1 DEF Wanted
<1>3. /\ u.ret = 0 => Space(u.s) = Wanted(s, v, UpTo(target))
      /\ u.ret = 0 <=> Wanted(s, v, UpTo(target)) # {}
  BY DEF Narrowed
<1>4. u.ret = 0 \/ (u.ret # 0 /\ u.ret < 0 /\ u.s = s)
  BY DEF Kept, EINVAL, ENOENT
<1>5. ASSUME u.ret # 0, NEW d \in Space(s) PROVE Place(d[v]) > target
  <2>1. ~(Place(d[v]) <= target)
    BY <1>2, <1>3, <1>5
  <2>2. Place(d[v]) \in Nat
    BY Placed
  <2> QED BY <2>1, <2>2
<1> QED BY <1>2, <1>3, <1>4, <1>5 DEF CutUpTo

\* How far two places are apart.
Far(x, y) == IF y < x THEN x - y ELSE y - x

\* A search returned no value that is farther from the target than another one of the
\* space by more than half a step.
Nearest(n, s, v, target) ==
    \A d \in Space(s) : Far(target, Returned(n)) <= Far(target, Place(d[v])) + 1

\* The values at or above the target are all on one integer or just above it.
Crowded(s, v, target) ==
    /\ \E d \in Space(s) : Place(d[v]) >= target
    /\ \E n \in Uint : \A d \in Space(s) :
           Place(d[v]) >= target => Place(d[v]) \in {2 * n, 2 * n + 1}

\* The first return of _snd_pcm_hw_param_set_near: the values at or above the target,
\* or all if there are none, are those of a single interval.
LEMMA NearSingle ==
    ASSUME NEW s, Sound(s), Space(s) # {}, NEW v \in IVars, NEW target \in Int,
           NEW a, Kept(a, s), CutFrom(a, s, v, target), Single(a.s[v], v),
           NEW n, n = Reported(State(a.s, a.r, 0), v)
    PROVE  Answer(n, v) /\ (Crowded(s, v, target) \/ Nearest(n, s, v, target))
<1>1. PICK t : t = a.s
  OBVIOUS
<1>2. Sound(t) /\ Space(t) # {}
  BY <1>1 DEF Kept
<1>3. PICK u : u = State(a.s, a.r, 0)
  OBVIOUS
<1>4. u.ret = 0 /\ u.s = t
  BY <1>1, <1>3 DEF State
<1>5. Answer(n, v)
  BY <1>1, <1>2, <1>3, <1>4, ReportedIs
<1>6. v \in Vars /\ v \notin MVars /\ GoodI(t[v]) /\ IsSingle(t[v])
  BY <1>1, <1>2, IVar DEF Sound, Good, GoodV, Single
<1>7. \A d \in Space(t) : Place(d[v]) \in {2 * t[v].min, 2 * t[v].min + 1}
  <2>1. Edged(t, v)
    BY <1>2, EdgesAre
  <2>2. \A d \in Space(t) : d[v] \in Points(t[v])
    BY <2>1 DEF Edged
  <2> QED BY <1>6, <2>2, SinglePlaces
<1>8. CASE a.ret = 0
  <2>1. Space(t) = {d \in Space(s) : Place(d[v]) >= target}
    BY <1>1, <1>8 DEF CutFrom
  <2>2. t[v].min \in Uint
    BY <1>6 DEF GoodI, Intervals
  <2>3. \A d \in Space(s) : Place(d[v]) >= target => Place(d[v]) \in {2 * t[v].min, 2 * t[v].min + 1}
    BY <1>7, <2>1
  <2>4. \E d \in Space(s) : Place(d[v]) >= target
    BY <1>2, <2>1
  <2>5. Crowded(s, v, target)
    BY <2>2, <2>3, <2>4 DEF Crowded
  <2> QED BY <1>5, <2>5
<1>9. CASE a.ret # 0
  <2>1. t = s /\ \A d \in Space(s) : Place(d[v]) < target
    BY <1>1, <1>9 DEF CutFrom
  <2>2. PICK g \in Int : g = Returned(n) /\ g < target
    <3>1. n.st = u
      BY <1>3 DEF Reported
    <3>2. PICK d \in Space(t) : Place(d[v]) = Returned(n)
      BY <1>4, <1>5, <3>1 DEF Answer
    <3>3. Place(d[v]) \in Nat
      BY Placed
    <3> QED BY <2>1, <3>2, <3>3
  <2>3. ASSUME NEW d \in Space(s) PROVE Far(target, g) <= Far(target, Place(d[v])) + 1
    <3>1. n.st = u
      BY <1>3 DEF Reported
    <3>2. Place(d[v]) \in {g, g + 1}
      BY <1>4, <1>5, <2>1, <2>2, <3>1 DEF Answer, Within
    <3>3. Place(d[v]) < target
      BY <2>1
    <3> QED BY <2>2, <3>2, <3>3 DEF Far
  <2> QED BY <1>5, <2>2, <2>3 DEF Nearest
<1> QED BY <1>8, <1>9

\* The value returned is one of those that are left.
LEMMA AnswerIn ==
    ASSUME NEW n, NEW v, Answer(n, v), NEW places, Within(n.st.s, v, places)
    PROVE  Returned(n) \in places
<1>1. PICK d \in Space(n.st.s) : Place(d[v]) = Returned(n)
  BY DEF Answer
<1> QED BY <1>1 DEF Within

\* The lowest value at or above the target is returned, and none below is nearer.
LEMMA NearFirst ==
    ASSUME NEW s, Sound(s), Space(s) # {}, NEW v \in IVars, NEW target \in Int,
           NEW a, Kept(a, s), CutFrom(a, s, v, target), a.ret = 0, ~Single(a.s[v], v),
           NEW n, n = Reported(ParamSetFirst(a.s, a.r, v), v),
           NEW m \in Int, m = Lo(a.s[v]),
           \A d \in Space(s) : Place(d[v]) < target => m - target <= target - Place(d[v]) + 1
    PROVE  Answer(n, v) /\ Nearest(n, s, v, target)
<1>1. PICK t : t = a.s
  OBVIOUS
<1>2. Sound(t) /\ Space(t) # {} /\ Space(t) = {d \in Space(s) : Place(d[v]) >= target}
  BY <1>1 DEF Kept, CutFrom
<1>3. v \in Vars /\ v \notin MVars /\ Edged(t, v)
  BY <1>2, IVar, EdgesAre
<1>4. ~IsSingle(t[v])
  <2>1. \E d \in Space(t) : d[v] \in Points(t[v])
    BY <1>2, <1>3 DEF Edged
  <2>2. ~t[v].empty
    BY <2>1 DEF Points
  <2> QED BY <1>1, <1>3, <2>2 DEF Single
<1>5. PICK u : u = ParamSetFirst(t, a.r, v)
  OBVIOUS
<1>6. u.ret = 0 /\ Sound(u.s) /\ Space(u.s) # {} /\ Single(u.s[v], v)
  BY <1>2, <1>3, <1>5, FirstIs DEF Fixed, Lessened
<1>7. Answer(n, v) /\ n.st = u
  BY <1>1, <1>5, <1>6, ReportedIs DEF Reported
<1>8. Within(u.s, v, {m})
  BY <1>1, <1>2, <1>4, <1>5, FirstFinds
<1>9. Returned(n) = m
  BY <1>7, <1>8, AnswerIn
<1>10. m >= target
  <2>1. \E d \in Space(t) : Place(d[v]) = m
    BY <1>1, <1>3 DEF Edged
  <2> QED BY <1>2, <2>1
<1>11. ASSUME NEW d \in Space(s) PROVE Far(target, m) <= Far(target, Place(d[v])) + 1
  <2>1. PICK x \in Int : x = Place(d[v])
    BY Placed
  <2>2. x >= target => m <= x
    BY <1>1, <1>2, <1>3, <2>1 DEF Edged
  <2>3. x < target => m - target <= target - x + 1
    BY <2>1
  <2> QED BY <1>10, <2>1, <2>2, <2>3 DEF Far
<1> QED BY <1>7, <1>9, <1>11 DEF Nearest

\* The highest value that is left below the target is returned, and none is nearer.
LEMMA NearLast ==
    ASSUME NEW s, Space(s) # {}, NEW v \in IVars, NEW target \in Int,
           NEW b, Kept(b, s),
           NEW n, n = Reported(ParamSetLast(b.s, b.r, v), v),
           NEW h \in Int, h = Hi(b.s[v]), h <= target,
           \A d \in Space(s) : target - h <= Far(target, Place(d[v]))
    PROVE  Answer(n, v) /\ Nearest(n, s, v, target)
<1>1. PICK t : t = b.s
  OBVIOUS
<1>2. Sound(t) /\ Space(t) # {} /\ v \in Vars
  BY <1>1, IVar DEF Kept
<1>3. PICK u : u = ParamSetLast(t, b.r, v)
  OBVIOUS
<1>4. u.ret = 0 /\ Sound(u.s) /\ Space(u.s) # {} /\ Single(u.s[v], v)
  BY <1>2, <1>3, LastIs DEF Fixed, Lessened
<1>5. Answer(n, v) /\ n.st = u
  BY <1>1, <1>3, <1>4, ReportedIs DEF Reported
<1>6. Within(u.s, v, {h - 1, h})
  BY <1>1, <1>2, <1>3, LastFinds
<1>7. Returned(n) \in {h - 1, h}
  BY <1>5, <1>6, AnswerIn
<1>8. ASSUME NEW d \in Space(s) PROVE Far(target, Returned(n)) <= Far(target, Place(d[v])) + 1
  <2>1. PICK x \in Int : x = Place(d[v])
    BY Placed
  <2>2. Far(target, x) \in Int /\ target - h <= Far(target, x)
    BY <2>1 DEF Far
  <2>3. Far(target, Returned(n)) <= target - h + 1
    BY <1>7 DEF Far
  <2>4. Far(target, Returned(n)) \in Int
    BY <1>7 DEF Far
  <2> QED BY <2>1, <2>2, <2>3, <2>4
<1> QED BY <1>5, <1>8 DEF Nearest

\* The bounds that _snd_pcm_hw_param_get_min and _get_max report, as numbers.
LowIs(s, v, lo, ld) ==
    GetMin(s[v], v) = [val |-> lo, dir |-> ld] /\ Lo(s[v]) = 2 * lo + ld /\ (ld = 1 => lo < UMax)

HighIs(s, v, hi, hd) ==
    GetMax(s[v], v) = [val |-> hi, dir |-> hd] /\ Hi(s[v]) = 2 * hi + hd /\ (hd = -1 => hi > 0)

\* They are unsigned, and an open bound is not at the end of the range.
LEMMA BoundsAre ==
    ASSUME NEW s, Sound(s), NEW v \in IVars
    PROVE  /\ \E lo \in Uint, ld \in {0, 1} : LowIs(s, v, lo, ld)
           /\ \E hi \in Uint, hd \in {-1, 0} : HighIs(s, v, hi, hd)
<1>1. PICK i : i = s[v]
  OBVIOUS
<1>2. v \notin MVars /\ i \in Intervals /\ NoWrap(i)
  BY <1>1, IVar DEF Sound, Good, GoodV, GoodI
<1>3. /\ i.min \in Uint /\ i.max \in Uint /\ i.min \in Int /\ i.max \in Int /\ i.openmin \in BOOLEAN /\ i.openmax \in BOOLEAN
  BY <1>2, UMaxAssumption DEF Intervals, Uint
<1>4. PICK ld \in {0, 1} : ld = Flag(i.openmin)
  BY DEF Flag
<1>5. PICK hd \in {-1, 0} : hd = IF i.openmax THEN -1 ELSE 0
  OBVIOUS
<1>6. GetMin(i, v) = [val |-> i.min, dir |-> ld] /\ Lo(i) = 2 * i.min + ld /\ (ld = 1 => i.min < UMax)
  BY <1>2, <1>4 DEF GetMin, Lo, NoWrap, Flag
<1>7. GetMax(i, v) = [val |-> i.max, dir |-> hd] /\ Hi(i) = 2 * i.max + hd /\ (hd = -1 => i.max > 0)
  <2>1. GetMax(i, v) = [val |-> i.max, dir |-> hd]
    <3>1. hd = -Flag(i.openmax)
      BY <1>3, <1>5 DEF Flag
    <3> QED BY <1>2, <3>1 DEF GetMax
  <2>2. Hi(i) = 2 * i.max + hd /\ (hd = -1 => i.max > 0)
    BY <1>2, <1>3, <1>5 DEF Hi, NoWrap, Flag
  <2> QED BY <2>1, <2>2
<1> QED BY <1>1, <1>3, <1>6, <1>7 DEF LowIs, HighIs

\* A search has settled the parameter on a value, near enough unless there was no choice.
Found(n, s, v, target) == Answer(n, v) /\ (Crowded(s, v, target) \/ Nearest(n, s, v, target))

\* The choice between the two bounds, when the upper bound has cut the space right below
\* the target (proper), or else wrapped around a target of 0.
Chooses(n, a, b, v, best) ==
    LET min == GetMin(a.s[v], v)
        max == GetMax(b.s[v], v)
    IN  n = IF min # best /\ b.ret = 0 /\ BoundaryNearer(max, best, min)
            THEN Reported(ParamSetLast(b.s, b.r, v), v)
            ELSE Reported(ParamSetFirst(a.s, a.r, v), v)

\* The two halves that the target cuts a space into: the values at or above it ...
Higher(a, s, v, target) ==
    Kept(a, s) /\ CutFrom(a, s, v, target) /\ a.ret = 0 /\ ~Single(a.s[v], v)

\* ... and those below it, which may be at the target if dir is negative.
Lower(b, s, v, best, dir, target) ==
    /\ Kept(b, s)
    /\ ~(best = 0 /\ dir <= 0) => \E cut \in {target - 1, target} : CutUpTo(b, s, v, cut)

\* Either way the value taken is near enough.
LEMMA NearChoice ==
    ASSUME NEW s, Sound(s), Space(s) # {}, SmallValues, NEW v \in IVars,
           NEW best \in Uint, NEW dir \in {-1, 0, 1}, NEW target \in Int, target = 2 * best + dir,
           NEW a, Higher(a, s, v, target), NEW b, Lower(b, s, v, best, dir, target),
           NEW n, Chooses(n, a, b, v, [val |-> best, dir |-> dir])
    PROVE  Answer(n, v) /\ Nearest(n, s, v, target)
<1>0. /\ best \in Int /\ best >= 0 /\ dir \in Int /\ UMax \in Nat
      /\ Sound(a.s) /\ Space(a.s) # {} /\ Sound(b.s) /\ Space(b.s) # {}
  BY UMaxAssumption DEF Uint, Kept, Higher, Lower
<1>0a. Kept(a, s) /\ CutFrom(a, s, v, target) /\ a.ret = 0 /\ ~Single(a.s[v], v) /\ Kept(b, s)
  BY DEF Higher, Lower
<1>1. PICK lo \in Uint, ld \in {0, 1} : LowIs(a.s, v, lo, ld)
  BY <1>0, BoundsAre
<1>2. PICK hi \in Uint, hd \in {-1, 0} : HighIs(b.s, v, hi, hd)
  BY <1>0, BoundsAre
<1>3. lo \in Int /\ hi \in Int /\ ld \in Int /\ hd \in Int /\ lo >= 0 /\ hi >= 0
  BY <1>0 DEF Uint
<1>4. PICK m \in Int : m = 2 * lo + ld /\ m = Lo(a.s[v])
  BY <1>1, <1>3 DEF LowIs
<1>5. PICK h \in Int : h = 2 * hi + hd /\ h = Hi(b.s[v])
  BY <1>2, <1>3 DEF HighIs
<1>6. PICK e \in Space(a.s) : Place(e[v]) = m
  <2>1. Edged(a.s, v)
    BY <1>0, EdgesAre
  <2> QED BY <1>4, <2>1 DEF Edged
<1>7. PICK f \in Space(b.s) : Place(f[v]) = h
  <2>1. Edged(b.s, v)
    BY <1>0, EdgesAre
  <2> QED BY <1>5, <2>1 DEF Edged
<1>8. Space(a.s) = {d \in Space(s) : Place(d[v]) >= target} /\ m >= target
  BY <1>0a, <1>6 DEF CutFrom
<1>9. PICK first : first = Reported(ParamSetFirst(a.s, a.r, v), v)
  OBVIOUS
<1>10. PICK last : last = Reported(ParamSetLast(b.s, b.r, v), v)
  OBVIOUS
<1>11. ASSUME \A d \in Space(s) : Place(d[v]) < target => m - target <= target - Place(d[v]) + 1
       PROVE  Answer(first, v) /\ Nearest(first, s, v, target)
  BY <1>0, <1>0a, <1>4, <1>9, <1>11, NearFirst
<1>12. ASSUME h <= target, \A d \in Space(s) : target - h <= Far(target, Place(d[v]))
       PROVE  Answer(last, v) /\ Nearest(last, s, v, target)
  BY <1>0a, <1>5, <1>10, <1>12, NearLast
<1>13. PICK nearer \in BOOLEAN :
           nearer <=> BoundaryNearer([val |-> hi, dir |-> hd], [val |-> best, dir |-> dir], [val |-> lo, dir |-> ld])
  OBVIOUS
<1>14. n = IF (lo # best \/ ld # dir) /\ b.ret = 0 /\ nearer THEN last ELSE first
  <2>0. PICK min, max : min = GetMin(a.s[v], v) /\ max = GetMax(b.s[v], v)
    OBVIOUS
  <2>1. min = [val |-> lo, dir |-> ld] /\ max = [val |-> hi, dir |-> hd]
    BY <1>1, <1>2, <2>0 DEF LowIs, HighIs
  <2>2. min # [val |-> best, dir |-> dir] <=> lo # best \/ ld # dir
    BY <2>1
  <2>3. nearer <=> BoundaryNearer(max, [val |-> best, dir |-> dir], min)
    BY <1>13, <2>1
  <2>4. n = IF min # [val |-> best, dir |-> dir] /\ b.ret = 0
                /\ BoundaryNearer(max, [val |-> best, dir |-> dir], min)
             THEN last ELSE first
    BY <1>9, <1>10, <2>0 DEF Chooses
  <2> QED BY <2>2, <2>3, <2>4
<1>15. CASE ~(best = 0 /\ dir <= 0)
  <2>1. PICK cut \in {target - 1, target} : CutUpTo(b, s, v, cut)
    BY <1>15 DEF Lower
  <2>2. CASE b.ret # 0
    <3>1. ASSUME NEW d \in Space(s) PROVE Place(d[v]) >= target
      <4>1. Place(d[v]) > cut /\ Place(d[v]) \in Nat
        BY <2>1, <2>2, Placed DEF CutUpTo
      <4> QED BY <4>1
    <3>2. \A d \in Space(s) : Place(d[v]) < target => m - target <= target - Place(d[v]) + 1
      <4> SUFFICES ASSUME NEW d \in Space(s), Place(d[v]) < target PROVE FALSE
        OBVIOUS
      <4>1. Place(d[v]) \in Nat /\ Place(d[v]) >= target
        BY <3>1, Placed
      <4> QED BY <4>1
    <3> QED BY <1>11, <1>14, <2>2, <3>2
  <2>3. CASE b.ret = 0
    <3>1. Space(b.s) = {d \in Space(s) : Place(d[v]) <= cut}
      BY <2>1, <2>3 DEF CutUpTo
    <3>2. h <= cut /\ h <= target
      BY <1>7, <3>1
    <3>3. ASSUME NEW d \in Space(s), NEW x \in Int, x = Place(d[v]), x < target PROVE x <= h
      <4>1. d \in Space(b.s)
        BY <3>1, <3>3
      <4>2. Edged(b.s, v)
        BY <1>0, EdgesAre
      <4> QED BY <1>5, <3>3, <4>1, <4>2 DEF Edged
    <3>4. ASSUME NEW d \in Space(s), NEW x \in Int, x = Place(d[v]), x >= target PROVE x >= m
      <4>1. d \in Space(a.s)
        BY <1>8, <3>4
      <4>2. Edged(a.s, v)
        BY <1>0, EdgesAre
      <4> QED BY <1>4, <3>4, <4>1, <4>2 DEF Edged
    <3>5. IF nearer THEN target - h <= m - target ELSE m - target <= target - h + 1
      <4>1. /\ hd = -1 => hi > 0
            /\ ld = 1 => lo < UMax
        BY <1>1, <1>2 DEF LowIs, HighIs
      <4>2. 2 * hi + hd <= 2 * best + dir /\ 2 * best + dir <= 2 * lo + ld
        BY <1>0, <1>3, <1>4, <1>5, <1>8, <3>2
      <4>3. IF nearer
            THEN (2 * best + dir) - (2 * hi + hd) <= (2 * lo + ld) - (2 * best + dir)
            ELSE (2 * lo + ld) - (2 * best + dir) <= (2 * best + dir) - (2 * hi + hd) + 1
        <5>1. NearerMeans(hi, hd, best, dir, lo, ld)
          BY <1>0, <1>3, <4>1, <4>2, NearerIs
        <5> QED BY <1>13, <5>1 DEF NearerMeans
      <4> QED BY <1>0, <1>3, <1>4, <1>5, <4>3
    <3>6. CASE nearer /\ (lo # best \/ ld # dir)
      <4>1. ASSUME NEW d \in Space(s) PROVE target - h <= Far(target, Place(d[v]))
        <5>1. PICK x \in Int : x = Place(d[v])
          BY Placed
        <5>2. (x < target => x <= h) /\ (x >= target => x >= m)
          BY <3>3, <3>4, <5>1
        <5> QED BY <3>5, <3>6, <5>1, <5>2 DEF Far
      <4> QED BY <1>12, <1>14, <2>3, <3>2, <3>6, <4>1
    <3>7. CASE ~(nearer /\ (lo # best \/ ld # dir))
      <4>1. m - target <= target - h + 1
        <5>1. lo = best /\ ld = dir => m = target
          BY <1>4
        <5> QED BY <3>2, <3>5, <3>7, <5>1
      <4>2. ASSUME NEW d \in Space(s), Place(d[v]) < target PROVE m - target <= target - Place(d[v]) + 1
        <5>1. PICK x \in Int : x = Place(d[v])
          BY Placed
        <5>2. x <= h
          BY <3>3, <4>2, <5>1
        <5> QED BY <4>1, <5>1, <5>2
      <4> QED BY <1>11, <1>14, <3>7, <4>2
    <3> QED BY <3>6, <3>7
  <2> QED BY <2>2, <2>3
<1>16. CASE best = 0 /\ dir <= 0
  <2>1. ASSUME NEW d \in Space(s) PROVE Place(d[v]) >= 0 /\ Place(d[v]) \in Int /\ target <= 0
    BY <1>16, Placed
  <2>2. CASE (lo # best \/ ld # dir) /\ b.ret = 0 /\ nearer
    <3>0. IMax \in Nat
      BY <1>0 DEF IMax
    <3>1. 2 * hi + hd < 2 * IMax
      <4>1. f \in Device /\ f[v] \in Positions /\ f[v].val < IMax
        BY Placed DEF SmallValues
      <4>2. Place(f[v]) < 2 * IMax
        BY <1>0, <3>0, <4>1 DEF Positions, Place, Flag, Uint
      <4> QED BY <1>5, <1>7, <4>2
    <3>2. lo < IMax
      <4>1. e \in Device /\ e[v] \in Positions /\ e[v].val < IMax
        BY Placed DEF SmallValues
      <4>2. Place(e[v]) < 2 * IMax
        BY <1>0, <3>0, <4>1 DEF Positions, Place, Flag, Uint
      <4> QED BY <1>3, <1>4, <1>6, <3>0, <4>2
    <3>3. /\ hd = -1 => hi > 0
          /\ BoundaryNearer([val |-> hi, dir |-> hd], [val |-> 0, dir |-> dir], [val |-> lo, dir |-> ld])
          /\ dir \in {-1, 0}
      BY <1>2, <1>13, <1>16, <2>2 DEF HighIs
    <3>4. hi = 0 /\ hd = 0 /\ dir = 0
      BY <3>1, <3>2, <3>3, BelowZero
    <3>5. h = 0 /\ target = 0
      BY <1>5, <1>16, <3>4
    <3>6. ASSUME NEW d \in Space(s) PROVE target - h <= Far(target, Place(d[v]))
      BY <2>1, <3>5 DEF Far
    <3> QED BY <1>12, <1>14, <2>2, <3>5, <3>6
  <2>3. CASE ~((lo # best \/ ld # dir) /\ b.ret = 0 /\ nearer)
    <3>1. ASSUME NEW d \in Space(s), Place(d[v]) < target PROVE FALSE
      BY <2>1, <3>1
    <3> QED BY <1>11, <1>14, <2>3, <3>1
  <2> QED BY <2>2, <2>3
<1> QED BY <1>15, <1>16

\* If all values are below the target, the highest is returned.
LEMMA NearBelow ==
    ASSUME NEW s, Sound(s), Space(s) # {}, NEW v \in IVars, NEW target \in Int,
           \A d \in Space(s) : Place(d[v]) < target,
           NEW b, Kept(b, s), NEW cut \in {target - 1, target}, CutUpTo(b, s, v, cut),
           NEW n, n = Reported(ParamSetLast(b.s, b.r, v), v)
    PROVE  b.ret = 0 /\ Answer(n, v) /\ Nearest(n, s, v, target)
<1>0. Sound(b.s) /\ Space(b.s) # {}
  BY DEF Kept
<1>1. \A d \in Space(s) : Place(d[v]) <= cut
  <2> SUFFICES ASSUME NEW d \in Space(s) PROVE Place(d[v]) <= cut
    OBVIOUS
  <2>1. Place(d[v]) \in Nat /\ Place(d[v]) < target
    BY Placed
  <2> QED BY <2>1
<1>2. b.ret = 0
  <2> SUFFICES ASSUME b.ret # 0 PROVE FALSE
    OBVIOUS
  <2>1. PICK d \in Space(s) : TRUE
    OBVIOUS
  <2>2. Place(d[v]) > cut /\ Place(d[v]) <= cut /\ Place(d[v]) \in Nat
    BY <1>1, <2>1, Placed DEF CutUpTo
  <2> QED BY <2>2
<1>3. Space(b.s) = Space(s)
  BY <1>1, <1>2 DEF CutUpTo
<1>4. PICK h \in Int : h = Hi(b.s[v]) /\ h < target /\ \A d \in Space(s) : Place(d[v]) <= h
  <2>1. Edged(b.s, v)
    BY <1>0, EdgesAre
  <2>2. PICK d \in Space(s) : Place(d[v]) = Hi(b.s[v])
    BY <1>3, <2>1 DEF Edged
  <2>3. Place(d[v]) \in Nat /\ Place(d[v]) < target
    BY <2>2, Placed
  <2>4. \A x \in Space(s) : Place(x[v]) <= Hi(b.s[v])
    BY <1>3, <2>1 DEF Edged
  <2> QED BY <2>2, <2>3, <2>4
<1>5. ASSUME NEW d \in Space(s) PROVE target - h <= Far(target, Place(d[v]))
  <2>1. PICK x \in Int : x = Place(d[v])
    BY Placed
  <2>2. x <= h /\ x < target
    BY <1>4, <2>1
  <2> QED BY <1>4, <2>1, <2>2 DEF Far
<1> QED BY <1>2, <1>4, <1>5, NearLast

\* The value at which _snd_pcm_hw_param_set_near starts.
Cut(val) == IF val > IMax THEN IMax ELSE val

\* _snd_pcm_hw_param_set_near finds the nearest value of the space.
LEMMA NearFinds ==
    ASSUME NEW s, Sound(s), Space(s) # {}, SmallValues, NEW r, NEW v \in IVars,
           NEW val \in Uint, NEW dir \in {-1, 0, 1}
    PROVE  Found(ParamSetNear(s, r, v, val, dir), s, v, 2 * Cut(val) + dir)
<1>0. /\ v \in Vars /\ UMax \in Nat /\ UMax > 1 /\ val \in Int /\ val >= 0 /\ val <= UMax /\ dir \in Int
  BY IVar, UMaxAssumption, HwParamsConstants DEF Uint
<1>1. IMax \in Nat /\ IMax < UMax /\ IMax > 0
  BY <1>0 DEF IMax
<1>2. PICK best \in Uint : best = Cut(val)
  BY <1>0, <1>1 DEF Uint, Cut
<1>3. best \in Int /\ best < UMax /\ best >= 0 /\ best - 1 \in Int
  BY <1>0, <1>1, <1>2 DEF Cut
<1>4. PICK target \in Int : target = 2 * best + dir
  BY <1>0, <1>3
<1>5. PICK a : a = ParamSetMin(s, r, v, best, dir)
  OBVIOUS
<1>6. PICK bv \in Uint : bv = IF dir < 0 THEN Wrap(best - 1) ELSE best
  BY <1>3, WrapUint
<1>7. PICK bd \in {-1, 0, 1} : bd = IF dir > 0 THEN 0 ELSE IF dir = 0 THEN -1 ELSE 1
  OBVIOUS
<1>8. PICK b : b = ParamSetMax(s, r, v, bv, bd)
  OBVIOUS
<1>9. Kept(a, s) /\ CutFrom(a, s, v, target)
  <2>1. Kept(a, s) /\ Narrowed(a, s, v, From(target))
    BY <1>3, <1>4, <1>5, MinIs
  <2> QED BY <2>1, CutsFrom
<1>10. Kept(b, s)
  BY <1>8, MaxIs
<1>11. PICK cut \in {target - 1, target} : cut = IF dir < 0 THEN target ELSE target - 1
  OBVIOUS
<1>12. ASSUME ~(best = 0 /\ dir <= 0) PROVE CutUpTo(b, s, v, cut)
  <2>1. dir < 0 => bv = best - 1
    <3>1. dir < 0 => best - 1 \in Uint
      BY <1>0, <1>3, <1>12 DEF Uint
    <3> QED BY <1>6, <3>1, WrapInRange
  <2>2. ~(bv = UMax /\ bd > 0) /\ ~(bv = 0 /\ bd < 0)
    BY <1>0, <1>3, <1>6, <1>7, <1>12, <2>1
  <2>3. 2 * bv + bd = cut
    BY <1>0, <1>3, <1>4, <1>6, <1>7, <1>11, <2>1
  <2>4. Narrowed(b, s, v, UpTo(2 * bv + bd))
    BY <1>8, <2>2, MaxIs
  <2> QED BY <1>10, <2>3, <2>4, CutsUpTo
<1>13. PICK n : n = ParamSetNear(s, r, v, val, dir)
  OBVIOUS
<1>14. PICK rec : rec = [val |-> best, dir |-> dir]
  OBVIOUS
<1>15. PICK min, max : min = GetMin(a.s[v], v) /\ max = GetMax(b.s[v], v)
  OBVIOUS
<1>16. PICK first, last : first = Reported(ParamSetFirst(a.s, a.r, v), v)
                          /\ last = Reported(ParamSetLast(b.s, b.r, v), v)
  OBVIOUS
<1>17. n = IF Single(a.s[v], v) THEN Reported(State(a.s, a.r, 0), v)
           ELSE IF a.ret = 0
           THEN IF min # rec /\ b.ret = 0 /\ BoundaryNearer(max, rec, min) THEN last ELSE first
           ELSE IF b.ret < 0 THEN [st |-> b, out |-> rec] ELSE last
  <2>1. /\ rec.val = best /\ rec = [val |-> IF val > IMax THEN IMax ELSE val, dir |-> dir]
    BY <1>2, <1>14 DEF Cut
  <2>2. a = ParamSetMin(s, r, v, rec.val, dir)
    BY <1>5, <2>1
  <2>3. b = ParamSetMax(s, r, v, IF dir < 0 THEN Wrap(rec.val - 1) ELSE rec.val,
                        IF dir > 0 THEN 0 ELSE IF dir = 0 THEN -1 ELSE 1)
    BY <1>6, <1>7, <1>8, <2>1
  <2> QED BY <1>13, <1>15, <1>16, <2>1, <2>2, <2>3 DEF ParamSetNear
<1>18. CASE Single(a.s[v], v)
  <2>1. n = Reported(State(a.s, a.r, 0), v)
    BY <1>17, <1>18
  <2>2. Answer(n, v) /\ (Crowded(s, v, target) \/ Nearest(n, s, v, target))
    BY <1>9, <1>18, <2>1, NearSingle
  <2> QED BY <1>2, <1>4, <1>13, <2>2 DEF Found
<1>19. CASE ~Single(a.s[v], v) /\ a.ret = 0
  <2>1. Lower(b, s, v, best, dir, target)
    BY <1>10, <1>12 DEF Lower
  <2>2. Higher(a, s, v, target)
    BY <1>9, <1>19 DEF Higher
  <2>3. Chooses(n, a, b, v, [val |-> best, dir |-> dir])
    BY <1>14, <1>15, <1>16, <1>17, <1>19 DEF Chooses
  <2>4. Answer(n, v) /\ Nearest(n, s, v, target)
    BY <1>4, <2>1, <2>2, <2>3, NearChoice
  <2> QED BY <1>2, <1>4, <1>13, <2>4 DEF Found
<1>20. CASE ~Single(a.s[v], v) /\ a.ret # 0
  <2>1. \A d \in Space(s) : Place(d[v]) < target
    BY <1>9, <1>20 DEF CutFrom
  <2>2. ~(best = 0 /\ dir <= 0)
    <3>1. PICK d \in Space(s) : TRUE
      OBVIOUS
    <3>2. Place(d[v]) \in Nat /\ Place(d[v]) < target
      BY <2>1, Placed
    <3> QED BY <1>0, <1>4, <3>2
  <2>3. b.ret = 0 /\ Answer(last, v) /\ Nearest(last, s, v, target)
    BY <1>10, <1>12, <1>16, <2>1, <2>2, NearBelow
  <2>4. n = last
    BY <1>17, <1>20, <2>3
  <2> QED BY <1>2, <1>4, <1>13, <2>3, <2>4 DEF Found
<1> QED BY <1>18, <1>19, <1>20

\* A search as a step.
LEMMA NearCloseStep ==
    ASSUME Sound(params), SmallValues, NEW v \in IVars, NEW val \in Nat, NEW dir \in {-1, 0, 1},
           SetNear(v, val, dir)
    PROVE  NearClose
<1> SUFFICES ASSUME Space(params) # {}, call'.val <= UMax
             PROVE  LET c == call'
                        got == 2 * c.out.val + c.out.dir
                    IN  /\ c.ret = 0
                        /\ Space(params') # {}
                        /\ \A d \in Space(params') : Rank(c.var, d[c.var]) \in {got, got + 1}
                        /\ NearChose(c) => \A d \in Space(params) :
                               Distance(c, got) <= Distance(c, Rank(c.var, d[c.var])) + 1
  BY DEF NearClose
<1>1. PICK c : c = call'
  OBVIOUS
<1>2. PICK n : n = ParamSetNear(params, rmask, v, Truncated(val), dir)
  OBVIOUS
<1>3. Returns("set_near", v, val, val, dir, n.st, n.out)
  BY <1>2 DEF SetNear
<1>4. params' = n.st.s /\ c.var = v /\ c.val = val /\ c.dir = dir /\ c.ret = n.st.ret
  BY <1>1, <1>3, ReturnsIs
<1>5. val <= UMax /\ Truncated(val) = val /\ val \in Uint
  BY <1>1, <1>4, Truncates
<1>6. PICK target \in Int : target = 2 * Cut(val) + dir
  BY <1>5, UMaxAssumption DEF Cut, IMax, Uint
<1>7. Answer(n, v) /\ (Crowded(params, v, target) \/ Nearest(n, params, v, target))
  <2>1. Found(n, params, v, target)
    BY <1>2, <1>5, <1>6, NearFinds
  <2> QED BY <2>1 DEF Found
<1>8. c.out = n.out /\ c.ret = 0
  BY <1>1, <1>3, <1>7 DEF Returns, Answer
<1>9. PICK got : got = 2 * c.out.val + c.out.dir /\ got = Returned(n)
  BY <1>8 DEF Returned
<1>10. \A p : Rank(v, p) = Place(p)
  BY IVar DEF Rank, Place
<1>11. Target(c) = target
  BY <1>4, <1>6 DEF Target, Cut
<1>12. \A x : Distance(c, x) = Far(target, x)
  BY <1>11 DEF Distance, Far
<1>13. Space(params') # {} /\ \A d \in Space(params') : Rank(c.var, d[c.var]) \in {got, got + 1}
  BY <1>4, <1>7, <1>9, <1>10 DEF Answer, Within
<1>14. ASSUME NearChose(c), NEW d \in Space(params)
       PROVE  Distance(c, got) <= Distance(c, Rank(c.var, d[c.var])) + 1
  <2>1. ~Crowded(params, v, target)
    <3> SUFFICES ASSUME Crowded(params, v, target) PROVE FALSE
      OBVIOUS
    <3>1. PICK above : above = {x \in {Place(e[v]) : e \in Space(params)} : x >= target}
      OBVIOUS
    <3>2. above = {} \/ \A k \in Uint : ~(above \subseteq {2 * k, 2 * k + 1})
      <4>1. above = {x \in {Rank(c.var, e[c.var]) : e \in Space(params)} : x >= Target(c)}
        BY <1>4, <1>10, <1>11, <3>1
      <4> QED BY <1>14, <4>1 DEF NearChose
    <3>3. above # {} /\ \E k \in Uint : above \subseteq {2 * k, 2 * k + 1}
      BY <3>1 DEF Crowded
    <3> QED BY <3>2, <3>3
  <2>2. Far(target, Returned(n)) <= Far(target, Place(d[v])) + 1
    BY <1>7, <2>1 DEF Nearest
  <2> QED BY <1>4, <1>9, <1>10, <1>12, <2>2
<1> QED BY <1>1, <1>8, <1>9, <1>13, <1>14

\* Only snd_pcm_hw_params_set_*_near is a search, and it is for intervals.
LEMMA NearStep ==
    ASSUME Sound(params), SmallValues, Next
    PROVE  NearClose
<1> SUFFICES ASSUME call'.op = "set_near" PROVE NearClose
  BY DEF NearClose
<1>1. call' # NoCall
  BY DEF NoCall
<1>2. CASE GoOn
  BY <1>1, <1>2 DEF GoOn
<1>3. CASE ParamsAny
  <2>1. call'.op = "any"
    BY <1>3, ReturnsIs DEF ParamsAny
  <2> QED BY <2>1
<1>4. CASE HwParams
  <2>1. call'.op = "hw_params"
    BY <1>4, ReturnsIs DEF HwParams
  <2> QED BY <2>1
<1>5. CASE _snd_mask_none \/ _snd_mask_any \/ \E b \in Bits : _snd_mask_set(b) \/ _snd_mask_reset(b)
  BY <1>1, <1>5 DEF _snd_mask_none, _snd_mask_any, _snd_mask_set, _snd_mask_reset
<1>6. ASSUME NEW v \in Vars PROVE ~SetFirst(v) /\ ~SetLast(v) /\ ~SetInteger(v) /\ ~GetMask(v)
                                 /\ ~SetMask(v, mask)
  <2>1. SetFirst(v) => call'.op = "set_first"
    BY ReturnsIs DEF SetFirst
  <2>2. SetLast(v) => call'.op = "set_last"
    BY ReturnsIs DEF SetLast
  <2>3. SetInteger(v) => call'.op = "set_integer"
    BY ReturnsIs DEF SetInteger
  <2>4. ~GetMask(v)
    BY <1>1 DEF GetMask
  <2>5. SetMask(v, mask) => call'.op = "set_mask"
    BY ReturnsIs DEF SetMask
  <2> QED BY <2>1, <2>2, <2>3, <2>4, <2>5
<1>7. ASSUME NEW v, NEW val, NEW dir
      PROVE  /\ ~Set(v, val, dir) /\ ~Test(v, val, dir) /\ ~SetMin(v, val, dir) /\ ~SetMax(v, val, dir)
             /\ \A hi : ~SetMinmax(v, val, hi, dir)
  <2>1. Set(v, val, dir) => call'.op = "set"
    BY ReturnsIs DEF Set
  <2>2. Test(v, val, dir) => call'.op = "test"
    BY ReturnsIs DEF Test
  <2>3. SetMin(v, val, dir) => call'.op = "set_min"
    BY ReturnsIs DEF SetMin
  <2>4. SetMax(v, val, dir) => call'.op = "set_max"
    BY ReturnsIs DEF SetMax
  <2>5. ASSUME NEW hi PROVE SetMinmax(v, val, hi, dir) => call'.op = "set_minmax"
    BY ReturnsIs DEF SetMinmax
  <2> QED BY <2>1, <2>2, <2>3, <2>4, <2>5
<1>8. ASSUME NEW v \in Vars, NEW name \in Kind[v], Call(v, Calls[name]) PROVE NearClose
  <2>1. PICK c : c = Calls[name]
    OBVIOUS
  <2>2. "set_near" \in c.names /\ \E val \in c.vals, dir \in c.dirs : SetNear(v, val, dir)
    BY <1>6, <1>7, <1>8, <2>1 DEF Call
  <2>3. v \notin MVars
    BY <2>1, <2>2, MaskKindCalls DEF MaskCalls
  <2>4. v \in IVars
    BY <2>3 DEF Vars
  <2>5. c.vals \subseteq Nat /\ c.dirs \subseteq {-1, 0, 1}
    BY <2>1, <2>4, IntervalKindCalls DEF IntervalCalls
  <2> QED BY <2>2, <2>4, <2>5, NearCloseStep
<1> QED BY <1>2, <1>3, <1>4, <1>5, <1>8 DEF Next

-----------------------------------------------------------------------------
(* The theorems. *)

\* Between calls every interval has its bounds closed if it is one of integers, and its
\* lowest and highest values, like the bits of every mask, are those of configurations
\* that the device supports: this is what the functions of src/pcm_params.c rely on.
THEOREM HwParamsInvariant == Spec => []Sound(params)
<1>1. Init => Sound(params)
  BY InitSound
<1>2. Sound(params) /\ [Next]_vars => Sound(params)'
  <2>1. ASSUME Sound(params), Next PROVE Sound(params')
    BY <2>1, StepIsFine DEF StepFine
  <2>2. ASSUME Sound(params), UNCHANGED vars PROVE Sound(params')
    <3>1. params' = params
      BY <2>2 DEF vars
    <3> QED BY <2>2, <3>1
  <2>3. Sound(params)' <=> Sound(params')
    OBVIOUS
  <2> QED BY <2>1, <2>2, <2>3
<1> QED BY <1>1, <1>2, PTL DEF Spec

\* Setting a bound or a value leaves exactly the configurations that meet the request,
\* or fails and leaves the space as it was; testing a value tells which.
THEOREM HwParamsSetsExactly == Spec => SetsExactly
<1>1. Sound(params) /\ [Next]_vars => [SetExact]_vars
  BY StepIsFine DEF StepFine
<1> QED BY <1>1, HwParamsInvariant, PTL DEF Spec, SetsExactly

\* snd_pcm_hw_params_set_*_mask leaves exactly the configurations that the mask has.
THEOREM HwParamsMasksExactly == Spec => MasksExactly
<1>1. Sound(params) /\ [Next]_vars => [MaskExact]_vars
  BY StepIsFine DEF StepFine
<1> QED BY <1>1, HwParamsInvariant, PTL DEF Spec, MasksExactly

\* No call but snd_pcm_hw_params_any brings back a configuration that was excluded.
THEOREM HwParamsNarrowsOnly == Spec => NarrowsOnly
<1>1. Sound(params) /\ [Next]_vars => [NeverWidens]_vars
  BY StepIsFine DEF StepFine
<1> QED BY <1>1, HwParamsInvariant, PTL DEF Spec, NarrowsOnly

\* No call but a failing snd_pcm_hw_params_set_*_mask uses up the configurations.
THEOREM HwParamsKeepsSome == Spec => KeepsSome
<1>1. Sound(params) /\ [Next]_vars => [NeverStuck]_vars
  BY StepIsFine DEF StepFine
<1> QED BY <1>1, HwParamsInvariant, PTL DEF Spec, KeepsSome

\* snd_pcm_hw_params settles every parameter of its table on a configuration that the
\* device supports, without looking at the result of snd_pcm_hw_params_choose.
THEOREM HwParamsChoiceSupported == Spec => ChoiceSupported
<1>1. Sound(params) /\ [Next]_vars => [ChosenSupported]_vars
  BY StepIsFine DEF StepFine
<1> QED BY <1>1, HwParamsInvariant, PTL DEF Spec, ChoiceSupported

\* _snd_pcm_hw_param_set_near settles the parameter on a value that the device supports,
\* and none that it could have chosen is nearer by more than half a step, if the values
\* of the device stay below INT_MAX (above, the distances that it compares overflow).
THEOREM HwParamsNearestFound ==
    ASSUME SmallValues
    PROVE  Spec => NearestFound
<1>1. Sound(params) /\ [Next]_vars => [NearClose]_vars
  BY NearStep
<1> QED BY <1>1, HwParamsInvariant, PTL DEF Spec, NearestFound
=============================================================================
