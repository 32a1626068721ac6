------------------------------ MODULE Interval ------------------------------
(***************************************************************************)
(* The masks and intervals that PCM configuration spaces are made of       *)
(* (src/pcm_params.c).  A mask is the set of its bits.  An interval has    *)
(* bounds that may be open, and may be restricted to integers; its bounds  *)
(* are unsigned and wrap around.                                           *)
(*                                                                         *)
(* Every refinement returns the new value and what the C function returns: *)
(* an error, 0, or 1 for "changed".                                        *)
(***************************************************************************)
EXTENDS Integers

CONSTANT UMax  \* UINT_MAX

ASSUME UMaxAssumption == UMax \in Nat \ {0}

EINVAL == -22
ENOENT == -2

Uint == 0..UMax
Wrap(n) == n % (UMax + 1)
Flag(b) == IF b THEN 1 ELSE 0

Intervals == [min : Uint, max : Uint, openmin : BOOLEAN, openmax : BOOLEAN,
              integer : BOOLEAN, empty : BOOLEAN]

-----------------------------------------------------------------------------
(* What an interval stands for.  Its bounds tell apart each integer and the *)
(* open stretch above it: [val |-> 3, up |-> FALSE] is 3 and                *)
(* [val |-> 3, up |-> TRUE] is anything between 3 and 4.                     *)

Positions == [val : Uint, up : BOOLEAN]

Above(p, min, openmin) == p.val > min \/ (p.val = min /\ (openmin => p.up))
Below(p, max, openmax) == p.val < max \/ (p.val = max /\ ~openmax /\ ~p.up)

Points(i) == {p \in Positions : /\ ~i.empty
                                /\ Above(p, i.min, i.openmin)
                                /\ Below(p, i.max, i.openmax)
                                /\ i.integer => ~p.up}

-----------------------------------------------------------------------------
(* Intervals. *)

interval_any == [min |-> 0, max |-> UMax, openmin |-> FALSE, openmax |-> FALSE,
                 integer |-> FALSE, empty |-> FALSE]

IsSingle(i) == i.min = i.max \/ (Wrap(i.min + 1) = i.max /\ i.openmax)

NoneLeft(i) == i.min > i.max \/ (i.min = i.max /\ (i.openmin \/ i.openmax))

\* interval_check_empty at the end of a refinement
CheckEmpty(i, changed) ==
    IF NoneLeft(i) THEN [i |-> [i EXCEPT !.empty = TRUE], ret |-> EINVAL]
    ELSE [i |-> i, ret |-> Flag(changed)]

\* An integer interval has its open lower bound moved up, ...
CloseMin(i) == IF i.integer /\ i.openmin
               THEN [i EXCEPT !.min = Wrap(@ + 1), !.openmin = FALSE] ELSE i

\* ... and its open upper bound down.
CloseMax(i) == IF i.integer /\ i.openmax
               THEN [i EXCEPT !.max = Wrap(@ - 1), !.openmax = FALSE] ELSE i

\* mutant: the bound is set, not raised
BugRefineMin(i, min, openmin, integer) ==
    IF i.empty THEN [i |-> i, ret |-> ENOENT]
    ELSE CheckEmpty(CloseMin([i EXCEPT !.min = min, !.openmin = openmin,
                                       !.integer = @ \/ integer]), TRUE)

RefineMin(i, min, openmin, integer) ==
    LET higher == i.min < min
        opens  == i.min = min /\ ~i.openmin /\ openmin
        j == [i EXCEPT !.min = IF higher THEN min ELSE @,
                       !.openmin = IF higher THEN openmin ELSE @ \/ opens,
                       !.integer = @ \/ integer]
    IN  IF i.empty THEN [i |-> i, ret |-> ENOENT]
        ELSE CheckEmpty(CloseMin(j), higher \/ opens \/ (integer /\ ~i.integer))

RefineMax(i, max, openmax, integer) ==
    LET lower == i.max > max
        opens == i.max = max /\ ~i.openmax /\ openmax
        j == [i EXCEPT !.max = IF lower THEN max ELSE @,
                       !.openmax = IF lower THEN openmax ELSE @ \/ opens,
                       !.integer = @ \/ integer]
    IN  IF i.empty THEN [i |-> i, ret |-> ENOENT]
        ELSE CheckEmpty(CloseMax(j), lower \/ opens \/ (integer /\ ~i.integer))

\* One point is an integer, without being told so.
Sharpen(i) == IF ~i.openmin /\ ~i.openmax /\ i.min = i.max
              THEN [i EXCEPT !.integer = TRUE] ELSE i

Refine(i, v) ==
    LET a == RefineMin(i, v.min, v.openmin, v.integer)
        b == RefineMax(a.i, v.max, v.openmax, v.integer)
    IN  IF a.ret < 0 THEN a
        ELSE IF b.ret < 0 THEN b
        ELSE [i |-> Sharpen(b.i), ret |-> Flag(a.ret = 1 \/ b.ret = 1)]

RefineFirst(i) ==
    IF i.empty THEN [i |-> i, ret |-> ENOENT]
    ELSE IF IsSingle(i) THEN [i |-> i, ret |-> 0]
    ELSE [i |-> [i EXCEPT !.max = IF i.openmin THEN Wrap(i.min + 1) ELSE i.min,
                          !.openmax = i.openmin],
          ret |-> 1]

RefineLast(i) ==
    IF i.empty THEN [i |-> i, ret |-> ENOENT]
    ELSE IF IsSingle(i) THEN [i |-> i, ret |-> 0]
    ELSE [i |-> [i EXCEPT !.min = IF i.openmax THEN Wrap(i.max - 1) ELSE i.max,
                          !.openmin = i.openmax],
          ret |-> 1]

\* snd_interval_refine_set
RefineSet(i, val) ==
    Refine(i, [min |-> val, max |-> val, openmin |-> FALSE, openmax |-> FALSE,
               integer |-> TRUE, empty |-> FALSE])

-----------------------------------------------------------------------------
(* Masks. *)

MaskMin(m) == IF m = {} THEN 0 ELSE CHOOSE x \in m : \A y \in m : x <= y
MaskMax(m) == IF m = {} THEN 0 ELSE CHOOSE x \in m : \A y \in m : x >= y

\* mask_is_single: no two bits.
MaskSingle(m) == \A x, y \in m : x = y

\* A mask is refined to n, which may be empty.
Masked(n, changed) == [i |-> n, ret |-> IF n = {} THEN EINVAL ELSE Flag(changed)]

MaskRefineMin(m, val) ==
    IF m = {} THEN [i |-> m, ret |-> ENOENT]
    ELSE IF MaskMin(m) >= val THEN [i |-> m, ret |-> 0]
    ELSE Masked({x \in m : x >= val}, TRUE)

MaskRefineMax(m, val) ==
    IF m = {} THEN [i |-> m, ret |-> ENOENT]
    ELSE IF MaskMax(m) <= val THEN [i |-> m, ret |-> 0]
    ELSE Masked({x \in m : x <= val}, TRUE)

MaskRefineSet(m, val) ==
    IF m = {} THEN [i |-> m, ret |-> ENOENT]
    ELSE Masked(m \cap {val}, ~MaskSingle(m))

\* snd_mask_refine_first and snd_mask_refine_last
MaskRefineTo(m, val) ==
    IF m = {} THEN [i |-> m, ret |-> ENOENT]
    ELSE [i |-> m \cap {val}, ret |-> Flag(~MaskSingle(m))]
=============================================================================
