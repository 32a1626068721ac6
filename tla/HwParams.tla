------------------------------ MODULE HwParams ------------------------------
(***************************************************************************)
(* The configuration space of a PCM (snd_pcm_hw_params_t) and the calls by *)
(* which an application narrows it to one configuration (the hw_param      *)
(* functions of src/pcm_params.c, and the hw_params functions of           *)
(* src/pcm_macros.h that name one parameter each).  A call refines one     *)
(* parameter, asks the kernel to refine the others to match, and puts the  *)
(* space back if nothing is left.                                          *)
(*                                                                         *)
(* The space belongs to one thread and the kernel's answer depends on the  *)
(* space alone, so that every call is one step.                            *)
(***************************************************************************)
EXTENDS Interval, Sequences

CONSTANTS
    MVars,        \* parameters with a mask: access, format, subformat
    IVars,        \* parameters with an interval: channels, rate, ...
    IntegerVars,  \* those the kernel restricts to integers
    Bits,         \* bits of a mask
    Device,       \* the configurations the device supports
    Choice,       \* the table in snd_pcm_hw_params_choose
    Dirs,         \* values of the argument dir
    Kind,         \* parameter -> the families of functions that it has
    Longs         \* sizes in frames that an unsigned int does not hold

Vars == MVars \cup IVars
MaskKinds == {"access", "format", "subformat"}
IntervalKinds == {"channels", "rate", "period_time", "period_size", "periods",
                  "buffer_time", "buffer_size", "tick_time"}

ASSUME HwParamsConstants ==
    /\ MVars \cap IVars = {} /\ IntegerVars \subseteq IVars
    /\ UMax > 1 /\ Bits \subseteq Uint /\ Dirs \subseteq {-1, 0, 1}
    /\ \A d \in Device : /\ \A v \in MVars : d[v] \in Bits
                         /\ \A v \in IVars : d[v] \in Positions
                         /\ \A v \in IntegerVars : ~d[v].up
    /\ Choice \in Seq([var : Vars, last : BOOLEAN])
    /\ \A x \in Longs : x \in Nat /\ x > UMax
    /\ \A v \in Vars : Kind[v] \subseteq IF v \in MVars THEN MaskKinds ELSE IntervalKinds

VARIABLES
    params,  \* the space: parameter -> mask or interval
    rmask,   \* parameters changed since the kernel was last asked
    mask,    \* the mask that the application is building, bit by bit
    call     \* the call that has returned, until the application goes on

vars == <<params, rmask, mask, call>>

IMax == UMax \div 2  \* INT_MAX

-----------------------------------------------------------------------------
(* The kernel's SNDRV_PCM_IOCTL_HW_REFINE: every parameter is narrowed to    *)
(* the smallest mask or interval with the configurations left.               *)

Allowed(s) == [v \in Vars |-> IF v \in MVars THEN s[v] ELSE Points(s[v])]

Space(s) == LET a == Allowed(s) IN {d \in Device : \A v \in Vars : d[v] \in a[v]}

AtMost(p, q) == p.val < q.val \/ (p.val = q.val /\ (p.up => q.up))

Hull(ps, integer) ==
    LET lo == CHOOSE p \in ps : \A q \in ps : AtMost(p, q)
        hi == CHOOSE p \in ps : \A q \in ps : AtMost(q, p)
    IN  Sharpen([min |-> lo.val, openmin |-> lo.up,
                 max |-> IF hi.up THEN hi.val + 1 ELSE hi.val, openmax |-> hi.up,
                 integer |-> integer, empty |-> FALSE])

\* A space, the parameters to refine, and a return value.
State(s, r, ret) == [s |-> s, r |-> r, ret |-> ret]

HwRefine(s, r) ==
    LET left == Space(s)
    IN  IF left = {} THEN State(s, r, EINVAL)
        ELSE State([v \in Vars |->
                       LET vals == {d[v] : d \in left}
                       IN  IF v \in MVars THEN vals
                           ELSE Hull(vals, s[v].integer \/ v \in IntegerVars)],
                   {}, 0)

-----------------------------------------------------------------------------
(* One parameter refined, and the kernel asked for the rest. *)

IsEmpty(s, v) == IF v \in MVars THEN s[v] = {} ELSE s[v].empty

\* mutant: the kernel is not told what has changed
BugUpdateVar(s, r, v, res) ==
    LET s1 == [s EXCEPT ![v] = res.i]
    IN  IF res.ret < 0 THEN State(s1, r, res.ret)
        ELSE IF r = {} THEN State(s1, r, 0)
        ELSE HwRefine(s1, r)

\* hw_param_update_var, for the result res of refining parameter v
UpdateVar(s, r, v, res) ==
    LET s1 == [s EXCEPT ![v] = res.i]
        r1 == IF res.ret = 1 THEN r \cup {v} ELSE r
        k  == HwRefine(s1, r1)
    IN  IF res.ret < 0 THEN State(s1, r, res.ret)
        ELSE IF r1 = {} THEN State(s1, r1, 0)
        ELSE IF k.ret < 0 THEN k
        ELSE IF IsEmpty(k.s, v) THEN State(k.s, k.r, ENOENT)
        ELSE k

\* _snd_pcm_hw_param_get_min, _get_max and _get
GetMin(x, v) == IF v \in MVars THEN [val |-> MaskMin(x), dir |-> 0]
                ELSE [val |-> x.min, dir |-> Flag(x.openmin)]
GetMax(x, v) == IF v \in MVars THEN [val |-> MaskMax(x), dir |-> 0]
                ELSE [val |-> x.max, dir |-> -Flag(x.openmax)]
Single(x, v) == IF v \in MVars THEN x # {} /\ MaskSingle(x)
                ELSE ~x.empty /\ IsSingle(x)

\* hw_param_set_min: dir < 0 asks for the stretch below val as well.
hw_param_set_min(x, v, val, dir) ==
    IF v \in MVars THEN MaskRefineMin(x, val)
    ELSE IF dir < 0 /\ val > 0 THEN RefineMin(x, val - 1, TRUE, FALSE)
    ELSE RefineMin(x, val, dir > 0, FALSE)

\* mutant: the stretch above val is left out
Bug_hw_param_set_max(x, v, val, dir) ==
    IF v \in MVars THEN MaskRefineMax(x, val)
    ELSE RefineMax(x, val, dir # 0, FALSE)

\* hw_param_set_max: dir > 0 asks for the stretch above val as well.
hw_param_set_max(x, v, val, dir) ==
    IF v \in MVars THEN MaskRefineMax(x, val)
    ELSE RefineMax(x, IF dir > 0 THEN Wrap(val + 1) ELSE val, dir # 0, FALSE)

hw_param_set_minmax(x, v, lo, lodir, hi, hidir) ==
    LET a == hw_param_set_min(x, v, lo, lodir)
        b == hw_param_set_max(a.i, v, hi, hidir)
    IN  IF a.ret < 0 THEN a
        ELSE IF b.ret < 0 THEN b
        ELSE [b EXCEPT !.ret = Flag(a.ret = 1 \/ b.ret = 1)]

\* The open stretch below or above val.
Stretch(val, dir) ==
    [min |-> IF dir < 0 THEN Wrap(val - 1) ELSE val,
     max |-> IF dir < 0 THEN val ELSE Wrap(val + 1),
     openmin |-> TRUE, openmax |-> TRUE, integer |-> FALSE, empty |-> FALSE]

hw_param_set(x, v, val, dir) ==
    IF v \in MVars
    THEN IF val = 0 /\ dir < 0 THEN [i |-> {}, ret |-> EINVAL]
         ELSE MaskRefineSet(x, val + dir)
    ELSE IF val = 0 /\ dir < 0
         THEN [i |-> [x EXCEPT !.empty = TRUE], ret |-> EINVAL]
    ELSE IF dir = 0 THEN RefineSet(x, val)
    ELSE Refine(x, Stretch(val, dir))

hw_param_set_first(x, v) ==
    IF v \in MVars THEN MaskRefineTo(x, MaskMin(x)) ELSE RefineFirst(x)

hw_param_set_last(x, v) ==
    IF v \in MVars THEN MaskRefineTo(x, MaskMax(x)) ELSE RefineLast(x)

-----------------------------------------------------------------------------
(* The functions applications call.  Those that restore the space on an     *)
(* error do so together with rmask.                                         *)

\* mutant: what a failed call has done is kept
BugOrSaved(u, s, r) == u
OrSaved(u, s, r) == IF u.ret < 0 THEN State(s, r, u.ret) ELSE u

ParamSetMin(s, r, v, val, dir) ==
    OrSaved(UpdateVar(s, r, v, hw_param_set_min(s[v], v, val, dir)), s, r)

ParamSetMax(s, r, v, val, dir) ==
    OrSaved(UpdateVar(s, r, v, hw_param_set_max(s[v], v, val, dir)), s, r)

ParamSetMinmax(s, r, v, lo, lodir, hi, hidir) ==
    OrSaved(UpdateVar(s, r, v,
                      hw_param_set_minmax(s[v], v, lo, lodir, hi, hidir)), s, r)

ParamSet(s, r, v, val, dir) ==
    OrSaved(UpdateVar(s, r, v, hw_param_set(s[v], v, val, dir)), s, r)

\* _snd_pcm_hw_param_get, after a success
Got(u, v) == IF u.ret = 0 /\ ~Single(u.s[v], v) THEN [u EXCEPT !.ret = EINVAL]
             ELSE u

ParamSetFirst(s, r, v) ==
    Got(UpdateVar(s, r, v, hw_param_set_first(s[v], v)), v)

ParamSetLast(s, r, v) ==
    Got(UpdateVar(s, r, v, hw_param_set_last(s[v], v)), v)

\* _snd_pcm_hw_param_set_integer
ParamSetInteger(s, r, v) ==
    IF s[v].integer THEN State(s, r, 0)
    ELSE IF NoneLeft(s[v])
    THEN State([s EXCEPT ![v].empty = TRUE], r, EINVAL)
    ELSE OrSaved(UpdateVar(s, r, v, [i |-> [s[v] EXCEPT !.integer = TRUE],
                                     ret |-> 1]), s, r)

\* As a plausible bug would have it: the kernel is not told of the new mask.
BugParamSetMask(s, r, v, m) ==
    LET n  == s[v] \cap m
        s1 == [s EXCEPT ![v] = n]
    IN  IF r # {} THEN HwRefine(s1, r) ELSE State(s1, r, 0)

\* _snd_pcm_hw_param_set_mask: the result of snd_mask_refine only tells
\* whether to ask the kernel, and nothing is restored.
ParamSetMask(s, r, v, m) ==
    LET n  == s[v] \cap m
        s1 == [s EXCEPT ![v] = n]
        r1 == IF n # s[v] \/ n = {} THEN r \cup {v} ELSE r
    IN  IF r1 # {} THEN HwRefine(s1, r1) ELSE State(s1, r1, 0)

-----------------------------------------------------------------------------
(* _snd_pcm_hw_param_set_near: the space is cut at the target from below and *)
(* from above, and the nearer of the two bounds taken.                       *)

Signed(n) == LET w == Wrap(n) IN IF w > IMax THEN w - UMax - 1 ELSE w

\* boundary_sub, for directions in -1..1
BoundarySub(a, adir, b, bdir) ==
    LET d == adir - bdir
    IN  [val |-> Signed(Signed(a) - Signed(b)
                        + (IF d = 2 THEN 1 ELSE IF d = -2 THEN -1 ELSE 0)),
         dir |-> d]

BoundaryLt(x, y) ==
    LET a == Wrap(IF x.dir < 0 THEN x.val - 1 ELSE x.val)
        b == Wrap(IF y.dir < 0 THEN y.val - 1 ELSE y.val)
    IN  a < b \/ (a = b /\ x.dir = 0 /\ y.dir # 0)

\* mutant: the other way round
BugBoundaryNearer(lo, best, hi) ==
    BoundaryLt(BoundarySub(hi.val, hi.dir, best.val, best.dir),
               BoundarySub(best.val, best.dir, lo.val, lo.dir))

BoundaryNearer(lo, best, hi) ==
    BoundaryLt(BoundarySub(best.val, best.dir, lo.val, lo.dir),
               BoundarySub(hi.val, hi.dir, best.val, best.dir))

\* What _snd_pcm_hw_param_get and _get_min report of a space that is single.
Reported(u, v) == [st |-> u, out |-> GetMin(u.s[v], v)]

ParamSetNear(s, r, v, val, dir) ==
    LET best == [val |-> IF val > IMax THEN IMax ELSE val, dir |-> dir]
        a == ParamSetMin(s, r, v, best.val, dir)
        min == IF a.ret = 0 THEN GetMin(a.s[v], v) ELSE best
        b == ParamSetMax(s, r, v, IF dir < 0 THEN Wrap(best.val - 1) ELSE best.val,
                         IF dir > 0 THEN 0 ELSE IF dir = 0 THEN -1 ELSE 1)
        max == GetMax(b.s[v], v)
        first == Reported(ParamSetFirst(a.s, a.r, v), v)
        last  == Reported(ParamSetLast(b.s, b.r, v), v)
    IN  IF Single(a.s[v], v) THEN Reported(State(a.s, a.r, 0), v)
        ELSE IF a.ret = 0
        THEN IF min # best /\ b.ret = 0 /\ BoundaryNearer(max, best, min)
             THEN last ELSE first
        ELSE IF b.ret < 0 THEN [st |-> b, out |-> best]
        ELSE last

\* snd_pcm_hw_params_choose: the table is followed up to the first error.
ChooseOne(u, c) ==
    IF u.ret < 0 THEN u
    ELSE IF c.last THEN ParamSetLast(u.s, u.r, c.var)
    ELSE ParamSetFirst(u.s, u.r, c.var)

Choose(s, r) ==
    LET after[n \in 0..Len(Choice)] ==
            IF n = 0 THEN State(s, r, 0) ELSE ChooseOne(after[n - 1], Choice[n])
    IN  after[Len(Choice)]

-----------------------------------------------------------------------------
(* The calls. *)

NoCall == [op |-> "none", var |-> CHOOSE v \in Vars : TRUE, val |-> 0, hi |-> 0,
           dir |-> 0, ret |-> 0, out |-> [val |-> 0, dir |-> 0]]

\* The space is zeroed when it is allocated.
Init ==
    /\ params = [v \in Vars |-> IF v \in MVars THEN {}
                                ELSE [interval_any EXCEPT !.max = 0]]
    /\ rmask = {}
    /\ mask = {}
    /\ call = NoCall

\* DEFINE_SET64: on 64-bit machines a size in frames is passed on as an unsigned
\* int.  Other values are unsigned ints to begin with.
Truncated(val) == Wrap(val)

Returns(op, v, val, hi, dir, u, out) ==
    /\ call = NoCall
    /\ params' = u.s
    /\ rmask' = u.r
    /\ mask' = {}
    /\ call' = [op |-> op, var |-> v, val |-> val, hi |-> hi, dir |-> dir,
                ret |-> u.ret, out |-> IF u.ret = 0 THEN out
                                      ELSE [val |-> Truncated(val), dir |-> dir]]

\* snd_pcm_hw_params_any
ParamsAny ==
    LET all == [v \in Vars |-> IF v \in MVars THEN Bits ELSE interval_any]
    IN  Returns("any", NoCall.var, 0, 0, 0, HwRefine(all, Vars), NoCall.out)

SetMin(v, val, dir) ==
    LET u == ParamSetMin(params, rmask, v, Truncated(val), dir)
    IN  Returns("set_min", v, val, val, dir, u, GetMin(u.s[v], v))

SetMax(v, val, dir) ==
    LET u == ParamSetMax(params, rmask, v, Truncated(val), dir)
    IN  Returns("set_max", v, val, val, dir, u, GetMax(u.s[v], v))

\* Both bounds get the same direction here.
SetMinmax(v, val, hi, dir) ==
    LET u == ParamSetMinmax(params, rmask, v, Truncated(val), dir, Truncated(hi), dir)
    IN  Returns("set_minmax", v, val, hi, dir, u, GetMin(u.s[v], v))

Set(v, val, dir) ==
    Returns("set", v, val, val, dir, ParamSet(params, rmask, v, Truncated(val), dir), NoCall.out)

\* _snd_pcm_hw_param_test: set, and put back whatever the outcome.
Test(v, val, dir) ==
    LET u == ParamSet(params, rmask, v, Truncated(val), dir)
    IN  Returns("test", v, val, val, dir, State(params, rmask, u.ret), NoCall.out)

SetInteger(v) ==
    Returns("set_integer", v, 0, 0, 0, ParamSetInteger(params, rmask, v), NoCall.out)

SetMask(v, m) ==
    Returns("set_mask", v, 0, 0, 0, ParamSetMask(params, rmask, v, m), NoCall.out)

SetFirst(v) ==
    LET u == ParamSetFirst(params, rmask, v)
    IN  Returns("set_first", v, 0, 0, 0, u, GetMin(u.s[v], v))

SetLast(v) ==
    LET u == ParamSetLast(params, rmask, v)
    IN  Returns("set_last", v, 0, 0, 0, u, GetMin(u.s[v], v))

SetNear(v, val, dir) ==
    LET n == ParamSetNear(params, rmask, v, Truncated(val), dir)
    IN  Returns("set_near", v, val, val, dir, n.st, n.out)

\* _snd_pcm_hw_params up to the ioctl that installs the configuration; the
\* result of snd_pcm_hw_params_choose is not looked at.
HwParams ==
    LET k == HwRefine(params, rmask)
        c == Choose(k.s, k.r)
        u == IF k.ret < 0 THEN k ELSE State(c.s, c.r, 0)
    IN  Returns("hw_params", NoCall.var, 0, 0, 0, u, NoCall.out)

\* The application has seen the result.
GoOn == call # NoCall /\ call' = NoCall /\ UNCHANGED <<params, rmask, mask>>

-----------------------------------------------------------------------------
(* The functions that name one parameter.  Some parameters have no           *)
(* direction, some can be made integer, and the sizes in frames are long.    *)

\* Masks that applications build, and those they take from the space.
_snd_mask_none == call = NoCall /\ mask' = {} /\ UNCHANGED <<params, rmask, call>>
_snd_mask_any == call = NoCall /\ mask' = Bits /\ UNCHANGED <<params, rmask, call>>
_snd_mask_set(b) == call = NoCall /\ mask' = mask \cup {b} /\ UNCHANGED <<params, rmask, call>>
_snd_mask_reset(b) == call = NoCall /\ mask' = mask \ {b} /\ UNCHANGED <<params, rmask, call>>
GetMask(v) == call = NoCall /\ mask' = params[v] /\ UNCHANGED <<params, rmask, call>>

\* Each kind of parameter: the functions it has, the values they take, and the
\* directions, which are 0 where there is no argument for them.
MaskCalls == [names |-> {"set", "test", "set_first", "set_last", "set_mask", "get_mask"},
              vals |-> Bits, dirs |-> {0}]
ParamCalls == [names |-> {"set", "test", "set_min", "set_max", "set_minmax", "set_near",
                          "set_first", "set_last"},
               vals |-> Uint, dirs |-> Dirs]

access_calls == MaskCalls
format_calls == MaskCalls
subformat_calls == MaskCalls
channels_calls == [ParamCalls EXCEPT !.dirs = {0}]
rate_calls == ParamCalls
period_time_calls == ParamCalls
period_size_calls == [ParamCalls EXCEPT !.names = @ \cup {"set_integer"}, !.vals = @ \cup Longs]
periods_calls == [ParamCalls EXCEPT !.names = @ \cup {"set_integer"}]
buffer_time_calls == ParamCalls
buffer_size_calls == [ParamCalls EXCEPT !.vals = @ \cup Longs, !.dirs = {0}]
tick_time_calls == ParamCalls

Calls ==
    [access |-> access_calls, format |-> format_calls, subformat |-> subformat_calls,
     channels |-> channels_calls, rate |-> rate_calls, period_time |-> period_time_calls,
     period_size |-> period_size_calls, periods |-> periods_calls,
     buffer_time |-> buffer_time_calls, buffer_size |-> buffer_size_calls,
     tick_time |-> tick_time_calls]

\* Bound: the upper bounds given together with the lower bound val.
Uppers(val) == {0, val - 1, val, val + 2, UMax} \cap Uint

\* A function of the kind c is called for parameter v.
Call(v, c) ==
    \/ "set_first" \in c.names /\ SetFirst(v)
    \/ "set_last" \in c.names /\ SetLast(v)
    \/ "set_integer" \in c.names /\ SetInteger(v)
    \/ "set_mask" \in c.names /\ SetMask(v, mask)
    \/ "get_mask" \in c.names /\ GetMask(v)
    \/ \E val \in c.vals, dir \in c.dirs :
        \/ "set" \in c.names /\ Set(v, val, dir)
        \/ "test" \in c.names /\ Test(v, val, dir)
        \/ "set_min" \in c.names /\ SetMin(v, val, dir)
        \/ "set_max" \in c.names /\ SetMax(v, val, dir)
        \/ "set_minmax" \in c.names /\ \E hi \in Uppers(val) : SetMinmax(v, val, hi, dir)
        \/ "set_near" \in c.names /\ SetNear(v, val, dir)

Next ==
    \/ GoOn
    \/ ParamsAny \/ HwParams
    \/ _snd_mask_none \/ _snd_mask_any \/ \E b \in Bits : _snd_mask_set(b) \/ _snd_mask_reset(b)
    \/ \E v \in Vars : \E c \in {Calls[name] : name \in Kind[v]} : Call(v, c)

Spec == Init /\ [][Next]_vars

-----------------------------------------------------------------------------
(* Properties. *)

\* The place of a value among integers and stretches, and of a request.
Rank(v, x) == IF v \in MVars THEN 2 * x ELSE 2 * x.val + Flag(x.up)
Asked(c, val) == IF c.var \in IVars THEN 2 * val + c.dir
                 ELSE IF c.op \in {"set", "test"} THEN 2 * (val + c.dir)
                 ELSE 2 * val

\* The configurations that meet a request.
Meets(c, d) ==
    LET x == Rank(c.var, d[c.var])
    IN  CASE c.op = "set_min" -> x >= Asked(c, c.val)
          [] c.op = "set_max" -> x <= Asked(c, c.hi)
          [] OTHER -> x >= Asked(c, c.val) /\ x <= Asked(c, c.hi)

\* Requests beyond the range of an unsigned value, whose bounds wrap around:
\* above UINT_MAX, and below 0 for an upper bound, which the search for the nearest
\* value sets just below its target.
OutOfRange(c) ==
    /\ c.var \in IVars
    /\ \/ UMax \in {Truncated(c.val), Truncated(c.hi)} /\ c.dir > 0 /\ c.op # "set_near"
       \/ Truncated(c.hi) = 0 /\ c.dir < 0 /\ c.op \in {"set_max", "set_minmax"}
       \/ Truncated(c.val) = 0 /\ c.dir <= 0 /\ c.op = "set_near"

\* Setting a bound or a value leaves exactly the device's configurations that
\* meet the request, and fails, with the space as it was, if there are none.
\* Testing a value tells whether setting it would succeed and changes nothing.
\* (A size that an unsigned int does not hold is cut off first: it gets what its
\* lower half asks for.)
SetExact ==
    LET wanted == {d \in Space(params) : Meets(call', d)}
    IN  /\ call'.op \in {"set_min", "set_max", "set_minmax", "set", "test"}
        /\ Space(params) # {} /\ ~OutOfRange(call') /\ call'.val <= UMax
        => IF wanted = {} THEN call'.ret < 0 /\ params' = params
           ELSE /\ call'.ret = 0
                /\ IF call'.op = "test" THEN params' = params
                   ELSE Space(params') = wanted

\* A mask leaves exactly the device's configurations that it has, and is refused
\* if there are none; then nothing is left, because the space is not put back.
MaskExact ==
    LET wanted == {d \in Space(params) : d[call'.var] \in mask}
    IN  call'.op = "set_mask" /\ Space(params) # {}
        => /\ Space(params') = wanted
           /\ call'.ret < 0 <=> wanted = {}

\* No call but snd_pcm_hw_params_any brings back what an earlier one excluded,
\* whether it succeeds or fails.
NeverWidens ==
    call'.op # "any" /\ ~OutOfRange(call') => Space(params') \subseteq Space(params)

\* A space with configurations in it keeps some, whatever is asked, except when
\* snd_pcm_hw_params_set_*_mask fails: that one does not put the space back.
NeverStuck ==
    Space(params) # {} /\ (call'.op = "set_mask" => call'.ret = 0)
        => Space(params') # {}

\* The values that the search for the nearest one is meant for: below INT_MAX.
SmallValues == \A d \in Device : \A v \in IVars : d[v].val < IMax

\* The target is cut to INT_MAX.
Target(c) == 2 * (IF c.val > IMax THEN IMax ELSE c.val) + c.dir
Distance(c, x) == IF x < Target(c) THEN Target(c) - x ELSE x - Target(c)

\* The call chose between the values at or above the target and those below: the
\* former, if there are any, are not all on one integer or just above it.
NearChose(c) ==
    LET above == {x \in {Rank(c.var, d[c.var]) : d \in Space(params)} : x >= Target(c)}
    IN  above = {} \/ \A n \in Uint : ~(above \subseteq {2 * n, 2 * n + 1})

\* _snd_pcm_hw_param_set_near succeeds on any space with configurations in it,
\* settles the parameter and returns a value the device supports; none that it
\* could have chosen is nearer by more than half a step, unless the values at or
\* above the target are those of a single interval: then they are taken at once.
NearClose ==
    LET c == call'
        got == 2 * c.out.val + c.out.dir
    IN  c.op = "set_near" /\ Space(params) # {} /\ c.val <= UMax
        => /\ c.ret = 0
           /\ Space(params') # {}
           /\ \A d \in Space(params') : Rank(c.var, d[c.var]) \in {got, got + 1}
           /\ NearChose(c) => \A d \in Space(params) :
                  Distance(c, got) <= Distance(c, Rank(c.var, d[c.var])) + 1

\* snd_pcm_hw_params hands the kernel a space with a supported configuration in
\* it, every parameter of the table settled, although it does not look at the
\* result of snd_pcm_hw_params_choose.
ChosenSupported ==
    call'.op = "hw_params" /\ Space(params) # {}
        => /\ call'.ret = 0
           /\ Space(params') # {}
           /\ \A n \in DOMAIN Choice :
                  Single(params'[Choice[n].var], Choice[n].var)

SetsExactly == [][SetExact]_vars
MasksExactly == [][MaskExact]_vars
NarrowsOnly == [][NeverWidens]_vars
KeepsSome == [][NeverStuck]_vars
NearestFound == [][NearClose]_vars
ChoiceSupported == [][ChosenSupported]_vars
=============================================================================
