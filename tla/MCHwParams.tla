---------------------------- MODULE MCHwParams ----------------------------
(* A device with two formats, integer rates and period times between        *)
(* integers; the kinds of parameter that snd_pcm_hw_params_choose meets.     *)
EXTENDS HwParams

CONSTANTS format, rate, time

On(n) == [val |-> n, up |-> FALSE]
Over(n) == [val |-> n, up |-> TRUE]

Config(f, r, t) ==
    [v \in Vars |-> CASE v = format -> f [] v = rate -> r [] v = time -> t]

MCDevice == {Config(0, On(1), Over(5)), Config(0, On(2), Over(1)),
             Config(0, On(5), Over(1)), Config(1, On(2), On(3)),
             Config(1, On(6), Over(1)), Config(1, On(2), On(5))}

MCDirs == {-1, 0, 1}

\* Each parameter stands for those that have its functions.
MCKind ==
    [v \in Vars |-> CASE v = format -> {"access", "format", "subformat"}
                      [] v = rate -> {"channels", "rate", "period_time", "buffer_time", "tick_time"}
                      [] v = time -> {"periods", "period_size", "buffer_size"}]

\* The values are far enough below INT_MAX.
ASSUME MCSmallValues == SmallValues

\* Sizes that are cut to 2 and to UMax.
MCLongs == {UMax + 3, 2 * UMax + 1}

MCChoice == <<[var |-> format, last |-> FALSE], [var |-> rate, last |-> FALSE],
              [var |-> time, last |-> TRUE]>>
=============================================================================
