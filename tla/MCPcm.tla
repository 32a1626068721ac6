------------------------------- MODULE MCPcm -------------------------------
(* Small instances of Pcm in which no pointer reaches the wrap point. *)
EXTENDS PcmNoWrap

\* A mappable ring, and a smaller one used with read/write.
MCConfigs == {[buf |-> 3, period |-> 1, acc |-> "MMAP"],
              [buf |-> 2, period |-> 2, acc |-> "RW"]}

\* The default thresholds of the ring, one that lets the hardware run past
\* the application, and a refused one.
MCSwChoices == {[stop |-> 3, amin |-> 2], [stop |-> 5, amin |-> 1],
                [stop |-> 3, amin |-> 0]}

\* For the liveness run, a mappable ring and one for read/write, and thresholds
\* of which one lets poll() wait for more than the ring holds.
LiveConfigs == {[buf |-> 2, period |-> 2, acc |-> "MMAP"], [buf |-> 2, period |-> 1, acc |-> "RW"]}
LiveSwChoices == {[stop |-> 4, amin |-> 3], [stop |-> 2, amin |-> 1]}
============================================================================
