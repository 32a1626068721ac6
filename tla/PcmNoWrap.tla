----------------------------- MODULE PcmNoWrap -----------------------------
(***************************************************************************)
(* The regime in which the ring pointers stay below the kernel's wrap      *)
(* point: with 64-bit longs a stream reaches it after more frames than any *)
(* session plays, and pcm.c, whose own wrap point is never set, agrees     *)
(* with the kernel only as long as it is not reached.  MCPcmWrap looks at  *)
(* what happens beyond.                                                    *)
(***************************************************************************)
EXTENDS Pcm

\* No pointer and no sum the library forms from one reaches the wrap point.
ASSUME NoWrap ==
    \A c \in Configs : /\ Boundary(c.buf) \in Nat
                       /\ FrameLimit + c.buf < Boundary(c.buf)
============================================================================
