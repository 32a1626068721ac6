----------------------------- MODULE MCPcmWrap -----------------------------
(* A long so narrow that a stream crosses the kernel's wrap point, 8. *)
EXTENDS Pcm

WrapConfigs == {[buf |-> 2, period |-> 1, acc |-> "RW"]}
WrapSwChoices == {[stop |-> 2, amin |-> 1]}
============================================================================
