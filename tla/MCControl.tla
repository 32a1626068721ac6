------------------------------ MODULE MCControl ------------------------------
(* Two processes and one name, so that an element is removed and another one   *)
(* of its name added between two steps of a call.                              *)
EXTENDS Control

CONSTANTS c1, c2

\* TLV data a user writes, data a driver answers with that claims more than the
\* buffer holds, and no answer at all.
NoAnswer == [type |-> "empty", len |-> 0]
MCTlvs == {[type |-> "scale", len |-> 1], [type |-> "long", len |-> 3], NoAnswer}

\* What the two processes do: add and use elements, read and write TLV data of
\* elements the other one adds, or watch the elements the other one adds.
Both == c1 :> {"add", "value"} @@ c2 :> {"add", "value"}
Tlv == c1 :> {"add", "tlv"} @@ c2 :> {"add"}
Watch == c1 :> {"event", "list"} @@ c2 :> {"add"}

MCScenarios ==
    [protocol : {6, 7}, calls : {Both}, tlvs : {{NoAnswer}}]
        \cup [protocol : {3, 7}, calls : {Tlv}, tlvs : {MCTlvs}]
        \cup [protocol : {7}, calls : {Watch}, tlvs : {{NoAnswer}}]
=============================================================================
