-------------------------------- MODULE Chmap --------------------------------
(***************************************************************************)
(* Channel maps of a PCM (src/pcm.c, SALSA_HAS_CHMAP_SUPPORT): asking the  *)
(* driver for the maps it offers, reading and changing the map of a stream *)
(* through a control of the card, and maps as text.  Every allocation and  *)
(* every ioctl may fail, and another process may change the map.           *)
(***************************************************************************)
EXTENDS Integers, Sequences, SequencesExt, FiniteSets

CONSTANTS
    Positions,   \* the positions of channels that have a name
    Names,       \* position -> its name, as the sequence of its letters
    Channels,    \* the channels of the stream
    MaxChannels, \* the values of a control: 128
    MaxParsed,   \* the entries of tmp_map in snd_pcm_chmap_parse_string: 64
    Offers,      \* what drivers offer: sequences of maps, [type, map]
    Maps,        \* the maps applications use
    MaxLens      \* the sizes of the buffers that maps are printed to

VARIABLES
    offer,  \* the driver's offer
    kmap,   \* kernel: the map of the stream
    ctl,    \* whether the library has the control device open
    heap,   \* the blocks allocated and not freed
    given,  \* those that the application has been given
    call,   \* the call in progress
    ret,    \* what the last call has returned
    mine    \* the map this process has set, until another one changes it

vars == <<offer, kmap, ctl, heap, given, call, ret, mine>>

Idle == [op |-> "none"]
Null == [op |-> "null"]
NoMap == <<>>
Array == 0     \* the block of the array of maps; those of its maps are 1, 2, ...
Single == -1   \* the block of the map of a stream
Unknown == [pos |-> 0, spec |-> FALSE, inv |-> FALSE]
EINVAL == -22
EPERM == -1
ENOENT == -2
ENXIO == -6
ENODEV == -19

IsChmapType(t) == t \in {"FIXED", "VAR", "PAIRED"}

Init ==
    /\ offer \in Offers
    /\ kmap = [i \in 1..Channels |-> Unknown]
    /\ ctl = FALSE /\ heap = {} /\ given = {} /\ call = Idle /\ ret = Idle /\ mine = NoMap

Returns(r) == call' = Idle /\ ret' = r
Goto(c) == call' = c /\ ret' = Idle

-----------------------------------------------------------------------------
(* do_ctl_chmap: the control device is opened, the function called, and the  *)
(* device closed.                                                            *)

OpenCtl ==
    /\ call # Idle /\ call.at = "open"
    /\ \/ ctl' = TRUE /\ call' = [call EXCEPT !.at = "func"] /\ UNCHANGED <<heap, ret>>
       \/ \E r \in call.failed : heap' = heap \ call.blocks /\ Returns(r) /\ UNCHANGED ctl
    /\ UNCHANGED <<offer, kmap, given, mine>>

\* As a plausible bug would have it: an error returns before the device is closed.
BugFuncFails(r) ==
    /\ ctl /\ call.at = "func" /\ heap' = heap \ call.blocks /\ Returns(r)
    /\ UNCHANGED <<offer, kmap, ctl, given, mine>>

\* The function fails, and with it the call.
FuncFails(r) ==
    /\ ctl /\ call.at = "func" /\ ctl' = FALSE /\ heap' = heap \ call.blocks /\ Returns(r)
    /\ UNCHANGED <<offer, kmap, given, mine>>

-----------------------------------------------------------------------------
(* snd_pcm_query_chmaps_from_hw *)

snd_pcm_query_chmaps ==
    /\ call = Idle /\ given = {}
    /\ Goto([op |-> "query", at |-> "open", blocks |-> {}, failed |-> {Null}, maps |-> <<>>])
    /\ UNCHANGED <<offer, kmap, ctl, heap, given, mine>>

do_read_tlv ==
    /\ call # Idle /\ call.op = "query" /\ call.at = "func"
    /\ \/ FuncFails(Null)
       \/ /\ ctl' = FALSE /\ call' = [call EXCEPT !.at = "count"]
          /\ UNCHANGED <<offer, kmap, heap, given, ret, mine>>

\* The items are counted, and looked at, before anything is allocated.
CountMaps ==
    /\ call # Idle /\ call.op = "query" /\ call.at = "count"
    /\ \/ /\ \E n \in 1..Len(offer) : ~IsChmapType(offer[n].type)
          /\ Returns(Null) /\ UNCHANGED heap
       \/ /\ \A n \in 1..Len(offer) : IsChmapType(offer[n].type)
          /\ \/ Returns(Null) /\ UNCHANGED heap
             \/ /\ heap' = heap \cup {Array} /\ call' = [call EXCEPT !.at = "copy"]
                /\ UNCHANGED ret
    /\ UNCHANGED <<offer, kmap, ctl, given, mine>>

\* The array, and the maps in it up to the first NULL.
snd_pcm_free_chmaps(blocks) == blocks

\* The map after the ones in the block that have been copied.
Following(maps) == offer[Len(maps) + 1]

\* One map copied, or the ones before freed.
CopyMap ==
    /\ call # Idle /\ call.op = "query" /\ call.at = "copy"
    /\ LET n == Len(call.maps)
       IN  \/ /\ n < Len(offer)
              /\ \/ /\ heap' = heap \cup {n + 1}
                    /\ call' = [call EXCEPT !.maps = Append(@, Following(@))] /\ UNCHANGED <<ret, given>>
                 \/ heap' = heap \ snd_pcm_free_chmaps(heap) /\ Returns(Null) /\ UNCHANGED given
           \/ /\ n = Len(offer)
              /\ given' = heap /\ Returns([op |-> "query", maps |-> call.maps]) /\ UNCHANGED heap
    /\ UNCHANGED <<offer, kmap, ctl, mine>>

\* The application gives back what it was given: maps, or a map.
FreeGiven ==
    /\ call = Idle /\ given # {}
    /\ heap' = heap \ (IF Single \in given THEN {Single} ELSE snd_pcm_free_chmaps(given))
    /\ given' = {} /\ ret' = Idle
    /\ UNCHANGED <<offer, kmap, ctl, call, mine>>

-----------------------------------------------------------------------------
(* The map of the stream. *)

snd_pcm_get_chmap ==
    /\ call = Idle /\ given = {}
    /\ \/ Returns(Null) /\ UNCHANGED heap
       \/ /\ heap' = heap \cup {Single}
          /\ Goto([op |-> "get", at |-> "open", blocks |-> {Single}, failed |-> {Null}])
    /\ UNCHANGED <<offer, kmap, ctl, given, mine>>

do_get_chmap ==
    /\ call # Idle /\ call.op = "get" /\ call.at = "func"
    /\ \/ FuncFails(Null)
       \/ /\ ctl' = FALSE /\ given' = {Single} /\ Returns([op |-> "get", map |-> kmap])
          /\ UNCHANGED <<offer, kmap, heap, mine>>

\* A control that is not there, or cannot be written, is one the PCM does not have.
SetFailures == {[op |-> "set", err |-> IF err \in {ENOENT, EPERM} THEN ENXIO ELSE err] : err \in {ENOENT, EPERM, ENODEV}}

snd_pcm_set_chmap(m) ==
    /\ call = Idle
    /\ IF Len(m) > MaxChannels THEN Returns([op |-> "set", err |-> EINVAL])
       ELSE Goto([op |-> "set", at |-> "open", blocks |-> {}, failed |-> SetFailures, map |-> m])
    /\ UNCHANGED <<offer, kmap, ctl, heap, given, mine>>

\* The values that are written: those of the map, and zero for the rest.
Padded(m) == [i \in 1..Channels |-> IF i <= Len(m) THEN m[i] ELSE Unknown]

do_set_chmap ==
    /\ call # Idle /\ call.op = "set" /\ call.at = "func"
    /\ \/ \E r \in SetFailures : FuncFails(r)
       \/ /\ ctl' = FALSE /\ kmap' = Padded(call.map) /\ mine' = call.map
          /\ Returns([op |-> "set", err |-> 0])
          /\ UNCHANGED <<offer, heap, given>>

\* Another process sets the map.
OtherSets(m) ==
    /\ kmap' = [i \in 1..Channels |-> IF i <= Len(m) THEN m[i] ELSE Unknown]
    /\ mine' = NoMap /\ kmap' # kmap
    /\ UNCHANGED <<offer, ctl, heap, given, call, ret>>

-----------------------------------------------------------------------------
(* Maps as text: a word for each channel. *)

Word(c) == [number |-> c.spec, pos |-> c.pos, letters |-> IF c.spec THEN <<>> ELSE Names[c.pos], inv |-> c.inv]

\* A digit for a number, the name, and [INV].
Width(c) == (IF c.spec THEN 1 ELSE Len(Names[c.pos])) + (IF c.inv THEN 5 ELSE 0)

\* A space before each word but the first.
TextLength(m) == FoldLeft(LAMBDA n, c : n + Width(c), Len(m) - 1, m)

\* ENOMEM if there is no room for all of the text and the final NUL.
snd_pcm_chmap_print(m, maxlen) ==
    LET len == TextLength(m)
    IN  IF len >= maxlen THEN Null ELSE [op |-> "text", words |-> [i \in 1..Len(m) |-> Word(m[i])], len |-> len]

\* A number is a position of the driver's own; a name must end where the word ends.
str_to_chmap(w) ==
    LET found == {p \in Positions : Names[p] = w.letters}
        pos == IF w.number THEN w.pos ELSE CHOOSE p \in found : \A q \in found : p <= q
    IN  [pos |-> pos, spec |-> w.number, inv |-> w.inv]

snd_pcm_chmap_parse_string(words) ==
    IF words = <<>> \/ Len(words) > MaxParsed THEN Null
    ELSE [op |-> "map", map |-> [i \in 1..Len(words) |-> str_to_chmap(words[i])]]

\* What drivers and applications use: channels with a position that has a name of its
\* own, or a number; and lengths are numbers.
Channel == {c \in [pos : Int, spec : BOOLEAN, inv : BOOLEAN] : c.spec \/ c.pos \in Positions}
ChmapConstants ==
    /\ Positions \subseteq Int /\ \A p, q \in Positions : Names[p] = Names[q] => p = q
    /\ Offers \subseteq Seq([type : STRING, map : Seq(Channel)])
    /\ Maps \subseteq Seq(Channel)
    /\ MaxLens \subseteq Int /\ \A m \in Maps : TextLength(m) \in Int

PrintMap(m, maxlen) ==
    /\ call = Idle /\ m # <<>>
    /\ LET r == snd_pcm_chmap_print(m, maxlen)
       IN  IF r = Null THEN Returns(Null)
           ELSE Goto([op |-> "print", at |-> "text", map |-> m, words |-> r.words, len |-> r.len, maxlen |-> maxlen])
    /\ UNCHANGED <<offer, kmap, ctl, heap, given, mine>>

\* The text is read back, into a block that may not be had.
Parse ==
    /\ call # Idle /\ call.op = "print"
    /\ LET r == snd_pcm_chmap_parse_string(call.words)
       IN  \/ Returns(Null)
           \/ r # Null /\ Returns([op |-> "map", map |-> r.map, was |-> call.map])
    /\ UNCHANGED <<offer, kmap, ctl, heap, given, mine>>

Next ==
    \/ OpenCtl \/ snd_pcm_query_chmaps \/ do_read_tlv \/ CountMaps \/ CopyMap \/ FreeGiven
    \/ snd_pcm_get_chmap \/ do_get_chmap \/ do_set_chmap
    \/ \E m \in Maps : snd_pcm_set_chmap(m) \/ OtherSets(m) \/ \E n \in MaxLens : PrintMap(m, n)
    \/ Parse

Spec == Init /\ [][Next]_vars

-----------------------------------------------------------------------------
(* Properties. *)

\* Whatever fails on the way, a call ends with the control device closed and no
\* memory left behind but what it has given to the application.
NothingLeft == call = Idle => ~ctl /\ heap = given

\* snd_pcm_query_chmaps_from_hw returns the driver's maps, all of them, or
\* nothing; and only those of a kind that applications know.
QueryTrue ==
    ret.op = "query" => /\ ret.maps = offer /\ Cardinality(given) = Len(offer) + 1
                        /\ \A n \in 1..Len(offer) : IsChmapType(offer[n].type)

\* The map that snd_pcm_set_chmap has set is the one that snd_pcm_get_chmap
\* returns, as long as no other process sets one.
GetTrue ==
    ret.op = "get" /\ mine # NoMap =>
        \A i \in 1..Channels : i <= Len(mine) => ret.map[i] = mine[i]

\* What snd_pcm_chmap_print has written, snd_pcm_chmap_parse_string reads as the
\* same map.
TextTrue == ret.op = "map" => ret.map = ret.was

\* A map is printed as a whole, with its final NUL, or not at all.
TextFits == call.op = "print" => call.len < call.maxlen

\* Whatever allocation or ioctl fails, a call on channel maps leaves no memory and
\* no control device behind; the maps it returns are the driver's, or the one that
\* was set; and text that was printed reads as the same map.
MapsTrue == NothingLeft /\ QueryTrue /\ GetTrue /\ TextTrue /\ TextFits
=============================================================================
