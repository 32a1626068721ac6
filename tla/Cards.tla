-------------------------------- MODULE Cards --------------------------------
(***************************************************************************)
(* Finding cards and devices (src/cards.c): listing the cards, finding one *)
(* by its number, its id or the path of its control file, and reading the  *)
(* device names that the open functions take.  Cards are plugged in and    *)
(* out while the library looks at one after the other.                     *)
(***************************************************************************)
EXTENDS Integers, Sequences, SequencesExt

CONSTANTS
    MaxCards,    \* SALSA_MAX_CARDS
    MaxDevices,  \* SALSA_MAX_DEVICES
    Ids,         \* the ids cards have
    Names,       \* the device names applications use
    MaxChanges   \* how often a card is plugged in or out

\* What the syntax of device names gives: a subdevice only after a device.
CardsConstants ==
    /\ MaxCards \in Nat /\ MaxDevices \in Nat
    /\ \A name \in Names : name.dev \in Int /\ (name.dev = -1 => name.subdev = -1)

VARIABLES
    id,       \* kernel: card -> the id of the card there, or NoCard
    changes,  \* how often that has changed
    call,     \* the call in progress: what it looks for, and the card it is at
    ret,      \* what the last call has returned
    rcard,    \* the application's position in the list of cards
    seen,     \* the cards the list has had so far
    steady    \* the cards that have been there since the call, or list, began

vars == <<id, changes, call, ret, rcard, seen, steady>>

NoCard == "none"
CardNumbers == 0 .. MaxCards - 1
Cards == {c \in CardNumbers : id[c] # NoCard}
Idle == [op |-> "none"]
EINVAL == -22
ENODEV == -19

\* The kernel gives no two cards the same id.
Unique(ids) == \A c, d \in CardNumbers : ids[c] = ids[d] /\ ids[c] # NoCard => c = d

Init ==
    /\ id \in {ids \in [CardNumbers -> Ids \cup {NoCard}] : Unique(ids)}
    /\ changes = 0
    /\ call = Idle /\ ret = Idle /\ rcard = -1 /\ seen = <<>> /\ steady = {}

\* A card is plugged in or out.
Change(c, new) ==
    /\ changes < MaxChanges /\ changes' = changes + 1
    /\ id' = [id EXCEPT ![c] = new] /\ Unique(id')
    /\ steady' = steady \ {c}
    /\ UNCHANGED <<call, ret, rcard, seen>>

snd_card_load(c) == id[c] # NoCard

-----------------------------------------------------------------------------
(* The list of cards. *)

\* As a plausible bug would have it: the number after the card is skipped.
Bugsnd_card_next ==
    /\ call = Idle
    /\ call' = [op |-> "next", at |-> IF rcard < 0 THEN 0 ELSE IF rcard + 2 > MaxCards THEN MaxCards ELSE rcard + 2]
    /\ steady' = IF rcard < 0 THEN Cards ELSE steady
    /\ seen' = IF rcard < 0 THEN <<>> ELSE seen
    /\ ret' = Idle
    /\ UNCHANGED <<id, changes, rcard>>

snd_card_next ==
    /\ call = Idle
    /\ call' = [op |-> "next", at |-> IF rcard < 0 THEN 0 ELSE rcard + 1]
    /\ steady' = IF rcard < 0 THEN Cards ELSE steady
    /\ seen' = IF rcard < 0 THEN <<>> ELSE seen
    /\ ret' = Idle
    /\ UNCHANGED <<id, changes, rcard>>

\* One turn of its loop.
NextCard ==
    /\ call.op = "next"
    /\ LET c == call.at
       IN  \/ /\ c < MaxCards /\ snd_card_load(c)
              /\ rcard' = c /\ seen' = Append(seen, c) /\ call' = Idle /\ UNCHANGED ret
           \/ /\ c < MaxCards /\ ~snd_card_load(c)
              /\ call' = [call EXCEPT !.at = c + 1]
              /\ UNCHANGED <<rcard, seen, ret>>
           \/ /\ c >= MaxCards
              /\ rcard' = -1 /\ call' = Idle /\ ret' = [op |-> "list"]
              /\ UNCHANGED seen
    /\ UNCHANGED <<id, changes, steady>>

-----------------------------------------------------------------------------
(* Names.  A name has a prefix, the string that selects a card (a number, an *)
(* id, the path of a control file, or nothing) and up to two numbers.        *)

None == -1

\* The rest of the string is compared with the ids: nothing may follow an id or
\* a path, while a number ends where it ends.
Bare(name) == name.dev = None

KnownPrefix(name) == name.prefix \in {"hw", "default", "sysdefault"}

Returns(r) == call' = Idle /\ ret' = r

\* What a name asks for, if devp and subdevp are given (pcm, rawmidi), devp
\* alone (hwdep), or neither (ctl).
Numbers(name, kind) ==
    IF kind \in {"pcm", "rawmidi"} /\ name.dev # None
    THEN [dev |-> name.dev, subdev |-> name.subdev]
    ELSE [dev |-> 0, subdev |-> None]

Found(name, kind, c) ==
    LET n == Numbers(name, kind)
    IN  IF n.dev < 0 \/ n.dev >= MaxDevices
        THEN [op |-> "device", name |-> name, kind |-> kind, err |-> EINVAL]
        ELSE [op |-> "device", name |-> name, kind |-> kind, err |-> 0, card |-> c,
              dev |-> n.dev, subdev |-> n.subdev]

Failed(name, kind, err) == [op |-> "device", name |-> name, kind |-> kind, err |-> err]

_snd_dev_get_device(name, kind) ==
    /\ call = Idle
    /\ \/ /\ KnownPrefix(name) /\ name.by = "nothing"
          /\ Returns(Found(name, kind, 0))
       \/ ~KnownPrefix(name) /\ Returns(Failed(name, kind, EINVAL))
       \/ /\ KnownPrefix(name) /\ name.by # "nothing"
          /\ call' = [op |-> "index", name |-> name, kind |-> kind, at |-> 0]
          /\ ret' = Idle
    /\ steady' = IF rcard < 0 THEN Cards ELSE steady
    /\ UNCHANGED <<id, changes, rcard, seen>>

\* snd_card_get_index with a number, or with the path of a control file.
IndexDirect ==
    /\ call.op = "index" /\ call.name.by \in {"number", "path"}
    /\ LET c == call.name.value
       IN  Returns(CASE call.name.by = "path" /\ ~Bare(call.name) ->
                          Failed(call.name, call.kind, ENODEV)
                     [] call.name.by = "number" /\ c \notin CardNumbers ->
                          Failed(call.name, call.kind, EINVAL)
                     [] OTHER -> IF c \in CardNumbers /\ snd_card_load(c)
                                 THEN Found(call.name, call.kind, c)
                                 ELSE Failed(call.name, call.kind, ENODEV))
    /\ UNCHANGED <<id, changes, rcard, seen, steady>>

\* snd_card_get_index with an id: a turn of the loop over the cards.
IndexById ==
    /\ call.op = "index" /\ call.name.by = "id"
    /\ LET c == call.at
       IN  \/ /\ c < MaxCards /\ Bare(call.name) /\ id[c] = call.name.value
              /\ Returns(Found(call.name, call.kind, c))
           \/ /\ c < MaxCards /\ ~(Bare(call.name) /\ id[c] = call.name.value)
              /\ call' = [call EXCEPT !.at = c + 1]
              /\ UNCHANGED ret
           \/ /\ c >= MaxCards
              /\ Returns(Failed(call.name, call.kind, ENODEV))
    /\ UNCHANGED <<id, changes, rcard, seen, steady>>

Next ==
    \/ \E c \in CardNumbers, new \in Ids \cup {NoCard} : id[c] # new /\ Change(c, new)
    \/ snd_card_next \/ NextCard
    \/ \E name \in Names, kind \in {"pcm", "rawmidi", "hwdep", "ctl"} :
        _snd_dev_get_device(name, kind)
    \/ IndexDirect \/ IndexById

Spec == Init /\ [][Next]_vars

-----------------------------------------------------------------------------
(* Properties. *)

\* snd_card_next lists every card that was there all the while, each one once and
\* in the order of their numbers, whatever came and went meanwhile.
ListComplete ==
    ret.op = "list" =>
        /\ steady \subseteq ToSet(seen)
        /\ \A i, j \in 1 .. Len(seen) : i < j => seen[i] < seen[j]

\* A card that was there all the while is found by its number, whatever follows it,
\* and by its id or path if nothing follows; behind an id or a path a device number
\* makes the search fail.  The card that is found is the one that was named.
CardFound ==
    ret.op = "device" /\ rcard = -1 /\ KnownPrefix(ret.name) =>
        /\ ret.err = ENODEV /\ ret.name.by = "id" /\ Bare(ret.name) =>
             \A c \in steady : id[c] # ret.name.value
        /\ ret.err = ENODEV /\ ret.name.by = "path" /\ Bare(ret.name) =>
             ret.name.value \notin steady
        /\ ret.err = ENODEV /\ ret.name.by = "number" => ret.name.value \notin steady
        /\ ret.name.by \in {"id", "path"} /\ ~Bare(ret.name) => ret.err = ENODEV
        /\ ret.err = 0 /\ ret.name.by \in {"number", "path"} => ret.card = ret.name.value
        /\ ret.err = 0 /\ ret.name.by = "id" /\ ret.card \in steady =>
             id[ret.card] = ret.name.value

\* A PCM or raw MIDI device name leads to the device and the subdevice it names,
\* one that names none to the first device and to any subdevice.
DeviceNamed ==
    ret.op = "device" /\ ret.err = 0 /\ ret.kind \in {"pcm", "rawmidi"} =>
        /\ ret.dev = (IF ret.name.dev = None THEN 0 ELSE ret.name.dev)
        /\ ret.dev \in 0 .. MaxDevices - 1
        /\ ret.subdev = ret.name.subdev

\* Cards that stay are listed, and found by number, or by an id or a path that no
\* device number follows, while others come and go; a device name that is found
\* leads to the device and the subdevice it names.
CardsFound == ListComplete /\ CardFound /\ DeviceNamed
=============================================================================
