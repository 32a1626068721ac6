------------------------------- MODULE Mixer -------------------------------
(***************************************************************************)
(* The simple mixer (src/mixer.c): mixer elements put together from the    *)
(* controls of a device.  "PCM Playback Volume", "PCM Capture Volume" and  *)
(* "PCM Playback Switch" become three items of one element "PCM"; "PCM     *)
(* Volume" is a global item that serves both directions.  The elements are *)
(* built and taken apart in the callbacks of the control interface.        *)
(*                                                                         *)
(* Pointers are what can go wrong: a control element points to its mixer   *)
(* element (private_data), an item points back to the control element, and *)
(* each side is freed by itself.                                           *)
(***************************************************************************)
EXTENDS HControl, FiniteSets

CONSTANTS
    Desc,     \* control -> [name, dir, global, kind]: what its name says
    Elems,    \* addresses calloc() may return for a snd_mixer_elem_t
    NULL

ASSUME MixerConstants ==
    /\ \A c \in Ctls : /\ Desc[c].dir \in {0, 1}
                       /\ Desc[c].global \in BOOLEAN
                       /\ Desc[c].global => Desc[c].dir = 0
                       /\ Desc[c].kind \in {"INTEGER", "BOOLEAN", "ENUMERATED"}
    /\ \A c, d \in Ctls : Ident[c] = Ident[d] => Desc[c].name = Desc[d].name
    /\ NULL \notin Elems

VARIABLES
    value,    \* kernel: control -> its value
    pelems,   \* mixer->pelems: the mixer elements in the mixer
    sid,      \* mixer element -> its name and index
    items,    \* mixer element -> slot -> the control element of its item
    caps,     \* mixer element -> the global capabilities it has acquired
    private,  \* control element -> helem->private_data
    cache,    \* control element -> the value its item holds
    stale,    \* items whose last set operation, or read for an event, failed
    goal      \* the item and value of a set operation in progress

mvars == <<value, pelems, sid, items, caps, private, cache, stale, goal>>
vars == <<hvars, mvars>>

PVOLUME == 0
CVOLUME == 1
PSWITCH == 2
CSWITCH == 3
ENUM    == 4
Slots == 0..4

NoItem == [ctl |-> NULL, numid |-> 0]
NoItems == [s \in Slots |-> NoItem]
NoGoal == [elem |-> NoItem, val |-> 0]

\* add_simple_element: the slot that the name and the type of a control select.
Type(c) == CASE Desc[c].kind = "INTEGER" -> PVOLUME + Desc[c].dir
             [] Desc[c].kind = "BOOLEAN" -> PSWITCH + Desc[c].dir
             [] Desc[c].kind = "ENUMERATED" -> ENUM

\* There is no global enumeration.
Global(c) == Desc[c].global /\ Type(c) # ENUM

Init == /\ HInit
        /\ value = [c \in Ctls |-> 0]
        /\ pelems = {}
        /\ sid = [m \in Elems |-> [name |-> NULL, index |-> 0]]
        /\ items = [m \in Elems |-> NoItems]
        /\ caps = [m \in Elems |-> {}]
        /\ private = [e \in Elements |-> NULL]
        /\ cache = [e \in Elements |-> 0]
        /\ stale = {}
        /\ goal = NoGoal

-----------------------------------------------------------------------------
(* The mixer's part of the state, as add_simple_element and                 *)
(* remove_simple_element pass it on.                                        *)

State == [pelems |-> pelems, sid |-> sid, items |-> items, caps |-> caps,
          private |-> private, cache |-> cache, stale |-> stale]

Becomes(s) == /\ pelems' = s.pelems /\ sid' = s.sid /\ items' = s.items
              /\ caps' = s.caps /\ private' = s.private /\ cache' = s.cache
              /\ stale' = s.stale

\* The global capability an item gives to its element.
GlobalCaps(c) == IF Global(c) THEN {Type(c)} ELSE {}

\* add_cap: a global item is put into the slots of both directions.
AddCap(s, m, e) ==
    LET t == Type(e.ctl)
        slots == IF Global(e.ctl) THEN {t, t + 1} ELSE {t}
    IN  [s EXCEPT !.items[m] = [i \in Slots |-> IF i \in slots THEN e
                                                ELSE s.items[m][i]],
                  !.caps[m] = @ \cup GlobalCaps(e.ctl),
                  !.private[e] = m,
                  !.cache[e] = value[e.ctl],
                  !.stale = @ \ {e}]

SameName(s, c) == {m \in s.pelems : s.sid[m].name = Desc[c].name}

\* The elements of that name whose slot is not occupied.
Vacant(s, c) == {m \in SameName(s, c) : s.items[m][Type(c)] = NoItem}

\* One more than the highest index in use.
\* mutant: the number of elements of that name
BugNewIndex(s, c) == Cardinality(SameName(s, c))
NewIndex(s, c) ==
    LET same == SameName(s, c)
    IN  CHOOSE i \in {s.sid[m].index + 1 : m \in same} \cup {0} :
            \A m \in same : s.sid[m].index < i

\* add_simple_element, for a driver that can read the control.  It fails when the
\* control has gone by now, or without memory; otherwise the first vacant element
\* takes the item, or a new one.
AddSimple(s, e) ==
    IF e \notin Present THEN {s}
    ELSE IF Vacant(s, e.ctl) # {}
    THEN {AddCap(s, m, e) : m \in {x \in Vacant(s, e.ctl) :
              \A y \in Vacant(s, e.ctl) : s.sid[x].index <= s.sid[y].index}}
    ELSE IF s.pelems = Elems THEN {s}
    ELSE {AddCap([s EXCEPT !.pelems = @ \cup {m},
                           !.sid[m] = [name |-> Desc[e.ctl].name,
                                       index |-> NewIndex(s, e.ctl)],
                           !.items[m] = NoItems, !.caps[m] = {}], m, e)
          : m \in Elems \ s.pelems}

\* The slots emptied with slot i: the other direction's too, if the element has
\* ever had a global item there.
Emptied(s, m, i) == IF i \in s.caps[m] THEN {i, i + 1} ELSE {i}

\* What decides that an element is to be freed.
BugUnused(slots) == TRUE  \* mutant: the other items are not looked at
BugUsed(slots) == FALSE   \* mutant: it is never freed
Unused(slots) == slots = NoItems

\* remove_simple_element: the first slot that holds the item is emptied; an
\* element without items is freed if that is asked for.
RemoveSimple(s, e, remove_mixer) ==
    LET m    == s.private[e]
        held == {i \in Slots : s.items[m][i] = e}
        i    == CHOOSE x \in held : \A y \in held : x <= y
        left == [x \in Slots |-> IF x \in Emptied(s, m, i) THEN NoItem
                                ELSE s.items[m][x]]
    IN  IF held = {} THEN s
        ELSE IF remove_mixer /\ Unused(left)
        THEN [s EXCEPT !.pelems = @ \ {m},
                       !.sid[m] = [name |-> NULL, index |-> 0],
                       !.items[m] = NoItems, !.caps[m] = {}]
        ELSE [s EXCEPT !.items[m] = left]

\* mutant: the value is not read again
BugUpdateSimple(s, m, e) == s

\* update_simple_element, for the item e of mixer element m, whose read fails if
\* the control has gone.
UpdateSimple(s, m, e) ==
    IF e \in Present /\ \E i \in Slots : s.items[m][i] = e
    THEN [s EXCEPT !.cache[e] = value[e.ctl], !.stale = @ \ {e}] ELSE s

\* update_selem_item reports no error when the driver fails to read the control:
\* the item keeps its value and the event is lost.
UpdateMissed(s, m, e) ==
    IF \E i \in Slots : s.items[m][i] = e THEN [s EXCEPT !.stale = @ \cup {e}] ELSE s

\* hctl_elem_event_handler for REMOVE, with an application's callback that
\* returns no error; snd_hctl_elem_remove then frees the control element.
\* mutant: the item is left in the mixer
BugRemoved(s, e) ==
    [s EXCEPT !.private[e] = NULL, !.cache[e] = 0, !.stale = @ \ {e}]

Removed(s, e) ==
    LET s1 == IF s.private[e] \notin s.pelems THEN s
              ELSE RemoveSimple(s, e, TRUE)
    IN  [s1 EXCEPT !.private[e] = NULL, !.cache[e] = 0, !.stale = @ \ {e}]

\* INFO takes the item out and puts it in again; errors are ignored.
Rebuilt(s, e) == AddSimple(RemoveSimple(s, e, FALSE), e)

\* hctl_elem_event_handler for INFO and VALUE.
Changed(s, e, mask) ==
    LET m == s.private[e]
        s1 == IF "INFO" \in mask THEN Rebuilt(s, e) ELSE {s}
    IN  IF m \notin s.pelems THEN {s}
        ELSE IF "VALUE" \in mask
        THEN UNION {{UpdateSimple(x, m, e), UpdateMissed(x, m, e)} : x \in s1}
        ELSE s1

-----------------------------------------------------------------------------
(* The kernel's steps, and those of the control interface with the mixer's  *)
(* callbacks run inside them.                                               *)

Appears(c) == ControlAppears(c) /\ UNCHANGED mvars

Vanishes(c) == ControlVanishes(c) /\ UNCHANGED mvars

\* A driver, or another process, changes a control's value.
Varies(c) ==
    /\ "VALUE" \in scenario.notes
    /\ ControlReports(c, "VALUE")
    /\ \E v \in scenario.values \ {value[c]} : value' = [value EXCEPT ![c] = v]
    /\ UNCHANGED <<pelems, sid, items, caps, private, cache, stale, goal>>

Rearranges(c) ==
    /\ "INFO" \in scenario.notes
    /\ ControlReports(c, "INFO")
    /\ UNCHANGED mvars

\* snd_mixer_load
LoadMixer == Load /\ UNCHANGED mvars

\* hctl_event_handler for ADD, whose errors snd_hctl_load ignores.
AnnounceItem(e) ==
    /\ Announce(e)
    /\ \E s \in AddSimple(State, e) : Becomes(s)
    /\ UNCHANGED <<value, goal>>

SubscribeMixer == Subscribe /\ UNCHANGED mvars

\* snd_mixer_handle_events
Read == ReadEvent /\ UNCHANGED mvars

RemoveItem(e) ==
    /\ HandleRemove(e)
    /\ Becomes(Removed(State, e))
    /\ UNCHANGED <<value, goal>>

\* The item of a new control is up to date already when VALUE or INFO follow.
AddItem ==
    /\ HandleAdd
    /\ \E s \in AddSimple(State, event.elem) : Becomes(s)
    /\ UNCHANGED <<value, goal>>

ChangeItem(e) ==
    /\ HandleChange(e)
    /\ \E s \in Changed(State, e, event.mask) : Becomes(s)
    /\ UNCHANGED <<value, goal>>

Ignore == HandleFails /\ UNCHANGED mvars

\* snd_mixer_free, and snd_hctl_close in snd_mixer_detach and snd_mixer_close.
FreeMixer(step) == FreeAll(step) /\ UNCHANGED mvars

FreeItem(e) ==
    /\ FreeOne(e)
    /\ Becomes(Removed(State, e))
    /\ UNCHANGED <<value, goal>>

FreeDone == (FreeEnd \/ CloseEnd) /\ UNCHANGED mvars

-----------------------------------------------------------------------------
(* _snd_selem_update_volume, update_switch and snd_mixer_selem_set_enum_item *)
(* for one channel: the item is set, then the control read, then written.   *)

SetItem(m, i, v) ==
    /\ pc = "idle"
    /\ m \in pelems
    /\ items[m][i] # NoItem
    /\ cache[items[m][i]] # v
    /\ cache' = [cache EXCEPT ![items[m][i]] = v]
    /\ goal' = [elem |-> items[m][i], val |-> v]
    /\ pc' = "set.read"
    /\ UNCHANGED <<kernel, list, todo, event, synced, value, pelems, sid, items,
                   caps, private, stale>>

ReadControl ==
    /\ pc = "set.read"
    /\ goal.elem \in Present
    /\ pc' = "set.write"
    /\ UNCHANGED <<kernel, list, todo, event, synced, mvars>>

WriteControl ==
    /\ pc = "set.write"
    /\ goal.elem \in Present
    /\ value' = [value EXCEPT ![goal.elem.ctl] = goal.val]
    /\ queue' = IF value[goal.elem.ctl] = goal.val THEN queue
                ELSE Notified(goal.elem, "VALUE")
    /\ pc' = "idle"
    /\ goal' = NoGoal
    /\ stale' = stale \ {goal.elem}
    /\ UNCHANGED <<scenario, numid, last, subscribed, list, todo, event, synced, pelems, sid,
                   items, caps, private, cache>>

\* The control has gone, its driver fails to read or write it, or it is locked by
\* another process: the error is returned and the item keeps the new value.
SetFails ==
    /\ pc \in {"set.read", "set.write"}
    /\ stale' = stale \cup {goal.elem}
    /\ pc' = "idle"
    /\ goal' = NoGoal
    /\ UNCHANGED <<kernel, list, todo, event, synced, value, pelems, sid, items,
                   caps, private, cache>>

Next ==
    \/ \E c \in Ctls : Appears(c) \/ Vanishes(c) \/ Varies(c) \/ Rearranges(c)
    \/ LoadMixer \/ SubscribeMixer \/ Read \/ AddItem \/ Ignore
    \/ \E e \in Elements : \/ AnnounceItem(e) \/ RemoveItem(e)
                           \/ ChangeItem(e) \/ FreeItem(e)
    \/ \E step \in {"free", "close"} : FreeMixer(step)
    \/ FreeDone
    \/ \E m \in Elems, i \in Slots, v \in scenario.values : SetItem(m, i, v)
    \/ ReadControl \/ WriteControl \/ SetFails

Spec == Init /\ [][Next]_vars

-----------------------------------------------------------------------------
(* Properties. *)

\* No control element points to a freed mixer element: the next event of that
\* control would be handled with it.
PrivateLive ==
    \A e \in list : private[e] # NULL => private[e] \in pelems

\* No item points to a freed control element, and every item is found through
\* its control element when that one is removed.
ItemsLive ==
    \A m \in pelems, i \in Slots : items[m][i] # NoItem =>
        items[m][i] \in list /\ private[items[m][i]] = m

\* snd_mixer_find_selem can find every element: name and index name just one.
SidUnique ==
    \A m, n \in pelems : sid[m] = sid[n] => m = n

\* Once all events have been handled no mixer element without items is left:
\* an element is removed when its last item is.  An INFO event whose control has
\* gone by the time it is handled takes the item out and leaves the element.
NoEmptyElem ==
    "INFO" \notin scenario.notes /\ pc = "idle" /\ queue = <<>> =>
        \A m \in pelems : items[m] # NoItems

\* Once all events have been handled every control of the device that no other
\* shares the identity of is an item of the mixer, and the item has the control's
\* value unless the last attempt to set it, or to read it for an event, failed:
\* then it keeps the value that was not written, or the old one.
MixerTrue ==
    pc = "idle" /\ subscribed /\ queue = <<>> /\ synced =>
        \A e \in Present : Alone(e.ctl) =>
            /\ \E m \in pelems : items[m][Type(e.ctl)] = e
            /\ e \in stale \/ cache[e] = value[e.ctl]
=============================================================================
