------------------------------ MODULE HControl ------------------------------
(***************************************************************************)
(* The high-level control interface (src/hcontrol.c) above a kernel        *)
(* control device.  The library keeps a list of the elements the device    *)
(* has.  It is filled once, by snd_hctl_load, and then follows the events  *)
(* that the kernel queues from the moment the library subscribes to them.  *)
(* Controls come and go, and change, between any two steps of the library. *)
(*                                                                         *)
(* The actions are those of the interface alone; the callbacks that the    *)
(* code runs inside them are added by Mixer, which extends this module.    *)
(***************************************************************************)
EXTENDS Naturals, Sequences

CONSTANTS
    Ctls,      \* controls, as the kernel tells them apart
    Ident,     \* control -> what snd_hctl_find_elem compares: interface, index
               \* and name, not device and subdevice
    MaxNumid,  \* bound: how many times a control appears
    Scenarios  \* what may happen: [ctls, the controls the device may have;
               \* numids, how many times one appears; notes, what drivers report
               \* of a control, "VALUE", "INFO" or both; values of controls]

ASSUME HControlConstants ==
    /\ MaxNumid \in Nat
    /\ \A s \in Scenarios : /\ s.ctls \subseteq Ctls /\ s.numids \in 0..MaxNumid
                             /\ s.notes \subseteq {"VALUE", "INFO"} /\ 0 \in s.values

VARIABLES
    scenario,    \* the member of Scenarios that this behaviour is
    numid,       \* kernel: control -> its numid, 0 while it does not exist
    last,        \* kernel: the last numid given out
    queue,       \* kernel: events not read yet
    subscribed,  \* kernel: events are queued for this file
    list,        \* hctl->first_elem ... last_elem; elements of one identity
                 \* come from one listing, so in the order of their numids
    pc,          \* the step reached in the call in progress
    todo,        \* elements snd_hctl_load has yet to announce
    event,       \* the event snd_hctl_handle_events has just read
    synced       \* nothing changed unreported since the list was loaded

hvars == <<scenario, numid, last, queue, subscribed, list, pc, todo, event, synced>>
kernel == <<scenario, numid, last, queue, subscribed>>

\* A snd_hctl_elem_t: the snd_ctl_elem_id_t it was created with.
Elements == [ctl : Ctls, numid : 1..MaxNumid]

\* The kernel knows an element by its numid only.
Present == {e \in Elements : numid[e.ctl] = e.numid}

NoEvent == [elem |-> [ctl |-> CHOOSE c \in Ctls : TRUE, numid |-> 0],
            mask |-> {}]

HInit == /\ scenario \in Scenarios
         /\ numid = [c \in Ctls |-> 0]
         /\ last = 0
         /\ queue = <<>>
         /\ subscribed = FALSE
         /\ list = {}
         /\ pc = "idle"
         /\ todo = {}
         /\ event = NoEvent
         /\ synced = FALSE

-----------------------------------------------------------------------------
(* The kernel.  Events of one numid that have not been read are merged; the *)
(* mask REMOVE is all ones and swallows the others.                          *)

Merged(old, m) == IF "REMOVE" \in old \cup {m} THEN {"REMOVE"} ELSE old \cup {m}

Notified(e, m) ==
    IF ~subscribed THEN queue
    ELSE IF \E i \in DOMAIN queue : queue[i].elem = e
    THEN [i \in DOMAIN queue |-> IF queue[i].elem = e
                                 THEN [elem |-> e, mask |-> Merged(queue[i].mask, m)]
                                 ELSE queue[i]]
    ELSE Append(queue, [elem |-> e, mask |-> {m}])

\* A change between the listing and SUBSCRIBE leaves no event.
Reported == synced /\ ~(pc = "load" /\ ~subscribed)

ControlAppears(c) ==
    /\ c \in scenario.ctls /\ numid[c] = 0
    /\ last < scenario.numids
    /\ last' = last + 1
    /\ numid' = [numid EXCEPT ![c] = last + 1]
    /\ queue' = Notified([ctl |-> c, numid |-> last + 1], "ADD")
    /\ synced' = Reported
    /\ UNCHANGED <<scenario, subscribed, list, pc, todo, event>>

ControlVanishes(c) ==
    /\ numid[c] # 0
    /\ numid' = [numid EXCEPT ![c] = 0]
    /\ queue' = Notified([ctl |-> c, numid |-> numid[c]], "REMOVE")
    /\ synced' = Reported
    /\ UNCHANGED <<scenario, last, subscribed, list, pc, todo, event>>

ControlReports(c, m) ==
    /\ numid[c] # 0
    /\ queue' = Notified([ctl |-> c, numid |-> numid[c]], m)
    /\ synced' = Reported
    /\ UNCHANGED <<scenario, numid, last, subscribed, list, pc, todo, event>>

-----------------------------------------------------------------------------
(* snd_hctl_load, called on an empty list: the kernel's list is copied,     *)
(* every element announced, and only then are events subscribed to.  Events *)
(* that an earlier subscription has left in the queue are not looked at.    *)

Load ==
    /\ pc = "idle"
    /\ list = {}
    /\ list' = Present
    /\ todo' = Present
    /\ synced' = (queue = <<>>)
    /\ pc' = "load"
    /\ UNCHANGED <<kernel, event>>

Announce(e) ==
    /\ pc = "load"
    /\ e \in todo
    /\ todo' = todo \ {e}
    /\ UNCHANGED <<kernel, list, pc, event, synced>>

Subscribe ==
    /\ pc = "load"
    /\ todo = {}
    /\ subscribed' = TRUE
    /\ pc' = "idle"
    /\ UNCHANGED <<scenario, numid, last, queue, list, todo, event, synced>>

-----------------------------------------------------------------------------
(* snd_hctl_handle_events: a loop of reading an event and handling it.  An  *)
(* error ends the loop; the events left are read by the next call.          *)

ReadEvent ==
    /\ pc = "idle"
    /\ queue # <<>>
    /\ event' = Head(queue)
    /\ queue' = Tail(queue)
    /\ pc' = "event"
    /\ UNCHANGED <<scenario, numid, last, subscribed, list, todo, synced>>

\* snd_hctl_find_elem goes by identity, whatever the numid and the device, ...
Found(c) == {e \in list : Ident[e.ctl] = Ident[c]}

\* ... and takes the first element of that identity.
First(c) == {e \in Found(c) : \A d \in Found(c) : e.numid <= d.numid}

Handled == /\ pc = "event"
           /\ pc' = "idle"
           /\ event' = NoEvent
           /\ UNCHANGED <<kernel, todo, synced>>

\* snd_hctl_handle_event and snd_hctl_elem_remove for REMOVE, ...
HandleRemove(e) ==
    /\ Handled
    /\ event.mask = {"REMOVE"}
    /\ e \in First(event.elem.ctl)
    /\ list' = list \ {e}

\* ... snd_hctl_elem_add for ADD, ...
\* mutant: the element is added whether or not there is one
BugHandleAdd ==
    /\ Handled
    /\ "ADD" \in event.mask
    /\ list' = list \cup {event.elem}

HandleAdd ==
    /\ Handled
    /\ "ADD" \in event.mask
    /\ Found(event.elem.ctl) = {}
    /\ list' = list \cup {event.elem}

\* ... the element's callback for VALUE and INFO, ...
HandleChange(e) ==
    /\ Handled
    /\ event.mask \subseteq {"VALUE", "INFO"}
    /\ e \in First(event.elem.ctl)
    /\ UNCHANGED list

\* ... and ENOENT or EBUSY.
HandleFails ==
    /\ Handled
    /\ IF "ADD" \in event.mask THEN Found(event.elem.ctl) # {}
       ELSE Found(event.elem.ctl) = {}
    /\ UNCHANGED list

-----------------------------------------------------------------------------
(* snd_hctl_free, alone or in snd_hctl_close: element by element.           *)

FreeAll(step) ==
    /\ pc = "idle"
    /\ pc' = step
    /\ synced' = FALSE
    /\ UNCHANGED <<kernel, list, todo, event>>

FreeOne(e) ==
    /\ pc \in {"free", "close"}
    /\ e \in list
    /\ list' = list \ {e}
    /\ UNCHANGED <<kernel, pc, todo, event, synced>>

FreeEnd ==
    /\ pc = "free"
    /\ list = {}
    /\ pc' = "idle"
    /\ UNCHANGED <<kernel, list, todo, event, synced>>

\* snd_ctl_close: the file and its queue are gone; snd_hctl_open starts anew.
CloseEnd ==
    /\ pc = "close"
    /\ list = {}
    /\ subscribed' = FALSE
    /\ queue' = <<>>
    /\ pc' = "idle"
    /\ UNCHANGED <<scenario, numid, last, list, todo, event, synced>>

-----------------------------------------------------------------------------
\* No other control has the identity of control c.
Alone(c) == \A d \in Ctls : Ident[d] = Ident[c] => d = c

\* The list never holds two elements of one control.  Once every event has been
\* handled it has those of the kernel's controls that no other shares the
\* identity of, and of those no others, provided that nothing changed between
\* the listing and the subscription of snd_hctl_load.  Where several controls
\* share an identity a removal may have dropped the wrong element, and an
\* addition have been refused because of another.
ListTrue ==
    /\ \A d, e \in list : d.ctl = e.ctl => d = e
    /\ pc = "idle" /\ subscribed /\ queue = <<>> /\ synced =>
           \A e \in Elements : Alone(e.ctl) => (e \in list <=> e \in Present)
=============================================================================
